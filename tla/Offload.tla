------------------------------ MODULE Offload -------------------------------
(* async_offload (core/helpers/Offload.h): a coroutine suspends while a     *)
(* function runs on the blocking thread_pool, and may be cancelled. Three   *)
(* parties touch the shared OffloadState: the io thread that initiates,     *)
(* cancels and completes, the worker that runs the function, and whatever   *)
(* still holds the state when a late signal arrives. The void and the value *)
(* branch of the template are the same protocol.                            *)
(*                                                                          *)
(* The io thread is one thread (io_context::run in main), so a posted       *)
(* handler is one action; workers run in between.                           *)
EXTENDS Naturals, Sequences, FiniteSets

CONSTANTS
  Ops,        \* calls of async_offload
  Workers,    \* threads of the blocking pool
  MaxCancels  \* bound: cancellation signals emitted for one call

ASSUME OffloadAssumption ==
  /\ IsFiniteSet(Ops)
  /\ Workers \in Nat
  /\ MaxCancels \in Nat

VARIABLES
  task,       \* where the posted function is: in the pool's queue, running, done
  poolQueue,  \* the pool's queue
  ioQueue,    \* handlers posted to the io executor, as <<call, kind>>
  cancelled,  \* st->cancelled
  completed,  \* st->completed
  verdict,    \* what the worker left in st->ep / st->result
  outcome,    \* what the coroutine was resumed with
  resumed,    \* history: how often the coroutine's handler was invoked
  emitting,   \* the call whose cancellation handler the io thread is inside of
  signals     \* history: cancellation signals emitted

vars == <<task, poolQueue, ioQueue, cancelled, completed, verdict, outcome,
          resumed, emitting, signals>>

TaskStates == {"none", "queued", "running", "done"}
Verdicts == {"none", "value", "error", "aborted"}
Kinds == {"abort", "finish"}

Posted(o, kind) == \E i \in DOMAIN ioQueue : ioQueue[i] = <<o, kind>>
Running == {o \in Ops : task[o] = "running"}

(* Somebody holds the shared_ptr<St>: the task, or a posted handler.        *)
Alive(o) ==
  task[o] \in {"queued", "running"} \/ \E kind \in Kinds : Posted(o, kind)

(* The io thread is between two handlers.                                   *)
IoFree == emitting = {}

TypeOK ==
  /\ task \in [Ops -> TaskStates]
  /\ poolQueue \in Seq(Ops)
  /\ ioQueue \in Seq(Ops \X Kinds)
  /\ cancelled \in [Ops -> BOOLEAN]
  /\ completed \in [Ops -> BOOLEAN]
  /\ verdict \in [Ops -> Verdicts]
  /\ outcome \in [Ops -> Verdicts]
  /\ resumed \in [Ops -> 0..1]
  /\ emitting \subseteq Ops
  /\ signals \in [Ops -> 0..MaxCancels]

Init ==
  /\ task = [o \in Ops |-> "none"]
  /\ poolQueue = <<>>
  /\ ioQueue = <<>>
  /\ cancelled = [o \in Ops |-> FALSE]
  /\ completed = [o \in Ops |-> FALSE]
  /\ verdict = [o \in Ops |-> "none"]
  /\ outcome = [o \in Ops |-> "none"]
  /\ resumed = [o \in Ops |-> 0]
  /\ emitting = {}
  /\ signals = [o \in Ops |-> 0]
-----------------------------------------------------------------------------
(* The coroutine suspends: state made, slot assigned, function posted.      *)
Initiate(o) ==
  /\ IoFree
  /\ task[o] = "none"
  /\ task' = [task EXCEPT ![o] = "queued"]
  /\ poolQueue' = Append(poolQueue, o)
  /\ UNCHANGED <<ioQueue, cancelled, completed, verdict, outcome, resumed, emitting, signals>>

(* A cancellation signal, of which the slot may get several, the last ones  *)
(* after the coroutine went on, as long as the state is alive. Workers run  *)
(* between the store and the post, so a completion can be posted in front   *)
(* of the abort that made it skip its function.                             *)
Cancel(o) ==
  /\ IoFree
  /\ Alive(o)
  /\ signals[o] < MaxCancels
  /\ signals' = [signals EXCEPT ![o] = @ + 1]
  /\ cancelled' = [cancelled EXCEPT ![o] = TRUE]
  /\ emitting' = {o}
  /\ UNCHANGED <<task, poolQueue, ioQueue, completed, verdict, outcome, resumed>>

PostAbort(o) ==
  /\ o \in emitting
  /\ emitting' = {}
  /\ ioQueue' = Append(ioQueue, <<o, "abort">>)
  /\ UNCHANGED <<task, poolQueue, cancelled, completed, verdict, outcome, resumed,
                 signals>>

(* A free worker takes the next function. The load of cancelled is relaxed: *)
(* it may miss a store the io thread has made, but never invents one.       *)
Take(o) ==
  /\ poolQueue # <<>>
  /\ o = Head(poolQueue)
  /\ Cardinality(Running) < Workers
  /\ poolQueue' = Tail(poolQueue)

StartFunction(o) ==
  /\ Take(o)
  /\ task' = [task EXCEPT ![o] = "running"]
  /\ UNCHANGED <<ioQueue, cancelled, completed, verdict, outcome, resumed, emitting, signals>>

Finish(o, v) ==
  /\ task' = [task EXCEPT ![o] = "done"]
  /\ verdict' = [verdict EXCEPT ![o] = v]
  /\ ioQueue' = Append(ioQueue, <<o, "finish">>)

\* Faulty variant: st->ep is not set when the function is skipped.
SkipWithoutError(o) ==
  /\ Take(o)
  /\ cancelled[o]
  /\ Finish(o, "none")
  /\ UNCHANGED <<cancelled, completed, outcome, resumed, emitting, signals>>

SkipFunction(o) ==
  /\ Take(o)
  /\ cancelled[o]
  /\ Finish(o, "aborted")
  /\ UNCHANGED <<cancelled, completed, outcome, resumed, emitting, signals>>

\* Faulty variant: an exception of func() escapes past the post.
EndFunctionPostingValues(o) ==
  /\ task[o] = "running"
  /\ \/ Finish(o, "value")
     \/ /\ task' = [task EXCEPT ![o] = "done"]
        /\ verdict' = [verdict EXCEPT ![o] = "error"]
        /\ UNCHANGED ioQueue
  /\ UNCHANGED <<poolQueue, cancelled, completed, outcome, resumed, emitting, signals>>

(* func() returns a value or throws, and the completion is posted.          *)
EndFunction(o) ==
  /\ task[o] = "running"
  /\ \E v \in {"value", "error"} : Finish(o, v)
  /\ UNCHANGED <<poolQueue, cancelled, completed, outcome, resumed, emitting, signals>>
-----------------------------------------------------------------------------
(* The io thread runs a posted completion: whichever exchanges completed    *)
(* first moves the handler out and invokes it, the other returns.           *)

\* Faulty variant: completed is stored, not exchanged.
ResumeWithoutCheck(o, v) ==
  /\ completed' = [completed EXCEPT ![o] = TRUE]
  /\ outcome' = [outcome EXCEPT ![o] = v]
  /\ resumed' = [resumed EXCEPT ![o] = @ + 1]

Resume(o, v) ==
  \/ /\ completed[o]
     /\ UNCHANGED <<completed, outcome, resumed>>
  \/ /\ ~completed[o]
     /\ completed' = [completed EXCEPT ![o] = TRUE]
     /\ outcome' = [outcome EXCEPT ![o] = v]
     /\ resumed' = [resumed EXCEPT ![o] = @ + 1]

RunPosted ==
  /\ IoFree
  /\ ioQueue # <<>>
  /\ ioQueue' = Tail(ioQueue)
  /\ LET o == Head(ioQueue)[1] IN
       \/ Head(ioQueue)[2] = "abort" /\ Resume(o, "aborted")
       \/ Head(ioQueue)[2] = "finish" /\ Resume(o, verdict[o])
  /\ UNCHANGED <<task, poolQueue, cancelled, verdict, emitting, signals>>

Next ==
  \/ \E o \in Ops :
       \/ Initiate(o) \/ Cancel(o) \/ PostAbort(o)
       \/ StartFunction(o) \/ SkipFunction(o) \/ EndFunction(o)
  \/ RunPosted

(* Workers take what is queued, functions end (they hash or verify a        *)
(* password, or store a file), and the event loop runs what is posted.      *)
Fairness ==
  /\ \A o \in Ops : WF_vars(StartFunction(o) \/ SkipFunction(o)) /\ WF_vars(EndFunction(o))
  /\ \A o \in Ops : WF_vars(PostAbort(o))
  /\ WF_vars(RunPosted)

Spec == Init /\ [][Next]_vars
FairSpec == Spec /\ Fairness
-----------------------------------------------------------------------------
(* The coroutine is resumed at most once, however many cancellation signals *)
(* meet the completion; a second call would be of a moved-out handler.      *)
ResumedOnce == \A o \in Ops : resumed[o] = IF completed[o] THEN 1 ELSE 0

(* What the coroutine gets is true: a value or an error is the one its      *)
(* function ended with, an abort has a cancellation behind it, and it is    *)
(* never resumed with neither, which would make it read an empty result.    *)
OutcomeTrue ==
  \A o \in Ops :
    /\ completed[o] => outcome[o] # "none"
    /\ outcome[o] \in {"value", "error"} => verdict[o] = outcome[o]
    /\ outcome[o] = "aborted" => cancelled[o]

(* Nobody is left suspended without a handler on its way: the task is with  *)
(* the pool or its completion is posted, even if func() throws.             *)
NeverForgotten ==
  \A o \in Ops : task[o] # "none" /\ ~completed[o] =>
    task[o] \in {"queued", "running"} \/ Posted(o, "finish")

(* The abstract operation: asked for, answered once, and never unanswered.  *)
Status ==
  [o \in Ops |-> IF task[o] = "none" THEN "idle"
                 ELSE IF completed[o] THEN outcome[o] ELSE "pending"]
Promise == INSTANCE OneShot WITH Calls <- Ops, status <- Status
ImplementsOneShot == Promise!Spec

(* Every suspended coroutine is resumed.                                    *)
EveryCallAnswered ==
  \A o \in Ops : task[o] # "none" ~> completed[o]
=============================================================================
