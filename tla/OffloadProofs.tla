---------------------------- MODULE OffloadProofs ---------------------------
(* Theorems about Offload for any number of calls, workers and signals.     *)
EXTENDS Offload, TLAPS

(* Where one call stands: what the worker left tells how far its task is, a *)
(* posted handler tells what was done before it was posted, and the three   *)
(* records of a completion (flag, outcome, count) agree. None of the        *)
(* properties is inductive without the first two: the outcome is read from  *)
(* the verdict only when the posted completion runs.                        *)
CallInv(o) ==
  /\ verdict[o] = "none" <=> task[o] # "done"
  /\ Posted(o, "finish") => task[o] = "done"
  /\ Posted(o, "abort") \/ o \in emitting \/ verdict[o] = "aborted" => cancelled[o]
  /\ cancelled[o] \/ completed[o] => task[o] # "none"
  /\ ~completed[o] => outcome[o] = "none"

(* The pool holds exactly functions not yet begun, each once.               *)
PoolQueueInv ==
  /\ \A i \in DOMAIN poolQueue : task[poolQueue[i]] = "queued"
  /\ \A i, j \in DOMAIN poolQueue : poolQueue[i] = poolQueue[j] => i = j

OffloadInv ==
  /\ TypeOK
  /\ PoolQueueInv
  /\ \A o \in Ops : CallInv(o)
  /\ ResumedOnce
  /\ OutcomeTrue
  /\ NeverForgotten
-----------------------------------------------------------------------------
(* Posting a handler adds it and nothing else.                              *)
LEMMA PostAdds ==
  ASSUME ioQueue \in Seq(Ops \X Kinds), NEW p \in Ops, NEW kind \in Kinds,
         ioQueue' = Append(ioQueue, <<p, kind>>)
  PROVE  \A o, k : Posted(o, k)' <=> Posted(o, k) \/ (o = p /\ k = kind)
<1>1. /\ Len(ioQueue) \in Nat /\ DOMAIN ioQueue = 1..Len(ioQueue)
      /\ DOMAIN ioQueue' = 1..Len(ioQueue) + 1
      /\ \A i \in 1..Len(ioQueue) : ioQueue'[i] = ioQueue[i]
      /\ ioQueue'[Len(ioQueue) + 1] = <<p, kind>>
  OBVIOUS
<1>2. ASSUME NEW o, NEW k, Posted(o, k)', ~(o = p /\ k = kind)
      PROVE  Posted(o, k)
  <2>1. PICK i \in 1..Len(ioQueue) + 1 : ioQueue'[i] = <<o, k>>
    BY <1>1, <1>2 DEF Posted
  <2>2. i \in 1..Len(ioQueue)
    BY <1>1, <1>2, <2>1
  <2> QED
    BY <1>1, <2>1, <2>2 DEF Posted
<1>3. ASSUME NEW o, NEW k, Posted(o, k)
      PROVE  Posted(o, k)'
  <2>1. PICK i \in 1..Len(ioQueue) : ioQueue[i] = <<o, k>>
    BY <1>1, <1>3 DEF Posted
  <2>2. i \in DOMAIN ioQueue' /\ ioQueue'[i] = <<o, k>>
    BY <1>1, <2>1
  <2> QED
    BY <2>2 DEF Posted
<1>4. Posted(p, kind)'
  <2>1. Len(ioQueue) + 1 \in DOMAIN ioQueue'
    BY <1>1
  <2> QED
    BY <1>1, <2>1 DEF Posted
<1> QED
  BY <1>2, <1>3, <1>4

(* Running the first posted handler removes no other one.                   *)
LEMMA RunRemoves ==
  ASSUME ioQueue \in Seq(Ops \X Kinds), ioQueue # <<>>, ioQueue' = Tail(ioQueue)
  PROVE  /\ Head(ioQueue) \in Ops \X Kinds
         /\ Posted(Head(ioQueue)[1], Head(ioQueue)[2])
         /\ \A o, k : Posted(o, k)' => Posted(o, k)
         /\ \A o, k : Posted(o, k) => Posted(o, k)' \/ <<o, k>> = Head(ioQueue)
<1>1. /\ Len(ioQueue) \in Nat /\ DOMAIN ioQueue = 1..Len(ioQueue)
      /\ DOMAIN ioQueue' = 1..Len(ioQueue) - 1
      /\ \A i \in 1..Len(ioQueue) - 1 : ioQueue'[i] = ioQueue[i + 1]
      /\ Head(ioQueue) = ioQueue[1] /\ 1 \in 1..Len(ioQueue)
  OBVIOUS
<1>2. Head(ioQueue) \in Ops \X Kinds
  BY <1>1
<1>3. Posted(Head(ioQueue)[1], Head(ioQueue)[2])
  BY <1>1, <1>2 DEF Posted
<1>4. ASSUME NEW o, NEW k, Posted(o, k)'
      PROVE  Posted(o, k)
  <2>1. PICK i \in 1..Len(ioQueue) - 1 : ioQueue'[i] = <<o, k>>
    BY <1>1, <1>4 DEF Posted
  <2>2. i + 1 \in 1..Len(ioQueue) /\ ioQueue[i + 1] = <<o, k>>
    BY <1>1, <2>1
  <2> QED
    BY <1>1, <2>2 DEF Posted
<1>5. ASSUME NEW o, NEW k, Posted(o, k), <<o, k>> # Head(ioQueue)
      PROVE  Posted(o, k)'
  <2>1. PICK i \in 1..Len(ioQueue) : ioQueue[i] = <<o, k>>
    BY <1>1, <1>5 DEF Posted
  <2>2. i - 1 \in 1..Len(ioQueue) - 1 /\ ioQueue'[i - 1] = <<o, k>>
    BY <1>1, <1>5, <2>1
  <2> QED
    BY <1>1, <2>2 DEF Posted
<1> QED
  BY <1>2, <1>3, <1>4, <1>5

(* Taking the first function of the pool leaves functions not begun.        *)
LEMMA TakeOne ==
  ASSUME TypeOK, PoolQueueInv, NEW o \in Ops, Take(o),
         NEW stage \in {"running", "done"}, task' = [task EXCEPT ![o] = stage]
  PROVE  /\ task[o] = "queued"
         /\ poolQueue' \in Seq(Ops)
         /\ PoolQueueInv'
<1>1. /\ Len(poolQueue) \in Nat /\ DOMAIN poolQueue = 1..Len(poolQueue)
      /\ DOMAIN poolQueue' = 1..Len(poolQueue) - 1
      /\ \A i \in 1..Len(poolQueue) - 1 : poolQueue'[i] = poolQueue[i + 1]
      /\ \A i \in 1..Len(poolQueue) : poolQueue[i] \in Ops
      /\ o = poolQueue[1] /\ 1 \in 1..Len(poolQueue)
      /\ poolQueue' \in Seq(Ops)
  BY DEF Take, TypeOK
<1>2. \A i \in 1..Len(poolQueue) - 1 :
        /\ i + 1 \in 1..Len(poolQueue)
        /\ poolQueue'[i] = poolQueue[i + 1]
        /\ poolQueue[i + 1] # o
  BY <1>1 DEF PoolQueueInv
<1>3. \A q \in Ops : q # o => task'[q] = task[q]
  BY DEF TypeOK
<1>4. \A i \in DOMAIN poolQueue' : task'[poolQueue'[i]] = "queued"
  BY <1>1, <1>2, <1>3 DEF PoolQueueInv
<1>5. ASSUME NEW i \in DOMAIN poolQueue', NEW j \in DOMAIN poolQueue',
             poolQueue'[i] = poolQueue'[j]
      PROVE  i = j
  <2>0. /\ i + 1 \in DOMAIN poolQueue /\ j + 1 \in DOMAIN poolQueue
        /\ poolQueue[i + 1] = poolQueue[j + 1]
    BY <1>1, <1>2, <1>5
  <2>1. \A k, l \in DOMAIN poolQueue : poolQueue[k] = poolQueue[l] => k = l
    BY DEF PoolQueueInv
  <2>2. i + 1 = j + 1
    BY <2>0, <2>1
  <2> QED
    BY <1>1, <2>2
<1> QED
  BY <1>1, <1>4, <1>5 DEF PoolQueueInv

(* A task whose end is recorded and posted: the invariant holds of it and   *)
(* of every other call.                                                     *)
LEMMA FinishKeeps ==
  ASSUME OffloadInv, NEW o \in Ops, task[o] \in {"queued", "running"},
         NEW v \in {"value", "error", "aborted"}, Finish(o, v),
         v = "aborted" => cancelled[o],
         poolQueue' \in Seq(Ops), PoolQueueInv',
         UNCHANGED <<cancelled, completed, outcome, resumed, emitting, signals>>
  PROVE  OffloadInv'
<1> USE DEF OffloadInv
<1>1. \A q, k : Posted(q, k)' <=> Posted(q, k) \/ (q = o /\ k = "finish")
  BY PostAdds DEF Finish, TypeOK, Kinds
<1>2. \A q \in Ops : /\ task'[q] = IF q = o THEN "done" ELSE task[q]
                     /\ verdict'[q] = IF q = o THEN v ELSE verdict[q]
  BY DEF Finish, TypeOK
<1>3. TypeOK'
  BY DEF Finish, TypeOK, TaskStates, Verdicts, Kinds
<1>4. ASSUME NEW q \in Ops PROVE CallInv(q)'
  BY <1>1, <1>2 DEF CallInv
<1>5. ResumedOnce' /\ OutcomeTrue'
  BY <1>2 DEF ResumedOnce, OutcomeTrue, CallInv
<1>6. NeverForgotten'
  BY <1>1, <1>2 DEF NeverForgotten
<1> QED
  BY <1>3, <1>4, <1>5, <1>6
(* Every step keeps the invariant.                                          *)
LEMMA OffloadStep ==
  ASSUME OffloadInv, [Next]_vars
  PROVE  OffloadInv'
<1> USE DEF OffloadInv
<1>1. ASSUME NEW o \in Ops, Initiate(o)
      PROVE  OffloadInv'
  <2> USE <1>1 DEF Initiate
  <2>1. \A q, k : Posted(q, k)' <=> Posted(q, k)
    BY DEF Posted
  <2>2. \A q \in Ops : task'[q] = IF q = o THEN "queued" ELSE task[q]
    BY DEF TypeOK
  <2>3. TypeOK'
    BY DEF TypeOK, TaskStates
  <2>4. PoolQueueInv'
    <3>1. /\ Len(poolQueue) \in Nat /\ DOMAIN poolQueue = 1..Len(poolQueue)
          /\ DOMAIN poolQueue' = 1..Len(poolQueue) + 1
          /\ \A i \in 1..Len(poolQueue) :
               poolQueue'[i] = poolQueue[i] /\ poolQueue[i] \in Ops
          /\ poolQueue'[Len(poolQueue) + 1] = o
      BY DEF TypeOK
    <3>2. \A i \in 1..Len(poolQueue) : poolQueue[i] # o
      BY <3>1 DEF PoolQueueInv
    <3>3. \A i : i \in DOMAIN poolQueue' <=>
                   i \in 1..Len(poolQueue) \/ i = Len(poolQueue) + 1
      BY <3>1
    <3> QED
      BY <3>1, <3>2, <3>3, <2>2 DEF PoolQueueInv
  <2>5. ASSUME NEW q \in Ops PROVE CallInv(q)'
    BY <2>1, <2>2 DEF CallInv
  <2>6. ResumedOnce' /\ OutcomeTrue'
    BY DEF ResumedOnce, OutcomeTrue
  <2>7. NeverForgotten'
    BY <2>1, <2>2 DEF NeverForgotten
  <2> QED
    BY <2>3, <2>4, <2>5, <2>6, <2>7
<1>2. ASSUME NEW o \in Ops, Cancel(o)
      PROVE  OffloadInv'
  <2> USE <1>2 DEF Cancel
  <2>1. \A q, k : Posted(q, k)' <=> Posted(q, k)
    BY DEF Posted
  <2>2. task[o] # "none"
    BY DEF Alive, CallInv, Kinds
  <2>3. \A q \in Ops : cancelled'[q] = IF q = o THEN TRUE ELSE cancelled[q]
    BY DEF TypeOK
  <2>4. TypeOK'
    BY OffloadAssumption DEF TypeOK
  <2>5. ASSUME NEW q \in Ops PROVE CallInv(q)'
    BY <2>1, <2>2, <2>3 DEF CallInv, IoFree
  <2>6. PoolQueueInv' /\ ResumedOnce' /\ OutcomeTrue'
    BY <2>3 DEF PoolQueueInv, ResumedOnce, OutcomeTrue
  <2>7. NeverForgotten'
    BY <2>1 DEF NeverForgotten
  <2> QED
    BY <2>4, <2>5, <2>6, <2>7
<1>3. ASSUME NEW o \in Ops, PostAbort(o)
      PROVE  OffloadInv'
  <2> USE <1>3 DEF PostAbort
  <2>1. \A q, k : Posted(q, k)' <=> Posted(q, k) \/ (q = o /\ k = "abort")
    BY PostAdds DEF TypeOK, Kinds
  <2>2. TypeOK'
    BY DEF TypeOK, Kinds
  <2>3. ASSUME NEW q \in Ops PROVE CallInv(q)'
    BY <2>1 DEF CallInv
  <2>4. PoolQueueInv' /\ ResumedOnce' /\ OutcomeTrue'
    BY DEF PoolQueueInv, ResumedOnce, OutcomeTrue
  <2>5. NeverForgotten'
    BY <2>1 DEF NeverForgotten
  <2> QED
    BY <2>2, <2>3, <2>4, <2>5
<1>4. ASSUME NEW o \in Ops, StartFunction(o)
      PROVE  OffloadInv'
  <2> USE <1>4 DEF StartFunction
  <2>1. \A q, k : Posted(q, k)' <=> Posted(q, k)
    BY DEF Posted
  <2>2. task[o] = "queued" /\ poolQueue' \in Seq(Ops) /\ PoolQueueInv'
    BY TakeOne
  <2>3. \A q \in Ops : task'[q] = IF q = o THEN "running" ELSE task[q]
    BY DEF TypeOK
  <2>4. TypeOK'
    BY <2>2 DEF TypeOK, TaskStates
  <2>5. ASSUME NEW q \in Ops PROVE CallInv(q)'
    BY <2>1, <2>2, <2>3 DEF CallInv
  <2>6. ResumedOnce' /\ OutcomeTrue'
    BY DEF ResumedOnce, OutcomeTrue
  <2>7. NeverForgotten'
    BY <2>1, <2>3 DEF NeverForgotten
  <2> QED
    BY <2>2, <2>4, <2>5, <2>6, <2>7
<1>5. ASSUME NEW o \in Ops, SkipFunction(o)
      PROVE  OffloadInv'
  <2>1. task' = [task EXCEPT ![o] = "done"]
    BY <1>5 DEF SkipFunction, Finish
  <2>2. task[o] = "queued" /\ poolQueue' \in Seq(Ops) /\ PoolQueueInv'
    BY <1>5, <2>1, TakeOne DEF SkipFunction
  <2> QED
    BY <1>5, <2>2, FinishKeeps DEF SkipFunction
<1>6. ASSUME NEW o \in Ops, EndFunction(o)
      PROVE  OffloadInv'
  <2>1. PICK v \in {"value", "error"} : Finish(o, v)
    BY <1>6 DEF EndFunction
  <2>2. poolQueue' \in Seq(Ops) /\ poolQueue' = poolQueue
    BY <1>6 DEF EndFunction, TypeOK
  <2>3. PoolQueueInv'
    <3>1. /\ \A i \in DOMAIN poolQueue : poolQueue[i] \in Ops /\ poolQueue[i] # o
          /\ \A q \in Ops : q # o => task'[q] = task[q]
      BY <1>6, <2>1 DEF EndFunction, Finish, TypeOK, PoolQueueInv
    <3> QED
      BY <2>2, <3>1 DEF PoolQueueInv
  <2> QED
    BY <1>6, <2>1, <2>2, <2>3, FinishKeeps DEF EndFunction
<1>7. CASE RunPosted
  <2> DEFINE o == Head(ioQueue)[1]
             kind == Head(ioQueue)[2]
  <2>1. /\ ioQueue \in Seq(Ops \X Kinds) /\ ioQueue # <<>>
        /\ ioQueue' = Tail(ioQueue)
        /\ UNCHANGED <<task, poolQueue, cancelled, verdict, emitting, signals>>
    BY <1>7 DEF RunPosted, TypeOK
  <2>2. /\ o \in Ops /\ kind \in Kinds /\ Head(ioQueue) = <<o, kind>>
        /\ Posted(o, kind)
        /\ \A q, k : Posted(q, k)' => Posted(q, k)
        /\ \A q, k : Posted(q, k) => Posted(q, k)' \/ <<q, k>> = <<o, kind>>
    <3> HIDE DEF o, kind
    <3>1. Head(ioQueue) \in Ops \X Kinds
      BY <2>1, RunRemoves
    <3>2. o \in Ops /\ kind \in Kinds /\ Head(ioQueue) = <<o, kind>>
      BY <3>1 DEF o, kind
    <3> QED
      BY <2>1, <3>2, RunRemoves DEF o, kind
  <2>3. PICK v \in Verdicts : /\ Resume(o, v)
                              /\ \/ v = "aborted" /\ kind = "abort"
                                 \/ v = verdict[o] /\ kind = "finish"
    <3>1. \/ kind = "abort" /\ Resume(o, "aborted")
          \/ kind = "finish" /\ Resume(o, verdict[o])
      BY <1>7 DEF RunPosted
    <3> HIDE DEF o, kind
    <3>2. "aborted" \in Verdicts /\ verdict[o] \in Verdicts
      BY <2>2 DEF TypeOK, Verdicts
    <3>3. CASE kind = "abort" /\ Resume(o, "aborted")
      BY <3>2, <3>3
    <3>4. CASE kind = "finish" /\ Resume(o, verdict[o])
      BY <3>2, <3>4
    <3> QED
      BY <3>1, <3>3, <3>4
  <2> HIDE DEF o, kind
  <2>4. /\ task[o] # "none" /\ v # "none"
        /\ v = "aborted" => cancelled[o]
        /\ v # "aborted" => v = verdict[o]
    BY <2>2, <2>3 DEF CallInv
  <2>5. CASE completed[o] /\ UNCHANGED <<completed, outcome, resumed>>
    <3>1. TypeOK'
      BY <2>1, <2>5 DEF TypeOK
    <3>2. ASSUME NEW q \in Ops PROVE CallInv(q)'
      BY <2>1, <2>2, <2>5 DEF CallInv
    <3>3. PoolQueueInv' /\ ResumedOnce' /\ OutcomeTrue'
      BY <2>1, <2>5 DEF PoolQueueInv, ResumedOnce, OutcomeTrue
    <3>4. NeverForgotten'
      BY <2>1, <2>2, <2>5 DEF NeverForgotten
    <3> QED
      BY <3>1, <3>2, <3>3, <3>4
  <2>6. CASE /\ ~completed[o]
             /\ completed' = [completed EXCEPT ![o] = TRUE]
             /\ outcome' = [outcome EXCEPT ![o] = v]
             /\ resumed' = [resumed EXCEPT ![o] = @ + 1]
    <3>0. \A q \in Ops :
            /\ completed'[q] = IF q = o THEN TRUE ELSE completed[q]
            /\ outcome'[q] = IF q = o THEN v ELSE outcome[q]
            /\ resumed'[q] = IF q = o THEN 1 ELSE resumed[q]
      BY <2>2, <2>6 DEF TypeOK, ResumedOnce
    <3>1. TypeOK'
      <4>1. resumed[o] = 0
        BY <2>2, <2>6 DEF ResumedOnce
      <4> QED
        BY <2>1, <2>2, <2>6, <4>1 DEF TypeOK
    <3>2. ASSUME NEW q \in Ops PROVE CallInv(q)'
      BY <2>1, <2>2, <2>4, <3>0 DEF CallInv
    <3>3. PoolQueueInv'
      BY <2>1 DEF PoolQueueInv
    <3>4. ResumedOnce'
      BY <3>0 DEF ResumedOnce
    <3>5. OutcomeTrue'
      BY <2>1, <2>4, <3>0 DEF OutcomeTrue, TypeOK, Verdicts
    <3>6. NeverForgotten'
      BY <2>1, <2>2, <3>0 DEF NeverForgotten
    <3> QED
      BY <3>1, <3>2, <3>3, <3>4, <3>5, <3>6
  <2> QED
    BY <2>3, <2>5, <2>6 DEF Resume
<1>8. CASE UNCHANGED vars
  <2>1. \A q, k : Posted(q, k)' <=> Posted(q, k)
    BY <1>8 DEF vars, Posted
  <2>2. TypeOK' /\ PoolQueueInv' /\ ResumedOnce' /\ OutcomeTrue'
    BY <1>8 DEF vars, TypeOK, PoolQueueInv, ResumedOnce, OutcomeTrue
  <2>3. NeverForgotten' /\ \A q \in Ops : CallInv(q)'
    BY <1>8, <2>1 DEF vars, NeverForgotten, CallInv
  <2> QED
    BY <2>2, <2>3
<1> QED
  BY <1>1, <1>2, <1>3, <1>4, <1>5, <1>6, <1>7, <1>8 DEF Next
(* The invariant holds in every reachable state.                            *)
LEMMA OffloadInvariant == Spec => []OffloadInv
<1>1. ASSUME Init PROVE OffloadInv
  <2>1. TypeOK
    BY <1>1, OffloadAssumption DEF Init, TypeOK, TaskStates, Verdicts, Kinds
  <2>2. \A o, k : ~Posted(o, k)
    BY <1>1 DEF Init, Posted
  <2>3. PoolQueueInv /\ ResumedOnce /\ OutcomeTrue
    BY <1>1 DEF Init, PoolQueueInv, ResumedOnce, OutcomeTrue
  <2>4. NeverForgotten /\ \A o \in Ops : CallInv(o)
    BY <1>1, <2>2 DEF Init, NeverForgotten, CallInv
  <2> QED
    BY <2>1, <2>3, <2>4 DEF OffloadInv
<1>2. OffloadInv /\ [Next]_vars => OffloadInv'
  BY OffloadStep
<1> QED
  BY <1>1, <1>2, PTL DEF Spec

(* The types of Offload.h's state; with them, that a handler is invoked at  *)
(* most once.                                                               *)
THEOREM OffloadTypeCorrect == Spec => []TypeOK
<1>1. OffloadInv => TypeOK
  BY DEF OffloadInv
<1> QED
  BY <1>1, OffloadInvariant, PTL

(* However many signals race the completion, the coroutine is resumed once, *)
(* and completed says so.                                                   *)
THEOREM CoroutineResumedOnce == Spec => []ResumedOnce
<1>1. OffloadInv => ResumedOnce
  BY DEF OffloadInv
<1> QED
  BY <1>1, OffloadInvariant, PTL

(* The coroutine is never given another outcome than its function's or an   *)
(* abort somebody asked for.                                                *)
THEOREM OutcomesAreTrue == Spec => []OutcomeTrue
<1>1. OffloadInv => OutcomeTrue
  BY DEF OffloadInv
<1> QED
  BY <1>1, OffloadInvariant, PTL

(* No suspended coroutine is without a task or a posted completion.         *)
THEOREM NobodyForgotten == Spec => []NeverForgotten
<1>1. OffloadInv => NeverForgotten
  BY DEF OffloadInv
<1> QED
  BY <1>1, OffloadInvariant, PTL
-----------------------------------------------------------------------------
(* A step of Offload asks, answers, or leaves every call as it stands.      *)
LEMMA OneShotStep ==
  ASSUME OffloadInv, OffloadInv', [Next]_vars
  PROVE  [Promise!Next]_(Status)
<1> USE DEF OffloadInv
<1> DEFINE View(o) == IF task[o] = "none" THEN "idle"
                      ELSE IF completed[o] THEN outcome[o] ELSE "pending"
<1>1. Status = [o \in Ops |-> View(o)] /\ Status' = [o \in Ops |-> View(o)']
  BY DEF Status
<1>2. ASSUME NEW o \in Ops, Initiate(o)
      PROVE  Promise!Ask(o)
  <2>1. \A q \in Ops : task'[q] = IF q = o THEN "queued" ELSE task[q]
    BY <1>2 DEF Initiate, TypeOK
  <2>2. task[o] = "none" /\ ~completed[o] /\ UNCHANGED <<completed, outcome>>
    BY <1>2 DEF Initiate, CallInv
  <2>3. \A q \in Ops : View(q)' = IF q = o THEN "pending" ELSE View(q)
    BY <2>1, <2>2
  <2> QED
    BY <1>1, <2>2, <2>3 DEF Promise!Ask
<1>3. ASSUME UNCHANGED <<completed, outcome>>,
             \A o \in Ops : task'[o] = "none" <=> task[o] = "none"
      PROVE  UNCHANGED Status
  BY <1>1, <1>3
<1>4. ASSUME NEW o \in Ops, Cancel(o) \/ PostAbort(o)
      PROVE  UNCHANGED Status
  BY <1>3, <1>4 DEF Cancel, PostAbort
<1>5. ASSUME NEW o \in Ops, StartFunction(o) \/ SkipFunction(o) \/ EndFunction(o)
      PROVE  UNCHANGED Status
  <2>1. task[o] # "none"
    BY <1>5, TakeOne DEF StartFunction, SkipFunction, EndFunction, Finish
  <2>2. PICK stage \in {"running", "done"} : task' = [task EXCEPT ![o] = stage]
    BY <1>5 DEF StartFunction, SkipFunction, EndFunction, Finish
  <2>3. \A q \in Ops : task'[q] = "none" <=> task[q] = "none"
    BY <2>1, <2>2 DEF TypeOK
  <2> QED
    BY <1>3, <1>5, <2>3 DEF StartFunction, SkipFunction, EndFunction
<1>6. CASE RunPosted
  <2>1. PICK o \in Ops, v \in Verdicts : Resume(o, v)
    <3>1. Head(ioQueue) \in Ops \X Kinds
      BY <1>6, RunRemoves DEF RunPosted, TypeOK
    <3>2. "aborted" \in Verdicts /\ \A o \in Ops : verdict[o] \in Verdicts
      BY DEF TypeOK, Verdicts
    <3> QED
      BY <1>6, <3>1, <3>2 DEF RunPosted
  <2>2. UNCHANGED task
    BY <1>6 DEF RunPosted
  <2>3. CASE completed[o]
    BY <1>3, <2>1, <2>2, <2>3 DEF Resume
  <2>4. CASE ~completed[o]
    <3>1. \A q \in Ops :
            /\ completed'[q] = IF q = o THEN TRUE ELSE completed[q]
            /\ outcome'[q] = IF q = o THEN v ELSE outcome[q]
      BY <2>1, <2>4 DEF Resume, TypeOK
    <3>2. task[o] # "none" /\ v \in Promise!Answers
      BY <2>2, <3>1 DEF CallInv, OutcomeTrue, Verdicts, Promise!Answers
    <3>3. \A q \in Ops : View(q)' = IF q = o THEN v ELSE View(q)
      BY <2>2, <3>1, <3>2
    <3>4. Promise!Answer(o)
      BY <1>1, <2>4, <3>2, <3>3 DEF Promise!Answer
    <3> QED
      BY <3>4 DEF Promise!Next
  <2> QED
    BY <2>3, <2>4
<1>7. CASE UNCHANGED vars
  BY <1>3, <1>7 DEF vars
<1> QED
  BY <1>2, <1>4, <1>5, <1>6, <1>7 DEF Next, Promise!Next

(* async_offload is a one-shot operation: asked once, answered once.        *)
THEOREM OffloadImplementsOneShot == Spec => ImplementsOneShot
<1>1. Init => Promise!Init
  BY DEF Init, Promise!Init, Status
<1>2. OffloadInv /\ OffloadInv' /\ [Next]_vars => [Promise!Next]_(Status)
  BY OneShotStep
<1> QED
  BY <1>1, <1>2, OffloadInvariant, PTL DEF Spec, ImplementsOneShot, Promise!Spec
=============================================================================
