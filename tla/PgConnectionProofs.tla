------------------------ MODULE PgConnectionProofs ------------------------
(* Theorems about PgConnection for every set of statement names and every   *)
(* bound on the readiness events, and that it implements DbCall.            *)
EXTENDS PgConnection, TLAPS

-----------------------------------------------------------------------------
(* The inductive invariant, in two halves: what the waits and the event     *)
(* loop's queue keep, and what the call and the session keep.               *)

WaitType ==
  /\ wait \in {"none", "pending", "posted"}
  /\ timer \in {"off", "armed", "posted"}
  /\ timed_out \in BOOLEAN /\ expired \in BOOLEAN
  /\ queue \in Seq(Completions \cup {"timeout", "stale"})
  /\ pieces \in 0..Pieces

CallType ==
  /\ conn \in {"none", "bad", "ok"} /\ descriptor \in BOOLEAN
  /\ prepared \subseteq Names /\ held \subseteq Names /\ swapped \in BOOLEAN
  /\ answer \in {"none", "sent", "ok"} \cup Errors
  /\ executed \in Nat
  /\ stage \in {"idle", "connect"} \cup Statements
  /\ op \in Calls
  /\ io \in {"send", "flush", "receive"}
  /\ retried \in BOOLEAN
  /\ outcome \in {"none", "result", "dberror", "error"}

(* The coroutine waits unless it is idle or on the thread.                  *)
Turn == wait = "none" <=> stage = "idle" \/ OnThread

(* A posted wait has its one completion in the queue, and no other wait's   *)
(* is there: nobody is resumed by a completion that is not its own.         *)
Completes(i) == i \in DOMAIN queue /\ queue[i] \in Completions
OneCompletion ==
  /\ \A i, j : Completes(i) /\ Completes(j) => i = j
  /\ (\E i : Completes(i)) <=> wait = "posted"

(* Something is on the wire only for the statement that put it there.       *)
Wire == answer # "none" => stage \in Statements /\ io # "send"

Session ==
  /\ stage = "prepare" => op \in Names
  /\ stage = "connect" => conn = "bad"
  /\ stage \in Statements /\ io # "send" => conn = "ok"
  /\ stage = "prepare" /\ answer = "ok" => op \in held

(* The server has run the statement only if it has answered it.             *)
Progress ==
  stage # "idle" =>
    outcome = "none" /\ executed = IF stage = "exec" /\ answer = "ok" THEN 1 ELSE 0

(* The retry stands before its send(), without a connection.                *)
Retry == retried /\ stage # "idle" => stage = "prepare" /\ io = "send" /\ conn = "none"

WaitInv == WaitType /\ Turn /\ OneCompletion
CallInv ==
  /\ CallType /\ Wire /\ Session /\ Progress /\ Retry
  /\ CacheTrue /\ ResultIsOwn /\ RetryIsFutile

(* No call is under way at first, and nothing is posted.                    *)
LEMMA ConnectionInit == Init => WaitInv /\ CallInv
<1> SUFFICES ASSUME Init PROVE WaitInv /\ CallInv
  OBVIOUS
<1> USE ConnectionAssumption DEF Init
<1>1. WaitType
  <2>1. Pieces \in 0..Pieces /\ queue \in Seq(Completions \cup {"timeout", "stale"})
    OBVIOUS
  <2> QED
    BY <2>1 DEF WaitType
<1>2. Turn /\ OneCompletion
  BY DEF Turn, OneCompletion, Completes, OnThread, Statements
<1>3. CallType
  BY DEF CallType, Calls, Errors, Statements
<1>4. Wire /\ Session /\ Progress /\ Retry /\ CacheTrue /\ ResultIsOwn /\ RetryIsFutile
  BY DEF Wire, Session, Progress, Retry, CacheTrue, ResultIsOwn, RetryIsFutile, Healthy,
     Statements
<1> QED
  BY <1>1, <1>2, <1>3, <1>4 DEF WaitInv, CallInv
-----------------------------------------------------------------------------
(* The queue.                                                               *)

(* A coroutine that is resumed finds its wait posted and leaves no          *)
(* completion behind.                                                       *)
LEMMA ResumeTakesTheOne ==
  ASSUME WaitInv, Resume(Completions)
  PROVE  /\ wait = "posted"
         /\ queue' \in Seq(Completions \cup {"timeout", "stale"})
         /\ \A i : i \in DOMAIN queue' => queue'[i] \notin Completions
<1> DEFINE rest == Tail(queue)
           Handlers == Completions \cup {"timeout", "stale"}
<1>1. /\ queue \in Seq(Handlers) /\ queue # <<>> /\ Head(queue) \in Completions
      /\ queue' = Disarm(rest)
  BY DEF WaitInv, WaitType, Resume
<1>2. /\ rest \in Seq(Handlers) /\ Len(rest) \in Nat /\ DOMAIN rest = 1..Len(rest)
      /\ \A i \in DOMAIN rest : /\ rest[i] = queue[i + 1] /\ rest[i] \in Handlers
                                /\ i + 1 \in DOMAIN queue /\ i + 1 # 1
      /\ Completes(1)
  BY <1>1 DEF Completes
<1>3. \A i \in DOMAIN rest : rest[i] \notin Completions
  BY <1>2 DEF WaitInv, OneCompletion, Completes
<1>4. \A i \in DOMAIN rest : Disarm(rest)[i] \in Handlers \ Completions
  BY <1>2, <1>3 DEF Disarm, Completions
<1>5. DOMAIN Disarm(rest) = 1..Len(rest) /\ Disarm(rest) \in [1..Len(rest) -> Handlers]
  BY <1>2, <1>4 DEF Disarm
<1>6. Disarm(rest) \in Seq(Handlers)
  BY <1>2, <1>5
<1> QED
  BY <1>1, <1>2, <1>4, <1>5, <1>6 DEF WaitInv, OneCompletion

(* The timer's handler posts the completion of a pending wait and leaves    *)
(* that of a posted one where it is.                                        *)
LEMMA CancelKeepsTheOne ==
  ASSUME WaitInv, CancelDescriptor, queue # <<>>, Head(queue) \notin Completions
  PROVE  /\ queue' \in Seq(Completions \cup {"timeout", "stale"})
         /\ wait' \in {"none", "pending", "posted"}
         /\ wait' = "none" <=> wait = "none"
         /\ OneCompletion'
<1> DEFINE rest == Tail(queue)
           Handlers == Completions \cup {"timeout", "stale"}
<1>1. /\ rest \in Seq(Handlers) /\ Len(rest) \in Nat /\ DOMAIN rest = 1..Len(rest)
      /\ \A i \in DOMAIN rest : rest[i] = queue[i + 1] /\ i + 1 \in DOMAIN queue
      /\ \A j \in DOMAIN queue : j # 1 => j - 1 \in DOMAIN rest /\ rest[j - 1] = queue[j]
      /\ DOMAIN queue \subseteq Nat /\ queue[1] \notin Completions
  BY DEF WaitInv, WaitType
<1>2. /\ \A i, j \in DOMAIN rest :
           rest[i] \in Completions /\ rest[j] \in Completions => i = j
      /\ (\E i \in DOMAIN rest : rest[i] \in Completions) <=> wait = "posted"
  <2>1. \A i, j \in DOMAIN rest :
          rest[i] \in Completions /\ rest[j] \in Completions => i + 1 = j + 1
    BY <1>1 DEF WaitInv, OneCompletion, Completes
  <2>2. ASSUME NEW i \in DOMAIN rest, rest[i] \in Completions
        PROVE  wait = "posted"
    BY <1>1, <2>2 DEF WaitInv, OneCompletion, Completes
  <2>3. ASSUME wait = "posted"
        PROVE  \E i \in DOMAIN rest : rest[i] \in Completions
    <3>1. PICK j : j \in DOMAIN queue /\ queue[j] \in Completions
      BY <2>3 DEF WaitInv, OneCompletion, Completes
    <3> QED
      BY <1>1, <3>1
  <2> QED
    BY <1>1, <2>1, <2>2, <2>3
<1>3. CASE wait = "pending"
  <2>1. queue' = Append(rest, "aborted") /\ wait' = "posted"
    BY <1>3 DEF CancelDescriptor
  <2>2. /\ queue' \in Seq(Handlers)
        /\ DOMAIN queue' = 1..(Len(rest) + 1)
        /\ \A i \in DOMAIN rest : queue'[i] = rest[i]
        /\ queue'[Len(rest) + 1] = "aborted"
    BY <1>1, <2>1 DEF Completions
  <2>3. \A i \in DOMAIN queue' : queue'[i] \in Completions <=> i = Len(rest) + 1
    BY <1>1, <1>2, <1>3, <2>2 DEF Completions
  <2> QED
    BY <1>1, <1>3, <2>1, <2>2, <2>3 DEF OneCompletion, Completes
<1>4. CASE wait # "pending"
  <2>1. queue' = rest /\ wait' = wait
    BY <1>4 DEF CancelDescriptor
  <2> QED
    BY <1>1, <1>2, <2>1 DEF OneCompletion, Completes, WaitInv, WaitType
<1> QED
  BY <1>3, <1>4

(* Posting one more handler.                                                *)
LEMMA PostKeepsTheOne ==
  ASSUME WaitInv, NEW h \in Completions \cup {"timeout"}, queue' = Append(queue, h),
         h \in Completions => wait = "pending" /\ wait' = "posted",
         h \notin Completions => wait' = wait
  PROVE  queue' \in Seq(Completions \cup {"timeout", "stale"}) /\ OneCompletion'
<1> DEFINE n == Len(queue)
<1>1. /\ n \in Nat /\ DOMAIN queue = 1..n /\ DOMAIN queue' = 1..(n + 1)
      /\ queue' \in Seq(Completions \cup {"timeout", "stale"})
      /\ \A i \in 1..n : queue'[i] = queue[i]
      /\ queue'[n + 1] = h
  BY DEF WaitInv, WaitType
<1>2. CASE h \in Completions
  <2>1. \A i \in 1..(n + 1) : queue'[i] \in Completions <=> i = n + 1
    BY <1>1, <1>2 DEF WaitInv, OneCompletion, Completes
  <2> QED
    BY <1>1, <1>2, <2>1 DEF OneCompletion, Completes
<1>3. CASE h \notin Completions
  <2>1. \A i : Completes(i) <=> i \in DOMAIN queue' /\ queue'[i] \in Completions
    BY <1>1, <1>3 DEF Completes
  <2> QED
    BY <1>1, <1>3, <2>1 DEF OneCompletion, Completes, WaitInv
<1> QED
  BY <1>1, <1>2, <1>3
-----------------------------------------------------------------------------
(* What a step does to the call, whichever handler it is.                   *)

Begin(c) == CallHealthy(c) \/ CallRefused(c) \/ CallConnecting(c)

ConnectFails == stage = "connect" /\ Return("error") /\ UNCHANGED <<session, server>>

ConnectSucceeds ==
  /\ stage = "connect"
  /\ Connected
  /\ \/ op = "connect" /\ Return("result")
     \/ op # "connect" /\ Run(First(op, {})) /\ UNCHANGED <<op, retried>>

Throw(text) ==
  /\ stage \in Statements
  /\ text # "none" => answer = text
  /\ StatementThrows(text)

Deliver == stage \in Statements /\ io = "receive" /\ answer = "ok" /\ StatementReturns

Flushed ==
  /\ stage \in Statements /\ io = "flush" /\ io' \in {"flush", "receive"}
  /\ UNCHANGED <<session, server, stage, op, retried, outcome>>

(* Every handler of the event loop, every event of the socket or the server *)
(* and every call of the pool is one of these for the call.                 *)
LEMMA CallFates ==
  ASSUME WaitInv, [Next]_vars
  PROVE  \/ UNCHANGED <<session, server, call>>
         \/ \E c \in Calls : Begin(c)
         \/ ConnectFails
         \/ ConnectSucceeds
         \/ \E text \in Errors \cup {"none"} : Throw(text)
         \/ Deliver
         \/ Send
         \/ Flushed
         \/ Answer
         \/ SwapSession
         \/ Destroyed
<1> DEFINE Thrown == \E text \in Errors \cup {"none"} : Throw(text)
           Stays == UNCHANGED <<session, server, call>>
<1>1. CASE WaitThrows
  BY <1>1 DEF WaitThrows, ConnectFails, Throw
<1>2. CASE RunTimer \/ RunStaleTimer
  BY <1>2 DEF RunTimer, RunStaleTimer
<1>3. CASE ConnectPoll
  BY <1>3 DEF ConnectPoll, ConnectFails, ConnectSucceeds
<1>4. CASE SendFails
  BY <1>4 DEF SendFails, OnThread, Throw
<1>5. CASE Flush
  BY <1>5 DEF Flush, Flushed, Throw
<1>6. CASE Receive
  BY <1>6 DEF Receive, Deliver, Throw
<1>7. CASE SocketReady \/ DeadlinePasses \/ TimerExpires
  BY <1>7 DEF SocketReady, DeadlinePasses, TimerExpires
<1>8. CASE UNCHANGED vars
  BY <1>8 DEF vars
<1> QED
  BY <1>1, <1>2, <1>3, <1>4, <1>5, <1>6, <1>7, <1>8 DEF Next, EventLoop, Begin

(* An exception closes the connection before anything else may use it; what *)
(* the catch clauses go on with sends nothing before a new connect().       *)
LEMMA ThrowKeepsCall ==
  ASSUME CallInv, NEW text \in Errors \cup {"none"}, Throw(text)
  PROVE  CallInv'
<1> USE DEF CallInv
<1>1. /\ stage \in Statements /\ conn' = "none" /\ descriptor' = FALSE
      /\ answer' = "none" /\ UNCHANGED <<held, swapped, op>>
      /\ text # "none" => answer = text
  BY DEF Throw, StatementThrows, Close, Abandon, Return, Run
<1>2. /\ executed' = 0 \/ (stage' = "idle" /\ executed' \in {0, 1})
      /\ outcome' # "result"
  <2>1. executed = IF stage = "exec" /\ answer = "ok" THEN 1 ELSE 0
    BY <1>1 DEF Progress, Statements
  <2>2. \/ executed' = executed
        \/ answer = "sent" /\ stage = "exec" /\ executed' = executed + 1
    BY DEF Throw, StatementThrows, Abandon
  <2>3. text # "none" => executed' = 0
    BY <1>1, <2>1, <2>2 DEF Errors
  <2>4. text = "none" => stage' = "idle"
    BY DEF Throw, StatementThrows, Return
  <2>5. outcome = "none"
    BY <1>1 DEF Progress, Statements
  <2>6. outcome' # "result"
    BY <2>5 DEF Throw, StatementThrows, Return, Run
  <2> QED
    BY <2>1, <2>2, <2>3, <2>4, <2>6
<1>3. retried => io = "send" /\ text = "none"
  BY <1>1 DEF Retry, Wire, Errors, Statements
<1>4. \/ /\ stage = "prepare" /\ text = "exists" /\ ~retried
         /\ stage' = "exec" /\ io' = "send" /\ outcome' = outcome /\ retried' = retried
         /\ prepared' = prepared \cup {op}
      \/ /\ stage = "exec" /\ op \in Names /\ ~retried
         /\ stage' = "prepare" /\ io' = "send" /\ outcome' = outcome /\ retried' = TRUE
         /\ prepared' = prepared \ {op}
      \/ /\ stage' = "idle" /\ UNCHANGED <<io, retried, prepared>>
         /\ outcome' = IF text = "none" THEN "error" ELSE "dberror"
  BY <1>3 DEF Throw, StatementThrows, Return, Run, CallType
<1>5. outcome = "none"
  BY <1>1 DEF Progress, Statements
<1>6. CallType'
  <2>1. executed' \in Nat
    BY <1>2
  <2>2. prepared' \subseteq Names /\ retried' \in BOOLEAN
    BY <1>1, <1>4 DEF CallType, Session
  <2>3. /\ stage' \in {"idle", "connect"} \cup Statements
        /\ io' \in {"send", "flush", "receive"}
        /\ outcome' \in {"none", "result", "dberror", "error"}
    BY <1>4, <1>5 DEF CallType, Statements
  <2> QED
    BY <1>1, <2>1, <2>2, <2>3 DEF CallType
<1>7. Wire' /\ Session' /\ CacheTrue'
  BY <1>1, <1>4 DEF Wire, Session, CacheTrue, Healthy, Statements
<1>8. Progress' /\ ResultIsOwn'
  BY <1>1, <1>2, <1>4, <1>5 DEF Progress, ResultIsOwn
<1>9. Retry' /\ RetryIsFutile'
  BY <1>1, <1>3, <1>4, <1>5 DEF Retry, RetryIsFutile
<1> QED
  BY <1>6, <1>7, <1>8, <1>9

(* A result reaches the caller of the statement the server answered.        *)
LEMMA DeliverKeepsCall ==
  ASSUME CallInv, Deliver
  PROVE  CallInv'
<1> USE DEF CallInv
<1>1. /\ stage \in Statements /\ io = "receive" /\ answer = "ok"
      /\ conn' \in {"ok", "bad"} /\ answer' = "none"
      /\ UNCHANGED <<descriptor, held, swapped, executed, op, retried>>
  BY DEF Deliver, StatementReturns, Return, Run
<1>2. \/ /\ stage = "prepare" /\ prepared' = prepared \cup {op}
         /\ stage' = "exec" /\ io' = "send" /\ outcome' = outcome
      \/ /\ stage = "exec" /\ prepared' = prepared
         /\ stage' = "idle" /\ io' = io /\ outcome' = "result"
  BY DEF Deliver, StatementReturns, Return, Run
<1>3. /\ conn = "ok" /\ ~retried /\ outcome = "none"
      /\ executed = IF stage = "exec" THEN 1 ELSE 0
      /\ stage = "prepare" => op \in held /\ op \in Names
  BY <1>1 DEF Session, Progress, Retry, Statements
<1>4. CallType'
  BY <1>1, <1>2, <1>3 DEF CallType, Statements
<1>5. Wire' /\ Session' /\ CacheTrue'
  BY <1>1, <1>2, <1>3 DEF Wire, Session, CacheTrue, Healthy, Statements
<1>6. Progress' /\ ResultIsOwn' /\ Retry' /\ RetryIsFutile'
  BY <1>1, <1>2, <1>3 DEF Progress, ResultIsOwn, Retry, RetryIsFutile
<1> QED
  BY <1>4, <1>5, <1>6

(* A call begins with nothing on the wire and its count at zero.            *)
LEMMA BeginKeepsCall ==
  ASSUME CallInv, NEW c \in Calls, Begin(c)
  PROVE  CallInv'
<1> USE DEF CallInv
<1>1. /\ stage = "idle" /\ op' = c /\ retried' = FALSE /\ executed' = 0
      /\ UNCHANGED <<prepared, held, swapped, answer>>
      /\ answer = "none"
  BY DEF Begin, CallHealthy, CallRefused, CallConnecting, Ask, Wire, Statements
<1>2. \/ /\ conn = "ok" /\ UNCHANGED <<conn, descriptor>>
         /\ stage' = IF c \in Names \ prepared THEN "prepare" ELSE "exec"
         /\ io' = "send" /\ outcome' = "none"
      \/ /\ conn' \in {"none", "bad"} /\ descriptor' \in BOOLEAN
         /\ UNCHANGED <<stage, io>> /\ outcome' = "error"
      \/ /\ conn' = "bad" /\ descriptor' = TRUE
         /\ stage' = "connect" /\ io' = "send" /\ outcome' = "none"
  BY DEF Begin, CallHealthy, CallRefused, CallConnecting, Healthy, Close, First
<1>3. CallType'
  BY <1>1, <1>2 DEF CallType, Statements
<1>4. Wire' /\ Session' /\ CacheTrue'
  BY <1>1, <1>2 DEF Wire, Session, CacheTrue, Healthy, Statements
<1>5. Progress' /\ ResultIsOwn' /\ Retry' /\ RetryIsFutile'
  BY <1>1, <1>2 DEF Progress, ResultIsOwn, Retry, RetryIsFutile
<1> QED
  BY <1>3, <1>4, <1>5

(* connect() ends before anything is sent, with the caches of both sides    *)
(* empty or without a connection.                                           *)
LEMMA ConnectKeepsCall ==
  ASSUME CallInv, ConnectFails \/ ConnectSucceeds
  PROVE  CallInv'
<1> USE DEF CallInv
<1>1. /\ stage = "connect" /\ answer = "none" /\ conn = "bad" /\ ~retried
      /\ executed = 0 /\ outcome = "none"
      /\ UNCHANGED <<answer, executed, descriptor, op, retried>>
  BY DEF ConnectFails, ConnectSucceeds, Connected, Return, Run, session, server, Wire,
     Session, Progress, Retry, Statements
<1>2. \/ /\ UNCHANGED <<conn, prepared, held, swapped, io>>
         /\ stage' = "idle" /\ outcome' = "error"
      \/ /\ conn' = "ok" /\ prepared' = {} /\ held' = {} /\ swapped' = FALSE
         /\ \/ op = "connect" /\ stage' = "idle" /\ outcome' = "result" /\ io' = io
            \/ /\ stage' = IF op \in Names THEN "prepare" ELSE "exec"
               /\ io' = "send" /\ outcome' = outcome
  BY DEF ConnectFails, ConnectSucceeds, Connected, Return, Run, First, session, server
<1>3. CallType'
  BY <1>1, <1>2 DEF CallType, Statements
<1>4. Wire' /\ Session' /\ CacheTrue'
  BY <1>1, <1>2 DEF Wire, Session, CacheTrue, Healthy, Statements
<1>5. Progress' /\ ResultIsOwn' /\ Retry' /\ RetryIsFutile'
  BY <1>1, <1>2 DEF Progress, ResultIsOwn, Retry, RetryIsFutile
<1> QED
  BY <1>3, <1>4, <1>5

(* Sending, flushing, and what the server and the pool do.                  *)
LEMMA ServingKeepsCall ==
  ASSUME CallInv, Send \/ Flushed \/ Answer \/ SwapSession \/ Destroyed
                  \/ UNCHANGED <<session, server, call>>
  PROVE  CallInv'
<1> USE DEF CallInv
<1>1. CASE Send
  <2>1. /\ stage \in Statements /\ conn = "ok" /\ answer' = "sent"
        /\ io = "send" /\ io' \in {"flush", "receive"}
        /\ UNCHANGED <<conn, descriptor, prepared, held, swapped, executed, stage, op,
                       retried, outcome>>
    BY <1>1 DEF Send, OnThread, Healthy, session
  <2>2. ~retried /\ answer = "none"
    BY <2>1 DEF Retry, Wire, Statements
  <2>3. CallType'
    BY <2>1 DEF CallType
  <2>4. Wire' /\ Session' /\ CacheTrue'
    BY <2>1 DEF Wire, Session, CacheTrue, Healthy, Statements
  <2>5. Progress' /\ ResultIsOwn' /\ Retry' /\ RetryIsFutile'
    BY <2>1, <2>2 DEF Progress, ResultIsOwn, Retry, RetryIsFutile, Statements
  <2> QED
    BY <2>3, <2>4, <2>5
<1>2. CASE Flushed
  <2>1. /\ stage \in Statements /\ io = "flush" /\ io' \in {"flush", "receive"}
        /\ UNCHANGED <<conn, descriptor, prepared, held, swapped, answer, executed, stage,
                       op, retried, outcome>>
    BY <1>2 DEF Flushed, session, server
  <2>2. CallType' /\ Wire' /\ Session' /\ CacheTrue'
    BY <2>1 DEF CallType, Wire, Session, CacheTrue, Healthy, Statements
  <2>3. Progress' /\ ResultIsOwn' /\ Retry' /\ RetryIsFutile'
    BY <2>1 DEF Progress, ResultIsOwn, Retry, RetryIsFutile, Statements
  <2> QED
    BY <2>2, <2>3
<1>3. CASE Answer
  <2>1. /\ answer = "sent" /\ io = "receive" /\ stage \in Statements /\ conn = "ok"
        /\ ~retried /\ outcome = "none" /\ executed = 0
        /\ UNCHANGED <<conn, descriptor, prepared, swapped, stage, op, io, retried, outcome>>
    BY <1>3 DEF Answer, Wire, Session, Retry, Progress, session, call, Statements
  <2>2. \/ /\ stage = "prepare" /\ held' = held \cup {op} /\ answer' = "ok"
           /\ executed' = 0
        \/ stage = "exec" /\ executed' = 1 /\ answer' = "ok" /\ held' = held
        \/ answer' \in Errors /\ held' = held /\ executed' = 0
    BY <1>3, <2>1 DEF Answer, Errors
  <2>3. CallType'
    BY <2>1, <2>2 DEF CallType, Session, Errors
  <2>4. Wire' /\ Session' /\ CacheTrue'
    BY <2>1, <2>2 DEF Wire, Session, CacheTrue, Healthy, Statements, Errors
  <2>5. Progress' /\ ResultIsOwn' /\ Retry' /\ RetryIsFutile'
    BY <2>1, <2>2 DEF Progress, ResultIsOwn, Retry, RetryIsFutile, Statements, Errors
  <2> QED
    BY <2>3, <2>4, <2>5
<1>4. CASE SwapSession
  <2>1. /\ answer = "none" /\ held' \subseteq Names /\ swapped' = TRUE
        /\ UNCHANGED <<conn, descriptor, prepared, answer, executed, stage, op, io,
                       retried, outcome>>
    BY <1>4 DEF SwapSession, session, call
  <2>2. CallType' /\ Wire' /\ Session' /\ CacheTrue'
    BY <2>1 DEF CallType, Wire, Session, CacheTrue
  <2>3. Progress' /\ ResultIsOwn' /\ Retry' /\ RetryIsFutile'
    BY <2>1 DEF Progress, ResultIsOwn, Retry, RetryIsFutile
  <2> QED
    BY <2>2, <2>3
<1>5. CASE Destroyed
  <2>1. /\ stage = "idle" /\ conn' = "none" /\ descriptor' = FALSE
        /\ prepared' = {} /\ held' = {} /\ swapped' = FALSE
        /\ UNCHANGED <<answer, executed, stage, op, io, retried, outcome>>
    BY <1>5 DEF Destroyed, Close, call
  <2>2. CallType' /\ Wire' /\ Session' /\ CacheTrue'
    BY <2>1 DEF CallType, Wire, Session, CacheTrue, Statements
  <2>3. Progress' /\ ResultIsOwn' /\ Retry' /\ RetryIsFutile'
    BY <2>1 DEF Progress, ResultIsOwn, Retry, RetryIsFutile
  <2> QED
    BY <2>2, <2>3
<1>6. CASE UNCHANGED <<session, server, call>>
  BY <1>6 DEF session, server, call, CallType, Wire, Session, Progress, Retry, CacheTrue,
     ResultIsOwn, RetryIsFutile, Healthy
<1> QED
  BY <1>1, <1>2, <1>3, <1>4, <1>5, <1>6

(* Whatever happens, the call and the session stay in step.                 *)
LEMMA CallStep ==
  ASSUME WaitInv, CallInv, [Next]_vars
  PROVE  CallInv'
  BY CallFates, BeginKeepsCall, ConnectKeepsCall, ThrowKeepsCall, DeliverKeepsCall,
     ServingKeepsCall
-----------------------------------------------------------------------------
(* What a step does to the wait.                                            *)

(* The coroutine runs on until its next wait, its next send or its end,     *)
(* while no completion is posted.                                           *)
LEMMA RunsOn ==
  ASSUME WaitType, UNCHANGED <<expired, pieces>>,
         queue' \in Seq(Completions \cup {"timeout", "stale"}),
         \A i : i \in DOMAIN queue' => queue'[i] \notin Completions,
         \/ StartWait /\ stage' # "idle" /\ ~OnThread'
         \/ EndWait /\ (stage' = "idle" \/ OnThread')
  PROVE  WaitInv'
<1>1. /\ wait' \in {"none", "pending"} /\ timer' \in {"off", "armed"} /\ timed_out' = FALSE
      /\ wait' = "none" <=> stage' = "idle" \/ OnThread'
  BY DEF StartWait, EndWait
<1>2. WaitType'
  BY <1>1 DEF WaitType
<1>3. Turn' /\ OneCompletion'
  BY <1>1 DEF Turn, OneCompletion, Completes
<1> QED
  BY <1>2, <1>3 DEF WaitInv

(* An exception, or an answer, takes the coroutine to its end or to the next*)
(* send.                                                                    *)
LEMMA StatementEnds ==
  /\ \A text \in Errors \cup {"none"} :
       StatementThrows(text) => stage' = "idle" \/ OnThread'
  /\ StatementReturns => stage' = "idle" \/ OnThread'
  BY DEF StatementThrows, StatementReturns, Return, Run, OnThread, Statements

(* A coroutine that is resumed.                                             *)
LEMMA ResumedStep ==
  ASSUME WaitInv, WaitThrows \/ ConnectPoll \/ Flush \/ Receive
  PROVE  WaitInv'
<1>0. "none" \in Errors \cup {"none"} /\ WaitType
  BY DEF WaitInv
<1>1. Resume(Completions)
  BY DEF WaitThrows, ConnectPoll, Flush, Receive, Continue, Resume, Completions
<1>2. /\ queue' \in Seq(Completions \cup {"timeout", "stale"})
      /\ \A i : i \in DOMAIN queue' => queue'[i] \notin Completions
      /\ wait = "posted"
  BY <1>1, ResumeTakesTheOne
<1>3. stage # "idle" /\ ~OnThread
  BY <1>2 DEF WaitInv, Turn
<1>4. CASE WaitThrows
  <2>1. EndWait /\ stage' = "idle" /\ UNCHANGED <<expired, pieces>>
    BY <1>4 DEF WaitThrows, Return, StatementThrows
  <2> QED
    BY <1>0, <1>2, <2>1, RunsOn
<1>5. CASE ConnectPoll
  <2>1. \/ StartWait /\ stage' = "connect"
        \/ EndWait /\ (stage' = "idle" \/ OnThread')
    BY <1>5 DEF ConnectPoll, call, Return, Run, First, OnThread, Statements
  <2>2. stage' = "connect" => stage' # "idle" /\ ~OnThread'
    BY DEF OnThread, Statements
  <2>3. UNCHANGED <<expired, pieces>>
    BY <1>5 DEF ConnectPoll
  <2> QED
    BY <1>0, <1>2, <2>1, <2>2, <2>3, RunsOn
<1>6. CASE Flush
  <2>1. \/ StartWait /\ stage' = stage /\ io' \in {"flush", "receive"}
        \/ EndWait /\ (stage' = "idle" \/ OnThread')
    BY <1>0, <1>6, StatementEnds DEF Flush
  <2>2. stage' = stage /\ io' \in {"flush", "receive"} => stage' # "idle" /\ ~OnThread'
    BY <1>3 DEF OnThread
  <2>3. UNCHANGED <<expired, pieces>>
    BY <1>6 DEF Flush
  <2> QED
    BY <1>0, <1>2, <2>1, <2>2, <2>3, RunsOn
<1>7. CASE Receive
  <2>1. \/ StartWait /\ stage' = stage /\ io' = io
        \/ EndWait /\ (stage' = "idle" \/ OnThread')
    BY <1>0, <1>7, StatementEnds DEF Receive, call
  <2>2. stage' = stage /\ io' = io => stage' # "idle" /\ ~OnThread'
    BY <1>3 DEF OnThread
  <2>3. UNCHANGED <<expired, pieces>>
    BY <1>7 DEF Receive
  <2> QED
    BY <1>0, <1>2, <2>1, <2>2, <2>3, RunsOn
<1> QED
  BY <1>4, <1>5, <1>6, <1>7

(* Whatever happens, a coroutine that waits has its own completion to come. *)
LEMMA WaitStep ==
  ASSUME WaitInv, CallInv, [Next]_vars
  PROVE  WaitInv'
<1>0. Pieces \in Nat /\ Pieces \in 0..Pieces
  BY ConnectionAssumption
<1>1. ASSUME UNCHANGED waiting, UNCHANGED <<expired, pieces>>,
             stage' = "idle" \/ OnThread' <=> stage = "idle" \/ OnThread
      PROVE  WaitInv'
  BY <1>1 DEF WaitInv, WaitType, Turn, OneCompletion, Completes, waiting
<1>2. ASSUME NEW c \in Calls, CallHealthy(c)
      PROVE  WaitInv'
  <2>1. UNCHANGED waiting /\ UNCHANGED <<expired, pieces>>
    BY <1>2 DEF CallHealthy, Ask, waiting
  <2>2. stage = "idle" /\ OnThread'
    BY <1>2 DEF CallHealthy, Ask, First, OnThread, Statements
  <2> QED
    BY <1>1, <2>1, <2>2
<1>3. ASSUME NEW c \in Calls, CallRefused(c)
      PROVE  WaitInv'
  <2>1. UNCHANGED waiting /\ UNCHANGED <<expired, pieces>>
    BY <1>3 DEF CallRefused, Ask, waiting
  <2>2. stage = "idle" /\ stage' = "idle"
    BY <1>3 DEF CallRefused, Ask
  <2> QED
    BY <1>1, <2>1, <2>2
<1>4. ASSUME StartWait, wait = "none", stage' # "idle", ~OnThread',
             expired' = FALSE, pieces' = Pieces, UNCHANGED queue
      PROVE  WaitInv'
  <2>1. \A i : ~Completes(i)
    BY <1>4 DEF WaitInv, OneCompletion
  <2>2. WaitType'
    BY <1>0, <1>4 DEF WaitInv, WaitType, StartWait
  <2>3. Turn' /\ OneCompletion'
    BY <1>4, <2>1 DEF Turn, OneCompletion, Completes, StartWait
  <2> QED
    BY <2>2, <2>3 DEF WaitInv
<1>5. ASSUME NEW c \in Calls, CallConnecting(c)
      PROVE  WaitInv'
  <2>1. wait = "none"
    BY <1>5 DEF CallConnecting, Ask, WaitInv, Turn
  <2>2. stage' # "idle" /\ ~OnThread' /\ UNCHANGED queue
    BY <1>5 DEF CallConnecting, Ask, OnThread, Statements
  <2> QED
    BY <1>4, <1>5, <2>1, <2>2 DEF CallConnecting
<1>6. CASE Send
  <2>1. wait = "none"
    BY <1>6 DEF Send, WaitInv, Turn
  <2>2. stage' # "idle" /\ ~OnThread' /\ UNCHANGED queue
    BY <1>6 DEF Send, OnThread, Statements
  <2> QED
    BY <1>4, <1>6, <2>1, <2>2 DEF Send
<1>7. CASE SendFails
  <2>1. OnThread /\ stage' = "idle"
    BY <1>7 DEF SendFails, StatementThrows, Return
  <2> QED
    BY <1>1, <1>7, <2>1 DEF SendFails
<1>8. CASE RunTimer \/ RunStaleTimer
  <2>1. CancelDescriptor /\ queue # <<>> /\ Head(queue) \notin Completions
    BY <1>8 DEF RunTimer, RunStaleTimer, Completions
  <2>2. /\ queue' \in Seq(Completions \cup {"timeout", "stale"})
        /\ wait' \in {"none", "pending", "posted"}
        /\ wait' = "none" <=> wait = "none"
        /\ OneCompletion'
    BY <2>1, CancelKeepsTheOne
  <2>3. /\ timer' \in {"off", "armed", "posted"} /\ timed_out' \in BOOLEAN
        /\ UNCHANGED <<expired, pieces, stage, io>>
    BY <1>8 DEF RunTimer, RunStaleTimer, WaitInv, WaitType, call
  <2>4. WaitType'
    BY <2>2, <2>3 DEF WaitInv, WaitType
  <2>5. Turn'
    BY <2>2, <2>3 DEF WaitInv, Turn, OnThread
  <2> QED
    BY <2>2, <2>4, <2>5 DEF WaitInv
<1>9. CASE SocketReady
  <2>1. PICK h \in {"ready", "failed"} : queue' = Append(queue, h)
    BY <1>9 DEF SocketReady
  <2>2. h \in Completions /\ wait = "pending" /\ wait' = "posted"
    BY <1>9, <2>1 DEF SocketReady, Completions
  <2>3. queue' \in Seq(Completions \cup {"timeout", "stale"}) /\ OneCompletion'
    BY <2>1, <2>2, PostKeepsTheOne
  <2>4. pieces' \in 0..Pieces /\ UNCHANGED <<timer, timed_out, expired, stage, io>>
    BY <1>0, <1>9 DEF SocketReady, WaitInv, WaitType, call
  <2>5. WaitType'
    BY <2>2, <2>3, <2>4 DEF WaitInv, WaitType
  <2>6. Turn'
    BY <2>2, <2>4 DEF WaitInv, Turn, OnThread
  <2> QED
    BY <2>3, <2>5, <2>6 DEF WaitInv
<1>10. CASE TimerExpires
  <2>1. /\ queue' = Append(queue, "timeout") /\ wait' = wait /\ timer' = "posted"
        /\ UNCHANGED <<timed_out, expired, pieces, stage, io>>
    BY <1>10 DEF TimerExpires, call
  <2>2. "timeout" \in Completions \cup {"timeout"} /\ "timeout" \notin Completions
    BY DEF Completions
  <2>3. queue' \in Seq(Completions \cup {"timeout", "stale"}) /\ OneCompletion'
    BY <2>1, <2>2, PostKeepsTheOne
  <2>4. WaitType'
    BY <2>1, <2>3 DEF WaitInv, WaitType
  <2>5. Turn'
    BY <2>1 DEF WaitInv, Turn, OnThread
  <2> QED
    BY <2>3, <2>4, <2>5 DEF WaitInv
<1>11. CASE DeadlinePasses
  <2>1. UNCHANGED waiting /\ expired' = TRUE /\ UNCHANGED <<pieces, stage, io>>
    BY <1>11 DEF DeadlinePasses, call
  <2> QED
    BY <2>1 DEF WaitInv, WaitType, Turn, OneCompletion, Completes, OnThread, waiting
<1>12. CASE Answer \/ SwapSession \/ Destroyed \/ UNCHANGED vars
  <2>1. UNCHANGED waiting /\ UNCHANGED <<expired, pieces, stage, io>>
    BY <1>12 DEF Answer, SwapSession, Destroyed, vars, waiting, call
  <2> QED
    BY <1>1, <2>1 DEF OnThread
<1> QED
  BY <1>2, <1>3, <1>5, <1>6, <1>7, <1>8, <1>9, <1>10, <1>11, <1>12, ResumedStep
     DEF Next, EventLoop
-----------------------------------------------------------------------------
(* The theorems.                                                            *)

(* Both halves of the invariant hold throughout.                            *)
LEMMA ConnectionInvariant == Spec => [](WaitInv /\ CallInv)
<1>1. WaitInv /\ CallInv /\ [Next]_vars => (WaitInv /\ CallInv)'
  BY WaitStep, CallStep
<1> QED
  BY <1>1, ConnectionInit, PTL DEF Spec

(* The connection's variables keep their types: a name that is not one of a *)
(* statement never gets into the cache, nor a handler of no wait into the   *)
(* queue.                                                                   *)
THEOREM ConnectionTypeCorrect == Spec => []TypeOK
<1>1. WaitInv /\ CallInv => TypeOK
  BY DEF WaitInv, CallInv, WaitType, CallType, TypeOK
<1> QED
  BY <1>1, ConnectionInvariant, PTL

(* After whatever exception runQueryWithTimeout closes the connection, so   *)
(* no answer of an abandoned statement is left for the next one.            *)
THEOREM WireIsClean == Spec => []WireClean
<1>1. WaitInv /\ CallInv => WireClean
  BY DEF WaitInv, CallInv, Turn, Wire, WireClean, OnThread, Statements
<1> QED
  BY <1>1, ConnectionInvariant, PTL

(* prepared_ names only what the session holds, through every reconnect,    *)
(* timeout and retry, as long as the session is not exchanged behind it.    *)
THEOREM CacheIsTrue == Spec => []CacheTrue
<1>1. WaitInv /\ CallInv => CacheTrue
  BY DEF CallInv
<1> QED
  BY <1>1, ConnectionInvariant, PTL

(* A call that returns a result had the server run its statement exactly    *)
(* once, and none has it run twice, the retry of execPrepared included.     *)
THEOREM ResultsAreOwn == Spec => []ResultIsOwn
<1>1. WaitInv /\ CallInv => ResultIsOwn
  BY DEF CallInv
<1> QED
  BY <1>1, ConnectionInvariant, PTL

(* The retry of execPrepared cannot succeed: it stands on a connection the  *)
(* catch before it has closed.                                              *)
THEOREM RetriesAreFutile == Spec => []RetryIsFutile
<1>1. WaitInv /\ CallInv => RetryIsFutile
  BY DEF CallInv
<1> QED
  BY <1>1, ConnectionInvariant, PTL
-----------------------------------------------------------------------------
(* PgConnection implements DbCall.                                          *)

(* What the pool sees of a step of the connection.                          *)
LEMMA PromiseStep ==
  ASSUME WaitInv, CallInv, [Next]_vars
  PROVE  [ConnectionPromise!Next]_ConnectionPromise!state
<1> USE DEF ConnectionPromise!Next, ConnectionPromise!state, ConnectionPromise!Ask,
        ConnectionPromise!Answer, ConnectionPromise!Refuse, ConnectionPromise!Discard,
        Healthy
<1>1. stage # "idle" => outcome = "none"
  BY DEF CallInv, Progress
<1>2. ASSUME NEW c \in Calls, Begin(c)
      PROVE  [ConnectionPromise!Next]_ConnectionPromise!state
  BY <1>2 DEF Begin, CallHealthy, CallRefused, CallConnecting, Ask, First, Close
<1>3. CASE ConnectFails \/ ConnectSucceeds
  BY <1>3 DEF ConnectFails, ConnectSucceeds, Connected, Return, Run, First, session,
     CallInv, Session
<1>4. ASSUME NEW text \in Errors \cup {"none"}, Throw(text)
      PROVE  [ConnectionPromise!Next]_ConnectionPromise!state
  <2>1. stage # "idle" /\ conn' = "none"
    BY <1>4 DEF Throw, StatementThrows, Close, Statements
  <2>2. \/ stage' # "idle" /\ outcome' = outcome
        \/ stage' = "idle" /\ outcome' \in {"dberror", "error"}
    BY <1>4 DEF Throw, StatementThrows, Return, Run
  <2> QED
    BY <2>1, <2>2
<1>5. CASE Deliver
  BY <1>5 DEF Deliver, StatementReturns, Return, Run, Statements
<1>6. CASE Send \/ Flushed \/ Answer \/ SwapSession
  BY <1>6 DEF Send, Flushed, Answer, SwapSession, session, call
<1>7. CASE Destroyed
  BY <1>7 DEF Destroyed, Close, call
<1>8. CASE UNCHANGED <<session, server, call>>
  BY <1>8 DEF session, call
<1> QED
  BY <1>2, <1>3, <1>4, <1>5, <1>6, <1>7, <1>8, CallFates

(* What the pool's model takes for granted: a call ends once, and unless it *)
(* ends in a result the connection is unhealthy and release() drops it.     *)
THEOREM ConnectionImplementsDbCall == Spec => ImplementsDbCall
<1>1. Init => ConnectionPromise!Init
  BY DEF Init, ConnectionPromise!Init, Healthy
<1>2. WaitInv /\ CallInv /\ [Next]_vars => [ConnectionPromise!Next]_ConnectionPromise!state
  BY PromiseStep
<1> QED
  BY <1>1, <1>2, ConnectionInvariant, PTL DEF Spec, ImplementsDbCall, ConnectionPromise!Spec
===========================================================================
