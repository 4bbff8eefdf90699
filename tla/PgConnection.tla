---------------------------- MODULE PgConnection ----------------------------
(* One connection to PostgreSQL (core/db/postgres/PgConnection.cpp), the    *)
(* coroutine that calls it, the event loop's queue of handlers and the      *)
(* server's session. Every wait for the socket races a timer of its own,    *)
(* which cancels the descriptor; cancelling is too late for a timer whose   *)
(* handler is queued already. What the coroutine does between two waits is  *)
(* atomic for the event loop; "send" marks it on the thread.                *)
(*                                                                          *)
(* The pool leases a connection to one coroutine at a time, so there is one *)
(* call at a time. Rows are abstracted to "a result".                       *)
EXTENDS Naturals, Sequences

CONSTANTS
  Names,   \* names of prepared statements
  Pieces   \* bound: how often the socket gets ready for one statement or
           \* connect, an answer being finite

(* connect() asked for by the pool; execParams, which is also what ping,    *)
(* BEGIN, COMMIT and ROLLBACK are; execPrepared of each name. ping reports  *)
(* an exception as FALSE, here the outcome of an exception.                 *)
Calls == {"connect", "params"} \cup Names

ASSUME ConnectionAssumption ==
  /\ Names \cap {"connect", "params"} = {}
  /\ Pieces \in Nat \ {0}

VARIABLES
  conn,        \* conn_: nullptr, not CONNECTION_OK, or CONNECTION_OK
  descriptor,  \* stream_descriptor_ has a value
  prepared,    \* prepared_, the cache of statement names
  held,        \* names the server's session has
  swapped,     \* history: the session behind the connection was exchanged
  answer,      \* the statement on the wire and what the server says of it
  executed,    \* history: how often the server ran this call's statement
  stage,       \* where the coroutine is
  op,          \* the call it makes
  io,          \* how far its statement is
  retried,     \* past retry_needed
  outcome,     \* how the last call ended
  wait,        \* the async_wait on the descriptor
  timer,       \* the timer of that wait
  timed_out,   \* its local flag
  expired,     \* the deadline in force has passed
  queue,       \* handlers posted to the event loop
  pieces       \* readiness events left

session == <<conn, descriptor, prepared>>
server == <<held, swapped, answer, executed>>
call == <<stage, op, io, retried, outcome>>
waiting == <<wait, timer, timed_out, queue>>
vars == <<session, server, call, waiting, expired, pieces>>

Statements == {"prepare", "exec"}
Completions == {"ready", "failed", "aborted"}

(* What the text of an error says: nothing, or something that one of the    *)
(* two predicates on messages finds.                                        *)
Errors == {"error", "exists", "invalid"}

Healthy == conn = "ok"
OnThread == stage \in Statements /\ io = "send"

TypeOK ==
  /\ conn \in {"none", "bad", "ok"} /\ descriptor \in BOOLEAN
  /\ prepared \subseteq Names /\ held \subseteq Names /\ swapped \in BOOLEAN
  /\ answer \in {"none", "sent", "ok"} \cup Errors
  /\ executed \in Nat
  /\ stage \in {"idle", "connect"} \cup Statements
  /\ op \in Calls
  /\ io \in {"send", "flush", "receive"}
  /\ retried \in BOOLEAN
  /\ outcome \in {"none", "result", "dberror", "error"}
  /\ wait \in {"none", "pending", "posted"}
  /\ timer \in {"off", "armed", "posted"}
  /\ timed_out \in BOOLEAN /\ expired \in BOOLEAN
  /\ queue \in Seq(Completions \cup {"timeout", "stale"})
  /\ pieces \in 0..Pieces

Init ==
  /\ conn = "none" /\ descriptor = FALSE /\ prepared = {}
  /\ held = {} /\ swapped = FALSE /\ answer = "none" /\ executed = 0
  /\ stage = "idle" /\ op = "connect" /\ io = "send"
  /\ retried = FALSE /\ outcome = "none"
  /\ wait = "none" /\ timer = "off" /\ timed_out = FALSE /\ queue = <<>>
  /\ expired = FALSE /\ pieces = Pieces
-----------------------------------------------------------------------------
(* close(), cancel(), and the ways on from a statement.                     *)

\* Faulty variant: the connection is kept after an exception.
CloseNothing == UNCHANGED <<conn, descriptor>>

Close == conn' = "none" /\ descriptor' = FALSE

(* cancel() is best effort: a statement on the wire may still be run. What  *)
(* is left on the wire goes with the connection.                            *)
Abandon(text) ==
  /\ answer' = IF conn' = "none" \/ text # "none" THEN "none" ELSE answer
  /\ \/ UNCHANGED executed
     \/ answer = "sent" /\ stage = "exec" /\ executed' = executed + 1
  /\ UNCHANGED <<held, swapped>>

Return(o) ==
  /\ stage' = "idle"
  /\ outcome' = o
  /\ UNCHANGED <<op, io, retried>>

Run(statement) ==
  /\ stage' = statement
  /\ io' = "send"
  /\ UNCHANGED outcome

\* Faulty variant: unnamed statements are cached too.
FirstOfAny(c, cache) == IF c \notin cache THEN "prepare" ELSE "exec"

(* do_prepare() returns at once for a name in the cache.                    *)
First(c, cache) == IF c \in Names \ cache THEN "prepare" ELSE "exec"

(* The catch of runQueryWithTimeout, then those of execPrepared.            *)
StatementThrows(text) ==
  /\ Close
  /\ Abandon(text)
  /\ \/ /\ stage = "prepare" /\ text = "exists"
        /\ prepared' = prepared \cup {op}
        /\ Run("exec") /\ UNCHANGED <<op, retried>>
     \/ /\ stage = "exec" /\ op \in Names /\ ~retried /\ text = "invalid"
        /\ prepared' = prepared \ {op}
        /\ Run("prepare") /\ retried' = TRUE /\ UNCHANGED op
     \/ /\ ~(stage = "prepare" /\ text = "exists")
        /\ ~(stage = "exec" /\ op \in Names /\ ~retried /\ text = "invalid")
        /\ Return(IF text = "none" THEN "error" ELSE "dberror")
        /\ UNCHANGED prepared

(* A result may come with the news that the server has hung up.             *)
StatementReturns ==
  /\ conn' \in {"ok", "bad"}
  /\ answer' = "none"
  /\ \/ /\ stage = "prepare"
        /\ prepared' = prepared \cup {op}
        /\ Run("exec") /\ UNCHANGED <<op, retried>>
     \/ /\ stage = "exec"
        /\ Return("result")
        /\ UNCHANGED prepared
  /\ UNCHANGED <<descriptor, held, swapped, executed>>
-----------------------------------------------------------------------------
(* wait_readable() and wait_writable(): arm the timer, wait, disarm it.     *)

StartWait == wait' = "pending" /\ timer' = "armed" /\ timed_out' = FALSE
EndWait == wait' = "none" /\ timer' = "off" /\ timed_out' = FALSE

(* timer.cancel() does not reach a handler that is posted already.          *)
Disarm(q) == [i \in DOMAIN q |-> IF q[i] = "timeout" THEN "stale" ELSE q[i]]

Resume(handlers) ==
  /\ queue # <<>> /\ Head(queue) \in handlers
  /\ queue' = Disarm(Tail(queue))

(* operation_aborted without timed_out is taken for readiness.              *)
Continue == Resume({"ready", "aborted"}) /\ ~timed_out

WaitThrows ==
  /\ \/ Resume(Completions) /\ timed_out
     \/ Resume({"failed"})
  /\ EndWait
  /\ \/ stage = "connect" /\ Return("error") /\ UNCHANGED <<session, server>>
     \/ stage \in Statements /\ StatementThrows("none")
  /\ UNCHANGED <<expired, pieces>>

SocketReady ==
  /\ wait = "pending" /\ pieces > 0
  /\ \E h \in {"ready", "failed"} : queue' = Append(queue, h)
  /\ wait' = "posted"
  /\ pieces' = pieces - 1
  /\ UNCHANGED <<session, server, call, timer, timed_out, expired>>

DeadlinePasses ==
  /\ wait # "none" /\ ~expired
  /\ expired' = TRUE
  /\ UNCHANGED <<session, server, call, waiting, pieces>>

TimerExpires ==
  /\ timer = "armed" /\ expired
  /\ timer' = "posted"
  /\ queue' = Append(queue, "timeout")
  /\ UNCHANGED <<session, server, call, wait, timed_out, expired, pieces>>

\* Faulty variant: the timer sets the flag and leaves the wait pending.
CancelNothing == queue' = Tail(queue) /\ UNCHANGED wait

CancelDescriptor ==
  IF wait = "pending"
    THEN wait' = "posted" /\ queue' = Append(Tail(queue), "aborted")
    ELSE queue' = Tail(queue) /\ UNCHANGED wait

RunTimer ==
  /\ queue # <<>> /\ Head(queue) = "timeout"
  /\ timed_out' = TRUE /\ timer' = "off"
  /\ CancelDescriptor
  /\ UNCHANGED <<session, server, call, expired, pieces>>

(* The handler of a wait that is over writes to the flag of a frame that is *)
(* gone. Frames are recycled: it may be the flag of the wait in progress.   *)
RunStaleTimer ==
  /\ queue # <<>> /\ Head(queue) = "stale" /\ ~OnThread
  /\ \/ UNCHANGED timed_out
     \/ wait # "none" /\ timed_out' = TRUE
  /\ CancelDescriptor
  /\ UNCHANGED <<session, server, call, timer, expired, pieces>>
-----------------------------------------------------------------------------
(* connect() and ensure_connected().                                        *)

\* Faulty variant: the cache outlives the session.
ConnectedKeepingCache ==
  /\ conn' = "ok"
  /\ held' = {} /\ swapped' = FALSE
  /\ UNCHANGED <<descriptor, prepared, answer, executed>>

Connected ==
  /\ conn' = "ok"
  /\ prepared' = {}
  /\ held' = {} /\ swapped' = FALSE
  /\ UNCHANGED <<descriptor, answer, executed>>

Ask(c) ==
  /\ stage = "idle"
  /\ op' = c /\ retried' = FALSE /\ executed' = 0
  /\ UNCHANGED <<prepared, held, swapped, answer, queue>>

CallHealthy(c) ==
  /\ Ask(c)
  /\ Healthy /\ c # "connect"
  /\ stage' = First(c, prepared) /\ io' = "send" /\ outcome' = "none"
  /\ UNCHANGED <<conn, descriptor, wait, timer, timed_out, expired, pieces>>

(* PQconnectStart, PQsetnonblocking, PQsocket or the first poll fails.      *)
CallRefused(c) ==
  /\ Ask(c)
  /\ ~Healthy
  /\ \/ Close
     \/ conn' = "bad" /\ descriptor' \in BOOLEAN
  /\ outcome' = "error"
  /\ UNCHANGED <<stage, io, wait, timer, timed_out, expired, pieces>>

CallConnecting(c) ==
  /\ Ask(c)
  /\ ~Healthy
  /\ conn' = "bad" /\ descriptor' = TRUE
  /\ stage' = "connect" /\ io' = "send" /\ outcome' = "none"
  /\ expired' = FALSE /\ pieces' = Pieces
  /\ StartWait

ConnectPoll ==
  /\ stage = "connect"
  /\ Continue
  /\ \/ StartWait /\ UNCHANGED <<session, server, call>>
     \/ EndWait /\ Return("error") /\ UNCHANGED <<session, server>>
     \/ /\ EndWait /\ Connected
        /\ \/ op = "connect" /\ Return("result")
           \/ op # "connect" /\ Run(First(op, {})) /\ UNCHANGED <<op, retried>>
  /\ UNCHANGED <<expired, pieces>>

(* The pool drops the object (its destructor closes) and makes another.     *)
Destroyed ==
  /\ stage = "idle" /\ conn # "none"
  /\ Close
  /\ prepared' = {} /\ held' = {} /\ swapped' = FALSE
  /\ UNCHANGED <<answer, executed, call, waiting, expired, pieces>>
-----------------------------------------------------------------------------
(* runQueryWithTimeout(): send, flush, receive until not busy.              *)

SendFails ==
  /\ OnThread
  /\ StatementThrows("none")
  /\ UNCHANGED <<waiting, expired, pieces>>

Send ==
  /\ OnThread
  /\ Healthy
  /\ answer' = "sent"
  /\ io' \in {"flush", "receive"}
  /\ expired' = FALSE /\ pieces' = Pieces
  /\ StartWait
  /\ UNCHANGED <<session, held, swapped, executed, stage, op, retried, outcome, queue>>

Flush ==
  /\ stage \in Statements /\ io = "flush"
  /\ Continue
  /\ \/ /\ StartWait /\ io' \in {"flush", "receive"}
        /\ UNCHANGED <<session, server, stage, op, retried, outcome>>
     \/ EndWait /\ StatementThrows("none")
  /\ UNCHANGED <<expired, pieces>>

\* Faulty variant: PQisBusy is not asked.
ReceiveAnyway ==
  /\ stage \in Statements /\ io = "receive"
  /\ Continue
  /\ EndWait
  /\ \/ answer \in {"sent", "ok"} /\ StatementReturns
     \/ answer \in Errors /\ StatementThrows(answer)
  /\ UNCHANGED <<expired, pieces>>

Receive ==
  /\ stage \in Statements /\ io = "receive"
  /\ Continue
  /\ \/ StartWait /\ UNCHANGED <<session, server, call>>
     \/ EndWait /\ StatementThrows("none")
     \/ EndWait /\ answer = "ok" /\ StatementReturns
     \/ EndWait /\ answer \in Errors /\ StatementThrows(answer)
  /\ UNCHANGED <<expired, pieces>>
-----------------------------------------------------------------------------
(* The server.                                                              *)

(* The text that says a name is unknown may lack what the predicate looks   *)
(* for, and that of any error may quote it.                                 *)
Answer ==
  /\ answer = "sent" /\ io = "receive"
  /\ \/ /\ stage = "prepare" /\ op \notin held
        /\ held' = held \cup {op} /\ answer' = "ok"
        /\ UNCHANGED executed
     \/ stage = "prepare" /\ op \in held
        /\ answer' = "exists" /\ UNCHANGED <<held, executed>>
     \/ /\ stage = "exec" /\ (op \in held \/ op = "params")
        /\ executed' = executed + 1 /\ answer' = "ok"
        /\ UNCHANGED held
     \/ answer' \in {"error", "invalid"} /\ UNCHANGED <<held, executed>>
  /\ UNCHANGED <<session, call, waiting, swapped, expired, pieces>>

(* A proxy before the server gives the connection another session: what the *)
(* two error predicates are for.                                            *)
SwapSession ==
  /\ Healthy /\ answer = "none"
  /\ \E h \in SUBSET Names : h # held /\ held' = h
  /\ swapped' = TRUE
  /\ UNCHANGED <<session, answer, executed, call, waiting, expired, pieces>>

EventLoop ==
  \/ WaitThrows
  \/ RunTimer
  \/ RunStaleTimer
  \/ ConnectPoll
  \/ SendFails
  \/ Send
  \/ Flush
  \/ Receive

Next ==
  \/ \E c \in Calls : CallHealthy(c) \/ CallRefused(c) \/ CallConnecting(c)
  \/ EventLoop
  \/ SocketReady
  \/ DeadlinePasses
  \/ TimerExpires
  \/ Answer
  \/ SwapSession
  \/ Destroyed

(* The event loop runs what is posted, the clock advances, and the reactor  *)
(* posts a timer that has expired. The server and the network owe nothing.  *)
Fairness ==
  /\ WF_vars(EventLoop)
  /\ WF_vars(DeadlinePasses)
  /\ WF_vars(TimerExpires)

Spec == Init /\ [][Next]_vars /\ Fairness
-----------------------------------------------------------------------------
(* Nothing is left on the wire between two statements: a connection that    *)
(* goes on after a timeout would give the next caller the last one's rows.  *)
WireClean == Healthy /\ wait = "none" => answer = "none"

(* The cache names only what this session holds, over reconnects: until a   *)
(* proxy exchanges the session, no cached name is unknown to the server.    *)
CacheTrue == Healthy /\ ~swapped => prepared \subseteq held

(* A result is that of a statement this very call had run, and no call runs *)
(* its statement twice, whatever times out or is tried again.               *)
ResultIsOwn ==
  /\ executed <= 1
  /\ outcome = "result" /\ op # "connect" => executed = 1

(* The retry after an invalid prepared statement never succeeds, and turns  *)
(* the server's DbError into another exception: the first attempt's catch   *)
(* has closed the connection it runs on.                                    *)
RetryIsFutile == retried => outcome \in {"none", "error"}

(* What the pool's model takes for granted of a connection.                 *)
ConnectionPromise == INSTANCE DbCall WITH
  busy <- stage # "idle",
  healthy <- stage = "idle" /\ Healthy
ImplementsDbCall == ConnectionPromise!Spec

(* Every call ends, whatever server and network do: a wait that misses its  *)
(* timer would hold a connection of the pool for ever. The premise is       *)
(* needed: past the deadline a stale handler wakes the next wait before its *)
(* own timer, which then is stale in its turn, and so on.                   *)
CallsEnd ==
  <>[][~RunStaleTimer]_vars => (stage # "idle" ~> stage = "idle")

(* "Disarm timer": a wait that is over has no effect on the next. A wait is *)
(* cancelled, or times out, only when its own deadline has passed.          *)
DisarmedTimerIsSilent ==
  timed_out \/ (\E i \in DOMAIN queue : queue[i] = "aborted") => expired
=============================================================================
