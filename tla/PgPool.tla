------------------------------- MODULE PgPool -------------------------------
(* The PostgreSQL connection pool (core/db/postgres/PgPool.cpp) and the     *)
(* requests that go through it, each a coroutine of the one thread that     *)
(* runs io_context::run(): what a coroutine does between two co_awaits is   *)
(* one action. The breaker is the pool's member (CircuitBreaker).           *)
(*                                                                          *)
(* A returned healthy connection is interchangeable with any other, so      *)
(* idle_ (a LIFO) and the channel's buffer (a FIFO) are sets; the queue of  *)
(* coroutines that wait on the channel keeps its order. A call the pool     *)
(* refuses (stopping_, breaker open) throws and changes nothing: a stutter. *)
EXTENDS CircuitBreaker, Sequences, FiniteSets

CONSTANTS
  Requests,      \* coroutines that use the pool
  Connections,   \* identities of PgConnection objects
  NoConnection,  \* the lease of a request that holds no connection
  Size           \* size_

ASSUME PoolAssumption ==
  /\ IsFiniteSet(Requests) /\ Requests # {}
  /\ IsFiniteSet(Connections)
  /\ NoConnection \notin Connections \cup Requests
  /\ Size \in Nat
  /\ Cardinality(Connections) + 1 >= Size + Cardinality(Requests)

VARIABLES
  pc,         \* what each request is doing with the pool
  lease,      \* the connection each request holds
  idle,       \* idle_
  buffer,     \* connections parked inside channel_
  receivers,  \* requests suspended in channel_.async_receive, first come first
  created_at, \* created_at_
  stopping,   \* stopping_
  probing     \* history: requests let in by the half-open breaker, until they
              \* end or the breaker closes

poolVars == <<pc, lease, idle, buffer, receivers, created_at, stopping, probing>>
vars == <<breakerVars, poolVars>>

(* "out": not in the pool; "connecting": inside PgConnection::connect();    *)
(* "waiting": inside async_receive; "leased": running its query.            *)
Stages == {"out", "connecting", "waiting", "leased"}

At(stage) == {r \in Requests : pc[r] = stage}
Leased == {lease[r] : r \in At("leased")}
Parked == idle \cup buffer
Live == Leased \cup Parked

(* channel_'s capacity                                                      *)
Capacity == IF Size = 0 THEN 1 ELSE Size

TypeOK ==
  /\ BreakerTypeOK
  /\ pc \in [Requests -> Stages]
  /\ lease \in [Requests -> Connections \cup {NoConnection}]
  /\ idle \subseteq Connections
  /\ buffer \subseteq Connections
  /\ receivers \in Seq(Requests)
  /\ created_at \in Nat
  /\ stopping \in BOOLEAN
  /\ probing \subseteq Requests

Init ==
  /\ BreakerInit
  /\ pc = [r \in Requests |-> "out"]
  /\ lease = [r \in Requests |-> NoConnection]
  /\ idle = {}
  /\ buffer = {}
  /\ receivers = <<>>
  /\ created_at = 0
  /\ stopping = FALSE
  /\ probing = {}
-----------------------------------------------------------------------------
(* acquire() / make_or_wait(), up to its first real suspension.             *)

Enter(r) ==
  /\ pc[r] = "out"
  /\ ~stopping
  /\ Admit
  /\ probing' = IF state = "Closed" THEN probing ELSE probing \cup {r}

Hold(r, c) ==
  /\ pc' = [pc EXCEPT ![r] = "leased"]
  /\ lease' = [lease EXCEPT ![r] = c]

AcquireIdle(r) ==
  /\ Enter(r)
  /\ \E c \in idle : Hold(r, c) /\ idle' = idle \ {c}
  /\ UNCHANGED <<buffer, receivers, created_at, stopping>>

\* Faulty variant: size_ is not looked at.
AcquireConnectUnchecked(r) ==
  /\ Enter(r)
  /\ idle = {}
  /\ pc' = [pc EXCEPT ![r] = "connecting"]
  /\ UNCHANGED <<lease, idle, buffer, receivers, created_at, stopping>>

(* connect() suspends before created_at_ is raised, so several requests can *)
(* be here on the strength of the same free slot.                           *)
AcquireConnect(r) ==
  /\ Enter(r)
  /\ idle = {}
  /\ created_at < Size
  /\ pc' = [pc EXCEPT ![r] = "connecting"]
  /\ UNCHANGED <<lease, idle, buffer, receivers, created_at, stopping>>

AcquireBuffered(r) ==
  /\ Enter(r)
  /\ idle = {}
  /\ created_at >= Size
  /\ \E c \in buffer : Hold(r, c) /\ buffer' = buffer \ {c}
  /\ UNCHANGED <<idle, receivers, created_at, stopping>>

\* Faulty variant: last come, first served.
AcquireWaitInFront(r) ==
  /\ Enter(r)
  /\ idle = {}
  /\ created_at >= Size
  /\ buffer = {}
  /\ pc' = [pc EXCEPT ![r] = "waiting"]
  /\ receivers' = <<r>> \o receivers
  /\ UNCHANGED <<lease, idle, buffer, created_at, stopping>>

AcquireWait(r) ==
  /\ Enter(r)
  /\ idle = {}
  /\ created_at >= Size
  /\ buffer = {}
  /\ pc' = [pc EXCEPT ![r] = "waiting"]
  /\ receivers' = Append(receivers, r)
  /\ UNCHANGED <<lease, idle, buffer, created_at, stopping>>
-----------------------------------------------------------------------------
(* The end of connect(). A shutdown meanwhile is not looked at.             *)

\* Faulty variant: created_at_ is not raised.
ConnectOkWithoutCount(r) ==
  /\ pc[r] = "connecting"
  /\ \E c \in Connections \ Live : Hold(r, c)
  /\ OnSuccess
  /\ probing' = {}
  /\ UNCHANGED <<idle, buffer, receivers, created_at, stopping>>

ConnectOk(r) ==
  /\ pc[r] = "connecting"
  /\ \E c \in Connections \ Live : Hold(r, c)
  /\ created_at' = created_at + 1
  /\ OnSuccess
  /\ probing' = {}
  /\ UNCHANGED <<idle, buffer, receivers, stopping>>

ConnectFail(r) ==
  /\ pc[r] = "connecting"
  /\ pc' = [pc EXCEPT ![r] = "out"]
  /\ OnFailure
  /\ probing' = probing \ {r}
  /\ UNCHANGED <<lease, idle, buffer, receivers, created_at, stopping>>
-----------------------------------------------------------------------------
(* release(): what becomes of the connection request r gives back, healthy  *)
(* or not. try_send hands it to the first waiting receiver, or leaves it in *)
(* the channel while that has room; only then does it reach idle_. Dropping *)
(* a connection wakes nobody.                                               *)

\* Faulty variant: the decrement is not guarded, and the count wraps.
DropBelowZero(r) ==
  /\ created_at' = created_at - 1
  /\ pc' = [pc EXCEPT ![r] = "out"]
  /\ lease' = [lease EXCEPT ![r] = NoConnection]
  /\ UNCHANGED <<idle, buffer, receivers>>

Drop(r) ==
  /\ created_at' = IF created_at = 0 THEN 0 ELSE created_at - 1
  /\ pc' = [pc EXCEPT ![r] = "out"]
  /\ lease' = [lease EXCEPT ![r] = NoConnection]
  /\ UNCHANGED <<idle, buffer, receivers>>

\* Faulty variant: idle_ is filled while a receiver waits.
ParkBesideWaiters(r) ==
  /\ pc' = [pc EXCEPT ![r] = "out"]
  /\ lease' = [lease EXCEPT ![r] = NoConnection]
  /\ idle' = idle \cup {lease[r]}
  /\ UNCHANGED <<buffer, receivers, created_at>>

\* Faulty variant: the receiver keeps its place in the queue.
HandOverKeepingPlace(r) ==
  /\ receivers # <<>>
  /\ LET next == Head(receivers) IN
       /\ pc' = [pc EXCEPT ![r] = "out", ![next] = "leased"]
       /\ lease' = [lease EXCEPT ![r] = NoConnection, ![next] = lease[r]]
  /\ UNCHANGED <<idle, buffer, receivers, created_at>>

HandOver(r) ==
  /\ receivers # <<>>
  /\ LET next == Head(receivers) IN
       /\ pc' = [pc EXCEPT ![r] = "out", ![next] = "leased"]
       /\ lease' = [lease EXCEPT ![r] = NoConnection, ![next] = lease[r]]
  /\ receivers' = Tail(receivers)
  /\ UNCHANGED <<idle, buffer, created_at>>

\* Faulty variant: the channel's buffer is passed over.
ParkInIdle(r) ==
  /\ receivers = <<>>
  /\ pc' = [pc EXCEPT ![r] = "out"]
  /\ lease' = [lease EXCEPT ![r] = NoConnection]
  /\ idle' = idle \cup {lease[r]}
  /\ UNCHANGED <<buffer, receivers, created_at>>

Park(r) ==
  /\ receivers = <<>>
  /\ pc' = [pc EXCEPT ![r] = "out"]
  /\ lease' = [lease EXCEPT ![r] = NoConnection]
  /\ \/ /\ Cardinality(buffer) < Capacity
        /\ buffer' = buffer \cup {lease[r]}
        /\ UNCHANGED idle
     \/ /\ Cardinality(buffer) >= Capacity
        /\ idle' = idle \cup {lease[r]}
        /\ UNCHANGED buffer
  /\ UNCHANGED <<receivers, created_at>>

\* Faulty variant: no return after a successful try_send.
ReleaseTwice(r, healthy) ==
  \/ (stopping \/ ~healthy) /\ Drop(r)
  \/ /\ ~stopping /\ healthy /\ receivers # <<>>
     /\ LET next == Head(receivers) IN
          /\ pc' = [pc EXCEPT ![r] = "out", ![next] = "leased"]
          /\ lease' = [lease EXCEPT ![r] = NoConnection, ![next] = lease[r]]
     /\ idle' = idle \cup {lease[r]}
     /\ receivers' = Tail(receivers)
     /\ UNCHANGED <<buffer, created_at>>
  \/ ~stopping /\ healthy /\ Park(r)

Release(r, healthy) ==
  \/ (stopping \/ ~healthy) /\ Drop(r)
  \/ ~stopping /\ healthy /\ HandOver(r)
  \/ ~stopping /\ healthy /\ Park(r)

(* query() once execParams has answered. A result leaves the connection     *)
(* healthy or, if the server has hung up behind it, not; every exception,   *)
(* a DbError included, has closed it (PgConnection::runQueryWithTimeout).   *)

QueryOk(r, healthy) ==
  /\ pc[r] = "leased"
  /\ OnSuccess
  /\ probing' = {}
  /\ Release(r, healthy)
  /\ UNCHANGED stopping

QueryDbError(r) ==
  /\ pc[r] = "leased"
  /\ Release(r, FALSE)
  /\ probing' = probing \ {r}
  /\ UNCHANGED <<breakerVars, stopping>>

QueryInfraError(r) ==
  /\ pc[r] = "leased"
  /\ OnFailure
  /\ Release(r, FALSE)
  /\ probing' = probing \ {r}
  /\ UNCHANGED stopping
-----------------------------------------------------------------------------
(* shutdown(): closing the channel fails every pending receive; what the    *)
(* channel has buffered stays in it, leased connections stay leased.        *)
Shutdown ==
  /\ stopping' = TRUE
  /\ pc' = [r \in Requests |-> IF pc[r] = "waiting" THEN "out" ELSE pc[r]]
  /\ receivers' = <<>>
  /\ idle' = {}
  /\ created_at' = 0
  /\ probing' = {r \in probing : pc[r] # "waiting"}
  /\ UNCHANGED <<breakerVars, lease, buffer>>

ClockTick ==
  /\ Tick
  /\ UNCHANGED <<state, consecutive_failures, half_open_probe_inflight, poolVars>>

ConnectEnds(r) == ConnectOk(r) \/ ConnectFail(r)

QueryEnds(r) ==
  \/ \E healthy \in BOOLEAN : QueryOk(r, healthy)
  \/ QueryDbError(r)
  \/ QueryInfraError(r)

Serve ==
  \/ \E r \in Requests :
       \/ AcquireIdle(r)
       \/ AcquireConnect(r)
       \/ AcquireBuffered(r)
       \/ AcquireWait(r)
       \/ ConnectOk(r)
       \/ ConnectFail(r)
       \/ \E healthy \in BOOLEAN : QueryOk(r, healthy)
       \/ QueryDbError(r)
       \/ QueryInfraError(r)
  \/ ClockTick

Next == Serve \/ Shutdown

(* connect() has a deadline of 5 s and a query one given by the caller, and *)
(* both end with an exception when it passes; the clock advances. Nothing   *)
(* makes a client call, and nothing bounds the wait on the channel.         *)
Fairness ==
  /\ \A r \in Requests : WF_vars(ConnectEnds(r)) /\ WF_vars(QueryEnds(r))
  /\ WF_vars(ClockTick)

Spec == Init /\ [][Next]_vars
FairSpec == Spec /\ Fairness

(* The program as it is wired: nothing in it calls shutdown().              *)
ServingSpec == Init /\ [][Serve]_vars /\ Fairness
-----------------------------------------------------------------------------
(* Safety.                                                                  *)

(* A connection is in one place: one request's lease, the channel's buffer  *)
(* or idle_. Two coroutines on one PGconn would mix their results.          *)
ExclusiveLease ==
  /\ \A r, s \in Requests :
       r # s /\ lease[r] # NoConnection => lease[r] # lease[s]
  /\ \A r \in Requests : lease[r] # NoConnection <=> pc[r] = "leased"
  /\ \A r \in Requests : lease[r] \notin Parked
  /\ idle \cap buffer = {}

(* The channel's queue and the coroutines agree: every waiting request is   *)
(* queued, once, and nobody else is. A request queued twice would be handed *)
(* two connections and keep one; one left out would sleep for good.         *)
QueueConsistent ==
  /\ \A i \in DOMAIN receivers : pc[receivers[i]] = "waiting"
  /\ \A i, j \in DOMAIN receivers : receivers[i] = receivers[j] => i = j
  /\ \A r \in At("waiting") : \E i \in DOMAIN receivers : receivers[i] = r

(* Until shutdown, created_at_ is the number of live connections: raised    *)
(* only after connect() and lowered on each drop, it neither leaks capacity *)
(* (a pool that slowly refuses to connect) nor underflows.                  *)
CountExact == ~stopping => created_at = Cardinality(Live)

(* No request sleeps on the channel while a usable connection is parked     *)
(* beside it, whether in the channel or in idle_.                           *)
NoWaitBesideParked == receivers # <<>> => Parked = {}

(* How far concurrent connects overshoot size_: the check of created_at_    *)
(* and its increment are on two sides of a suspension, so every request can *)
(* pass the check on one free slot, but no more than that: so many          *)
(* connections the database server sees, open or being opened.              *)
BoundedOvercreation ==
  Cardinality(Live) + Cardinality(At("connecting"))
    <= (Size + Cardinality(Requests)) - 1

(* The channel is tried before idle_, and idle_ is emptied first: a         *)
(* connection reaches idle_ only after an overshoot, behind a full channel. *)
IdleOnlyOnOvershoot ==
  ~stopping /\ idle # {} =>
    created_at > Size /\ Cardinality(buffer) = Capacity

(* The breaker's fields agree with its state, whatever order late answers   *)
(* arrive in: Closed is below the threshold, Open at it with no probe, and  *)
(* HalfOpen never stands without its probe flag (a second caller would be   *)
(* let in).                                                                 *)
BreakerConsistent ==
  /\ state = "Closed" => consecutive_failures < FailureThreshold
  /\ state # "Closed" => consecutive_failures >= FailureThreshold
  /\ half_open_probe_inflight <=> state = "HalfOpen"
  /\ probing # {} => state # "Closed"

(* While the breaker stays tripped nobody new gets past it: the requests in *)
(* the pool only leave. The one that turns Open into HalfOpen is the probe. *)
InPool == Requests \ At("out")
LoadShedding ==
  [][state # "Closed" /\ state' = state => InPool' \subseteq InPool]_vars

(* The failures counted while Open come from requests let in before, so the *)
(* unbounded ++consecutive_failures is in fact bounded.                     *)
FailuresBounded ==
  consecutive_failures < FailureThreshold + Cardinality(Requests)

(* The pool implements the abstract one.                                    *)
HolderOf ==
  [c \in Connections |->
     IF c \in Leased THEN CHOOSE r \in Requests : lease[r] = c
                     ELSE NoConnection]
Promise == INSTANCE ConnectionPool WITH
  Clients <- Requests, Nobody <- NoConnection,
  Limit <- (Size + Cardinality(Requests)) - 1,
  open <- Live, holder <- HolderOf
ImplementsConnectionPool == Promise!Spec
-----------------------------------------------------------------------------
(* Liveness.                                                                *)

(* If healthy connections keep coming back, every waiting request is served *)
(* (or fails at shutdown): the channel is first come, first served.         *)
HealthyReturn == \E r \in Requests : QueryOk(r, TRUE)
WaitersServed ==
  []<><<HealthyReturn>>_vars =>
    \A r \in Requests : pc[r] = "waiting" ~> pc[r] # "waiting"
-----------------------------------------------------------------------------
(* What comments of the code say and the code does not do.                  *)

(* "probe failed -> OPEN", and a success closes: HalfOpen is passed through.*)
ProbeDecides == state = "HalfOpen" ~> state # "HalfOpen"

(* "Create new if capacity allows ... Wait": waiting is for a full pool.    *)
WaitOnlyAtCapacity == receivers # <<>> => created_at >= Size
=============================================================================
