---------------------------- MODULE PgPoolProofs ----------------------------
(* Theorems about PgPool for every number of requests, every size and every *)
(* threshold.                                                               *)
EXTENDS PgPool, FiniteSetTheorems, TLAPS

-----------------------------------------------------------------------------
(* The breaker's operations keep its type.                                  *)

(* Every operation of the breaker (allow that answers true, on_success,     *)
(* on_failure) leaves its fields well typed.                                *)
LEMMA BreakerOperationType ==
  ASSUME BreakerTypeOK, Admit \/ OnSuccess \/ OnFailure \/ UNCHANGED breakerVars
  PROVE  BreakerTypeOK'
<1> USE BreakerAssumption DEF BreakerTypeOK, BreakerState
<1>1. CASE Admit
  BY <1>1 DEF Admit
<1>2. CASE OnSuccess
  BY <1>2 DEF OnSuccess
<1>3. CASE OnFailure
  <2>0. FailureThreshold \in Nat /\ OpenDuration \in 0..OpenDuration
    OBVIOUS
  <2>1. ASSUME NEW n \in Nat, Trip(n)
        PROVE  BreakerTypeOK'
    BY <2>0, <2>1 DEF Trip
  <2>2. CASE consecutive_failures' = consecutive_failures + 1
             /\ UNCHANGED <<state, open_left, half_open_probe_inflight>>
    BY <2>2
  <2> QED
    BY <1>3, <2>0, <2>1, <2>2 DEF OnFailure
<1>4. CASE UNCHANGED breakerVars
  BY <1>4 DEF breakerVars
<1> QED
  BY <1>1, <1>2, <1>3, <1>4

(* The invariant that carries the proofs: a lease's type alone does not say *)
(* that what release() gives away is a connection, nor that the receiver it *)
(* gives it to has none.                                                    *)
HandsInv == TypeOK /\ ExclusiveLease /\ QueueConsistent

(* Handing the connection of a leased request to the first receiver, which  *)
(* is some other request and has none.                                      *)
LEMMA HandOverHands ==
  ASSUME HandsInv, NEW r \in Requests, pc[r] = "leased", HandOver(r),
         BreakerTypeOK', stopping' \in BOOLEAN, probing' \subseteq Requests
  PROVE  HandsInv'
<1> USE DEF HandsInv
<1> DEFINE next == Head(receivers)
<1>1. /\ receivers \in Seq(Requests) /\ receivers # <<>>
      /\ next = receivers[1] /\ 1 \in DOMAIN receivers
      /\ next \in Requests
  BY DEF HandOver, TypeOK
<1>2. pc[next] = "waiting" /\ next # r
  BY <1>1 DEF QueueConsistent
<1>3. lease[r] \in Connections /\ lease[next] = NoConnection
  BY <1>1, <1>2, PoolAssumption DEF ExclusiveLease, TypeOK
<1>4. /\ pc' = [pc EXCEPT ![r] = "out", ![next] = "leased"]
      /\ lease' = [lease EXCEPT ![r] = NoConnection, ![next] = lease[r]]
      /\ receivers' = Tail(receivers)
      /\ UNCHANGED <<idle, buffer, created_at>>
  BY DEF HandOver
<1>5. TypeOK'
  BY <1>1, <1>2, <1>3, <1>4 DEF TypeOK, Stages
<1>6. ExclusiveLease'
  <2>1. \A i \in Requests :
          /\ pc'[i] = IF i = r THEN "out" ELSE IF i = next THEN "leased" ELSE pc[i]
          /\ lease'[i] = IF i = r THEN NoConnection
                         ELSE IF i = next THEN lease[r] ELSE lease[i]
    BY <1>1, <1>2, <1>4 DEF TypeOK
  <2>2. Parked' = Parked
    BY <1>4 DEF Parked
  <2>3. \A i, k \in Requests :
          i # k /\ lease'[i] # NoConnection => lease'[i] # lease'[k]
    BY <2>1, <1>1, <1>2, <1>3 DEF ExclusiveLease
  <2>4. \A i \in Requests : lease'[i] # NoConnection <=> pc'[i] = "leased"
    BY <2>1, <1>2, <1>3, PoolAssumption DEF ExclusiveLease
  <2>5. \A i \in Requests : lease'[i] \notin Parked
    BY <2>1, <1>1, <1>3, PoolAssumption DEF ExclusiveLease, TypeOK, Parked
  <2> QED
    BY <2>2, <2>3, <2>4, <2>5, <1>4 DEF ExclusiveLease
<1>7. QueueConsistent'
  <2>1. /\ DOMAIN receivers' = 1..Len(receivers) - 1
        /\ DOMAIN receivers = 1..Len(receivers)
        /\ Len(receivers) \in Nat
        /\ \A i \in 1..Len(receivers) - 1 : receivers'[i] = receivers[i + 1]
        /\ \A i \in DOMAIN receivers : receivers[i] \in Requests
    BY <1>1, <1>4
  <2>2. \A i \in DOMAIN receivers' :
          /\ i + 1 \in DOMAIN receivers
          /\ receivers'[i] = receivers[i + 1]
          /\ receivers[i + 1] # next
    BY <2>1, <1>1 DEF QueueConsistent
  <2>3. \A i \in Requests :
          pc'[i] = IF i = r THEN "out" ELSE IF i = next THEN "leased" ELSE pc[i]
    BY <1>1, <1>4 DEF TypeOK
  <2>4. \A i \in DOMAIN receivers' : pc'[receivers'[i]] = "waiting"
    BY <2>1, <2>2, <2>3 DEF QueueConsistent
  <2>5. \A i, j \in DOMAIN receivers' : receivers'[i] = receivers'[j] => i = j
    BY <2>1, <2>2 DEF QueueConsistent
  <2>6. ASSUME NEW q \in Requests, pc'[q] = "waiting"
        PROVE  \E i \in DOMAIN receivers' : receivers'[i] = q
    <3>1. pc[q] = "waiting" /\ q # next
      BY <2>3, <2>6, <1>2
    <3>2. PICK i \in DOMAIN receivers : receivers[i] = q
      BY <3>1 DEF QueueConsistent, At
    <3>3. i - 1 \in 1..Len(receivers) - 1 /\ receivers'[i - 1] = q
      BY <3>1, <3>2, <2>1, <1>1
    <3> QED
      BY <3>3, <2>1
  <2> QED
    BY <2>4, <2>5, <2>6 DEF QueueConsistent, At
<1> QED
  BY <1>5, <1>6, <1>7

(* A request that neither was nor is waiting changes stage: the queue is as *)
(* consistent as it was.                                                    *)
LEMMA QueueUntouched ==
  ASSUME TypeOK, QueueConsistent, NEW r \in Requests, pc[r] # "waiting",
         NEW stage \in Stages \ {"waiting"},
         pc' = [pc EXCEPT ![r] = stage], UNCHANGED receivers
  PROVE  QueueConsistent'
<1>1. \A q \in Requests : pc'[q] = "waiting" <=> pc[q] = "waiting"
  BY DEF TypeOK
<1>2. \A i \in DOMAIN receivers : receivers[i] \in Requests
  BY DEF TypeOK
<1> QED
  BY <1>1, <1>2 DEF QueueConsistent, At

(* Giving back: dropped, handed over or parked, the connection ends up in   *)
(* one place and its request without one.                                   *)
LEMMA ReleaseHands ==
  ASSUME HandsInv, NEW r \in Requests, NEW healthy \in BOOLEAN,
         pc[r] = "leased", Release(r, healthy),
         BreakerTypeOK', stopping' \in BOOLEAN, probing' \subseteq Requests
  PROVE  HandsInv'
<1> USE DEF HandsInv
<1>1. lease[r] \in Connections
  BY DEF ExclusiveLease, TypeOK
<1>2. ASSUME Drop(r) \/ Park(r)
      PROVE  HandsInv'
  <2>1. /\ pc' = [pc EXCEPT ![r] = "out"]
        /\ lease' = [lease EXCEPT ![r] = NoConnection]
        /\ UNCHANGED receivers
    BY <1>2 DEF Drop, Park
  <2>2. TypeOK'
    <3>1. created_at' \in Nat
      BY <1>2 DEF Drop, Park, TypeOK
    <3>2. idle' \subseteq Connections /\ buffer' \subseteq Connections
      BY <1>1, <1>2 DEF Drop, Park, TypeOK
    <3> QED
      BY <2>1, <3>1, <3>2 DEF TypeOK, Stages
  <2>3. ExclusiveLease'
    <3>1. \A i \in Requests :
            /\ pc'[i] = IF i = r THEN "out" ELSE pc[i]
            /\ lease'[i] = IF i = r THEN NoConnection ELSE lease[i]
      BY <2>1 DEF TypeOK
    <3>2. \/ UNCHANGED <<idle, buffer>>
          \/ buffer' = buffer \cup {lease[r]} /\ UNCHANGED idle
          \/ idle' = idle \cup {lease[r]} /\ UNCHANGED buffer
      BY <1>2 DEF Drop, Park
    <3>3. NoConnection \notin Parked'
      BY <1>1, <3>2, PoolAssumption DEF TypeOK, Parked
    <3>4. \A i, j \in Requests :
            i # j /\ lease'[i] # NoConnection => lease'[i] # lease'[j]
      BY <3>1 DEF ExclusiveLease
    <3>5. \A i \in Requests : lease'[i] # NoConnection <=> pc'[i] = "leased"
      BY <3>1 DEF ExclusiveLease
    <3>6. \A i \in Requests : lease'[i] \notin Parked'
      BY <1>1, <3>1, <3>2, <3>3, PoolAssumption DEF ExclusiveLease, Parked
    <3>7. idle' \cap buffer' = {}
      BY <1>1, <3>2 DEF ExclusiveLease, Parked
    <3> QED
      BY <3>4, <3>5, <3>6, <3>7 DEF ExclusiveLease
  <2>4. QueueConsistent'
    BY <2>1, QueueUntouched DEF Stages
  <2> QED
    BY <2>2, <2>3, <2>4
<1>3. CASE HandOver(r)
  BY <1>3, HandOverHands
<1> QED
  BY <1>2, <1>3 DEF Release
-----------------------------------------------------------------------------
(* Taking: a request that holds nothing gets a connection nobody holds and  *)
(* that is parked no longer.                                                *)
LEMMA HoldHands ==
  ASSUME HandsInv, NEW r \in Requests, pc[r] \in {"out", "connecting"},
         NEW c \in Connections, \A q \in Requests : lease[q] # c, Hold(r, c),
         idle' \subseteq idle \ {c}, buffer' \subseteq buffer \ {c},
         UNCHANGED receivers, created_at' \in Nat,
         BreakerTypeOK', stopping' \in BOOLEAN, probing' \subseteq Requests
  PROVE  HandsInv'
<1> USE DEF HandsInv
<1>1. \A i \in Requests :
        /\ pc'[i] = IF i = r THEN "leased" ELSE pc[i]
        /\ lease'[i] = IF i = r THEN c ELSE lease[i]
  BY DEF Hold, TypeOK
<1>2. TypeOK'
  BY DEF Hold, TypeOK, Stages
<1>3. ExclusiveLease'
  <2>1. \A i, j \in Requests :
          i # j /\ lease'[i] # NoConnection => lease'[i] # lease'[j]
    BY <1>1 DEF ExclusiveLease
  <2>2. \A i \in Requests : lease'[i] # NoConnection <=> pc'[i] = "leased"
    BY <1>1, PoolAssumption DEF ExclusiveLease
  <2>3. \A i \in Requests : lease'[i] \notin Parked'
    BY <1>1 DEF ExclusiveLease, Parked
  <2>4. idle' \cap buffer' = {}
    BY DEF ExclusiveLease
  <2> QED
    BY <2>1, <2>2, <2>3, <2>4 DEF ExclusiveLease
<1>4. QueueConsistent'
  BY QueueUntouched DEF Hold, Stages
<1> QED
  BY <1>2, <1>3, <1>4

(* A step that moves no connection: one request goes from a stage without a *)
(* lease to another, and is in the queue after it exactly if it waits.      *)
LEMMA MoveHands ==
  ASSUME HandsInv, NEW r \in Requests, NEW stage \in {"out", "connecting", "waiting"},
         pc[r] \in {"out", "connecting"}, pc' = [pc EXCEPT ![r] = stage],
         UNCHANGED <<lease, idle, buffer, created_at>>,
         receivers' = IF stage = "waiting" THEN Append(receivers, r) ELSE receivers,
         BreakerTypeOK', stopping' \in BOOLEAN, probing' \subseteq Requests
  PROVE  HandsInv'
<1> USE DEF HandsInv
<1>1. \A i \in Requests : pc'[i] = IF i = r THEN stage ELSE pc[i]
  BY DEF TypeOK
<1>2. TypeOK'
  BY DEF TypeOK, Stages
<1>3. ExclusiveLease'
  BY <1>1 DEF ExclusiveLease, Parked
<1>4. QueueConsistent'
  <2>1. CASE stage # "waiting"
    BY <2>1, QueueUntouched DEF Stages
  <2>2. CASE stage = "waiting"
    <3>1. /\ receivers \in Seq(Requests) /\ Len(receivers) \in Nat
          /\ DOMAIN receivers = 1..Len(receivers)
          /\ DOMAIN receivers' = 1..Len(receivers) + 1
          /\ receivers'[Len(receivers) + 1] = r
      BY <2>2 DEF TypeOK
    <3>2. \A i \in DOMAIN receivers :
            /\ i \in DOMAIN receivers' /\ receivers'[i] = receivers[i]
            /\ receivers[i] \in Requests /\ receivers[i] # r
      BY <2>2, <3>1 DEF TypeOK, QueueConsistent
    <3>3. \A i \in DOMAIN receivers' :
            i \in DOMAIN receivers \/ i = Len(receivers) + 1
      BY <3>1
    <3>4. \A i \in DOMAIN receivers' : pc'[receivers'[i]] = "waiting"
      BY <1>1, <2>2, <3>1, <3>2, <3>3 DEF QueueConsistent
    <3>5. \A i, j \in DOMAIN receivers' : receivers'[i] = receivers'[j] => i = j
      BY <3>1, <3>2, <3>3 DEF QueueConsistent
    <3>6. \A q \in Requests : pc'[q] = "waiting" =>
            \E i \in DOMAIN receivers' : receivers'[i] = q
      <4>1. Len(receivers) + 1 \in DOMAIN receivers'
        BY <3>1
      <4>2. ASSUME NEW q \in Requests, pc'[q] = "waiting", q # r
            PROVE  \E i \in DOMAIN receivers' : receivers'[i] = q
        BY <1>1, <4>2, <3>2 DEF QueueConsistent, At
      <4> QED
        BY <3>1, <4>1, <4>2
    <3> QED
      BY <3>4, <3>5, <3>6 DEF QueueConsistent, At
  <2> QED
    BY <2>1, <2>2
<1> QED
  BY <1>2, <1>3, <1>4

(* No step of the program or of a shutdown breaks the invariant.            *)
LEMMA HandsStep ==
  ASSUME HandsInv, [Next]_vars
  PROVE  HandsInv'
<1> USE DEF HandsInv
<1>1. ASSUME Serve \/ Shutdown \/ UNCHANGED vars
      PROVE  /\ BreakerTypeOK'
             /\ stopping' \in BOOLEAN
  <2>1. stopping' \in BOOLEAN
    BY <1>1 DEF TypeOK, Serve, Shutdown, AcquireIdle, AcquireConnect, AcquireBuffered,
         AcquireWait, ConnectOk, ConnectFail, QueryOk, QueryDbError, QueryInfraError,
         ClockTick, vars, poolVars
  <2>2. ASSUME ClockTick
        PROVE  BreakerTypeOK'
    BY <2>2, BreakerAssumption DEF ClockTick, Tick, TypeOK, BreakerTypeOK
  <2>3. ASSUME Admit \/ OnSuccess \/ OnFailure \/ UNCHANGED breakerVars
        PROVE  BreakerTypeOK'
    BY <2>3, BreakerOperationType DEF TypeOK
  <2>4. ClockTick \/ Admit \/ OnSuccess \/ OnFailure \/ UNCHANGED breakerVars
    BY <1>1 DEF Serve, Shutdown, AcquireIdle, AcquireConnect, AcquireBuffered,
         AcquireWait, Enter, ConnectOk, ConnectFail, QueryOk, QueryDbError,
         QueryInfraError, vars
  <2> QED
    BY <2>1, <2>2, <2>3, <2>4
<1>2. ASSUME NEW r \in Requests, AcquireIdle(r) \/ AcquireBuffered(r)
      PROVE  HandsInv'
  <2>1. Serve
    BY <1>2 DEF Serve
  <2>2. PICK c \in Parked : /\ Hold(r, c)
                            /\ idle' \subseteq idle \ {c}
                            /\ buffer' \subseteq buffer \ {c}
    BY <1>2 DEF AcquireIdle, AcquireBuffered, Parked, ExclusiveLease
  <2>3. /\ pc[r] = "out" /\ UNCHANGED <<receivers, created_at>>
        /\ probing' \subseteq Requests
    BY <1>2 DEF AcquireIdle, AcquireBuffered, Enter, TypeOK
  <2>4. c \in Connections /\ \A q \in Requests : lease[q] # c
    BY <2>2 DEF ExclusiveLease, TypeOK, Parked
  <2>5. created_at' \in Nat
    BY <2>3 DEF TypeOK
  <2> QED
    BY <1>1, <2>1, <2>2, <2>3, <2>4, <2>5, HoldHands
<1>3. ASSUME NEW r \in Requests, AcquireConnect(r) \/ AcquireWait(r)
      PROVE  HandsInv'
  <2>1. Serve
    BY <1>3 DEF Serve
  <2>2. pc[r] = "out" /\ probing' \subseteq Requests
    BY <1>3 DEF AcquireConnect, AcquireWait, Enter, TypeOK
  <2>3. CASE AcquireConnect(r)
    BY <1>1, <2>1, <2>2, <2>3, MoveHands DEF AcquireConnect
  <2>4. CASE AcquireWait(r)
    BY <1>1, <2>1, <2>2, <2>4, MoveHands DEF AcquireWait
  <2> QED
    BY <1>3, <2>3, <2>4
<1>4. ASSUME NEW r \in Requests, ConnectOk(r)
      PROVE  HandsInv'
  <2>1. Serve
    BY <1>4 DEF Serve
  <2>2. PICK c \in Connections \ Live : Hold(r, c)
    BY <1>4 DEF ConnectOk
  <2>3. \A q \in Requests : lease[q] # c
    BY <2>2, PoolAssumption DEF Live, Leased, At, ExclusiveLease
  <2>4. idle' \subseteq idle \ {c} /\ buffer' \subseteq buffer \ {c}
    BY <1>4, <2>2 DEF ConnectOk, Live, Parked
  <2>5. created_at' \in Nat /\ probing' \subseteq Requests
    BY <1>4 DEF ConnectOk, TypeOK
  <2> QED
    BY <1>1, <1>4, <2>1, <2>2, <2>3, <2>4, <2>5, HoldHands DEF ConnectOk
<1>5. ASSUME NEW r \in Requests, ConnectFail(r)
      PROVE  HandsInv'
  <2>1. Serve
    BY <1>5 DEF Serve
  <2>2. probing' \subseteq Requests
    BY <1>5 DEF ConnectFail, TypeOK
  <2> QED
    BY <1>1, <1>5, <2>1, <2>2, MoveHands DEF ConnectFail
<1>6. ASSUME NEW r \in Requests, NEW healthy \in BOOLEAN,
             QueryOk(r, healthy) \/ QueryDbError(r) \/ QueryInfraError(r)
      PROVE  HandsInv'
  <2>1. Serve
    BY <1>6 DEF Serve
  <2>2. probing' \subseteq Requests /\ pc[r] = "leased"
    BY <1>6 DEF QueryOk, QueryDbError, QueryInfraError, TypeOK
  <2>3. Release(r, healthy) \/ Release(r, FALSE)
    BY <1>6 DEF QueryOk, QueryDbError, QueryInfraError
  <2> QED
    BY <1>1, <2>1, <2>2, <2>3, ReleaseHands
<1>7. CASE Shutdown
  <2>1. \A i \in Requests : pc'[i] = IF pc[i] = "waiting" THEN "out" ELSE pc[i]
    BY <1>7 DEF Shutdown
  <2>2. TypeOK'
    <3>1. pc' \in [Requests -> Stages]
      BY <1>7 DEF Shutdown, TypeOK, Stages
    <3> QED
      BY <1>1, <1>7, <3>1 DEF Shutdown, TypeOK
  <2>3. ExclusiveLease'
    BY <1>7, <2>1 DEF Shutdown, ExclusiveLease, Parked
  <2>4. QueueConsistent'
    <3>1. DOMAIN receivers' = {}
      BY <1>7 DEF Shutdown
    <3>2. \A q \in Requests : pc'[q] # "waiting"
      BY <2>1
    <3> QED
      BY <3>1, <3>2 DEF QueueConsistent, At
  <2> QED
    BY <2>2, <2>3, <2>4
<1>8. CASE ClockTick
  <2>1. Serve
    BY <1>8 DEF Serve
  <2> QED
    BY <1>1, <1>8, <2>1 DEF ClockTick, poolVars, TypeOK, ExclusiveLease, Parked,
         QueueConsistent, At
<1>9. CASE UNCHANGED vars
  BY <1>1, <1>9 DEF vars, poolVars, TypeOK, ExclusiveLease, Parked, QueueConsistent, At
<1> QED
  BY <1>2, <1>3, <1>4, <1>5, <1>6, <1>7, <1>8, <1>9 DEF Next, Serve
-----------------------------------------------------------------------------
(* Nothing is held, parked or waited for at first.                          *)
LEMMA HandsInit == Init => HandsInv
<1> SUFFICES ASSUME Init PROVE HandsInv
  OBVIOUS
<1>1. BreakerTypeOK
  <2>1. 0 \in 0..OpenDuration
    BY BreakerAssumption
  <2> QED
    BY <2>1 DEF Init, BreakerInit, BreakerTypeOK, BreakerState
<1>2. TypeOK
  <2>1. receivers \in Seq(Requests)
    BY DEF Init
  <2> QED
    BY <1>1, <2>1 DEF Init, TypeOK, Stages
<1>3. ExclusiveLease /\ QueueConsistent
  BY PoolAssumption DEF Init, ExclusiveLease, Parked, QueueConsistent, At
<1> QED
  BY <1>2, <1>3 DEF HandsInv

(* HandsInv is an invariant of the pool.                                    *)
LEMMA HandsInvariant == Spec => []HandsInv
<1>1. HandsInv /\ [Next]_vars => HandsInv'
  BY HandsStep
<1> QED
  BY <1>1, HandsInit, PTL DEF Spec

(* Type correctness: in particular created_at_ never wraps below zero, also *)
(* when connections come back after shutdown() has zeroed it.               *)
THEOREM TypeCorrect == Spec => []TypeOK
<1>1. HandsInv => TypeOK
  BY DEF HandsInv
<1> QED
  BY <1>1, HandsInvariant, PTL

(* No connection is ever in two hands, or in a hand and in a parking place. *)
THEOREM LeasesExclusive == Spec => []ExclusiveLease
<1>1. HandsInv => ExclusiveLease
  BY DEF HandsInv
<1> QED
  BY <1>1, HandsInvariant, PTL

(* The channel's queue is exactly the requests that wait, each once.        *)
THEOREM QueueIsConsistent == Spec => []QueueConsistent
<1>1. HandsInv => QueueConsistent
  BY DEF HandsInv
<1> QED
  BY <1>1, HandsInvariant, PTL
-----------------------------------------------------------------------------
(* The breaker.                                                             *)

(* The breaker's fields agree with its state after any interleaving of late *)
(* answers: it is HalfOpen exactly while the probe flag is up.              *)
LEMMA BreakerStep ==
  ASSUME TypeOK, BreakerConsistent, [Next]_vars
  PROVE  BreakerConsistent'
<1> USE BreakerAssumption DEF TypeOK, BreakerTypeOK, BreakerState, BreakerConsistent
<1>1. ASSUME NEW r \in Requests, Enter(r)
      PROVE  BreakerConsistent'
  BY <1>1 DEF Enter, Admit
<1>2. ASSUME OnSuccess, probing' = {}
      PROVE  BreakerConsistent'
  BY <1>2 DEF OnSuccess
<1>3. ASSUME OnFailure, probing' \subseteq probing
      PROVE  BreakerConsistent'
  <2>1. CASE state = "HalfOpen"
    BY <1>3, <2>1 DEF OnFailure, Trip
  <2>2. CASE state # "HalfOpen" /\ consecutive_failures + 1 >= FailureThreshold
    BY <1>3, <2>2 DEF OnFailure, Trip
  <2>3. CASE state # "HalfOpen" /\ consecutive_failures + 1 < FailureThreshold
    BY <1>3, <2>3 DEF OnFailure
  <2> QED
    BY <2>1, <2>2, <2>3
<1>4. ASSUME UNCHANGED <<state, consecutive_failures, half_open_probe_inflight>>,
             probing' \subseteq probing
      PROVE  BreakerConsistent'
  BY <1>4
<1>5. ASSUME NEW r \in Requests, AcquireIdle(r) \/ AcquireConnect(r)
                                 \/ AcquireBuffered(r) \/ AcquireWait(r)
      PROVE  BreakerConsistent'
  BY <1>1, <1>5 DEF AcquireIdle, AcquireConnect, AcquireBuffered, AcquireWait
<1>6. ASSUME NEW r \in Requests, NEW healthy \in BOOLEAN,
             ConnectOk(r) \/ QueryOk(r, healthy)
      PROVE  BreakerConsistent'
  BY <1>2, <1>6 DEF ConnectOk, QueryOk
<1>7. ASSUME NEW r \in Requests, ConnectFail(r) \/ QueryInfraError(r)
      PROVE  BreakerConsistent'
  BY <1>3, <1>7 DEF ConnectFail, QueryInfraError
<1>8. ASSUME NEW r \in Requests, QueryDbError(r)
      PROVE  BreakerConsistent'
  BY <1>4, <1>8 DEF QueryDbError, breakerVars
<1>9. ASSUME Shutdown \/ ClockTick \/ UNCHANGED vars
      PROVE  BreakerConsistent'
  BY <1>4, <1>9 DEF Shutdown, ClockTick, vars, breakerVars, poolVars
<1> QED
  BY <1>5, <1>6, <1>7, <1>8, <1>9 DEF Next, Serve

(* The breaker's fields agree with its state, whatever answers arrive late  *)
(* (PgPool.h, on_success and on_failure).                                   *)
THEOREM BreakerIsConsistent == Spec => []BreakerConsistent
<1>1. Init => BreakerConsistent
  BY BreakerAssumption DEF Init, BreakerInit, BreakerConsistent
<1>2. TypeOK /\ BreakerConsistent /\ [Next]_vars => BreakerConsistent'
  BY BreakerStep
<1> QED
  BY <1>1, <1>2, TypeCorrect, PTL DEF Spec

(* A request that gives its connection back is the only one that leaves,    *)
(* and nobody comes in: the receiver it may hand it to waited in the pool.  *)
LEMMA ReleaseLeaves ==
  ASSUME HandsInv, NEW r \in Requests, NEW healthy \in BOOLEAN,
         pc[r] = "leased", Release(r, healthy)
  PROVE  InPool' \subseteq InPool \ {r}
<1> USE DEF InPool, At
<1>1. CASE Drop(r) \/ Park(r)
  BY <1>1 DEF Drop, Park, HandsInv, TypeOK
<1>2. CASE HandOver(r)
  <2>1. /\ Head(receivers) = receivers[1] /\ 1 \in DOMAIN receivers
        /\ receivers[1] \in Requests
    BY <1>2 DEF HandOver, HandsInv, TypeOK
  <2>2. pc[Head(receivers)] = "waiting"
    BY <2>1 DEF HandsInv, QueueConsistent
  <2> QED
    BY <1>2, <2>1, <2>2 DEF HandOver, HandsInv, TypeOK
<1> QED
  BY <1>1, <1>2 DEF Release

(* What a step tells the breaker: allow() lets somebody in, a call went     *)
(* well, a call failed and has left the pool, or nothing, and then nobody   *)
(* comes in.                                                                *)
LEMMA BreakerFates ==
  ASSUME HandsInv, [Next]_vars
  PROVE  \/ Admit
         \/ OnSuccess
         \/ OnFailure /\ \E r \in InPool : InPool' \subseteq InPool \ {r}
         \/ /\ UNCHANGED <<state, consecutive_failures>>
            /\ InPool' \subseteq InPool
<1> DEFINE Failed == OnFailure /\ \E r \in InPool : InPool' \subseteq InPool \ {r}
           Unsaid == UNCHANGED <<state, consecutive_failures>> /\ InPool' \subseteq InPool
<1>1. ASSUME NEW r \in Requests, ConnectFail(r)
      PROVE  Failed
  BY <1>1 DEF ConnectFail, HandsInv, TypeOK, InPool, At
<1>2. ASSUME NEW r \in Requests, QueryInfraError(r)
      PROVE  Failed
  <2>1. pc[r] = "leased" /\ Release(r, FALSE) /\ OnFailure
    BY <1>2 DEF QueryInfraError
  <2>2. InPool' \subseteq InPool \ {r}
    BY <2>1, ReleaseLeaves
  <2>3. r \in InPool
    BY <2>1 DEF InPool, At
  <2> QED
    BY <2>1, <2>2, <2>3
<1>3. ASSUME NEW r \in Requests, QueryDbError(r)
      PROVE  Unsaid
  <2>1. pc[r] = "leased" /\ Release(r, FALSE) /\ UNCHANGED <<state, consecutive_failures>>
    BY <1>3 DEF QueryDbError, breakerVars
  <2> QED
    BY <2>1, ReleaseLeaves
<1>4. ASSUME Shutdown \/ ClockTick \/ UNCHANGED vars
      PROVE  Unsaid
  BY <1>4 DEF Shutdown, ClockTick, vars, poolVars, breakerVars, InPool, At
<1>5. ASSUME NEW r \in Requests,
             \/ AcquireIdle(r) \/ AcquireConnect(r) \/ AcquireBuffered(r)
             \/ AcquireWait(r) \/ ConnectOk(r)
             \/ \E healthy \in BOOLEAN : QueryOk(r, healthy)
      PROVE  Admit \/ OnSuccess
  BY <1>5 DEF AcquireIdle, AcquireConnect, AcquireBuffered, AcquireWait, Enter,
     ConnectOk, QueryOk
<1> QED
  BY <1>1, <1>2, <1>3, <1>4, <1>5 DEF Next, Serve

(* While the breaker stays tripped, no request newly enters the pool: with  *)
(* BreakerConsistent, a HalfOpen breaker has its flag up and refuses.       *)
THEOREM TrippedShedsLoad == Spec => LoadShedding
<1>1. ASSUME HandsInv, BreakerConsistent, [Next]_vars,
             state # "Closed", state' = state
      PROVE  InPool' \subseteq InPool
  <2>1. ~Admit
    BY <1>1 DEF Admit, Refuses, BreakerConsistent, HandsInv, TypeOK,
       BreakerTypeOK, BreakerState
  <2>2. ~OnSuccess
    BY <1>1 DEF OnSuccess
  <2> QED
    BY <1>1, <2>1, <2>2, BreakerFates
<1>2. HandsInv /\ BreakerConsistent /\ [Next]_vars
        => [state # "Closed" /\ state' = state => InPool' \subseteq InPool]_vars
  BY <1>1
<1> QED
  BY <1>2, HandsInvariant, BreakerIsConsistent, PTL DEF Spec, LoadShedding

(* What bounds the failures: each that Open counts is paid for by a request *)
(* that leaves, and nobody comes in before the count is set or cleared.     *)
FailuresPaid ==
  state = "Open" =>
    consecutive_failures + Cardinality(InPool)
      <= (FailureThreshold + Cardinality(Requests)) - 1

(* However many requests fail late, on_failure()'s unguarded increment goes *)
(* less far beyond the threshold than there are requests.                   *)
THEOREM FailuresAreBounded == Spec => []FailuresBounded
<1> DEFINE N == Cardinality(Requests)
           In == Cardinality(InPool)
           Paid == FailuresPaid /\ FailuresBounded
<1>1. N \in Nat \ {0} /\ FailureThreshold \in Nat \ {0}
  BY PoolAssumption, BreakerAssumption, FS_CardinalityType, FS_EmptySet
<1>2. /\ IsFiniteSet(InPool) /\ In \in Nat /\ In <= N
      /\ IsFiniteSet(InPool') /\ In' \in Nat /\ In' <= N
  BY PoolAssumption, FS_Subset, FS_CardinalityType DEF InPool
<1>3. Init => Paid
  BY <1>1 DEF Init, BreakerInit, FailuresPaid, FailuresBounded
<1>4. ASSUME HandsInv, HandsInv', BreakerConsistent, Paid, [Next]_vars
      PROVE  Paid'
  <2>0. /\ consecutive_failures \in Nat /\ consecutive_failures' \in Nat
        /\ state \in BreakerState
    BY <1>4 DEF HandsInv, TypeOK, BreakerTypeOK
  <2> USE DEF FailuresPaid, FailuresBounded
  <2>1. CASE Admit
    BY <1>1, <1>2, <1>4, <2>0, <2>1 DEF Admit, BreakerState
  <2>2. CASE OnSuccess
    BY <1>1, <2>2 DEF OnSuccess
  <2>3. CASE OnFailure /\ \E r \in InPool : InPool' \subseteq InPool \ {r}
    <3>1. PICK r \in InPool : InPool' \subseteq InPool \ {r}
      BY <2>3
    <3>2. In' <= In - 1
      <4>1. Cardinality(InPool \ {r}) = In - 1 /\ IsFiniteSet(InPool \ {r})
        BY <1>2, FS_RemoveElement
      <4> QED
        BY <1>2, <3>1, <4>1, FS_Subset
    <3>3. CASE state = "Open"
      BY <1>1, <1>2, <1>4, <2>0, <2>3, <3>2, <3>3 DEF OnFailure, Trip
    <3>4. CASE state = "HalfOpen"
      BY <1>1, <1>2, <1>4, <2>0, <2>3, <3>2, <3>4 DEF OnFailure, Trip
    <3>5. CASE state = "Closed"
      <4>1. consecutive_failures < FailureThreshold
        BY <1>4, <3>5 DEF BreakerConsistent
      <4> QED
        BY <1>1, <1>2, <2>0, <2>3, <3>2, <3>5, <4>1 DEF OnFailure, Trip
    <3> QED
      BY <2>0, <3>3, <3>4, <3>5 DEF BreakerState
  <2>4. CASE UNCHANGED <<state, consecutive_failures>> /\ InPool' \subseteq InPool
    <3>1. In' <= In
      BY <1>2, <2>4, FS_Subset
    <3> QED
      BY <1>1, <1>2, <1>4, <2>0, <2>4, <3>1
  <2> QED
    BY <1>4, <2>1, <2>2, <2>3, <2>4, BreakerFates
<1>5. HandsInv /\ HandsInv' /\ BreakerConsistent /\ Paid /\ [Next]_vars => Paid'
  BY <1>4
<1> QED
  BY <1>3, <1>5, HandsInvariant, BreakerIsConsistent, PTL DEF Spec
-----------------------------------------------------------------------------
(* Waiting and parking.                                                     *)

(* A request waits on the channel only while nothing is parked: release()   *)
(* offers to the receivers first, and a request waits only if it found both *)
(* idle_ and the channel's buffer empty.                                    *)
THEOREM NobodyWaitsBesideParked == Spec => []NoWaitBesideParked
<1>1. Init => NoWaitBesideParked
  BY DEF Init, NoWaitBesideParked
<1>2. ASSUME HandsInv, NoWaitBesideParked, [Next]_vars
      PROVE  NoWaitBesideParked'
  <2> USE DEF NoWaitBesideParked, Parked
  <2>1. ASSUME NEW r \in Requests, NEW healthy \in BOOLEAN, Release(r, healthy)
        PROVE  NoWaitBesideParked'
    BY <1>2, <2>1 DEF Release, Drop, HandOver, Park
  <2>2. ASSUME NEW r \in Requests, NEW healthy \in BOOLEAN,
               QueryOk(r, healthy) \/ QueryDbError(r) \/ QueryInfraError(r)
        PROVE  NoWaitBesideParked'
    BY <2>1, <2>2 DEF QueryOk, QueryDbError, QueryInfraError
  <2>3. ASSUME NEW r \in Requests, AcquireIdle(r) \/ AcquireBuffered(r)
        PROVE  NoWaitBesideParked'
    BY <1>2, <2>3 DEF AcquireIdle, AcquireBuffered
  <2>4. ASSUME NEW r \in Requests, AcquireConnect(r) \/ AcquireWait(r)
                                   \/ ConnectOk(r) \/ ConnectFail(r)
        PROVE  NoWaitBesideParked'
    BY <1>2, <2>4 DEF AcquireConnect, AcquireWait, ConnectOk, ConnectFail
  <2>5. ASSUME Shutdown \/ ClockTick \/ UNCHANGED vars
        PROVE  NoWaitBesideParked'
    BY <1>2, <2>5 DEF Shutdown, ClockTick, vars, poolVars
  <2> QED
    BY <1>2, <2>2, <2>3, <2>4, <2>5 DEF Next, Serve
<1> QED
  BY <1>1, <1>2, HandsInvariant, PTL DEF Spec
-----------------------------------------------------------------------------
(* Counting.                                                                *)

(* How each kind of step changes the set of live connections.               *)
LEMMA LiveStep ==
  ASSUME HandsInv, HandsInv', NEW r \in Requests
  PROVE  /\ IsFiniteSet(Live) /\ Cardinality(Live) \in Nat
         /\ (AcquireIdle(r) \/ AcquireBuffered(r)) => Live' = Live
         /\ UNCHANGED <<lease, idle, buffer>> => Live' = Live
         /\ (HandOver(r) /\ pc[r] = "leased") => Live' = Live
         /\ (Park(r) /\ pc[r] = "leased") => Live' = Live
         /\ (Drop(r) /\ pc[r] = "leased") =>
              lease[r] \in Live /\ Live' = Live \ {lease[r]}
         /\ ConnectOk(r) => \E c : c \notin Live /\ Live' = Live \cup {c}
<1>1. /\ \A c : c \in Live <=> \/ c \in idle \cup buffer
                               \/ c # NoConnection /\ \E q \in Requests : lease[q] = c
      /\ \A c : c \in Live' <=> \/ c \in idle' \cup buffer'
                                \/ c # NoConnection /\ \E q \in Requests : lease'[q] = c
  BY DEF HandsInv, ExclusiveLease, Live, Leased, Parked, At
<1>2. IsFiniteSet(Live) /\ Cardinality(Live) \in Nat
  <2>1. Live \subseteq Connections
    BY <1>1 DEF HandsInv, TypeOK
  <2> QED
    BY <2>1, PoolAssumption, FS_Subset, FS_CardinalityType
<1>3. ASSUME NEW c, Hold(r, c), pc[r] # "leased", c # NoConnection
      PROVE  \A d : (d # NoConnection /\ \E q \in Requests : lease'[q] = d)
                    <=> \/ d = c
                        \/ d # NoConnection /\ \E q \in Requests : lease[q] = d
  <2>1. \A q \in Requests : lease'[q] = IF q = r THEN c ELSE lease[q]
    BY <1>3 DEF Hold, HandsInv, TypeOK
  <2>2. lease[r] = NoConnection
    BY <1>3 DEF HandsInv, ExclusiveLease
  <2> QED
    BY <2>1, <2>2, <1>3
<1>4. ASSUME AcquireIdle(r) \/ AcquireBuffered(r)
      PROVE  Live' = Live
  <2>1. PICK c \in Parked : /\ Hold(r, c)
                            /\ idle' \cup buffer' = (idle \cup buffer) \ {c}
    BY <1>4 DEF AcquireIdle, AcquireBuffered, Parked, HandsInv, ExclusiveLease
  <2>2. c # NoConnection /\ pc[r] # "leased"
    BY <1>4, <2>1, PoolAssumption DEF AcquireIdle, AcquireBuffered, Enter, Parked,
         HandsInv, TypeOK
  <2>3. \A d : (d # NoConnection /\ \E q \in Requests : lease'[q] = d)
              <=> \/ d = c
                  \/ d # NoConnection /\ \E q \in Requests : lease[q] = d
    BY <1>3, <2>1, <2>2
  <2>4. c \in idle \cup buffer
    BY <2>1 DEF Parked
  <2>5. \A d : d \in Live' <=> d \in Live
    BY <1>1, <2>1, <2>3, <2>4
  <2> QED
    BY <2>5
<1>5. ASSUME Drop(r) \/ Park(r), pc[r] = "leased"
      PROVE  /\ \A q \in Requests :
                  lease'[q] = IF q = r THEN NoConnection ELSE lease[q]
             /\ lease[r] # NoConnection
             /\ \A q \in Requests : lease[q] = lease[r] => q = r
  BY <1>5 DEF Drop, Park, HandsInv, TypeOK, ExclusiveLease
<1>6. ASSUME Drop(r), pc[r] = "leased"
      PROVE  lease[r] \in Live /\ Live' = Live \ {lease[r]}
  <2>1. UNCHANGED <<idle, buffer>> /\ lease[r] \notin idle \cup buffer
    BY <1>6 DEF Drop, HandsInv, ExclusiveLease, Parked
  <2> QED
    BY <1>1, <1>5, <1>6, <2>1
<1>7. ASSUME Park(r), pc[r] = "leased"
      PROVE  Live' = Live
  <2>1. idle' \cup buffer' = idle \cup buffer \cup {lease[r]}
    BY <1>7 DEF Park
  <2> QED
    BY <1>1, <1>5, <1>7, <2>1
<1>8. ASSUME HandOver(r), pc[r] = "leased"
      PROVE  Live' = Live
  <2>1. Head(receivers) \in Requests /\ pc[Head(receivers)] = "waiting"
    <3>1. /\ Head(receivers) = receivers[1] /\ 1 \in DOMAIN receivers
          /\ receivers[1] \in Requests
      BY <1>8 DEF HandOver, HandsInv, TypeOK
    <3> QED
      BY <3>1 DEF HandsInv, QueueConsistent
  <2>2. \A q \in Requests :
          lease'[q] = IF q = r THEN NoConnection
                      ELSE IF q = Head(receivers) THEN lease[r] ELSE lease[q]
    BY <1>8, <2>1 DEF HandOver, HandsInv, TypeOK
  <2>3. lease[Head(receivers)] = NoConnection /\ lease[r] # NoConnection
        /\ Head(receivers) # r /\ UNCHANGED <<idle, buffer>>
    BY <1>8, <2>1 DEF HandOver, HandsInv, ExclusiveLease
  <2> QED
    BY <1>1, <2>1, <2>2, <2>3
<1>9. ASSUME ConnectOk(r)
      PROVE  \E c : c \notin Live /\ Live' = Live \cup {c}
  <2>1. PICK c \in Connections \ Live : Hold(r, c)
    BY <1>9 DEF ConnectOk
  <2>2. c # NoConnection /\ pc[r] # "leased" /\ UNCHANGED <<idle, buffer>>
    BY <1>9, <2>1, PoolAssumption DEF ConnectOk
  <2>3. Live' = Live \cup {c}
    BY <1>1, <1>3, <2>1, <2>2
  <2> QED
    BY <2>1, <2>3
<1>10. ASSUME UNCHANGED <<lease, idle, buffer>>
       PROVE  Live' = Live
  BY <1>1, <1>10
<1> QED
  BY <1>2, <1>4, <1>6, <1>7, <1>8, <1>9, <1>10

(* No connection is live at first.                                          *)
LEMMA LiveInit == Init => Live = {} /\ Cardinality(Live) = 0 /\ created_at = 0
<1>1. Init => Live = {}
  BY DEF Init, Live, Leased, Parked, At
<1> QED
  BY <1>1, FS_EmptySet DEF Init

(* What created_at_ counts beyond the live connections stays the same when  *)
(* a connection is given back: the decrement never meets a zero.            *)
LEMMA ReleaseCount ==
  ASSUME HandsInv, HandsInv', NEW r \in Requests, NEW healthy \in BOOLEAN,
         pc[r] = "leased", Release(r, healthy),
         NEW n \in Nat, created_at = Cardinality(Live) + n
  PROVE  created_at' = Cardinality(Live') + n
<1>1. Drop(r) \/ HandOver(r) \/ Park(r)
  BY DEF Release
<1>2. IsFiniteSet(Live) /\ Cardinality(Live) \in Nat
  BY LiveStep
<1>3. CASE HandOver(r) \/ Park(r)
  <2>1. Live' = Live /\ UNCHANGED created_at
    BY <1>3, LiveStep DEF HandOver, Park
  <2> QED
    BY <2>1
<1>4. CASE Drop(r)
  <2>1. lease[r] \in Live /\ Live' = Live \ {lease[r]}
    BY <1>4, LiveStep
  <2>2. Cardinality(Live) # 0 /\ Cardinality(Live') = Cardinality(Live) - 1
    BY <1>2, <2>1, FS_RemoveElement, FS_EmptySet
  <2> QED
    BY <1>2, <1>4, <2>2 DEF Drop
<1> QED
  BY <1>1, <1>3, <1>4

(* And in every other step but a shutdown.                                  *)
LEMMA CountStep ==
  ASSUME HandsInv, HandsInv', Serve \/ UNCHANGED vars,
         NEW n \in Nat, created_at = Cardinality(Live) + n
  PROVE  created_at' = Cardinality(Live') + n
<1>1. ASSUME NEW r \in Requests, AcquireIdle(r) \/ AcquireBuffered(r)
      PROVE  created_at' = Cardinality(Live') + n
  BY <1>1, LiveStep DEF AcquireIdle, AcquireBuffered
<1>2. ASSUME NEW r \in Requests, AcquireConnect(r) \/ AcquireWait(r) \/ ConnectFail(r)
      PROVE  created_at' = Cardinality(Live') + n
  BY <1>2, LiveStep DEF AcquireConnect, AcquireWait, ConnectFail
<1>3. ASSUME NEW r \in Requests, ConnectOk(r)
      PROVE  created_at' = Cardinality(Live') + n
  <2>1. created_at' = created_at + 1
    BY <1>3 DEF ConnectOk
  <2>2. PICK c : c \notin Live /\ Live' = Live \cup {c}
    BY <1>3, LiveStep
  <2>3. IsFiniteSet(Live) /\ Cardinality(Live) \in Nat
    BY <1>3, LiveStep
  <2>4. Cardinality(Live \cup {c}) = Cardinality(Live) + 1
    BY <2>2, <2>3, FS_AddElement
  <2> QED
    BY <2>1, <2>2, <2>3, <2>4
<1>4. ASSUME NEW r \in Requests, NEW healthy \in BOOLEAN,
             QueryOk(r, healthy) \/ QueryDbError(r) \/ QueryInfraError(r)
      PROVE  created_at' = Cardinality(Live') + n
  <2>1. pc[r] = "leased" /\ (Release(r, healthy) \/ Release(r, FALSE))
    BY <1>4 DEF QueryOk, QueryDbError, QueryInfraError
  <2> QED
    BY <2>1, ReleaseCount
<1>5. ASSUME ClockTick \/ UNCHANGED vars
      PROVE  created_at' = Cardinality(Live') + n
  <2>1. UNCHANGED <<lease, idle, buffer, created_at>>
    BY <1>5 DEF ClockTick, vars, poolVars
  <2>2. \E r : r \in Requests
    BY PoolAssumption
  <2> QED
    BY <2>1, <2>2, LiveStep
<1> QED
  BY <1>1, <1>2, <1>3, <1>4, <1>5 DEF Serve

(* Only a shutdown stops the pool.                                          *)
LEMMA ServeRuns ==
  ASSUME Serve \/ UNCHANGED vars
  PROVE  UNCHANGED stopping
<1>1. ASSUME NEW r \in Requests,
             \/ AcquireIdle(r) \/ AcquireConnect(r) \/ AcquireBuffered(r)
             \/ AcquireWait(r) \/ ConnectOk(r) \/ ConnectFail(r)
      PROVE  UNCHANGED stopping
  BY <1>1 DEF AcquireIdle, AcquireConnect, AcquireBuffered, AcquireWait, ConnectOk, ConnectFail
<1>2. ASSUME NEW r \in Requests, NEW healthy \in BOOLEAN,
             QueryOk(r, healthy) \/ QueryDbError(r) \/ QueryInfraError(r)
      PROVE  UNCHANGED stopping
  BY <1>2 DEF QueryOk, QueryDbError, QueryInfraError
<1>3. ASSUME ClockTick \/ UNCHANGED vars
      PROVE  UNCHANGED stopping
  BY <1>3 DEF ClockTick, vars, poolVars
<1> QED
  BY <1>1, <1>2, <1>3 DEF Serve

(* created_at_ counts the live connections exactly until shutdown: no order *)
(* of connects, drops and hand-overs loses or invents a slot.               *)
THEOREM CountIsExact == Spec => []CountExact
<1>1. Init => CountExact
  BY LiveInit DEF CountExact
<1>2. ASSUME HandsInv, HandsInv', CountExact, [Next]_vars
      PROVE  CountExact'
  <2> SUFFICES ASSUME ~stopping' PROVE created_at' = Cardinality(Live')
    BY DEF CountExact
  <2>1. ~stopping /\ (Serve \/ UNCHANGED vars)
    BY <1>2, ServeRuns DEF Next, Shutdown
  <2>2. Cardinality(Live) \in Nat /\ Cardinality(Live') \in Nat
    <3>1. Live \subseteq Connections /\ Live' \subseteq Connections
      BY <1>2 DEF HandsInv, TypeOK, ExclusiveLease, Live, Leased, Parked, At
    <3> QED
      BY <3>1, PoolAssumption, FS_Subset, FS_CardinalityType
  <2>3. created_at = Cardinality(Live) + 0
    BY <1>2, <2>1, <2>2 DEF CountExact
  <2>4. created_at' = Cardinality(Live') + 0
    BY <1>2, <2>1, <2>3, CountStep
  <2> QED
    BY <2>2, <2>4
<1>3. HandsInv /\ HandsInv' /\ CountExact /\ [Next]_vars => CountExact'
  BY <1>2
<1> QED
  BY <1>1, <1>3, HandsInvariant, PTL DEF Spec

(* The bound on the overshoot survives a step that makes nobody connect and *)
(* brings no connection to life.                                            *)
LEMMA FewerStayBounded ==
  ASSUME HandsInv, HandsInv', BoundedOvercreation,
         At("connecting")' = At("connecting"), Live' \subseteq Live
  PROVE  BoundedOvercreation'
<1>1. Size \in Nat /\ Cardinality(Requests) \in Nat
  BY PoolAssumption, FS_CardinalityType
<1>2. IsFiniteSet(Live) /\ Cardinality(Live) \in Nat
  <2>1. \E r : r \in Requests
    BY PoolAssumption
  <2> QED
    BY <2>1, LiveStep
<1>3. Cardinality(Live') \in Nat /\ Cardinality(Live') <= Cardinality(Live)
  BY <1>2, FS_Subset, FS_CardinalityType
<1>4. /\ Cardinality(At("connecting")) \in Nat
      /\ Cardinality(At("connecting")') = Cardinality(At("connecting"))
  BY PoolAssumption, FS_Subset, FS_CardinalityType DEF At
<1> QED
  BY <1>1, <1>2, <1>3, <1>4 DEF BoundedOvercreation

(* release() makes nobody connect, whoever it hands the connection to.      *)
LEMMA ReleaseBounds ==
  ASSUME HandsInv, HandsInv', BoundedOvercreation,
         NEW r \in Requests, NEW healthy \in BOOLEAN, pc[r] = "leased", Release(r, healthy)
  PROVE  BoundedOvercreation'
<1>1. Drop(r) \/ HandOver(r) \/ Park(r)
  BY DEF Release
<1>2. Live' \subseteq Live
  BY <1>1, LiveStep
<1>3. At("connecting")' = At("connecting")
  <2>1. CASE Drop(r) \/ Park(r)
    BY <2>1 DEF Drop, Park, At, HandsInv, TypeOK
  <2>2. CASE HandOver(r)
    <3>1. /\ Head(receivers) = receivers[1] /\ 1 \in DOMAIN receivers
          /\ receivers[1] \in Requests
      BY <2>2 DEF HandOver, HandsInv, TypeOK
    <3>2. pc[Head(receivers)] = "waiting"
      BY <3>1 DEF HandsInv, QueueConsistent
    <3> QED
      BY <2>2, <3>1, <3>2 DEF HandOver, At, HandsInv, TypeOK
  <2> QED
    BY <1>1, <2>1, <2>2
<1> QED
  BY <1>2, <1>3, FewerStayBounded

(* What the check of created_at_ bounds, as long as it counts the live ones *)
(* or more: a connect begins only below size_.                              *)
LEMMA OvercreationStep ==
  ASSUME HandsInv, HandsInv', BoundedOvercreation, [Next]_vars,
         created_at \in Nat, ~stopping => Cardinality(Live) <= created_at
  PROVE  BoundedOvercreation'
<1> DEFINE Connecting == At("connecting")
           N == Cardinality(Requests)
           Bounded == Cardinality(Live') + Cardinality(Connecting') <= (Size + N) - 1
<1> SUFFICES Bounded
  BY DEF BoundedOvercreation
<1>1. N \in Nat \ {0} /\ Size \in Nat
  BY PoolAssumption, FS_CardinalityType, FS_EmptySet
<1>2. /\ IsFiniteSet(Connecting) /\ Cardinality(Connecting) \in Nat
      /\ Cardinality(Connecting') \in Nat /\ Cardinality(Connecting') <= N
  BY PoolAssumption, FS_Subset, FS_CardinalityType DEF At
<1>3. IsFiniteSet(Live) /\ Cardinality(Live) \in Nat
  <2>1. \E r : r \in Requests
    BY PoolAssumption
  <2> QED
    BY <2>1, LiveStep
<1>4. Cardinality(Live) + Cardinality(Connecting) <= (Size + N) - 1
  BY DEF BoundedOvercreation
<1>5. Connecting' = Connecting /\ Live' \subseteq Live => Bounded
  BY FewerStayBounded DEF BoundedOvercreation
<1>6. ASSUME NEW r \in Requests, AcquireConnect(r)
      PROVE  Bounded
  <2>1. Live' = Live
    BY <1>6, LiveStep DEF AcquireConnect
  <2>2. Cardinality(Live) <= created_at /\ created_at < Size
    BY <1>6 DEF AcquireConnect, Enter
  <2>3. Cardinality(Live') < Size /\ Cardinality(Live') \in Nat
    BY <1>1, <1>3, <2>1, <2>2
  <2> QED
    BY <1>1, <1>2, <2>3
<1>7. ASSUME NEW r \in Requests, ConnectOk(r) \/ ConnectFail(r)
      PROVE  Bounded
  <2>1. r \in Connecting /\ Connecting' = Connecting \ {r}
    BY <1>7 DEF ConnectOk, ConnectFail, Hold, At, HandsInv, TypeOK
  <2>2. Cardinality(Connecting') = Cardinality(Connecting) - 1
    BY <1>2, <2>1, FS_RemoveElement
  <2>3. CASE ConnectOk(r)
    <3>1. PICK c : c \notin Live /\ Live' = Live \cup {c}
      BY <2>3, LiveStep
    <3>2. Cardinality(Live') = Cardinality(Live) + 1
      BY <1>3, <3>1, FS_AddElement
    <3> QED
      BY <1>1, <1>2, <1>3, <1>4, <2>2, <3>2
  <2>4. CASE ConnectFail(r)
    <3>1. Live' = Live
      BY <2>4, LiveStep DEF ConnectFail
    <3>2. Cardinality(Live') = Cardinality(Live)
      BY <3>1
    <3> QED
      BY <1>1, <1>2, <1>3, <1>4, <2>2, <3>2
  <2> QED
    BY <1>7, <2>3, <2>4
<1>8. ASSUME NEW r \in Requests, AcquireIdle(r) \/ AcquireBuffered(r) \/ AcquireWait(r)
      PROVE  Bounded
  <2>1. Connecting' = Connecting
    BY <1>8 DEF AcquireIdle, AcquireBuffered, AcquireWait, Enter, Hold, At, HandsInv, TypeOK
  <2>2. Live' = Live
    BY <1>8, LiveStep DEF AcquireWait
  <2> QED
    BY <1>5, <2>1, <2>2
<1>9. ASSUME NEW r \in Requests, NEW healthy \in BOOLEAN,
             QueryOk(r, healthy) \/ QueryDbError(r) \/ QueryInfraError(r)
      PROVE  Bounded
  <2>1. pc[r] = "leased" /\ (Release(r, healthy) \/ Release(r, FALSE))
    BY <1>9 DEF QueryOk, QueryDbError, QueryInfraError
  <2> QED
    BY <2>1, ReleaseBounds DEF BoundedOvercreation
<1>10. ASSUME Shutdown \/ ClockTick \/ UNCHANGED vars
       PROVE  Bounded
  <2>1. Connecting' = Connecting
    BY <1>10 DEF Shutdown, ClockTick, vars, poolVars, At, HandsInv, TypeOK
  <2>2. Live' \subseteq Live
    BY <1>10 DEF Shutdown, ClockTick, vars, poolVars, Live, Parked, Leased, At
  <2> QED
    BY <1>5, <2>1, <2>2
<1> QED
  BY <1>6, <1>7, <1>8, <1>9, <1>10 DEF Next, Serve

(* No connection is open at first, and nobody connects.                     *)
LEMMA OvercreationInit == Init => BoundedOvercreation
<1> SUFFICES ASSUME Init PROVE BoundedOvercreation
  OBVIOUS
<1>1. At("connecting") = {} /\ Live = {}
  BY DEF Init, At, Live, Leased, Parked
<1>2. Cardinality(Requests) \in Nat \ {0} /\ Size \in Nat
  BY PoolAssumption, FS_CardinalityType, FS_EmptySet
<1> QED
  BY <1>1, <1>2, FS_EmptySet DEF BoundedOvercreation

(* Concurrent connects overshoot size_ by fewer than the number of requests,*)
(* before a shutdown and after it.                                          *)
THEOREM OvercreationIsBounded == Spec => []BoundedOvercreation
<1>1. ASSUME HandsInv, HandsInv', CountExact, BoundedOvercreation, [Next]_vars
      PROVE  BoundedOvercreation'
  <2>1. created_at \in Nat /\ (~stopping => Cardinality(Live) <= created_at)
    BY <1>1 DEF HandsInv, TypeOK, CountExact
  <2> QED
    BY <1>1, <2>1, OvercreationStep
<1>2. HandsInv /\ HandsInv' /\ CountExact /\ BoundedOvercreation /\ [Next]_vars
        => BoundedOvercreation'
  BY <1>1
<1> QED
  BY <1>2, OvercreationInit, HandsInvariant, CountIsExact, PTL DEF Spec
-----------------------------------------------------------------------------
(* idle_.                                                                   *)

(* While a connection is in idle_ the channel is full: it was when the      *)
(* connection came, and nobody takes from it before idle_ is empty.         *)
ChannelFirst ==
  /\ Cardinality(buffer) <= Capacity
  /\ ~stopping /\ idle # {} => Cardinality(buffer) = Capacity

(* A connection is in idle_ only beside a full channel and only while the   *)
(* pool has overshot size_: the order in which release() offers, and that   *)
(* make_or_wait() empties idle_ before it looks at the channel.             *)
THEOREM IdleAfterOvershoot == Spec => []IdleOnlyOnOvershoot
<1>1. Size \in Nat /\ Capacity \in Nat \ {0} /\ Capacity >= Size
  BY PoolAssumption DEF Capacity
<1>2. Init => ChannelFirst
  BY <1>1, FS_EmptySet DEF Init, ChannelFirst
<1>3. ASSUME TypeOK
      PROVE  IsFiniteSet(buffer) /\ Cardinality(buffer) \in Nat
  BY <1>3, PoolAssumption, FS_Subset, FS_CardinalityType DEF TypeOK
<1>4. ASSUME HandsInv, ChannelFirst, [Next]_vars
      PROVE  ChannelFirst'
  <2> DEFINE First(b, i, s) ==
               /\ Cardinality(b) <= Capacity
               /\ ~s /\ i # {} => Cardinality(b) = Capacity
  <2>0. /\ IsFiniteSet(buffer) /\ Cardinality(buffer) \in Nat
        /\ First(buffer, idle, stopping)
        /\ Capacity' = Capacity
    BY <1>3, <1>4 DEF HandsInv, ChannelFirst, Capacity
  <2> SUFFICES First(buffer', idle', stopping')
    BY <2>0 DEF ChannelFirst
  <2>1. ASSUME buffer' = buffer, idle' \subseteq idle, stopping => stopping'
        PROVE  First(buffer', idle', stopping')
    BY <2>0, <2>1
  <2>2. ASSUME NEW r \in Requests, AcquireIdle(r)
        PROVE  First(buffer', idle', stopping')
    BY <2>1, <2>2 DEF AcquireIdle
  <2>3. ASSUME NEW r \in Requests, AcquireBuffered(r)
        PROVE  First(buffer', idle', stopping')
    <3>1. PICK c \in buffer : buffer' = buffer \ {c}
      BY <2>3 DEF AcquireBuffered
    <3>2. Cardinality(buffer') = Cardinality(buffer) - 1
      BY <2>0, <3>1, FS_RemoveElement
    <3> QED
      BY <1>1, <2>0, <2>3, <3>2 DEF AcquireBuffered
  <2>4. ASSUME NEW r \in Requests, NEW healthy \in BOOLEAN, Release(r, healthy),
               pc[r] = "leased", UNCHANGED stopping
        PROVE  First(buffer', idle', stopping')
    <3>1. CASE Drop(r) \/ HandOver(r)
      BY <2>1, <2>4, <3>1 DEF Drop, HandOver
    <3>2. CASE Park(r) /\ Cardinality(buffer) < Capacity
      <4>1. buffer' = buffer \cup {lease[r]} /\ UNCHANGED idle
        BY <1>1, <2>0, <3>2 DEF Park
      <4>2. lease[r] \notin buffer
        BY <1>4 DEF HandsInv, ExclusiveLease, Parked
      <4>3. Cardinality(buffer') = Cardinality(buffer) + 1
        BY <2>0, <4>1, <4>2, FS_AddElement
      <4> QED
        BY <1>1, <2>0, <2>4, <3>2, <4>1, <4>3
    <3>3. CASE Park(r) /\ ~(Cardinality(buffer) < Capacity)
      BY <1>1, <2>0, <3>3 DEF Park
    <3> QED
      BY <2>4, <3>1, <3>2, <3>3 DEF Release
  <2>5. ASSUME NEW r \in Requests, NEW healthy \in BOOLEAN,
               QueryOk(r, healthy) \/ QueryDbError(r) \/ QueryInfraError(r)
        PROVE  First(buffer', idle', stopping')
    <3>1. pc[r] = "leased" /\ UNCHANGED stopping /\ (Release(r, healthy) \/ Release(r, FALSE))
      BY <2>5 DEF QueryOk, QueryDbError, QueryInfraError
    <3> QED
      BY <2>4, <3>1
  <2>6. ASSUME NEW r \in Requests,
               AcquireConnect(r) \/ AcquireWait(r) \/ ConnectOk(r) \/ ConnectFail(r)
        PROVE  First(buffer', idle', stopping')
    BY <2>1, <2>6 DEF AcquireConnect, AcquireWait, ConnectOk, ConnectFail
  <2>7. ASSUME Shutdown \/ ClockTick \/ UNCHANGED vars
        PROVE  First(buffer', idle', stopping')
    BY <2>1, <2>7 DEF Shutdown, ClockTick, vars, poolVars
  <2> QED
    BY <1>4, <2>2, <2>3, <2>5, <2>6, <2>7 DEF Next, Serve
<1>5. ASSUME HandsInv, CountExact, ChannelFirst
      PROVE  IdleOnlyOnOvershoot
  <2> SUFFICES ASSUME ~stopping, idle # {}
               PROVE  created_at > Size /\ Cardinality(buffer) = Capacity
    BY DEF IdleOnlyOnOvershoot
  <2>1. Cardinality(buffer) = Capacity /\ created_at = Cardinality(Live)
    BY <1>5 DEF ChannelFirst, CountExact
  <2>2. PICK c \in idle : c \notin buffer
    BY <1>5 DEF HandsInv, ExclusiveLease
  <2>3. IsFiniteSet(buffer) /\ Cardinality(buffer \cup {c}) = Cardinality(buffer) + 1
        /\ IsFiniteSet(buffer \cup {c})
    BY <1>3, <1>5, <2>2, FS_AddElement DEF HandsInv
  <2>4. IsFiniteSet(Live) /\ Cardinality(Live) \in Nat
    <3>1. Live \subseteq Connections
      BY <1>5 DEF HandsInv, TypeOK, ExclusiveLease, Live, Leased, Parked, At
    <3> QED
      BY <3>1, PoolAssumption, FS_Subset, FS_CardinalityType
  <2>5. buffer \cup {c} \subseteq Live
    BY DEF Live, Parked
  <2>6. Cardinality(buffer \cup {c}) <= Cardinality(Live)
    BY <2>3, <2>4, <2>5, FS_Subset
  <2> QED
    BY <1>1, <2>1, <2>3, <2>4, <2>6
<1>6. HandsInv /\ ChannelFirst /\ [Next]_vars => ChannelFirst'
  BY <1>4
<1>7. HandsInv /\ CountExact /\ ChannelFirst => IdleOnlyOnOvershoot
  BY <1>5
<1> QED
  BY <1>2, <1>6, <1>7, HandsInvariant, CountIsExact, PTL DEF Spec
=============================================================================
