------------------------- MODULE TransactionProofs --------------------------
(* Theorems about Transaction for every number of callers and queries. They *)
(* rest on those of the pool, which the callers use as any request does.    *)
EXTENDS Transaction, PgPoolRefinement

(* What the callers add to the pool's own invariant; the pool is never shut *)
(* down here.                                                               *)
TxInv ==
  /\ HandsInv
  /\ ~stopping
  /\ tx \in [Callers -> {"none", "open", "failed"}]
  /\ lost \in Nat
  /\ \A t \in Callers : tx[t] # "none" => pc[t] = "leased"

(* A pool step by somebody else leaves a lease with its request: the pool   *)
(* takes none away.                                                         *)
LEMMA PoolKeepsLease ==
  ASSUME HandsInv, PoolStep, NEW t \in Callers, pc[t] = "leased"
  PROVE  pc'[t] = "leased"
<1> USE TransactionAssumption DEF HandsInv, TypeOK
<1>1. ASSUME NEW r \in Requests,
             \/ AcquireIdle(r) \/ AcquireConnect(r) \/ AcquireBuffered(r)
             \/ AcquireWait(r) \/ ConnectEnds(r)
      PROVE  pc'[t] = "leased"
  BY <1>1 DEF AcquireIdle, AcquireConnect, AcquireBuffered, AcquireWait, Enter, Hold,
     ConnectEnds, ConnectOk, ConnectFail
<1>2. ASSUME NEW r \in Requests \ Callers, NEW healthy \in BOOLEAN, Release(r, healthy)
      PROVE  pc'[t] = "leased"
  <2>1. CASE Drop(r) \/ Park(r)
    BY <1>2, <2>1 DEF Drop, Park
  <2>2. CASE HandOver(r)
    <3>1. /\ Head(receivers) = receivers[1] /\ 1 \in DOMAIN receivers
          /\ receivers[1] \in Requests
      BY <2>2 DEF HandOver
    <3>2. pc[Head(receivers)] = "waiting"
      BY <3>1 DEF QueueConsistent
    <3> QED
      BY <1>2, <2>2, <3>1, <3>2 DEF HandOver
  <2> QED
    BY <1>2, <2>1, <2>2 DEF Release
<1>3. ASSUME NEW r \in Requests \ Callers, Query(r)
      PROVE  pc'[t] = "leased"
  <2>1. \E healthy \in BOOLEAN : Release(r, healthy)
    BY <1>3 DEF Query, QueryOk, QueryDbError, QueryInfraError
  <2> QED
    BY <1>2, <2>1
<1>4. CASE ClockTick
  BY <1>4 DEF ClockTick, poolVars
<1> QED
  BY <1>1, <1>3, <1>4 DEF PoolStep

(* The pool's steps here are the pool's own.                                *)
LEMMA PoolStepServes == PoolStep => Serve
<1>1. ASSUME NEW r \in Requests, Query(r)
      PROVE  Serve
  BY <1>1 DEF Query, Serve
<1> QED
  BY <1>1 DEF PoolStep, Serve, ConnectEnds

(* A caller that ends its transaction by COMMIT or ROLLBACK.                *)
LEMMA EndKeeps ==
  ASSUME TxInv, NEW t \in Callers, NEW healthy \in BOOLEAN,
         CommitOk(t, healthy) \/ Rollback(t, healthy)
  PROVE  /\ TxInv'
         /\ CapacityAccounted => CapacityAccounted'
         /\ BoundedOvercreation => BoundedOvercreation'
         /\ Promise!Next
<1> USE TransactionAssumption DEF TxInv
<1>1. /\ Release(t, healthy) /\ tx[t] # "none"
      /\ tx' = [tx EXCEPT ![t] = "none"]
      /\ probing' = probing \ {t}
      /\ UNCHANGED <<breakerVars, stopping, lost>>
  BY DEF CommitOk, Rollback, End, Leave
<1>2. t \in Requests /\ pc[t] = "leased"
  BY <1>1
<1>3. BreakerTypeOK' /\ stopping' \in BOOLEAN /\ probing' \subseteq Requests
  BY <1>1 DEF HandsInv, TypeOK, BreakerTypeOK, breakerVars
<1>4. HandsInv'
  BY <1>1, <1>2, <1>3, ReleaseHands
<1>5. \A q \in Callers : q # t /\ pc[q] = "leased" => pc'[q] = "leased"
  <2>1. CASE Drop(t) \/ Park(t)
    BY <1>2, <2>1 DEF Drop, Park, HandsInv, TypeOK
  <2>2. CASE HandOver(t)
    <3>1. /\ Head(receivers) = receivers[1] /\ 1 \in DOMAIN receivers
          /\ receivers[1] \in Requests
      BY <2>2 DEF HandOver, HandsInv, TypeOK
    <3>2. pc[Head(receivers)] = "waiting"
      BY <3>1 DEF HandsInv, QueueConsistent
    <3> QED
      BY <1>2, <2>2, <3>1, <3>2 DEF HandOver, HandsInv, TypeOK
  <2> QED
    BY <1>1, <2>1, <2>2 DEF Release
<1>6. TxInv'
  BY <1>1, <1>4, <1>5
<1>7. ASSUME CapacityAccounted
      PROVE  CapacityAccounted'
  <2>1. created_at' = Cardinality(Live') + lost
    BY <1>1, <1>2, <1>4, <1>7, ReleaseCount DEF CapacityAccounted
  <2> QED
    BY <1>1, <2>1 DEF CapacityAccounted
<1>8. Promise!Next /\ (BoundedOvercreation => BoundedOvercreation')
  BY <1>1, <1>2, <1>4, ReleaseBounds, RefinesRelease
<1> QED
  BY <1>6, <1>7, <1>8

(* A lease that is lost takes its connection out of the pool's hands, while *)
(* created_at_ goes on counting it.                                         *)
LEMMA LoseKeeps ==
  ASSUME TxInv, NEW t \in Callers, pc[t] = "leased", Lose(t)
  PROVE  /\ TxInv'
         /\ CapacityAccounted => CapacityAccounted'
         /\ BoundedOvercreation => BoundedOvercreation'
         /\ Promise!Next
<1> USE TransactionAssumption DEF TxInv
<1>1. /\ pc' = [pc EXCEPT ![t] = "out"]
      /\ lease' = [lease EXCEPT ![t] = NoConnection]
      /\ lost' = lost + 1 /\ tx' = [tx EXCEPT ![t] = "none"]
      /\ probing' = probing \ {t}
      /\ UNCHANGED <<breakerVars, stopping, idle, buffer, receivers, created_at>>
  BY DEF Lose, End, Leave
<1>2. \A r \in Requests : /\ pc'[r] = IF r = t THEN "out" ELSE pc[r]
                          /\ lease'[r] = IF r = t THEN NoConnection ELSE lease[r]
  BY <1>1 DEF HandsInv, TypeOK
<1>3. t \in Requests /\ lease[t] \in Connections
  BY DEF HandsInv, ExclusiveLease, TypeOK
<1>4. HandsInv'
  <2>1. TypeOK'
    BY <1>1 DEF HandsInv, TypeOK, BreakerTypeOK, breakerVars, Stages
  <2>2. ExclusiveLease'
    <3>1. NoConnection \notin Parked'
      BY <1>1, PoolAssumption DEF HandsInv, TypeOK, Parked
    <3> QED
      BY <1>1, <1>2, <3>1, PoolAssumption DEF HandsInv, ExclusiveLease, Parked
  <2>3. QueueConsistent'
    BY <1>1, QueueUntouched DEF HandsInv, Stages
  <2> QED
    BY <2>1, <2>2, <2>3 DEF HandsInv
<1>5. TxInv'
  BY <1>1, <1>2, <1>4
<1>6. lease[t] \in Live /\ Live' = Live \ {lease[t]}
  <2>1. lease[t] \notin idle \cup buffer
    BY <1>3 DEF HandsInv, ExclusiveLease, Parked
  <2>2. \A q \in Requests : lease[q] = lease[t] => q = t
    BY <1>3, PoolAssumption DEF HandsInv, ExclusiveLease
  <2>3. \A c : c \in Leased' <=> c \in Leased /\ c # lease[t]
    BY <1>2, <1>3, <2>2 DEF Leased, At
  <2> QED
    BY <1>1, <1>3, <2>1, <2>3 DEF Live, Leased, Parked, At
<1>7. IsFiniteSet(Live) /\ Cardinality(Live) \in Nat
  BY <1>3, <1>4, LiveStep
<1>8. Cardinality(Live') = Cardinality(Live) - 1
  BY <1>6, <1>7, FS_RemoveElement
<1>9. CapacityAccounted => CapacityAccounted'
  BY <1>1, <1>7, <1>8 DEF CapacityAccounted
<1>10. BoundedOvercreation => BoundedOvercreation'
  <2>1. At("connecting")' = At("connecting")
    BY <1>2 DEF At
  <2> QED
    BY <1>4, <1>6, <2>1, FewerStayBounded
<1>11. Promise!Discard(lease[t])
  BY <1>1, <1>3, <1>4, <1>6, HeldOpen, LeaseEnds DEF Promise!Discard
<1> QED
  BY <1>3, <1>5, <1>9, <1>10, <1>11 DEF Promise!Next

(* Every step keeps the invariant, the account and the bound, and is one of *)
(* the abstract pool's or a stutter.                                        *)
TxKept == TxInv /\ CapacityAccounted /\ BoundedOvercreation
Promised == [Promise!Next]_(Promise!poolState)

LEMMA TxStep ==
  ASSUME TxKept, [TxNext]_<<vars, txVars>>
  PROVE  TxKept' /\ Promised
<1> USE TransactionAssumption
<1>0. TxInv /\ CapacityAccounted /\ BoundedOvercreation
  BY DEF TxKept
<1>1. ASSUME HandsInv', [Next]_vars
      PROVE  BoundedOvercreation' /\ Promised
  <2>1. created_at \in Nat /\ Cardinality(Live) <= created_at
    <3>1. Live \subseteq Connections
      BY <1>0 DEF TxInv, HandsInv, TypeOK, ExclusiveLease, Live, Leased, Parked, At
    <3>2. Cardinality(Live) \in Nat
      BY <3>1, PoolAssumption, FS_Subset, FS_CardinalityType
    <3> QED
      BY <1>0, <3>2 DEF TxInv, HandsInv, TypeOK, CapacityAccounted
  <2> QED
    BY <1>0, <1>1, <2>1, OvercreationStep, RefinesStep DEF TxInv, Promised
<1>2. CASE PoolStep /\ UNCHANGED txVars
  <2>1. Serve
    BY <1>2, PoolStepServes
  <2>2. HandsInv'
    BY <1>0, <2>1, HandsStep DEF TxInv, Next
  <2>3. \A t \in Callers : pc[t] = "leased" => pc'[t] = "leased"
    BY <1>0, <1>2, PoolKeepsLease DEF TxInv
  <2>4. TxInv'
    BY <1>0, <1>2, <2>1, <2>2, <2>3, ServeRuns DEF TxInv, txVars
  <2>5. created_at' = Cardinality(Live') + lost
    BY <1>0, <2>1, <2>2, CountStep DEF TxInv, CapacityAccounted
  <2> QED
    BY <1>1, <1>2, <2>1, <2>2, <2>4, <2>5 DEF txVars, CapacityAccounted, TxKept, Next
<1>3. CASE UNCHANGED <<vars, txVars>>
  <2>1. HandsInv'
    BY <1>0, <1>3, HandsStep DEF TxInv
  <2>2. created_at' = Cardinality(Live') + lost
    BY <1>0, <1>3, <2>1, CountStep DEF TxInv, CapacityAccounted
  <2>3. TxInv' /\ CapacityAccounted'
    BY <1>0, <1>3, <2>1, <2>2 DEF TxInv, CapacityAccounted, vars, poolVars, txVars
  <2> QED
    BY <1>1, <1>3, <2>1, <2>3 DEF TxKept
<1>4. ASSUME NEW t \in Callers, BeginOk(t) \/ CommitThrows(t)
      PROVE  TxKept' /\ Promised
  <2>1. /\ UNCHANGED <<vars, lost>> /\ pc[t] = "leased"
        /\ tx' \in [Callers -> {"none", "open", "failed"}]
        /\ \A q \in Callers : q # t => tx'[q] = tx[q]
    BY <1>0, <1>4 DEF BeginOk, CommitThrows, TxInv
  <2>2. HandsInv'
    BY <1>0, <2>1, HandsStep DEF TxInv
  <2>3. created_at' = Cardinality(Live') + lost
    BY <1>0, <2>1, <2>2, CountStep DEF TxInv, CapacityAccounted
  <2>4. TxInv' /\ CapacityAccounted'
    BY <1>0, <2>1, <2>2, <2>3 DEF TxInv, CapacityAccounted, vars, poolVars
  <2> QED
    BY <1>1, <2>1, <2>2, <2>4 DEF TxKept
<1>5. ASSUME NEW t \in Callers, BeginThrows(t) \/ Abandon(t)
      PROVE  TxKept' /\ Promised
  <2>1. pc[t] = "leased" /\ Lose(t)
    BY <1>0, <1>5 DEF BeginThrows, Abandon, TxInv
  <2> QED
    BY <1>0, <2>1, LoseKeeps DEF TxKept, Promised
<1>6. ASSUME NEW t \in Callers, NEW healthy \in BOOLEAN,
             CommitOk(t, healthy) \/ Rollback(t, healthy)
      PROVE  TxKept' /\ Promised
  BY <1>0, <1>6, EndKeeps DEF TxKept, Promised
<1> QED
  BY <1>2, <1>3, <1>4, <1>5, <1>6 DEF TxNext

(* What a transaction knows of its lease, the account of the capacity and   *)
(* the bound on connections hold throughout.                                *)
LEMMA TxInvariant == TxSpec => []TxKept
<1>1. TxInit => TxKept
  <2> SUFFICES ASSUME TxInit PROVE TxKept
    OBVIOUS
  <2>1. HandsInv /\ BoundedOvercreation /\ Cardinality(Live) = 0 /\ created_at = 0
    BY HandsInit, LiveInit, OvercreationInit DEF TxInit
  <2> QED
    BY <2>1 DEF TxInit, Init, TxInv, CapacityAccounted, TxKept
<1>2. TxKept /\ [TxNext]_<<vars, txVars>> => TxKept'
  BY TxStep
<1> QED
  BY <1>1, <1>2, PTL DEF TxSpec
-----------------------------------------------------------------------------
(* Transaction::begin, commit and rollback: created_at_ is the number of    *)
(* live connections and of leases lost together; a BEGIN that throws, or a  *)
(* transaction never ended, costs one connection's worth of capacity, and   *)
(* nothing costs or gives back more.                                        *)
THEOREM CapacityIsAccounted == TxSpec => []CapacityAccounted
<1>1. TxKept => CapacityAccounted
  BY DEF TxKept
<1> QED
  BY <1>1, TxInvariant, PTL

(* A transaction under way is on a connection that nobody else holds.       *)
THEOREM TransactionsAreIsolated == TxSpec => []TransactionsIsolated
<1>1. TxKept => TransactionsIsolated
  BY DEF TxKept, TxInv, HandsInv, TransactionsIsolated
<1> QED
  BY <1>1, TxInvariant, PTL

(* With transactions among its clients, which keep a lease over several     *)
(* statements and may lose it, the pool still keeps the promise of the      *)
(* abstract one: a lease that is lost is a connection discarded.            *)
THEOREM TransactionsKeepPromise == TxSpec => ImplementsConnectionPool
<1>1. TxInit => Promise!Init
  BY RefinesInit DEF TxInit
<1>2. TxKept /\ [TxNext]_<<vars, txVars>> => Promised
  BY TxStep
<1> QED
  BY <1>1, <1>2, TxInvariant, PTL DEF TxSpec, Promised, ImplementsConnectionPool, Promise!Spec
=============================================================================
