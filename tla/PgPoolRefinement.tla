-------------------------- MODULE PgPoolRefinement --------------------------
(* The pool implements ConnectionPool under the mapping of PgPool: open is  *)
(* Live, holder is HolderOf.                                                *)
EXTENDS PgPoolProofs

(* A leased connection's holder is the request that leases it, any other    *)
(* connection has none; before a step and after it.                         *)
LEMMA HolderValue ==
  ASSUME HandsInv, HandsInv'
  PROVE  /\ \A c \in Connections :
              HolderOf[c] \in Requests \cup {NoConnection}
         /\ \A c \in Connections, r \in Requests :
              HolderOf[c] = r <=> lease[r] = c
         /\ \A c \in Connections, r \in Requests :
              HolderOf'[c] = r <=> lease'[r] = c
         /\ \A c \in Connections :
              HolderOf'[c] \in Requests \cup {NoConnection}
         /\ \A c \in Connections : HolderOf[c] # NoConnection => c \in Live
         /\ \A c \in Connections : HolderOf'[c] # NoConnection => c \in Live'
<1> USE DEF HandsInv, ExclusiveLease
<1>1. ASSUME NEW c \in Connections, c \in Leased
      PROVE  /\ HolderOf[c] \in Requests /\ lease[HolderOf[c]] = c
             /\ c \in Live
  BY <1>1 DEF HolderOf, Leased, At, Live
<1>2. ASSUME NEW c \in Connections, c \notin Leased
      PROVE  HolderOf[c] = NoConnection /\ \A r \in Requests : lease[r] # c
  BY <1>2, PoolAssumption DEF HolderOf, Leased, At
<1>3. ASSUME NEW c \in Connections, c \in Leased'
      PROVE  /\ HolderOf'[c] \in Requests /\ lease'[HolderOf'[c]] = c
             /\ c \in Live'
  BY <1>3 DEF HolderOf, Leased, At, Live
<1>4. ASSUME NEW c \in Connections, c \notin Leased'
      PROVE  HolderOf'[c] = NoConnection /\ \A r \in Requests : lease'[r] # c
  BY <1>4, PoolAssumption DEF HolderOf, Leased, At
<1>5. ASSUME NEW c \in Connections, NEW r \in Requests
      PROVE  (HolderOf[c] = r <=> lease[r] = c) /\ (HolderOf'[c] = r <=> lease'[r] = c)
  BY <1>1, <1>2, <1>3, <1>4, PoolAssumption
<1> QED
  BY <1>1, <1>2, <1>3, <1>4, <1>5

(* A function known by its values is the one EXCEPT names.                  *)
LEMMA ExceptByValues ==
  ASSUME NEW S, NEW f, NEW g, NEW a, NEW b,
         f = [x \in S |-> f[x]], g = [x \in S |-> g[x]],
         \A x \in S : g[x] = IF x = a THEN b ELSE f[x]
  PROVE  g = [f EXCEPT ![a] = b]
  OBVIOUS

(* HolderOf is a function on the connections, before a step and after it.   *)
LEMMA HolderIsFunction ==
  /\ HolderOf = [c \in Connections |-> HolderOf[c]]
  /\ HolderOf' = [c \in Connections |-> HolderOf'[c]]
  BY DEF HolderOf

(* The initial state is the empty pool.                                     *)
LEMMA RefinesInit == Init => Promise!Init
<1> SUFFICES ASSUME Init PROVE Promise!Init
  OBVIOUS
<1>1. Live = {} /\ Leased = {}
  BY DEF Init, Live, Leased, Parked, At
<1> QED
  BY <1>1 DEF Promise!Init, HolderOf

(* What a leaser's connection is to the abstract pool.                      *)
LEMMA HeldOpen ==
  ASSUME HandsInv, HandsInv', NEW r \in Requests, pc[r] = "leased"
  PROVE  /\ lease[r] \in Connections /\ lease[r] # NoConnection
         /\ lease[r] \in Live \ Promise!Free /\ HolderOf[lease[r]] = r
         /\ \A q \in Requests : lease[q] = lease[r] => q = r
<1>1. /\ lease[r] \in Connections /\ lease[r] # NoConnection
      /\ lease[r] \in Live /\ HolderOf[lease[r]] = r
      /\ \A q \in Requests : lease[q] = lease[r] => q = r
  BY HolderValue, PoolAssumption
     DEF HandsInv, TypeOK, ExclusiveLease, Live, Leased, At
<1> QED
  BY <1>1, PoolAssumption DEF Promise!Free

(* A leaser whose lease is the only one that ends leaves its connection     *)
(* with nobody.                                                             *)
LEMMA LeaseEnds ==
  ASSUME HandsInv, HandsInv', NEW r \in Requests, pc[r] = "leased",
         lease' = [lease EXCEPT ![r] = NoConnection]
  PROVE  HolderOf' = [HolderOf EXCEPT ![lease[r]] = NoConnection]
<1>1. \A q \in Requests : lease'[q] = IF q = r THEN NoConnection ELSE lease[q]
  BY DEF HandsInv, TypeOK
<1>2. \A d \in Connections :
        HolderOf'[d] = IF d = lease[r] THEN NoConnection ELSE HolderOf[d]
  BY <1>1, HeldOpen, HolderValue, PoolAssumption
<1> QED
  BY <1>2, HolderIsFunction, ExceptByValues

(* release() gives back, hands on or discards the leaser's connection.      *)
LEMMA RefinesRelease ==
  ASSUME HandsInv, HandsInv', NEW r \in Requests, NEW healthy \in BOOLEAN,
         pc[r] = "leased", Release(r, healthy)
  PROVE  Promise!Next
<1> DEFINE c == lease[r]
<1>1. Drop(r) \/ HandOver(r) \/ Park(r)
  BY DEF Release
<1>2. /\ c \in Connections /\ c # NoConnection /\ c \in Live /\ HolderOf[c] = r
      /\ c \in Live \ Promise!Free
      /\ \A q \in Requests : lease[q] = c => q = r
  BY HeldOpen
<1>3. Drop(r) \/ Park(r) => HolderOf' = [HolderOf EXCEPT ![c] = NoConnection]
  BY LeaseEnds DEF Drop, Park
<1>4. CASE Drop(r)
  <2>1. Live' = Live \ {c}
    BY <1>4, LiveStep
  <2>2. Promise!Discard(c)
    BY <1>2, <1>3, <1>4, <2>1 DEF Promise!Discard
  <2> QED
    BY <1>2, <2>2 DEF Promise!Next
<1>5. CASE Park(r)
  <2>1. Live' = Live
    BY <1>5, LiveStep
  <2>2. Promise!GiveBack(c)
    BY <1>2, <1>3, <1>5, <2>1 DEF Promise!GiveBack
  <2> QED
    BY <1>2, <2>2 DEF Promise!Next
<1>6. CASE HandOver(r)
  <2> DEFINE next == Head(receivers)
  <2>1. /\ next = receivers[1] /\ 1 \in DOMAIN receivers
        /\ receivers[1] \in Requests
    BY <1>6 DEF HandOver, HandsInv, TypeOK
  <2>2. next \in Requests /\ lease[next] = NoConnection /\ next # r
    BY <2>1 DEF HandsInv, QueueConsistent, ExclusiveLease
  <2>3. \A q \in Requests :
          lease'[q] = IF q = r THEN NoConnection
                      ELSE IF q = next THEN c ELSE lease[q]
    BY <1>6, <2>2 DEF HandOver, HandsInv, TypeOK
  <2>4. Live' = Live
    BY <1>6, LiveStep
  <2>5. HolderOf' = [HolderOf EXCEPT ![c] = next]
    <3>1. \A d \in Connections : HolderOf'[d] = IF d = c THEN next ELSE HolderOf[d]
      BY <1>2, <2>2, <2>3, HolderValue, PoolAssumption
    <3> QED
      BY <3>1, HolderIsFunction, ExceptByValues
  <2>6. Promise!EmptyHanded(next)
    BY <2>2, HolderValue, PoolAssumption DEF Promise!EmptyHanded
  <2>7. Promise!HandOn(c, next)
    BY <1>2, <2>4, <2>5, <2>6 DEF Promise!HandOn
  <2> QED
    BY <1>2, <2>2, <2>7 DEF Promise!Next
<1> QED
  BY <1>1, <1>4, <1>5, <1>6

(* Every step of the pool is a step of the abstract pool or a stutter.      *)
LEMMA RefinesStep ==
  ASSUME HandsInv, HandsInv', BoundedOvercreation, [Next]_vars
  PROVE  [Promise!Next]_(Promise!poolState)
<1> DEFINE Goal == Promise!Next \/ (Live' = Live /\ HolderOf' = HolderOf)
<1> SUFFICES Goal
  BY DEF Promise!poolState
<1>1. ASSUME UNCHANGED lease, Live' = Live
      PROVE  HolderOf' = HolderOf
  <2>1. \A c \in Connections : HolderOf'[c] = HolderOf[c]
    BY <1>1, HolderValue
  <2> QED
    BY <2>1 DEF HolderOf
<1>2. ASSUME NEW r \in Requests, AcquireIdle(r) \/ AcquireBuffered(r)
      PROVE  Goal
  <2>1. PICK c \in Parked : Hold(r, c)
    BY <1>2 DEF AcquireIdle, AcquireBuffered, Parked
  <2>2. c \in Connections /\ lease[r] = NoConnection
        /\ \A q \in Requests : lease[q] # c
    BY <1>2, <2>1 DEF AcquireIdle, AcquireBuffered, Enter, HandsInv, TypeOK,
       ExclusiveLease, Parked
  <2>3. Live' = Live
    BY <1>2, LiveStep
  <2>4. Promise!EmptyHanded(r)
    BY <2>2, HolderValue, PoolAssumption DEF Promise!EmptyHanded
  <2>5. c \in Live /\ HolderOf[c] = NoConnection
    BY <2>1, <2>2, HolderValue DEF Live
  <2>6. HolderOf' = [HolderOf EXCEPT ![c] = r]
    <3>1. \A q \in Requests : lease'[q] = IF q = r THEN c ELSE lease[q]
      BY <2>1 DEF Hold, HandsInv, TypeOK
    <3>2. \A d \in Connections : HolderOf'[d] = IF d = c THEN r ELSE HolderOf[d]
      BY <2>2, <3>1, HolderValue, PoolAssumption
    <3> QED
      BY <3>2, HolderIsFunction, ExceptByValues
  <2>7. Promise!Lend(r, c)
    BY <2>3, <2>4, <2>5, <2>6 DEF Promise!Lend, Promise!Free
  <2> QED
    BY <2>2, <2>7 DEF Promise!Next
<1>3. ASSUME NEW r \in Requests, AcquireConnect(r) \/ AcquireWait(r) \/ ConnectFail(r)
      PROVE  Goal
  BY <1>1, <1>3, LiveStep DEF AcquireConnect, AcquireWait, ConnectFail
<1>4. ASSUME NEW r \in Requests, ConnectOk(r)
      PROVE  Goal
  <2>1. PICK c \in Connections \ Live : Hold(r, c)
    BY <1>4 DEF ConnectOk
  <2>2. /\ lease[r] = NoConnection /\ c # NoConnection /\ pc[r] = "connecting"
        /\ \A q \in Requests : lease'[q] = IF q = r THEN c ELSE lease[q]
        /\ UNCHANGED <<idle, buffer>>
    BY <1>4, <2>1, PoolAssumption DEF ConnectOk, Hold, HandsInv, TypeOK, ExclusiveLease
  <2>3. \A q \in Requests : lease[q] # c
    BY <2>1, <2>2 DEF Live, Leased, At, HandsInv, ExclusiveLease
  <2>4. Live' = Live \cup {c}
    <3>1. /\ \A d : d \in Live <=>
               \/ d \in idle \cup buffer
               \/ d # NoConnection /\ \E q \in Requests : lease[q] = d
          /\ \A d : d \in Live' <=>
               \/ d \in idle' \cup buffer'
               \/ d # NoConnection /\ \E q \in Requests : lease'[q] = d
      BY DEF HandsInv, ExclusiveLease, Live, Leased, Parked, At
    <3>2. \A d : (d # NoConnection /\ \E q \in Requests : lease'[q] = d)
                 <=> \/ d = c
                     \/ d # NoConnection /\ \E q \in Requests : lease[q] = d
      BY <2>2
    <3> QED
      BY <2>2, <3>1, <3>2
  <2>5. Promise!EmptyHanded(r)
    BY <2>2, HolderValue, PoolAssumption DEF Promise!EmptyHanded
  <2>6. HolderOf' = [HolderOf EXCEPT ![c] = r]
    <3>1. \A d \in Connections : HolderOf'[d] = IF d = c THEN r ELSE HolderOf[d]
      BY <2>2, <2>3, HolderValue, PoolAssumption
    <3> QED
      BY <3>1, HolderIsFunction, ExceptByValues
  <2>7. Cardinality(Live) < (Size + Cardinality(Requests)) - 1
    <3> DEFINE Connecting == At("connecting")
    <3>1. IsFiniteSet(Connecting) /\ r \in Connecting
      BY <2>2, PoolAssumption, FS_Subset DEF At
    <3>2. Cardinality(Connecting) \in Nat /\ Cardinality(Connecting) # 0
      BY <3>1, FS_CardinalityType, FS_EmptySet
    <3>3. Cardinality(Live) \in Nat
      BY LiveStep
    <3>4. Cardinality(Requests) \in Nat /\ Size \in Nat
      BY PoolAssumption, FS_CardinalityType
    <3> QED
      BY <3>2, <3>3, <3>4 DEF BoundedOvercreation
  <2>8. Promise!Open(r, c)
    <3>1. c \notin Live
      BY <2>1
    <3> QED
      BY <2>4, <2>5, <2>6, <2>7, <3>1, Zenon DEF Promise!Open, Promise!Cardinality, Cardinality
  <2> QED
    BY <2>1, <2>8 DEF Promise!Next
<1>5. ASSUME NEW r \in Requests, NEW healthy \in BOOLEAN,
             QueryOk(r, healthy) \/ QueryDbError(r) \/ QueryInfraError(r)
      PROVE  Goal
  <2>1. pc[r] = "leased" /\ (Release(r, healthy) \/ Release(r, FALSE))
    BY <1>5 DEF QueryOk, QueryDbError, QueryInfraError
  <2> QED
    BY <2>1, RefinesRelease
<1>6. CASE Shutdown
  <2>1. UNCHANGED <<lease, buffer>> /\ idle' = {}
    BY <1>6 DEF Shutdown
  <2>2. HolderOf' = HolderOf
    <3>1. \A c \in Connections : HolderOf'[c] = HolderOf[c]
      BY <2>1, HolderValue
    <3> QED
      BY <3>1 DEF HolderOf
  <2>3. Live' = Live \ idle
    <3>1. Leased' = Leased /\ Leased \cap idle = {}
      BY <2>1, <1>6 DEF Shutdown, Leased, At, HandsInv, TypeOK, ExclusiveLease, Parked
    <3> QED
      BY <2>1, <3>1 DEF Live, Parked, HandsInv, ExclusiveLease
  <2>4. idle \in SUBSET Promise!Free
    <3>1. \A c \in idle : c \in Live /\ HolderOf[c] = NoConnection
      BY HolderValue DEF Live, Parked, HandsInv, TypeOK, ExclusiveLease
    <3> QED
      BY <3>1 DEF Promise!Free
  <2>5. Promise!CloseParked
    BY <2>2, <2>3, <2>4 DEF Promise!CloseParked
  <2> QED
    BY <2>5 DEF Promise!Next
<1>7. CASE ClockTick \/ UNCHANGED vars
  <2>1. UNCHANGED <<lease, idle, buffer>>
    BY <1>7 DEF ClockTick, vars, poolVars
  <2>2. \E r : r \in Requests
    BY PoolAssumption
  <2> QED
    BY <1>1, <2>1, <2>2, LiveStep
<1> QED
  BY <1>2, <1>3, <1>4, <1>5, <1>6, <1>7 DEF Next, Serve

(* The pool keeps the promise of the abstract one: one holder at a time,    *)
(* hand to hand, and a bounded number of open connections.                  *)
THEOREM PoolImplementsPromise == Spec => ImplementsConnectionPool
<1>1. HandsInv /\ HandsInv' /\ BoundedOvercreation /\ [Next]_vars
        => [Promise!Next]_(Promise!poolState)
  BY RefinesStep
<1> QED
  BY <1>1, RefinesInit, HandsInvariant, OvercreationIsBounded, PTL
     DEF Spec, ImplementsConnectionPool, Promise!Spec
=============================================================================
