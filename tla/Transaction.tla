---------------------------- MODULE Transaction -----------------------------
(* Transaction (core/db/postgres/Transaction.cpp) as another client of the  *)
(* pool: the lease is kept over BEGIN, the caller's statements and COMMIT   *)
(* or ROLLBACK, and no exit but these two gives it back. The caller is      *)
(* disciplined: it ends a transaction at most once, except that it may roll *)
(* back after a COMMIT that threw. Its own statements change nothing here.  *)
(* The breaker hears of none of this.                                       *)
EXTENDS PgPool

CONSTANT Callers  \* the requests that run transactions; the others query

ASSUME TransactionAssumption == Callers \subseteq Requests

VARIABLES
  tx,   \* the transaction of each caller
  lost  \* history: leases destroyed without release()

txVars == <<tx, lost>>

TxInit ==
  /\ Init
  /\ tx = [t \in Callers |-> "none"]
  /\ lost = 0

Leave(t) == probing' = probing \ {t} /\ UNCHANGED <<breakerVars, stopping>>
End(t) == tx' = [tx EXCEPT ![t] = "none"]

(* A Lease has no destructor: the connection goes with it, its count stays. *)
Lose(t) ==
  /\ pc' = [pc EXCEPT ![t] = "out"]
  /\ lease' = [lease EXCEPT ![t] = NoConnection]
  /\ lost' = lost + 1
  /\ End(t)
  /\ Leave(t)
  /\ UNCHANGED <<idle, buffer, receivers, created_at>>

BeginOk(t) ==
  /\ pc[t] = "leased" /\ tx[t] = "none"
  /\ tx' = [tx EXCEPT ![t] = "open"]
  /\ UNCHANGED <<vars, lost>>

BeginThrows(t) == pc[t] = "leased" /\ tx[t] = "none" /\ Lose(t)

CommitOk(t, healthy) ==
  /\ tx[t] = "open"
  /\ Release(t, healthy)
  /\ End(t) /\ Leave(t) /\ UNCHANGED lost

\* Faulty variant: a COMMIT that throws releases too.
CommitThrowsReleasing(t) ==
  /\ tx[t] = "open"
  /\ tx' = [tx EXCEPT ![t] = "failed"]
  /\ Release(t, FALSE)
  /\ Leave(t) /\ UNCHANGED lost

(* The exception passes release() by; the connection is closed.             *)
CommitThrows(t) ==
  /\ tx[t] = "open"
  /\ tx' = [tx EXCEPT ![t] = "failed"]
  /\ UNCHANGED <<vars, lost>>

\* Faulty variant: the count is lowered before release() lowers it.
RollbackCountingTwice(t, healthy) ==
  /\ tx[t] \in {"open", "failed"}
  /\ ~healthy
  /\ created_at' = IF created_at > 1 THEN created_at - 2 ELSE 0
  /\ pc' = [pc EXCEPT ![t] = "out"]
  /\ lease' = [lease EXCEPT ![t] = NoConnection]
  /\ End(t) /\ Leave(t) /\ UNCHANGED <<lost, idle, buffer, receivers>>

(* ROLLBACK's own failure is swallowed. After a COMMIT that threw it goes   *)
(* to a connection opened anew, which may well be healthy.                  *)
Rollback(t, healthy) ==
  /\ tx[t] \in {"open", "failed"}
  /\ Release(t, healthy)
  /\ End(t) /\ Leave(t) /\ UNCHANGED lost

(* The Transaction goes out of scope, ended or not.                         *)
Abandon(t) == tx[t] \in {"open", "failed"} /\ Lose(t)

Query(r) ==
  \/ QueryDbError(r)
  \/ QueryInfraError(r)
  \/ \E healthy \in BOOLEAN : QueryOk(r, healthy)

PoolStep ==
  \/ \E r \in Requests :
       \/ AcquireIdle(r)
       \/ AcquireConnect(r)
       \/ AcquireBuffered(r)
       \/ AcquireWait(r)
       \/ ConnectEnds(r)
  \/ \E r \in Requests \ Callers : Query(r)
  \/ ClockTick

TxNext ==
  \/ PoolStep /\ UNCHANGED txVars
  \/ \E t \in Callers :
       \/ BeginOk(t)
       \/ BeginThrows(t)
       \/ CommitThrows(t)
       \/ Abandon(t)
       \/ \E healthy \in BOOLEAN : CommitOk(t, healthy) \/ Rollback(t, healthy)

TxSpec == TxInit /\ [][TxNext]_<<vars, txVars>>
-----------------------------------------------------------------------------
(* The count is that of the live connections and the lost leases together:  *)
(* each BEGIN that throws takes a connection's worth of capacity away for   *)
(* good, and no exit gives back more than one.                              *)
CapacityAccounted == created_at = Cardinality(Live) + lost

(* A transaction that is open, or whose COMMIT threw, is on a connection    *)
(* that nobody else can lease, through failures and concurrent queries.     *)
TransactionsIsolated ==
  /\ \A t \in Callers : tx[t] # "none" => pc[t] = "leased"
  /\ ExclusiveLease
=============================================================================
