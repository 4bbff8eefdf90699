--------------------------- MODULE CircuitBreaker ---------------------------
(* PgPool::CircuitBreaker (core/db/postgres/interfaces/PgPool.h): the       *)
(* passive object that decides whether a request may reach the database.    *)
(* It owns no thread; the pool's actions conjoin the operations below.      *)
(*                                                                          *)
(* Time: steady_clock is abstracted to the part the breaker looks at, the   *)
(* ticks left until open_until; Tick is the passing of one of them.         *)
EXTENDS Naturals

CONSTANTS
  FailureThreshold,  \* failure_threshold (5 in the code)
  OpenDuration       \* open_duration (3 s in the code), in ticks

ASSUME BreakerAssumption ==
  /\ FailureThreshold \in Nat \ {0}
  /\ OpenDuration \in Nat \ {0}

VARIABLES
  state,                    \* BreakerState
  consecutive_failures,
  open_left,                \* ticks from now to open_until, 0 once it is past
  half_open_probe_inflight

breakerVars ==
  <<state, consecutive_failures, open_left, half_open_probe_inflight>>

BreakerState == {"Closed", "Open", "HalfOpen"}

BreakerTypeOK ==
  /\ state \in BreakerState
  /\ consecutive_failures \in Nat
  /\ open_left \in 0..OpenDuration
  /\ half_open_probe_inflight \in BOOLEAN

BreakerInit ==
  /\ state = "Closed"
  /\ consecutive_failures = 0
  /\ open_left = 0
  /\ half_open_probe_inflight = FALSE
-----------------------------------------------------------------------------
(* allow(): a call that returns false changes nothing, so only its answer   *)
(* is modelled (Refuses); a call that returns true is Admit.                *)

\* Faulty variant: the probe flag is not looked at.
RefusesOnlyWhenOpen == state = "Open" /\ open_left > 0

Refuses ==
  \/ state = "Open" /\ open_left > 0
  \/ state = "HalfOpen" /\ half_open_probe_inflight

\* Faulty variant: the probe flag is not set.
AdmitForgettingTheProbe ==
  /\ ~Refuses
  /\ IF state = "Closed"
     THEN UNCHANGED <<state, half_open_probe_inflight>>
     ELSE /\ state' = "HalfOpen"
          /\ half_open_probe_inflight' = FALSE
  /\ UNCHANGED <<consecutive_failures, open_left>>

Admit ==
  /\ ~Refuses
  /\ IF state = "Closed"
     THEN UNCHANGED <<state, half_open_probe_inflight>>
     ELSE /\ state' = "HalfOpen"
          /\ half_open_probe_inflight' = TRUE
  /\ UNCHANGED <<consecutive_failures, open_left>>

\* Faulty variant: the count survives a success.
OnSuccessKeepingCount ==
  /\ state' = "Closed"
  /\ half_open_probe_inflight' = FALSE
  /\ UNCHANGED <<consecutive_failures, open_left>>

OnSuccess ==
  /\ state' = "Closed"
  /\ consecutive_failures' = 0
  /\ half_open_probe_inflight' = FALSE
  /\ UNCHANGED open_left

(* on_failure(): in HalfOpen the breaker trips again and the count is set   *)
(* to the threshold; otherwise the count goes up, also while Open, where    *)
(* calls let in earlier may still fail and push open_until further away.    *)
Trip(failures) ==
  /\ state' = "Open"
  /\ open_left' = OpenDuration
  /\ consecutive_failures' = failures
  /\ half_open_probe_inflight' = FALSE

OnFailure ==
  \/ /\ state = "HalfOpen"
     /\ Trip(FailureThreshold)
  \/ /\ state # "HalfOpen"
     /\ consecutive_failures + 1 >= FailureThreshold
     /\ Trip(consecutive_failures + 1)
  \/ /\ state # "HalfOpen"
     /\ consecutive_failures + 1 < FailureThreshold
     /\ consecutive_failures' = consecutive_failures + 1
     /\ UNCHANGED <<state, open_left, half_open_probe_inflight>>

Tick == open_left > 0 /\ open_left' = open_left - 1
=============================================================================
