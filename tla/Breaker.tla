------------------------------ MODULE Breaker ------------------------------
(***************************************************************************)
(* One circuit breaker of health.Registry (internal/health/breaker.go) as  *)
(* a record and the four calls that read or change it.  Every call holds   *)
(* br.mu for its whole body, so each is one step of its caller.  The wall  *)
(* clock is kept as age = time.Since(openAt) in ticks; ages of MaxAge and  *)
(* more are not told apart.                                                *)
(***************************************************************************)
EXTENDS Naturals

CONSTANTS
  FailureThreshold,  \* breaker.failure_threshold; Defaults() makes it positive
  Cooldown,          \* breaker.cooldown_sec, in ticks; Defaults() makes it positive
  MaxAge             \* where age stops counting: a bound of the model

ASSUME BreakerAssumption ==
  /\ FailureThreshold \in Nat \ {0}
  /\ Cooldown \in Nat \ {0}
  /\ MaxAge \in Nat /\ MaxAge >= Cooldown

State == {"closed", "open", "half_open"}

\* consecutiveFails stays below the threshold: a call that reaches it resets it.
BreakerType ==
  [state : State, consecutiveFails : 0 .. FailureThreshold - 1, age : 0 .. MaxAge]

\* A fresh breaker: the zero time.Time lies further back than any cooldown.
NewBreaker == [state |-> "closed", consecutiveFails |-> 0, age |-> MaxAge]

CooledDown(br) == br.state = "open" /\ br.age >= Cooldown

\* Seeded fault: a half-open circuit lets every caller through.
MutAvailable(br) == br.state # "open" \/ CooledDown(br)

\* What IsAvailable answers ...
Available(br) == br.state = "closed" \/ CooledDown(br)

\* Seeded fault: a refusal starts the cooldown anew.
MutAfterCheck(br) ==
  IF CooledDown(br) THEN [br EXCEPT !.state = "half_open"]
  ELSE IF br.state = "open" THEN [br EXCEPT !.age = 0] ELSE br

\* ... and what it leaves behind: asking a cooled-down breaker takes its trial.
AfterCheck(br) == IF CooledDown(br) THEN [br EXCEPT !.state = "half_open"] ELSE br

\* Seeded fault: RecordSuccess also closes an open circuit.
MutAfterSuccess(br) == [br EXCEPT !.state = "closed", !.consecutiveFails = 0]

\* Seeded fault: RecordSuccess only resets the failures.
MutResetOnly(br) == [br EXCEPT !.consecutiveFails = 0]

AfterSuccess(br) ==
  [state |-> IF br.state = "half_open" THEN "closed" ELSE br.state,
   consecutiveFails |-> 0, age |-> br.age]

Trips(br) == br.state = "half_open" \/ br.consecutiveFails + 1 >= FailureThreshold

AfterFailure(br) ==
  IF Trips(br)
    THEN [state |-> "open", consecutiveFails |-> 0, age |-> 0]
    ELSE [br EXCEPT !.consecutiveFails = @ + 1]

Elapse(br) == [br EXCEPT !.age = IF @ < MaxAge THEN @ + 1 ELSE @]
=============================================================================
