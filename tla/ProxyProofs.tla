---------------------------- MODULE ProxyProofs ----------------------------
(***************************************************************************)
(* Theorems about Proxy for every pool, every number of requests and every *)
(* setting.                                                                *)
(***************************************************************************)
EXTENDS Proxy, FiniteSetTheorems, TLAPS

\* What the calls of Breaker return is a breaker again.
LEMMA BreakerCalls ==
  ASSUME NEW br \in BreakerType
  PROVE  /\ AfterCheck(br) \in BreakerType
         /\ AfterSuccess(br) \in BreakerType
         /\ AfterFailure(br) \in BreakerType
         /\ Elapse(br) \in BreakerType
<1> USE BreakerAssumption DEF BreakerType, State
<1>1. AfterCheck(br) \in BreakerType
  BY DEF AfterCheck, CooledDown
<1>2. AfterSuccess(br) \in BreakerType
  BY DEF AfterSuccess
<1>3. AfterFailure(br) \in BreakerType
  BY DEF AfterFailure, Trips
<1>4. Elapse(br) \in BreakerType
  BY DEF Elapse
<1>. QED
  BY <1>1, <1>2, <1>3, <1>4

\* Walking around the slots stays within them.
LEMMA SuccPosition ==
  ASSUME NEW i \in Positions
  PROVE  Succ(i) \in Positions /\ Slots[i] \in Backends
BY ProxyAssumption, SMTT(40) DEF Succ, Positions

\* What the proofs need of the constants, with the sequences left out.
LEMMA Constants ==
  /\ 1 \in Positions
  /\ MaxRetries \in Nat /\ 0 \in 0 .. MaxRetries
  /\ Timeout \in Nat /\ 0 \in 0 .. Timeout
  /\ Flapping \subseteq Backends
BY ProxyAssumption DEF Positions

\* Asking about a server leaves a registry.
LEMMA AskAboutType ==
  ASSUME TypeOK, NEW b \in Backends, AskAbout(b)
  PROVE  breakers' \in [Backends -> BreakerType]
BY BreakerCalls DEF TypeOK, AskAbout

\* The state of ServeHTTP, the balancer and the registry stays within its types.
THEOREM TypeCorrect == Spec => []TypeOK
<1>1. Init => TypeOK
  BY BreakerAssumption, ProxyAssumption
  DEF Init, TypeOK, NewBreaker, BreakerType, State, Positions, Outcome
<1>2. TypeOK /\ [Next]_vars => TypeOK'
  <2> SUFFICES ASSUME TypeOK, [Next]_vars
               PROVE  TypeOK'
    OBVIOUS
  <2> USE Constants
  <2>1. ASSUME NEW r \in Requests, Arrive(r)
        PROVE  TypeOK'
    BY <2>1, SMTT(40) DEF Arrive, TypeOK, Positions, balancerVars, scanVars
  <2>2. ASSUME NEW r \in Requests, StartPick(r)
        PROVE  TypeOK'
    BY <2>2, SuccPosition DEF StartPick, TypeOK, requestVars
  <2>3. ASSUME NEW r \in Requests, SkipSeen(r)
        PROVE  TypeOK'
    BY <2>3, SuccPosition DEF SkipSeen, TypeOK, balancerVars, requestVars
  <2>4. ASSUME NEW r \in Requests, Walk(r)
        PROVE  TypeOK'
    <3>1. pos[r] \in Positions /\ Slots[pos[r]] \in Backends /\ Succ(pos[r]) \in Positions
      BY SuccPosition DEF TypeOK
    <3>2. breakers' \in [Backends -> BreakerType]
      BY <2>4, <3>1, AskAboutType DEF Walk
    <3>3. 1 \in Positions
      BY DEF Positions
    <3>. QED
      BY <2>4, <3>1, <3>2, <3>3 DEF Walk, ResetWalk, TypeOK, balancerVars, requestVars
  <2>5. ASSUME NEW r \in Requests, Survey(r)
        PROVE  TypeOK'
    <3>1. pos[r] \in Positions /\ Slots[pos[r]] \in Backends /\ Succ(pos[r]) \in Positions
      BY SuccPosition DEF TypeOK
    <3>2. breakers' \in [Backends -> BreakerType]
      BY <2>5, <3>1, AskAboutType DEF Survey
    <3>. QED
      BY <2>5, <3>1, <3>2 DEF Survey, TypeOK, balancerVars, requestVars
  <2>6. ASSUME NEW r \in Requests, Choose(r)
        PROVE  TypeOK'
    <3>1. 1 \in Positions /\ server[r] \in Backends
      BY <2>6 DEF Positions, Choose, TypeOK
    <3>2. conns' \in [Backends -> Int]
      BY <2>6, <3>1 DEF Choose, TakeConn, TypeOK
    <3>. QED
      BY <2>6, <3>1, <3>2 DEF Choose, ResetWalk, TypeOK, requestVars
  <2>7. ASSUME NEW r \in Requests, NoneHealthy(r)
        PROVE  TypeOK'
    BY <2>7, SMTT(40) DEF NoneHealthy, ResetWalk, TypeOK, Positions, balancerVars, requestVars
  <2>8. ASSUME NEW r \in Requests, Complete(r)
        PROVE  TypeOK'
    <3>1. server[r] \in Backends
      BY <2>8 DEF Complete, TypeOK
    <3>2. conns' \in [Backends -> Int]
      BY <2>8, <3>1 DEF Complete, TypeOK
    <3>. QED
      BY <2>8, <3>1, <3>2 DEF Complete, TypeOK, requestVars, scanVars
  <2>9. ASSUME NEW r \in Requests, Record(r)
        PROVE  TypeOK'
    <3>1. server[r] \in Backends
      BY <2>9 DEF Record, TypeOK
    <3>2. breakers' \in [Backends -> BreakerType]
      BY <2>9, <3>1, BreakerCalls DEF Record, TypeOK
    <3>3. attempt' \in [Requests -> 0 .. MaxRetries]
      BY <2>9 DEF Record, Retryable, MaxAttempts, TypeOK
    <3>. QED
      BY <2>9, <3>1, <3>2, <3>3, ZenonT(60) DEF Record, TypeOK, Outcome, balancerVars, scanVars
  <2>10. ASSUME NEW r \in Requests, Answer(r)
         PROVE  TypeOK'
    BY <2>10 DEF Answer, TypeOK, Positions, balancerVars
  <2>11. ASSUME NEW b \in Flapping, SetHealth(b)
         PROVE  TypeOK'
    BY <2>11 DEF SetHealth, TypeOK, balancerVars, requestVars, scanVars
  <2>12. CASE Readyz
    <3>1. PICK i \in Positions : AskAbout(Slots[i])
      BY <2>12 DEF Readyz
    <3>2. breakers' \in [Backends -> BreakerType]
      BY <3>1, SuccPosition, AskAboutType
    <3>. QED
      BY <2>12, <3>2 DEF Readyz, TypeOK, balancerVars, requestVars, scanVars
  <2>13. CASE Tick
    <3>1. breakers' \in [Backends -> BreakerType]
      BY <2>13, BreakerCalls DEF Tick, TypeOK
    <3>2. age' \in [Requests -> 0 .. Timeout]
      BY <2>13 DEF Tick, DeadlineDue, TypeOK
    <3>. QED
      BY <2>13, <3>1, <3>2 DEF Tick, TypeOK, balancerVars, requestVars, scanVars
  <2>14. CASE UNCHANGED vars
    BY <2>14 DEF vars, TypeOK, balancerVars, requestVars, scanVars
  <2>. QED
    BY <2>1, <2>2, <2>3, <2>4, <2>5, <2>6, <2>7, <2>8, <2>9, <2>10, <2>11, <2>12, <2>13, <2>14
    DEF Next, Step
<1>. QED
  BY <1>1, <1>2, PTL DEF Spec

----------------------------------------------------------------------------
(* What a step of the walking strategies does to the circuits and to the   *)
(* attempts in flight: nothing, one attempt sent, one result recorded, a   *)
(* readiness probe, or a tick.                                             *)

Quiet ==
  /\ breakers' = breakers
  /\ age' = age
  /\ \A q \in Requests, c \in Backends : InFlight(q, c)' <=> InFlight(q, c)

Sends(r, b) ==
  /\ \A c \in Backends : ~InFlight(r, c)
  /\ Available(breakers[b])
  /\ breakers' = [breakers EXCEPT ![b] = AfterCheck(@)]
  /\ age' = [age EXCEPT ![r] = 0]
  /\ \A q \in Requests, c \in Backends :
       InFlight(q, c)' <=> InFlight(q, c) \/ (q = r /\ c = b)

Settles(r, b) ==
  /\ InFlight(r, b)
  /\ \/ breakers' = [breakers EXCEPT ![b] = AfterSuccess(@)]
     \/ breakers' = [breakers EXCEPT ![b] = AfterFailure(@)]
  /\ age' = [age EXCEPT ![r] = 0]
  /\ \A q \in Requests, c \in Backends : InFlight(q, c)' <=> InFlight(q, c) /\ q # r

\* Every step of Proxy under a walking strategy has one of the five shapes.
LEMMA StepShapes ==
  ASSUME TypeOK, [Next]_vars, Strategy \in Walking
  PROVE  \/ Quiet
         \/ \E r \in Requests, b \in Backends : Sends(r, b) \/ Settles(r, b)
         \/ Readyz
         \/ Tick
<1>0. Strategy \notin Surveying
  BY SMTT(40) DEF Walking, Surveying
<1>1. ASSUME NEW r \in Requests, Arrive(r) \/ StartPick(r) \/ SkipSeen(r) \/ NoneHealthy(r) \/ Answer(r)
      PROVE  Quiet
  BY <1>0, <1>1 DEF Quiet, InFlight, TypeOK, Arrive, StartPick, SkipSeen, NoneHealthy, Answer, scanVars
<1>2. ASSUME NEW r \in Requests, Walk(r)
      PROVE  Quiet \/ \E b \in Backends : Sends(r, b)
  <2> DEFINE b == Slots[pos[r]]
  <2>1. b \in Backends
    BY SuccPosition DEF TypeOK
  <2>2. CASE IsAvailable(b)
    <3>1. Sends(r, b)
      BY <1>2, <2>1, <2>2 DEF Walk, Sends, IsAvailable, AskAbout, InFlight, TypeOK
    <3>. QED
      BY <2>1, <3>1
  <2>3. CASE ~IsAvailable(b)
    <3>1. b \in healthy => AfterCheck(breakers[b]) = breakers[b]
      BY <2>3 DEF IsAvailable, Available, AfterCheck
    <3>2. breakers' = breakers
      BY <1>2, <2>1, <3>1 DEF Walk, AskAbout, TypeOK
    <3>. QED
      BY <1>2, <2>1, <2>3, <3>2 DEF Walk, Quiet, InFlight, TypeOK
  <2>. QED
    BY <2>2, <2>3
<1>3. ASSUME NEW r \in Requests, Complete(r)
      PROVE  Quiet
  BY <1>3 DEF Complete, Quiet, InFlight, TypeOK, scanVars
<1>4. ASSUME NEW r \in Requests, Record(r)
      PROVE  \E b \in Backends : Settles(r, b)
  <2>1. server[r] \in Backends
    BY <1>4 DEF Record, TypeOK
  <2>2. Settles(r, server[r])
    BY <1>4, <2>1 DEF Record, Settles, InFlight, TypeOK, scanVars
  <2>. QED
    BY <2>1, <2>2
<1>5. ASSUME NEW b \in Flapping, SetHealth(b)
      PROVE  Quiet
  BY <1>5 DEF SetHealth, Quiet, InFlight, scanVars
<1>6. CASE UNCHANGED vars
  BY <1>6 DEF vars, Quiet, InFlight, scanVars
<1>7. ASSUME NEW r \in Requests, Survey(r) \/ Choose(r)
      PROVE  FALSE
  BY <1>0, <1>7 DEF Survey, Choose
<1>. QED
  BY <1>1, <1>2, <1>3, <1>4, <1>5, <1>6, <1>7 DEF Next, Step

----------------------------------------------------------------------------
\* Without readiness probes, a walking strategy takes the trial slot of a
\* half-open circuit only for a request it sends, so IsAvailable's "already a
\* trial in flight" (breaker.go:102) is true whenever it is said.
THEOREM TrialInFlight ==
  ASSUME Strategy \in Walking, ReadyzPolled = FALSE
  PROVE  Spec => []HalfOpenHasTrial
<1>1. Init => HalfOpenHasTrial
  BY DEF Init, HalfOpenHasTrial, NewBreaker
<1>2. TypeOK /\ HalfOpenHasTrial /\ [Next]_vars => HalfOpenHasTrial'
  <2> SUFFICES ASSUME TypeOK, HalfOpenHasTrial, [Next]_vars,
                      NEW c \in Backends, breakers'[c].state = "half_open"
               PROVE  \E q \in Requests : InFlight(q, c)'
    BY DEF HalfOpenHasTrial
  <2>1. CASE Quiet
    BY <2>1 DEF Quiet, HalfOpenHasTrial
  <2>2. ASSUME NEW r \in Requests, NEW b \in Backends, Sends(r, b)
        PROVE  \E q \in Requests : InFlight(q, c)'
    <3>1. CASE c = b
      BY <2>2, <3>1 DEF Sends
    <3>2. CASE c # b
      BY <2>2, <3>2, SMTT(40) DEF Sends, HalfOpenHasTrial, TypeOK
    <3>. QED
      BY <3>1, <3>2
  <2>3. ASSUME NEW r \in Requests, NEW b \in Backends, Settles(r, b)
        PROVE  \E q \in Requests : InFlight(q, c)'
    <3>1. breakers'[b].state # "half_open"
      BY <2>3 DEF Settles, TypeOK, BreakerType, State, AfterSuccess, AfterFailure, Trips
    <3>2. c # b /\ breakers[c].state = "half_open"
      BY <2>3, <3>1 DEF Settles, TypeOK
    <3>3. PICK q \in Requests : InFlight(q, c)
      BY <3>2 DEF HalfOpenHasTrial
    <3>. QED
      BY <2>3, <3>2, <3>3 DEF Settles, InFlight
  <2>4. CASE Tick
    <3>1. breakers[c].state = "half_open"
      BY <2>4 DEF Tick, Elapse, TypeOK, BreakerType
    <3>. QED
      BY <2>4, <3>1 DEF Tick, HalfOpenHasTrial, InFlight, scanVars
  <2>. QED
    BY <2>1, <2>2, <2>3, <2>4, StepShapes DEF Readyz
<1>. QED
  BY <1>1, <1>2, TypeCorrect, PTL DEF Spec

\* The clocks of an open circuit and of an attempt behind it: what is on its way
\* to or at the server was picked before the circuit last opened.
PickedBeforeOpening ==
  \A b \in Backends, r \in Requests :
    breakers[b].state = "open" /\ InFlight(r, b) => age[r] >= breakers[b].age

LEMMA StragglerStep ==
  ASSUME Strategy \in Walking, TypeOK, PickedBeforeOpening, [Next]_vars
  PROVE  PickedBeforeOpening'
<1>1. CASE Quiet
  BY <1>1 DEF Quiet, PickedBeforeOpening
<1>2. ASSUME NEW r \in Requests, NEW b \in Backends, Sends(r, b)
      PROVE  PickedBeforeOpening'
  <2>1. /\ \A c \in Backends : c # b => breakers'[c] = breakers[c]
        /\ \A q \in Requests : q # r => age'[q] = age[q]
    BY <1>2 DEF Sends, TypeOK
  <2>2. breakers'[b].state # "open"
    BY <1>2 DEF Sends, Available, AfterCheck, CooledDown, TypeOK, BreakerType
  <2>. QED
    BY <1>2, <2>1, <2>2 DEF Sends, PickedBeforeOpening
<1>3. ASSUME NEW r \in Requests, NEW b \in Backends, Settles(r, b)
      PROVE  PickedBeforeOpening'
  <2>1. /\ \A c \in Backends : c # b => breakers'[c] = breakers[c]
        /\ \A q \in Requests : q # r => age'[q] = age[q]
        /\ breakers[b].age \in Nat
        /\ \A q \in Requests : age[q] \in Nat
    BY <1>3, Constants, BreakerAssumption DEF Settles, TypeOK, BreakerType
  <2>2. breakers'[b].state = "open" =>
          breakers'[b].age = 0 \/ (breakers[b].state = "open" /\ breakers'[b].age = breakers[b].age)
    BY <1>3 DEF Settles, TypeOK, BreakerType, State, AfterSuccess, AfterFailure, Trips
  <2>. QED
    BY <1>3, <2>1, <2>2, SMTT(40) DEF Settles, PickedBeforeOpening
<1>4. CASE Readyz
  <2>1. \A c \in Backends : breakers'[c] = breakers[c] \/ breakers'[c].state = "half_open"
    BY <1>4 DEF Readyz, AskAbout, AfterCheck, TypeOK, BreakerType
  <2>2. age' = age /\ \A q \in Requests, c \in Backends : InFlight(q, c)' <=> InFlight(q, c)
    BY <1>4 DEF Readyz, InFlight, scanVars
  <2>. QED
    BY <2>1, <2>2 DEF PickedBeforeOpening
<1>5. CASE Tick
  <2>1. \A q \in Requests, c \in Backends :
          /\ InFlight(q, c)' <=> InFlight(q, c)
          /\ InFlight(q, c) => age'[q] = age[q] + 1
    BY <1>5 DEF Tick, InFlight, scanVars
  <2>2. \A c \in Backends :
          /\ breakers'[c].state = breakers[c].state
          /\ breakers'[c].age <= breakers[c].age + 1
          /\ breakers[c].age \in Nat /\ breakers'[c].age \in Nat
    BY <1>5, BreakerAssumption DEF Tick, Elapse, TypeOK, BreakerType
  <2>3. \A q \in Requests : age[q] \in Nat
    BY Constants DEF TypeOK
  <2>. QED
    BY <2>1, <2>2, <2>3, SMTT(40) DEF PickedBeforeOpening
<1>. QED
  BY <1>1, <1>2, <1>3, <1>4, <1>5, StepShapes, SMTT(40)

\* Between the pick (handler.go:184) and the result of client.Do a circuit may
\* open, so an open circuit does not mean an idle server.  Under a walking
\* strategy what is still under way there are stragglers, picked before the
\* last failure opened or re-armed the circuit, also when /readyz is polled and
\* whatever deadline and cooldown are set.
THEOREM OnlyStragglers ==
  ASSUME Strategy \in Walking
  PROVE  Spec => []PickedBeforeOpening
<1>1. Init => PickedBeforeOpening
  BY DEF Init, PickedBeforeOpening, NewBreaker
<1>2. TypeOK /\ PickedBeforeOpening /\ [Next]_vars => PickedBeforeOpening'
  BY StragglerStep
<1>. QED
  BY <1>1, <1>2, TypeCorrect, PTL DEF Spec

TrialInv == SoleTrial /\ PickedBeforeOpening

\* A circuit that has cooled down has nothing in flight: an attempt picked before
\* it opened has run into its deadline since.
LEMMA NothingLeft ==
  ASSUME TypeOK, PickedBeforeOpening, Timeout < Cooldown,
         NEW b \in Backends, CooledDown(breakers[b]), NEW r \in Requests
  PROVE  ~InFlight(r, b)
<1>1. /\ age[r] \in 0 .. Timeout
      /\ breakers[b].age \in 0 .. MaxAge
      /\ Timeout \in Nat /\ MaxAge \in Nat /\ Cooldown \in Nat
  BY Constants, BreakerAssumption DEF TypeOK, BreakerType
<1>. QED
  BY <1>1 DEF PickedBeforeOpening, CooledDown

\* A step of a walking strategy keeps the trial alone on its server.
LEMMA TrialStep ==
  ASSUME Strategy \in Walking, ReadyzPolled = FALSE, Timeout < Cooldown,
         TypeOK, TrialInv, [Next]_vars
  PROVE  TrialInv'
<1> SUFFICES SoleTrial'
  BY StragglerStep DEF TrialInv
<1>1. CASE Quiet
  BY <1>1 DEF Quiet, TrialInv, SoleTrial
<1>2. ASSUME NEW r \in Requests, NEW b \in Backends, Sends(r, b)
      PROVE  SoleTrial'
  <2>1. /\ \A c \in Backends : c # b => breakers'[c] = breakers[c]
        /\ breakers'[b] = AfterCheck(breakers[b])
    BY <1>2 DEF Sends, TypeOK
  <2>2. CASE CooledDown(breakers[b])
    <3>1. \A q \in Requests : ~InFlight(q, b)
      BY <2>2, NothingLeft DEF TrialInv
    <3>. QED
      BY <1>2, <2>1, <3>1 DEF Sends, TrialInv, SoleTrial
  <2>3. CASE ~CooledDown(breakers[b])
    <3>1. breakers'[b] = breakers[b] /\ breakers[b].state = "closed"
      BY <1>2, <2>1, <2>3 DEF Sends, Available, AfterCheck
    <3>. QED
      BY <1>2, <2>1, <3>1 DEF Sends, TrialInv, SoleTrial
  <2>. QED
    BY <2>2, <2>3
<1>3. ASSUME NEW r \in Requests, NEW b \in Backends, Settles(r, b)
      PROVE  SoleTrial'
  <2>1. \A c \in Backends : c # b => breakers'[c] = breakers[c]
    BY <1>3 DEF Settles, TypeOK
  <2>2. breakers'[b].state # "half_open"
    BY <1>3 DEF Settles, TypeOK, BreakerType, State, AfterSuccess, AfterFailure, Trips
  <2>. QED
    BY <1>3, <2>1, <2>2 DEF Settles, TrialInv, SoleTrial
<1>4. CASE Tick
  <2>1. \A q \in Requests, c \in Backends : InFlight(q, c)' <=> InFlight(q, c)
    BY <1>4 DEF Tick, InFlight, scanVars
  <2>2. \A c \in Backends : breakers'[c].state = breakers[c].state
    BY <1>4 DEF Tick, Elapse, TypeOK, BreakerType
  <2>. QED
    BY <2>1, <2>2, SMTT(40) DEF TrialInv, SoleTrial
<1>. QED
  BY <1>1, <1>2, <1>3, <1>4, StepShapes, SMTT(40) DEF Readyz

\* With a handler timeout shorter than the cooldown (10s against the default
\* 30s), no readiness probes and a walking strategy, the trial request is the
\* only one its server is handling.
THEOREM OneTrial ==
  ASSUME Strategy \in Walking, ReadyzPolled = FALSE, Timeout < Cooldown
  PROVE  Spec => []SoleTrial
<1>1. Init => TrialInv
  BY DEF Init, TrialInv, SoleTrial, PickedBeforeOpening, NewBreaker
<1>2. TypeOK /\ TrialInv /\ [Next]_vars => TrialInv'
  BY TrialStep
<1>3. TrialInv => SoleTrial
  BY DEF TrialInv
<1>. QED
  BY <1>1, <1>2, <1>3, TypeCorrect, PTL DEF Spec
----------------------------------------------------------------------------
\* A request whose method is not idempotent is never sent a second time: only
\* Record goes back to picking, and only when MaxAttempts allows another try.
THEOREM SentOnce == Spec => NeverResent
<1>1. TypeOK /\ [Next]_vars =>
        \A r \in Requests :
          r \notin idempotent /\ pc[r] \in {"sent", "record"} => pc'[r] # "pick"
  <2> SUFFICES ASSUME TypeOK, [Next]_vars,
                      NEW q \in Requests, q \notin idempotent, pc[q] \in {"sent", "record"}
               PROVE  pc'[q] # "pick"
    BY SMTT(40)
  <2>1. ASSUME NEW r \in Requests, Arrive(r) \/ Step(r), r # q
        PROVE  pc'[q] = pc[q]
    BY <2>1, ZenonT(60) DEF Arrive, Step, StartPick, SkipSeen, Walk, Survey, Choose, NoneHealthy,
                Complete, Record, Answer, TypeOK
  <2>2. CASE Record(q)
    <3>1. ~Retryable(q)
      BY <2>2, Constants DEF Retryable, MaxAttempts, TypeOK
    <3>. QED
      BY <2>2, <3>1 DEF Record, TypeOK
  <2>3. CASE (Arrive(q) \/ Step(q)) /\ ~Record(q)
    BY <2>3 DEF Arrive, Step, StartPick, SkipSeen, Walk, Survey, Choose, NoneHealthy,
                Complete, Answer, TypeOK
  <2>4. CASE Readyz \/ Tick \/ (\E b \in Flapping : SetHealth(b)) \/ UNCHANGED vars
    BY <2>4 DEF Readyz, Tick, SetHealth, vars
  <2>. QED
    BY <2>1, <2>2, <2>3, <2>4 DEF Next, Step
<1>. QED
  BY <1>1, TypeCorrect, PTL DEF Spec, NeverResent

----------------------------------------------------------------------------
\* The breakers under the retry loop implement Circuit: a result ends the test
\* it belongs to, and a server under test was idle when the test was sent.
THEOREM ImplementsCircuit ==
  ASSUME Strategy \in Walking, ReadyzPolled = FALSE, Timeout < Cooldown
  PROVE  Spec => RefinesCircuit
<1> DEFINE Gate == [b \in Backends |-> breakers[b].state]
           Out == [b \in Backends |-> {r \in Requests : InFlight(r, b)}]
<1>1. Init => CircuitView!Init
  BY SMTT(40) DEF Init, CircuitView!Init, NewBreaker, InFlight
<1>2. TypeOK /\ TrialInv /\ [Next]_vars => [CircuitView!Next]_(CircuitView!vars)
  <2> SUFFICES ASSUME TypeOK, TrialInv, [Next]_vars
               PROVE  CircuitView!Next \/ (Gate' = Gate /\ Out' = Out)
    BY DEF CircuitView!vars
  <2>1. CASE Quiet
    BY <2>1 DEF Quiet
  <2>2. ASSUME NEW r \in Requests, NEW b \in Backends, Sends(r, b)
        PROVE  CircuitView!Send(r, b) \/ CircuitView!Test(r, b)
    <3>1. /\ r \notin Out[b]
          /\ Out' = [Out EXCEPT ![b] = @ \cup {r}]
      BY <2>2 DEF Sends
    <3>2. CASE CooledDown(breakers[b])
      <4>1. Out[b] = {}
        BY <3>2, NothingLeft DEF TrialInv
      <4>2. Gate[b] = "open" /\ Gate' = [Gate EXCEPT ![b] = "half_open"]
        BY <2>2, <3>2 DEF Sends, AfterCheck, CooledDown, TypeOK, BreakerType
      <4>3. Out' = [Out EXCEPT ![b] = {r}]
        BY <3>1, <4>1
      <4>. QED
        BY <4>1, <4>2, <4>3 DEF CircuitView!Test
    <3>3. CASE ~CooledDown(breakers[b])
      <4>1. Gate[b] = "closed" /\ Gate' = Gate
        BY <2>2, <3>3 DEF Sends, Available, AfterCheck, TypeOK
      <4>. QED
        BY <3>1, <4>1 DEF CircuitView!Send
    <3>. QED
      BY <3>2, <3>3
  <2>3. ASSUME NEW r \in Requests, NEW b \in Backends, Settles(r, b)
        PROVE  CircuitView!Result(r, b)
    <3>1. r \in Out[b]
      BY <2>3 DEF Settles
    <3>2. \A c \in Backends : c # b => ~InFlight(r, c)
      BY <2>3 DEF Settles, InFlight
    <3>3. Out' = [Out EXCEPT ![b] = @ \ {r}]
      BY <2>3, <3>2 DEF Settles
    <3>4. \E g \in IF Gate[b] = "open" THEN {"open"} ELSE {"closed", "open"} :
            Gate' = [Gate EXCEPT ![b] = g]
      <4>1. /\ breakers'[b].state \in IF Gate[b] = "open" THEN {"open"} ELSE {"closed", "open"}
            /\ \A c \in Backends : c # b => breakers'[c] = breakers[c]
        BY <2>3 DEF Settles, TypeOK, BreakerType, State, AfterSuccess, AfterFailure, Trips
      <4>2. Gate' = [Gate EXCEPT ![b] = breakers'[b].state]
        BY <4>1
      <4>. QED
        BY <4>1, <4>2
    <3>. QED
      BY <3>1, <3>3, <3>4 DEF CircuitView!Result
  <2>4. CASE Tick
    BY <2>4 DEF Tick, Elapse, InFlight, scanVars, TypeOK, BreakerType
  <2>5. ~Readyz
    BY DEF Readyz
  <2>6. ASSUME NEW r \in Requests, NEW b \in Backends, Sends(r, b) \/ Settles(r, b)
        PROVE  CircuitView!Next
    BY <2>2, <2>3, <2>6 DEF CircuitView!Next
  <2>. QED
    BY <2>1, <2>4, <2>5, <2>6, StepShapes, Zenon
<1>3. Init => TrialInv
  BY DEF Init, TrialInv, SoleTrial, PickedBeforeOpening, NewBreaker
<1>4. TypeOK /\ TrialInv /\ [Next]_vars => TrialInv'
  BY TrialStep
<1>. QED
  BY <1>1, <1>2, <1>3, <1>4, TypeCorrect, PTL DEF Spec, RefinesCircuit, CircuitView!Spec
----------------------------------------------------------------------------
\* The attempts between leastConn.Next and Done.
Holding(b) == {r \in Requests : pc[r] = "sent" /\ server[r] = b}

\* leastConn's counters are exact for any number of concurrent requests:
\* every pick is paid back once, on every path out of client.Do, and the
\* unlocked survey before the add costs fairness but never a count.
THEOREM ConnectionsCounted ==
  ASSUME IsFiniteSet(Requests)
  PROVE  Spec => []ConnsExact
<1>1. Init => ConnsExact
  <2>1. Init => \A b \in Backends : Holding(b) = {}
    BY DEF Init, Holding
  <2>. QED
    BY <2>1, FS_EmptySet, SMTT(40) DEF Init, ConnsExact, Holding
<1>2. TypeOK /\ ConnsExact /\ [Next]_vars => ConnsExact'
  <2> SUFFICES ASSUME TypeOK, ConnsExact, [Next]_vars,
                      Strategy = "least_connections", NEW b \in Backends
               PROVE  conns'[b] = Cardinality(Holding(b)')
    BY DEF ConnsExact, Holding
  <2>0. /\ conns[b] = Cardinality(Holding(b))
        /\ IsFiniteSet(Holding(b))
    BY FS_Subset DEF ConnsExact, Holding
  <2>t. /\ conns \in [Backends -> Int]
        /\ pc \in [Requests -> {"idle", "pick", "scan", "sent", "record", "reply", "fail"}]
        /\ server \in [Requests -> Backends \cup {NoBackend}]
        /\ \A r \in Requests : pc[r] = "sent" => server[r] \in Backends
    BY DEF TypeOK
  <2>1. ASSUME NEW r \in Requests, Choose(r)
        PROVE  conns'[b] = Cardinality(Holding(b)')
    <3>1. /\ pc[r] = "scan" /\ server[r] # NoBackend
          /\ conns' = TakeConn(server[r])
          /\ pc' = [pc EXCEPT ![r] = "sent"]
          /\ server' = server
      BY <2>1 DEF Choose
    <3>2. server[r] \in Backends
      BY <2>t, <3>1
    <3>3. CASE server[r] = b
      <4>1. Holding(b)' = Holding(b) \cup {r} /\ r \notin Holding(b)
        BY <2>t, <3>1, <3>3 DEF Holding
      <4>2. conns'[b] = conns[b] + 1
        BY <2>t, <3>1, <3>3 DEF TakeConn
      <4>. QED
        BY <2>0, <4>1, <4>2, FS_AddElement
    <3>4. CASE server[r] # b
      <4>1. Holding(b)' = Holding(b)
        BY <2>t, <3>1, <3>4 DEF Holding
      <4>2. conns'[b] = conns[b]
        BY <2>t, <3>1, <3>2, <3>4 DEF TakeConn
      <4>. QED
        BY <2>0, <4>1, <4>2
    <3>. QED
      BY <3>3, <3>4
  <2>2. ASSUME NEW r \in Requests, Complete(r)
        PROVE  conns'[b] = Cardinality(Holding(b)')
    <3>1. /\ pc[r] = "sent"
          /\ conns' = [conns EXCEPT ![server[r]] = @ - 1]
          /\ pc' = [pc EXCEPT ![r] = "record"]
          /\ server' = server
      BY <2>2 DEF Complete, scanVars
    <3>2. server[r] \in Backends
      BY <2>t, <3>1
    <3>3. CASE server[r] = b
      <4>1. Holding(b)' = Holding(b) \ {r} /\ r \in Holding(b)
        BY <2>t, <3>1, <3>3 DEF Holding
      <4>2. conns'[b] = conns[b] - 1
        BY <2>t, <3>1, <3>3
      <4>. QED
        BY <2>0, <4>1, <4>2, FS_RemoveElement
    <3>4. CASE server[r] # b
      <4>1. Holding(b)' = Holding(b)
        BY <2>t, <3>1, <3>4 DEF Holding
      <4>2. conns'[b] = conns[b]
        BY <2>t, <3>1, <3>2, <3>4
      <4>. QED
        BY <2>0, <4>1, <4>2
    <3>. QED
      BY <3>3, <3>4
  <2>3. ASSUME NEW r \in Requests,
               \/ Arrive(r) \/ StartPick(r) \/ SkipSeen(r) \/ Walk(r) \/ Survey(r)
               \/ NoneHealthy(r) \/ Record(r) \/ Answer(r)
        PROVE  conns' = conns /\ Holding(b)' = Holding(b)
    <3>1. Strategy \notin Walking
      BY DEF Walking
    <3>2. conns' = conns
      BY <2>3, ZenonT(60) DEF Arrive, StartPick, SkipSeen, Walk, Survey, NoneHealthy, Record, Answer, balancerVars
    <3>3. pc' = pc \/ \E v : v # "sent" /\ pc' = [pc EXCEPT ![r] = v]
      <4>1. CASE Arrive(r) \/ StartPick(r) \/ NoneHealthy(r) \/ Answer(r)
        BY <4>1 DEF Arrive, StartPick, NoneHealthy, Answer
      <4>2. CASE SkipSeen(r) \/ Survey(r)
        BY <4>2 DEF SkipSeen, Survey
      <4>3. CASE Walk(r)
        BY <3>1, <4>3 DEF Walk
      <4>4. CASE Record(r)
        BY <4>4, SMTT(40) DEF Record
      <4>. QED
        BY <2>3, <4>1, <4>2, <4>3, <4>4
    <3>4. server' = server \/ \E s : server' = [server EXCEPT ![r] = s]
      <4>1. CASE Arrive(r) \/ SkipSeen(r) \/ NoneHealthy(r) \/ Record(r)
        BY <4>1 DEF Arrive, SkipSeen, NoneHealthy, Record, scanVars
      <4>2. CASE StartPick(r) \/ Answer(r)
        BY <4>2 DEF StartPick, Answer
      <4>3. CASE Walk(r)
        BY <3>1, <4>3 DEF Walk
      <4>4. CASE Survey(r)
        BY <4>4, SMTT(40) DEF Survey
      <4>. QED
        BY <2>3, <4>1, <4>2, <4>3, <4>4
    <3>5. pc[r] # "sent"
      BY <2>3 DEF Arrive, StartPick, SkipSeen, Walk, Survey, NoneHealthy, Record, Answer
    <3>6. \A q \in Requests : /\ pc'[q] = "sent" <=> pc[q] = "sent"
                              /\ pc[q] = "sent" => server'[q] = server[q]
      BY <2>t, <3>3, <3>4, <3>5
    <3>. QED
      BY <3>2, <3>6 DEF Holding
  <2>4. CASE Readyz \/ Tick \/ (\E c \in Flapping : SetHealth(c)) \/ UNCHANGED vars
    <3>1. conns' = conns /\ pc' = pc /\ server' = server
      BY <2>4 DEF Readyz, Tick, SetHealth, vars, balancerVars, scanVars
    <3>. QED
      BY <2>0, <3>1, SMTT(40) DEF Holding
  <2>. QED
    BY <2>0, <2>1, <2>2, <2>3, <2>4, SMTT(40) DEF Next, Step
<1>. QED
  BY <1>1, <1>2, TypeCorrect, PTL DEF Spec
=============================================================================
