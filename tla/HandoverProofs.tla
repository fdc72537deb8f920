--------------------------- MODULE HandoverProofs --------------------------
(***************************************************************************)
(* Theorems about Handover for every number of requests, servers, pools    *)
(* and generations.                                                        *)
(***************************************************************************)
EXTENDS Handover, TLAPS, FiniteSetTheorems

\* No call leaves a breaker outside its type.
LEMMA BreakerCalls ==
  ASSUME NEW br \in BreakerType
  PROVE  /\ AfterCheck(br) \in BreakerType
         /\ AfterSuccess(br) \in BreakerType
         /\ AfterFailure(br) \in BreakerType
         /\ Elapse(br) \in BreakerType
         /\ NewBreaker \in BreakerType
<1> USE BreakerAssumption DEF BreakerType, State
<1>1. AfterCheck(br) \in BreakerType
  BY DEF AfterCheck, CooledDown
<1>2. AfterSuccess(br) \in BreakerType
  BY DEF AfterSuccess
<1>3. AfterFailure(br) \in BreakerType
  BY DEF AfterFailure, Trips
<1>4. Elapse(br) \in BreakerType
  BY DEF Elapse
<1>5. NewBreaker \in BreakerType
  BY DEF NewBreaker
<1>. QED
  BY <1>1, <1>2, <1>3, <1>4, <1>5

\* A rebuild under way has a generation to build, and no request has called a
\* generation that is not published yet.
Building ==
  /\ build # "none" => cur < MaxGen
  /\ \A r \in Requests : gen[r] <= cur
  /\ \A r \in Requests : pc[r] \in {"sent", "record"} => server[r] \in Servers

Inv == TypeOK /\ Building

LEMMA InvInductive ==
  ASSUME Inv, [Next]_vars
  PROVE  Inv'
<1> USE HandoverAssumption DEF Inv, Gens
<1>1. ASSUME NEW r \in Requests, CallNext(r)
      PROVE  Inv'
  BY <1>1, SMTT(40) DEF CallNext, generations, TypeOK, Building
<1>2. ASSUME NEW r \in Requests, Pick(r)
      PROVE  Inv'
  <2>1. CASE \E s \in {t \in pools[gen[r]] : Available(breakers[gen[r]][t])} :
               /\ breakers' = [breakers EXCEPT ![gen[r]][s] = AfterCheck(@)]
               /\ conns' = [conns EXCEPT ![gen[r]][s] = @ + 1]
               /\ server' = [server EXCEPT ![r] = s]
               /\ pc' = [pc EXCEPT ![r] = "sent"]
               /\ Touch(gen[r], s, breakers[gen[r]][s].state = "open")
    <3>1. PICK s \in pools[gen[r]] :
               /\ breakers' = [breakers EXCEPT ![gen[r]][s] = AfterCheck(@)]
               /\ conns' = [conns EXCEPT ![gen[r]][s] = @ + 1]
               /\ server' = [server EXCEPT ![r] = s]
               /\ pc' = [pc EXCEPT ![r] = "sent"]
               /\ Touch(gen[r], s, breakers[gen[r]][s].state = "open")
      BY <2>1
    <3>2. s \in Servers /\ gen[r] \in Gens
      BY DEF TypeOK
    <3>3. breakers' \in [Gens -> [Servers -> BreakerType]]
      BY <3>1, <3>2, BreakerCalls DEF TypeOK
    <3>4. conns' \in [Gens -> [Servers -> Int]] /\ touched' \subseteq Servers
      BY <3>1, <3>2 DEF TypeOK, Touch
    <3>5. UNCHANGED <<pools, cur, build, gen>>
      BY <1>2 DEF Pick
    <3>. QED
      BY <3>1, <3>2, <3>3, <3>4, <3>5, SMTT(40) DEF TypeOK, Building
  <2>2. CASE pc' = [pc EXCEPT ![r] = "idle"] /\ UNCHANGED <<breakers, conns, server, touched>>
    BY <1>2, <2>2 DEF Pick, TypeOK, Building
  <2>. QED
    BY <1>2, <2>1, <2>2 DEF Pick
<1>3. ASSUME NEW r \in Requests, Done(r)
      PROVE  Inv'
  BY <1>3, SMTT(40) DEF Done, Released, TypeOK, Building
<1>4. ASSUME NEW r \in Requests, Record(r)
      PROVE  Inv'
  <2>1. breakers' \in [Gens -> [Servers -> BreakerType]]
    BY <1>4, BreakerCalls, SMTT(40) DEF Record, TypeOK
  <2>2. touched' \subseteq Servers
    BY <1>4 DEF Record, Touch, TypeOK, Building
  <2>3. UNCHANGED <<pools, conns, cur, build>>
        /\ pc' = [pc EXCEPT ![r] = "idle"] /\ server' = [server EXCEPT ![r] = Nobody]
        /\ gen' = [gen EXCEPT ![r] = 1]
    BY <1>4 DEF Record
  <2>. QED
    BY <2>1, <2>2, <2>3, SMTT(40) DEF TypeOK, Building
<1>5. CASE Begin
  BY <1>5 DEF Begin, requestVars, TypeOK, Building
<1>6. CASE CarryOverConns
  BY <1>6, SMTT(40) DEF CarryOverConns, requestVars, TypeOK, Building
<1>7. CASE CarryOver
  <2>1. breakers' \in [Gens -> [Servers -> BreakerType]]
    <3>1. cur + 1 \in Gens /\ cur \in Gens
      BY <1>7 DEF CarryOver, TypeOK, Building
    <3>2. NewBreaker \in BreakerType
      BY BreakerAssumption DEF NewBreaker, BreakerType, State
    <3>3. [s \in Servers |-> IF s \in pools[cur] \cap pools[cur + 1]
                               THEN Carried(breakers[cur][s]) ELSE NewBreaker]
            \in [Servers -> BreakerType]
      BY <3>1, <3>2 DEF Carried, TypeOK
    <3>. QED
      BY <1>7, <3>1, <3>3 DEF CarryOver, TypeOK
  <2>. QED
    BY <1>7, <2>1 DEF CarryOver, requestVars, TypeOK, Building
<1>8. CASE Publish
  BY <1>8 DEF Publish, requestVars, TypeOK, Building
<1>9. CASE Tick
  <2>1. breakers' \in [Gens -> [Servers -> BreakerType]]
    BY <1>9, BreakerCalls DEF Tick, TypeOK
  <2>. QED
    BY <1>9, <2>1 DEF Tick, requestVars, TypeOK, Building
<1>10. CASE UNCHANGED vars
  BY <1>10 DEF vars, generations, requestVars, TypeOK, Building
<1>. QED
  BY <1>1, <1>2, <1>3, <1>4, <1>5, <1>6, <1>7, <1>8, <1>9, <1>10 DEF Next, Step, Rebuild

LEMMA AlwaysInv == Spec => []Inv
<1>1. Init => Inv
  <2>1. NewBreaker \in BreakerType
    BY BreakerAssumption DEF NewBreaker, BreakerType, State
  <2>. QED
    BY <2>1, HandoverAssumption DEF Init, Inv, TypeOK, Building, Gens, Fresh, Idle
<1>. QED
  BY <1>1, InvInductive, PTL DEF Spec

\* Generations, breakers, counters and requests stay within their types: a swap in
\* the middle of a request leaves no call that a generation cannot take.
THEOREM TypeCorrect == Spec => []TypeOK
<1>1. Inv => TypeOK
  BY DEF Inv
<1>. QED
  BY <1>1, AlwaysInv, PTL

----------------------------------------------------------------------------
\* Between CarryOver and the store the two generations agree on every server that
\* stays and has not been touched.
Copied ==
  build = "publish" =>
    \A s \in (pools[cur] \cap pools[cur + 1]) \ touched : breakers[cur + 1][s] = breakers[cur][s]

LEMMA CopiedInductive ==
  ASSUME Inv, Copied, [Next]_vars
  PROVE  Copied'
<1> USE HandoverAssumption DEF Gens
<1>1. TypeOK /\ Building
  BY SMTT(40) DEF Inv
<1>2. ASSUME NEW r \in Requests, Pick(r)
      PROVE  Copied'
  <2>1. UNCHANGED <<pools, cur, build>>
    BY <1>2 DEF Pick
  <2>2. CASE \E s \in pools[gen[r]] :
               /\ breakers' = [breakers EXCEPT ![gen[r]][s] = AfterCheck(@)]
               /\ Touch(gen[r], s, breakers[gen[r]][s].state = "open")
    <3>1. PICK s \in pools[gen[r]] :
               /\ breakers' = [breakers EXCEPT ![gen[r]][s] = AfterCheck(@)]
               /\ Touch(gen[r], s, breakers[gen[r]][s].state = "open")
      BY <2>2
    <3>2. s \in Servers /\ gen[r] \in Gens /\ gen[r] <= cur /\ cur \in Gens
      BY <1>1 DEF TypeOK, Building
    <3>3. ASSUME build = "publish"
          PROVE  \A t \in (pools[cur] \cap pools[cur + 1]) \ touched' :
                   breakers'[cur + 1][t] = breakers'[cur][t]
      <4>1. cur + 1 \in Gens /\ gen[r] # cur + 1
        BY <1>1, <3>2, <3>3 DEF Building
      <4>2. breakers'[cur + 1] = breakers[cur + 1]
        BY <1>1, <3>1, <3>2, <4>1 DEF TypeOK
      <4>3. touched \subseteq touched'
        BY <3>1 DEF Touch
      <4>4. ASSUME NEW t \in Servers \ touched'
            PROVE  breakers'[cur][t] = breakers[cur][t]
        <5>1. CASE gen[r] = cur /\ t = s
          <6>1. breakers[cur][s].state # "open"
            BY <3>1, <3>3, <5>1, <4>4 DEF Touch
          <6>2. AfterCheck(breakers[cur][s]) = breakers[cur][s]
            BY <6>1 DEF AfterCheck, CooledDown
          <6>. QED
            BY <1>1, <3>1, <3>2, <5>1, <6>2 DEF TypeOK
        <5>2. CASE ~(gen[r] = cur /\ t = s)
          BY <1>1, <3>1, <3>2, <5>2 DEF TypeOK
        <5>. QED
          BY <5>1, <5>2
      <4>. QED
        BY <1>1, <3>2, <3>3, <4>1, <4>2, <4>3, <4>4 DEF Copied, TypeOK
    <3>. QED
      BY <2>1, <3>3 DEF Copied
  <2>3. CASE UNCHANGED <<breakers, touched>>
    BY <2>1, <2>3 DEF Copied
  <2>. QED
    BY <1>2, <2>2, <2>3 DEF Pick
<1>3. ASSUME NEW r \in Requests, Record(r)
      PROVE  Copied'
  <2>1. UNCHANGED <<pools, cur, build>> /\ cur \in Gens
    BY <1>1, <1>3 DEF Record, TypeOK
  <2>2. ASSUME build = "publish"
        PROVE  /\ touched \subseteq touched'
               /\ breakers'[cur + 1] = breakers[cur + 1]
               /\ \A t \in Servers \ touched' : t \in pools[cur] => breakers'[cur][t] = breakers[cur][t]
    <3>1. cur + 1 \in Gens
      BY <1>1, <2>1, <2>2 DEF Building
    <3>2. touched' = IF server[r] \in pools[cur] THEN touched \cup {server[r]} ELSE touched
      BY <1>3, <2>2 DEF Record, Touch
    <3>. QED
      BY <1>1, <1>3, <2>1, <3>1, <3>2 DEF Record, TypeOK
  <2>. QED
    BY <1>1, <2>1, <2>2, SMTT(40) DEF Copied, TypeOK
<1>4. CASE Tick
  <2>1. UNCHANGED <<pools, cur, build, touched>> /\ cur \in Gens
    BY <1>1, <1>4 DEF Tick, TypeOK
  <2>2. build = "publish" => cur + 1 \in Gens
    BY <1>1, <2>1 DEF Building
  <2>. QED
    BY <1>1, <1>4, <2>1, <2>2 DEF Tick, Copied, TypeOK
<1>5. CASE CarryOver
  <2>1. cur + 1 \in Gens /\ cur \in Gens
    BY <1>1, <1>5 DEF CarryOver, TypeOK, Building
  <2>. QED
    BY <1>1, <1>5, <2>1 DEF CarryOver, Carried, Copied, TypeOK
<1>6. CASE Begin \/ CarryOverConns \/ Publish
  BY <1>6 DEF Begin, CarryOverConns, Publish, Copied
<1>7. CASE UNCHANGED <<pools, breakers, cur, build, touched>>
  BY <1>7 DEF Copied
<1>. QED
  BY <1>2, <1>3, <1>4, <1>5, <1>6, <1>7
  DEF Next, Step, Rebuild, CallNext, Done, generations, vars

\* A swap keeps what the old generation knew of every server that stays, but for
\* what requests changed between CarryOver and the store: rebuild copies the state
\* and the opening time of every breaker, under whatever requests do meanwhile.
THEOREM SwapKeepsBreakers == Spec => KeepsUntouched
<1>1. Init => Copied
  BY SMTT(40) DEF Init, Copied
<1>2. ASSUME Inv, Copied, [Next]_vars
      PROVE  [cur' # cur => \A s \in (pools[cur] \cap pools[cur']) \ touched :
                             breakers'[cur'][s] = breakers[cur][s]]_vars
  <2>1. CASE Publish
    BY <1>2, <2>1 DEF Publish, Copied
  <2>2. CASE cur' = cur
    BY <2>2
  <2>. QED
    BY <1>2, <2>1, <2>2
    DEF Next, Step, Rebuild, CallNext, Pick, Done, Record, Begin, CarryOverConns, CarryOver,
        Tick, generations, vars
<1>. QED
  BY <1>1, <1>2, CopiedInductive, AlwaysInv, PTL DEF Spec, KeepsUntouched

----------------------------------------------------------------------------
\* The requests inside Next of a generation that has been replaced: they will count
\* their connection where nobody looks.
Behind == {r \in Requests : pc[r] = "next" /\ gen[r] < cur}

N == Cardinality(Requests)
Bound == N * (cur - 1)

\* What a swap may add to the drift of the counters, in two parts: what the next
\* generation's counters already are when its copies have been made, and what the
\* requests left behind will take away.
Drifts ==
  /\ \A s \in pools[cur] :
       /\ conns[cur][s] - Cardinality(Using(s)) <= Bound
       /\ -Bound <= conns[cur][s] - Cardinality(Using(s)) - Cardinality(Behind)
  /\ build \in {"breakers", "publish"} =>
       \A s \in pools[cur + 1] : -Bound <= conns[cur + 1][s] /\ conns[cur + 1][s] <= Bound + N

LEMMA Counts ==
  ASSUME NEW s
  PROVE  /\ IsFiniteSet(Using(s)) /\ IsFiniteSet(Behind)
         /\ N \in Nat /\ Cardinality(Using(s)) \in 0 .. N /\ Cardinality(Behind) \in 0 .. N
<1>1. IsFiniteSet(Requests) /\ Using(s) \subseteq Requests /\ Behind \subseteq Requests
  BY HandoverAssumption DEF Using, Behind
<1>2. /\ IsFiniteSet(Using(s)) /\ Cardinality(Using(s)) <= N
      /\ IsFiniteSet(Behind) /\ Cardinality(Behind) <= N
  BY <1>1, FS_Subset DEF N
<1>. QED
  BY <1>1, <1>2, FS_CardinalityType DEF N

\* A request is not using a server and looking for one at the same time.
LEMMA Together ==
  ASSUME NEW s, NEW X, X \subseteq {r \in Requests : pc[r] = "next"}
  PROVE  Cardinality(Using(s)) + Cardinality(X) <= N
<1>1. IsFiniteSet(Requests) /\ Using(s) \cup X \subseteq Requests /\ Using(s) \cap X = {}
  BY HandoverAssumption DEF Using
<1>2. IsFiniteSet(Using(s)) /\ IsFiniteSet(X) /\ Cardinality(Using(s) \cup X) <= N
  BY <1>1, FS_Subset DEF N
<1>3. Cardinality(Using(s) \cap X) = 0
  BY <1>1, FS_EmptySet
<1>4. Cardinality(Using(s) \cup X)
        = Cardinality(Using(s)) + Cardinality(X) - Cardinality(Using(s) \cap X)
  BY <1>2, FS_Union
<1>. QED
  BY <1>2, <1>3, <1>4, FS_CardinalityType

LEMMA BoundGrows ==
  ASSUME cur \in Nat, cur' = cur + 1
  PROVE  Bound' = Bound + N /\ Bound \in Int
<1>1. N \in Nat
  BY Counts
<1>. QED
  BY <1>1 DEF Bound, N

LEMMA DriftsInductive ==
  ASSUME Inv, Drifts, [Next]_vars
  PROVE  Drifts'
<1>1. TypeOK /\ Building /\ cur \in Nat \ {0}
  BY HandoverAssumption DEF Inv, TypeOK, Gens
<1>2. N \in Nat /\ Bound \in Int /\ N' = N /\ (cur' = cur => Bound' = Bound)
  <2>1. N \in Nat /\ N' = N
    BY Counts DEF N
  <2>. QED
    BY <1>1, <2>1 DEF Bound
<1>3. ASSUME NEW g \in Gens, NEW s \in Servers
      PROVE  conns[g][s] \in Int
  BY <1>1 DEF TypeOK
<1>4. cur \in Gens /\ (build # "none" => cur + 1 \in Gens)
  BY <1>1, HandoverAssumption DEF TypeOK, Building, Gens
\* Steps that move no connection and leave nobody else behind.
<1>5. ASSUME UNCHANGED <<pools, conns, cur>>, \A s \in Servers : Using(s)' = Using(s), Behind' = Behind,
             build' = build \/ build' \notin {"breakers", "publish"} \/ (build = "breakers" /\ build' = "publish")
      PROVE  Drifts'
  <2>1. \A s \in pools[cur] : s \in Servers
    BY <1>1, <1>4 DEF TypeOK
  <2>. QED
    BY <1>2, <1>5, <2>1 DEF Drifts
<1>6. ASSUME NEW r \in Requests, CallNext(r)
      PROVE  Drifts'
  <2>1. \A s \in Servers : Using(s)' = Using(s)
    BY <1>1, <1>6 DEF CallNext, Using, TypeOK
  <2>2. Behind' = Behind
    BY <1>1, <1>6 DEF CallNext, Behind, generations, TypeOK
  <2>. QED
    BY <1>5, <1>6, <2>1, <2>2 DEF CallNext, generations
<1>7. ASSUME NEW r \in Requests, Record(r)
      PROVE  Drifts'
  <2>1. \A s \in Servers : Using(s)' = Using(s)
    BY <1>1, <1>7 DEF Record, Using, TypeOK
  <2>2. Behind' = Behind
    BY <1>1, <1>7 DEF Record, Behind, TypeOK
  <2>. QED
    BY <1>5, <1>7, <2>1, <2>2 DEF Record
<1>8. CASE CarryOver \/ Tick \/ UNCHANGED vars
  BY <1>5, <1>8 DEF CarryOver, Tick, requestVars, generations, vars, Using, Behind
<1>9. ASSUME NEW r \in Requests, Done(r)
      PROVE  Drifts'
  <2>0. PICK t \in Servers : t = server[r]
    BY <1>1, <1>9 DEF Done, Building
  <2>1. /\ UNCHANGED <<pools, cur, build>>
        /\ r \in Using(t) /\ Using(t)' = Using(t) \ {r}
        /\ \A s \in Servers \ {t} : Using(s)' = Using(s)
        /\ Behind' = Behind
    BY <1>1, <1>9, <2>0 DEF Done, Using, Behind, TypeOK, Building
  <2>2. Cardinality(Using(t)') = Cardinality(Using(t)) - 1
    BY <2>1, Counts, FS_RemoveElement, ZenonT(60)
  <2>3. ASSUME NEW s \in pools[cur]
        PROVE  conns'[cur][s] = conns[cur][s] - (IF s = t THEN 1 ELSE 0)
    BY <1>1, <1>3, <1>4, <1>9, <2>0, <2>1, <2>3 DEF Done, Released, TypeOK
  <2>4. build # "none" => conns'[cur + 1] = conns[cur + 1]
    BY <1>1, <1>4, <1>9 DEF Done, TypeOK
  <2>5. ASSUME NEW s \in pools[cur]
        PROVE  /\ conns'[cur][s] - Cardinality(Using(s)') <= Bound
               /\ -Bound <= conns'[cur][s] - Cardinality(Using(s)') - Cardinality(Behind)
    <3>1. /\ conns[cur][s] - Cardinality(Using(s)) <= Bound
          /\ -Bound <= conns[cur][s] - Cardinality(Using(s)) - Cardinality(Behind)
      BY DEF Drifts
    <3>2. s \in Servers /\ conns[cur][s] \in Int
      BY <1>1, <1>3, <1>4 DEF TypeOK
    <3>3. Cardinality(Using(s)) \in Nat /\ Cardinality(Behind) \in Nat
      BY <1>2, Counts
    <3>4. CASE s = t
      BY <1>2, <2>2, <2>3, <3>1, <3>2, <3>3, <3>4, SMTT(40)
    <3>5. CASE s # t
      BY <1>2, <2>1, <2>3, <3>1, <3>2, <3>3, <3>5
    <3>. QED
      BY <3>4, <3>5
  <2>. QED
    BY <1>2, <2>1, <2>4, <2>5 DEF Drifts
<1>10. CASE Begin
  <2>1. /\ UNCHANGED <<conns, cur, requestVars>> /\ build' = "conns"
        /\ pools'[cur] = pools[cur]
    BY <1>1, <1>4, <1>10 DEF Begin, TypeOK
  <2>2. Behind' = Behind /\ \A s \in pools[cur] : Using(s)' = Using(s)
    BY <2>1 DEF Behind, Using, requestVars
  <2>. QED
    BY <1>2, <2>1, <2>2 DEF Drifts
<1>11. CASE CarryOverConns
  <2>1. /\ UNCHANGED <<pools, cur, requestVars>> /\ build # "none"
        /\ conns'[cur] = conns[cur]
        /\ \A s \in Servers : conns'[cur + 1][s] =
             IF s \in pools[cur] \cap pools[cur + 1] THEN conns[cur][s] ELSE 0
    BY <1>1, <1>4, <1>11 DEF CarryOverConns, TypeOK
  <2>2. Behind' = Behind /\ \A s \in pools[cur] : Using(s)' = Using(s)
    BY <2>1 DEF Behind, Using, requestVars
  <2>3. Bound >= 0
    BY <1>1, <1>2 DEF Bound
  <2>4. ASSUME NEW s \in pools[cur + 1]
        PROVE  -Bound <= conns'[cur + 1][s] /\ conns'[cur + 1][s] <= Bound + N
    <3>1. s \in Servers
      BY <1>1, <1>4, <2>1 DEF TypeOK
    <3>2. CASE s \in pools[cur]
      <4>1. /\ conns[cur][s] - Cardinality(Using(s)) <= Bound
            /\ -Bound <= conns[cur][s] - Cardinality(Using(s)) - Cardinality(Behind)
        BY <3>2 DEF Drifts
      <4>2. Cardinality(Using(s)) \in 0 .. N /\ Cardinality(Behind) \in 0 .. N /\ conns[cur][s] \in Int
        BY <1>3, <1>4, <3>1, Counts
      <4>. QED
        BY <1>2, <2>1, <3>1, <3>2, <4>1, <4>2
    <3>3. CASE s \notin pools[cur]
      BY <1>2, <2>1, <2>3, <3>1, <3>3, SMTT(40)
    <3>. QED
      BY <3>2, <3>3
  <2>. QED
    BY <1>2, <2>1, <2>2, <2>4 DEF Drifts
<1>12. CASE Publish
  <2>1. /\ UNCHANGED <<pools, conns, requestVars>> /\ build' = "none"
        /\ cur' = cur + 1 /\ build = "publish"
    BY <1>12 DEF Publish
  <2>2. Bound' = Bound + N
    BY <1>1, <2>1, BoundGrows
  <2>3. ASSUME NEW s \in pools[cur + 1]
        PROVE  /\ conns[cur + 1][s] - Cardinality(Using(s)') <= Bound + N
               /\ -(Bound + N) <= conns[cur + 1][s] - Cardinality(Using(s)') - Cardinality(Behind')
    <3>1. -Bound <= conns[cur + 1][s] /\ conns[cur + 1][s] <= Bound + N
      BY <2>1 DEF Drifts
    <3>2. Using(s)' = Using(s) /\ Behind' \subseteq {r \in Requests : pc[r] = "next"}
      BY <2>1 DEF Using, Behind, requestVars
    <3>3. Cardinality(Using(s)) + Cardinality(Behind') <= N
      BY <3>2, Together
    <3>4. IsFiniteSet(Behind')
      BY <3>2, HandoverAssumption, FS_Subset
    <3>5. Cardinality(Using(s)) \in Nat /\ Cardinality(Behind') \in Nat /\ conns[cur + 1][s] \in Int
      BY <1>1, <1>2, <1>3, <1>4, <2>1, <3>4, Counts, FS_CardinalityType, SMTT(40) DEF TypeOK
    <3>. QED
      BY <1>2, <3>1, <3>2, <3>3, <3>5, SMTT(40)
  <2>. QED
    BY <2>1, <2>2, <2>3 DEF Drifts
<1>13. ASSUME NEW r \in Requests, Pick(r)
       PROVE  Drifts'
  <2>1. UNCHANGED <<pools, cur, build, gen>> /\ gen[r] \in Gens /\ gen[r] <= cur /\ pc[r] = "next"
    BY <1>1, <1>13 DEF Pick, TypeOK, Building
  <2>2. IsFiniteSet(Behind) /\ Cardinality(Behind) \in Nat
    BY <1>2, Counts
  <2>3. ASSUME pc' = [pc EXCEPT ![r] = "idle"], UNCHANGED <<conns, server>>
        PROVE  Drifts'
    <3>1. \A s \in Servers : Using(s)' = Using(s)
      BY <1>1, <2>1, <2>3 DEF Using, TypeOK
    <3>2. Behind' = Behind \/ (r \in Behind /\ Behind' = Behind \ {r})
      BY <1>1, <2>1, <2>3 DEF Behind, TypeOK
    <3>3. Cardinality(Behind') <= Cardinality(Behind) /\ Cardinality(Behind') \in Nat
      BY <2>2, <3>2, FS_Subset, FS_CardinalityType
    <3>4. ASSUME NEW s \in pools[cur]
          PROVE  /\ conns[cur][s] - Cardinality(Using(s)') <= Bound
                 /\ -Bound <= conns[cur][s] - Cardinality(Using(s)') - Cardinality(Behind')
      <4>1. s \in Servers /\ conns[cur][s] \in Int /\ Cardinality(Using(s)) \in Nat
        BY <1>1, <1>2, <1>3, <1>4, Counts, SMTT(40) DEF TypeOK
      <4>2. /\ conns[cur][s] - Cardinality(Using(s)) <= Bound
            /\ -Bound <= conns[cur][s] - Cardinality(Using(s)) - Cardinality(Behind)
        BY DEF Drifts
      <4>. QED
        BY <1>2, <2>2, <3>1, <3>3, <4>1, <4>2
    <3>. QED
      BY <1>2, <2>1, <2>3, <3>4 DEF Drifts
  <2>4. ASSUME NEW t \in pools[gen[r]],
               conns' = [conns EXCEPT ![gen[r]][t] = @ + 1],
               server' = [server EXCEPT ![r] = t], pc' = [pc EXCEPT ![r] = "sent"]
        PROVE  Drifts'
    <3>1. /\ t \in Servers
          /\ r \notin Using(t) /\ Using(t)' = Using(t) \cup {r}
          /\ \A s \in Servers \ {t} : Using(s)' = Using(s)
      BY <1>1, <2>1, <2>4 DEF Using, TypeOK
    <3>2. Cardinality(Using(t)') = Cardinality(Using(t)) + 1
      BY <3>1, Counts, FS_AddElement, ZenonT(60)
    <3>3. build # "none" => conns'[cur + 1] = conns[cur + 1]
      BY <1>1, <1>4, <2>1, <2>4 DEF TypeOK, Gens
    <3>4. CASE gen[r] = cur
      <4>1. Behind' = Behind
        BY <1>1, <2>1, <2>4, <3>4, SMTT(40) DEF Behind, TypeOK
      <4>2. ASSUME NEW s \in pools[cur]
            PROVE  /\ conns'[cur][s] - Cardinality(Using(s)') <= Bound
                   /\ -Bound <= conns'[cur][s] - Cardinality(Using(s)') - Cardinality(Behind')
        <5>1. s \in Servers /\ conns[cur][s] \in Int /\ Cardinality(Using(s)) \in Nat
          BY <1>1, <1>2, <1>3, <1>4, Counts, SMTT(40) DEF TypeOK
        <5>2. /\ conns[cur][s] - Cardinality(Using(s)) <= Bound
              /\ -Bound <= conns[cur][s] - Cardinality(Using(s)) - Cardinality(Behind)
          BY DEF Drifts
        <5>3. conns'[cur][s] = conns[cur][s] + (IF s = t THEN 1 ELSE 0)
          BY <1>1, <1>4, <2>4, <3>1, <3>4, <5>1, SMTT(40) DEF TypeOK
        <5>4. Cardinality(Using(s)') = Cardinality(Using(s)) + (IF s = t THEN 1 ELSE 0)
          BY <3>1, <3>2, <5>1, SMTT(40)
        <5>. QED
          BY <1>2, <2>2, <4>1, <5>1, <5>2, <5>3, <5>4, SMTT(40)
      <4>. QED
        BY <1>2, <2>1, <3>3, <4>2 DEF Drifts
    <3>5. CASE gen[r] < cur
      <4>1. r \in Behind /\ Behind' = Behind \ {r}
        BY <1>1, <2>1, <2>4, <3>5 DEF Behind, TypeOK
      <4>2. Cardinality(Behind') = Cardinality(Behind) - 1
        BY <2>2, <4>1, FS_RemoveElement
      <4>3. conns'[cur] = conns[cur]
        BY <1>1, <1>4, <2>1, <2>4, <3>5 DEF TypeOK, Gens
      <4>4. ASSUME NEW s \in pools[cur]
            PROVE  /\ conns[cur][s] - Cardinality(Using(s)') <= Bound
                   /\ -Bound <= conns[cur][s] - Cardinality(Using(s)') - Cardinality(Behind')
        <5>1. s \in Servers /\ conns[cur][s] \in Int /\ Cardinality(Using(s)) \in Nat
          BY <1>1, <1>2, <1>3, <1>4, Counts DEF TypeOK
        <5>2. /\ conns[cur][s] - Cardinality(Using(s)) <= Bound
              /\ -Bound <= conns[cur][s] - Cardinality(Using(s)) - Cardinality(Behind)
          BY DEF Drifts
        <5>3. Cardinality(Using(s)') = Cardinality(Using(s)) + (IF s = t THEN 1 ELSE 0)
          BY <3>1, <3>2, <5>1
        <5>. QED
          BY <1>2, <2>2, <4>2, <5>1, <5>2, <5>3, SMTT(40)
      <4>. QED
        BY <1>2, <2>1, <3>3, <4>3, <4>4, SMTT(40) DEF Drifts
    <3>. QED
      BY <1>1, <2>1, <3>4, <3>5 DEF Gens
  <2>. QED
    BY <1>13, <2>3, <2>4 DEF Pick
<1>. QED
  BY <1>6, <1>7, <1>8, <1>9, <1>10, <1>11, <1>12, <1>13 DEF Next, Step, Rebuild

\* However many requests are at work and whenever a swap comes, a connection counter
\* of the generation in use is off by at most the number of requests per swap.  Only
\* the counting in a generation that is no longer read can go wrong, and each request
\* does so at most once per swap.
THEOREM DriftIsBounded == Spec => []DriftBounded
<1>1. Init => Drifts
  <2> SUFFICES ASSUME Init
               PROVE  Drifts
    OBVIOUS
  <2>1. Bound = 0
    BY Counts DEF Init, Bound
  <2>2. Behind = {} /\ \A s \in pools[cur] : Using(s) = {}
    BY DEF Init, Behind, Using
  <2>3. cur \in Gens /\ pools[cur] \subseteq Servers
    BY HandoverAssumption, SMTT(40) DEF Init, Gens
  <2>4. \A s \in pools[cur] : conns[cur][s] = 0 /\ Cardinality(Using(s)) = 0 /\ Cardinality(Behind) = 0
    BY <2>2, <2>3, FS_EmptySet DEF Init, Idle
  <2>. QED
    BY <2>1, <2>4 DEF Init, Drifts
<1>2. ASSUME Inv, Drifts
      PROVE  DriftBounded
  <2> SUFFICES ASSUME NEW s \in pools[cur]
               PROVE  /\ -Bound <= conns[cur][s] - Cardinality(Using(s))
                      /\ conns[cur][s] - Cardinality(Using(s)) <= Bound
    BY DEF DriftBounded, Bound, N
  <2>1. cur \in Gens /\ conns[cur][s] \in Int /\ cur \in Nat
    BY <1>2, HandoverAssumption, SMTT(40) DEF Inv, TypeOK, Gens
  <2>2. /\ N \in Nat /\ Cardinality(Using(s)) \in 0 .. N /\ Cardinality(Behind) \in 0 .. N
    BY Counts
  <2>3. Bound \in Int
    BY <2>1, <2>2 DEF Bound
  <2>. QED
    BY <1>2, <2>1, <2>2, <2>3 DEF Drifts
<1>. QED
  BY <1>1, <1>2, DriftsInductive, AlwaysInv, PTL DEF Spec
=============================================================================
