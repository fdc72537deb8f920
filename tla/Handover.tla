------------------------------ MODULE Handover -----------------------------
(***************************************************************************)
(* The swap of one generation of routing state for the next (rebuild in    *)
(* cli/engine.go) under requests that do not stop for it.  A generation    *)
(* holds the breakers (Breaker) and the connection counters of its pool;   *)
(* the new one copies both from the current one and is published last.     *)
(* swappable hands every call of a request, Next, Done and the recording,  *)
(* to whichever generation is current when the call is made.  Which of the *)
(* available servers Next takes is left open; retries are new requests.    *)
(***************************************************************************)
EXTENDS Breaker, Integers, FiniteSets

CONSTANTS
  Requests,
  Servers,
  Pools,     \* the server sets a rebuild may produce
  Outcomes,  \* what may be recorded: "success", "failure"
  MaxGen,    \* how many generations a behaviour has: a bound of the model
  Nobody     \* no server picked

ASSUME HandoverAssumption ==
  /\ IsFiniteSet(Requests)
  /\ Pools \subseteq (SUBSET Servers) \ {{}} /\ Pools # {}
  /\ Outcomes \subseteq {"success", "failure"}
  /\ MaxGen \in Nat \ {0}
  /\ Nobody \notin Servers

VARIABLES
  pools,     \* pools[g]: the servers of generation g; {} before it is built
  breakers,  \* breakers[g][s]
  conns,     \* conns[g][s]
  cur,       \* swappable.cur
  build,     \* how far the rebuild is: "none", "conns", "breakers", "publish"
  touched,   \* the servers whose breaker in use changed since CarryOver ran
  pc,        \* pc[r]: "idle", "next", "sent", "record"
  gen,       \* gen[r]: the generation Next was called on
  server     \* server[r]: the server picked

generations == <<pools, breakers, conns, cur>>
requestVars == <<pc, gen, server>>
vars == <<generations, build, touched, requestVars>>

Gens == 1 .. MaxGen
Fresh == [s \in Servers |-> NewBreaker]
Idle == [s \in Servers |-> 0]

TypeOK ==
  /\ pools \in [Gens -> SUBSET Servers]
  /\ breakers \in [Gens -> [Servers -> BreakerType]]
  /\ conns \in [Gens -> [Servers -> Int]]
  /\ cur \in Gens
  /\ build \in {"none", "conns", "breakers", "publish"}
  /\ touched \subseteq Servers
  /\ pc \in [Requests -> {"idle", "next", "sent", "record"}]
  /\ gen \in [Requests -> Gens]
  /\ server \in [Requests -> Servers \cup {Nobody}]

Init ==
  /\ \E p \in Pools : pools = [g \in Gens |-> IF g = 1 THEN p ELSE {}]
  /\ breakers = [g \in Gens |-> Fresh]
  /\ conns = [g \in Gens |-> Idle]
  /\ cur = 1
  /\ build = "none" /\ touched = {}
  /\ pc = [r \in Requests |-> "idle"]
  /\ gen = [r \in Requests |-> 1]
  /\ server = [r \in Requests |-> Nobody]

----------------------------------------------------------------------------
\* Notes a change to the breaker of s in generation g, for KeepsUntouched.
Touch(g, s, changed) ==
  touched' = IF changed /\ build = "publish" /\ g = cur THEN touched \cup {s} ELSE touched

\* swappable.Next loads the generation and stays within it ...
CallNext(r) ==
  /\ pc[r] = "idle"
  /\ gen' = [gen EXCEPT ![r] = cur]
  /\ pc' = [pc EXCEPT ![r] = "next"]
  /\ UNCHANGED <<generations, build, touched, server>>

\* ... which takes an available server and counts the connection, or finds none.
Pick(r) ==
  LET g == gen[r]
      usable == {s \in pools[g] : Available(breakers[g][s])} IN
  /\ pc[r] = "next"
  /\ \/ \E s \in usable :
          /\ breakers' = [breakers EXCEPT ![g][s] = AfterCheck(@)]
          /\ conns' = [conns EXCEPT ![g][s] = @ + 1]
          /\ server' = [server EXCEPT ![r] = s]
          /\ pc' = [pc EXCEPT ![r] = "sent"]
          /\ Touch(g, s, breakers[g][s].state = "open")
     \/ /\ usable = {}
        /\ pc' = [pc EXCEPT ![r] = "idle"]
        /\ UNCHANGED <<breakers, conns, server, touched>>
  /\ UNCHANGED <<pools, cur, build, gen>>

\* Seeded fault: Done leaves the counter as it is.
MutReleased(s) == conns[cur][s]

Released(s) == conns[cur][s] - 1

\* client.Do returns and Done is called on the current generation, which
\* ignores a server it does not have.
Done(r) ==
  /\ pc[r] = "sent"
  /\ conns' = IF server[r] \in pools[cur]
                THEN [conns EXCEPT ![cur][server[r]] = Released(server[r])]
                ELSE conns
  /\ pc' = [pc EXCEPT ![r] = "record"]
  /\ UNCHANGED <<pools, breakers, cur, build, touched, gen, server>>

\* RecordSuccess or RecordFailure, on the current generation too.
Record(r) ==
  /\ pc[r] = "record"
  /\ \E o \in Outcomes :
       breakers' = IF server[r] \in pools[cur]
                     THEN [breakers EXCEPT ![cur][server[r]] =
                             IF o = "success" THEN AfterSuccess(@) ELSE AfterFailure(@)]
                     ELSE breakers
  /\ Touch(cur, server[r], server[r] \in pools[cur])
  /\ pc' = [pc EXCEPT ![r] = "idle"]
  /\ server' = [server EXCEPT ![r] = Nobody]
  /\ gen' = [gen EXCEPT ![r] = 1]
  /\ UNCHANGED <<pools, conns, cur, build>>

----------------------------------------------------------------------------
\* rebuild makes a new balancer for the new pool, ...
Begin ==
  /\ build = "none" /\ cur < MaxGen
  /\ \E p \in Pools : pools' = [pools EXCEPT ![cur + 1] = p]
  /\ build' = "conns"
  /\ UNCHANGED <<breakers, conns, cur, touched, requestVars>>

\* ... copies the connection counters of the servers that stay, ...
CarryOverConns ==
  /\ build = "conns"
  /\ conns' = [conns EXCEPT ![cur + 1] =
                 [s \in Servers |-> IF s \in pools[cur] \cap pools[cur + 1]
                                      THEN conns[cur][s] ELSE 0]]
  /\ build' = "breakers"
  /\ UNCHANGED <<pools, breakers, cur, touched, requestVars>>

\* Seeded fault: the state is copied and openAt is not.
MutCarried(br) == [br EXCEPT !.age = MaxAge]

Carried(br) == br

\* ... makes new breakers and copies theirs, ...
CarryOver ==
  /\ build = "breakers"
  /\ breakers' = [breakers EXCEPT ![cur + 1] =
                    [s \in Servers |-> IF s \in pools[cur] \cap pools[cur + 1]
                                         THEN Carried(breakers[cur][s]) ELSE NewBreaker]]
  /\ touched' = {}
  /\ build' = "publish"
  /\ UNCHANGED <<pools, conns, cur, requestVars>>

\* ... and publishes the generation.
Publish ==
  /\ build = "publish"
  /\ cur' = cur + 1
  /\ build' = "none"
  /\ touched' = {}
  /\ UNCHANGED <<pools, breakers, conns, requestVars>>

Tick ==
  /\ breakers' = [g \in Gens |-> [s \in Servers |-> Elapse(breakers[g][s])]]
  /\ UNCHANGED <<pools, conns, cur, build, touched, requestVars>>

Step(r) == Pick(r) \/ Done(r) \/ Record(r)
Rebuild == CarryOverConns \/ CarryOver \/ Publish

Next ==
  \/ \E r \in Requests : CallNext(r) \/ Step(r)
  \/ Begin \/ Rebuild \/ Tick

Spec == Init /\ [][Next]_vars

\* Requests keep coming and are served, rebuilds end, and time passes.
BusySpec ==
  /\ Spec /\ WF_vars(Rebuild) /\ WF_vars(Tick)
  /\ \A r \in Requests : WF_vars(CallNext(r) \/ Step(r))

----------------------------------------------------------------------------
Using(s) == {r \in Requests : pc[r] = "sent" /\ server[r] = s}

\* A connection opened or closed between the copy and the swap is counted in
\* the wrong generation.  Every swap loses track of no more connections per
\* server than there are requests at work, and none are lost otherwise.
DriftBounded ==
  \A s \in pools[cur] :
    LET drift == conns[cur][s] - Cardinality(Using(s))
        bound == Cardinality(Requests) * (cur - 1)
    IN  -bound <= drift /\ drift <= bound

\* A swap keeps what the old generation knew of a server that stays: failures
\* counted, a circuit open with the time it has left, a trial on its way.  Only
\* what changed between CarryOver and the store is lost (docs/hot-reload.md:42).
KeepsUntouched ==
  [][cur' # cur =>
       \A s \in (pools[cur] \cap pools[cur']) \ touched :
         breakers'[cur'][s] = breakers[cur][s]]_vars

----------------------------------------------------------------------------
\* internal/health/breaker.go:79: a half-open circuit turns callers away "until
\* the trial completes via RecordSuccess/RecordFailure".  A trial that completes
\* between the copy and the swap completes in the registry being replaced.
TrialEnds ==
  \A s \in Servers : breakers[cur][s].state = "half_open" ~> breakers[cur][s].state # "half_open"

\* cli/engine.go:12: "A request in flight keeps using the generation it started
\* on".  Done and the recording use the current one.
KeepsGeneration ==
  [][\A r \in Requests : pc[r] = "record" /\ pc'[r] = "idle" => gen[r] = cur]_vars
=============================================================================
