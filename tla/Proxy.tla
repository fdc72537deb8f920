------------------------------- MODULE Proxy -------------------------------
(***************************************************************************)
(* The request path within one generation of routing state: the retry loop *)
(* of proxy.Handler.ServeHTTP (internal/proxy/handler.go), the Next of the *)
(* configured balancer (internal/balancer/balancer.go), the breakers of    *)
(* health.Registry behind engineHealthChecker.IsAvailable, and GET /readyz *)
(* (HasHealthyBackend, cli/engine.go).  Every request is a goroutine whose *)
(* program counter stops wherever another one can get in between.          *)
(***************************************************************************)
EXTENDS Breaker, Integers, Sequences, FiniteSets

CONSTANTS
  Requests,      \* goroutines serving requests; each serves one after another
  Backends,      \* the servers of the pool
  Slots,         \* the order the balancer walks: the pool, or the weighted slots
  Strategy,      \* balancer.strategy
  MaxRetries,    \* retry.max_retries
  Timeout,       \* when client.Do gives up, in ticks: the 5s of httpClient or the
                 \* 10s of HandlerTimeout, whichever ends first
  Flapping,      \* the servers whose health view changes during the run
  ReadyzPolled,  \* is something polling GET /readyz?
  NoBackend      \* no server picked

\* The strategies that stop at the first server IsAvailable approves; the
\* other two (least_connections, random) ask about every server first.
Walking == {"round_robin", "weighted_round_robin", "ip_hash"}
Surveying == {"least_connections", "random"}

ASSUME ProxyAssumption ==
  /\ Slots \in Seq(Backends) /\ Len(Slots) > 0
  /\ \A b \in Backends : \E i \in 1 .. Len(Slots) : Slots[i] = b
  /\ Strategy \in Walking \cup Surveying
  /\ MaxRetries \in Nat
  /\ Timeout \in Nat
  /\ Flapping \subseteq Backends
  /\ ReadyzPolled \in BOOLEAN
  /\ NoBackend \notin Backends

VARIABLES
  breakers,   \* breakers[b]: the registry
  healthy,    \* the servers isHealthy accepts and no peer reports down
  counter,    \* the next slot of the round robins
  conns,      \* conns[b]: leastConn's active connections
  pc,         \* where each request is
  idempotent, \* the requests with idempotentMethod(r.Method)
  home,       \* ip_hash: the slot the client's address hashes to
  attempt,    \* the loop variable of ServeHTTP
  server,     \* the server picked, or the best found so far
  bestCount,  \* leastConn: the connections of the best found so far
  pos, tried, \* Next: the slot to ask about, the servers asked about
  age,        \* time since the attempt's server was picked
  result      \* what client.Do returned

balancerVars == <<counter, conns>>
scanVars == <<server, bestCount, pos, tried>>
requestVars == <<idempotent, home, attempt>>
vars == <<breakers, healthy, balancerVars, pc, requestVars, scanVars, age, result>>

\* "ok" is a status other than 502/503/504, "bad" one of those three, "err" a
\* request that could not be built, a network error or the deadline.
Outcome == {"ok", "bad", "err"}
Positions == 1 .. Len(Slots)

TypeOK ==
  /\ breakers \in [Backends -> BreakerType]
  /\ healthy \subseteq Backends
  /\ counter \in Positions
  /\ conns \in [Backends -> Int]
  /\ pc \in [Requests -> {"idle", "pick", "scan", "sent", "record", "reply", "fail"}]
  /\ idempotent \subseteq Requests
  /\ home \in [Requests -> Positions]
  /\ attempt \in [Requests -> 0 .. MaxRetries]
  /\ server \in [Requests -> Backends \cup {NoBackend}]
  /\ \A r \in Requests : pc[r] \in {"sent", "record", "reply"} => server[r] \in Backends
  /\ bestCount \in [Requests -> Int]
  /\ pos \in [Requests -> Positions]
  /\ tried \in [Requests -> SUBSET Backends]
  /\ age \in [Requests -> 0 .. Timeout]
  /\ result \in [Requests -> Outcome]

Init ==
  /\ breakers = [b \in Backends |-> NewBreaker]
  /\ healthy = Backends
  /\ counter = 1
  /\ conns = [b \in Backends |-> 0]
  /\ pc = [r \in Requests |-> "idle"]
  /\ idempotent = {}
  /\ home = [r \in Requests |-> 1]
  /\ attempt = [r \in Requests |-> 0]
  /\ server = [r \in Requests |-> NoBackend]
  /\ bestCount = [r \in Requests |-> -1]
  /\ pos = [r \in Requests |-> 1]
  /\ tried = [r \in Requests |-> {}]
  /\ age = [r \in Requests |-> 0]
  /\ result = [r \in Requests |-> "ok"]

----------------------------------------------------------------------------
Succ(i) == IF i = Len(Slots) THEN 1 ELSE i + 1

\* An attempt is in flight from the pick until its result is recorded.
InFlight(r, b) == pc[r] \in {"sent", "record"} /\ server[r] = b

\* engineHealthChecker.IsAvailable: the health views first, then the breaker,
\* which is asked, and may change, only when they agree.
IsAvailable(b) == b \in healthy /\ Available(breakers[b])

\* Seeded fault: the breaker is asked whatever the health views say.
MutAskAbout(b) == breakers' = [breakers EXCEPT ![b] = AfterCheck(@)]

AskAbout(b) ==
  breakers' = IF b \in healthy THEN [breakers EXCEPT ![b] = AfterCheck(@)] ELSE breakers

\* Seeded fault: a non-idempotent request gets the retries too.
MutMaxAttempts(r) == 1 + MaxRetries

MaxAttempts(r) == IF r \in idempotent THEN 1 + MaxRetries ELSE 1

\* A request arrives: any method, from any client address.
Arrive(r) ==
  /\ pc[r] = "idle"
  /\ idempotent' \in {idempotent, idempotent \cup {r}}
  /\ \E h \in IF Strategy = "ip_hash" THEN Positions ELSE {1} :
       home' = [home EXCEPT ![r] = h]
  /\ attempt' = [attempt EXCEPT ![r] = 0]
  /\ pc' = [pc EXCEPT ![r] = "pick"]
  /\ UNCHANGED <<breakers, healthy, balancerVars, scanVars, age, result>>

\* pickBackend enters Next or NextForIP, which fixes where its walk starts.
StartPick(r) ==
  /\ pc[r] = "pick"
  /\ pc' = [pc EXCEPT ![r] = "scan"]
  /\ tried' = [tried EXCEPT ![r] = {}]
  /\ IF Strategy \in {"round_robin", "weighted_round_robin"}
       THEN /\ pos' = [pos EXCEPT ![r] = counter]
            /\ counter' = Succ(counter)
       ELSE /\ pos' = [pos EXCEPT ![r] = home[r]]
            /\ UNCHANGED counter
  /\ IF Strategy \in Surveying
       THEN /\ server' = [server EXCEPT ![r] = NoBackend]
            /\ bestCount' = [bestCount EXCEPT ![r] = -1]
       ELSE UNCHANGED <<server, bestCount>>
  /\ UNCHANGED <<breakers, healthy, conns, requestVars, age, result>>

\* weightedRR skips a server it has asked about already.
SkipSeen(r) ==
  /\ pc[r] = "scan"
  /\ tried[r] # Backends
  /\ Slots[pos[r]] \in tried[r]
  /\ pos' = [pos EXCEPT ![r] = Succ(@)]
  /\ UNCHANGED <<breakers, healthy, balancerVars, pc, requestVars, server, bestCount, tried, age, result>>

\* The locals of Next go out of scope when it returns.
ResetWalk(r) ==
  /\ pos' = [pos EXCEPT ![r] = 1]
  /\ tried' = [tried EXCEPT ![r] = {}]

\* A walking strategy asks about the next server and takes it if it may.
Walk(r) ==
  LET b == Slots[pos[r]] IN
  /\ pc[r] = "scan"
  /\ Strategy \in Walking
  /\ b \notin tried[r]
  /\ AskAbout(b)
  /\ IF IsAvailable(b)
       THEN /\ server' = [server EXCEPT ![r] = b]
            /\ age' = [age EXCEPT ![r] = 0]
            /\ pc' = [pc EXCEPT ![r] = "sent"]
            /\ ResetWalk(r)
       ELSE /\ tried' = [tried EXCEPT ![r] = @ \cup {b}]
            /\ pos' = [pos EXCEPT ![r] = Succ(@)]
            /\ UNCHANGED <<server, age, pc>>
  /\ UNCHANGED <<healthy, balancerVars, requestVars, bestCount, result>>

\* leastConn.Next and random.Next ask about every server, in order, before
\* they choose.  leastConn keeps the first server with the fewest connections.
Better(r, b) == bestCount[r] < 0 \/ conns[b] < bestCount[r]

\* random's draw from the available servers, one server at a time: a later
\* one may replace the one kept so far.
MayTake(r, b) == Strategy = "random" \/ Better(r, b)
MayPass(r, b) == IF Strategy = "random" THEN server[r] # NoBackend ELSE ~Better(r, b)

Survey(r) ==
  LET b == Slots[pos[r]] IN
  /\ pc[r] = "scan"
  /\ Strategy \in Surveying
  /\ b \notin tried[r]
  /\ AskAbout(b)
  /\ tried' = [tried EXCEPT ![r] = @ \cup {b}]
  /\ pos' = [pos EXCEPT ![r] = Succ(@)]
  /\ \/ /\ IsAvailable(b) /\ MayTake(r, b)
        /\ server' = [server EXCEPT ![r] = b]
        /\ bestCount' = [bestCount EXCEPT ![r] = conns[b]]
     \/ /\ ~IsAvailable(b) \/ MayPass(r, b)
        /\ UNCHANGED <<server, bestCount>>
  /\ UNCHANGED <<healthy, balancerVars, pc, requestVars, age, result>>

\* Seeded fault: Next hands out the server without counting the connection
\* when it is idle.
MutTakeConn(b) == [conns EXCEPT ![b] = IF @ = 0 THEN 0 ELSE @ + 1]

TakeConn(b) == [conns EXCEPT ![b] = @ + 1]

\* The survey is over and found a server.
Choose(r) ==
  /\ pc[r] = "scan"
  /\ Strategy \in Surveying
  /\ tried[r] = Backends
  /\ server[r] # NoBackend
  /\ conns' = IF Strategy = "least_connections" THEN TakeConn(server[r]) ELSE conns
  /\ age' = [age EXCEPT ![r] = 0]
  /\ bestCount' = [bestCount EXCEPT ![r] = -1]
  /\ ResetWalk(r)
  /\ pc' = [pc EXCEPT ![r] = "sent"]
  /\ UNCHANGED <<breakers, healthy, counter, requestVars, server, result>>

\* Seeded fault: with no server to send to, the loop picks again.
MutNoneHealthy(r) ==
  /\ pc[r] = "scan"
  /\ tried[r] = Backends
  /\ Strategy \in Surveying => server[r] = NoBackend
  /\ ResetWalk(r)
  /\ pc' = [pc EXCEPT ![r] = "pick"]
  /\ UNCHANGED <<breakers, healthy, balancerVars, requestVars, server, bestCount, age, result>>

\* Every server was asked about and none may be used: ErrNoHealthyBackend
\* breaks out of the retry loop.
NoneHealthy(r) ==
  /\ pc[r] = "scan"
  /\ tried[r] = Backends
  /\ Strategy \in Surveying => server[r] = NoBackend
  /\ ResetWalk(r)
  /\ pc' = [pc EXCEPT ![r] = "fail"]
  /\ UNCHANGED <<breakers, healthy, balancerVars, requestVars, server, bestCount, age, result>>

\* client.Do returns, or the request could not be built; either way Done
\* gives the connection back before the result is recorded.
Complete(r) ==
  /\ pc[r] = "sent"
  /\ \E o \in Outcome : result' = [result EXCEPT ![r] = o]
  /\ conns' = IF Strategy = "least_connections"
                THEN [conns EXCEPT ![server[r]] = @ - 1] ELSE conns
  /\ pc' = [pc EXCEPT ![r] = "record"]
  /\ UNCHANGED <<breakers, healthy, counter, requestVars, scanVars, age>>

\* Another attempt follows ...
Retryable(r) == result[r] # "ok" /\ attempt[r] + 1 < MaxAttempts(r)

\* ... and a failure is recorded: a 502/503/504 that is not retried is not one.
CountsAsFailure(r) == result[r] = "err" \/ Retryable(r)

Record(r) ==
  /\ pc[r] = "record"
  /\ breakers' = [breakers EXCEPT ![server[r]] =
                    IF CountsAsFailure(r) THEN AfterFailure(@) ELSE AfterSuccess(@)]
  /\ age' = [age EXCEPT ![r] = 0]
  /\ result' = [result EXCEPT ![r] = "ok"]
  /\ IF Retryable(r)
       THEN /\ attempt' = [attempt EXCEPT ![r] = @ + 1]
            /\ pc' = [pc EXCEPT ![r] = "pick"]
       ELSE /\ pc' = [pc EXCEPT ![r] = IF CountsAsFailure(r) THEN "fail" ELSE "reply"]
            /\ UNCHANGED attempt
  /\ UNCHANGED <<healthy, balancerVars, idempotent, home, scanVars>>

\* The client has its answer: the server's response copied through, or the
\* proxy's own 503.  The locals of ServeHTTP go out of scope.
Answer(r) ==
  /\ pc[r] \in {"reply", "fail"}
  /\ pc' = [pc EXCEPT ![r] = "idle"]
  /\ idempotent' = idempotent \ {r}
  /\ home' = [home EXCEPT ![r] = 1]
  /\ attempt' = [attempt EXCEPT ![r] = 0]
  /\ server' = [server EXCEPT ![r] = NoBackend]
  /\ UNCHANGED <<breakers, healthy, balancerVars, bestCount, pos, tried, age, result>>

----------------------------------------------------------------------------
\* A probe or a peer's gossip changes the view of a server's health.
SetHealth(b) ==
  /\ healthy' = IF b \in healthy THEN healthy \ {b} ELSE healthy \cup {b}
  /\ UNCHANGED <<breakers, balancerVars, pc, requestVars, scanVars, age, result>>

\* GET /readyz asks about the servers in order, up to the first available one.
Readyz ==
  /\ ReadyzPolled
  /\ \E i \in Positions :
       /\ IsAvailable(Slots[i])
       /\ \A j \in 1 .. i - 1 : ~IsAvailable(Slots[j])
       /\ AskAbout(Slots[i])
  /\ UNCHANGED <<healthy, balancerVars, pc, requestVars, scanVars, age, result>>

\* Seeded fault: the attempt runs on without a deadline.
MutDeadlineDue(r) == FALSE

\* The context deadline makes client.Do return; its result is recorded at once.
DeadlineDue(r) == pc[r] \in {"sent", "record"} /\ age[r] = Timeout

Tick ==
  /\ \A r \in Requests : ~DeadlineDue(r)
  /\ breakers' = [b \in Backends |-> Elapse(breakers[b])]
  /\ age' = [r \in Requests |->
               IF pc[r] \in {"sent", "record"} THEN age[r] + 1 ELSE age[r]]
  /\ UNCHANGED <<healthy, balancerVars, pc, requestVars, scanVars, result>>

\* What the goroutine of a request does on its own.
Step(r) ==
  \/ StartPick(r) \/ SkipSeen(r) \/ Walk(r) \/ Survey(r) \/ Choose(r)
  \/ NoneHealthy(r) \/ Complete(r) \/ Record(r) \/ Answer(r)

Next ==
  \/ \E r \in Requests : Arrive(r) \/ Step(r)
  \/ \E b \in Flapping : SetHealth(b)
  \/ Readyz
  \/ Tick

Spec == Init /\ [][Next]_vars

\* Goroutines are scheduled, client.Do returns by its deadline, and the sleeps
\* of the retry loop end.  Arrivals, ticks, probes and /readyz owe nothing.
FairSpec == Spec /\ \A r \in Requests : WF_vars(Step(r))

\* The same under traffic that keeps coming and a clock that keeps running.
BusySpec ==
  FairSpec /\ (\A r \in Requests : WF_vars(Arrive(r))) /\ WF_vars(Tick)

----------------------------------------------------------------------------
\* A half-open circuit waits for a result that is on its way.  IsAvailable
\* (breaker.go:101) refuses everyone "already a trial in flight"; were there
\* none, no call would ever move the breaker again.
HalfOpenHasTrial ==
  \A b \in Backends :
    breakers[b].state = "half_open" => \E r \in Requests : InFlight(r, b)

\* The trial is the only request the server is handling: nothing sent before
\* the circuit opened can still report and pass for the trial's result.
SoleTrial ==
  \A b \in Backends :
    breakers[b].state = "half_open" =>
      \A r, q \in Requests : InFlight(r, b) /\ InFlight(q, b) => r = q

\* The breakers and the retry loop together keep the promise of Circuit.
CircuitView ==
  INSTANCE Circuit WITH
    gate <- [b \in Backends |-> breakers[b].state],
    out <- [b \in Backends |-> {r \in Requests : InFlight(r, b)}]

RefinesCircuit == CircuitView!Spec

\* leastConn's counters are exactly the attempts between Next and Done,
\* whatever the interleaving of the unlocked load, compare and add.
ConnsExact ==
  Strategy = "least_connections" =>
    \A b \in Backends :
      conns[b] = Cardinality({r \in Requests : pc[r] = "sent" /\ server[r] = b})

\* A request that may not be repeated is sent once: after its first attempt
\* has been sent it never goes back to picking a server (handler.go:172-175).
NeverResent ==
  [][\A r \in Requests :
       r \notin idempotent /\ pc[r] \in {"sent", "record"} => pc'[r] # "pick"]_vars

\* Every request is answered, by a server or by the proxy's 503.
Answered == \A r \in Requests : pc[r] = "pick" ~> pc[r] = "idle"

\* A half-open circuit does not stay half-open: the trial's result moves it.
TrialEnds ==
  \A b \in Backends :
    breakers[b].state = "half_open" ~> breakers[b].state # "half_open"

\* An open circuit is tried again, as long as requests keep coming, time passes
\* and the health views do not hold the server back: refused requests and the
\* failures of attempts that were under way when it opened, which re-arm the
\* cooldown (breaker.go:137-139), put the trial off but not for good.
TriedAgain ==
  /\ Strategy \in {"round_robin", "weighted_round_robin"}
  /\ \A r \in Requests : WF_vars(Arrive(r))
  /\ WF_vars(Tick)
  => \A b \in Backends : []<>(breakers[b].state # "open" \/ b \notin healthy)
----------------------------------------------------------------------------
(* What the documentation says and the code does not do.                   *)

\* docs/breaker-retry.md:34: the second pick "skips the server that just
\* failed".  Until the next pick, server[r] is still the one that failed.
RetrySkipsFailed ==
  [][\A r \in Requests :
       attempt[r] > 0 /\ pc[r] = "scan" /\ pc'[r] = "sent"
         => server'[r] # server[r]]_vars

\* docs/breaker-retry.md:70-78: a 502/503/504 is a failure, and a failed trial
\* reopens the circuit.  ServeHTTP records the last attempt's as a success.
FailedTrialReopens ==
  [][\A r \in Requests :
       pc[r] = "record" /\ pc'[r] # "record" /\ result[r] = "bad"
         => breakers'[server[r]].state # "closed" \/ breakers[server[r]].state = "closed"]_vars

\* docs/balancing.md:67: a request counts as in flight until "the response has
\* been fully sent".  Done (handler.go:225) runs before the body is copied.
CountedUntilSent ==
  \A b \in Backends :
    conns[b] = Cardinality({r \in Requests : pc[r] \in {"sent", "record", "reply"}
                                             /\ server[r] = b})
=============================================================================
