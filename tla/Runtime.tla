------------------------------ MODULE Runtime ------------------------------
(***************************************************************************)
(* The runtime of cli/engine.go: the config watcher and the discovery      *)
(* poller, each rebuilding the generation that serves requests, and the    *)
(* health scheduler (internal/health/scheduler.go) every rebuild replaces. *)
(* Two goroutines rebuild, one at a time under r.mu; the probe loops, one  *)
(* per server, run beside them and write the health map of cli/main.go.    *)
(* What the generations hold besides their pool is in Proxy.               *)
(***************************************************************************)
EXTENDS Naturals, Sequences, SequencesExt

CONSTANTS
  Servers,             \* the servers that are ever listed
  Configs,             \* the server sets the config file may come to list
  Startup,             \* the server set it lists when the process starts
  Provider,            \* discovery.provider
  Listings,            \* the lists the discovery source may come to hold
  Found,               \* what the synchronous first lookup returned, or <<>>
  Signals,             \* is SIGHUP ever sent?
  PollEvery,           \* --watch_config, in ticks; 0 when the file is not polled
  HealthEnabled,       \* health.enabled
  Interval,            \* health.interval_sec, in ticks
  ProbeTimeout,        \* health.timeout_sec, in ticks
  HealthyThreshold, UnhealthyThreshold

\* A probe is over before the next one is due.  So it is with the 10 and the 2
\* seconds of the defaults; Validate does not ask it of what a file sets.
ASSUME RuntimeAssumption ==
  /\ Configs \subseteq SUBSET Servers /\ Startup \in Configs
  /\ Provider \in {"dns", "file"}
  /\ Listings \subseteq Seq(Servers)
  /\ Signals \in BOOLEAN /\ HealthEnabled \in BOOLEAN
  /\ PollEvery \in Nat /\ Interval \in Nat \ {0}
  /\ ProbeTimeout \in Nat /\ ProbeTimeout < Interval
  /\ HealthyThreshold \in Nat \ {0} /\ UnhealthyThreshold \in Nat \ {0}

VARIABLES
  snapshot,    \* config.Snapshot: the servers the last accepted file lists
  last,        \* watchLoop: the last list the poller passed on
  discovered,  \* runtime.discovered
  mu,          \* runtime.mu: who holds it
  pc, cfg,     \* each rebuilder: where it is, the config it rebuilds from
  urls,        \* the servers of the generation under construction
  pool,        \* the servers of the published generation; {} before the first
  loop,        \* loop[s]: the live scheduler's probe loop for s
  late,        \* loops cancelled in the middle of a probe or of its report
  health,      \* backendHealth
  gauge,       \* haribon_backend_healthy
  up,          \* the servers that answer a probe with a 2xx
  pollTimer    \* since the config file was last polled

sources == <<snapshot, last, discovered>>
rebuildVars == <<mu, pc, cfg, urls, pool>>
probeVars == <<loop, late, health, gauge>>
vars == <<sources, rebuildVars, probeVars, up, pollTimer>>

Rebuilders == {"watcher", "poller"}

\* Seeded fault: resolved addresses are taken in the order they come.
MutDiscover(answer) == answer

\* What a lookup returns: the DNS provider sorts the addresses, none of which
\* comes twice, and the file provider takes its list as it is written.
Discover(answer) ==
  IF Provider = "dns" THEN SetToSeq(Range(answer)) ELSE answer

Lists == {Discover(answer) : answer \in Listings}

ASSUME FoundAssumption == Found \in Lists \cup {<<>>}

\* A probe loop; counts stop at the threshold they are compared with.
Loop ==
  [at : {"off", "wait", "probe", "tell"}, ok : 0 .. HealthyThreshold,
   fail : 0 .. UnhealthyThreshold, healthy : BOOLEAN, timer : 0 .. Interval]
Off == [at |-> "off", ok |-> 0, fail |-> 0, healthy |-> TRUE, timer |-> 0]
Fresh == [Off EXCEPT !.at = "wait"]

\* One that was cancelled has a probe or its report left to do.
Cancelled == {l \in Loop : l.at \in {"probe", "tell"}}

TypeOK ==
  /\ snapshot \subseteq Servers
  /\ last \in Lists \cup {<<>>}
  /\ discovered \in Lists \cup {<<>>}
  /\ mu \in Rebuilders \cup {"free"}
  /\ pc \in [Rebuilders -> {"idle", "report", "load", "lock", "seed", "publish", "prune", "start"}]
  /\ cfg \in [Rebuilders -> SUBSET Servers]
  /\ urls \subseteq Servers /\ pool \subseteq Servers
  /\ loop \in [Servers -> Loop]
  /\ late \subseteq Servers \X Cancelled
  /\ health \in [Servers -> {"unset", "up", "down"}]
  /\ gauge \in [Servers -> {"unset", "up", "down"}]
  /\ up \subseteq Servers
  /\ pollTimer \in 0 .. PollEvery

\* main has primed discovered and started the poller, and is about to rebuild
\* for the first time; the watcher it starts afterwards takes its place.
Init ==
  /\ snapshot = Startup
  /\ last = <<>> /\ discovered = Found
  /\ mu = "free"
  /\ pc = [watcher |-> "lock", poller |-> "idle"]
  /\ cfg = [watcher |-> Startup, poller |-> {}]
  /\ urls = {} /\ pool = {}
  /\ loop = [s \in Servers |-> Off]
  /\ late = {}
  /\ health = [s \in Servers |-> "unset"]
  /\ gauge = [s \in Servers |-> "unset"]
  /\ up = Servers
  /\ pollTimer = 0

----------------------------------------------------------------------------
\* Reload accepts the file, swaps the snapshot and calls OnConfigReload with
\* it.  A file Load or Validate rejects changes nothing and is not a step.
Reload ==
  /\ pc["watcher"] = "idle"
  /\ \E c \in Configs :
       /\ snapshot' = c
       /\ cfg' = [cfg EXCEPT !["watcher"] = c]
  /\ pc' = [pc EXCEPT !["watcher"] = "lock"]
  /\ UNCHANGED <<last, discovered, mu, urls, pool, probeVars, up>>

Sighup == Signals /\ Reload /\ UNCHANGED pollTimer

\* The poll reloads and rebuilds whether or not the file has changed.
PollDue == PollEvery > 0 /\ pollTimer = PollEvery
PollFile == PollDue /\ Reload /\ pollTimer' = 0

\* watchLoop: a poll that fails, finds nothing or finds what it found last is
\* skipped.
Lookup ==
  /\ pc["poller"] = "idle"
  /\ \E got \in Lists :
       /\ got # <<>> /\ got # last
       /\ last' = got
  /\ pc' = [pc EXCEPT !["poller"] = "report"]
  /\ UNCHANGED <<snapshot, discovered, mu, cfg, urls, pool, probeVars, up, pollTimer>>

\* Seeded fault: the list is compared but not kept.
MutKept(list) == discovered

Kept(list) == list

\* OnDiscovery, under r.mu: the list is kept unless it is the one in use ...
Report ==
  /\ pc["poller"] = "report"
  /\ mu = "free"
  /\ discovered' = Kept(last)
  /\ pc' = [pc EXCEPT !["poller"] = IF last = discovered THEN "idle" ELSE "load"]
  /\ UNCHANGED <<snapshot, last, mu, cfg, urls, pool, probeVars, up, pollTimer>>

\* ... and, r.mu released, the config to rebuild from is read.
LoadConfig ==
  /\ pc["poller"] = "load"
  /\ cfg' = [cfg EXCEPT !["poller"] = snapshot]
  /\ pc' = [pc EXCEPT !["poller"] = "lock"]
  /\ UNCHANGED <<sources, mu, urls, pool, probeVars, up, pollTimer>>

----------------------------------------------------------------------------
\* Seeded fault: servers that left the lists stay in the pool.
MutMerged(p) == pool \cup cfg[p] \cup Range(discovered)

\* mergeEntries: the config's servers and the discovered ones.
Merged(p) == cfg[p] \cup Range(discovered)

\* Seeded fault: an empty pool is built like any other.
MutUsable(entries) == TRUE

Usable(entries) == entries # {}

\* rebuild: an empty pool is not built.  balancer.New accepts what Validate did.
Lock(p) ==
  /\ pc[p] = "lock"
  /\ mu = "free"
  /\ IF Usable(Merged(p))
       THEN /\ mu' = p
            /\ urls' = Merged(p)
            /\ pc' = [pc EXCEPT ![p] = "seed"]
       ELSE /\ pc' = [pc EXCEPT ![p] = "idle"]
            /\ UNCHANGED <<mu, urls>>
  /\ UNCHANGED <<sources, cfg, pool, probeVars, up, pollTimer>>

\* The gauges of every server of the new pool are set to healthy.
Seed(p) ==
  /\ pc[p] = "seed"
  /\ gauge' = [s \in Servers |-> IF s \in urls THEN "up" ELSE gauge[s]]
  /\ pc' = [pc EXCEPT ![p] = "publish"]
  /\ UNCHANGED <<sources, mu, cfg, urls, pool, loop, late, health, up, pollTimer>>

\* Seeded fault: the old scheduler is left running.
MutStopScheduler == UNCHANGED <<loop, late>>

\* stopScheduler: a loop in the middle of a probe finishes and reports it first,
\* because check uses a context of its own, and one whose ticker has fired may
\* still start it, because select takes either.
StopScheduler ==
  LET probing == {s \in Servers : loop[s].at \in {"probe", "tell"}}
      due == {s \in Servers : loop[s].at = "wait" /\ loop[s].timer = Interval} IN
  /\ \E chosen \in SUBSET due :
       late' = late \cup {<<s, loop[s]>> : s \in probing}
                    \cup {<<s, [loop[s] EXCEPT !.at = "probe", !.timer = 0]>> : s \in chosen}
  /\ loop' = [s \in Servers |-> Off]

\* The old scheduler is cancelled and the new generation stored.
Publish(p) ==
  /\ pc[p] = "publish"
  /\ StopScheduler
  /\ pool' = urls
  /\ pc' = [pc EXCEPT ![p] = "prune"]
  /\ UNCHANGED <<sources, mu, cfg, urls, health, gauge, up, pollTimer>>

\* setBackends, and pruneHealth forgets the servers that left.
Prune(p) ==
  /\ pc[p] = "prune"
  /\ health' = [s \in Servers |-> IF s \in urls THEN health[s] ELSE "unset"]
  /\ pc' = [pc EXCEPT ![p] = "start"]
  /\ UNCHANGED <<sources, mu, cfg, urls, pool, loop, late, gauge, up, pollTimer>>

\* startScheduler: every loop assumes its server healthy.  rebuild returns.
StartScheduler(p) ==
  /\ pc[p] = "start"
  /\ loop' = IF HealthEnabled
               THEN [s \in Servers |-> IF s \in urls THEN Fresh ELSE loop[s]]
               ELSE loop
  /\ mu' = "free"
  /\ pc' = [pc EXCEPT ![p] = "idle"]
  /\ UNCHANGED <<sources, cfg, urls, pool, late, health, gauge, up, pollTimer>>

Rebuild(p) == Lock(p) \/ Seed(p) \/ Publish(p) \/ Prune(p) \/ StartScheduler(p)

----------------------------------------------------------------------------
\* The ticker fires and the loop calls check.
StartProbe(s) ==
  /\ loop[s].at = "wait"
  /\ loop[s].timer = Interval
  /\ loop' = [loop EXCEPT ![s].at = "probe", ![s].timer = 0]
  /\ UNCHANGED <<sources, rebuildVars, late, health, gauge, up, pollTimer>>

\* Where a loop goes on: a change of verdict is written and told, no other.
Placed(l, now) == [now EXCEPT !.at = IF now.healthy = l.healthy THEN "wait" ELSE "tell"]

\* Seeded fault: a failure resets the count it should add to.
MutAfterProbe(l, ok) == Placed(l, [l EXCEPT !.fail = 0, !.healthy = @ \/ ok])

\* Seeded fault: a success never changes the verdict.
MutNeverUp(l, ok) == Placed(l, [l EXCEPT !.healthy = @ /\ ok])

\* What a probe's result makes of its loop: a verdict changes when enough
\* results in a row contradict it.
AfterProbe(l, ok) ==
  LET more(n, threshold) == IF n < threshold THEN n + 1 ELSE n IN
  IF ok
    THEN Placed(l, [l EXCEPT !.ok = more(@, HealthyThreshold), !.fail = 0,
                             !.healthy = @ \/ more(l.ok, HealthyThreshold) = HealthyThreshold])
    ELSE Placed(l, [l EXCEPT !.fail = more(@, UnhealthyThreshold), !.ok = 0,
                             !.healthy = @ /\ more(l.fail, UnhealthyThreshold) < UnhealthyThreshold])

Verdict(l) == IF l.healthy THEN "up" ELSE "down"

\* s.write: a changed verdict goes to the health map first.
WriteVerdict(s, l) ==
  health' = IF l.at = "tell" THEN [health EXCEPT ![s] = Verdict(l)] ELSE health

\* check returns: a 2xx from a server that is up, an error or a timeout else.
EndProbe(s) ==
  LET after == AfterProbe(loop[s], s \in up) IN
  /\ loop[s].at = "probe"
  /\ loop' = [loop EXCEPT ![s] = after]
  /\ WriteVerdict(s, after)
  /\ UNCHANGED <<sources, rebuildVars, late, gauge, up, pollTimer>>

\* s.log, a step of its own: the health logger sets the gauge.
Tell(s) ==
  /\ loop[s].at = "tell"
  /\ loop' = [loop EXCEPT ![s].at = "wait"]
  /\ gauge' = [gauge EXCEPT ![s] = Verdict(loop[s])]
  /\ UNCHANGED <<sources, rebuildVars, late, health, up, pollTimer>>

\* The same two steps in a loop that was cancelled meanwhile, and then ends.
EndLateProbe(s, l) ==
  LET after == AfterProbe(l, s \in up) IN
  /\ l.at = "probe"
  /\ late' = (late \ {<<s, l>>}) \cup (IF after.at = "tell" THEN {<<s, after>>} ELSE {})
  /\ WriteVerdict(s, after)
  /\ UNCHANGED <<sources, rebuildVars, loop, gauge, up, pollTimer>>

TellLate(s, l) ==
  /\ l.at = "tell"
  /\ late' = late \ {<<s, l>>}
  /\ gauge' = [gauge EXCEPT ![s] = Verdict(l)]
  /\ UNCHANGED <<sources, rebuildVars, loop, health, up, pollTimer>>

\* A server starts or stops answering.
Flip(s) ==
  /\ up' = IF s \in up THEN up \ {s} ELSE up \cup {s}
  /\ UNCHANGED <<sources, rebuildVars, probeVars, pollTimer>>

\* Seeded fault: check has no timeout of its own.
MutOverdue(l) == l.at = "tell"

\* check returns by its timeout, and its loop reports at once.
Overdue(l) == l.at = "tell" \/ (l.at = "probe" /\ l.timer >= ProbeTimeout)

\* Rebuilding takes no time on the scale of ticks, and a due probe or poll is
\* taken up at once.
Tick ==
  /\ \A p \in Rebuilders : pc[p] = "idle"
  /\ ~PollDue
  /\ \A s \in Servers : loop[s].at = "wait" => loop[s].timer < Interval
  /\ \A s \in Servers : ~Overdue(loop[s])
  /\ \A t \in late : ~Overdue(t[2])
  /\ loop' = [s \in Servers |->
                IF loop[s].at = "off" THEN loop[s] ELSE [loop[s] EXCEPT !.timer = @ + 1]]
  /\ late' = {<<t[1], [t[2] EXCEPT !.timer = @ + 1]>> : t \in late}
  /\ pollTimer' = IF PollEvery > 0 THEN pollTimer + 1 ELSE 0
  /\ UNCHANGED <<sources, rebuildVars, health, gauge, up>>

Probing(s) == StartProbe(s) \/ EndProbe(s) \/ Tell(s)
EndLate == \E t \in late : EndLateProbe(t[1], t[2]) \/ TellLate(t[1], t[2])

Next ==
  \/ Sighup \/ PollFile \/ Lookup \/ Report \/ LoadConfig
  \/ \E p \in Rebuilders : Rebuild(p)
  \/ \E s \in Servers : Probing(s) \/ Flip(s)
  \/ EndLate
  \/ Tick

Spec == Init /\ [][Next]_vars

\* Goroutines are scheduled, tickers fire and probes time out.  The file, the
\* discovery source, the servers and whoever sends SIGHUP owe nothing.
FairSpec ==
  /\ Spec
  /\ WF_vars(Report \/ LoadConfig) /\ WF_vars(PollFile) /\ WF_vars(Tick)
  /\ \A p \in Rebuilders : WF_vars(Rebuild(p))
  /\ \A s \in Servers : WF_vars(Probing(s))
  /\ WF_vars(EndLate)

----------------------------------------------------------------------------
Settled == mu = "free" /\ \A p \in Rebuilders : pc[p] = "idle"

\* Once the rebuilds are done, the pool is what the config file and the
\* discovery source last listed, in whatever order their goroutines ran.
PoolFollowsSources ==
  LET wanted == snapshot \cup Range(IF last = <<>> THEN discovered ELSE last)
  IN  Settled /\ wanted # {} => pool = wanted

\* When both sources change the discovered part is still never stale, and the
\* config is the one in force or the one OnDiscovery (cli/engine.go:234) read
\* before it.  PoolFollowsSources says more and needs one of them to stay put.
PoolOfSources ==
  LET listed == Range(IF last = <<>> THEN discovered ELSE last)
  IN  Settled /\ snapshot \cup listed # {} =>
        pool \in {snapshot \cup listed, cfg["poller"] \cup listed}

\* A pool, once there, is never emptied, whatever the sources come to list.
NeverEmptied == [][pool # {} => pool' # {}]_vars

\* A resolver may rotate its answers: one that names the same servers in another
\* order is the same list, and does not rebuild the pool and its probe loops.
RotationIgnored ==
  [][Provider = "dns" /\ discovered' # discovered
       => Range(discovered') # Range(discovered)]_vars

\* Between the two writes of a recovery.
TellsUp(l) == l.at = "tell" /\ l.healthy

\* A loop writes its verdict to the health map, tells the gauge in a later step
\* and stays silent until the verdict changes, so what it wrote has to stay:
\* nothing overwrites the "down" of a live loop, in the map at any time and on
\* the gauge once told, but for the rebuild that is about to stop the loop; and
\* a gauge says "down" of a server the map says is up only until it is told.
VerdictsStand ==
  \A s \in Servers :
    /\ loop[s].at # "off" /\ ~loop[s].healthy =>
         /\ health[s] = "down"
         /\ \/ gauge[s] = "down" \/ loop[s].at = "tell"
            \/ \E p \in Rebuilders : pc[p] = "publish"
    /\ gauge[s] = "down" /\ health[s] = "up" =>
         TellsUp(loop[s]) \/ \E t \in late : t[1] = s /\ TellsUp(t[2])

\* Between rebuilds exactly the servers of the pool are being probed.
ProbesCoverPool ==
  mu = "free" =>
    {s \in Servers : loop[s].at # "off"} = IF HealthEnabled THEN pool ELSE {}

\* A server of the pool that stops answering for good is taken out of use.
GoesDown ==
  HealthEnabled =>
    \A s \in Servers : []<>(s \in up \/ s \notin pool \/ health[s] = "down")

\* docs/balancing.md:149: "A server that is marked down is still probed, which
\* is how it comes back."
ComesBack == \A s \in Servers : []<>(s \notin up \/ health[s] # "down")

----------------------------------------------------------------------------
\* cli/engine.go:407: pruneHealth "drops health records for backends no longer
\* in the pool", so that they do not accumulate.
ForgetsRemoved == Settled /\ late = {} => \A s \in Servers \ pool : health[s] = "unset"

\* cli/engine.go:279: rebuild seeds the gauges "for any backend we have not
\* seen before"; for the others the gauge keeps saying what the probes found,
\* once they have reported it.
GaugeTellsHealth ==
  Settled /\ late = {} =>
    \A s \in pool : loop[s].at # "tell" => (gauge[s] = "down" <=> health[s] = "down")
=============================================================================
