------------------------------ MODULE Settings -----------------------------
(***************************************************************************)
(* From the config file to what is in force: Load, ApplyEnvOverrides,      *)
(* Validate and Defaults (internal/config/config.go), Snapshot.Reload, and *)
(* what startCommand and rebuild make of the result.  A text is modelled   *)
(* by what Validate tells apart, and left out when nothing depends on it   *)
(* (hosts, paths, the targets of log exporters).  A rebuild is one step;  *)
(* how they interleave is in Runtime.                                      *)
(***************************************************************************)
EXTENDS Integers, Sequences, FiniteSetsExt

CONSTANTS
  Servers,   \* well-formed http(s) URLs
  Files,     \* the configs the file may come to hold, as Load returns them
  Listings,  \* the lists discovery may return
  EnvPort    \* <<HARIBON_PORT>>, or <<>> when it is unset or not a number

\* Settings for which anything below 1 stands for the default.
DefaultOf ==
  [interval |-> 10, timeout |-> 2, healthy |-> 1, unhealthy |-> 2, retries |-> 1,
   threshold |-> 5, cooldown |-> 30, refresh |-> 30, shutdown |-> 15]

\* What a rebuild takes over from the config.  The rest is read once, at start: by
\* the handler, the discovery provider and the shutdown.
Reloadable == {"interval", "timeout", "healthy", "unhealthy", "threshold", "cooldown"}
AtStart == DOMAIN DefaultOf \ Reloadable

Strategies == {"round_robin", "weighted_round_robin", "least_connections", "random", "ip_hash"}
Exporters == {"stdout", "file", "loki", "fluentbit", "elasticsearch"}

\* "" is an unset text, "other" one the code does not know.
Config ==
  [backends : Seq([url : Servers \cup {"", "other"}, weight : Int]),
   strategy : Strategies \cup {"", "other"},
   provider : {"", "static", "dns", "file", "other"},
   target : BOOLEAN,              \* is the provider's dns_name or file_path set?
   dnsPort : Int, port : Int,
   number : [DOMAIN DefaultOf -> Int],
   format : {"", "json", "text", "other"},
   exporters : SUBSET (Exporters \cup {"other"}),
   cluster : BOOLEAN, node : {"", "name", "unresolved"}, gossip : Int]

ASSUME SettingsAssumption ==
  /\ "" \notin Servers /\ "other" \notin Servers
  /\ Files \subseteq Config
  /\ Listings \subseteq Seq(Servers) \ {<<>>}
  /\ EnvPort \in Seq(Int) /\ Len(EnvPort) <= 1

\* What os.Hostname may answer; "" is an error.
Hostname == {"", "name"}

\* The zero value of Config: what Load returns for an empty file.
Unset ==
  [backends |-> <<>>, strategy |-> "", provider |-> "", target |-> FALSE,
   dnsPort |-> 0, port |-> 0, number |-> [k \in DOMAIN DefaultOf |-> 0],
   format |-> "", exporters |-> {}, cluster |-> FALSE, node |-> "", gossip |-> 0]

VARIABLES
  running,   \* has startCommand got past validation?
  snapshot,  \* config.Snapshot
  started,   \* the config startCommand keeps for good
  found,     \* runtime.discovered
  routing    \* the published generation

vars == <<running, snapshot, started, found, routing>>

\* Before the first generation there is nothing to route to.
NoRouting == [strategy |-> "", slots |-> <<>>, number |-> [k \in Reloadable |-> 0]]

Routing ==
  [strategy : Strategies \cup {""}, slots : Seq(Servers), number : [Reloadable -> Int]]

TypeOK ==
  /\ snapshot \in Config /\ started \in Config
  /\ running \in BOOLEAN
  /\ found \in Listings \cup {<<>>}
  /\ routing \in Routing

----------------------------------------------------------------------------
ApplyEnvOverrides(c) == IF EnvPort = <<>> THEN c ELSE [c EXCEPT !.port = EnvPort[1]]

MaxPort == 65535
PortOrUnset(p) == p \in 0 .. MaxPort

\* Seeded fault: a negative weight is let through.
MutValidBackend(b) == b.url \in Servers

\* Seeded fault: any text is a URL.
MutAnyUrl(b) == b.weight >= 0

ValidBackend(b) == b.url \in Servers /\ b.weight >= 0

ValidDiscovery(c) ==
  /\ c.provider # "other"
  /\ c.provider \in {"dns", "file"} => c.target /\ c.number["refresh"] >= 0
  /\ c.provider = "dns" => PortOrUnset(c.dnsPort)

Validate(c) ==
  /\ c.backends # <<>> \/ c.provider # ""
  /\ \A i \in DOMAIN c.backends : ValidBackend(c.backends[i])
  /\ ValidDiscovery(c)
  /\ PortOrUnset(c.port)
  /\ c.strategy # "other" /\ c.format # "other"
  /\ c.exporters \subseteq Exporters
  /\ c.cluster => c.node # "unresolved" /\ c.gossip >= 0

\* Seeded fault: one is taken for unset.
MutAboveOne(n, default) == IF n <= 1 THEN default ELSE n

\* Seeded fault: zero is taken for a setting.
MutPositive(n, default) == IF n < 0 THEN default ELSE n

Positive(n, default) == IF n <= 0 THEN default ELSE n

Text(t, default) == IF t = "" THEN default ELSE t

\* os.Hostname, here h, names a node that has no name; when it fails there is none.
Defaults(c, h) ==
  [c EXCEPT
    !.strategy = Text(@, "round_robin"),
    !.number = [k \in DOMAIN DefaultOf |-> Positive(@[k], DefaultOf[k])],
    !.format = IF @ \in {"json", "text"} THEN @ ELSE "json",
    !.dnsPort = IF c.provider = "dns" THEN Positive(@, 80) ELSE @,
    !.gossip = IF c.cluster THEN Positive(@, 5) ELSE @,
    !.node = IF c.cluster THEN Text(@, h) ELSE @,
    !.exporters = IF @ = {} THEN {"stdout"} ELSE @]

----------------------------------------------------------------------------
Listed(list) == [i \in DOMAIN list |-> [url |-> list[i], weight |-> 1]]

\* Seeded fault: entries that name a server again are kept.
MutAdd(kept, e) == IF e.url = "" THEN kept ELSE Append(kept, e)

Add(kept, e) ==
  IF e.url = "" \/ \E i \in DOMAIN kept : kept[i].url = e.url THEN kept ELSE Append(kept, e)

FirstOfEach(all) ==
  LET merged[n \in 0 .. Len(all)] == IF n = 0 THEN <<>> ELSE Add(merged[n - 1], all[n])
  IN  merged[Len(all)]

\* mergeEntries: the config's servers, then the discovered ones with weight 1;
\* of several entries for a server the first counts.
Merge(backends, list) == FirstOfEach(backends \o Listed(list))

Turns(w) == IF w = 0 THEN 1 ELSE w

\* balancer.New refuses an unknown strategy, an empty pool and, where weights
\* are used, a negative one.
CanBuild(strategy, entries) ==
  /\ strategy \in Strategies /\ entries # <<>>
  /\ strategy = "weighted_round_robin" => \A i \in DOMAIN entries : entries[i].weight >= 0

TurnsOf(strategy, e) == IF strategy = "weighted_round_robin" THEN Turns(e.weight) ELSE 1

SlotsOf(strategy, e) == [j \in 1 .. TurnsOf(strategy, e) |-> e.url]

Slots(strategy, entries) ==
  LET slots[n \in 0 .. Len(entries)] ==
        IF n = 0 THEN <<>> ELSE slots[n - 1] \o SlotsOf(strategy, entries[n])
  IN  slots[Len(entries)]

\* rebuild: what cannot be built leaves the generation in use.  Of the numbers the
\* breakers get two, and the probes four while health checks are enabled.
Rebuilt(c, list) ==
  LET entries == Merge(c.backends, list) IN
  IF CanBuild(c.strategy, entries)
    THEN [strategy |-> c.strategy, slots |-> Slots(c.strategy, entries),
          number |-> [k \in Reloadable |-> c.number[k]]]
    ELSE routing

\* What the file, whatever it has been edited to, comes to; files Validate
\* does not accept come to nothing.
Accepted == {c \in {ApplyEnvOverrides(f) : f \in Files} : Validate(c)}
Effective == {Defaults(c, h) : c \in Accepted, h \in Hostname}

Init ==
  /\ running = FALSE
  /\ snapshot = Unset /\ started = Unset
  /\ found = <<>>
  /\ routing = NoRouting

Discovers(c) == c.provider \in {"dns", "file"}

\* startCommand: a file that is not accepted ends the process before anything
\* runs.  The first lookup comes before the first rebuild and may fail.
Start ==
  /\ ~running
  /\ running' = TRUE
  /\ snapshot' \in Effective /\ started' = snapshot'
  /\ found' \in {<<>>} \cup IF Discovers(started') THEN Listings ELSE {}
  /\ routing' = Rebuilt(snapshot', found')

\* Reload and OnConfigReload; a file that is not accepted changes nothing.
Reload ==
  /\ running
  /\ snapshot' \in Effective
  /\ routing' = Rebuilt(snapshot', found)
  /\ UNCHANGED <<running, started, found>>

\* OnDiscovery, called by the provider the process started with.
OnDiscovery ==
  /\ running /\ Discovers(started)
  /\ found' \in Listings \ {found}
  /\ routing' = Rebuilt(snapshot, found')
  /\ UNCHANGED <<running, snapshot, started>>

\* The process ends and its state with it.
Stop ==
  /\ running
  /\ running' = FALSE
  /\ snapshot' = Unset /\ started' = Unset
  /\ found' = <<>>
  /\ routing' = NoRouting

Next == Start \/ Reload \/ OnDiscovery \/ Stop

Spec == Init /\ [][Next]_vars

----------------------------------------------------------------------------
\* What Validate accepts and Defaults completes, the rest of the program can
\* run on: of the numbers in force, in the generation or since the start, no
\* ticker's period is 0, which panics, and no threshold, timeout or limit is.
\* A provider has its target, and a node a name that is not a leftover ${VAR}.
\* That a probe ends before the next one is due is not among what is enforced.
Workable ==
  running =>
    /\ routing # NoRouting => \A k \in Reloadable : routing.number[k] >= 1
    /\ \A k \in AtStart : started.number[k] >= 1
    /\ started.cluster => started.gossip >= 1 /\ started.node # "unresolved"
    /\ Discovers(started) => started.target
    /\ started.provider = "dns" => started.dnsPort \in 1 .. MaxPort

\* An accepted config is in force, as far as a rebuild carries it: rebuild
\* (cli/engine.go:254) never has to keep an older generation because
\* balancer.New refuses what Validate let pass.  Only an empty pool is not
\* built.  Of the numbers this is about Reloadable: docs/hot-reload.md:35 also
\* promises the retries, see RetriesReloaded.
AcceptedInForce ==
  running /\ Merge(snapshot.backends, found) # <<>> =>
    /\ routing.strategy = snapshot.strategy
    /\ \A k \in Reloadable : routing.number[k] = snapshot.number[k]
    /\ Range(routing.slots) = {b.url : b \in Range(snapshot.backends)} \cup Range(found)

TurnsIn(slots, s) == Cardinality({i \in DOMAIN slots : slots[i] = s})

FirstWeight(backends, s) ==
  LET naming == {i \in DOMAIN backends : backends[i].url = s}
  IN  IF naming = {} THEN 1 ELSE backends[Min(naming)].weight

\* A server's turns in a round are the weight of the first entry that names it,
\* an unset one being 1; a server known from discovery only has one turn.
FairShares ==
  Merge(snapshot.backends, found) # <<>> =>
    \A s \in Range(routing.slots) :
      LET weight == FirstWeight(snapshot.backends, s)
      IN  TurnsIn(routing.slots, s) =
            IF routing.strategy = "weighted_round_robin" /\ weight > 1 THEN weight ELSE 1

----------------------------------------------------------------------------
\* docs/hot-reload.md:35: a reload swaps in "breaker and retry settings".  The
\* retry limit of the handler (cli/main.go:349) is the one read at start.
RetriesReloaded ==
  running => started.number["retries"] = snapshot.number["retries"]
=============================================================================
