# A TLA+ verification of Haribon

Haribon is an HTTP load balancer. This directory holds TLA+ models of it, TLC
runs that check them on small instances, and TLAPS proofs that extend the safety
properties to every instance. `PROJECT.json` lists components, runs,
seeded faults, the definition-to-source map, findings, hazards and theorems.
Paths below are relative to `src/`.

## The system

| Part | State | Operations | Source |
|---|---|---|---|
| Request proxy | per request: attempt, server, result | pick, send, record, retry, answer | `internal/proxy/handler.go` |
| Balancer | rotation counter, active connections | `Next`, `NextForIP`, `Done`, `CarryOverConns` | `internal/balancer/balancer.go` |
| Circuit breaker | state, consecutive failures, time of opening | `IsAvailable`, `RecordSuccess`, `RecordFailure`, `CarryOver` | `internal/health/breaker.go` |
| Health scheduler | per probe loop: two counts and a verdict | probe, write a change of verdict | `internal/health/scheduler.go` |
| Generations | the published balancer, breakers and pool | `rebuild`, `swappable` | `cli/engine.go` |
| Config watcher | the snapshot | SIGHUP, poll, `Reload` | `internal/config/snapshot.go` |
| Discovery | the last list, the list in use | poll, `Discover`, `OnDiscovery` | `internal/discover/`, `cli/engine.go` |
| Gossip | term, findings, their origin and age | `SetHealth`, rounds, `MergeGossip`, expiry | `internal/cluster/cluster.go` |
| Log exporters | queue, batch, drop count, log file | `Write`, flush, `send`, `Close` | `internal/logging/exporter.go`, `cli/main.go` |
| MessagePack | none | the pack functions | `internal/logging/msgpack.go` |
| Config | the config in force, the one kept from the start | decode, `Validate`, `Defaults`, start, reload | `internal/config/config.go`, `cli/main.go` |
| Schema | none | `validateNode` | `internal/config/schema.go` |
| Command line and process | the phase of `startCommand` | check, validate, start, drain, exit | `cli/main.go` |
| Metrics | counters and gauges | increments, `Set` | `internal/metrics` |

A request asks the current generation for a server. The balancer proposes
servers to `engineHealthChecker.IsAvailable`, which asks the health map (written
by probe loops), the gossiped view and the breaker, in that order. The result
is recorded in the breaker, counted, and logged to a file and to remote sinks
that batch. Reloads and discovery each rebuild a generation, copy connection
counters and breakers from the one in use, publish the new one and replace the
scheduler. SIGTERM drains the requests, closes the sinks and ends the process.

What is hard: asking a breaker changes it; every call of a request goes to the
generation that is current at that moment; copying and publishing are separate
steps; a cancelled probe finishes; two goroutines rebuild from sources they read
earlier; findings of replicas are ordered by terms that may not know each other;
requests that outlive the drain write to sinks that are being closed; and two
validators with different rules judge the same file.

Each part is correct when:

- proxy: every request is answered, and one that may not be repeated is sent once;
- balancer: connection counters are exact whatever the interleaving;
- breaker: an open circuit gets nothing new and is tried again, a half-open one
  has exactly one request, whose result is on its way;
- scheduler: a dead server goes down, a server that answers comes back, and what a
  loop has found is not overwritten;
- generations: a swap keeps what the old generation knew;
- sources: the pool is what was last listed, never empty, and not rebuilt for a
  listing in another order;
- config: what is accepted is complete, can be built, and is in force as written,
  from the last reload or from the start;
- validator: it reports every violation of the schema;
- gossip: findings are first-hand, newest first, and do not outlive their finder;
- logging: nothing is lost unaccounted for, and `Close` delivers what is queued;
- encoding: a receiver reads back what was packed;
- shutdown: it ends, cuts off only what the drain timed out on, and keeps the logs.

## Modules

| Module | Models | Proofs |
|---|---|---|
| `Breaker` | one breaker as a record, and its calls as operators | |
| `Circuit` | the abstract promise of a circuit breaker: no clock, no balancer | |
| `Proxy` | the retry loop, the five strategies and `/readyz` over `Breaker`, in one generation | `ProxyProofs` |
| `Handover` | the swap of generations under requests, over `Breaker` | `HandoverProofs` |
| `Runtime` | watcher, poller, rebuild steps and probe loops | `RuntimeProofs` |
| `Settings` | from a decoded config to what is in force | `SettingsProofs` |
| `ConfigFile` | start and reload over the file: documents, decoding, `Settings` | `SettingsProofs` |
| `Schema` | the schema validator over documents as trees, and what it should find | `SettingsProofs` |
| `Commands` | check, validate, start and reload: `ConfigFile` with `Schema` | `SettingsProofs` |
| `Gossip` | findings between nodes over an unreliable network | `GossipProofs` |
| `Sink` | the abstract promise of a log exporter | |
| `LogBatch` | the queue in front of a remote log sink | `ProcessProofs` |
| `Process` | requests, log file, remote sink (`LogBatch`), counters and shutdown | `ProcessProofs` |
| `MessagePack` | the encoder, and a reader of the format | `MessagePackProofs` |
| `Forward` | a batch on a connection to Fluent Bit, over `MessagePack` | `ForwardProofs` |
| `MC...` | instances for TLC | |

**Proxy.** One goroutine per request, with a step wherever another can get in
between: each `IsAvailable` call of a walk or survey is one step (the breaker's
mutex makes it atomic), choosing and counting is one, `Done` and the recording
are separate. Walking strategies (the round robins, `ip_hash`) stop at the first
available server; surveying ones (`least_connections`, `random`) ask about all
of them. Backoff sleeps are stuttering. The clock is an age per attempt and per
breaker, advanced by `Tick`, which waits for no attempt to be past its deadline.

**Handover.** A generation is an index. `Next` is called on the generation loaded
by the request, `Done` and the recording on the current one. `rebuild` is the
copy of the counters, the copy of the breakers, and the store.

**Runtime.** `rebuild` holds `r.mu` from `Lock` to `StartScheduler`; between its
steps probes and requests run. A loop cancelled in a probe, or with its ticker
already fired, becomes a late probe and still writes. A changed verdict is
written in two steps, as in the code: the state writer sets the health map
(`EndProbe`, `EndLateProbe`), then the health logger sets the gauge (`Tell`,
`TellLate`). Pools are sets. Listings
are sequences: the DNS provider sorts its answer, the file provider does not,
and `watchLoop` compares lists in order.

**Settings, ConfigFile, Schema, Commands.** A document is a tree of tagged values. `Load`
makes a config of it as yaml.v2 does: unknown keys are ignored, a wrong type is
an error, a missing key is the zero value. A config is a record of what
`Validate` tells apart; the numbers for which anything below 1 means the default
are one function. `validate` asks what `check` asks and then runs `validateNode`
on the file as it is; `start` does not. `validateNode` calls itself on fields and
items: `Schema` has the calls as levels, `Calls` giving those that one call makes
and `Everything` collecting them down to `MaxDepth`, below which no document goes
(`CommandsAssumption`). `Violations` is the reference: every rule of JSON Schema
at every node of the document, without the order and the early returns of the
code. Rebuilds are one step. The numbers fall in two: `Reloadable` ones, which a
rebuild takes into the new generation (probe timing and thresholds, breaker), and
`AtStart` ones (retry limit, discovery refresh, shutdown timeout), which
`startCommand` reads once; `started` is the config it read them from and `first`
the document. `docs/hot-reload.md:35` counts the retry settings among what a
reload swaps in: `RetriesReloaded`, below, is violated. When `os.Hostname` fails
a cluster node keeps an empty name, so `Defaults` has the host name as a
parameter. `ConfigFile` has every key of `Config`, and the schema of `MCCommands`
is the shipped one in full: TLC evaluates that its places are exactly the keys
that `Load` reads, and that it is closed everywhere but in `loki.labels`, a map.
A step of `Commands` is one of `ConfigFile`, or judges a file
and leaves what runs alone.

**Gossip.** `SetHealth` is two steps (taking the term, entering the finding), so
are a round (term, then what is sent) and `MergeGossip` (term, then findings).
A crash loses all state of a node.

**LogBatch, Process.** Entries are numbered as they reach the channel. `handed`
is what `send` was given: sinks ignore its errors, so nothing depends on whether
it worked. `Process` extends `LogBatch` with the requests that write to it. A
request is counted per attempt by the handler, writes its line to the file, then
its entry to the sink, then is counted by the log adapter; the probe loop of a
server writes its transitions in the same two steps. `startCommand`
starts, serves, drains until nothing runs or the timeout, closes the file, closes
the sink and waits for its loop, and exits; requests the drain gave up on go on
running beside the last steps. A listener that fails ends the process at once.

**MessagePack, Forward.** A 64-bit integer is four 16-bit words. A string is a
number with a length, and its body is one element of the encoding: headers,
widths and order are modelled byte by byte, texts are not. `packValue` calls itself
on what a value contains: `Encodings[n]` encodes the values nested at most `n` deep
by means of `Encodings[n - 1]`, and `Meanings` and `Readings`, what a value means
and what a receiver reads, are built in the same way. `MaxDepth` bounds the
nesting of a record. The reader is written from the format. `Forward` packs the record of each entry into one buffer and
writes it to a connection that may break at any point.

## Runs

Twelve runs are listed in `PROJECT.json`. Nine pass:

| Run | Instance | Shows |
|---|---|---|
| `retry` | 2 requests, weights 2:1, 1 retry | `HalfOpenHasTrial`, `SoleTrial`, `NeverResent`, `TriedAgain`, `RefinesCircuit`, `Answered`, `TrialEnds` |
| `leastconn` | 3 requests, 2 servers, `/readyz` polled | `ConnsExact` |
| `swap` | 2 requests, 2 generations, a server joins or leaves | `DriftBounded`, `KeepsUntouched` |
| `sources` | a file edited at will, to an empty list too, SIGHUP, polling, and DNS answers that rotate | `ProbesCoverPool`, `PoolOfSources`, `VerdictsStand`, `NeverEmptied`, `RotationIgnored` |
| `probing` | 2 servers, thresholds 2, no rebuilds | `GoesDown`, `ComesBack` |
| `file` | 86 documents with every kind of mistake, the shipped schema, discovery | `FileTypeOK`, `Workable`, `AcceptedInForce`, `FairShares`, `WrittenInForce`, `NoTypos`, `ReportsEverything` |
| `gossip` | 2 nodes, loss, duplication, reordering, one crashes and restarts | `ViewExplained`, `OnlyFirstHand`, `NothingLeftBehind` |
| `shutdown` | 2 requests, 1 health transition, a queue of 1, SIGTERM at any moment | `Accounted`, `InOrder`, `CloseDelivers`, `CutOnlyByTimeout`, `LogsKept`, `TotalsExplained`, `RefinesSink`, `Ends`, `EntriesLeave` |
| `wire` | 2 messages with values on both sides of every width | `ReadBack`, `StableBytes`, `Narrowest` |

Type invariants are proved (below) and checked in `file` and `wire` too. `shutdown` and `wire` do not check for deadlock: the process exits, and a sent batch is finished.

Three end in a counterexample, where the code and a text of the repository
disagree:

| Run | Property | What happens |
|---|---|---|
| `survey` | `TrialEnds` | a surveyed server that is not chosen stays half-open for good |
| `stuck_down` | `ComesBack` | a scheduler restart makes a down server's recovery invisible |
| `counted` | `AttemptsCounted` | a 2xx answer is counted twice in `haribon_requests_total` |

`TotalsExplained` says what that counter is instead: attempts plus logged 2xx
answers.

### Further configurations

These are kept beside the listed runs and are run by hand
(`tlc -config MCProxy_readyz.cfg MCProxy`). They are not in `PROJECT.json` and
have no seeded faults. The last column is what TLC reported.

| Configuration | Property | Result |
|---|---|---|
| `MCProxy_readyz` | `HalfOpenHasTrial` | violated: a readiness probe takes the trial and sends nothing |
| `MCProxy_short_cooldown` | `SoleTrial` | violated: with the cooldown within the deadline, old results pass for the trial's |
| `MCProxy_retry_same` | `RetrySkipsFailed` | violated: a retry under `ip_hash` goes to the server that failed |
| `MCProxy_bad_trial` | `FailedTrialReopens` | violated: a last 502/503/504 counts as success |
| `MCProxy_streaming` | `CountedUntilSent` | violated: the connection is given back before the body is sent |
| `MCHandover_lost_trial` | `TrialEnds` | violated: a result recorded between copy and swap is lost; if it is the trial's, the server is refused for good |
| `MCHandover_generation` | `KeepsGeneration` | violated: a request records in another generation than it started on |
| `MCRuntime_race` | `PoolFollowsSources` | violated: discovery rebuilds from the config before the reload |
| `MCRuntime_busy_watch` | `GoesDown` | violated: polling the file faster than the threshold hides a dead server |
| `MCRuntime_late_probe` | `ForgetsRemoved` | violated: a late probe writes for a server already pruned |
| `MCRuntime_gauge` | `GaugeTellsHealth` | violated: a rebuild sets the health gauge of a down server to 1 |
| `MCGossip_not_adopted` | `Propagates` | violated: a finding with a lower term than a peer's own entry is never adopted |
| `MCGossip_behind` | `ReportsCount` | violated: a report behind the receiver's term is dropped before it can restamp |
| `MCCommands_zero_retries` | `RetriesAsWritten` | violated: `max_retries: 0` becomes the default |
| `MCCommands_retry_reload` | `RetriesReloaded` | violated: the retry limit is the one read at start |
| `MCCommands_pattern` | `UnsupportedReported` | violated: a keyword the validator does not know is passed over |

So several properties of the passing runs hold only within the instance given:
`HalfOpenHasTrial` without `/readyz`, `SoleTrial` with the deadline below the
cooldown (nothing makes `cooldown_sec` exceed 5), `GoesDown` without rebuilds
faster than the threshold, `KeepsUntouched` only for breakers nobody calls
between copy and swap.

`VerdictsStand` rests on `ProbeTimeout < Interval` (`RuntimeAssumption`): the
last probe of a cancelled loop is over before its successor's first. The defaults
are 2 s and 10 s, but no check of the config enforces it. What the property
leaves open does happen. Between the two writes of a "down" verdict the
server may leave the pool and come back: the health map has forgotten it, the
rebuild has set its gauge to 1, and the cancelled loop then tells the gauge 0. It
says so for a server in use until the next rebuild, or until the server
recovers from a real failure.

### Bounds

Times are ticks that keep the order of the defaults: a deadline (5 s) below the
cooldown (30 s) is 1 below 2; a probe timeout below the interval likewise.
`MaxAge` lets a breaker just reach or pass its cooldown, which is all that is
compared. Two requests give every pairing of pick, result and swap; three are
used where an old result, a trial and a third caller must meet. A failure
threshold of 1 or 2 distinguishes the first failure from the one that trips.
`MaxTerm` 2 suffices for an older and a newer finding; at the bound rounds go on
with the same term and findings stop. `MaxNet` bounds datagrams on their way:
sending waits, and 1 or 2 already allow overtaking and late arrival. `MaxGen`
is the number of swaps plus one. In `shutdown` two requests and one health
transition overflow a queue of one while a batch of two is under way, and one of
the requests can outlive the drain; `MaxTransitions` and `MaxWrites` are bounds of
the model. The documents of `file` pair one server list with every variant of
every block, and every list with the blocks that `Validate` and `Defaults`
relate to it. The values of `wire` are both neighbours of every limit at which
the encoding changes width, in batches of two so that a wrong length shows in the
message after.

Symmetry is over requests only, and not in runs with a liveness property.

### Fairness

`FairSpec` of `Proxy`: goroutines are scheduled and `client.Do` returns by its
deadline. Arrivals, the clock and `/readyz` owe nothing; `BusySpec` adds arrivals
and the clock, for the runs about traffic that never stops. `TriedAgain` has the
same two as its premise: without requests nobody asks the breaker. It is about
the round robins, whose walk comes to every server, and about a server that
the health views do not hold back. `Runtime`:
goroutines, tickers and probe timeouts, in cancelled loops too; operators, files and servers owe nothing.
`Gossip`: rounds, calls and the clock, and no datagram stays in the network for
ever; `ConnectedSpec`, for `MCGossip_not_adopted`, adds that every node gets
messages through (strong, because sending and receiving may have to wait).
`Process`: the sink's run loop and the steps of `startCommand` with its drain
timer. Nothing is asked of the choices of the loop's `select`: writers are
bounded, so the ticker's case ends up alone. Requests owe nothing, as a
client may be slow for ever, and nobody has to send a signal.

## Proofs

Each holds for every value of the constants allowed by the `ASSUME` of its
modules: any pools, numbers of requests, nodes, servers and entries, any
thresholds, depths and periods.

| Module | Theorem | Statement | Further assumptions |
|---|---|---|---|
| `ProxyProofs` | `TypeCorrect` | `[]TypeOK` | none |
| | `TrialInFlight` | `[]HalfOpenHasTrial` | walking strategy, no `/readyz` |
| | `OneTrial` | `[]SoleTrial` | the same, and `Timeout < Cooldown` |
| | `OnlyStragglers` | `[]PickedBeforeOpening` | walking strategy |
| | `SentOnce` | `NeverResent` | none |
| | `ImplementsCircuit` | `RefinesCircuit` | as `OneTrial` |
| | `ConnectionsCounted` | `[]ConnsExact` | finitely many requests |
| `HandoverProofs` | `TypeCorrect` | `[]TypeOK` | none |
| | `SwapKeepsBreakers` | `KeepsUntouched` | none |
| | `DriftIsBounded` | `[]DriftBounded` | none (finitely many requests, by `HandoverAssumption`) |
| `RuntimeProofs` | `TypeCorrect` | `[]TypeOK` | none |
| | `ProbesFollowPool` | `[]ProbesCoverPool` | none |
| | `PoolStays` | `NeverEmptied` | none |
| | `VerdictsAreKept` | `[]VerdictsStand` | none (`ProbeTimeout < Interval`, by `RuntimeAssumption`) |
| | `PoolIsListed` | `[]PoolOfSources` | none |
| | `RotationsAreIgnored` | `RotationIgnored` | none |
| `GossipProofs` | `TypeCorrect` | `[]TypeOK` | none |
| | `ViewsAreExplained` | `[]ViewExplained` | none |
| | `NothingSecondHand` | `[]OnlyFirstHand` | none |
| `ProcessProofs` | `NothingDisappears` | `[](TypeOK /\ Accounted)` | none |
| | `OrderKept` | `[]InOrder` | none |
| | `ClosingLosesNothing` | `[]CloseDelivers` | none |
| | `ImplementsSink` | `RefinesSink` | none |
| | `RunsSink` | `ProcessSpec => Spec` of `LogBatch` | none |
| | `ProcessTypeCorrect` | `[]ProcessTypeOK` | none |
| | `TotalsAreAttemptsAndSuccesses` | `[]TotalsExplained` | none |
| | `NobodyCutEarly` | `[]CutOnlyByTimeout` | none |
| | `LogsSurvive` | `[]LogsKept` | none |
| `SettingsProofs` | `TypeCorrect` | `[]TypeOK` | none |
| | `FilesAreWorkable` | `[]Workable` | none |
| | `ConfigTakesEffect` | `[]AcceptedInForce` | none |
| | `SharesAreFair` | `[]FairShares` | none |
| | `FileImplementsSettings` | `FileSpec => Spec` of `Settings` | none |
| | `FileTypeCorrect` | `[]FileTypeOK` | none |
| | `FileTakesEffect` | `[]WrittenInForce` | none |
| | `ValidatorIsExact` | `validateNode(d, s) = Violations(d, s)` | the document is made of tagged values (`WellFormed`) |
| | `ReportsEveryViolation` | `[]ReportsEverything` | none |
| | `ValidFilesHaveNoTypos` | `[]NoTypos` | `OnlyKeysRead(TheSchema)` |
| `MessagePackProofs` | `NothingShorter` | no bytes that are read as a number are fewer than those of `packInt` | none |
| `ForwardProofs` | `RoundTrip` | the reader reads what a value means, and leaves what follows it | none |
| | `SameBytes` | values with the same meaning have the same bytes | none |
| | `TypeCorrect` | `[]TypeOK` | none |
| | `MessagesReadBack` | `[]ReadBack` | none |
| | `EqualRecordsEqualBytes` | `[]StableBytes` | none |
| | `NarrowestForm` | `[]Narrowest` | none |

**Proxy.** `MCProxy_readyz`, `MCProxy_survey` and `MCProxy_short_cooldown` show
that the assumptions are needed: each drops one and fails. `SoleTrial` is not
inductive. A trial starts when the circuit has cooled down, and then nothing else
may be in flight; that follows from `PickedBeforeOpening`, which says that an
attempt in flight on an open circuit was picked before the circuit last opened.
It is a theorem of its own (`OnlyStragglers`), with `/readyz` and for any deadline:
a circuit may open while a request is between the pick and the result of
`client.Do`, so an open circuit is not an idle server, but nothing picked later
goes there. With
`Timeout < Cooldown` such an attempt has met its deadline before the circuit
cools down (`NothingLeft`). `TrialInv` is their conjunction; `TrialStep` shows
that every step keeps it. `HalfOpenHasTrial` is inductive for walking strategies
because asking and sending are one step. The refinement maps `gate` to the
breaker states and `out` to the attempts in flight, and uses `TrialInv` for the
test and result steps. `ConnectionsCounted` needs the cardinality facts of
`FiniteSetTheorems`.

**Handover.** The base is `TypeOK` with `Building`: no request is on a generation
after the current one, and a swap under way has room for its result. `Copied`
says that between `CarryOver` and the store the two generations agree on the
breakers nobody has called, which is `KeepsUntouched` at the store. A counter is
off by what `Next` and `Done` on different generations cause. `Drifts` bounds it
by the number of requests times the number of swaps, counts separately the
requests still inside `Next` of a replaced generation (`Behind`), and bounds the
counters of the generation being built; the store step turns the last into the
first.

**Runtime.** `RebuildInv`: at most one goroutine is between `Lock` and `Unlock`,
what it rebuilds from is not empty, every server has its loop until it publishes,
and none between the publication and the new scheduler. `VerdictsStand` needs two
more. `LateInv`: a server has at most one cancelled loop, and the loop that took
over from it has not probed yet and is due only when the cancelled one has timed
out, so a cancelled loop never writes over what its successor found. `VerdictInv` is
the property as the steps preserve it, with what it needs of cancelled loops:
none is about to tell the gauge "down" of a server the map has up. `SourceInv`
says where a pool under construction came from.
`RotationIgnored` rests on `Canonical`: two sorted lists of the same servers are
the same list.

**Gossip.** `ViewExplained` is inductive with `TypeOK`. For
`OnlyFirstHand` the invariant adds `Labels`: wherever a finding is, in a node's
own entries, on its way to be entered, in the network, checked or in an inbox, it
bears the label of the node that made it.

**LogBatch and Process.** `Collecting` says that the batch is below its limit
wherever the loop receives. `Ordered` says that handed, collected and queued
entries form one increasing sequence bounded by the number written; `Owed` that
what `Close` found is still on that path or handed over. `ImplementsSink` maps
`waiting` to batch and queue. `RunsSink` brings all of it into `Process`, whose
steps are steps of `LogBatch` or leave it alone. `GaveUp` and `Filed` say what
`left` means after the drain and who has a line in the file; `Latecomers` that
what is in the sink after `Close` and not owed was written by a request of
`left` or is a health transition. `TotalsExplained` counts the requests answered
by each server.

**Settings.** Snapshot and started config are `Complete`: `Defaults` has
been applied to something `Validate` let pass, so every number is positive, and
so are those a rebuild copies into the generation (`RebuiltIsPositive`).
`Settled` adds that the generation in use is the one `rebuild` makes of the
snapshot and the discovered list whenever they name a server (`Built`).
`AcceptedInForce` and `FairShares` are then facts about one call of `rebuild`,
and those come first in the module. Merging is a loop over the entries and laying out
the slots is a loop over the merged list, so both are proved by induction on how
far the loop has come: `Firsts` (what has been collected is the first entry of
each server met so far, in order, each once) and `Laid` (the slots so far are a
block of turns per entry, one after the other, so that a server has as many
slots as its entry has turns). The induction is not the library's scheme, which
the provers cannot instantiate, but its set form: a nonempty set of counterexamples
has a least member (`Induction`). `Iteration` shows that steps can be
repeated without end, so that the function a loop is written as exists. `ConfigFile` reads documents in
the steps of `Settings`; what it read last is the source of the snapshot and what
it read first that of the started config (`FromFile`), so `FileTakesEffect` follows from `Settled` and from what `Load` and `Defaults` do
to one number.

**Schema and Commands.** A walk over a tree is a function from depths to levels;
`WalkExists` shows that it exists for any start (no set holds all of a walk, so
this is not `Iteration`), and `CallsAt`, `NodesAt` and `PlacesAt` say what the
levels of the three walks are: the calls of `validateNode`, the nodes of the
document, the places of the schema. A node is known by its path (`PathsLead`).
`Agreement`, by induction on the depth, is the heart: the calls at depth n are the
nodes at depth n of which the schema says something and above which nothing was
refused (`RefusedAbove`), that is, above which `validateNode` did not return
early. What one call finds is what the rules say of its value (`OwnProblemsAre`):
the code's comparisons against the rules', the zero that counts as unset and the
unknown keys reported together included. `ValidatorIsExact` puts these together.
`VerdictOf` says that a verdict is what the command says of the file, in every
state. For `NoTypos` the schema must list only what `Load` reads and be closed
everywhere but in a map, which is read with every key it has (`OnlyKeysRead`);
TLC evaluates this on the shipped schema (`ShippedSchema` in `MCCommands`). Then
`AllCovered`: in a file without problems every node is the value of a call and at
a place of the schema, or inside such a map.

**MessagePack and Forward.** What recursion defines exists and follows its
equation (`Exists`, `Unfolds`); then come the bytes. For every width, what the
encoder writes is what the reader announces (`UintAnnounces`, `IntAnnounces`,
`HeaderAnnounces`, `StringRead`). Sorting gives one order to the keys whatever
order they came in (`SortedInOrder`, `SameOrder`). `RoundTrip` and `SameBytes` go
from one depth to the next with the items and pairs of one container read one
after the other (`ItemsRead`, `PairsRead`). `ReadingExtends` says that what has
been read stays read when more bytes follow: so a stream cut off anywhere gives
the first messages and never another value. The invariant `FInv` says that the
buffer holds the encodings of the messages and that what reached the receiver is
a beginning of the buffer. `MessagePackProofs` has what can be said byte by byte
and of lists read one after the other; sorted maps, and with them values at every
depth, come at the start of `ForwardProofs`, which is where counting is needed.

Only model-checked is liveness: `Answered`, `TrialEnds`, `TriedAgain`, `GoesDown`,
`ComesBack`, `NothingLeftBehind`, `Ends` and `EntriesLeave`. Fairness and `ENABLED` are out of
the prover's reach.

## Not modelled

- HTTP headers and bodies, YAML syntax and `${VAR}` expansion, the bodies the Loki
  and Elasticsearch senders post, log line formats, usage texts, flag parsing:
  formatting and I/O with no state.
- Metrics other than `haribon_requests_total` and `haribon_backend_healthy`: each
  is written in one place; the peer count, the config fingerprint and the failure
  count of the cluster feed metrics only.
- `/healthz`, which always answers 200, and a second signal, which kills the
  process.
- `loadBalancer` and `getNextBackend`, the legacy handler that `start` does not
  use, and `Snapshot.Watch` and the static provider, which it does not create.
- Datagram sizes and the wrap-around of 64-bit counters.
- A client that goes away is not told apart: its cancelled request is an `err`
  like any other, and counts against the server.
