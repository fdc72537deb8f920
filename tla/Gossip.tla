------------------------------- MODULE Gossip -------------------------------
(***************************************************************************)
(* The health findings replicas exchange (internal/cluster/cluster.go).    *)
(* Each node stamps its own findings with a term, sends them to every peer *)
(* over UDP round after round, and adopts a peer's finding for a server    *)
(* when its term is newer than the one held.  A peer's finding that is not *)
(* repeated goes stale.  Datagrams may be lost, reordered and duplicated,  *)
(* nodes may crash and come back with nothing.  What only feeds metrics    *)
(* (seen, the config hash, the failure count) is left out.                 *)
(***************************************************************************)
EXTENDS Naturals, FiniteSets

CONSTANTS
  Nodes,
  Servers,
  MaxTerm,     \* where terms stop: a bound of the model
  MaxNet,      \* how many datagrams may be on their way: a bound of the model
  StaleAfter,  \* Node.staleAfter, in ticks
  Reliable,    \* does every datagram arrive, once?
  Crashing,    \* the nodes that may crash
  Self         \* origin "": the node itself

ASSUME GossipAssumption ==
  /\ MaxTerm \in Nat \ {0} /\ MaxNet \in Nat \ {0} /\ StaleAfter \in Nat \ {0}
  /\ Reliable \in BOOLEAN
  /\ Crashing \subseteq Nodes
  /\ Self \notin Nodes

VARIABLES
  term,      \* Node.term
  view,      \* Node.Health: view[n][s] is the finding n goes by
  own,       \* Node.own: what n found itself
  origin,    \* Node.origin: whose finding view[n][s] is
  heard,     \* Node.remoteAt: time since that peer last repeated it
  setting,   \* SetHealth between IncrementTerm and healthMu
  sending,   \* sendGossip between IncrementTerm and ownHealth
  alive,
  checked,   \* MergeGossip between GetTerm and termMu: {} or the message
  inbox,     \* MergeGossip between termMu and healthMu: {} or the message
  net        \* datagrams on their way

entries == <<view, own, origin, heard>>
nodeVars == <<term, entries, setting, sending, checked, inbox>>
vars == <<nodeVars, alive, net>>

\* A finding's term is at least 1, because SetHealth increments it first.  The code
\* does not write down who made it; the model does.
Unknown == [down |-> FALSE, term |-> 0, by |-> Self]
Finding == {Unknown} \cup [down : BOOLEAN, term : 1 .. MaxTerm, by : Nodes]
NoTerm == 0
Ages == 0 .. StaleAfter + 1

Datagram ==
  [from : Nodes, to : Nodes, term : 1 .. MaxTerm, health : [Servers -> Finding]]

TypeOK ==
  /\ term \in [Nodes -> 0 .. MaxTerm]
  /\ view \in [Nodes -> [Servers -> Finding]]
  /\ own \in [Nodes -> [Servers -> Finding]]
  /\ origin \in [Nodes -> [Servers -> Nodes \cup {Self}]]
  /\ heard \in [Nodes -> [Servers -> Ages]]
  /\ setting \in [Nodes -> [Servers -> Finding]]
  /\ sending \in [Nodes -> 0 .. MaxTerm]
  /\ checked \in [Nodes -> SUBSET Datagram] /\ inbox \in [Nodes -> SUBSET Datagram]
  /\ alive \subseteq Nodes
  /\ net \subseteq Datagram

Nothing == [s \in Servers |-> Unknown]

Init ==
  /\ term = [n \in Nodes |-> 0]
  /\ view = [n \in Nodes |-> Nothing]
  /\ own = [n \in Nodes |-> Nothing]
  /\ origin = [n \in Nodes |-> [s \in Servers |-> Self]]
  /\ heard = [n \in Nodes |-> [s \in Servers |-> 0]]
  /\ setting = [n \in Nodes |-> Nothing]
  /\ sending = [n \in Nodes |-> NoTerm]
  /\ checked = [n \in Nodes |-> {}] /\ inbox = [n \in Nodes |-> {}]
  /\ alive = Nodes
  /\ net = {}

----------------------------------------------------------------------------
\* IncrementTerm; at MaxTerm the model keeps the term.
IncrementTerm(n) == IF term[n] < MaxTerm THEN term[n] + 1 ELSE term[n]

\* A probe loop changes its verdict on s.  stateWriter sets the node's own
\* health map, and SetHealth takes a new term ...
SetHealth(n, s) ==
  LET t == IncrementTerm(n) IN
  /\ n \in alive
  /\ setting[n][s] = Unknown
  /\ term[n] < MaxTerm
  /\ term' = [term EXCEPT ![n] = t]
  /\ setting' = [setting EXCEPT ![n][s] = [down |-> ~own[n][s].down, term |-> t, by |-> n]]
  /\ UNCHANGED <<entries, sending, checked, inbox, alive, net>>

\* ... and then, under healthMu, enters the finding as this node's own.
EnterFinding(n, s) ==
  LET h == setting[n][s] IN
  /\ n \in alive
  /\ h # Unknown
  /\ view' = [view EXCEPT ![n][s] = h]
  /\ own' = [own EXCEPT ![n][s] = h]
  /\ origin' = [origin EXCEPT ![n][s] = Self]
  /\ heard' = [heard EXCEPT ![n][s] = 0]
  /\ setting' = [setting EXCEPT ![n][s] = Unknown]
  /\ UNCHANGED <<term, sending, checked, inbox, alive, net>>

Stale(n, s) == origin[n][s] # Self /\ heard[n][s] > StaleAfter

\* Seeded fault: an expired finding leaves nothing, not even the node's own.
MutFallBack(n, s) == Unknown

FallBack(n, s) == own[n][s]

\* A gossip round: expireRemote puts the node's own findings back in place of
\* stale ones, and sendGossip takes a new term.
StartRound(n) ==
  LET expired == {s \in Servers : Stale(n, s)} IN
  /\ n \in alive
  /\ sending[n] = NoTerm
  /\ view' = [view EXCEPT ![n] = [s \in Servers |-> IF s \in expired THEN FallBack(n, s) ELSE @[s]]]
  /\ origin' = [origin EXCEPT ![n] = [s \in Servers |-> IF s \in expired THEN Self ELSE @[s]]]
  /\ heard' = [heard EXCEPT ![n] = [s \in Servers |-> IF s \in expired THEN 0 ELSE @[s]]]
  /\ term' = [term EXCEPT ![n] = IncrementTerm(n)]
  /\ sending' = [sending EXCEPT ![n] = IncrementTerm(n)]
  /\ UNCHANGED <<own, setting, checked, inbox, alive, net>>

\* Seeded fault: a node passes on what it heard from its peers.
MutOwnHealth(n) == view[n]

OwnHealth(n) == own[n]

\* The node's own findings go to every peer, under the term GetTerm has read since.
SendGossip(n) ==
  /\ n \in alive
  /\ sending[n] # NoTerm
  /\ Cardinality(net) < MaxNet
  /\ \E t \in sending[n] .. term[n] :
       net' = net \cup {[from |-> n, to |-> m, term |-> t, health |-> OwnHealth(n)]
                          : m \in Nodes \ {n}}
  /\ sending' = [sending EXCEPT ![n] = NoTerm]
  /\ UNCHANGED <<term, entries, setting, checked, inbox, alive>>

\* A datagram arrives, possibly not for the last time.  MergeGossip drops a message
\* behind the node's term ...
Receive(m) ==
  LET n == m.to IN
  /\ n \in alive
  /\ checked[n] \cup inbox[n] = {}
  /\ net' \in IF Reliable THEN {net \ {m}} ELSE {net, net \ {m}}
  /\ checked' = IF m.term < term[n] THEN checked ELSE [checked EXCEPT ![n] = {m}]
  /\ UNCHANGED <<term, entries, setting, sending, inbox, alive>>

\* ... under termMu catches up with its term ...
CatchUp(n) ==
  \E m \in checked[n] :
    /\ n \in alive
    /\ term' = [term EXCEPT ![n] = IF m.term > @ THEN m.term ELSE @]
    /\ inbox' = [inbox EXCEPT ![n] = {m}]
    /\ checked' = [checked EXCEPT ![n] = {}]
    /\ UNCHANGED <<entries, setting, sending, alive, net>>

\* Seeded fault: what a message says replaces what is held, older or not.
MutNewer(h, existing) == TRUE

Newer(h, existing) == existing = Unknown \/ h.term > existing.term

\* Seeded fault: any message of the peer keeps its findings, also what it no longer says.
MutRepeated(m, n) == {s \in Servers : origin[n][s] = m.from}

Repeated(m, n) == {s \in Servers : m.health[s] # Unknown /\ origin[n][s] = m.from}

\* ... and, under healthMu, adopts what is newer and restamps what is repeated.
MergeHealth(n) ==
  \E m \in inbox[n] :
    LET said == {s \in Servers : m.health[s] # Unknown}
        adopted == {s \in said : Newer(m.health[s], view[n][s])} IN
    /\ n \in alive
    /\ view' = [view EXCEPT ![n] = [s \in Servers |-> IF s \in adopted THEN m.health[s] ELSE @[s]]]
    /\ origin' = [origin EXCEPT ![n] = [s \in Servers |-> IF s \in adopted THEN m.from ELSE @[s]]]
    /\ heard' = [heard EXCEPT ![n] =
                   [s \in Servers |-> IF s \in adopted \cup Repeated(m, n) THEN 0 ELSE @[s]]]
    /\ inbox' = [inbox EXCEPT ![n] = {}]
    /\ UNCHANGED <<term, own, setting, sending, checked, alive, net>>

\* A datagram is lost, or finds nobody listening.
Lose(m) ==
  /\ ~Reliable \/ m.to \notin alive
  /\ net' = net \ {m}
  /\ UNCHANGED <<nodeVars, alive>>

Crash(n) ==
  /\ n \in alive \cap Crashing
  /\ alive' = alive \ {n}
  /\ term' = [term EXCEPT ![n] = 0]
  /\ view' = [view EXCEPT ![n] = Nothing]
  /\ own' = [own EXCEPT ![n] = Nothing]
  /\ origin' = [origin EXCEPT ![n] = [s \in Servers |-> Self]]
  /\ heard' = [heard EXCEPT ![n] = [s \in Servers |-> 0]]
  /\ setting' = [setting EXCEPT ![n] = Nothing]
  /\ sending' = [sending EXCEPT ![n] = NoTerm]
  /\ checked' = [checked EXCEPT ![n] = {}] /\ inbox' = [inbox EXCEPT ![n] = {}]
  /\ UNCHANGED net

\* NewNode and Start: a node that comes back starts over, at term 0.
Restart(n) ==
  /\ n \in Nodes \ alive
  /\ alive' = alive \cup {n}
  /\ UNCHANGED <<nodeVars, net>>

Tick ==
  /\ heard' = [n \in Nodes |-> [s \in Servers |->
                 IF origin[n][s] = Self \/ Stale(n, s) THEN heard[n][s] ELSE heard[n][s] + 1]]
  /\ UNCHANGED <<term, view, own, origin, setting, sending, checked, inbox, alive, net>>

Gossips(n) == StartRound(n) \/ SendGossip(n) \/ CatchUp(n) \/ MergeHealth(n)

Next ==
  \/ \E n \in Nodes :
       \/ \E s \in Servers : SetHealth(n, s) \/ EnterFinding(n, s)
       \/ Gossips(n) \/ Crash(n) \/ Restart(n)
  \/ \E m \in net : Receive(m) \/ Lose(m)
  \/ Tick

Spec == Init /\ [][Next]_vars

\* A datagram between two nodes is delivered for the last time, or lost.
Settles(n, m) ==
  \E d \in net : /\ d.from = n /\ d.to = m
                 /\ Receive(d) \/ Lose(d)
                 /\ d \notin net'

\* Rounds go on, calls return, time passes, and no datagram stays in the net for
\* ever.
FairSpec ==
  /\ Spec /\ WF_vars(Tick)
  /\ \A n \in Nodes :
       /\ WF_vars(StartRound(n)) /\ WF_vars(SendGossip(n)) /\ WF_vars(CatchUp(n)) /\ WF_vars(MergeHealth(n))
       /\ \A s \in Servers : WF_vars(EnterFinding(n, s))
       /\ \A m \in Nodes \ {n} : WF_vars(Settles(n, m))

\* Every node gets its messages through: sending may wait for room in the net, and
\* receiving for the message before, but not for ever.
ConnectedSpec ==
  /\ FairSpec
  /\ \A n \in Nodes : SF_vars(SendGossip(n)) /\ \A m \in Nodes \ {n} : SF_vars(Settles(n, m))

----------------------------------------------------------------------------
\* GetHealth with the node's own verdict on s, as engineHealthChecker asks it.
LocallyDown(n, s) == IF setting[n][s] # Unknown THEN setting[n][s].down ELSE own[n][s].down
Skipped(n, s) == LocallyDown(n, s) \/ (~Stale(n, s) /\ view[n][s].down)

\* SetHealth, MergeGossip and expireRemote write Health, own, origin and remoteAt
\* together: a node goes by its own finding, or by a peer's that is newer than
\* its own, whatever order messages, expiries and findings come in.
ViewExplained ==
  \A n \in Nodes, s \in Servers :
    IF origin[n][s] = Self
      THEN view[n][s] = own[n][s]
      ELSE /\ view[n][s] # Unknown
           /\ own[n][s] = Unknown \/ view[n][s].term > own[n][s].term

\* sendGossip sends ownHealth: what a node holds from a peer, that peer found
\* itself, before or after any restart of either.
OnlyFirstHand ==
  \A n \in Nodes, s \in Servers :
    origin[n][s] # Self => view[n][s].by = origin[n][s]

\* expireRemote and isStale: a server that no running node has a finding about
\* does not stay skipped by any, so a replica that went away leaves nothing.
NothingLeftBehind ==
  \A s \in Servers :
    []<>(\/ \E n \in alive : own[n][s] # Unknown \/ setting[n][s] # Unknown
         \/ \A n \in alive : ~Skipped(n, s))

----------------------------------------------------------------------------
\* docs/clustering.md:9: "a server that any replica cannot reach is skipped by
\* all of them".  A finding is adopted only if its term is newer, and a peer may
\* hold an entry of its own with a higher term than the finding's.
Propagates ==
  \A n, m \in Nodes, s \in Servers :
    []<>(\/ ~own[n][s].down
         \/ {n, m} \ alive # {}
         \/ Skipped(m, s))

\* internal/cluster/cluster.go:441: "restamp it so it does not expire while they are
\* alive and still reporting".  A report that arrives behind the node's term is
\* dropped before it can restamp anything.
ReportsCount ==
  [][\A d \in net, s \in Servers :
       Receive(d) /\ origin[d.to][s] = d.from /\ d.health[s] = view[d.to][s]
         => d \in checked'[d.to]]_vars
=============================================================================
