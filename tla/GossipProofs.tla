---------------------------- MODULE GossipProofs ---------------------------
(***************************************************************************)
(* Theorems about Gossip for every number of nodes, servers and datagrams  *)
(* on their way, in whatever order they arrive.                            *)
(***************************************************************************)
EXTENDS Gossip, TLAPS

\* A new term is a term, and not 0.
LEMMA NewTerm ==
  ASSUME TypeOK, NEW n \in Nodes
  PROVE  IncrementTerm(n) \in 1 .. MaxTerm
BY GossipAssumption DEF TypeOK, IncrementTerm

\* The maps of every node, its messages and the net stay within their types.
THEOREM TypeCorrect == Spec => []TypeOK
<1>1. Init => TypeOK
  BY GossipAssumption DEF Init, TypeOK, Nothing, Finding, Ages, NoTerm
<1>2. TypeOK /\ [Next]_vars => TypeOK'
  <2> SUFFICES ASSUME TypeOK, [Next]_vars
               PROVE  TypeOK'
    OBVIOUS
  <2> USE GossipAssumption
  <2>1. ASSUME NEW n \in Nodes, NEW s \in Servers, SetHealth(n, s)
        PROVE  TypeOK'
    <3>1. [down |-> ~own[n][s].down, term |-> IncrementTerm(n), by |-> n] \in Finding
      BY NewTerm DEF Finding, TypeOK
    <3>. QED
      BY <2>1, <3>1, NewTerm DEF SetHealth, TypeOK, entries
  <2>2. ASSUME NEW n \in Nodes, NEW s \in Servers, EnterFinding(n, s)
        PROVE  TypeOK'
    BY <2>2 DEF EnterFinding, TypeOK, Ages, Finding
  <2>3. ASSUME NEW n \in Nodes, StartRound(n)
        PROVE  TypeOK'
    BY <2>3, NewTerm DEF StartRound, TypeOK, FallBack, Ages
  <2>4. ASSUME NEW n \in Nodes, SendGossip(n)
        PROVE  TypeOK'
    <3>1. PICK t \in sending[n] .. term[n] :
            net' = net \cup {[from |-> n, to |-> m, term |-> t, health |-> OwnHealth(n)]
                               : m \in Nodes \ {n}}
      BY <2>4 DEF SendGossip
    <3>2. t \in 1 .. MaxTerm
      <4>1. sending[n] \in 1 .. MaxTerm /\ term[n] \in 0 .. MaxTerm
        BY <2>4, GossipAssumption DEF SendGossip, TypeOK, NoTerm
      <4>. QED  BY <3>1, <4>1, GossipAssumption
    <3>3. ASSUME NEW m \in Nodes
          PROVE  [from |-> n, to |-> m, term |-> t, health |-> OwnHealth(n)] \in Datagram
      BY <3>2 DEF TypeOK, Datagram, OwnHealth
    <3>4. net' \subseteq Datagram
      BY <3>1, <3>3 DEF TypeOK
    <3>. QED
      BY <2>4, <3>4 DEF SendGossip, TypeOK, NoTerm, entries
  <2>5. ASSUME NEW n \in Nodes, CatchUp(n)
        PROVE  TypeOK'
    BY <2>5 DEF CatchUp, TypeOK, Datagram, entries
  <2>6. ASSUME NEW n \in Nodes, MergeHealth(n)
        PROVE  TypeOK'
    BY <2>6 DEF MergeHealth, TypeOK, Datagram, Ages
  <2>7. ASSUME NEW n \in Nodes, Crash(n)
        PROVE  TypeOK'
    BY <2>7 DEF Crash, TypeOK, Nothing, Finding, Ages, NoTerm
  <2>8. ASSUME NEW n \in Nodes, Restart(n)
        PROVE  TypeOK'
    BY <2>8 DEF Restart, TypeOK, nodeVars, entries
  <2>9. ASSUME NEW m \in net, Receive(m)
        PROVE  TypeOK'
    BY <2>9 DEF Receive, TypeOK, Datagram, entries
  <2>10. ASSUME NEW m \in net, Lose(m)
         PROVE  TypeOK'
    BY <2>10 DEF Lose, TypeOK, nodeVars, entries
  <2>11. CASE Tick
    BY <2>11 DEF Tick, TypeOK, Stale, Ages
  <2>12. CASE UNCHANGED vars
    BY <2>12 DEF TypeOK, vars, nodeVars, entries
  <2>. QED
    BY <2>1, <2>2, <2>3, <2>4, <2>5, <2>6, <2>7, <2>8, <2>9, <2>10, <2>11, <2>12
    DEF Next, Gossips
<1>. QED
  BY <1>1, <1>2, PTL DEF Spec

----------------------------------------------------------------------------
\* Whatever a node found, is about to enter or has sent bears that node's label.
Signed(h, n) == h # Unknown => h.by = n

\* What OnlyFirstHand rests on: labels hold everywhere a finding passes through
\* on its way from one node's own map to another's view.
Labels ==
  /\ \A n \in Nodes, s \in Servers : Signed(own[n][s], n) /\ Signed(setting[n][s], n)
  /\ \A d \in net, s \in Servers : Signed(d.health[s], d.from)
  /\ \A n \in Nodes : \A d \in checked[n] \cup inbox[n] : \A s \in Servers : Signed(d.health[s], d.from)

\* The inductive invariant.  ViewExplained needs only TypeOK beside it.
Inv == TypeOK /\ ViewExplained /\ Labels /\ OnlyFirstHand

\* SetHealth, MergeGossip, expireRemote and sendGossip keep it in every interleaving,
\* across losses and restarts.
LEMMA Inductive == Spec => []Inv
<1>1. Init => Inv
  <2>1. Init => TypeOK
    BY GossipAssumption DEF Init, TypeOK, Nothing, Finding, Ages, NoTerm
  <2>2. Init => ViewExplained /\ Labels /\ OnlyFirstHand
    BY DEF Init, Nothing, ViewExplained, Labels, Signed, OnlyFirstHand
  <2>. QED
    BY <2>1, <2>2 DEF Inv
<1>2. ASSUME Inv, TypeOK', [Next]_vars
      PROVE  Inv'
  <2> USE GossipAssumption, <1>2 DEF Inv
  <2> SUFFICES ViewExplained' /\ Labels' /\ OnlyFirstHand'
    OBVIOUS
  <2>1. ASSUME NEW n \in Nodes, NEW s \in Servers, SetHealth(n, s)
        PROVE  ViewExplained' /\ Labels' /\ OnlyFirstHand'
    <3>1. ViewExplained' /\ OnlyFirstHand'
      BY <2>1 DEF SetHealth, entries, ViewExplained, OnlyFirstHand
    <3>2. Labels'
      BY <2>1 DEF SetHealth, entries, Labels, Signed, TypeOK
    <3>. QED
      BY <3>1, <3>2
  <2>2. ASSUME NEW n \in Nodes, NEW s \in Servers, EnterFinding(n, s)
        PROVE  ViewExplained' /\ Labels' /\ OnlyFirstHand'
    <3>1. ViewExplained'
      BY <2>2, SMTT(40) DEF EnterFinding, ViewExplained, TypeOK
    <3>2. Labels'
      BY <2>2, SMTT(40) DEF EnterFinding, Labels, Signed, TypeOK
    <3>3. OnlyFirstHand'
      BY <2>2 DEF EnterFinding, OnlyFirstHand, TypeOK
    <3>. QED
      BY <3>1, <3>2, <3>3
  <2>3. ASSUME NEW n \in Nodes, StartRound(n)
        PROVE  ViewExplained' /\ Labels' /\ OnlyFirstHand'
    <3>1. ViewExplained'
      BY <2>3 DEF StartRound, FallBack, ViewExplained, TypeOK
    <3>2. Labels'
      BY <2>3 DEF StartRound, Labels
    <3>3. OnlyFirstHand'
      BY <2>3 DEF StartRound, OnlyFirstHand, TypeOK
    <3>. QED
      BY <3>1, <3>2, <3>3
  <2>4. ASSUME NEW n \in Nodes, SendGossip(n)
        PROVE  ViewExplained' /\ Labels' /\ OnlyFirstHand'
    <3>1. ViewExplained' /\ OnlyFirstHand'
      BY <2>4 DEF SendGossip, entries, ViewExplained, OnlyFirstHand
    <3>2. Labels'
      BY <2>4 DEF SendGossip, OwnHealth, entries, Labels, Signed
    <3>. QED
      BY <3>1, <3>2
  <2>5. ASSUME NEW n \in Nodes, CatchUp(n)
        PROVE  ViewExplained' /\ Labels' /\ OnlyFirstHand'
    <3>1. ViewExplained' /\ OnlyFirstHand'
      BY <2>5 DEF CatchUp, entries, ViewExplained, OnlyFirstHand
    <3>2. Labels'
      BY <2>5 DEF CatchUp, entries, Labels, TypeOK
    <3>. QED
      BY <3>1, <3>2
  <2>6. ASSUME NEW n \in Nodes, MergeHealth(n)
        PROVE  ViewExplained' /\ Labels' /\ OnlyFirstHand'
    <3>1. PICK m \in inbox[n] : MergeHealth(n)!(m)
      BY <2>6 DEF MergeHealth
    <3>2. m \in Datagram
      BY DEF TypeOK
    <3>3. ViewExplained'
      <4> SUFFICES ASSUME NEW k \in Nodes, NEW s \in Servers
                   PROVE  ViewExplained!(k, s)'
        BY DEF ViewExplained
      <4>1. /\ view[k][s] \in Finding /\ own[k][s] \in Finding /\ m.health[s] \in Finding
            /\ m.from \in Nodes
        BY <3>2 DEF TypeOK, Datagram
      <4>2. CASE k = n /\ m.health[s] # Unknown /\ Newer(m.health[s], view[n][s])
        <5>1. view'[k][s] = m.health[s] /\ origin'[k][s] = m.from /\ own' = own
          BY <3>1, <4>2 DEF TypeOK
        <5>2. own[k][s] = Unknown \/ m.health[s].term > own[k][s].term
          <6>1. \A h \in Finding : h.term \in Nat
            BY DEF Finding, Unknown
          <6>2. IF origin[k][s] = Self
                  THEN view[k][s] = own[k][s]
                  ELSE view[k][s] # Unknown /\ (own[k][s] = Unknown \/ view[k][s].term > own[k][s].term)
            BY DEF ViewExplained
          <6>. QED
            BY <4>1, <4>2, <6>1, <6>2 DEF Newer
        <5>. QED
          BY <4>1, <4>2, <5>1, <5>2
      <4>3. CASE ~(k = n /\ m.health[s] # Unknown /\ Newer(m.health[s], view[n][s]))
        <5>1. view'[k][s] = view[k][s] /\ origin'[k][s] = origin[k][s] /\ own' = own
          BY <3>1, <4>3, SMTT(40) DEF TypeOK
        <5>. QED
          BY <5>1 DEF ViewExplained
      <4>. QED
        BY <4>2, <4>3
    <3>4. Labels'
      BY <3>1, SMTT(40) DEF Labels, TypeOK
    <3>5. OnlyFirstHand'
      BY <3>1, <3>2, ZenonT(60) DEF OnlyFirstHand, Labels, Signed, TypeOK, Datagram
    <3>. QED
      BY <3>3, <3>4, <3>5, SMTT(40)
  <2>7. ASSUME NEW n \in Nodes, Crash(n)
        PROVE  ViewExplained' /\ Labels' /\ OnlyFirstHand'
    BY <2>7, SMTT(40) DEF Crash, Nothing, ViewExplained, Labels, Signed, OnlyFirstHand, TypeOK
  <2>8. ASSUME NEW n \in Nodes, Restart(n)
        PROVE  ViewExplained' /\ Labels' /\ OnlyFirstHand'
    BY <2>8 DEF Restart, nodeVars, entries, ViewExplained, Labels, OnlyFirstHand
  <2>9. ASSUME NEW m \in net, Receive(m)
        PROVE  ViewExplained' /\ Labels' /\ OnlyFirstHand'
    <3>1. ViewExplained' /\ OnlyFirstHand'
      BY <2>9 DEF Receive, entries, ViewExplained, OnlyFirstHand
    <3>2. Labels'
      BY <2>9, SMTT(40) DEF Receive, entries, Labels, TypeOK
    <3>. QED
      BY <3>1, <3>2
  <2>10. ASSUME NEW m \in net, Lose(m)
         PROVE  ViewExplained' /\ Labels' /\ OnlyFirstHand'
    BY <2>10 DEF Lose, nodeVars, entries, ViewExplained, Labels, OnlyFirstHand
  <2>11. ASSUME Tick
         PROVE  ViewExplained' /\ Labels' /\ OnlyFirstHand'
    BY <2>11, SMTT(40) DEF Tick, ViewExplained, Labels, OnlyFirstHand
  <2>12. ASSUME UNCHANGED vars
         PROVE  ViewExplained' /\ Labels' /\ OnlyFirstHand'
    BY <2>12 DEF vars, nodeVars, entries, ViewExplained, Labels, OnlyFirstHand
  <2>. QED
    BY <2>1, <2>2, <2>3, <2>4, <2>5, <2>6, <2>7, <2>8, <2>9, <2>10, <2>11, <2>12
    DEF Next, Gossips
<1>. QED
  BY <1>1, <1>2, TypeCorrect, PTL DEF Spec

\* A node goes by its own finding or by a newer one of a peer (cluster.go SetHealth,
\* MergeGossip and expireRemote), across losses and restarts.
THEOREM ViewsAreExplained == Spec => []ViewExplained
<1>1. Inv => ViewExplained
  BY DEF Inv
<1>. QED
  BY <1>1, Inductive, PTL

\* What a node holds from a peer, that peer found itself (cluster.go sendGossip sends
\* ownHealth), before or after any restart of either.
THEOREM NothingSecondHand == Spec => []OnlyFirstHand
<1>1. Inv => OnlyFirstHand
  BY DEF Inv
<1>. QED
  BY <1>1, Inductive, PTL
=============================================================================
