---------------------------- MODULE RuntimeProofs --------------------------
(***************************************************************************)
(* Theorems about Runtime for every set of servers, every config file and  *)
(* discovery source, every probe setting and every interleaving of the two *)
(* rebuilders with the probe loops.                                        *)
(***************************************************************************)
EXTENDS Runtime, TLAPS, FiniteSetTheorems, SequenceTheorems

\* SetToSeq lists a finite set: an injection from as many numbers exists.
LEMMA Listed ==
  ASSUME NEW S, IsFiniteSet(S)
  PROVE  SetToSeq(S) \in [1 .. Cardinality(S) -> S] /\ IsInjective(SetToSeq(S))
<1>1. PICK n \in Nat : ExistsBijection(1 .. n, S)
  BY FS_NatBijection
<1>2. Cardinality(S) = n
  BY <1>1, FS_CountingElements
<1>3. \E f \in [1 .. Cardinality(S) -> S] : IsInjective(f)
  BY <1>1, <1>2 DEF ExistsBijection, Bijection, Injection
<1>. QED
  BY <1>3 DEF SetToSeq

LEMMA RangeIsFinite ==
  ASSUME NEW S, NEW q \in Seq(S)
  PROVE  IsFiniteSet(Range(q)) /\ Range(q) \subseteq S
<1>1. Len(q) \in Nat /\ q \in [1 .. Len(q) -> S] /\ DOMAIN q = 1 .. Len(q)
  BY LenProperties
<1>2. q \in Surjection(1 .. Len(q), Range(q))
  BY <1>1 DEF Surjection, Range
<1>3. IsFiniteSet(1 .. Len(q))
  BY <1>1, FS_Interval
<1>. QED
  BY <1>1, <1>2, <1>3, FS_Surjection, SMTT(40) DEF Range

\* Whatever a provider answers, a lookup returns a list of servers.
LEMMA DiscoverType ==
  ASSUME NEW a \in Seq(Servers)
  PROVE  Discover(a) \in Seq(Servers)
<1>1. IsFiniteSet(Range(a)) /\ Range(a) \subseteq Servers
  BY RangeIsFinite
<1>2. SetToSeq(Range(a)) \in [1 .. Cardinality(Range(a)) -> Range(a)] /\ Cardinality(Range(a)) \in Nat
  BY <1>1, Listed, FS_CardinalityType, SMTT(40)
<1>3. SetToSeq(Range(a)) \in [1 .. Cardinality(Range(a)) -> Servers]
  BY <1>1, <1>2
<1>4. SetToSeq(Range(a)) \in Seq(Servers)
  BY <1>2, <1>3, SeqDef, SMTT(40)
<1>. QED
  BY <1>4 DEF Discover

LEMMA ListsType == Lists \subseteq Seq(Servers)
BY DiscoverType, RuntimeAssumption DEF Lists

LEMMA NamesServers ==
  ASSUME TypeOK
  PROVE  /\ discovered \in Seq(Servers) /\ last \in Seq(Servers)
         /\ Range(discovered) \subseteq Servers
<1>1. discovered \in Seq(Servers) /\ last \in Seq(Servers)
  BY ListsType, FoundAssumption, EmptySeq DEF TypeOK
<1>. QED
  BY <1>1, RangeIsFinite

LEMMA LoopFields ==
  ASSUME NEW l \in Loop
  PROVE  /\ l.at \in {"off", "wait", "probe", "tell"} /\ l.ok \in 0 .. HealthyThreshold
         /\ l.fail \in 0 .. UnhealthyThreshold /\ l.healthy \in BOOLEAN /\ l.timer \in 0 .. Interval
BY DEF Loop

LEMMA LoopTimed ==
  ASSUME NEW l \in Loop, NEW a \in {"off", "wait", "probe", "tell"}, NEW t \in 0 .. Interval
  PROVE  /\ [l EXCEPT !.at = a, !.timer = t] \in Loop
         /\ [l EXCEPT !.at = a] \in Loop
         /\ [l EXCEPT !.timer = t] \in Loop
BY DEF Loop

LEMMA LoopStarted ==
  ASSUME NEW l \in Loop
  PROVE  /\ [l EXCEPT !.at = "probe", !.timer = 0] \in Loop
         /\ [l EXCEPT !.at = "probe", !.timer = 0].at = "probe"
         /\ [l EXCEPT !.at = "probe", !.timer = 0].timer = 0
<1>1. 0 \in 0 .. Interval /\ "probe" \in {"off", "wait", "probe", "tell"}
  BY RuntimeAssumption
<1>2. /\ [l EXCEPT !.at = "probe", !.timer = 0].at = "probe"
      /\ [l EXCEPT !.at = "probe", !.timer = 0].timer = 0
  BY DEF Loop
<1>. QED
  BY <1>1, <1>2, LoopTimed

\* A cancelled loop one tick later.
Later(t) == <<t[1], [t[2] EXCEPT !.timer = @ + 1]>>

LEMMA LaterFields ==
  ASSUME NEW t, t[2] \in Loop
  PROVE  /\ Later(t)[1] = t[1] /\ Later(t)[2].timer = t[2].timer + 1
         /\ Later(t)[2].at = t[2].at
BY DEF Loop, Later

LEMMA LoopJudged ==
  ASSUME NEW l \in Loop, NEW k \in 0 .. HealthyThreshold, NEW f \in 0 .. UnhealthyThreshold,
         NEW h \in BOOLEAN
  PROVE  /\ [l EXCEPT !.ok = k, !.fail = f, !.healthy = h] \in Loop
         /\ [l EXCEPT !.fail = f, !.ok = k, !.healthy = h] \in Loop
BY ZenonT(60) DEF Loop

\* A loop goes on at "tell" exactly when its verdict has changed.
LEMMA LoopPlaced ==
  ASSUME NEW l \in Loop, NEW now \in Loop
  PROVE  /\ Placed(l, now) \in Loop
         /\ Placed(l, now).timer = now.timer /\ Placed(l, now).healthy = now.healthy
         /\ Placed(l, now).at \in {"wait", "tell"}
         /\ Placed(l, now).at = "tell" <=> now.healthy # l.healthy
<1>1. Placed(l, now) \in Loop
  <2>1. CASE now.healthy = l.healthy
    BY <2>1, Zenon, LoopTimed, LoopFields DEF Placed
  <2>2. CASE now.healthy # l.healthy
    BY <2>2, Zenon, LoopTimed, LoopFields DEF Placed
  <2>. QED
    BY <2>1, <2>2
<1>. QED
  BY <1>1 DEF Placed, Loop

LEMMA NewLoops == Off \in Loop /\ Fresh \in Loop
<1>1. 0 \in 0 .. HealthyThreshold /\ 0 \in 0 .. UnhealthyThreshold /\ 0 \in 0 .. Interval
  BY RuntimeAssumption
<1>. QED
  BY <1>1, Zenon DEF Loop, Off, Fresh

LEMMA ProbeType ==
  ASSUME NEW l \in Loop, NEW ok \in BOOLEAN
  PROVE  LET after == AfterProbe(l, ok) IN
         /\ after \in Loop /\ after.timer = l.timer
         /\ after.at \in {"wait", "tell"}
         /\ after.at = "tell" <=> after.healthy # l.healthy
<1> DEFINE more(n, threshold) == IF n < threshold THEN n + 1 ELSE n
<1>1. /\ 0 \in 0 .. HealthyThreshold /\ 0 \in 0 .. UnhealthyThreshold
      /\ more(l.ok, HealthyThreshold) \in 0 .. HealthyThreshold
      /\ more(l.fail, UnhealthyThreshold) \in 0 .. UnhealthyThreshold
  BY LoopFields, RuntimeAssumption
<1>2. /\ (l.healthy \/ more(l.ok, HealthyThreshold) = HealthyThreshold) \in BOOLEAN
      /\ (l.healthy /\ more(l.fail, UnhealthyThreshold) < UnhealthyThreshold) \in BOOLEAN
  OBVIOUS
<1> DEFINE judged(k, f, h) == [l EXCEPT !.ok = k, !.fail = f, !.healthy = h]
           judgedToo(k, f, h) == [l EXCEPT !.fail = f, !.ok = k, !.healthy = h]
<1>3. \A k \in 0 .. HealthyThreshold, f \in 0 .. UnhealthyThreshold, h \in BOOLEAN :
        /\ judged(k, f, h) \in Loop /\ judgedToo(k, f, h) \in Loop
        /\ judged(k, f, h).timer = l.timer /\ judgedToo(k, f, h).timer = l.timer
  <2>1. \A k, f, h : judged(k, f, h).timer = l.timer /\ judgedToo(k, f, h).timer = l.timer
    BY DEF Loop
  <2>. QED
    BY <2>1, LoopJudged
<1>4. PICK now \in Loop : AfterProbe(l, ok) = Placed(l, now) /\ now.timer = l.timer
  <2>1. CASE ok
    <3>1. AfterProbe(l, ok) =
            Placed(l, judged(more(l.ok, HealthyThreshold), 0,
                             l.healthy \/ more(l.ok, HealthyThreshold) = HealthyThreshold))
      BY <2>1, Zenon DEF AfterProbe
    <3> HIDE DEF more, judged, judgedToo
    <3>. QED
      BY <1>1, <1>2, <1>3, <3>1, ZenonT(60)
  <2>2. CASE ~ok
    <3>1. AfterProbe(l, ok) =
            Placed(l, judgedToo(0, more(l.fail, UnhealthyThreshold),
                                l.healthy /\ more(l.fail, UnhealthyThreshold) < UnhealthyThreshold))
      BY <2>2, Zenon DEF AfterProbe
    <3> HIDE DEF more, judged, judgedToo
    <3>. QED
      BY <1>1, <1>2, <1>3, <3>1, ZenonT(60)
  <2>. QED
    BY <2>1, <2>2
<1>. QED
  BY <1>4, LoopPlaced

\* Where each rebuilder is says who holds r.mu.
Critical == {"seed", "publish", "prune", "start"}
Mutex == \A p \in Rebuilders : mu = p <=> pc[p] \in Critical

LEMMA WriteType ==
  ASSUME TypeOK, NEW s \in Servers, NEW l, WriteVerdict(s, l)
  PROVE  health' \in [Servers -> {"unset", "up", "down"}]
BY DEF WriteVerdict, Verdict, TypeOK

\* The probe loops and everything the two rebuilders share stay within their types.
THEOREM TypeCorrect == Spec => []TypeOK
<1> USE RuntimeAssumption
<1>1. Init => TypeOK
  BY FoundAssumption, SMTT(40) DEF Init, TypeOK, Rebuilders, Off, Loop
<1>2. ASSUME TypeOK, [Next]_vars
      PROVE  TypeOK'
  <2> USE <1>2
  <2>1. ASSUME Reload, pollTimer' \in 0 .. PollEvery
        PROVE  TypeOK'
    BY <2>1 DEF Reload, probeVars, TypeOK, Rebuilders
  <2>2. CASE Sighup \/ PollFile
    BY <2>1, <2>2, SMTT(40) DEF Sighup, PollFile, TypeOK
  <2>3. CASE Lookup
    BY <2>3 DEF Lookup, probeVars, TypeOK, Rebuilders
  <2>4. CASE Report
    BY <2>4 DEF Report, Kept, probeVars, TypeOK, Rebuilders
  <2>5. CASE LoadConfig
    BY <2>5 DEF LoadConfig, sources, probeVars, TypeOK, Rebuilders
  <2>6. ASSUME NEW p \in Rebuilders, Lock(p)
        PROVE  TypeOK'
    <3>1. Merged(p) \subseteq Servers
      BY NamesServers DEF Merged, TypeOK
    <3>. QED
      BY <2>6, <3>1, SMTT(40) DEF Lock, sources, probeVars, TypeOK, Rebuilders
  <2>7. ASSUME NEW p \in Rebuilders, Seed(p)
        PROVE  TypeOK'
    BY <2>7 DEF Seed, sources, TypeOK, Rebuilders
  <2>8. ASSUME NEW p \in Rebuilders, Publish(p)
        PROVE  TypeOK'
    <3>1. loop' \in [Servers -> Loop]
      BY <2>8, NewLoops DEF Publish, StopScheduler
    <3>2. late' \subseteq Servers \X Cancelled
      <4>1. \A s \in Servers : /\ loop[s].at \in {"probe", "tell"} => loop[s] \in Cancelled
                               /\ [loop[s] EXCEPT !.at = "probe", !.timer = 0] \in Cancelled
        <5>1. \A s \in Servers : /\ loop[s] \in Loop
                                 /\ [loop[s] EXCEPT !.at = "probe", !.timer = 0] \in Loop
                                 /\ [loop[s] EXCEPT !.at = "probe", !.timer = 0].at = "probe"
          BY LoopStarted DEF TypeOK
        <5>. QED
          BY <5>1, Zenon DEF Cancelled
      <4>2. \A t \in late' : t \in late \/ \E s \in Servers :
              \/ t = <<s, loop[s]>> /\ loop[s].at \in {"probe", "tell"}
              \/ t = <<s, [loop[s] EXCEPT !.at = "probe", !.timer = 0]>>
        BY <2>8, Zenon DEF Publish, StopScheduler
      <4>3. ASSUME NEW t \in late'
            PROVE  t \in Servers \X Cancelled
        <5>1. CASE t \in late
          BY <5>1 DEF TypeOK
        <5>2. ASSUME NEW s \in Servers, NEW l \in Cancelled, t = <<s, l>>
              PROVE  t \in Servers \X Cancelled
          BY <5>2
        <5>3. CASE t \notin late
          <6>1. PICK s \in Servers :
                  \/ t = <<s, loop[s]>> /\ loop[s].at \in {"probe", "tell"}
                  \/ t = <<s, [loop[s] EXCEPT !.at = "probe", !.timer = 0]>>
            BY <4>2, <5>3, Zenon
          <6>. QED
            BY <4>1, <5>2, <6>1, Zenon
        <5>. QED
          BY <5>1, <5>3
      <4>. QED
        BY <4>3, SMTT(40)
    <3>. QED
      BY <2>8, <3>1, <3>2, SMTT(40) DEF Publish, sources, TypeOK, Rebuilders
  <2>9. ASSUME NEW p \in Rebuilders, Prune(p)
        PROVE  TypeOK'
    BY <2>9, SMTT(40) DEF Prune, sources, TypeOK, Rebuilders
  <2>10. ASSUME NEW p \in Rebuilders, StartScheduler(p)
         PROVE  TypeOK'
    <3>1. loop' \in [Servers -> Loop]
      BY <2>10, NewLoops, SMTT(40) DEF StartScheduler, TypeOK
    <3>. QED
      BY <2>10, <3>1, SMTT(40) DEF StartScheduler, sources, TypeOK, Rebuilders
  <2>11. ASSUME NEW s \in Servers, StartProbe(s)
         PROVE  TypeOK'
    <3>1. loop' \in [Servers -> Loop]
      <4>1. loop[s] \in Loop /\ [loop[s] EXCEPT !.at = "probe", !.timer = 0] \in Loop
        BY LoopStarted DEF TypeOK
      <4>2. loop' = [loop EXCEPT ![s] = [loop[s] EXCEPT !.at = "probe", !.timer = 0]]
        BY <2>11, <4>1 DEF StartProbe, TypeOK
      <4>. QED
        BY <4>1, <4>2, SMTT(40) DEF TypeOK
    <3>. QED
      BY <2>11, <3>1, SMTT(40) DEF StartProbe, sources, rebuildVars, TypeOK
  <2>12. ASSUME NEW s \in Servers, EndProbe(s)
         PROVE  TypeOK'
    <3>1. loop' \in [Servers -> Loop]
      <4>1. AfterProbe(loop[s], s \in up) \in Loop
        <5>1. loop[s] \in Loop /\ (s \in up) \in BOOLEAN
          BY DEF TypeOK
        <5>. QED
          BY <5>1, ProbeType
      <4>. QED
        BY <2>12, <4>1 DEF EndProbe, TypeOK
    <3>2. health' \in [Servers -> {"unset", "up", "down"}]
      BY <2>12, WriteType DEF EndProbe
    <3>. QED
      BY <2>12, <3>1, <3>2 DEF EndProbe, sources, rebuildVars, TypeOK
  <2>17. ASSUME NEW s \in Servers, Tell(s)
         PROVE  TypeOK'
    <3>1. [loop[s] EXCEPT !.at = "wait"] \in Loop
      <4>1. loop[s] \in Loop
        BY DEF TypeOK
      <4>2. loop[s].timer \in 0 .. Interval /\ "wait" \in {"off", "wait", "probe", "tell"}
        BY <4>1, LoopFields
      <4>. QED
        BY <4>1, <4>2, Zenon, LoopTimed
    <3>2. loop' \in [Servers -> Loop]
      BY <2>17, <3>1, SMTT(40) DEF Tell, TypeOK
    <3>. QED
      BY <2>17, <3>2, SMTT(40) DEF Tell, Verdict, sources, rebuildVars, TypeOK
  <2>13. ASSUME NEW t \in late, EndLateProbe(t[1], t[2])
         PROVE  TypeOK'
    <3>1. t[1] \in Servers /\ t[2] \in Loop
      BY DEF TypeOK, Cancelled
    <3> DEFINE after == AfterProbe(t[2], t[1] \in up)
    <3>2. after \in Loop
      <4>1. (t[1] \in up) \in BOOLEAN
        OBVIOUS
      <4>. QED
        BY <3>1, <4>1, ProbeType
    <3> HIDE DEF after
    <3>3. late' \subseteq late \/ (after.at = "tell" /\ late' \subseteq late \cup {<<t[1], after>>})
      BY <2>13 DEF EndLateProbe, after
    <3>4. late' \subseteq Servers \X Cancelled
      BY <3>1, <3>2, <3>3 DEF TypeOK, Cancelled
    <3>5. health' \in [Servers -> {"unset", "up", "down"}]
      BY <2>13, <3>1, WriteType, SMTT(40) DEF EndLateProbe
    <3>. QED
      BY <2>13, <3>4, <3>5 DEF EndLateProbe, sources, rebuildVars, TypeOK
  <2>18. ASSUME NEW t \in late, TellLate(t[1], t[2])
         PROVE  TypeOK'
    <3>1. t[1] \in Servers /\ late' \subseteq late
      BY <2>18 DEF TellLate, TypeOK
    <3>. QED
      BY <2>18, <3>1, SMTT(40) DEF TellLate, Verdict, sources, rebuildVars, TypeOK
  <2>14. ASSUME NEW s \in Servers, Flip(s)
         PROVE  TypeOK'
    BY <2>14, SMTT(40) DEF Flip, sources, rebuildVars, probeVars, TypeOK
  <2>15. CASE Tick
    <3>1. loop' \in [Servers -> Loop]
      <4>1. ASSUME NEW s \in Servers, loop[s].at # "off"
            PROVE  [loop[s] EXCEPT !.timer = @ + 1] \in Loop
        <5>1. loop[s] \in Loop /\ loop[s].at \in {"wait", "probe", "tell"} /\ loop[s].timer \in 0 .. Interval
          BY <4>1, LoopFields, SMTT(40) DEF TypeOK
        <5>2. loop[s].timer + 1 \in 0 .. Interval
          BY <2>15, <5>1, SMTT(40) DEF Tick, Overdue
        <5>. QED
          BY <5>1, <5>2, LoopTimed, ZenonT(60)
      <4>. QED
        BY <2>15, <4>1, SMTT(40) DEF Tick, TypeOK
    <3>2. late' \subseteq Servers \X Cancelled
      <4>1. ASSUME NEW t \in late
            PROVE  <<t[1], [t[2] EXCEPT !.timer = @ + 1]>> \in Servers \X Cancelled
        <5>1. t[1] \in Servers /\ t[2] \in Loop /\ t[2].at \in {"probe", "tell"}
          BY DEF TypeOK, Cancelled
        <5>2. t[2].timer + 1 \in 0 .. Interval
          BY <2>15, <5>1, LoopFields, SMTT(40) DEF Tick, Overdue
        <5>3. [t[2] EXCEPT !.timer = @ + 1] \in Loop
          BY <5>1, <5>2, LoopTimed, ZenonT(60)
        <5>4. [t[2] EXCEPT !.timer = @ + 1].at = t[2].at
          BY <5>1 DEF Loop
        <5>. QED
          BY <5>1, <5>3, <5>4 DEF Cancelled
      <4>. QED
        BY <2>15, <4>1, SMTT(40) DEF Tick
    <3>3. pollTimer' \in 0 .. PollEvery
      BY <2>15, SMTT(40) DEF Tick, PollDue, TypeOK
    <3>. QED
      BY <2>15, <3>1, <3>2, <3>3, SMTT(40) DEF Tick, sources, rebuildVars, TypeOK
  <2>16. CASE UNCHANGED vars
    BY <2>16, SMTT(40) DEF vars, sources, rebuildVars, probeVars, TypeOK
  <2>. QED
    BY SMTT(40), <2>2, <2>3, <2>4, <2>5, <2>6, <2>7, <2>8, <2>9, <2>10, <2>11, <2>12, <2>13, <2>14,
       <2>15, <2>16, <2>17, <2>18
    DEF Next, Rebuild, Probing, EndLate
<1>. QED
  BY <1>1, <1>2, PTL DEF Spec

----------------------------------------------------------------------------
Probed == {s \in Servers : loop[s].at # "off"}
Covered == Probed = IF HealthEnabled THEN pool ELSE {}

\* What holds at each point of a rebuild: until the generation is published the
\* probes are those of the old pool, then there are none; the new pool is not
\* empty.
RebuildInv ==
  /\ Mutex
  /\ mu # "free" => urls # {}
  /\ mu = "free" => Covered
  /\ \A p \in Rebuilders : pc[p] \in {"seed", "publish"} => Covered
  /\ \A p \in Rebuilders : pc[p] \in {"prune", "start"} => pool = urls /\ Probed = {}

LEMMA RebuildInductive ==
  ASSUME TypeOK, TypeOK', RebuildInv, [Next]_vars
  PROVE  RebuildInv' /\ (pool' = pool \/ pool' # {})
<1> USE DEF Rebuilders, Critical
<1>1. ASSUME Reload
      PROVE  RebuildInv' /\ pool' = pool
  BY <1>1 DEF Reload, probeVars, TypeOK, RebuildInv, Mutex, Covered, Probed
<1>2. CASE Sighup \/ PollFile
  BY <1>1, <1>2, SMTT(40) DEF Sighup, PollFile
<1>3. CASE Lookup
  BY <1>3, SMTT(40) DEF Lookup, probeVars, TypeOK, RebuildInv, Mutex, Covered, Probed
<1>4. CASE Report
  BY <1>4, SMTT(40) DEF Report, probeVars, TypeOK, RebuildInv, Mutex, Covered, Probed
<1>5. CASE LoadConfig
  BY <1>5, SMTT(40) DEF LoadConfig, probeVars, TypeOK, RebuildInv, Mutex, Covered, Probed
<1>6. ASSUME NEW p \in Rebuilders, Lock(p)
      PROVE  RebuildInv' /\ pool' = pool
  BY <1>6, SMTT(40) DEF Lock, Usable, probeVars, TypeOK, RebuildInv, Mutex, Covered, Probed
<1>7. ASSUME NEW p \in Rebuilders, Seed(p)
      PROVE  RebuildInv' /\ pool' = pool
  BY <1>7, SMTT(40) DEF Seed, TypeOK, RebuildInv, Mutex, Covered, Probed
<1>8. ASSUME NEW p \in Rebuilders, Publish(p)
      PROVE  RebuildInv' /\ pool' # {}
  <2>1. Probed' = {}
    BY <1>8, ZenonT(60) DEF Publish, StopScheduler, Off, Probed
  <2>. QED
    BY <1>8, <2>1, SMTT(40) DEF Publish, TypeOK, RebuildInv, Mutex
<1>9. ASSUME NEW p \in Rebuilders, Prune(p)
      PROVE  RebuildInv' /\ pool' = pool
  BY <1>9, SMTT(40) DEF Prune, TypeOK, RebuildInv, Mutex, Covered, Probed
<1>10. ASSUME NEW p \in Rebuilders, StartScheduler(p)
       PROVE  RebuildInv' /\ pool' = pool
  <2>1. pool = urls /\ Probed = {} /\ pool' = pool
    BY <1>10 DEF StartScheduler, RebuildInv
  <2>2. Covered'
    <3>1. CASE HealthEnabled
      BY <1>10, <2>1, <3>1, SMTT(40) DEF StartScheduler, Fresh, Off, Covered, Probed, TypeOK
    <3>2. CASE ~HealthEnabled
      BY <1>10, <2>1, <3>2, SMTT(40) DEF StartScheduler, Covered, Probed
    <3>. QED
      BY <3>1, <3>2, SMTT(40)
  <2>. QED
    BY <1>10, <2>1, <2>2, SMTT(40) DEF StartScheduler, TypeOK, RebuildInv, Mutex
<1>11. ASSUME Probed' = Probed, UNCHANGED <<mu, pc, urls, pool>>
       PROVE  RebuildInv' /\ pool' = pool
  BY <1>11 DEF RebuildInv, Mutex, Covered
<1>12. ASSUME NEW s \in Servers, StartProbe(s)
       PROVE  RebuildInv' /\ pool' = pool
  <2>1. Probed' = Probed
    BY <1>12 DEF StartProbe, Probed, TypeOK, Loop
  <2>. QED
    BY <1>11, <1>12, <2>1, SMTT(40) DEF StartProbe, rebuildVars
<1>13. ASSUME NEW s \in Servers, EndProbe(s)
       PROVE  RebuildInv' /\ pool' = pool
  <2>1. AfterProbe(loop[s], s \in up).at \in {"wait", "tell"}
    <3>1. loop[s] \in Loop /\ (s \in up) \in BOOLEAN
      BY DEF TypeOK
    <3>. QED
      BY <3>1, ProbeType
  <2>2. Probed' = Probed
    BY <1>13, <2>1, SMTT(40) DEF EndProbe, Probed, TypeOK
  <2>. QED
    BY <1>11, <1>13, <2>2, SMTT(40) DEF EndProbe, rebuildVars
<1>19. ASSUME NEW s \in Servers, Tell(s)
       PROVE  RebuildInv' /\ pool' = pool
  <2>1. Probed' = Probed
    BY <1>19 DEF Tell, Probed, TypeOK, Loop
  <2>. QED
    BY <1>11, <1>19, <2>1, SMTT(40) DEF Tell, rebuildVars
<1>14. CASE Tick
  <2>1. Probed' = Probed
    BY <1>14 DEF Tick, Probed, TypeOK, Loop
  <2>. QED
    BY <1>11, <1>14, <2>1, SMTT(40) DEF Tick, rebuildVars
<1>15. ASSUME UNCHANGED <<mu, pc, urls, pool, loop>>
       PROVE  RebuildInv' /\ pool' = pool
  BY <1>11, <1>15, SMTT(40) DEF Probed
<1>16. ASSUME NEW t \in late, EndLateProbe(t[1], t[2]) \/ TellLate(t[1], t[2])
       PROVE  RebuildInv' /\ pool' = pool
  BY <1>15, <1>16, SMTT(40) DEF EndLateProbe, TellLate, rebuildVars
<1>17. ASSUME NEW s \in Servers, Flip(s)
       PROVE  RebuildInv' /\ pool' = pool
  BY <1>15, <1>17, SMTT(40) DEF Flip, rebuildVars, probeVars
<1>18. CASE UNCHANGED vars
  BY <1>15, <1>18, SMTT(40) DEF vars, rebuildVars, probeVars
<1>. QED
  BY SMTT(40), <1>2, <1>3, <1>4, <1>5, <1>6, <1>7, <1>8, <1>9, <1>10, <1>12, <1>13, <1>14, <1>16,
     <1>17, <1>18, <1>19
  DEF Next, Rebuild, Probing, EndLate

LEMMA AlwaysRebuildInv == Spec => []RebuildInv
<1>1. Init => RebuildInv
  BY DEF Init, RebuildInv, Mutex, Rebuilders, Critical, Covered, Probed, Off
<1>2. RebuildInv /\ TypeOK /\ TypeOK' /\ [Next]_vars => RebuildInv'
  BY RebuildInductive
<1>. QED
  BY <1>1, <1>2, TypeCorrect, PTL DEF Spec

\* Between rebuilds exactly the servers of the pool are probed (cli/engine.go
\* rebuild, stopScheduler, startScheduler), whoever rebuilt it and whatever the
\* cancelled loops still do.
THEOREM ProbesFollowPool == Spec => []ProbesCoverPool
<1>1. RebuildInv => ProbesCoverPool
  BY DEF RebuildInv, ProbesCoverPool, Covered, Probed
<1>. QED
  BY <1>1, AlwaysRebuildInv, PTL

\* No sequence of config files and discovery answers empties a pool that is
\* serving (cli/engine.go rebuild's early return).
THEOREM PoolStays == Spec => NeverEmptied
<1>1. RebuildInv /\ TypeOK /\ TypeOK' /\ [Next]_vars => [pool # {} => pool' # {}]_vars
  BY RebuildInductive, SMTT(40) DEF vars
<1>. QED
  BY <1>1, AlwaysRebuildInv, TypeCorrect, PTL DEF Spec, NeverEmptied

----------------------------------------------------------------------------
\* The loop that took over from a cancelled one has not probed yet, and is due
\* only when the cancelled one has timed out.
TookOver(s, l) ==
  loop[s].at \in {"off", "wait"} /\ loop[s].healthy /\ loop[s].timer <= l.timer

\* A server has at most one cancelled loop, and it is over before its successor
\* starts to probe.
LateInv ==
  /\ \A s \in Servers : loop[s].at \in {"probe", "tell"} => loop[s].timer <= ProbeTimeout
  /\ \A t \in late : t[2].timer <= ProbeTimeout /\ TookOver(t[1], t[2])
  /\ \A t, u \in late : t[1] = u[1] => t = u

\* The conjuncts of VerdictsStand as the steps preserve them: nobody is about to
\* tell the gauge "down" of a server the health map says is up.
VerdictInv ==
  /\ \A s \in Servers : loop[s].at # "off" /\ ~loop[s].healthy => health[s] = "down"
  /\ \A s \in Servers : loop[s].at \in {"wait", "probe"} /\ ~loop[s].healthy =>
       gauge[s] = "down" \/ \E p \in Rebuilders : pc[p] = "publish"
  /\ \A s \in Servers : gauge[s] = "down" /\ health[s] = "up" =>
       TellsUp(loop[s]) \/ \E t \in late : t[1] = s /\ TellsUp(t[2])
  /\ \A t \in late : t[2].at = "tell" /\ ~t[2].healthy => health[t[1]] # "up"

LEMMA LateFields ==
  ASSUME TypeOK
  PROVE  \A t \in late : /\ t = <<t[1], t[2]>> /\ t[1] \in Servers /\ t[2] \in Loop
                         /\ t[2].at \in {"probe", "tell"} /\ t[2].timer \in 0 .. Interval
BY DEF TypeOK, Cancelled, Loop

\* A due loop has no cancelled predecessor left: that one timed out before.
LEMMA DueIsAlone ==
  ASSUME TypeOK, LateInv, NEW s \in Servers,
         (loop[s].at # "wait" /\ loop[s].at # "off") \/ loop[s].timer = Interval
  PROVE  \A t \in late : t[1] # s
<1>1. \A t \in late : t[2].timer \in 0 .. Interval
  BY LateFields
<1>. QED
  BY <1>1, RuntimeAssumption, SMTT(40) DEF LateInv, TookOver

Reports(s) == loop[s].at \in {"probe", "tell"}
IsDue(s) == loop[s].at = "wait" /\ loop[s].timer = Interval

\* What is left of the loop of s when its scheduler is stopped.
Left(s) ==
  IF Reports(s) THEN <<s, loop[s]>> ELSE <<s, [loop[s] EXCEPT !.at = "probe", !.timer = 0]>>

\* What StopScheduler adds: the loops that probe or report, and some of the due ones.
LEMMA StopAdds ==
  ASSUME TypeOK, StopScheduler
  PROVE  /\ loop' = [s \in Servers |-> Off]
         /\ late \subseteq late'
         /\ \A s \in Servers : Reports(s) => Left(s) \in late'
         /\ \A t \in late' \ late :
              t[1] \in Servers /\ t = Left(t[1]) /\ (Reports(t[1]) \/ IsDue(t[1]))
<1>1. PICK chosen \in SUBSET {s \in Servers : IsDue(s)} :
        late' = late \cup {<<s, loop[s]>> : s \in {s \in Servers : Reports(s)}}
                     \cup {<<s, [loop[s] EXCEPT !.at = "probe", !.timer = 0]>> : s \in chosen}
  BY Zenon DEF StopScheduler, Reports, IsDue
<1>2. \A t \in late' \ late : \E s \in Servers : t = Left(s) /\ (Reports(s) \/ IsDue(s))
  <2>1. \A s : IsDue(s) => ~Reports(s)
    BY DEF IsDue, Reports
  <2>. QED
    BY <1>1, <2>1, Zenon DEF Left
<1>3. \A s : Left(s)[1] = s
  BY DEF Left
<1>4. \A t \in late' \ late : t[1] \in Servers /\ t = Left(t[1]) /\ (Reports(t[1]) \/ IsDue(t[1]))
  BY <1>2, <1>3, Zenon
<1>5. \A s \in Servers : Reports(s) => Left(s) \in late'
  BY <1>1, Zenon DEF Left
<1>. QED
  BY <1>1, <1>4, <1>5, Zenon DEF StopScheduler

LEMMA LateInductive ==
  ASSUME TypeOK, TypeOK', LateInv, RebuildInv, [Next]_vars
  PROVE  LateInv'
<1> USE DEF Rebuilders
<1>1. ASSUME UNCHANGED <<loop, late>>
      PROVE  LateInv'
  BY <1>1, SMTT(40) DEF LateInv, TookOver
<1>2. CASE Sighup \/ PollFile \/ Lookup \/ Report \/ LoadConfig
  BY <1>1, <1>2, SMTT(40) DEF Sighup, PollFile, Reload, Lookup, Report, LoadConfig, probeVars
<1>3. ASSUME NEW p \in Rebuilders, Lock(p) \/ Seed(p) \/ Prune(p)
      PROVE  LateInv'
  BY <1>1, <1>3, SMTT(40) DEF Lock, Seed, Prune, probeVars
<1>4. ASSUME NEW p \in Rebuilders, Publish(p)
      PROVE  LateInv'
  <2>1. StopScheduler
    BY <1>4 DEF Publish
  <2>2. \A s \in Servers : loop'[s] = Off
    BY <2>1, StopAdds
  <2>3. \A t \in late' : t[1] \in Servers /\ t[2].timer \in 0 .. Interval
    BY LateFields, SMTT(40) DEF TypeOK, Cancelled, Loop
  <2>4. ASSUME NEW t \in late' \ late
        PROVE  /\ t[1] \in Servers /\ t[2].timer <= ProbeTimeout
               /\ loop[t[1]].at \in {"probe", "tell"} \/ loop[t[1]].timer = Interval
               /\ \A u \in late' \ late : u[1] = t[1] => u = t
    <3>1. /\ t[1] \in Servers /\ t = Left(t[1]) /\ (Reports(t[1]) \/ IsDue(t[1]))
          /\ \A u \in late' \ late : u = Left(u[1])
      BY <2>1, StopAdds
    <3>2. loop[t[1]] \in Loop
      BY <3>1 DEF TypeOK
    <3>3. Left(t[1])[2].timer = IF Reports(t[1]) THEN loop[t[1]].timer ELSE 0
      BY <3>2 DEF Left, Loop
    <3>4. t[2].timer <= ProbeTimeout
      BY <3>1, <3>3, RuntimeAssumption, SMTT(40) DEF LateInv, Reports
    <3>5. \A u \in late' \ late : u[1] = t[1] => u = t
      BY <3>1, Zenon
    <3>. QED
      BY <3>1, <3>4, <3>5 DEF Reports, IsDue
  <2>5. \A t \in late' \ late, u \in late : t[1] # u[1]
    BY <2>4, DueIsAlone, SMTT(40)
  <2>6. \A t \in late' : t[2].timer <= ProbeTimeout /\ TookOver(t[1], t[2])'
    BY <2>2, <2>3, <2>4, SMTT(40) DEF LateInv, TookOver, Off
  <2>7. \A t, u \in late' : t[1] = u[1] => t = u
    BY <2>4, <2>5, SMTT(40) DEF LateInv
  <2>. QED
    BY <2>2, <2>6, <2>7, SMTT(40) DEF LateInv, Off
<1>5. ASSUME NEW p \in Rebuilders, StartScheduler(p)
      PROVE  LateInv'
  <2>1. \A s \in Servers : loop'[s] = loop[s] \/ loop'[s] = Fresh
    BY <1>5, SMTT(40) DEF StartScheduler, TypeOK
  <2>2. Fresh.at = "wait" /\ Fresh.healthy /\ Fresh.timer = 0
    BY DEF Fresh, Off
  <2>3. \A t \in late : t[1] \in Servers /\ t[2].timer \in 0 .. Interval
    BY LateFields
  <2>4. late' = late
    BY <1>5 DEF StartScheduler
  <2>. QED
    BY <2>1, <2>2, <2>3, <2>4, RuntimeAssumption, SMTT(40) DEF LateInv, TookOver
<1>6. ASSUME NEW s \in Servers, StartProbe(s)
      PROVE  LateInv'
  <2>1. /\ late' = late /\ \A t \in late : t[1] # s
        /\ \A x \in Servers \ {s} : loop'[x] = loop[x]
    BY <1>6, DueIsAlone, SMTT(40) DEF StartProbe, TypeOK
  <2>2. loop'[s].timer = 0
    BY <1>6, SMTT(40) DEF StartProbe, TypeOK, Loop
  <2>3. \A t \in late : t[1] \in Servers
    BY LateFields
  <2>. QED
    BY <2>1, <2>2, <2>3, RuntimeAssumption, SMTT(40) DEF LateInv, TookOver
<1>7. ASSUME NEW s \in Servers, EndProbe(s) \/ Tell(s)
      PROVE  LateInv'
  <2>1. /\ late' = late /\ \A t \in late : t[1] # s
        /\ \A x \in Servers \ {s} : loop'[x] = loop[x]
    BY <1>7, DueIsAlone, SMTT(40) DEF EndProbe, Tell, TypeOK
  <2>2. loop'[s].timer = loop[s].timer /\ loop[s].at \in {"probe", "tell"}
    <3>1. CASE EndProbe(s)
      <4>1. loop[s] \in Loop /\ (s \in up) \in BOOLEAN
        BY DEF TypeOK
      <4>2. AfterProbe(loop[s], s \in up).timer = loop[s].timer
        BY <4>1, ProbeType
      <4>. QED
        BY <3>1, <4>2, SMTT(40) DEF EndProbe, TypeOK
    <3>2. CASE Tell(s)
      BY <3>2, SMTT(40) DEF Tell, TypeOK, Loop
    <3>. QED
      BY <1>7, <3>1, <3>2
  <2>3. \A t \in late : t[1] \in Servers
    BY LateFields
  <2>. QED
    BY <2>1, <2>2, <2>3, SMTT(40) DEF LateInv, TookOver
<1>8. ASSUME NEW t \in late, EndLateProbe(t[1], t[2]) \/ TellLate(t[1], t[2])
      PROVE  LateInv'
  <2>1. loop' = loop /\ t = <<t[1], t[2]>> /\ t[1] \in Servers /\ t[2] \in Loop
    BY <1>8, LateFields DEF EndLateProbe, TellLate
  <2> DEFINE after == AfterProbe(t[2], t[1] \in up)
  <2>2. after.timer = t[2].timer
    <3>1. (t[1] \in up) \in BOOLEAN
      OBVIOUS
    <3>. QED
      BY <2>1, <3>1, ProbeType
  <2> HIDE DEF after
  <2>3. \A u \in late' : u \in late \ {t} \/ u = <<t[1], after>>
    BY <1>8, <2>1, SMTT(40) DEF EndLateProbe, TellLate, after
  <2>4. \A u \in late \ {t} : u[1] # t[1]
    BY DEF LateInv
  <2>. QED
    BY <2>1, <2>2, <2>3, <2>4, SMTT(40) DEF LateInv, TookOver
<1>9. ASSUME NEW s \in Servers, Flip(s)
      PROVE  LateInv'
  BY <1>1, <1>9, SMTT(40) DEF Flip, probeVars
<1>10. CASE Tick
  <2>1. \A s \in Servers : /\ loop'[s].at = loop[s].at /\ loop'[s].healthy = loop[s].healthy
                           /\ loop[s].timer \in 0 .. Interval
                           /\ loop'[s].timer \in {loop[s].timer, loop[s].timer + 1}
    BY <1>10, SMTT(40) DEF Tick, TypeOK, Loop
  <2>2. late' = {Later(t) : t \in late}
    BY <1>10, Zenon DEF Tick, Later
  <2>3. \A t \in late : Later(t)[1] = t[1] /\ Later(t)[2].timer = t[2].timer + 1
    <3>1. \A t \in late : t[2] \in Loop
      BY LateFields
    <3>. QED
      BY <3>1, LaterFields
  <2>4. /\ \A s \in Servers : loop[s].at # "tell" /\ (loop[s].at = "probe" => loop[s].timer < ProbeTimeout)
        /\ \A t \in late : t[2].timer < ProbeTimeout
    BY <1>10, <2>1, LateFields, RuntimeAssumption, SMTT(40) DEF Tick, Overdue
  <2>5. ASSUME NEW u \in late'
        PROVE  u[2].timer <= ProbeTimeout /\ TookOver(u[1], u[2])'
    <3>1. PICK t \in late : u[1] = t[1] /\ u[2].timer = t[2].timer + 1
      BY <2>2, <2>3, Zenon
    <3>2. t[1] \in Servers /\ t[2].timer \in 0 .. Interval
      BY LateFields
    <3>. QED
      BY <2>1, <2>4, <3>1, <3>2, RuntimeAssumption, SMTT(40) DEF LateInv, TookOver
  <2>6. \A t, u \in late' : t[1] = u[1] => t = u
    <3>1. ASSUME NEW t \in late', NEW u \in late', t[1] = u[1]
          PROVE  t = u
      <4>1. PICK v \in late, w \in late : t = Later(v) /\ u = Later(w)
        BY <2>2, <3>1
      <4>2. v = w
        BY <2>3, <3>1, <4>1, Zenon DEF LateInv
      <4>. QED
        BY <4>1, <4>2
    <3>. QED
      BY <3>1
  <2>. QED
    BY <2>1, <2>4, <2>5, <2>6, RuntimeAssumption, SMTT(40) DEF LateInv
<1>11. CASE UNCHANGED vars
  BY <1>1, <1>11, SMTT(40) DEF vars, probeVars
<1>. QED
  BY SMTT(40), <1>2, <1>3, <1>4, <1>5, <1>6, <1>7, <1>8, <1>9, <1>10, <1>11
  DEF Next, Rebuild, Probing, EndLate

\* What a probe's end writes, for a live loop and for a cancelled one.
LEMMA Written ==
  ASSUME TypeOK, NEW s \in Servers, NEW l \in Loop,
         WriteVerdict(s, AfterProbe(l, s \in up))
  PROVE  LET after == AfterProbe(l, s \in up) IN
         /\ \A x \in Servers \ {s} : health'[x] = health[x]
         /\ after.at = "wait" => after.healthy = l.healthy /\ health' = health
         /\ after.at = "tell" => health'[s] = Verdict(after)
         /\ after.at \in {"wait", "tell"}
<1> DEFINE after == AfterProbe(l, s \in up)
<1>1. (s \in up) \in BOOLEAN
  OBVIOUS
<1>2. after.at \in {"wait", "tell"} /\ (after.at = "tell" <=> after.healthy # l.healthy)
  BY <1>1, ProbeType
<1>3. WriteVerdict(s, after)
  OBVIOUS
<1> HIDE DEF after
<1>4. /\ \A x \in Servers \ {s} : health'[x] = health[x]
      /\ after.at = "wait" => after.healthy = l.healthy /\ health' = health
      /\ after.at = "tell" => health'[s] = Verdict(after)
  BY <1>2, <1>3, SMTT(40) DEF WriteVerdict, TypeOK
<1>. QED
  BY <1>2, <1>4 DEF after

LEMMA VerdictInductive ==
  ASSUME TypeOK, TypeOK', RebuildInv, LateInv, VerdictInv, [Next]_vars
  PROVE  VerdictInv'
<1> USE DEF Rebuilders
<1>1. ASSUME UNCHANGED <<loop, late, health, gauge>>,
             \A p \in Rebuilders : pc[p] = "publish" => pc'[p] = "publish"
      PROVE  VerdictInv'
  BY <1>1, SMTT(40) DEF VerdictInv, TellsUp
<1>2. CASE Sighup \/ PollFile \/ Lookup \/ Report \/ LoadConfig
  BY <1>1, <1>2, SMTT(40) DEF Sighup, PollFile, Reload, Lookup, Report, LoadConfig, probeVars, TypeOK
<1>3. ASSUME NEW p \in Rebuilders, Lock(p)
      PROVE  VerdictInv'
  BY <1>1, <1>3, SMTT(40) DEF Lock, probeVars, TypeOK
<1>4. ASSUME NEW p \in Rebuilders, Seed(p)
      PROVE  VerdictInv'
  <2>1. pc'[p] = "publish" /\ UNCHANGED <<loop, late, health>>
    BY <1>4 DEF Seed, TypeOK
  <2>2. \A s \in Servers : gauge'[s] = "down" => gauge[s] = "down"
    BY <1>4, SMTT(40) DEF Seed
  <2>. QED
    BY <2>1, <2>2, SMTT(40) DEF VerdictInv, TellsUp
<1>5. ASSUME NEW p \in Rebuilders, Publish(p)
      PROVE  VerdictInv'
  <2>1. /\ StopScheduler /\ UNCHANGED <<health, gauge>>
        /\ \A s \in Servers : loop'[s] = Off
    BY <1>5, StopAdds DEF Publish
  <2>2. Off.at = "off" /\ Off.healthy
    BY DEF Off
  <2>3. ASSUME NEW s \in Servers, gauge[s] = "down", health[s] = "up"
        PROVE  \E t \in late' : t[1] = s /\ TellsUp(t[2])
    <3>1. CASE TellsUp(loop[s])
      <4>1. Left(s) = <<s, loop[s]>> /\ Left(s) \in late'
        BY <2>1, <3>1, StopAdds DEF TellsUp, Left, Reports
      <4>2. Left(s)[1] = s /\ TellsUp(Left(s)[2])
        BY <3>1, <4>1
      <4>. QED
        BY <4>1, <4>2, Zenon
    <3>2. CASE \E t \in late : t[1] = s /\ TellsUp(t[2])
      BY <2>1, <3>2, StopAdds, Zenon
    <3>. QED
      BY <2>3, <3>1, <3>2 DEF VerdictInv
  <2>4. ASSUME NEW t \in late', t[2].at = "tell", ~t[2].healthy
        PROVE  health[t[1]] # "up"
    <3>1. CASE t \in late
      BY <2>4, <3>1 DEF VerdictInv
    <3>2. CASE t \notin late
      <4>1. t[1] \in Servers /\ t = Left(t[1])
        BY <2>1, <3>2, StopAdds, Zenon
      <4>2. loop[t[1]] \in Loop
        BY <4>1 DEF TypeOK
      <4>3. ~Reports(t[1]) => Left(t[1])[2].at = "probe"
        BY <4>2, LoopStarted DEF Left
      <4>4. Reports(t[1]) => Left(t[1])[2] = loop[t[1]]
        BY DEF Left
      <4>. QED
        BY <2>4, <4>1, <4>3, <4>4, SMTT(40) DEF VerdictInv, Reports
    <3>. QED
      BY <3>1, <3>2
  <2>. QED
    BY <2>1, <2>2, <2>3, <2>4, SMTT(40) DEF VerdictInv
<1>6. ASSUME NEW p \in Rebuilders, Prune(p)
      PROVE  VerdictInv'
  <2>1. \A s \in Servers : loop[s].at = "off"
    BY <1>6, SMTT(40) DEF Prune, RebuildInv, Probed
  <2>2. /\ UNCHANGED <<loop, late, gauge>>
        /\ \A s \in Servers : health'[s] = "up" => health[s] = "up"
    BY <1>6, SMTT(40) DEF Prune
  <2>3. \A t \in late : t[1] \in Servers
    BY LateFields
  <2>. QED
    BY <2>1, <2>2, <2>3, SMTT(40) DEF VerdictInv, TellsUp
<1>7. ASSUME NEW p \in Rebuilders, StartScheduler(p)
      PROVE  VerdictInv'
  <2>1. \A s \in Servers : loop[s].at = "off"
    BY <1>7, SMTT(40) DEF StartScheduler, RebuildInv, Probed
  <2>2. /\ UNCHANGED <<late, health, gauge>>
        /\ \A s \in Servers : loop'[s] = loop[s] \/ loop'[s] = Fresh
    BY <1>7, SMTT(40) DEF StartScheduler, TypeOK
  <2>3. Fresh.at = "wait" /\ Fresh.healthy
    BY DEF Fresh, Off
  <2>. QED
    BY <2>1, <2>2, <2>3, SMTT(40) DEF VerdictInv, TellsUp
<1>8. ASSUME NEW s \in Servers, StartProbe(s)
      PROVE  VerdictInv'
  <2>1. /\ UNCHANGED <<late, health, gauge, pc>> /\ loop[s].at = "wait"
        /\ \A x \in Servers \ {s} : loop'[x] = loop[x]
    BY <1>8, SMTT(40) DEF StartProbe, rebuildVars, TypeOK
  <2>2. loop'[s].at = "probe" /\ loop'[s].healthy = loop[s].healthy
    BY <1>8, SMTT(40) DEF StartProbe, TypeOK, Loop
  <2>. QED
    BY <2>1, <2>2, SMTT(40) DEF VerdictInv, TellsUp
<1>9. ASSUME NEW s \in Servers, EndProbe(s)
      PROVE  VerdictInv'
  <2> DEFINE after == AfterProbe(loop[s], s \in up)
  <2>1. /\ UNCHANGED <<late, gauge, pc>> /\ loop[s].at = "probe" /\ loop'[s] = after
        /\ \A x \in Servers \ {s} : loop'[x] = loop[x]
        /\ WriteVerdict(s, after)
    BY <1>9, SMTT(40) DEF EndProbe, rebuildVars, TypeOK
  <2>2. loop[s] \in Loop
    BY DEF TypeOK
  <2>3. /\ \A x \in Servers \ {s} : health'[x] = health[x]
        /\ after.at = "wait" => after.healthy = loop[s].healthy /\ health' = health
        /\ after.at = "tell" => health'[s] = Verdict(after)
        /\ after.at \in {"wait", "tell"}
    BY <2>1, <2>2, Written
  <2> HIDE DEF after
  <2>4. \A t \in late : t[1] \in Servers /\ t[1] # s
    BY <2>1, DueIsAlone, LateFields, SMTT(40)
  <2>. QED
    BY <2>1, <2>3, <2>4, SMTT(40) DEF VerdictInv, TellsUp, Verdict
<1>10. ASSUME NEW s \in Servers, Tell(s)
       PROVE  VerdictInv'
  <2>1. /\ UNCHANGED <<late, health, pc>> /\ loop[s].at = "tell"
        /\ \A x \in Servers \ {s} : loop'[x] = loop[x] /\ gauge'[x] = gauge[x]
        /\ gauge'[s] = Verdict(loop[s])
    BY <1>10, SMTT(40) DEF Tell, rebuildVars, TypeOK
  <2>2. loop'[s].at = "wait" /\ loop'[s].healthy = loop[s].healthy
    BY <1>10, SMTT(40) DEF Tell, TypeOK, Loop
  <2>. QED
    BY <2>1, <2>2, SMTT(40) DEF VerdictInv, TellsUp, Verdict
<1>11. ASSUME NEW t \in late, EndLateProbe(t[1], t[2])
       PROVE  VerdictInv'
  <2> DEFINE s == t[1]
             after == AfterProbe(t[2], t[1] \in up)
  <2>1. /\ UNCHANGED <<loop, gauge, pc>> /\ t[2].at = "probe"
        /\ late' = (late \ {<<t[1], t[2]>>}) \cup (IF after.at = "tell" THEN {<<t[1], after>>} ELSE {})
        /\ WriteVerdict(t[1], after)
    BY <1>11, SMTT(40) DEF EndLateProbe, rebuildVars
  <2>2. t = <<t[1], t[2]>> /\ t[1] \in Servers /\ t[2] \in Loop
    BY LateFields
  <2>3. /\ \A x \in Servers \ {t[1]} : health'[x] = health[x]
        /\ after.at = "wait" => after.healthy = t[2].healthy /\ health' = health
        /\ after.at = "tell" => health'[t[1]] = Verdict(after)
        /\ after.at \in {"wait", "tell"}
    BY <2>1, <2>2, Written
  <2> HIDE DEF after, s
  <2>4. /\ loop[s].at \in {"off", "wait"} /\ loop[s].healthy
        /\ \A u \in late \ {t} : u[1] # s /\ u[1] \in Servers
    BY <2>2, LateFields, SMTT(40) DEF LateInv, TookOver, s
  <2>5. \A u \in late' : u \in late \ {t} \/ (after.at = "tell" /\ u = <<s, after>> /\ u[1] = s /\ u[2] = after)
    BY <2>1, <2>2, SMTT(40) DEF s
  <2>6. late \ {t} \subseteq late' /\ (after.at = "tell" => <<s, after>> \in late')
    BY <2>1, <2>2, SMTT(40) DEF s
  <2>7. ASSUME NEW x \in Servers, gauge[x] = "down", health'[x] = "up"
        PROVE  TellsUp(loop[x]) \/ \E u \in late' : u[1] = x /\ TellsUp(u[2])
    <3>1. CASE x = s /\ after.at = "tell"
      <4>1. after.healthy
        BY <2>3, <2>7, <3>1, SMTT(40) DEF Verdict, s
      <4>2. <<s, after>>[1] = x /\ TellsUp(<<s, after>>[2])
        BY <3>1, <4>1 DEF TellsUp
      <4>. QED
        BY <2>6, <3>1, <4>2, Zenon
    <3>2. CASE x # s \/ after.at = "wait"
      <4>1. health[x] = "up"
        BY <2>3, <2>7, <3>2, SMTT(40) DEF s
      <4>2. CASE TellsUp(loop[x])
        BY <4>2
      <4>3. CASE \E u \in late : u[1] = x /\ TellsUp(u[2])
        <5>1. PICK u \in late : u[1] = x /\ TellsUp(u[2])
          BY <4>3
        <5>2. u # t
          BY <2>1, <5>1 DEF TellsUp
        <5>. QED
          BY <2>6, <5>1, <5>2, Zenon
      <4>. QED
        BY <2>7, <4>1, <4>2, <4>3 DEF VerdictInv
    <3>. QED
      BY <2>3, <3>1, <3>2
  <2>8. ASSUME NEW u \in late', u[2].at = "tell", ~u[2].healthy
        PROVE  health'[u[1]] # "up"
    BY <2>3, <2>4, <2>5, <2>8, SMTT(40) DEF VerdictInv, Verdict, s
  <2>9. \A x \in Servers : loop[x].at # "off" /\ ~loop[x].healthy => health'[x] = "down"
    BY <2>3, <2>4, SMTT(40) DEF VerdictInv, s
  <2>. QED
    BY <2>1, <2>7, <2>8, <2>9, SMTT(40) DEF VerdictInv, TellsUp
<1>12. ASSUME NEW t \in late, TellLate(t[1], t[2])
       PROVE  VerdictInv'
  <2>1. /\ UNCHANGED <<loop, health, pc>> /\ t[2].at = "tell" /\ t[1] \in Servers /\ t = <<t[1], t[2]>>
        /\ \A x \in Servers \ {t[1]} : gauge'[x] = gauge[x]
        /\ gauge'[t[1]] = Verdict(t[2]) /\ late' = late \ {t}
    BY <1>12, LateFields, SMTT(40) DEF TellLate, rebuildVars, TypeOK
  <2>2. /\ loop[t[1]].at \in {"off", "wait"} /\ loop[t[1]].healthy
        /\ \A u \in late \ {t} : u[1] # t[1]
    BY SMTT(40) DEF LateInv, TookOver
  <2>3. ASSUME NEW x \in Servers, gauge'[x] = "down", health[x] = "up"
        PROVE  TellsUp(loop[x]) \/ \E u \in late' : u[1] = x /\ TellsUp(u[2])
    <3>1. x # t[1]
      BY <2>1, <2>3, SMTT(40) DEF VerdictInv, Verdict
    <3>. QED
      BY <2>1, <2>3, <3>1, SMTT(40) DEF VerdictInv
  <2>. QED
    BY <2>1, <2>2, <2>3, SMTT(40) DEF VerdictInv
<1>13. ASSUME NEW s \in Servers, Flip(s)
       PROVE  VerdictInv'
  BY <1>1, <1>13, SMTT(40) DEF Flip, rebuildVars, probeVars
<1>14. CASE Tick
  <2>1. \A s \in Servers : loop'[s].at = loop[s].at /\ loop'[s].healthy = loop[s].healthy
    BY <1>14, SMTT(40) DEF Tick, TypeOK, Loop
  <2>2. UNCHANGED <<health, gauge, pc>> /\ late' = {Later(t) : t \in late}
    BY <1>14, Zenon DEF Tick, Later, rebuildVars
  <2>3. \A t \in late : Later(t)[1] = t[1] /\ Later(t)[2].at = t[2].at
    <3>1. \A t \in late : t[2] \in Loop
      BY LateFields
    <3>. QED
      BY <3>1, LaterFields
  <2>4. (\A s \in Servers : loop[s].at # "tell") /\ \A t \in late : t[2].at # "tell"
    BY <1>14, SMTT(40) DEF Tick, Overdue
  <2>5. ASSUME NEW u \in late'
        PROVE  u[2].at # "tell"
    <3>1. PICK t \in late : u = Later(t)
      BY <2>2, <2>5
    <3>. QED
      BY <2>3, <2>4, <3>1, Zenon
  <2>. QED
    BY <2>1, <2>2, <2>4, <2>5, SMTT(40) DEF VerdictInv, TellsUp
<1>15. CASE UNCHANGED vars
  BY <1>1, <1>15, SMTT(40) DEF vars, rebuildVars, probeVars
<1>. QED
  BY SMTT(40), <1>2, <1>3, <1>4, <1>5, <1>6, <1>7, <1>8, <1>9, <1>10, <1>11, <1>12, <1>13, <1>14, <1>15
  DEF Next, Rebuild, Probing, EndLate

\* Probes that outlive their scheduler, and the two separate writes of every
\* verdict (internal/health/scheduler.go probe), never cover up the "down" of a
\* live loop nor leave a recovered server reported down: what is left of a
\* cancelled loop is over before its successor first probes, whatever the two
\* rebuilders do meanwhile.
THEOREM VerdictsAreKept == Spec => []VerdictsStand
<1>1. Init => LateInv /\ VerdictInv
  <2>1. Init => \A s \in Servers : loop[s].at = "off"
    BY DEF Init, Off
  <2>. QED
    BY <2>1 DEF Init, LateInv, VerdictInv
<1>2. TypeOK /\ TypeOK' /\ RebuildInv /\ LateInv /\ VerdictInv /\ [Next]_vars => LateInv' /\ VerdictInv'
  BY LateInductive, VerdictInductive
<1>3. TypeOK /\ VerdictInv => VerdictsStand
  <2>1. TypeOK => \A s \in Servers : loop[s].at \in {"off", "wait", "probe", "tell"}
    BY LoopFields DEF TypeOK
  <2>. QED
    BY <2>1, SMTT(40) DEF VerdictInv, VerdictsStand
<1>. QED
  BY <1>1, <1>2, <1>3, TypeCorrect, AlwaysRebuildInv, PTL DEF Spec

----------------------------------------------------------------------------
\* No rebuild is on its way that has yet to publish.
Published ==
  pc["watcher"] \in {"idle", "prune", "start"} /\ pc["poller"] \in {"idle", "report", "prune", "start"}

FromConfigs == {snapshot \cup Range(discovered), cfg["poller"] \cup Range(discovered)}

\* What the lists are at each point of the two rebuilders: the watcher works
\* from the snapshot, the poller from a list that is not empty, and a rebuild
\* from lists nobody changes while it holds r.mu.
SourceInv ==
  /\ cfg["watcher"] = snapshot
  /\ \A p \in Rebuilders : pc[p] \in Critical => urls = cfg[p] \cup Range(discovered)
  /\ pc["poller"] = "report" => last # <<>>
  /\ pc["poller"] # "report" => last = <<>> \/ last = discovered
  /\ pc["poller"] \in {"load", "lock"} => Range(discovered) # {}
  /\ Published /\ snapshot \cup Range(discovered) # {} => pool \in FromConfigs

LEMMA SourceInductive ==
  ASSUME TypeOK, RebuildInv, SourceInv, [Next]_vars
  PROVE  SourceInv'
<1> USE DEF Rebuilders
<1>1. ASSUME UNCHANGED <<sources, cfg, urls, pool>>, UNCHANGED pc
      PROVE  SourceInv'
  BY <1>1, SMTT(40) DEF sources, SourceInv, Published, FromConfigs
<1>2. ASSUME Reload
      PROVE  SourceInv'
  BY <1>2, SMTT(40) DEF Reload, TypeOK, SourceInv, Published, FromConfigs, Critical
<1>3. CASE Lookup
  BY <1>3 DEF Lookup, TypeOK, SourceInv, Published, FromConfigs, Critical
<1>4. CASE Report
  <2>1. last # <<>> /\ last \in Seq(Servers)
    BY <1>4, NamesServers, SMTT(40) DEF Report, SourceInv
  <2>2. Range(last) # {}
    <3>1. Len(last) \in Nat /\ DOMAIN last = 1 .. Len(last) /\ Len(last) # 0
      BY <2>1, LenProperties, EmptySeq, SMTT(40)
    <3>2. 1 \in DOMAIN last
      BY <3>1, SMTT(40)
    <3>. QED
      BY <3>2 DEF Range
  <2>3. \A p \in Rebuilders : pc[p] \notin Critical /\ pc'[p] \notin Critical
    BY <1>4 DEF Report, TypeOK, RebuildInv, Mutex, Critical
  <2>4. discovered' = last /\ last' = last
    BY <1>4, SMTT(40) DEF Report, Kept
  <2>5. CASE last = discovered
    BY <1>4, <2>3, <2>4, <2>5, SMTT(40) DEF Report, TypeOK, SourceInv, Published, FromConfigs
  <2>6. CASE last # discovered
    BY <1>4, <2>2, <2>3, <2>4, <2>6, SMTT(40) DEF Report, TypeOK, SourceInv, Published, FromConfigs
  <2>. QED
    BY <2>5, <2>6, SMTT(40)
<1>5. CASE LoadConfig
  BY <1>5 DEF LoadConfig, sources, TypeOK, SourceInv, Published, FromConfigs, Critical
<1>6. ASSUME NEW p \in Rebuilders, Lock(p)
      PROVE  SourceInv'
  <2>1. \A q \in Rebuilders : pc[q] \notin Critical
    BY <1>6, SMTT(40) DEF Lock, RebuildInv, Mutex
  <2>2. CASE Merged(p) # {}
    BY <1>6, <2>1, <2>2, SMTT(40) DEF Lock, Usable, Merged, sources, TypeOK, SourceInv, Published, FromConfigs, Critical
  <2>3. CASE Merged(p) = {}
    <3>1. p = "watcher" /\ snapshot \cup Range(discovered) = {}
      BY <1>6, <2>3, SMTT(40) DEF Lock, Merged, SourceInv
    <3>. QED
      BY <1>6, <2>1, <2>3, <3>1, SMTT(40) DEF Lock, Usable, sources, TypeOK, SourceInv, Published, Critical
  <2>. QED
    BY <2>2, <2>3, SMTT(40)
<1>7. ASSUME NEW p \in Rebuilders, Seed(p)
      PROVE  SourceInv'
  BY <1>7, SMTT(40) DEF Seed, sources, TypeOK, SourceInv, Published, FromConfigs, Critical
<1>8. ASSUME NEW p \in Rebuilders, Publish(p)
      PROVE  SourceInv'
  <2>1. pool' \in FromConfigs'
    BY <1>8, SMTT(40) DEF Publish, sources, SourceInv, FromConfigs, Critical
  <2>. QED
    BY <1>8, <2>1, SMTT(40) DEF Publish, sources, TypeOK, SourceInv, Critical
<1>9. ASSUME NEW p \in Rebuilders, Prune(p) \/ StartScheduler(p)
      PROVE  SourceInv'
  BY <1>9, SMTT(40) DEF Prune, StartScheduler, sources, TypeOK, SourceInv, Published, FromConfigs, Critical
<1>10. ASSUME NEW s \in Servers, StartProbe(s) \/ EndProbe(s) \/ Tell(s) \/ Flip(s)
       PROVE  SourceInv'
  BY <1>1, <1>10, SMTT(40) DEF StartProbe, EndProbe, Tell, Flip, rebuildVars
<1>11. ASSUME NEW t \in late, EndLateProbe(t[1], t[2]) \/ TellLate(t[1], t[2])
       PROVE  SourceInv'
  BY <1>1, <1>11, SMTT(40) DEF EndLateProbe, TellLate, rebuildVars
<1>12. CASE Tick \/ UNCHANGED vars
  BY <1>1, <1>12, SMTT(40) DEF Tick, vars, rebuildVars
<1>. QED
  BY SMTT(40), <1>2, <1>3, <1>4, <1>5, <1>6, <1>7, <1>8, <1>9, <1>10, <1>11, <1>12
  DEF Next, Sighup, PollFile, Rebuild, Probing, EndLate

\* Two goroutines rebuild from two sources and one of them reads the config
\* before it takes r.mu: once both are done the pool is still made of the list
\* discovered last and a config that was in force when it was read.
THEOREM PoolIsListed == Spec => []PoolOfSources
<1>1. Init => SourceInv
  BY SMTT(40) DEF Init, SourceInv, Published, Rebuilders, Critical
<1>2. SourceInv /\ TypeOK /\ RebuildInv /\ [Next]_vars => SourceInv'
  BY SourceInductive
<1>3. SourceInv => PoolOfSources
  BY DEF SourceInv, PoolOfSources, Settled, Published, FromConfigs, Rebuilders
<1>. QED
  BY <1>1, <1>2, <1>3, TypeCorrect, AlwaysRebuildInv, PTL DEF Spec

----------------------------------------------------------------------------
\* A sorted list is a function of the servers it names.
LEMMA Canonical ==
  ASSUME Provider = "dns", NEW x \in Lists \cup {<<>>}
  PROVE  x = SetToSeq(Range(x))
<1>1. CASE x = <<>>
  <2>1. Range(x) = {}
    BY <1>1, SMTT(40) DEF Range
  <2>2. SetToSeq({}) \in [1 .. 0 -> {}]
    BY Listed, FS_EmptySet, SMTT(40)
  <2>3. SetToSeq({}) \in Seq({}) /\ Len(SetToSeq({})) = 0
    BY <2>2, SeqDef, LenProperties, SMTT(40)
  <2>. QED
    BY <1>1, <2>1, <2>3, EmptySeq, SMTT(40)
<1>2. CASE x \in Lists
  <2>1. PICK a \in Seq(Servers) : x = SetToSeq(Range(a))
    BY <1>2, RuntimeAssumption, SMTT(40) DEF Lists, Discover
  <2> DEFINE S == Range(a)
             n == Cardinality(S)
  <2>2. IsFiniteSet(S) /\ n \in Nat
    BY RangeIsFinite, FS_CardinalityType, SMTT(40)
  <2> HIDE DEF S
  <2>3. x \in Injection(1 .. n, S)
    BY <2>1, <2>2, Listed, SMTT(40) DEF Injection, IsInjective, S
  <2>4. IsFiniteSet(1 .. n) /\ Cardinality(1 .. n) = n
    BY <2>2, FS_Interval, SMTT(40)
  <2>5. x \in Surjection(1 .. n, S)
    BY <2>2, <2>3, <2>4, FS_Injection, SMTT(40)
  <2>6. Range(x) = S
    BY <2>5 DEF Surjection, Range
  <2>. QED
    BY <2>1, <2>6, SMTT(40) DEF S
<1>. QED
  BY <1>1, <1>2, SMTT(40)

\* A resolver that answers with the same addresses in another order never
\* changes the list in use (discover.go sorts, cli/engine.go compares).
THEOREM RotationsAreIgnored == Spec => RotationIgnored
<1>1. ASSUME TypeOK, TypeOK', [Next]_vars
      PROVE  [Provider = "dns" /\ discovered' # discovered => Range(discovered') # Range(discovered)]_vars
  <2>1. discovered \in Lists \cup {<<>>} /\ discovered' \in Lists \cup {<<>>}
    BY <1>1 DEF TypeOK
  <2>. QED
    BY <2>1, Canonical, SMTT(40)
<1>. QED
  BY <1>1, TypeCorrect, PTL DEF Spec, RotationIgnored
=============================================================================
