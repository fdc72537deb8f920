---------------------------- MODULE ProcessProofs --------------------------
(***************************************************************************)
(* Theorems about LogBatch for every queue depth, batch size and number of *)
(* entries, and that it implements Sink; then about Process for every      *)
(* number of requests, servers, retries and entries, whatever the order in *)
(* which requests, probes, the sink and the shutdown take their steps.     *)
(***************************************************************************)
EXTENDS Process, FiniteSetTheorems, SequenceTheorems, TLAPS

----------------------------------------------------------------------------
\* The exporter's queue and batch (internal/logging/exporter.go).

\* A batch being collected still has room: it is sent as soon as it is full.
Collecting == pc \in {"select", "drain"} => Len(buf) < MaxBatch

Inv == TypeOK /\ Collecting /\ Accounted

\* The channel and the batch keep to their limits, and every entry is in one place:
\* Write, the run loop and Close lose or invent none between them.
THEOREM NothingDisappears == Spec => [](TypeOK /\ Accounted)
<1> USE LogBatchAssumption
<1>1. Init => Inv
  <2> SUFFICES ASSUME Init
               PROVE  Inv
    OBVIOUS
  <2>1. /\ queue \in Seq(Entries) /\ buf \in Seq(Entries) /\ handed \in Seq(Entries)
        /\ Len(queue) = 0 /\ Len(buf) = 0 /\ Len(handed) = 0
    BY EmptySeq DEF Init
  <2>2. written = 0 /\ dropped = 0 /\ pc = "select"
    BY DEF Init
  <2>3. closed \in BOOLEAN /\ promised \subseteq Entries
    BY DEF Init
  <2>. QED
    BY <2>1, <2>2, <2>3 DEF Inv, TypeOK, Collecting, Accounted
<1>2. Inv /\ [Next]_vars => Inv'
  <2> SUFFICES ASSUME Inv, [Next]_vars
               PROVE  Inv'
    OBVIOUS
  <2> USE DEF Inv
  <2>1. CASE Write
    <3>1. CASE Full
      BY <2>1, <3>1 DEF Write, Drop, TypeOK, Collecting, Accounted, Entries
    <3>2. CASE ~Full
      <4>1. /\ written + 1 \in Entries
            /\ queue' = Append(queue, written + 1)
            /\ UNCHANGED <<buf, handed, pc, closed, promised, dropped>>
            /\ written' = written + 1 /\ written < MaxWrites
        BY <2>1, <3>2 DEF Write, TypeOK, Entries
      <4>2. queue' \in Seq(Entries) /\ Len(queue') = Len(queue) + 1
        BY <4>1 DEF TypeOK
      <4>. QED
        BY <3>2, <4>1, <4>2 DEF Full, TypeOK, Collecting, Accounted
    <3>. QED
      BY <3>1, <3>2
  <2>2. ASSUME NEW here \in {"select", "drain"}, NEW sending \in {"send", "drainSend"},
               Collect(here, sending)
        PROVE  Inv'
    <3>1. /\ buf' \in Seq(Entries) /\ Len(buf') = Len(buf) + 1
          /\ queue' \in Seq(Entries) /\ Len(queue') = Len(queue) - 1
      BY <2>2 DEF Collect, Collected, TypeOK
    <3>. QED
      BY <2>2, <3>1 DEF Collect, TypeOK, Collecting, Accounted
  <2>3. ASSUME NEW sending \in {"send", "drainSend", "lastSend"},
               NEW next \in {"select", "drain", "return"}, Sent(sending, next)
        PROVE  Inv'
    <3>1. /\ handed' \in Seq(Entries) /\ Len(handed') = Len(handed) + Len(buf)
          /\ buf' \in Seq(Entries) /\ Len(buf') = 0
      BY <2>3 DEF Sent, TypeOK
    <3>. QED
      BY <2>3, <3>1 DEF Sent, TypeOK, Collecting, Accounted
  <2>4. CASE Close
    <3>1. promised' \subseteq Entries
      BY <2>4 DEF Close, TypeOK, Range
    <3>. QED
      BY <2>4, <3>1 DEF Close, TypeOK, Collecting, Accounted
  <2>5. CASE FlushDue \/ SeeDone \/ EndDrain \/ Return
    BY <2>5, SMTT(40) DEF FlushDue, SeeDone, EndDrain, Return, TypeOK, Collecting, Accounted
  <2>6. CASE UNCHANGED vars
    BY <2>6 DEF vars, TypeOK, Collecting, Accounted
  <2>. QED
    BY <2>1, <2>2, <2>3, <2>4, <2>5, <2>6 DEF Next, Run
<1>3. Inv => TypeOK /\ Accounted
  BY DEF Inv
<1>. QED
  BY <1>1, <1>2, <1>3, PTL DEF Spec

----------------------------------------------------------------------------
\* What has been handed over, what is collected and what is queued, in that order.
path == handed \o buf \o queue

\* InOrder with what keeps it: nothing ahead of Write has a number yet to be given.
Ordered ==
  /\ \A i, j \in 1 .. Len(path) : i < j => path[i] < path[j]
  /\ \A i \in 1 .. Len(path) : path[i] <= written

LEMMA PathType ==
  ASSUME TypeOK
  PROVE  path \in Seq(Entries)
BY ConcatProperties DEF TypeOK, path

LEMMA PathAppended ==
  ASSUME TypeOK, NEW e \in Entries,
         queue' = Append(queue, e), UNCHANGED <<buf, handed>>
  PROVE  path' = Append(path, e)
<1>1. handed \o buf \in Seq(Entries) /\ queue \in Seq(Entries) /\ <<e>> \in Seq(Entries)
  BY ConcatProperties DEF TypeOK
<1>2. queue' = queue \o <<e>> /\ path' = (handed \o buf) \o queue'
  BY <1>1, AppendIsConcat DEF path
<1>3. path' = path \o <<e>>
  BY <1>1, <1>2, ConcatAssociative DEF path
<1>. QED
  BY <1>3, PathType, AppendIsConcat

\* Taking an entry from the queue, or handing a batch over, moves no entry past another.
LEMMA PathKept ==
  ASSUME TypeOK, Run
  PROVE  path' = path
<1>1. ASSUME NEW here, NEW sending, Collect(here, sending)
      PROVE  path' = path
  <2>1. /\ handed \in Seq(Entries) /\ buf \in Seq(Entries) /\ queue \in Seq(Entries) /\ queue # <<>>
        /\ handed' = handed /\ buf' = Append(buf, Head(queue)) /\ queue' = Tail(queue)
    BY <1>1 DEF Collect, Collected, TypeOK
  <2>2. Append(buf, Head(queue)) \o Tail(queue) = buf \o queue
    BY <2>1
  <2>3. path = handed \o (buf \o queue)
    BY <2>1 DEF path
  <2>4. path' = handed \o (Append(buf, Head(queue)) \o Tail(queue))
    <3>1. Append(buf, Head(queue)) \in Seq(Entries) /\ Tail(queue) \in Seq(Entries)
      BY <2>1
    <3>2. path' = (handed \o Append(buf, Head(queue))) \o Tail(queue)
      BY <2>1 DEF path
    <3>3. (handed \o Append(buf, Head(queue))) \o Tail(queue)
            = handed \o (Append(buf, Head(queue)) \o Tail(queue))
      <4>1. \A a, b, c \in Seq(Entries) : (a \o b) \o c = a \o (b \o c)
        BY ConcatAssociative, SMTT(40)
      <4>. QED
        BY <2>1, <3>1, <4>1, ZenonT(60)
    <3>. QED
      BY <3>2, <3>3
  <2>. QED
    BY <2>2, <2>3, <2>4
<1>2. ASSUME NEW sending, NEW next, Sent(sending, next)
      PROVE  path' = path
  <2>1. /\ handed \in Seq(Entries) /\ buf \in Seq(Entries) /\ queue \in Seq(Entries)
        /\ handed' = handed \o buf /\ buf' = <<>> /\ queue' = queue
    BY <1>2 DEF Sent, TypeOK
  <2>2. handed \o buf \in Seq(Entries)
    BY <2>1
  <2>3. (handed \o buf) \o <<>> = handed \o buf
    BY <2>2
  <2>. QED
    BY <2>1, <2>3 DEF path
<1>3. CASE FlushDue \/ SeeDone \/ EndDrain \/ Return
  BY <1>3 DEF FlushDue, SeeDone, EndDrain, Return, path
<1>. QED
  BY <1>1, <1>2, <1>3 DEF Run

LEMMA AlwaysOrdered == Spec => []Ordered
<1>1. Init => Ordered
  <2>1. Init => path = <<>>
    BY DEF Init, path
  <2>. QED
    BY <2>1 DEF Ordered
<1>2. ASSUME TypeOK, Ordered, [Next]_vars
      PROVE  Ordered'
  <2>1. CASE Write
    <3>1. path \in Seq(Entries)
      BY <1>2, PathType
    <3>2. /\ \A i \in 1 .. Len(path) : path[i] \in Nat
          /\ Len(path) \in Nat
      BY <3>1, ElementOfSeq, LenProperties, LogBatchAssumption DEF Entries
    <3>3. written \in Nat /\ written' = written + 1 /\ written + 1 \in Entries
      BY <1>2, <2>1, LogBatchAssumption DEF TypeOK, Write, Entries
    <3>4. CASE Full
      <4>1. path' = path
        BY <2>1, <3>4 DEF Write, path
      <4>. QED
        BY <1>2, <3>2, <3>3, <4>1 DEF Ordered
    <3>5. CASE ~Full
      <4>1. queue' = Append(queue, written + 1) /\ UNCHANGED <<buf, handed>>
        BY <2>1, <3>5 DEF Write
      <4>2. path' = Append(path, written + 1)
        BY <1>2, <3>3, <4>1, PathAppended
      <4>3. /\ Len(path') = Len(path) + 1
            /\ \A i \in 1 .. Len(path) : path'[i] = path[i]
            /\ path'[Len(path) + 1] = written + 1
        BY <3>1, <3>3, <4>2, AppendProperties
      <4>4. ASSUME NEW i \in 1 .. Len(path'), NEW j \in 1 .. Len(path'), i < j
            PROVE  path'[i] < path'[j]
        <5>1. CASE j \in 1 .. Len(path)
          BY <1>2, <3>2, <4>3, <4>4, <5>1 DEF Ordered
        <5>2. CASE j = Len(path) + 1
          BY <1>2, <3>2, <3>3, <4>3, <4>4, <5>2 DEF Ordered
        <5>. QED
          BY <3>2, <4>3, <5>1, <5>2
      <4>5. ASSUME NEW i \in 1 .. Len(path')
            PROVE  path'[i] <= written'
        <5>1. CASE i \in 1 .. Len(path)
          BY <1>2, <3>2, <3>3, <4>3, <5>1 DEF Ordered
        <5>2. CASE i = Len(path) + 1
          BY <3>3, <4>3, <5>2
        <5>. QED
          BY <3>2, <4>3, <5>1, <5>2
      <4>. QED
        BY <4>4, <4>5 DEF Ordered
    <3>. QED
      BY <3>4, <3>5
  <2>2. CASE Run
    <3>1. path' = path /\ written' = written
      BY <1>2, <2>2, PathKept DEF Run, Collect, Sent, FlushDue, SeeDone, EndDrain, Return
    <3>. QED
      BY <1>2, <3>1 DEF Ordered
  <2>3. CASE Close \/ UNCHANGED vars
    BY <1>2, <2>3 DEF Close, vars, Ordered, path
  <2>. QED
    BY <1>2, <2>1, <2>2, <2>3 DEF Next
<1>. QED
  BY <1>1, <1>2, NothingDisappears, PTL DEF Spec

\* The sink is given entries in the order in which Write queued them, each at most
\* once: neither a full batch, nor the ticker, nor the drain reorders or repeats one.
THEOREM OrderKept == Spec => []InOrder
<1>1. Ordered => InOrder
  BY DEF Ordered, InOrder, path
<1>. QED
  BY <1>1, AlwaysOrdered, PTL

----------------------------------------------------------------------------
\* What Close found waiting is still on its way, and past the point where the drain
\* finds the queue empty it is at most in the last batch.
Owed ==
  /\ promised \subseteq Range(handed) \cup Range(buf) \cup Range(queue)
  /\ pc = "lastSend" => promised \subseteq Range(handed) \cup Range(buf)
  /\ pc \in {"return", "returned"} => promised \subseteq Range(handed)
  /\ ~closed => pc \in {"select", "send"} /\ promised = {}

LEMMA RangeSteps ==
  ASSUME NEW s \in Seq(Entries), NEW t \in Seq(Entries), NEW e \in Entries
  PROVE  /\ Range(<<>>) = {}
         /\ Range(s \o t) = Range(s) \cup Range(t)
         /\ Range(Append(s, e)) = Range(s) \cup {e}
         /\ s # <<>> => Range(s) = Range(Tail(s)) \cup {Head(s)}
<1>1. Range(<<>>) = {}
  BY DEF Range
<1>2. Range(s \o t) = Range(s) \cup Range(t)
  BY RangeConcatenation, ZenonT(60)
<1>3. Range(Append(s, e)) = Range(s) \cup {e}
  <2>1. <<e>> \in Seq(Entries) /\ Range(<<e>>) = {e}
    BY DEF Range
  <2>2. Range(s \o <<e>>) = Range(s) \cup Range(<<e>>)
    BY <2>1, RangeConcatenation, ZenonT(60)
  <2>3. Append(s, e) = s \o <<e>>
    BY AppendIsConcat
  <2>. QED
    BY <2>1, <2>2, <2>3, Zenon
<1>4. ASSUME s # <<>>
      PROVE  Range(s) = Range(Tail(s)) \cup {Head(s)}
  <2>1. /\ Tail(s) \in Seq(Entries) /\ Len(s) \in Nat \ {0} /\ Len(Tail(s)) = Len(s) - 1
        /\ \A i \in 1 .. Len(Tail(s)) : Tail(s)[i] = s[i + 1]
        /\ Head(s) = s[1]
    BY <1>4, HeadTailProperties, EmptySeq
  <2>2. Range(s) = {s[i] : i \in 1 .. Len(s)} /\ Range(Tail(s)) = {Tail(s)[i] : i \in 1 .. Len(Tail(s))}
    BY <2>1, RangeEquality, ZenonT(60)
  <2>3. \A i \in 2 .. Len(s) : s[i] = Tail(s)[i - 1] /\ i - 1 \in 1 .. Len(Tail(s))
    BY <2>1
  <2>4. Range(s) \subseteq Range(Tail(s)) \cup {Head(s)}
    <3> SUFFICES ASSUME NEW i \in 1 .. Len(s)
                 PROVE  s[i] \in Range(Tail(s)) \cup {Head(s)}
      BY <2>2
    <3>1. CASE i = 1
      BY <2>1, <3>1
    <3>2. CASE i \in 2 .. Len(s)
      BY <2>2, <2>3, <3>2, SMTT(40)
    <3>. QED
      BY <2>1, <3>1, <3>2
  <2>5. Range(Tail(s)) \cup {Head(s)} \subseteq Range(s)
    <3>1. Head(s) \in Range(s)
      BY <2>1, <2>2
    <3>2. ASSUME NEW i \in 1 .. Len(Tail(s))
          PROVE  Tail(s)[i] \in Range(s)
      <4>1. i + 1 \in 1 .. Len(s)
        BY <2>1
      <4>. QED
        BY <2>1, <2>2, <4>1
    <3>. QED
      BY <2>2, <3>1, <3>2
  <2>. QED
    BY <2>4, <2>5
<1>. QED
  BY <1>1, <1>2, <1>3, <1>4

LEMMA OwedInductive ==
  ASSUME TypeOK, Owed, [Next]_vars
  PROVE  Owed'
<1>1. queue \in Seq(Entries) /\ buf \in Seq(Entries) /\ handed \in Seq(Entries)
  BY DEF TypeOK
<1>2. CASE Write
  <2>1. Range(queue) \subseteq Range(queue')
    <3>1. CASE Full
      BY <1>2, <3>1 DEF Write
    <3>2. CASE ~Full
      <4>1. written + 1 \in Entries /\ queue' = Append(queue, written + 1)
        BY <1>2, <3>2, LogBatchAssumption DEF Write, TypeOK, Entries
      <4>2. Range(Append(queue, written + 1)) = Range(queue) \cup {written + 1}
        BY <1>1, <4>1, RangeSteps
      <4>. QED
        BY <4>1, <4>2
    <3>. QED
      BY <3>1, <3>2
  <2>2. UNCHANGED <<buf, handed, pc, closed, promised>>
    BY <1>2 DEF Write
  <2>. QED
    BY <2>1, <2>2 DEF Owed
<1>3. ASSUME NEW here \in {"select", "drain"}, NEW sending \in {"send", "drainSend"},
             Collect(here, sending), here = "select" <=> sending = "send"
      PROVE  Owed'
  <2>1. queue # <<>> /\ Head(queue) \in Entries
    BY <1>1, <1>3, HeadTailProperties DEF Collect
  <2>2. Range(queue) = Range(Tail(queue)) \cup {Head(queue)}
    BY <1>1, <2>1, RangeSteps
  <2>3. Range(Append(buf, Head(queue))) = Range(buf) \cup {Head(queue)}
    BY <1>1, <2>1, RangeSteps
  <2>4. Range(buf') \cup Range(queue') = Range(buf) \cup Range(queue)
    BY <1>3, <2>2, <2>3, Zenon DEF Collect, Collected
  <2>5. UNCHANGED <<handed, closed, promised>> /\ pc' \in {here, sending} /\ pc = here
    BY <1>3 DEF Collect
  <2>6. promised \subseteq Range(handed) \cup (Range(buf') \cup Range(queue'))
    BY <2>4 DEF Owed
  <2>. QED
    BY <1>3, <2>5, <2>6 DEF Owed
<1>4. ASSUME NEW sending \in {"send", "drainSend", "lastSend"},
             NEW next \in {"select", "drain", "return"}, Sent(sending, next),
             next = "return" <=> sending = "lastSend", next = "select" <=> sending = "send"
      PROVE  Owed'
  <2>1. Range(handed \o buf) = Range(handed) \cup Range(buf)
    BY <1>1, RangeConcatenation
  <2>2. Range(handed') = Range(handed) \cup Range(buf)
    BY <1>4, <2>1 DEF Sent
  <2>3. UNCHANGED <<queue, closed, promised>> /\ pc' = next /\ pc = sending
    BY <1>4 DEF Sent
  <2>. QED
    BY <1>4, <2>2, <2>3 DEF Owed
<1>5. CASE Close
  BY <1>5 DEF Close, Owed
<1>6. CASE EndDrain
  <2>1. /\ Range(queue) = {} /\ (buf = <<>> => Range(buf) = {})
        /\ UNCHANGED <<queue, buf, handed, closed, promised>>
        /\ pc = "drain" /\ pc' = IF buf = <<>> THEN "return" ELSE "lastSend"
    BY <1>6 DEF EndDrain, Drained, Range
  <2>. QED
    BY <2>1 DEF Owed
<1>7. CASE FlushDue \/ SeeDone \/ Return
  BY <1>7 DEF FlushDue, SeeDone, Return, Owed
<1>8. CASE UNCHANGED vars
  BY <1>8 DEF vars, Owed
<1>. QED
  BY <1>2, <1>3, <1>4, <1>5, <1>6, <1>7, <1>8 DEF Next, Run

LEMMA AlwaysOwed == Spec => []Owed
<1>1. Init => Owed
  BY DEF Init, Owed
<1>. QED
  BY <1>1, OwedInductive, NothingDisappears, PTL DEF Spec

\* When Close returns, everything it found queued or collected has been handed to
\* send, whatever requests wrote in the meantime.
THEOREM ClosingLosesNothing == Spec => []CloseDelivers
<1>1. Owed => CloseDelivers
  BY DEF Owed, CloseDelivers
<1>. QED
  BY <1>1, AlwaysOwed, PTL

----------------------------------------------------------------------------
\* batch keeps the promise of an Exporter: the queue, the batch being collected and
\* the loop that drains them look to a request like one place that never makes it
\* wait, passes entries on in turn and closes only when it may.
THEOREM ImplementsSink == Spec => RefinesSink
<1> USE DEF SinkView!vars, SinkView!Next
<1>1. Init => SinkView!Init
  BY DEF Init, SinkView!Init
<1>2. ASSUME TypeOK, Owed, [Next]_vars
      PROVE  [SinkView!Next]_SinkView!vars
  <2>1. queue \in Seq(Entries) /\ buf \in Seq(Entries) /\ handed \in Seq(Entries)
    BY <1>2 DEF TypeOK
  <2>2. CASE Write
    <3>1. UNCHANGED <<buf, handed, pc, closed, promised>> /\ written' = written + 1
      BY <2>2 DEF Write
    <3>2. CASE Full
      <4>1. Len(buf \o queue) = Len(buf) + Len(queue)
        BY <2>1, ConcatProperties
      <4>2. Len(buf \o queue) >= QueueDepth
        BY <2>1, <3>2, <4>1, LenProperties, LogBatchAssumption DEF Full
      <4>3. queue' = queue /\ dropped' = dropped + 1
        BY <2>2, <3>2 DEF Write, Drop
      <4>. QED
        BY <3>1, <4>2, <4>3 DEF SinkView!Drop
    <3>3. CASE ~Full
      <4>1. queue' = Append(queue, written + 1) /\ dropped' = dropped /\ written + 1 \in Entries
        BY <1>2, <2>2, <3>3, LogBatchAssumption DEF Write, TypeOK, Entries
      <4>2. buf \o Append(queue, written + 1) = Append(buf \o queue, written + 1)
        BY <2>1, <4>1
      <4>. QED
        BY <3>1, <4>1, <4>2 DEF SinkView!Take
    <3>. QED
      BY <3>2, <3>3, SMTT(40)
  <2>3. ASSUME NEW here \in {"select", "drain"}, NEW sending \in {"send", "drainSend"},
               Collect(here, sending)
        PROVE  UNCHANGED SinkView!vars
    <3>1. buf' \o queue' = buf \o queue
      BY <2>1, <2>3 DEF Collect, Collected
    <3>2. pc # "returned" /\ pc' # "returned"
          /\ UNCHANGED <<handed, written, dropped, closed, promised>>
      BY <2>3 DEF Collect
    <3>. QED
      BY <3>1, <3>2
  <2>4. ASSUME NEW sending \in {"send", "drainSend", "lastSend"},
               NEW next \in {"select", "drain", "return"}, Sent(sending, next)
        PROVE  [SinkView!Next]_SinkView!vars
    <3>1. /\ pc # "returned" /\ pc' # "returned"
          /\ handed' = handed \o buf /\ buf' = <<>>
          /\ UNCHANGED <<queue, written, dropped, closed, promised>>
      BY <2>4 DEF Sent
    <3>2. <<>> \o queue = queue
      BY <2>1
    <3>3. CASE buf = <<>>
      <4>1. handed \o <<>> = handed
        BY <2>1
      <4>. QED
        BY <3>1, <3>2, <3>3, <4>1
    <3>4. CASE buf # <<>>
      <4>1. /\ Len(buf) \in 1 .. Len(buf \o queue)
            /\ SubSeq(buf \o queue, 1, Len(buf)) = buf
            /\ SubSeq(buf \o queue, Len(buf) + 1, Len(buf \o queue)) = queue
        BY <2>1, <3>4
      <4>. QED
        BY <3>1, <3>2, <4>1 DEF SinkView!PassOn
    <3>. QED
      BY <3>3, <3>4
  <2>5. CASE Close
    <3>1. Range(buf \o queue) = Range(queue) \cup Range(buf)
      BY <2>1, RangeConcatenation
    <3>2. pc # "returned" /\ ~closed /\ closed' = TRUE /\ promised' = Range(queue) \cup Range(buf)
          /\ UNCHANGED <<queue, buf, handed, written, dropped, pc>>
      BY <1>2, <2>5 DEF Close, Owed
    <3>3. /\ (IF ~closed THEN "open" ELSE IF pc = "returned" THEN "closed" ELSE "closing") = "open"
          /\ (IF ~closed' THEN "open" ELSE IF pc' = "returned" THEN "closed" ELSE "closing") = "closing"
      BY <3>2, Zenon
    <3>4. SinkView!Close
      BY <3>1, <3>2, <3>3, Zenon DEF SinkView!Close, SinkView!Range, Range
    <3>. QED
      BY <3>4
  <2>6. CASE Return
    <3>1. /\ closed /\ promised \subseteq Range(handed) /\ pc = "return" /\ pc' = "returned"
          /\ UNCHANGED <<queue, buf, handed, written, dropped, closed, promised>>
      BY <1>2, <2>6 DEF Return, Owed
    <3>2. /\ (IF ~closed THEN "open" ELSE IF pc = "returned" THEN "closed" ELSE "closing") = "closing"
          /\ (IF ~closed' THEN "open" ELSE IF pc' = "returned" THEN "closed" ELSE "closing") = "closed"
      BY <3>1, Zenon
    <3>3. SinkView!CloseReturns
      BY <3>1, <3>2, Zenon DEF SinkView!CloseReturns, SinkView!Range, Range
    <3>. QED
      BY <3>3
  <2>7. CASE FlushDue \/ SeeDone \/ EndDrain
    BY <2>7 DEF FlushDue, SeeDone, EndDrain
  <2>8. CASE UNCHANGED vars
    BY <2>8 DEF vars
  <2>. QED
    BY <1>2, <2>2, <2>3, <2>4, <2>5, <2>6, <2>7, <2>8 DEF Next, Run
<1>. QED
  BY <1>1, <1>2, AlwaysOwed, NothingDisappears, PTL DEF Spec, RefinesSink, SinkView!Spec

----------------------------------------------------------------------------
\* The process (main.go, cli/engine.go).

LEMMA StepOfSink ==
  ASSUME [Step]_allVars
  PROVE  [Next]_vars
BY DEF Step, Stop, Accept, NoBackend, LogFile, LogRemote, Count, Attempt, LogTransition,
       TransitionRemote, RunSink, Listen, Terminate, Tick, ShutdownReturns, CloseFile, CloseSink, Exit,
       Next, vars, allVars

\* The exporter behaves inside the process as it does alone, so what is proved of
\* batch holds of the running program: neither requests, nor probes, nor the
\* shutdown sequence use it in another way than LogBatch allows.
THEOREM RunsSink == ProcessSpec => Spec
<1>1. Start => Init
  BY DEF Start
<1>. QED
  BY <1>1, StepOfSink, PTL DEF ProcessSpec, Spec

\* Every counter, queue and phase of the process stays within its type.
THEOREM ProcessTypeCorrect == ProcessSpec => []ProcessTypeOK
<1> USE ProcessAssumption, LogBatchAssumption DEF Writers
<1>1. TypeOK /\ Start => ProcessTypeOK
  BY EmptySeq, SMTT(40) DEF Start, Init, ProcessTypeOK
<1>2. ASSUME ProcessTypeOK, TypeOK', [Step]_allVars
      PROVE  ProcessTypeOK'
  <2> USE <1>2 DEF ProcessTypeOK
  <2>1. ASSUME NEW r \in Requests, Accept(r) \/ NoBackend(r) \/ LogFile(r) \/ Count(r)
        PROVE  ProcessTypeOK'
    <3>1. CASE Accept(r)
      BY <3>1 DEF Accept, counters, vars
    <3>2. CASE NoBackend(r)
      BY <3>2 DEF NoBackend, GiveUp, counters, vars
    <3>3. CASE LogFile(r)
      BY <3>3 DEF LogFile, WriteFile, counters, vars
    <3>4. CASE Count(r)
      BY <3>4 DEF Count, vars
    <3>. QED
      BY <2>1, <3>1, <3>2, <3>3, <3>4, SMTT(40)
  <2>2. ASSUME NEW r \in Requests, NEW s \in Servers, Attempt(r, s)
        PROVE  ProcessTypeOK'
    <3>1. requestsTotal' \in [Servers -> Nat] /\ attempts' \in [Servers -> Nat]
      BY <2>2, SMTT(40) DEF Attempt, Attempted
    <3>2. /\ at' \in [Writers -> {"new", "serving", "logging", "remote", "counting", "done", "probing"}]
          /\ tries' \in [Requests -> 0 .. MaxRetries]
          /\ good' \in [Requests -> Servers \cup {NoServer}]
      <4>1. CASE Retry(r)
        BY <4>1 DEF Retry, More
      <4>2. CASE GiveUp(r)
        BY <4>2 DEF GiveUp
      <4>3. CASE Answered(r, s)
        <5>1. good' = good \/ good' = [good EXCEPT ![r] = s]
          BY <4>3 DEF Answered
        <5>2. good' \in [Requests -> Servers \cup {NoServer}]
          BY <2>2, <5>1
        <5>. QED
          BY <4>3, <5>2 DEF Answered
      <4>. QED
        BY <2>2, <4>1, <4>2, <4>3 DEF Attempt
    <3>. QED
      BY <2>2, <3>1, <3>2 DEF Attempt, vars
  <2>3. ASSUME NEW r \in Requests, LogRemote(r)
        PROVE  ProcessTypeOK'
    <3>1. /\ author' \in Seq(Writers) /\ Len(author') = Len(author) + 1
          /\ written' = written + 1
      BY <2>3, AppendProperties DEF LogRemote, Write
    <3>. QED
      BY <2>3, <3>1, SMTT(40) DEF LogRemote, counters
  <2>4. ASSUME NEW s \in Servers, TransitionRemote(s)
        PROVE  ProcessTypeOK'
    <3>1. /\ author' \in Seq(Writers) /\ Len(author') = Len(author) + 1
          /\ written' = written + 1
      BY <2>4, AppendProperties DEF TransitionRemote, Write
    <3>. QED
      BY <2>4, <3>1, SMTT(40) DEF TransitionRemote, counters
  <2>9. ASSUME NEW s \in Servers, LogTransition(s)
        PROVE  ProcessTypeOK'
    BY <2>9 DEF LogTransition, WriteFile, counters, vars
  <2>5. CASE RunSink
    <3>1. written' = written
      BY <2>5 DEF RunSink, Run, Collect, FlushDue, Sent, SeeDone, EndDrain, Return
    <3>. QED
      BY <2>5, <3>1, SMTT(40) DEF RunSink, procVars, counters
  <2>6. CASE Listen \/ Terminate \/ Tick \/ ShutdownReturns \/ CloseFile \/ Exit
    <3>1. CASE Listen \/ Terminate \/ CloseFile \/ Exit
      BY <3>1 DEF Listen, Terminate, CloseFile, Exit, Goto, counters, vars
    <3>2. CASE Tick \/ ShutdownReturns
      BY <3>2 DEF Tick, ShutdownReturns, Goto, Unfinished, counters, vars
    <3>. QED
      BY <2>6, <3>1, <3>2, SMTT(40)
  <2>7. CASE CloseSink
    BY <2>7 DEF CloseSink, Close, Goto, counters
  <2>8. CASE UNCHANGED allVars
    BY <2>8 DEF allVars, procVars, counters, vars
  <2>. HIDE DEF ProcessTypeOK, Writers
  <2>. QED
    BY <1>2, <2>1, <2>2, <2>3, <2>4, <2>5, <2>6, <2>7, <2>8, <2>9, SMTT(40) DEF Step, Stop
<1>. QED
  BY <1>1, <1>2, RunsSink, NothingDisappears, PTL DEF ProcessSpec

----------------------------------------------------------------------------
\* What requestsTotal counts twice.
Twice(s) == {r \in Requests : at[r] = "done" /\ good[r] = s}

LEMMA TwiceFinite ==
  ASSUME NEW s
  PROVE  IsFiniteSet(Twice(s)) /\ Cardinality(Twice(s)) \in Nat
BY ProcessAssumption, FS_Subset, FS_CardinalityType DEF Twice

\* haribon_requests_total is the attempts plus the 2xx answers logged, for every
\* server, however requests interleave: the handler and the log adapter count into
\* the same series.
THEOREM TotalsAreAttemptsAndSuccesses == ProcessSpec => []TotalsExplained
<1>1. Start => TotalsExplained
  <2>1. Start => \A s \in Servers : Twice(s) = {}
    BY DEF Start, Twice, Writers
  <2>2. ASSUME Start, NEW s \in Servers
        PROVE  requestsTotal[s] = attempts[s] + Cardinality(Twice(s))
    <3>1. Cardinality(Twice(s)) = 0
      BY <2>1, <2>2, FS_EmptySet
    <3>2. requestsTotal[s] = 0 /\ attempts[s] = 0
      BY <2>2 DEF Start
    <3>. QED
      BY <3>1, <3>2
  <2>. QED
    BY <2>2 DEF TotalsExplained, Twice
<1>2. ASSUME ProcessTypeOK, TotalsExplained, [Step]_allVars
      PROVE  TotalsExplained'
  <2> SUFFICES ASSUME NEW s \in Servers
               PROVE  requestsTotal'[s] = attempts'[s] + Cardinality(Twice(s)')
    BY DEF TotalsExplained, Twice
  <2>1. requestsTotal[s] = attempts[s] + Cardinality(Twice(s))
    BY <1>2 DEF TotalsExplained, Twice
  <2>2. /\ requestsTotal[s] \in Nat /\ attempts[s] \in Nat
        /\ IsFiniteSet(Twice(s)) /\ Cardinality(Twice(s)) \in Nat
    BY <1>2, TwiceFinite DEF ProcessTypeOK
  <2>3. ASSUME NEW r \in Requests, Accept(r) \/ NoBackend(r) \/ LogFile(r) \/ LogRemote(r)
        PROVE  UNCHANGED <<requestsTotal, attempts>> /\ Twice(s)' = Twice(s)
    BY <1>2, <2>3
    DEF Accept, NoBackend, GiveUp, LogFile, LogRemote, counters, Twice, ProcessTypeOK, Writers
  <2>4. ASSUME NEW r \in Requests, NEW t \in Servers, Attempt(r, t)
        PROVE  requestsTotal'[s] = attempts'[s] + Cardinality(Twice(s)')
    <3>1. /\ requestsTotal'[s] = requestsTotal[s] + (IF s = t THEN 1 ELSE 0)
          /\ attempts'[s] = attempts[s] + (IF s = t THEN 1 ELSE 0)
      BY <1>2, <2>4 DEF Attempt, Attempted, ProcessTypeOK
    <3>2. /\ at[r] = "serving" /\ at'[r] # "done"
          /\ \A q \in Requests \ {r} : at'[q] = at[q] /\ good'[q] = good[q]
      BY <1>2, <2>4 DEF Attempt, Retry, GiveUp, Answered, ProcessTypeOK, Writers
    <3>3. Twice(s)' = Twice(s)
      BY <3>2 DEF Twice
    <3>. QED
      BY <2>1, <2>2, <3>1, <3>3, SMTT(40)
  <2>5. ASSUME NEW r \in Requests, Count(r)
        PROVE  requestsTotal'[s] = attempts'[s] + Cardinality(Twice(s)')
    <3>1. /\ requestsTotal'[s] = requestsTotal[s] + (IF good[r] = s THEN 1 ELSE 0)
          /\ attempts' = attempts /\ good' = good
          /\ at[r] = "counting" /\ at'[r] = "done"
          /\ \A q \in Requests \ {r} : at'[q] = at[q]
      BY <1>2, <2>5, SMTT(40) DEF Count, ProcessTypeOK, Writers
    <3>2. CASE good[r] = s
      <4>1. Twice(s)' = Twice(s) \cup {r} /\ r \notin Twice(s)
        BY <3>1, <3>2 DEF Twice
      <4>2. Cardinality(Twice(s)') = Cardinality(Twice(s)) + 1
        BY <2>2, <4>1, FS_AddElement, ZenonT(60)
      <4>. QED
        BY <2>1, <2>2, <3>1, <3>2, <4>2, SMTT(40)
    <3>3. CASE good[r] # s
      <4>1. Twice(s)' = Twice(s)
        BY <3>1, <3>3 DEF Twice
      <4>. QED
        BY <2>1, <2>2, <3>1, <3>3, <4>1
    <3>. QED
      BY <3>2, <3>3
  <2>7. ASSUME NEW t \in Servers, LogTransition(t) \/ TransitionRemote(t)
        PROVE  UNCHANGED <<requestsTotal, attempts>> /\ Twice(s)' = Twice(s)
    <3>1. UNCHANGED <<requestsTotal, attempts, good>> /\ \A q \in Requests : at'[q] = at[q]
      BY <1>2, <2>7, ProcessAssumption DEF LogTransition, TransitionRemote, counters, ProcessTypeOK, Writers
    <3>. QED
      BY <3>1 DEF Twice
  <2>6. CASE RunSink \/ Listen \/ Terminate \/ Stop \/ UNCHANGED allVars
    <3>1. UNCHANGED <<requestsTotal, attempts, at, good>>
      BY <2>6 DEF RunSink, Listen, Terminate, Stop, Tick, ShutdownReturns,
                  CloseFile, CloseSink, Exit, Goto, counters, procVars, allVars
    <3>. QED
      BY <2>1, <3>1 DEF Twice
  <2>. QED
    BY <1>2, <2>1, <2>3, <2>4, <2>5, <2>6, <2>7, SMTT(40) DEF Step
<1>. QED
  BY <1>1, <1>2, ProcessTypeCorrect, PTL DEF ProcessSpec

----------------------------------------------------------------------------
Draining == phase \in {"closeFile", "closeSink", "waiting", "exited"}

\* What the drain leaves: once Shutdown has returned nobody new is served, so only
\* requests it gave up on are still running, and it gives up only at its deadline.
GaveUp ==
  /\ Draining => Unfinished \subseteq left /\ (left # {} => waited = ShutdownTimeout)
  /\ ~Draining => left = {}

\* The log file is closed after the drain.
Filed ==
  /\ phase \notin {"closeSink", "waiting", "exited"} => fileOpen
  /\ \A r \in Requests \ left : at[r] \in {"remote", "counting", "done"} => r \in file

LEMMA ShutdownInductive ==
  ASSUME ProcessTypeOK, GaveUp, Filed, [Step]_allVars
  PROVE  GaveUp' /\ Filed'
<1> USE DEF Draining, Writers
<1>1. ASSUME NEW r \in Requests, Accept(r)
      PROVE  GaveUp' /\ Filed'
  <2>1. phase = "serving" /\ phase' = phase /\ left' = left /\ file' = file /\ fileOpen' = fileOpen
    BY <1>1 DEF Accept, Accepting
  <2>2. at'[r] = "serving" /\ \A q \in Requests \ {r} : at'[q] = at[q]
    BY <1>1 DEF Accept, ProcessTypeOK
  <2>. QED
    BY <2>1, <2>2 DEF GaveUp, Filed
<1>2. ASSUME NEW r \in Requests, \/ NoBackend(r) \/ LogRemote(r) \/ Count(r)
                                 \/ \E s \in Servers : Attempt(r, s)
      PROVE  GaveUp' /\ Filed'
  <2>1. UNCHANGED <<phase, left, waited, file, fileOpen>>
    BY <1>2, SMTT(40) DEF NoBackend, LogRemote, Count, Attempt
  <2>2. \A q \in Requests \ {r} : at'[q] = at[q]
    BY <1>2, SMTT(40) DEF NoBackend, GiveUp, LogRemote, Count, Attempt, Retry, Answered, ProcessTypeOK
  <2>3. /\ at[r] \notin {"new", "done"}
        /\ at'[r] \in {"remote", "counting", "done"} => at[r] \in {"remote", "counting", "done"}
    BY <1>2 DEF NoBackend, GiveUp, LogRemote, Count, Attempt, Retry, Answered, ProcessTypeOK
  <2>4. Unfinished' \subseteq Unfinished
    BY <2>2, <2>3, SMTT(40) DEF Unfinished
  <2>. QED
    BY <2>1, <2>2, <2>3, <2>4, SMTT(40) DEF GaveUp, Filed
<1>3. ASSUME NEW r \in Requests, LogFile(r)
      PROVE  GaveUp' /\ Filed'
  <2>1. UNCHANGED <<phase, left, waited, fileOpen>>
    BY <1>3 DEF LogFile
  <2>2. /\ at[r] = "logging" /\ at'[r] = "remote"
        /\ \A q \in Requests \ {r} : at'[q] = at[q]
    BY <1>3 DEF LogFile, ProcessTypeOK
  <2>3. Unfinished' = Unfinished /\ r \in Unfinished
    BY <2>2 DEF Unfinished
  <2>4. file \subseteq file' /\ (fileOpen => r \in file')
    BY <1>3 DEF LogFile, WriteFile
  <2>5. r \notin left => r \in file'
    BY <2>3, <2>4 DEF GaveUp, Filed
  <2>. QED
    BY <2>1, <2>2, <2>3, <2>4, <2>5, SMTT(40) DEF GaveUp, Filed
<1>7. ASSUME NEW s \in Servers, LogTransition(s) \/ TransitionRemote(s)
      PROVE  GaveUp' /\ Filed'
  <2>1. UNCHANGED <<phase, left, waited, fileOpen>> /\ file \subseteq file'
    BY <1>7 DEF LogTransition, TransitionRemote, WriteFile
  <2>2. \A q \in Requests : at'[q] = at[q]
    BY <1>7, ProcessAssumption DEF LogTransition, TransitionRemote, ProcessTypeOK, Writers
  <2>. QED
    BY <2>1, <2>2 DEF GaveUp, Filed, Unfinished
<1>4. CASE RunSink \/ UNCHANGED allVars
  <2>1. UNCHANGED <<phase, left, waited, fileOpen, at>> /\ file \subseteq file'
    BY <1>4 DEF RunSink, procVars, allVars
  <2>. QED
    BY <2>1 DEF GaveUp, Filed, Unfinished
<1>5. CASE Listen \/ Terminate \/ Tick \/ CloseFile \/ CloseSink \/ Exit
  <2>1. UNCHANGED <<left, at, file>> /\ Unfinished' = Unfinished
    BY <1>5 DEF Listen, Terminate, Tick, CloseFile, CloseSink, Exit, Goto, Unfinished
  <2>2. /\ Draining' <=> Draining
        /\ Draining => waited' = waited
        /\ phase' \notin {"closeSink", "waiting", "exited"} =>
             phase \notin {"closeSink", "waiting", "exited"} /\ fileOpen' = fileOpen
    BY <1>5 DEF Listen, Terminate, Tick, CloseFile, CloseSink, Exit, Goto
  <2>. QED
    BY <2>1, <2>2, SMTT(40) DEF GaveUp, Filed
<1>6. CASE ShutdownReturns
  BY <1>6 DEF ShutdownReturns, DrainOver, Goto, Unfinished, GaveUp, Filed
<1>. QED
  BY <1>1, <1>2, <1>3, <1>4, <1>5, <1>6, <1>7, SMTT(40) DEF Step, Stop

LEMMA AlwaysShutDown == ProcessSpec => [](GaveUp /\ Filed)
<1>1. Start => GaveUp /\ Filed
  BY DEF Start, Writers, GaveUp, Filed, Draining
<1>. QED
  BY <1>1, ShutdownInductive, ProcessTypeCorrect, PTL DEF ProcessSpec

\* A request is cut short by a shutdown only if it outlived shutdown_timeout_sec:
\* Shutdown takes in no request, and waits for the others until its deadline.
THEOREM NobodyCutEarly == ProcessSpec => []CutOnlyByTimeout
<1>1. GaveUp => CutOnlyByTimeout
  BY DEF GaveUp, Draining, CutOnlyByTimeout
<1>. QED
  BY <1>1, AlwaysShutDown, PTL

----------------------------------------------------------------------------
Inside == Range(buf) \cup Range(queue)

\* What reaches the sink after its Close comes from a request the drain gave up on,
\* or from a probe.
Latecomers ==
  /\ closed <=> phase \in {"waiting", "exited"}
  /\ phase = "exited" => pc = "returned"
  /\ closed => \A e \in Inside : e \in promised \/ author[e] \in left \cup Servers

\* An entry inside the sink has been written, and has not been handed over.
LEMMA InsideOnce ==
  ASSUME TypeOK, Ordered
  PROVE  \A e \in Inside : e \in 1 .. written /\ e \notin Range(handed)
<1>1. handed \in Seq(Entries) /\ buf \in Seq(Entries) /\ queue \in Seq(Entries) /\ written \in Nat
  BY LogBatchAssumption DEF TypeOK
<1> DEFINE rest == buf \o queue
<1>2. rest \in Seq(Entries) /\ Range(rest) = Inside
  BY <1>1, ConcatProperties, RangeConcatenation DEF Inside
<1>3. path = handed \o rest
  BY <1>1, ConcatAssociative DEF path
<1> HIDE DEF rest
<1>4. /\ Len(handed) \in Nat /\ Len(rest) \in Nat
      /\ Len(path) = Len(handed) + Len(rest)
      /\ \A i \in 1 .. Len(handed) : path[i] = handed[i]
      /\ \A i \in 1 .. Len(rest) : path[Len(handed) + i] = rest[i]
  BY <1>1, <1>2, <1>3, LenProperties, ConcatProperties, SMTT(40)
<1>5. \A i \in 1 .. Len(rest) : rest[i] \in Nat \ {0}
  BY <1>2, ElementOfSeq, LogBatchAssumption DEF Entries
<1>6. ASSUME NEW i \in 1 .. Len(rest)
      PROVE  rest[i] \in 1 .. written
  <2>1. Len(handed) + i \in 1 .. Len(path)
    BY <1>4
  <2>2. path[Len(handed) + i] <= written
    BY <2>1 DEF Ordered
  <2>. QED
    BY <1>1, <1>4, <1>5, <2>2, SMTT(40)
<1>7. ASSUME NEW i \in 1 .. Len(rest), NEW j \in 1 .. Len(handed)
      PROVE  rest[i] # handed[j]
  <2>1. Len(handed) + i \in 1 .. Len(path) /\ j \in 1 .. Len(path) /\ j < Len(handed) + i
    BY <1>4
  <2>2. path[j] < path[Len(handed) + i]
    BY <2>1 DEF Ordered
  <2>3. handed[j] < rest[i]
    BY <1>4, <2>2
  <2>. QED
    BY <1>5, <1>6, <2>3
<1>8. Range(rest) = {rest[i] : i \in 1 .. Len(rest)} /\ Range(handed) = {handed[i] : i \in 1 .. Len(handed)}
  BY <1>1, <1>2, RangeEquality
<1>. QED
  BY <1>2, <1>6, <1>7, <1>8, SMTT(40)

LEMMA RunTakesNothingIn ==
  ASSUME TypeOK, Run
  PROVE  Inside' \subseteq Inside /\ closed' = closed /\ promised' = promised
<1>1. queue \in Seq(Entries) /\ buf \in Seq(Entries)
  BY DEF TypeOK
<1>2. ASSUME NEW here, NEW sending, Collect(here, sending)
      PROVE  Inside' \subseteq Inside
  <2>1. queue # <<>> /\ Head(queue) \in Entries
    BY <1>1, <1>2, HeadTailProperties DEF Collect
  <2>2. Range(queue) = Range(Tail(queue)) \cup {Head(queue)}
    BY <1>1, <2>1, RangeSteps
  <2>3. Range(Append(buf, Head(queue))) = Range(buf) \cup {Head(queue)}
    BY <1>1, <2>1, RangeSteps
  <2>. QED
    BY <1>2, <2>2, <2>3, Zenon DEF Collect, Collected, Inside
<1>3. ASSUME NEW sending, NEW next, Sent(sending, next)
      PROVE  Inside' \subseteq Inside
  BY <1>3 DEF Sent, Inside, Range
<1>4. CASE FlushDue \/ SeeDone \/ EndDrain \/ Return
  BY <1>4, SMTT(40) DEF FlushDue, SeeDone, EndDrain, Return, Inside
<1>5. closed' = closed /\ promised' = promised
  BY SMTT(40) DEF Run, Collect, Sent, FlushDue, SeeDone, EndDrain, Return
<1>. QED
  BY <1>2, <1>3, <1>4, <1>5, SMTT(40) DEF Run

\* An entry taken in, or dropped, by Write: the others keep their authors.
LEMMA WriteByLatecomer ==
  ASSUME ProcessTypeOK, Ordered, Latecomers, Write,
         NEW w \in Writers, author' = Append(author, w),
         closed => w \in left \cup Servers,
         UNCHANGED <<phase, left>>
  PROVE  Latecomers'
<1>1. TypeOK /\ author \in Seq(Writers) /\ Len(author) = written /\ written \in Nat
  BY LogBatchAssumption DEF ProcessTypeOK, TypeOK
<1>2. /\ \A i \in 1 .. written : author'[i] = author[i]
      /\ author'[written + 1] = w
  BY <1>1, AppendProperties
<1>3. UNCHANGED <<pc, closed, promised, buf>>
  BY DEF Write
<1>4. Range(queue') \subseteq Range(queue) \cup {written + 1}
  <2>1. CASE Full
    BY <2>1 DEF Write
  <2>2. CASE ~Full
    <3>1. /\ written + 1 \in Entries /\ queue' = Append(queue, written + 1)
          /\ queue \in Seq(Entries)
      BY <1>1, <2>2, LogBatchAssumption, SMTT(40) DEF Write, TypeOK, Entries
    <3>2. Range(Append(queue, written + 1)) = Range(queue) \cup {written + 1}
      BY <3>1, RangeSteps
    <3>. QED
      BY <3>1, <3>2
  <2>. QED
    BY <2>1, <2>2
<1>5. Inside' \subseteq Inside \cup {written + 1}
  BY <1>3, <1>4 DEF Inside
<1>6. \A e \in Inside : e \in 1 .. written
  BY <1>1, InsideOnce, SMTT(40)
<1>. QED
  BY <1>2, <1>3, <1>5, <1>6 DEF Latecomers

LEMMA LatecomersInductive ==
  ASSUME ProcessTypeOK, Ordered, GaveUp, Latecomers, [Step]_allVars
  PROVE  Latecomers'
<1>1. ASSUME NEW r \in Requests, LogRemote(r)
      PROVE  Latecomers'
  <2>1. closed => r \in left
    BY <1>1 DEF LogRemote, Latecomers, GaveUp, Draining, Unfinished
  <2>2. Write /\ author' = Append(author, r) /\ UNCHANGED <<phase, left>>
    BY <1>1 DEF LogRemote
  <2>3. r \in Writers
    BY DEF Writers
  <2>. QED
    BY <2>1, <2>2, <2>3, WriteByLatecomer, SMTT(40)
<1>2. ASSUME NEW s \in Servers, TransitionRemote(s)
      PROVE  Latecomers'
  <2>1. s \in Writers
    BY DEF Writers
  <2>. QED
    BY <1>2, <2>1, WriteByLatecomer DEF TransitionRemote
<1>3. CASE RunSink
  <2>1. /\ UNCHANGED <<phase, left, author, closed, promised>> /\ Inside' \subseteq Inside
        /\ phase # "exited"
    BY <1>3, RunTakesNothingIn, SMTT(40) DEF RunSink, procVars, Over, ProcessTypeOK
  <2>. QED
    BY <2>1 DEF Latecomers
<1>4. ASSUME NEW r \in Requests,
             \/ Accept(r) \/ NoBackend(r) \/ LogFile(r) \/ Count(r)
             \/ \E s \in Servers : Attempt(r, s)
      PROVE  UNCHANGED <<vars, author, phase, left>>
  BY <1>4 DEF Accept, NoBackend, LogFile, Count, Attempt
<1>11. ASSUME NEW s \in Servers, LogTransition(s)
       PROVE  UNCHANGED <<vars, author, phase, left>>
  BY <1>11 DEF LogTransition
<1>5. CASE UNCHANGED <<vars, author, phase, left>>
  BY <1>5 DEF vars, Latecomers, Inside
<1>6. CASE Listen \/ Terminate \/ Tick \/ CloseFile
  <2>1. /\ UNCHANGED <<vars, author, left>>
        /\ phase \notin {"waiting", "exited"} /\ phase' \notin {"waiting", "exited"}
    BY <1>6 DEF Listen, Terminate, Tick, CloseFile, Goto
  <2>. QED
    BY <2>1, SMTT(40) DEF vars, Latecomers
<1>7. CASE ShutdownReturns
  <2>1. UNCHANGED <<vars, author>> /\ phase = "draining" /\ phase' = "closeFile"
    BY <1>7, SMTT(40) DEF ShutdownReturns, Goto
  <2>. QED
    BY <2>1 DEF vars, Latecomers
<1>8. CASE CloseSink
  BY <1>8 DEF CloseSink, Close, Goto, Latecomers, Inside
<1>9. CASE Exit
  BY <1>9 DEF Exit, SinkClosed, Goto, vars, Latecomers, Inside
<1>10. CASE UNCHANGED allVars
  BY <1>5, <1>10 DEF allVars, procVars
<1>. QED
  BY <1>1, <1>2, <1>3, <1>4, <1>5, <1>6, <1>7, <1>8, <1>9, <1>10, <1>11, SMTT(40) DEF Step, Stop

\* A process that ends by itself keeps the logs of what it finished: the file has
\* the line, and the sink has handed the entry over or counted it as dropped, as
\* Close comes after the drain and the process waits for it.
THEOREM LogsSurvive == ProcessSpec => []LogsKept
<1>1. Start => Latecomers
  BY DEF Start, Init, Latecomers
<1>2. ASSUME ProcessTypeOK, Ordered, Owed, Filed, Latecomers
      PROVE  LogsKept
  <2> SUFFICES ASSUME phase = "exited"
               PROVE  /\ \A r \in Requests \ left : at[r] = "done" => r \in file
                      /\ \A e \in Range(buf \o queue) : author[e] \in left \cup Servers
    BY DEF LogsKept
  <2>1. \A r \in Requests \ left : at[r] = "done" => r \in file
    BY <1>2 DEF Filed
  <2>2. Range(buf \o queue) = Inside
    BY <1>2, RangeConcatenation, SMTT(40) DEF ProcessTypeOK, TypeOK, Inside
  <2>3. promised \subseteq Range(handed)
    BY <1>2 DEF Latecomers, Owed
  <2>4. \A e \in Inside : e \notin Range(handed)
    BY <1>2, InsideOnce DEF ProcessTypeOK
  <2>5. \A e \in Inside : author[e] \in left \cup Servers
    BY <1>2, <2>3, <2>4 DEF Latecomers
  <2>. QED
    BY <2>1, <2>2, <2>5, SMTT(40)
<1>. QED
  BY <1>1, <1>2, LatecomersInductive, AlwaysShutDown, ProcessTypeCorrect, RunsSink,
     AlwaysOrdered, AlwaysOwed, PTL DEF ProcessSpec
=============================================================================
