------------------------------ MODULE LogBatch -----------------------------
(***************************************************************************)
(* The queue between requests and a remote log sink: batch in              *)
(* internal/logging/exporter.go.  Requests write without waiting, the run  *)
(* loop collects entries and hands them over batch by batch, and Close     *)
(* waits until what is queued has been handed over.  Entries are numbered  *)
(* in the order in which Write reaches the channel.                        *)
(***************************************************************************)
EXTENDS Naturals, Sequences, Functions

CONSTANTS
  QueueDepth,  \* defaultQueueDepth
  MaxBatch,    \* defaultMaxBatch
  MaxWrites    \* how many entries are written: a bound of the model

ASSUME LogBatchAssumption ==
  /\ QueueDepth \in Nat \ {0} /\ MaxBatch \in Nat \ {0}
  /\ MaxWrites \in Nat

VARIABLES
  queue,     \* the channel
  buf,       \* the batch being collected
  handed,    \* what send has been given, in order
  written, dropped,
  pc,        \* run: "select", "send", "drain", "drainSend", "lastSend", "return", "returned"
  closed,    \* has Close been called?
  promised   \* what was queued or collected when it was

vars == <<queue, buf, handed, written, dropped, pc, closed, promised>>

Entries == 1 .. MaxWrites

TypeOK ==
  /\ queue \in Seq(Entries) /\ Len(queue) <= QueueDepth
  /\ buf \in Seq(Entries) /\ Len(buf) <= MaxBatch
  /\ handed \in Seq(Entries)
  /\ written \in 0 .. MaxWrites /\ dropped \in 0 .. MaxWrites
  /\ pc \in {"select", "send", "drain", "drainSend", "lastSend", "return", "returned"}
  /\ closed \in BOOLEAN
  /\ promised \subseteq Entries

Init ==
  /\ queue = <<>> /\ buf = <<>> /\ handed = <<>>
  /\ written = 0 /\ dropped = 0
  /\ pc = "select"
  /\ closed = FALSE /\ promised = {}

----------------------------------------------------------------------------
\* Seeded fault: the last place in the channel is never used.
MutFullEarly == Len(queue) + 1 >= QueueDepth

Full == Len(queue) = QueueDepth

\* Seeded fault: what does not fit is dropped without being counted.
MutDrop == UNCHANGED dropped

Drop == dropped' = dropped + 1

\* Write never waits: an entry that does not fit is dropped and counted.  Not
\* even Close keeps requests that are still being served from writing.
Write ==
  /\ written < MaxWrites
  /\ written' = written + 1
  /\ IF Full
       THEN Drop /\ UNCHANGED queue
       ELSE queue' = Append(queue, written + 1) /\ UNCHANGED dropped
  /\ UNCHANGED <<buf, handed, pc, closed, promised>>

\* Seeded fault: the entry goes to the front of the batch.
MutCollected == <<Head(queue)>> \o buf

Collected == Append(buf, Head(queue))

\* The loop takes an entry, and sends when the batch is full.
Collect(here, sending) ==
  /\ pc = here
  /\ queue # <<>>
  /\ buf' = Collected
  /\ queue' = Tail(queue)
  /\ pc' = IF Len(buf') >= MaxBatch THEN sending ELSE here
  /\ UNCHANGED <<handed, written, dropped, closed, promised>>

\* Seeded fault: the ticker flushes full batches only.
MutFlushDue ==
  /\ pc = "select"
  /\ Len(buf) >= MaxBatch
  /\ pc' = "send"
  /\ UNCHANGED <<queue, buf, handed, written, dropped, closed, promised>>

\* The ticker fires; flush does nothing for an empty batch.
FlushDue ==
  /\ pc = "select"
  /\ buf # <<>>
  /\ pc' = "send"
  /\ UNCHANGED <<queue, buf, handed, written, dropped, closed, promised>>

\* send returns, whether or not the sink took the batch, which is then emptied.
Sent(sending, next) ==
  /\ pc = sending
  /\ handed' = handed \o buf
  /\ buf' = <<>>
  /\ pc' = next
  /\ UNCHANGED <<queue, written, dropped, closed, promised>>

\* Close closes done and then waits for the loop; a second call does nothing.
Close ==
  /\ ~closed
  /\ closed' = TRUE
  /\ promised' = Range(queue) \cup Range(buf)
  /\ UNCHANGED <<queue, buf, handed, written, dropped, pc>>

\* The loop notices, at the latest when select has nothing else to take.
SeeDone ==
  /\ pc = "select"
  /\ closed
  /\ pc' = "drain"
  /\ UNCHANGED <<queue, buf, handed, written, dropped, closed, promised>>

\* Seeded fault: the last batch is sent without draining the queue.
MutDrained == TRUE

Drained == queue = <<>>

\* The queue is found empty: what is left is flushed ...
EndDrain ==
  /\ pc = "drain"
  /\ Drained
  /\ pc' = IF buf = <<>> THEN "return" ELSE "lastSend"
  /\ UNCHANGED <<queue, buf, handed, written, dropped, closed, promised>>

\* ... and the loop returns, which is what Close waits for.
Return ==
  /\ pc = "return"
  /\ pc' = "returned"
  /\ UNCHANGED <<queue, buf, handed, written, dropped, closed, promised>>

Run ==
  \/ Collect("select", "send") \/ FlushDue \/ Sent("send", "select")
  \/ SeeDone
  \/ Collect("drain", "drainSend") \/ Sent("drainSend", "drain")
  \/ EndDrain \/ Sent("lastSend", "return") \/ Return

Next == Write \/ Run \/ Close

Spec == Init /\ [][Next]_vars

----------------------------------------------------------------------------
\* Every entry written is in the queue, in the batch, handed over, or counted by
\* Dropped: none disappears in between, at any moment of a flush or a drain.
Accounted == written = Len(queue) + Len(buf) + Len(handed) + dropped

\* The sink is given entries in the order they were written, each at most once.
InOrder ==
  LET path == handed \o buf \o queue
  IN  \A i, j \in 1 .. Len(path) : i < j => path[i] < path[j]

\* Close does not lose what was queued when it was called, whatever is written
\* meanwhile (internal/logging/exporter_test.go:7: "Close must not
\* lose what is already queued").
CloseDelivers == pc = "returned" => promised \subseteq Range(handed)

\* The queue, the batch and the loop together keep the promise of an exporter:
\* nothing overtakes, nothing is dropped while the channel has room, nothing goes
\* out after Close returned, and Close returns only when it may.
SinkView ==
  INSTANCE Sink WITH
    Room <- QueueDepth,
    waiting <- buf \o queue, passed <- handed,
    phase <- IF ~closed THEN "open" ELSE IF pc = "returned" THEN "closed" ELSE "closing",
    owed <- promised

RefinesSink == SinkView!Spec
=============================================================================
