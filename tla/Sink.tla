-------------------------------- MODULE Sink -------------------------------
(***************************************************************************)
(* What a log exporter promises the requests that write to it (Exporter,   *)
(* internal/logging/exporter.go): Write never waits, an entry is passed on *)
(* in its turn or counted as dropped, it is dropped only when many others  *)
(* are waiting, and Close returns when what it found waiting has gone out. *)
(* LogBatch implements it.                                                 *)
(***************************************************************************)
EXTENDS Naturals, Sequences, Functions

CONSTANT Room  \* how many entries wait before one may be dropped

VARIABLES
  waiting,          \* entries taken and not passed on
  passed,           \* entries passed on, in order
  written, dropped,
  phase,            \* "open", "closing", "closed"
  owed              \* what was waiting when Close was called

vars == <<waiting, passed, written, dropped, phase, owed>>

Init ==
  /\ waiting = <<>> /\ passed = <<>>
  /\ written = 0 /\ dropped = 0
  /\ phase = "open" /\ owed = {}

Take ==
  /\ written' = written + 1
  /\ waiting' = Append(waiting, written + 1)
  /\ UNCHANGED <<passed, dropped, phase, owed>>

Drop ==
  /\ Len(waiting) >= Room
  /\ written' = written + 1
  /\ dropped' = dropped + 1
  /\ UNCHANGED <<waiting, passed, phase, owed>>

PassOn ==
  /\ phase # "closed"
  /\ \E n \in 1 .. Len(waiting) :
       /\ passed' = passed \o SubSeq(waiting, 1, n)
       /\ waiting' = SubSeq(waiting, n + 1, Len(waiting))
  /\ UNCHANGED <<written, dropped, phase, owed>>

Close ==
  /\ phase = "open"
  /\ phase' = "closing"
  /\ owed' = Range(waiting)
  /\ UNCHANGED <<waiting, passed, written, dropped>>

CloseReturns ==
  /\ phase = "closing"
  /\ owed \subseteq Range(passed)
  /\ phase' = "closed"
  /\ UNCHANGED <<waiting, passed, written, dropped, owed>>

Next == Take \/ Drop \/ PassOn \/ Close \/ CloseReturns

Spec == Init /\ [][Next]_vars
=============================================================================
