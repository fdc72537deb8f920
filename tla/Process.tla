------------------------------- MODULE Process -----------------------------
(***************************************************************************)
(* A request's way through the haribon process and the process's end: the  *)
(* handler counts what it does (ServeHTTP, internal/proxy/handler.go), the *)
(* log adapter writes the entry to the log file and to a remote sink and   *)
(* counts again (makeProxyLogger and writeLog, cli/main.go), and on SIGTERM*)
(* startCommand drains the server, closes the sinks and returns.  LogBatch *)
(* is the remote sink.  Which server an attempt goes to is Proxy's matter: *)
(* here it is any.                                                         *)
(***************************************************************************)
EXTENDS LogBatch, FiniteSets

CONSTANTS
  Requests,
  Repeatable,       \* the requests with an idempotent method
  Servers,
  NoServer,
  MaxRetries,
  ShutdownTimeout,  \* shutdown_timeout_sec, in ticks
  MaxTransitions    \* health transitions that are logged: a bound of the model

ASSUME ProcessAssumption ==
  /\ Repeatable \subseteq Requests /\ IsFiniteSet(Requests)
  /\ NoServer \notin Servers /\ Requests \cap Servers = {}
  /\ MaxRetries \in Nat /\ ShutdownTimeout \in Nat \ {0}
  /\ MaxTransitions \in Nat
  /\ MaxWrites = Cardinality(Requests) + MaxTransitions

VARIABLES
  at,             \* request -> "new", "serving", "logging", "remote", "counting", "done";
                  \* server, for its probe loop -> "probing" or "remote"
  tries,          \* request -> retries
  good,           \* request -> the server that answered it 2xx, if one did
  requestsTotal,  \* server -> haribon_requests_total
  attempts,       \* server -> attempts made
  file, fileOpen, \* writers whose lines the log file has
  author,         \* entry of the remote sink -> the writer it is from
  phase,          \* startCommand: "starting", "serving", "draining", "closeFile",
                  \* "closeSink", "waiting", "exited"; or "failed"
  waited,         \* how long Shutdown has been waiting
  left            \* requests still running when it returned

counters == <<requestsTotal, attempts>>
procVars == <<at, tries, good, counters, file, fileOpen, author, phase, waited, left>>
allVars == <<vars, procVars>>

Writers == Requests \cup Servers  \* a server's probe loop logs its transitions

Over == phase \in {"exited", "failed"}
Unfinished == {r \in Requests : at[r] \notin {"new", "done"}}

Start ==
  /\ Init
  /\ at = [w \in Writers |-> IF w \in Requests THEN "new" ELSE "probing"]
  /\ tries = [r \in Requests |-> 0]
  /\ good = [r \in Requests |-> NoServer]
  /\ requestsTotal = [s \in Servers |-> 0]
  /\ attempts = [s \in Servers |-> 0]
  /\ file = {} /\ fileOpen = TRUE /\ author = <<>>
  /\ phase = "starting" /\ waited = 0 /\ left = {}

----------------------------------------------------------------------------
\* Seeded fault: Shutdown leaves the listener open.
MutAccepting == phase # "starting" /\ ~Over

Accepting == phase = "serving"

\* The server hands a request to the handler.
Accept(r) ==
  /\ Accepting
  /\ at[r] = "new"
  /\ at' = [at EXCEPT ![r] = "serving"]
  /\ UNCHANGED <<vars, tries, good, counters, file, fileOpen, author, phase, waited, left>>

More(r) == r \in Repeatable /\ tries[r] < MaxRetries

Retry(r) ==
  /\ More(r)
  /\ tries' = [tries EXCEPT ![r] = @ + 1]
  /\ UNCHANGED <<at, good>>

GiveUp(r) ==
  /\ at' = [at EXCEPT ![r] = "logging"]
  /\ UNCHANGED <<tries, good>>

\* The response is copied: a 2xx, or another, which leaves as little behind as none.
Answered(r, s) ==
  /\ at' = [at EXCEPT ![r] = "logging"]
  /\ good' \in {good, [good EXCEPT ![r] = s]}
  /\ UNCHANGED tries

\* Seeded fault: only the first attempt is counted.
MutAttempted(r, s) ==
  requestsTotal' = IF tries[r] = 0 THEN [requestsTotal EXCEPT ![s] = @ + 1] ELSE requestsTotal

Attempted(r, s) == requestsTotal' = [requestsTotal EXCEPT ![s] = @ + 1]

\* One turn of the handler's loop that finds a server: the attempt is counted, then
\* it is worth another try, fails for good, or is answered.
Attempt(r, s) ==
  /\ ~Over /\ at[r] = "serving"
  /\ Attempted(r, s)
  /\ attempts' = [attempts EXCEPT ![s] = @ + 1]
  /\ Retry(r) \/ (~More(r) /\ GiveUp(r)) \/ Answered(r, s)
  /\ UNCHANGED <<vars, file, fileOpen, author, phase, waited, left>>

\* pickBackend finds none: the loop is left.
NoBackend(r) ==
  /\ ~Over /\ at[r] = "serving"
  /\ GiveUp(r)
  /\ UNCHANGED <<vars, counters, file, fileOpen, author, phase, waited, left>>

\* FileExporter.Write: a closed file takes no line, and nothing counts that.
WriteFile(w) == file' = IF fileOpen THEN file \cup {w} ELSE file

\* writeLog gives the entry to the log file ...
LogFile(r) ==
  /\ ~Over /\ at[r] = "logging"
  /\ at' = [at EXCEPT ![r] = "remote"]
  /\ WriteFile(r)
  /\ UNCHANGED <<vars, tries, good, counters, fileOpen, author, phase, waited, left>>

\* ... and to the remote sink.
LogRemote(r) ==
  /\ ~Over /\ at[r] = "remote"
  /\ at' = [at EXCEPT ![r] = "counting"]
  /\ Write
  /\ author' = Append(author, r)
  /\ UNCHANGED <<tries, good, counters, file, fileOpen, phase, waited, left>>

\* The adapter counts a 2xx on the server that answered.
Count(r) ==
  /\ ~Over /\ at[r] = "counting"
  /\ at' = [at EXCEPT ![r] = "done"]
  /\ requestsTotal' = [s \in Servers |-> requestsTotal[s] + (IF good[r] = s THEN 1 ELSE 0)]
  /\ UNCHANGED <<vars, tries, good, attempts, file, fileOpen, author, phase, waited, left>>

Transitions ==
  Cardinality({e \in DOMAIN author : author[e] \in Servers})
    + Cardinality({s \in Servers : at[s] = "remote"})

\* The health scheduler logs a transition the same way, also while the process is
\* ending: to the log file ...
LogTransition(s) ==
  /\ ~Over /\ at[s] = "probing"
  /\ Transitions < MaxTransitions
  /\ at' = [at EXCEPT ![s] = "remote"]
  /\ WriteFile(s)
  /\ UNCHANGED <<vars, tries, good, counters, fileOpen, author, phase, waited, left>>

\* ... and to the remote sink.
TransitionRemote(s) ==
  /\ ~Over /\ at[s] = "remote"
  /\ at' = [at EXCEPT ![s] = "probing"]
  /\ Write
  /\ author' = Append(author, s)
  /\ UNCHANGED <<tries, good, counters, file, fileOpen, phase, waited, left>>

\* The remote sink's own goroutine.
RunSink ==
  /\ ~Over
  /\ Run
  /\ UNCHANGED procVars

----------------------------------------------------------------------------
Goto(p) == phase' = p /\ UNCHANGED <<at, tries, good, counters, file, author>>

\* ListenAndServe binds the address; an error that is not ErrServerClosed ends the
\* process without a drain.
Listen ==
  /\ phase = "starting"
  /\ Goto("serving") \/ Goto("failed")
  /\ UNCHANGED <<vars, fileOpen, waited, left>>

\* SIGINT or SIGTERM: Shutdown closes the listener and waits.
Terminate ==
  /\ phase \in {"starting", "serving"}
  /\ Goto("draining")
  /\ UNCHANGED <<vars, fileOpen, waited, left>>

Tick ==
  /\ phase = "draining" /\ waited < ShutdownTimeout
  /\ waited' = waited + 1
  /\ Goto(phase)
  /\ UNCHANGED <<vars, fileOpen, left>>

\* Seeded fault: Shutdown has no deadline.
MutDrainOver == Unfinished = {}

DrainOver == Unfinished = {} \/ waited = ShutdownTimeout

\* Shutdown returns; what it says of requests still running is only printed.
ShutdownReturns ==
  /\ phase = "draining"
  /\ DrainOver
  /\ left' = Unfinished
  /\ Goto("closeFile")
  /\ UNCHANGED <<vars, fileOpen, waited>>

\* Multi.Close, member by member: the log file ...
CloseFile ==
  /\ phase = "closeFile"
  /\ fileOpen' = FALSE
  /\ Goto("closeSink")
  /\ UNCHANGED <<vars, waited, left>>

\* ... and the remote sink, whose Close ...
CloseSink ==
  /\ phase = "closeSink"
  /\ Close
  /\ Goto("waiting")
  /\ UNCHANGED <<fileOpen, waited, left>>

\* Seeded fault: the process ends without waiting for the sink.
MutSinkClosed == closed

SinkClosed == pc = "returned"

\* ... returns when its goroutine has; then the process ends.
Exit ==
  /\ phase = "waiting"
  /\ SinkClosed
  /\ Goto("exited")
  /\ UNCHANGED <<vars, fileOpen, waited, left>>

Stop == Tick \/ ShutdownReturns \/ CloseFile \/ CloseSink \/ Exit

Step ==
  \/ \E r \in Requests :
       \/ Accept(r) \/ NoBackend(r) \/ LogFile(r) \/ LogRemote(r) \/ Count(r)
       \/ \E s \in Servers : Attempt(r, s)
  \/ \E s \in Servers : LogTransition(s) \/ TransitionRemote(s)
  \/ RunSink
  \/ Listen \/ Terminate \/ Stop

ProcessSpec == Start /\ [][Step]_allVars

\* Timers fire, the goroutines of startCommand and of the sink are scheduled, and
\* send returns, as its client has a timeout.  A request may take for ever: its
\* client may be slow.
FairProcess == ProcessSpec /\ WF_allVars(Stop) /\ WF_allVars(RunSink)

----------------------------------------------------------------------------
ProcessTypeOK ==
  /\ TypeOK
  /\ at \in [Writers -> {"new", "serving", "logging", "remote", "counting", "done", "probing"}]
  /\ tries \in [Requests -> 0 .. MaxRetries]
  /\ good \in [Requests -> Servers \cup {NoServer}]
  /\ requestsTotal \in [Servers -> Nat] /\ attempts \in [Servers -> Nat]
  /\ file \subseteq Writers /\ fileOpen \in BOOLEAN
  /\ author \in Seq(Writers) /\ Len(author) = written
  /\ phase \in {"starting", "serving", "draining", "closeFile", "closeSink", "waiting",
                "exited", "failed"}
  /\ waited \in 0 .. ShutdownTimeout
  /\ left \subseteq Requests

\* A process that ended by itself has cut a request short only if that request was
\* running when the drain timed out (docs/enterprise-runbook.md:35: "Wait up to
\* `shutdown_timeout_sec`").
CutOnlyByTimeout ==
  phase = "exited" /\ Unfinished # {} => Unfinished \subseteq left /\ waited = ShutdownTimeout

\* A process that ended by itself has the line of every request it finished in time
\* in its log file, and its entry went to the remote sink or was dropped for want of
\* room: what still waits there is of a request the drain gave up on, or a probe's
\* (cli/main.go:391: "Flush buffered log entries before the process exits.").
LogsKept ==
  phase = "exited" =>
    /\ \A r \in Requests \ left : at[r] = "done" => r \in file
    /\ \A e \in Range(buf \o queue) : author[e] \in left \cup Servers

\* What haribon_requests_total really adds up to: the attempts and, once they are
\* logged, the 2xx answers a second time.
TotalsExplained ==
  \A s \in Servers :
    requestsTotal[s] =
      attempts[s] + Cardinality({r \in Requests : at[r] = "done" /\ good[r] = s})

\* Asked to end, the process ends: neither a request that never finishes nor a sink
\* that still has entries keeps it for ever.
Ends == phase = "draining" ~> Over

\* What waits for the remote sink is handed over to the last entry, by a full batch,
\* the ticker or Close, when the writers pause, unless the process ends first.
EntriesLeave ==
  buf \o queue # <<>> ~> buf \o queue = <<>> \/ Over

\* What README.md:500 says haribon_requests_total counts: "Attempts sent to each
\* server".
AttemptsCounted == \A s \in Servers : requestsTotal[s] = attempts[s]
=============================================================================
