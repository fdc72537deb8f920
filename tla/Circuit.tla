------------------------------ MODULE Circuit ------------------------------
(***************************************************************************)
(* What the circuit breaker promises the servers behind it, with no        *)
(* clock, no counters and no balancer: a server in normal service takes    *)
(* any number of requests, a server that was taken out takes none, and a   *)
(* server under test holds exactly one request, sent when it held none,    *)
(* whose own result ends the test.                                         *)
(***************************************************************************)
CONSTANTS Backends, Requests

VARIABLES
  gate,  \* gate[b]: "closed", "open" or "half_open"
  out    \* out[b]: the requests sent to b whose result is not in yet

vars == <<gate, out>>

Init ==
  /\ gate = [b \in Backends |-> "closed"]
  /\ out = [b \in Backends |-> {}]

Send(r, b) ==
  /\ gate[b] = "closed"
  /\ r \notin out[b]
  /\ out' = [out EXCEPT ![b] = @ \cup {r}]
  /\ UNCHANGED gate

Test(r, b) ==
  /\ gate[b] = "open"
  /\ out[b] = {}
  /\ gate' = [gate EXCEPT ![b] = "half_open"]
  /\ out' = [out EXCEPT ![b] = {r}]

\* A result may open a closed gate, ends a test either way, and never
\* reopens service by itself while the gate is open.
Result(r, b) ==
  /\ r \in out[b]
  /\ out' = [out EXCEPT ![b] = @ \ {r}]
  /\ \E g \in IF gate[b] = "open" THEN {"open"} ELSE {"closed", "open"} :
       gate' = [gate EXCEPT ![b] = g]

Next == \E r \in Requests, b \in Backends : Send(r, b) \/ Test(r, b) \/ Result(r, b)

Spec == Init /\ [][Next]_vars
=============================================================================
