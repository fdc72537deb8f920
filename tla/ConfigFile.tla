----------------------------- MODULE ConfigFile ----------------------------
(***************************************************************************)
(* The config file as the process reads it, at start and at every reload.  *)
(* The file holds a document, a tree of tagged values (described in module *)
(* Schema); Load makes a Config of it the way yaml.v2 does, and module     *)
(* Settings goes on from there.                                            *)
(***************************************************************************)
EXTENDS Settings

CONSTANT Docs  \* the documents the file may hold

VARIABLES
  doc,   \* what the running process has read last
  first  \* what it has read at start

fileVars == <<vars, doc, first>>

Null == <<"null", 0>>

\* Where the file has each setting.
NumberPath ==
  [interval |-> <<"health", "interval_sec">>, timeout |-> <<"health", "timeout_sec">>,
   healthy |-> <<"health", "healthy_threshold">>,
   unhealthy |-> <<"health", "unhealthy_threshold">>,
   retries |-> <<"retry", "max_retries">>,
   threshold |-> <<"breaker", "failure_threshold">>,
   cooldown |-> <<"breaker", "cooldown_sec">>, refresh |-> <<"discovery", "refresh_sec">>,
   shutdown |-> <<"shutdown_timeout_sec">>]
OtherNumbers == {<<"port">>, <<"discovery", "dns_port">>, <<"cluster", "gossip_interval_sec">>}
Texts ==
  {<<"host">>, <<"log_path">>, <<"log_format">>, <<"balancer", "strategy">>, <<"health", "path">>,
   <<"discovery", "provider">>, <<"discovery", "dns_name">>, <<"discovery", "file_path">>,
   <<"cluster", "node_id">>, <<"cluster", "gossip_addr">>, <<"admin", "addr">>, <<"admin", "token">>,
   <<"loki", "url">>, <<"elasticsearch", "url">>, <<"elasticsearch", "index">>, <<"fluentbit", "addr">>}
Switches == {<<"logging">>, <<"health", "enabled">>, <<"cluster", "enabled">>, <<"admin", "enabled">>}
TextLists == {<<"exporters">>, <<"cluster", "peers">>}
Lists == {<<"backends">>} \cup TextLists
Maps == {<<"loki", "labels">>}  \* from any key to a text
Blocks ==
  {<<>>} \cup {<<b>> : b \in {"loki", "elasticsearch", "fluentbit", "admin", "balancer", "health",
                            "retry", "breaker", "discovery", "cluster"}}
Numbers == OtherNumbers \cup {NumberPath[k] : k \in DOMAIN NumberPath}

Child(value, key) ==
  IF value[1] = "object" /\ key \in DOMAIN value[2] THEN value[2][key] ELSE Null

Find(d, path) ==
  LET at[n \in 0 .. Len(path)] == IF n = 0 THEN d ELSE Child(at[n - 1], path[n])
  IN  at[Len(path)]
Elements(d, path) == IF Find(d, path) = Null THEN <<>> ELSE Find(d, path)[2]

\* yaml.v2 cuts off what a float has after the point.
DecodesToInt(v) == v[1] \in {"int", "float", "half"}
Scalar(v) == v[1] \notin {"object", "array"}
AsNumber(v) == IF v[1] = "half" /\ v[2] < 0 THEN v[2] + 1 ELSE v[2]
AsText(v, known) ==
  IF v = Null THEN "" ELSE IF v[1] = "string" /\ v[2] \in known THEN v[2] ELSE "other"

\* Does the file decode into a Config?  Keys nobody asks for are passed over.
Loads(d) ==
  /\ \A p \in Blocks \cup Maps : Find(d, p)[1] \in {"object", "null"}
  /\ \A p \in Lists : Find(d, p)[1] \in {"array", "null"}
  /\ \A p \in Numbers : DecodesToInt(Find(d, p)) \/ Find(d, p) = Null
  /\ \A p \in Texts : Scalar(Find(d, p))
  /\ \A p \in Switches : Find(d, p)[1] \in {"boolean", "null"}
  /\ \A e \in Range(Elements(d, <<"backends">>)) :
       /\ e[1] = "object" /\ Scalar(Child(e, "url"))
       /\ DecodesToInt(Child(e, "weight")) \/ Child(e, "weight") = Null
  /\ \A p \in TextLists : \A e \in Range(Elements(d, p)) : Scalar(e)
  /\ \A p \in Maps : \A e \in Range(Elements(d, p)) : Scalar(e)

Load(d) ==
  LET number(p) == AsNumber(Find(d, p))
      provider == AsText(Find(d, <<"discovery", "provider">>), {"", "static", "dns", "file"})
      target == IF provider = "file" THEN <<"discovery", "file_path">>
                                     ELSE <<"discovery", "dns_name">>
  IN  [backends |-> [i \in DOMAIN Elements(d, <<"backends">>) |->
                       LET e == Elements(d, <<"backends">>)[i]
                       IN  [url |-> AsText(Child(e, "url"), Servers \cup {""}),
                            weight |-> AsNumber(Child(e, "weight"))]],
       strategy |-> AsText(Find(d, <<"balancer", "strategy">>), Strategies \cup {""}),
       provider |-> provider,
       target |-> Find(d, target) \notin {Null, <<"string", "">>},
       dnsPort |-> number(<<"discovery", "dns_port">>), port |-> number(<<"port">>),
       number |-> [k \in DOMAIN DefaultOf |-> number(NumberPath[k])],
       format |-> AsText(Find(d, <<"log_format">>), {"", "json", "text"}),
       exporters |-> {AsText(e, Exporters) : e \in Range(Elements(d, <<"exporters">>))},
       cluster |-> Find(d, <<"cluster", "enabled">>) = <<"boolean", TRUE>>,
       node |-> AsText(Find(d, <<"cluster", "node_id">>), {"", "name", "unresolved"}),
       gossip |-> number(<<"cluster", "gossip_interval_sec">>)]

\* Load, ApplyEnvOverrides and Validate, in this order, by every command.
Accepts(d) == Loads(d) /\ Validate(ApplyEnvOverrides(Load(d)))

Acceptable == {d \in Docs : Accepts(d)}

ASSUME DocsAssumption == \A d \in Docs : Loads(d) => Load(d) \in Files

----------------------------------------------------------------------------
\* haribon start and a reload, on a file that holds this document.
ReadBy(step, d) ==
  /\ \E h \in Hostname : snapshot' = Defaults(ApplyEnvOverrides(Load(d)), h)
  /\ step
  /\ doc' = d

FileInit ==
  /\ Init
  /\ doc = Null /\ first = Null

FileNext ==
  \/ ~running /\ \E d \in Acceptable : ReadBy(Start, d) /\ first' = d
  \/ running /\ \E d \in Acceptable : ReadBy(Reload, d) /\ UNCHANGED first
  \/ OnDiscovery /\ UNCHANGED <<doc, first>>
  \/ Stop /\ doc' = Null /\ first' = Null

FileSpec == FileInit /\ [][FileNext]_fileVars

----------------------------------------------------------------------------
FileTypeOK ==
  /\ TypeOK
  /\ doc \in IF running THEN Docs ELSE {Null}
  /\ first \in IF running THEN Docs ELSE {Null}

Heeded(d, k, n) ==
  LET written == Find(d, NumberPath[k])
  IN  written[1] = "int" /\ written[2] >= 1 => n = written[2]

\* What the file says is what runs, from the document to the generation in use: the
\* strategy, with what discovery found the servers, and every positive number that a
\* rebuild takes over, from the document read last; the other numbers, from the one
\* read at start, however often the file has been reloaded since.
WrittenInForce ==
  running =>
    /\ \A k \in AtStart : Heeded(first, k, started.number[k])
    /\ LET servers == {Child(e, "url")[2] : e \in Range(Elements(doc, <<"backends">>))}
           strategy == Find(doc, <<"balancer", "strategy">>)
       IN  servers \cup Range(found) # {} =>
             /\ Range(routing.slots) = servers \cup Range(found)
             /\ strategy # Null => strategy[1] = "string" /\ strategy[2] \in {"", routing.strategy}
             /\ \A k \in Reloadable : Heeded(doc, k, routing.number[k])
=============================================================================
