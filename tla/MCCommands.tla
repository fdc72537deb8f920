----------------------------- MODULE MCCommands ----------------------------
(***************************************************************************)
(* Documents for TLC: one list of servers with every variant of a block,   *)
(* and every list with a few, among them misspelled keys, wrong types,     *)
(* numbers on both sides of a bound, and what the schema and Validate      *)
(* judge differently.                                                      *)
(***************************************************************************)
EXTENDS Commands, TLC

CONSTANTS s1, s2

S(x) == <<"string", x>>
N(x) == <<"int", x>>
Obj(f) == <<"object", f>>
Arr(s) == <<"array", s>>
Server(u, w) == Obj([url |-> S(u), weight |-> N(w)])

Pools ==
  {<<>>, [backends |-> Null],
   [backends |-> Arr(<<Obj([url |-> S(s1)])>>)],
   [backends |-> Arr(<<Server(s1, 2), Server(s2, 0)>>)],
   [backends |-> Arr(<<Server(s1, 1), Server(s1, 2)>>)],
   [backends |-> Arr(<<Server(s1, -1), Server(s2, 1)>>)],
   [backends |-> Arr(<<Server("other", 1)>>)],
   [backends |-> Arr(<<Obj([url |-> S(s1), wieght |-> N(2)]), Obj([weight |-> N(1)])>>)],
   [backends |-> Arr(<<Obj([url |-> S(s1), wieght |-> N(2)]), Server(s2, 1)>>)]}

Block(name, f) == (name :> Obj(f))

Variants ==
  {<<>>, [typo |-> N(1)], [port |-> S("other")], [backends |-> S("other")]}
    \cup {[port |-> v] : v \in {N(-1), N(0), N(65536), <<"float", 80>>, <<"half", 0>>, <<"half", 65535>>}}
    \cup {Block("balancer", [strategy |-> S(x)]) :
            x \in {"", "weighted_round_robin", "least_connections", "other"}}
    \cup {Block("balancer", [stratgy |-> S("random")])}
    \cup {Block("retry", [max_retries |-> N(x)]) : x \in {-1, 0, 1, 3}}
    \cup {Block("breaker", [failure_threshold |-> x, cooldown |-> N(1)]) : x \in {N(1), N(-1), Null}}
    \cup {Block("breaker", [failure_threshold |-> x]) : x \in {N(1), N(3), N(-1), <<"half", 3>>}}
    \cup {Block("discovery", [provider |-> S("dns"), dns_name |-> S(n), dns_port |-> N(p)]) :
            n \in {"", "name"}, p \in {-1, 0, 65536}}
    \cup {Block("discovery", [provider |-> S("dns"), dns_name |-> S("name")])
            @@ Block("balancer", [strategy |-> S("weighted_round_robin")]),
          Block("discovery", [provider |-> S("file"), file_path |-> S("name"), refresh_sec |-> N(0)]),
          Block("discovery", [dns_name |-> S("name")]),
          Block("discovery", [provider |-> S("other")])}
    \cup {Block("cluster", [enabled |-> <<"boolean", TRUE>>, node_id |-> S(x),
                            gossip_interval_sec |-> N(g)]) :
            x \in {"", "unresolved"}, g \in {-1, 0}}
    \cup {[log_format |-> S("other")], [exporters |-> Arr(<<S("file"), S("other")>>)],
          [exporters |-> Arr(<<S("file"), S("loki")>>)], [shutdown_timeout_sec |-> <<"boolean", TRUE>>],
          [host |-> S("name"), logging |-> <<"boolean", TRUE>>, log_pth |-> S("name")],
          [shutdown_timeout_sec |-> N(2)], [shutdown_timeout_sec |-> <<"half", -1>>],
          [logging |-> S("other")]}
    \cup {Block("health", [enabled |-> <<"boolean", TRUE>>, interval_sec |-> N(x)]) : x \in {-1, 1, 3}}
    \cup {Block("loki", [labels |-> x]) :
            x \in {Obj([team |-> S("name")]), Obj([team |-> Obj(<<>>)]), Obj([team |-> N(1)]), S("other")}}
    \cup {Block("loki", [label |-> Obj([team |-> S("name")])]),
          Block("elasticsearch", [url |-> S("name"), indx |-> S("name")]),
          Block("fluentbit", [addr |-> S("name")]), Block("admin", [enabled |-> <<"boolean", TRUE>>]),
          Block("cluster", [peers |-> Arr(<<S("name"), Obj(<<>>)>>)]),
          Block("cluster", [peers |-> Arr(<<S("name")>>), gosip_addr |-> S("name")])}

OnePool == [backends |-> Arr(<<Server(s1, 2), Server(s2, 0)>>)]
FewVariants ==
  {<<>>, Block("balancer", [strategy |-> S("weighted_round_robin")]),
   Block("discovery", [provider |-> S("dns"), dns_name |-> S("name")])}
SomeDocs == {Obj(v @@ OnePool) : v \in Variants} \cup {Obj(v @@ p) : v \in FewVariants, p \in Pools}
LoadedFiles == {Load(d) : d \in {x \in SomeDocs : Loads(x)}}

Number(min) == [type |-> "integer", minimum |-> min]
Port == [type |-> "integer", minimum |-> 1, maximum |-> 65535]
String == [type |-> "string"]
ClosedBlock(props) == [type |-> "object", properties |-> props, additionalProperties |-> FALSE]

Bool == [type |-> "boolean"]

\* The keywords that validateNode knows; the others are notes for the reader.
ConfigSchema ==
  [type |-> "object", required |-> {}, additionalProperties |-> FALSE,
   properties |->
     [host |-> String, port |-> Port, logging |-> Bool, log_path |-> String,
      log_format |-> [type |-> "string", enum |-> {S("json"), S("text")}],
      exporters |-> [type |-> "array", items |-> [type |-> "string", enum |-> {S(x) : x \in Exporters}]],
      loki |-> ClosedBlock([url |-> String, labels |-> [type |-> "object"]]),
      elasticsearch |-> ClosedBlock([url |-> String, index |-> String]),
      fluentbit |-> ClosedBlock([addr |-> String]),
      shutdown_timeout_sec |-> Number(1),
      backends |->
        [type |-> "array",
         items |-> [type |-> "object", required |-> {"url"}, additionalProperties |-> FALSE,
                    properties |-> [url |-> String, weight |-> Number(0)]]],
      balancer |-> ClosedBlock([strategy |-> [type |-> "string", enum |-> {S(x) : x \in Strategies}]]),
      health |-> ClosedBlock([enabled |-> Bool, interval_sec |-> Number(1), timeout_sec |-> Number(1),
                         path |-> String,
                         healthy_threshold |-> Number(1), unhealthy_threshold |-> Number(1)]),
      retry |-> ClosedBlock([max_retries |-> Number(0)]),
      breaker |-> ClosedBlock([failure_threshold |-> Number(1), cooldown_sec |-> Number(1)]),
      discovery |->
        [type |-> "object", required |-> {"provider"}, additionalProperties |-> FALSE,
         properties |-> [provider |-> [type |-> "string", enum |-> {S("static"), S("dns"), S("file")}],
                         dns_name |-> String, dns_port |-> Port, file_path |-> String,
                         refresh_sec |-> Number(1)]],
      cluster |-> ClosedBlock([enabled |-> Bool, node_id |-> String,
                          peers |-> [type |-> "array", items |-> String],
                          gossip_interval_sec |-> Number(1), gossip_addr |-> String]),
      admin |-> ClosedBlock([enabled |-> Bool, addr |-> String, token |-> String])]]

PatternSchema == [ConfigSchema EXCEPT !.properties.shutdown_timeout_sec = [pattern |-> "digits"],
                                      !.properties.port = [pattern |-> "digits"]]

\* The schema that is shipped lists the keys that are read, all of them, and leaves
\* nothing open but the labels for Loki.
ASSUME ShippedSchema ==
  /\ OnlyKeysRead(ConfigSchema)
  /\ KeysRead = {c[1] : c \in Places(ConfigSchema)}

NoPort == <<>>
SomeListings == {<<s2>>, <<s2, s1>>, <<s2, s2>>}
=============================================================================
