------------------------------ MODULE Commands -----------------------------
(***************************************************************************)
(* The command line over the config file: `haribon check` and `haribon     *)
(* validate` judge the file, `haribon start` and a reload run on it        *)
(* (cli/main.go, module ConfigFile).  validate also asks module Schema.    *)
(***************************************************************************)
EXTENDS ConfigFile, Schema

CONSTANT TheSchema  \* schema/haribon-config.schema.json

ASSUME CommandsAssumption ==
  /\ MaxDepth \in Nat
  /\ \A d \in Docs : \A c \in Nodes(d, TheSchema) :
       /\ WellFormed(c[2], c[3])
       /\ Len(c[1]) = MaxDepth => Steps(c[2]) = {}

VARIABLE verdict  \* what the last check or validate said

allVars == <<fileVars, verdict>>

----------------------------------------------------------------------------
\* haribon check.
Check(d) ==
  /\ verdict' = [by |-> "check", of |-> d, ok |-> Accepts(d), problems |-> {}]
  /\ UNCHANGED fileVars

\* Seeded fault: validate leaves the schema out.
MutProblems(d) == {}

Problems(d) == validateNode(d, TheSchema)

\* haribon validate: what check asks, then the schema, of the file as it is.
ValidateFile(d) ==
  /\ verdict' = [by |-> "validate", of |-> d, ok |-> Accepts(d) /\ Problems(d) = {},
                 problems |-> IF Accepts(d) THEN Problems(d) ELSE {}]
  /\ UNCHANGED fileVars

NoVerdict == [by |-> "nobody", of |-> Null, ok |-> FALSE, problems |-> {}]

CommandsInit == FileInit /\ verdict = NoVerdict

\* A command is a process of its own and ends; the model runs one at a time.
CommandsNext ==
  \/ ~running /\ verdict = NoVerdict /\ \E d \in Docs : Check(d) \/ ValidateFile(d)
  \/ verdict # NoVerdict /\ verdict' = NoVerdict /\ UNCHANGED fileVars
  \/ (running \/ verdict = NoVerdict) /\ FileNext /\ UNCHANGED verdict

CommandsSpec == CommandsInit /\ [][CommandsNext]_allVars

----------------------------------------------------------------------------
Fields(path) == [i \in DOMAIN path |-> Field(path[i])]

\* The keys that Load looks at, as the tags of Config name them.
KeysRead ==
  {Fields(p) : p \in Numbers \cup Texts \cup Switches \cup Lists \cup Maps \cup Blocks}
    \cup {<<Field("backends"), AnyItem>> \o p : p \in {<<>>, <<Field("url")>>, <<Field("weight")>>}}
    \cup {Append(Fields(p), AnyItem) : p \in TextLists}

\* A map is read with every key it has.
InMap(path) == \E p \in Maps : Leads(Fields(p), path)
IsRead(path) == path \in KeysRead \/ InMap(path)

\* A schema that lists nothing else, and leaves nothing open but a map.
OnlyKeysRead(schema) == \A c \in Places(schema) : IsRead(c[1]) /\ (Closed(c[2]) \/ InMap(c[1]))

\* A file that validate calls valid has no key that Load passes over without a word,
\* at any depth (internal/config/schema.go:7: "a typo'd key or a bad enum value
\* passed CI").
NoTypos ==
  verdict.by = "validate" /\ verdict.ok =>
    \A c \in Nodes(verdict.of, TheSchema) : IsRead(Generic(c[1]))

\* validate reports every violation of the schema in the file and nothing else; only
\* below a value of the wrong type or outside its enum there is nothing to report
\* (internal/config/schema.go:58: "It reports every violation it finds, not just the
\* first").
ReportsEverything ==
  verdict.by = "validate" /\ Accepts(verdict.of) =>
    verdict.problems = Violations(verdict.of, TheSchema)

----------------------------------------------------------------------------
\* docs/breaker-retry.md:36: "After `max_retries + 1` attempts have all failed", for
\* any number the schema allows there, which begins at 0.
RetriesAsWritten ==
  running =>
    LET written == Find(first, NumberPath["retries"])
    IN  written[1] = "int" /\ Problems(first) = {} => started.number["retries"] = written[2]

\* internal/config/schema.go:16: "validateSchema reports unsupported keywords rather
\* than ignoring them".
UnsupportedReported ==
  verdict.by = "validate" /\ Accepts(verdict.of)
    /\ (\E c \in Nodes(verdict.of, TheSchema) :
          DOMAIN c[3] \cap {"pattern", "format", "oneOf", "anyOf", "allOf"} # {})
    => verdict.problems # {}
=============================================================================
