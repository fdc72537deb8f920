------------------------------- MODULE Schema ------------------------------
(***************************************************************************)
(* The schema validator of `haribon validate`: internal/config/schema.go.  *)
(*                                                                         *)
(* A document is a pair <<type, value>>: <<"object", function from keys>>, *)
(* <<"array", sequence>>, <<"string", text>>, <<"boolean", b>>,            *)
(* <<"int", n>>, <<"half", n>> (the float n + 1/2), <<"float", n>> or      *)
(* <<"null", 0>>.  A schema is a record of the keywords it has.  A path is *)
(* a sequence of steps, to a field or to an item.                          *)
(***************************************************************************)
EXTENDS Integers, Sequences

CONSTANT MaxDepth  \* how deep the documents are nested

Has(schema, keyword) == keyword \in DOMAIN schema
Named(schema) == IF Has(schema, "properties") THEN DOMAIN schema.properties ELSE {}

Field(key) == <<"field", key>>
Item(i) == <<"item", i>>

\* Everything that is below start, and start, when Below gives what is right below one.
Everything(start, Below(_)) ==
  LET level[n \in Nat] ==
        IF n = 0 THEN {start} ELSE UNION {Below(c) : c \in level[n - 1]}
  IN  UNION {level[n] : n \in 0 .. MaxDepth}

numeric(value) == value[1] \in {"int", "float", "half"}

typeMatches(want, value) ==
  CASE want = "integer" -> value[1] \in {"int", "float"}
    [] want = "number"  -> numeric(value)
    [] want \in {"object", "array", "string", "boolean", "null"} -> value[1] = want
    [] OTHER -> TRUE

\* An int in the file and a float in the schema are the same number.
enumContains(enum, value) ==
  \E e \in enum :
    \/ e = value
    \/ /\ numeric(e) /\ numeric(value)
       /\ e[2] = value[2] /\ (e[1] = "half") = (value[1] = "half")

TooSmall(value, min) == value \notin {<<"int", 0>>, <<"float", 0>>} /\ value[2] < min

TooLarge(value, max) == value[2] > max \/ (value[1] = "half" /\ value[2] = max)

\* A call of validateNode is <<path, value, schema>>.  The two early returns.
Refused(value, schema) ==
  \/ Has(schema, "type") /\ ~typeMatches(schema.type, value)
  \/ Has(schema, "enum") /\ ~enumContains(schema.enum, value)

\* What a call finds in the value itself.  Every problem is <<path, what, keys>>.
OwnProblems(path, value, schema) ==
  LET isObj == value[1] = "object"
      unknown == IF isObj THEN DOMAIN value[2] \ Named(schema) ELSE {}
  IN
  IF Has(schema, "type") /\ ~typeMatches(schema.type, value) THEN {<<path, "type", {}>>}
  ELSE IF Has(schema, "enum") /\ ~enumContains(schema.enum, value) THEN {<<path, "enum", {}>>}
  ELSE
    UNION
    { IF numeric(value) /\ Has(schema, "minimum") /\ TooSmall(value, schema.minimum)
        THEN {<<path, "minimum", {}>>} ELSE {},
      IF numeric(value) /\ Has(schema, "maximum") /\ TooLarge(value, schema.maximum)
        THEN {<<path, "maximum", {}>>} ELSE {},
      IF isObj /\ Has(schema, "required")
        THEN {<<path, "required", {k}>> : k \in schema.required \ DOMAIN value[2]} ELSE {},
      IF Has(schema, "additionalProperties") /\ ~schema.additionalProperties /\ unknown # {}
        THEN {<<path, "unknown", unknown>>} ELSE {} }

\* The fields that the schema names, or the items.
Members(c) ==
  IF c[2][1] = "object"
    THEN {<<Append(c[1], Field(k)), c[2][2][k], c[3].properties[k]>> :
            k \in Named(c[3]) \cap DOMAIN c[2][2]}
  ELSE IF c[2][1] = "array" /\ Has(c[3], "items")
    THEN {<<Append(c[1], Item(i)), c[2][2][i], c[3].items>> : i \in DOMAIN c[2][2]}
  ELSE {}

\* Seeded fault: a call that has found something makes no calls.
MutCalls(c) == IF OwnProblems(c[1], c[2], c[3]) # {} THEN {} ELSE Members(c)

\* The calls that a call makes.
Calls(c) == IF Refused(c[2], c[3]) THEN {} ELSE Members(c)

validateNode(value, schema) ==
  UNION {OwnProblems(c[1], c[2], c[3]) : c \in Everything(<<<<>>, value, schema>>, Calls)}

----------------------------------------------------------------------------
\* The same, said of the whole document at once.  Its nodes are <<path, value, what
\* the schema says there>>; nothing is said of what the schema does not name.
Anything == [silent |-> TRUE]

Steps(value) ==
  IF value[1] = "object" THEN {Field(k) : k \in DOMAIN value[2]}
  ELSE IF value[1] = "array" THEN {Item(i) : i \in DOMAIN value[2]}
  ELSE {}

Under(schema, step) ==
  IF step[1] = "field" /\ step[2] \in Named(schema) THEN schema.properties[step[2]]
  ELSE IF step[1] = "item" /\ Has(schema, "items") THEN schema.items
  ELSE Anything

Inside(c) == {<<Append(c[1], k), c[2][2][k[2]], Under(c[3], k)>> : k \in Steps(c[2])}
Nodes(doc, schema) == Everything(<<<<>>, doc, schema>>, Inside)

\* The keys with which a value breaks a rule of JSON Schema, but for the zero that
\* counts as unset; a rule that is not about keys is broken with none of them.
Broken(value, s, rule) ==
  CASE rule = "type"     -> {k \in {{}} : Has(s, "type") /\ ~typeMatches(s.type, value)}
    [] rule = "enum"     -> {k \in {{}} : /\ Has(s, "enum") /\ ~enumContains(s.enum, value)
                                          /\ Has(s, "type") => typeMatches(s.type, value)}
    [] rule = "minimum"  -> {k \in {{}} : /\ Has(s, "minimum") /\ numeric(value)
                                          /\ value[2] < s.minimum /\ ~(value[1] # "half" /\ value[2] = 0)}
    [] rule = "maximum"  -> {k \in {{}} : /\ Has(s, "maximum") /\ numeric(value)
                                          /\ 2 * value[2] + (IF value[1] = "half" THEN 1 ELSE 0)
                                               > 2 * s.maximum}
    [] rule = "required" -> IF Has(s, "required") /\ value[1] = "object"
                              THEN {{k} : k \in s.required \ DOMAIN value[2]} ELSE {}
    [] rule = "unknown"  -> IF /\ Has(s, "additionalProperties") /\ ~s.additionalProperties
                               /\ value[1] = "object"
                              THEN {{k \in DOMAIN value[2] : k \notin Named(s)}} \ {{}} ELSE {}

TypeRules == {"type", "enum"}
Rules == TypeRules \cup {"minimum", "maximum", "required", "unknown"}

\* A path that another one begins with.
Leads(p, q) == Len(p) <= Len(q) /\ SubSeq(q, 1, Len(p)) = p

\* Nothing is said below a value of the wrong type or outside its enum, and of the
\* value itself only that.
Moot(nodes, c, rule) ==
  \E a \in nodes :
    /\ \E r \in TypeRules : Broken(a[2], a[3], r) # {}
    /\ Leads(a[1], c[1]) /\ (rule \in TypeRules => a[1] # c[1])

Violations(doc, schema) ==
  LET nodes == Nodes(doc, schema)
  IN  UNION {{<<p[1][1], p[2], keys>> : keys \in Broken(p[1][2], p[1][3], p[2])} :
               p \in {q \in nodes \X Rules : ~Moot(nodes, q[1], q[2])}}

----------------------------------------------------------------------------
\* A document is a tree of tagged values, and a schema gives whole numbers as bounds.
WellFormed(value, schema) ==
  /\ value = <<value[1], value[2]>> /\ (numeric(value) => value[2] \in Int)
  /\ \A bound \in {"minimum", "maximum"} : Has(schema, bound) => schema[bound] \in Int

\* Where a schema says something, any item of a list standing for all.
AnyItem == Item(0)
Generic(path) == [i \in DOMAIN path |-> IF path[i][1] = "item" THEN AnyItem ELSE path[i]]

Parts(c) ==
  {<<Append(c[1], Field(k)), c[2].properties[k]>> : k \in Named(c[2])}
    \cup {<<Append(c[1], AnyItem), c[2].items>> : x \in {"items"} \cap DOMAIN c[2]}
Places(schema) == Everything(<<<<>>, schema>>, Parts)

\* A schema that leaves no place for what it does not name.
Closed(schema) ==
  /\ Has(schema, "type")
  /\ schema.type \in {"object", "array", "string", "boolean", "integer", "number", "null"}
  /\ schema.type = "object" => Has(schema, "additionalProperties") /\ ~schema.additionalProperties
  /\ schema.type = "array" => Has(schema, "items")
=============================================================================
