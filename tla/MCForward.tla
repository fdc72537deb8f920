------------------------------ MODULE MCForward ----------------------------
(***************************************************************************)
(* Forward for TLC: strings and integers on both sides of every width the  *)
(* format has.                                                             *)
(***************************************************************************)
EXTENDS Forward

\* The keys of a record in their order, the tag, and strings of all header sizes.
SomeLengths == <<7, 11, 5, 6, 4, 7, 6, 4, 7, 0, 31, 32, 255, 256, 65535, 65536>>
TheTag == 9
Keys == [backend |-> 1, duration_ms |-> 2, level |-> 3, method |-> 4,
         path |-> 5, retries |-> 6, status |-> 7, time |-> 8]

Small(n) == <<0, 0, 0, n>>
Minus(n) == <<65535, 65535, 65535, 65536 - n>>
Words ==
  {Small(n) : n \in {0, 127, 128, 255, 256, 32768, 65535}}
    \cup {Minus(n) : n \in {1, 32, 33, 128, 129, 32768}}
    \cup {<<0, 0, 1, 0>>, <<0, 0, 65535, 65535>>, <<0, 1, 0, 0>>, <<32767, 65535, 65535, 65535>>,
          <<65535, 65535, 65535, 32767>>, <<65535, 65535, 32768, 0>>,
          <<65535, 65535, 32767, 65535>>, <<32768, 0, 0, 0>>}

Base == [unix |-> <<0, 0, 27000, 1>>, time |-> 11, method |-> 5, path |-> 11, backend |-> 11,
         status |-> Small(200), duration_ms |-> Small(3), retries |-> Small(0), level |-> 5]

SomeEntries ==
  {[Base EXCEPT !.path = i] : i \in 10 .. 16}
    \cup {[Base EXCEPT !.backend = 10, !.status = Small(503), !.retries = r] :
            r \in {Small(0), Small(1)}}
    \cup {[Base EXCEPT !.duration_ms = <<0, 1, 0, 0>>]}

Value(t, x) == [go |-> t, v |-> x]
Field(k, x) == <<k, x>>
Nils(n) == [k \in 1 .. n |-> Value("nil", 0)]

SomeValues ==
  {Value("nil", 0), Value("other", 0), Value("bool", TRUE), Value("bool", FALSE),
   Value("float", <<16368, 0, 0, 0>>)}
    \cup {Value("uint", w) : w \in {<<32768, 0, 0, 0>>, Minus(1), Small(128)}}
    \cup {Value("array", Nils(n)) : n \in {0, 15, 16}}
    \cup {Value("array", <<Str(12), Number(Minus(33)), Value("map", <<>>)>>),
          Value("map", [k \in 1 .. 16 |-> Field(k, Number(Small(k)))])}

SomeOthers ==
  {<<Small(0), Value("map", <<Field(1, x), Field(3, Str(10))>>)>> : x \in SomeValues}
    \cup {<<w, Value("map", <<>>)>> : w \in Words}
=============================================================================
