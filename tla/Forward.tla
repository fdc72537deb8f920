------------------------------- MODULE Forward -----------------------------
(***************************************************************************)
(* A batch on its way to Fluent Bit: FluentbitExporter.forward packs every *)
(* entry as a message [tag, time, record] into one buffer and writes it to *)
(* a connection that may break at any byte (internal/logging/exporter.go). *)
(***************************************************************************)
EXTENDS MessagePack

CONSTANTS
  Tag,         \* "haribon"
  Key,         \* field of a record -> the string that names it
  LogEntries,  \* log entries: [unix, time, method, path, backend, status,
               \* duration_ms, retries, level]
  Others,      \* further <<unix time, record>> that can be packed
  MaxBatch

VARIABLES
  messages,  \* the <<unix time, record>> packed so far
  buf,       \* their encodings
  wire,      \* what of the buffer reached the receiver
  conn       \* "none", "open", "closed"

vars == <<messages, buf, wire, conn>>

Str(i) == [go |-> "string", v |-> i]
Number(w) == [go |-> "int", v |-> w]

\* The fields of a record have names of their own.
ASSUME ForwardAssumption ==
  /\ Tag \in Strings /\ MaxBatch \in Nat /\ MaxDepth > 0
  /\ Key \in [time : Strings, method : Strings, path : Strings, backend : Strings,
              status : Strings, duration_ms : Strings, level : Strings, retries : Strings]
  /\ \A f, g \in DOMAIN Key : Key[f] = Key[g] => f = g
  /\ LogEntries \subseteq
       [unix : Word64, time : Strings, method : Strings, path : Strings, backend : Strings,
        status : Word64, duration_ms : Word64, retries : Word64, level : Strings]
  /\ Others \subseteq Word64 \X Maps(Values[MaxDepth - 1])

\* LogEntry.Record: retries are left out unless there were some.
Record(e) ==
  [go |-> "map",
   v  |-> <<<<Key.time, Str(e.time)>>, <<Key.method, Str(e.method)>>,
            <<Key.path, Str(e.path)>>, <<Key.backend, Str(e.backend)>>,
            <<Key.status, Number(e.status)>>, <<Key.duration_ms, Number(e.duration_ms)>>,
            <<Key.level, Str(e.level)>>>>
          \o (IF e.retries = <<0, 0, 0, 0>> \/ Negative(e.retries)
                THEN <<>> ELSE <<<<Key.retries, Number(e.retries)>>>>)]

Init ==
  /\ messages = <<>> /\ buf = <<>> /\ wire = <<>>
  /\ conn = "none"

\* Without a connection the batch is given up.
Dial ==
  /\ conn = "none"
  /\ conn' \in {"open", "closed"}
  /\ UNCHANGED <<messages, buf, wire>>

\* The map is iterated forwards or backwards, for any order.
Pack(unix, pairs) ==
  /\ conn = "open" /\ Len(messages) < MaxBatch
  /\ \E order \in {pairs, [k \in 1 .. Len(pairs) |-> pairs[Len(pairs) + 1 - k]]} :
       LET record == [go |-> "map", v |-> order]
       IN  /\ messages' = Append(messages, <<unix, record>>)
           /\ buf' = Append(buf, packForwardMessage(Tag, unix, record))
  /\ UNCHANGED <<wire, conn>>

\* One write; the connection may break, or its deadline pass, on the way.
Send ==
  /\ conn = "open" /\ buf # <<>>
  /\ \E n \in 0 .. Len(Concat(buf)) : wire' = SubSeq(Concat(buf), 1, n)
  /\ conn' = "closed"
  /\ UNCHANGED <<messages, buf>>

Next ==
  \/ Dial \/ Send
  \/ \E e \in LogEntries : Pack(e.unix, Record(e).v)
  \/ \E m \in Others : Pack(m[1], m[2].v)

Spec == Init /\ [][Next]_vars

----------------------------------------------------------------------------
Message(m) == [go |-> "array", v |-> <<Str(Tag), Number(m[1]), m[2]>>]
Meant == [k \in 1 .. Len(messages) |-> Meanings[MaxDepth + 1][Message(messages[k])]]

TypeOK ==
  /\ Len(messages) = Len(buf) /\ Len(buf) <= MaxBatch
  /\ conn \in {"none", "open", "closed"}
  /\ \A k \in 1 .. Len(buf) : \A i \in 1 .. Len(buf[k]) : buf[k][i] \in Byte \/ -buf[k][i] \in Strings

\* The receiver reads back exactly the messages that were packed, value for value
\* and in order; when the connection breaks it reads the first of them and then
\* nothing: never another value, whatever lengths and widths meet in the buffer.
ReadBack ==
  LET meant == Meant
      got == Stream(wire, MaxBatch + 1)
  IN  /\ Stream(Concat(buf), MaxBatch + 1) = meant
      /\ \E n \in 0 .. Len(meant) : got = SubSeq(meant, 1, n)

\* Equal records are equal bytes, in whatever order their maps were iterated
\* (internal/logging/msgpack.go:110: "Sort keys so identical records produce
\* identical bytes").
StableBytes ==
  LET meant == Meant
  IN  \A i, j \in 1 .. Len(buf) : meant[i] = meant[j] => buf[i] = buf[j]

\* The last n bytes of a number, and every encoding of it that the format has.
Low(w, n) == SubSeq(writeUint64(w), 9 - n, 8)
Forms(w) == {Low(w, 1)} \cup {<<t + i>> \o Low(w, Width[i]) : t \in {203, 207}, i \in 1 .. 4}

\* No encoding of the time that the format allows is shorter than the one packInt
\* chose (internal/logging/msgpack.go:167: "the narrowest representation that
\* preserves it").
Narrowest ==
  \A k \in 1 .. Len(messages) :
    LET w == messages[k][1]
    IN  \A f \in Forms(w) :
          Decode(f) = <<MeaningOf(Number(w), <<>>), <<>>>> => Len(packInt(w)) <= Len(f)
=============================================================================
