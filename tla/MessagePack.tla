----------------------------- MODULE MessagePack ---------------------------
(***************************************************************************)
(* The encoder of internal/logging/msgpack.go, and the decoder with which  *)
(* a receiver of the MessagePack format reads what it wrote.               *)
(*                                                                         *)
(* A 64-bit integer is its four 16-bit words, highest first, in two's      *)
(* complement.  A string is a number; the strings are numbered in their    *)
(* order.  An encoding is a sequence of bytes, in which the body of string *)
(* i is the one element -i.  A Go value is a record [go |-> its type,      *)
(* v |-> its value]; a map's value lists <<key, value>> in the order in    *)
(* which range meets the keys.                                             *)
(***************************************************************************)
EXTENDS Integers, Sequences, FiniteSets

CONSTANTS
  Lengths,  \* the lengths of the strings, in bytes
  MaxDepth  \* how deep the values of a record are nested

\* The longest text or container.
MaxLength == 2147483647

Strings == DOMAIN Lengths
Byte == {x \in Nat : x < 256}
Word16 == {x \in Nat : x < 65536}
Word64 == [1 .. 4 -> Word16]
Ones == 65535

ASSUME MessagePackAssumption ==
  /\ Lengths \in Seq({n \in Nat : n <= MaxLength}) /\ MaxDepth \in Nat
  /\ \A i, j \in Strings : Lengths[i] = 0 /\ Lengths[j] = 0 => i = j

\* The sequences of a sequence, one after the other.
Concat(seqs) ==
  LET joined[k \in Nat] == IF k = 0 THEN <<>> ELSE joined[k - 1] \o seqs[k] IN joined[Len(seqs)]

\* Seeded fault: the low byte is not cut to eight bits.
MutWriteUint16(x) == <<x \div 256, x>>

writeUint16(x) == <<x \div 256, x % 256>>
writeUint32(hi, lo) == writeUint16(hi) \o writeUint16(lo)
writeUint64(w) == writeUint32(w[1], w[2]) \o writeUint32(w[3], w[4])

Below(w, bound) == w[1] = 0 /\ w[2] = 0 /\ w[3] = 0 /\ w[4] < bound
AtLeast(w, bound) == w[1] = Ones /\ w[2] = Ones /\ w[3] = Ones /\ w[4] >= 65536 + bound
Negative(w) == w[1] >= 32768

\* Seeded fault: the largest positive fixint is given a byte of its own.
MutPackUint(w) ==
  IF Below(w, 127) THEN <<w[4]>>
  ELSE IF Below(w, 256) THEN <<204, w[4]>>
  ELSE IF Below(w, 65536) THEN <<205>> \o writeUint16(w[4])
  ELSE IF w[1] = 0 /\ w[2] = 0 THEN <<206>> \o writeUint32(w[3], w[4])
  ELSE <<207>> \o writeUint64(w)

packUint(w) ==
  IF Below(w, 128) THEN <<w[4]>>
  ELSE IF Below(w, 256) THEN <<204, w[4]>>
  ELSE IF Below(w, 65536) THEN <<205>> \o writeUint16(w[4])
  ELSE IF w[1] = 0 /\ w[2] = 0 THEN <<206>> \o writeUint32(w[3], w[4])
  ELSE <<207>> \o writeUint64(w)

packInt(w) ==
  IF ~Negative(w) THEN packUint(w)
  ELSE IF AtLeast(w, -32) THEN <<w[4] % 256>>
  ELSE IF AtLeast(w, -128) THEN <<208, w[4] % 256>>
  ELSE IF AtLeast(w, -32768) THEN <<209>> \o writeUint16(w[4])
  ELSE IF w[1] = Ones /\ w[2] = Ones /\ w[3] >= 32768 THEN <<210>> \o writeUint32(w[3], w[4])
  ELSE <<211>> \o writeUint64(w)

packFloat64(w) == <<203>> \o writeUint64(w)

Header(n, fix, tag16) ==
  IF n < 16 THEN <<fix + n>>
  ELSE IF n <= 65535 THEN <<tag16>> \o writeUint16(n)
  ELSE <<tag16 + 1>> \o writeUint32(n \div 65536, n % 65536)

packArrayHeader(n) == Header(n, 144, 220)
packMapHeader(n) == Header(n, 128, 222)

Body(i) == IF Lengths[i] = 0 THEN <<>> ELSE <<-i>>

\* Seeded fault: a string of 32 bytes still gets a one-byte header.
MutStringHeader(n) ==
  IF n <= 32 THEN <<160 + n>>
  ELSE IF n <= 255 THEN <<217, n>>
  ELSE IF n <= 65535 THEN <<218>> \o writeUint16(n)
  ELSE <<219>> \o writeUint32(n \div 65536, n % 65536)

StringHeader(n) ==
  IF n < 32 THEN <<160 + n>>
  ELSE IF n <= 255 THEN <<217, n>>
  ELSE IF n <= 65535 THEN <<218>> \o writeUint16(n)
  ELSE <<219>> \o writeUint32(n \div 65536, n % 65536)

packString(i) == StringHeader(Lengths[i]) \o Body(i)

\* Seeded fault: the keys are written in the order of the iteration.
MutSorted(pairs) == pairs

\* sort.Strings: the k-th key is the one with k keys up to it.
Place(pairs, i) == Cardinality({j \in 1 .. Len(pairs) : pairs[j][1] <= pairs[i][1]})
Sorted(pairs) ==
  [k \in 1 .. Len(pairs) |-> pairs[CHOOSE i \in 1 .. Len(pairs) : Place(pairs, i) = k]]

\* The Go values that are nested at most n deep.  A map has every key once.
Scalars ==
  [go : {"nil", "other"}, v : {0}] \cup [go : {"bool"}, v : BOOLEAN]
    \cup [go : {"string"}, v : Strings] \cup [go : {"int", "uint", "float"}, v : Word64]
Arrays(S) == [go : {"array"}, v : {s \in Seq(S) : Len(s) <= MaxLength}]
Maps(S) ==
  [go : {"map"},
   v : {s \in Seq(Strings \X S) :
          /\ Len(s) <= MaxLength
          /\ \A i, j \in 1 .. Len(s) : s[i][1] = s[j][1] => i = j}]

Values[n \in Nat] ==
  IF n = 0 THEN Scalars ELSE Scalars \cup Arrays(Values[n - 1]) \cup Maps(Values[n - 1])

\* A type the encoder does not know is written as nil; inner encodes what x contains.
Encoding(x, inner) ==
  CASE x.go \in {"nil", "other"}  -> <<192>>
    [] x.go = "bool"   -> <<IF x.v THEN 195 ELSE 194>>
    [] x.go = "string" -> packString(x.v)
    [] x.go = "int"    -> packInt(x.v)
    [] x.go = "uint"   -> packUint(x.v)
    [] x.go = "float"  -> packFloat64(x.v)
    [] x.go = "array"  ->
         packArrayHeader(Len(x.v)) \o Concat([k \in 1 .. Len(x.v) |-> inner[x.v[k]]])
    [] x.go = "map"    ->
         LET pairs == Sorted(x.v)
         IN  packMapHeader(Len(x.v))
               \o Concat([k \in 1 .. Len(x.v) |-> packString(pairs[k][1]) \o inner[pairs[k][2]]])

Encodings[n \in Nat] ==
  [x \in Values[n] |-> Encoding(x, IF n = 0 THEN <<>> ELSE Encodings[n - 1])]

packValue(x) == Encodings[MaxDepth][x]

packForwardMessage(tag, unixTime, record) ==
  packArrayHeader(3) \o packString(tag) \o packInt(unixTime) \o packValue(record)

----------------------------------------------------------------------------
\* What a Go value means to a reader of the format: one kind of integer, a map
\* without order, nil for what the encoder does not know.
Sign(w) == IF Negative(w) THEN "negative" ELSE "natural"

MeaningOf(x, inner) ==
  CASE x.go \in {"nil", "other"}  -> <<"nil", 0>>
    [] x.go = "bool"   -> <<"bool", IF x.v THEN 1 ELSE 0>>
    [] x.go \in {"string", "float"} -> <<x.go, x.v>>
    [] x.go = "int"    -> <<Sign(x.v), x.v>>
    [] x.go = "uint"   -> <<"natural", x.v>>
    [] x.go = "array"  -> <<"array", [k \in 1 .. Len(x.v) |-> inner[x.v[k]]]>>
    [] x.go = "map"    -> <<"map", {<<x.v[k][1], inner[x.v[k][2]]>> : k \in 1 .. Len(x.v)}>>

Meanings[n \in Nat] ==
  [x \in Values[n] |-> MeaningOf(x, IF n = 0 THEN <<>> ELSE Meanings[n - 1])]

\* The widths of a number in bytes.
Width == <<1, 2, 4, 8>>

\* A negative number of one byte, as 64 bits.
Extended(b) == <<Ones, Ones, Ones, 65280 + b>>

\* The format.  The first byte tells the kind of a value and how many bytes follow
\* it; with none of them, it has the content or the size itself.
Marker(t) ==
  CASE t = 192          -> <<"nil", 0, 0>>
    [] t \in {194, 195} -> <<"bool", 0, t - 194>>
    [] t = 203          -> <<"float", 8>>
    [] t \in 204 .. 207 -> <<"natural", Width[t - 203]>>
    [] t \in 208 .. 211 -> <<"signed", Width[t - 207]>>
    [] t \in 217 .. 219 -> <<"text", Width[t - 216]>>
    [] t \in {220, 221} -> <<"array", Width[t - 218]>>
    [] t \in {222, 223} -> <<"map", Width[t - 220]>>
    [] OTHER            -> <<>>

Lead(t) ==
  CASE 0 <= t /\ t < 128   -> <<"natural", 0, <<0, 0, 0, t>>>>
    [] 128 <= t /\ t < 144 -> <<"map", 0, t - 128>>
    [] 144 <= t /\ t < 160 -> <<"array", 0, t - 144>>
    [] 160 <= t /\ t < 192 -> <<"text", 0, t - 160>>
    [] 224 <= t /\ t < 256 -> <<"negative", 0, Extended(t)>>
    [] OTHER               -> Marker(t)

\* The n bytes after the first one, what they are as a number, and what follows.
Bytes(s, n) == Len(s) > n /\ \A k \in 2 .. n + 1 : s[k] >= 0
After(s, n) == SubSeq(s, n + 2, Len(s))
Word(s, k) == s[k] * 256 + s[k + 1]

Unsigned(s, n) ==
  CASE n = 1 -> <<0, 0, 0, s[2]>>
    [] n = 2 -> <<0, 0, 0, Word(s, 2)>>
    [] n = 4 -> <<0, 0, Word(s, 2), Word(s, 4)>>
    [] n = 8 -> <<Word(s, 2), Word(s, 4), Word(s, 6), Word(s, 8)>>

Signed(s, n) ==
  CASE s[2] < 128 \/ n = 8   -> Unsigned(s, n)
    [] s[2] >= 128 /\ n = 1  -> Extended(s[2])
    [] s[2] >= 128 /\ n = 2  -> <<Ones, Ones, Ones, Word(s, 2)>>
    [] s[2] >= 128 /\ n = 4  -> <<Ones, Ones, Word(s, 2), Word(s, 4)>>

Size(w) == w[3] * 65536 + w[4]

\* A whole value, or a text or container and its size, and what is left; <<>> when
\* the bytes are not those of a value or end too early.
Announced(s) ==
  LET lead == Lead(s[1])
      n == lead[2]
      w == IF lead[1] = "signed" THEN Signed(s, n) ELSE Unsigned(s, n)
  IN  IF s = <<>> \/ lead = <<>> \/ ~Bytes(s, n) THEN <<>>
      ELSE IF n = 0 THEN <<lead[1], lead[3], After(s, n)>>
      ELSE CASE lead[1] = "signed" -> <<Sign(w), w, After(s, n)>>
             [] lead[1] \in {"natural", "float"} -> <<lead[1], w, After(s, n)>>
             [] lead[1] \in {"text", "array", "map"} -> <<lead[1], Size(w), After(s, n)>>

\* The empty string has no body.
Empty == CHOOSE i \in Strings : Lengths[i] = 0

Text(s, n) ==
  CASE n = 0 /\ (\E i \in Strings : Lengths[i] = 0) -> <<<<"string", Empty>>, s>>
    [] n > 0 /\ s # <<>> /\ -s[1] \in Strings /\ Lengths[-s[1]] = n -> <<<<"string", -s[1]>>, Tail(s)>>
    [] OTHER -> <<>>

\* One value, and one pair, more than what has been got, read with inner.
NextItem(inner, got) ==
  IF got = <<>> \/ inner[got[2]] = <<>> THEN <<>>
  ELSE LET item == inner[got[2]] IN <<Append(got[1], item[1]), item[2]>>
NextPair(inner, got) ==
  LET key  == inner[got[2]]
      item == inner[key[2]]
  IN  IF got = <<>> \/ key = <<>> \/ key[1][1] # "string" \/ item = <<>> THEN <<>>
      ELSE <<got[1] \cup {<<key[1][2], item[1]>>}, item[2]>>

Items(inner, s, count) ==
  LET got[k \in Nat] == IF k = 0 THEN <<<<>>, s>> ELSE NextItem(inner, got[k - 1]) IN got[count]
Pairs(inner, s, count) ==
  LET got[k \in Nat] == IF k = 0 THEN <<{}, s>> ELSE NextPair(inner, got[k - 1]) IN got[count]

Reading(s, inner) ==
  LET a == Announced(s)
      whole(kind, got) == IF got = <<>> THEN <<>> ELSE <<<<kind, got[1]>>, got[2]>>
  IN  IF a = <<>> THEN <<>>
      ELSE CASE a[1] = "text"  -> Text(a[3], a[2])
             [] a[1] = "array" -> whole("array", Items(inner, a[3], a[2]))
             [] a[1] = "map"   -> whole("map", Pairs(inner, a[3], a[2]))
             [] OTHER          -> <<<<a[1], a[2]>>, a[3]>>

Readings[n \in Nat] ==
  [s \in Seq(Int) |-> Reading(s, IF n = 0 THEN [r \in Seq(Int) |-> <<>>] ELSE Readings[n - 1])]

\* A message is an array around a record.
Decode(s) == Readings[MaxDepth + 1][s]

\* The values a stream begins with, at most n.
NextValue(got) ==
  LET first == Decode(got[2])
  IN  IF first = <<>> THEN got ELSE <<Append(got[1], first[1]), first[2]>>
Stream(s, n) ==
  LET got[k \in Nat] == IF k = 0 THEN <<<<>>, s>> ELSE NextValue(got[k - 1]) IN got[n][1]
=============================================================================
