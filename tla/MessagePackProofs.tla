------------------------- MODULE MessagePackProofs -------------------------
(***************************************************************************)
(* What msgpack.go writes, byte by byte.  For every width of a number,     *)
(* every length of a text or container and every type, the reader takes in *)
(* what was written and leaves what follows; no other way to write a       *)
(* number is shorter.  The last part is about recursion on the naturals,   *)
(* in which the encoder and the reader are written, and about containers   *)
(* of any length, read one after the other.  What follows for maps and for *)
(* values at every depth is in ForwardProofs.                              *)
(***************************************************************************)
EXTENDS MessagePack, TLAPS

----------------------------------------------------------------------------
\* Sequences.

\* The empty sequence, and the others.
LEMMA NoElements ==
  ASSUME NEW S
  PROVE  <<>> \in Seq(S) /\ Len(<<>>) = 0 /\ \A s \in Seq(S) : s # <<>> => Len(s) \in Nat \ {0}
OBVIOUS

\* A function on 1 .. n is a sequence.
LEMMA SequenceOf ==
  ASSUME NEW S, NEW n \in Nat, NEW s \in [1 .. n -> S]
  PROVE  s \in Seq(S)
OBVIOUS

\* Sequences with the same elements are the same.
LEMMA SameElements ==
  ASSUME NEW S, NEW a \in Seq(S), NEW b \in Seq(S),
         Len(a) = Len(b), \A i \in 1 .. Len(a) : a[i] = b[i]
  PROVE  a = b
OBVIOUS

\* A sequence and one element more.
LEMMA OneMoreElement ==
  ASSUME NEW S, NEW a \in Seq(S), NEW x \in S
  PROVE  /\ Append(a, x) \in Seq(S) /\ Append(a, x) # <<>> /\ Len(Append(a, x)) = Len(a) + 1
         /\ \A i \in 1 .. Len(a) : Append(a, x)[i] = a[i]
         /\ Append(a, x)[Len(a) + 1] = x
OBVIOUS

\* One sequence after the other.
LEMMA OneAfterOther ==
  ASSUME NEW S, NEW a \in Seq(S), NEW b \in Seq(S)
  PROVE  /\ a \o b \in Seq(S) /\ Len(a \o b) = Len(a) + Len(b)
         /\ \A i \in 1 .. Len(a) + Len(b) : (a \o b)[i] = IF i <= Len(a) THEN a[i] ELSE b[i - Len(a)]
<1>1. a \o b \in Seq(S) /\ Len(a \o b) = Len(a) + Len(b)
  OBVIOUS
<1>2. ASSUME NEW i \in 1 .. Len(a) + Len(b)
      PROVE  (a \o b)[i] = IF i <= Len(a) THEN a[i] ELSE b[i - Len(a)]
  OBVIOUS
<1>. QED
  BY <1>1, <1>2

\* Nothing before or after a sequence.
LEMMA NothingAdded ==
  ASSUME NEW S, NEW a \in Seq(S)
  PROVE  a \o <<>> = a /\ <<>> \o a = a
OBVIOUS

\* Three sequences, one after the other.
LEMMA ThreeInARow ==
  ASSUME NEW S, NEW a \in Seq(S), NEW b \in Seq(S), NEW c \in Seq(S)
  PROVE  (a \o b) \o c = a \o (b \o c)
OBVIOUS

\* A piece of a sequence.
LEMMA Piece ==
  ASSUME NEW S, NEW s \in Seq(S), NEW m \in 1 .. Len(s) + 1, NEW n \in m - 1 .. Len(s)
  PROVE  /\ SubSeq(s, m, n) \in Seq(S) /\ Len(SubSeq(s, m, n)) = n - m + 1
         /\ \A i \in 1 .. n - m + 1 : SubSeq(s, m, n)[i] = s[m + i - 1]
OBVIOUS

\* Two sequences, one after the other.
LEMMA Joined ==
  ASSUME NEW S, NEW a \in Seq(S), NEW b \in Seq(S)
  PROVE  /\ a \o b \in Seq(S) /\ Len(a \o b) = Len(a) + Len(b) /\ Len(a) \in Nat /\ Len(b) \in Nat
         /\ \A i \in 1 .. Len(a) : (a \o b)[i] = a[i]
         /\ \A i \in 1 .. Len(b) : (a \o b)[Len(a) + i] = b[i]
<1>1. /\ a \o b \in Seq(S) /\ Len(a \o b) = Len(a) + Len(b) /\ Len(a) \in Nat /\ Len(b) \in Nat
      /\ \A i \in 1 .. Len(a) + Len(b) : (a \o b)[i] = IF i <= Len(a) THEN a[i] ELSE b[i - Len(a)]
  BY OneAfterOther
<1> DEFINE s == a \o b
<1> HIDE DEF s
<1>2. \A i \in 1 .. Len(a) : s[i] = a[i]
  BY <1>1 DEF s
<1>3. \A i \in 1 .. Len(b) : s[Len(a) + i] = b[i]
  BY <1>1 DEF s
<1>. QED
  BY <1>1, <1>2, <1>3, Zenon DEF s

\* A sequence over a set is one over a larger set.
LEMMA Wider ==
  ASSUME NEW S, NEW T, S \subseteq T, NEW q \in Seq(S)
  PROVE  q \in Seq(T) /\ Len(q) \in Nat /\ \A i \in 1 .. Len(q) : q[i] \in S
OBVIOUS

\* The first part of a sequence can be told apart from what follows it.
LEMMA Prepended ==
  ASSUME NEW p \in Seq(Int), NEW r \in Seq(Int), p # <<>>
  PROVE  /\ p \o r \in Seq(Int) /\ p \o r # <<>>
         /\ Len(p \o r) = Len(p) + Len(r) /\ Len(p) \in Nat /\ Len(p) >= 1 /\ Len(r) \in Nat
         /\ \A i \in 1 .. Len(p) : (p \o r)[i] = p[i]
         /\ SubSeq(p \o r, Len(p) + 1, Len(p \o r)) = r
         /\ Len(p) = 1 => Tail(p \o r) = r
<1>1. /\ p \o r \in Seq(Int) /\ Len(p \o r) = Len(p) + Len(r)
      /\ \A i \in 1 .. Len(p \o r) : (p \o r)[i] = IF i <= Len(p) THEN p[i] ELSE r[i - Len(p)]
  BY OneAfterOther
<1>2. Len(p) \in Nat /\ Len(p) >= 1 /\ Len(r) \in Nat
  BY NoElements
<1> DEFINE s == p \o r
<1> HIDE DEF s
<1>3. SubSeq(s, Len(p) + 1, Len(s)) = r
  BY <1>1, <1>2 DEF s
<1>4. s # <<>>
  <2>1. Len(s) # 0
    BY <1>1, <1>2 DEF s
  <2>. QED
    BY <2>1
<1>5. Len(p) = 1 => Tail(s) = r
  <2>1. s \in Seq(Int) /\ Tail(s) = SubSeq(s, 2, Len(s))
    BY <1>1, <1>4 DEF s
  <2>2. Len(p) = 1 => Len(p) + 1 = 2
    OBVIOUS
  <2>. QED
    BY <1>3, <2>1, <2>2, Zenon
<1>6. \A i \in 1 .. Len(p) : s[i] = p[i]
  BY <1>1, <1>2 DEF s
<1>. QED
  BY <1>1, <1>2, <1>3, <1>4, <1>5, <1>6, SMTT(30) DEF s

\* The highest of the sixteen bits is set.
High(x) == x >= 32768

\* A 16-bit word is its high byte and its low byte.
LEMMA TwoBytes ==
  ASSUME NEW x \in Word16
  PROVE  /\ x \in Int /\ x \div 256 \in Byte /\ x % 256 \in Byte
         /\ (x \div 256) * 256 + (x % 256) = x
         /\ (x \div 256 >= 128 <=> High(x))
<1>1. x \in Int /\ 0 <= x /\ x <= 65535
  BY DEF Word16
<1> DEFINE a == x \div 256
           b == x % 256
<1>2. a \in Int /\ b \in Int
  BY <1>1
<1>3. a * 256 + b = x
  BY <1>1
<1>4. b >= 0 /\ b <= 255
  BY <1>1
<1> HIDE DEF a, b
<1>5. a >= 0 /\ a <= 255 /\ (a >= 128 <=> x >= 32768)
  BY <1>1, <1>2, <1>3, <1>4
<1>6. a \in Byte /\ b \in Byte
  BY <1>2, <1>4, <1>5 DEF Byte
<1>. QED
  BY <1>1, <1>2, <1>3, <1>4, <1>5, <1>6 DEF a, b, High

\* s is a tag, n bytes after it, and r.
Tagged(s, n, r) == s \in Seq(Int) /\ s # <<>> /\ Bytes(s, n) /\ After(s, n) = r

\* A tag and n bytes before r are read as such.
LEMMA TaggedIfPrepended ==
  ASSUME NEW n \in Nat, NEW p \in Seq(Int), Len(p) = n + 1, NEW r \in Seq(Int),
         \A k \in 2 .. n + 1 : p[k] >= 0
  PROVE  /\ Tagged(p \o r, n, r)
         /\ \A i \in 1 .. n + 1 : (p \o r)[i] = p[i]
         /\ Len(p \o r) = Len(p) + Len(r) /\ Len(r) \in Nat
<1> DEFINE s == p \o r
<1>1. p # <<>>
  OBVIOUS
<1>2. /\ s \in Seq(Int) /\ s # <<>> /\ Len(s) = Len(p) + Len(r) /\ Len(r) \in Nat
      /\ \A i \in 1 .. Len(p) : s[i] = p[i]
      /\ SubSeq(s, Len(p) + 1, Len(s)) = r
  BY <1>1, Prepended, Zenon
<1> HIDE DEF s
<1>3. Len(s) > n /\ (n + 1) + 1 = n + 2
  BY <1>2
<1>4. \A i \in 1 .. n + 1 : s[i] = p[i]
  BY <1>2, Zenon
<1>5. Bytes(s, n)
  BY <1>3, <1>4 DEF Bytes
<1>6. After(s, n) = r
  BY <1>2, <1>3, Zenon DEF After
<1>. QED
  BY <1>2, <1>4, <1>5, <1>6, Zenon DEF s, Tagged

\* One more element in front shifts the others by one.
LEMMA Led ==
  ASSUME NEW t \in Int, NEW q \in Seq(Int)
  PROVE  /\ <<t>> \o q \in Seq(Int) /\ Len(<<t>> \o q) = Len(q) + 1
         /\ (<<t>> \o q)[1] = t /\ \A i \in 1 .. Len(q) : (<<t>> \o q)[i + 1] = q[i]
<1>1. <<t>> \in Seq(Int) /\ Len(<<t>>) = 1 /\ <<t>>[1] = t /\ Len(q) \in Nat
  OBVIOUS
<1> DEFINE p == <<t>>
<1> HIDE DEF p
<1>2. /\ p \o q \in Seq(Int) /\ Len(p \o q) = Len(p) + Len(q)
      /\ \A i \in 1 .. Len(p) + Len(q) : (p \o q)[i] = IF i <= Len(p) THEN p[i] ELSE q[i - Len(p)]
  BY <1>1, OneAfterOther, Zenon DEF p
<1>3. (p \o q)[1] = t /\ \A i \in 1 .. Len(q) : (p \o q)[i + 1] = q[i]
  BY <1>1, <1>2 DEF p
<1>. QED
  BY <1>1, <1>2, <1>3 DEF p

\* writeUint16 writes two bytes, from which the word can be computed.
LEMMA Bytes16 ==
  ASSUME NEW x \in Word16
  PROVE  LET q == writeUint16(x)
         IN  q \in Seq(Byte) /\ Len(q) = 2 /\ q[1] * 256 + q[2] = x /\ (q[1] >= 128 <=> High(x))
<1> DEFINE a == x \div 256
           b == x % 256
<1>1. a \in Byte /\ b \in Byte /\ a * 256 + b = x /\ (a >= 128 <=> High(x))
  BY TwoBytes
<1>2. writeUint16(x) = <<a, b>>
  BY Zenon DEF writeUint16
<1> HIDE DEF a, b
<1>3. <<a, b>> \in Seq(Byte) /\ Len(<<a, b>>) = 2 /\ <<a, b>>[1] = a /\ <<a, b>>[2] = b
  BY <1>1
<1>. QED
  BY <1>1, <1>2, <1>3

\* writeUint32 writes four bytes, from which both words can be computed.
LEMMA Bytes32 ==
  ASSUME NEW x \in Word16, NEW y \in Word16
  PROVE  LET q == writeUint32(x, y)
         IN  /\ q \in Seq(Byte) /\ Len(q) = 4
             /\ q[1] * 256 + q[2] = x /\ q[3] * 256 + q[4] = y /\ (q[1] >= 128 <=> High(x))
<1> DEFINE a == writeUint16(x)
           b == writeUint16(y)
<1>1. a \in Seq(Byte) /\ Len(a) = 2 /\ a[1] * 256 + a[2] = x /\ (a[1] >= 128 <=> High(x))
  BY Bytes16
<1>2. b \in Seq(Byte) /\ Len(b) = 2 /\ b[1] * 256 + b[2] = y
  BY Bytes16
<1>3. writeUint32(x, y) = a \o b
  BY DEF writeUint32
<1> HIDE DEF a, b
<1>4. /\ a \o b \in Seq(Byte) /\ Len(a \o b) = Len(a) + Len(b)
      /\ \A i \in 1 .. Len(a) : (a \o b)[i] = a[i]
      /\ \A i \in 1 .. Len(b) : (a \o b)[Len(a) + i] = b[i]
  <2> HIDE DEF Byte
  <2>1. a \in Seq(Byte) /\ b \in Seq(Byte)
    BY <1>1, <1>2
  <2>. QED
    BY <2>1, Joined
<1> DEFINE q == a \o b
<1> HIDE DEF q
<1>5. Len(q) = 4 /\ q[1] = a[1] /\ q[2] = a[2] /\ q[3] = b[1] /\ q[4] = b[2]
  BY <1>1, <1>2, <1>4 DEF q
<1>. QED
  BY <1>1, <1>2, <1>3, <1>4, <1>5 DEF q

\* writeUint64 writes eight bytes, from which all four words can be computed.
LEMMA Bytes64 ==
  ASSUME NEW w \in Word64
  PROVE  LET q == writeUint64(w)
         IN  /\ q \in Seq(Byte) /\ Len(q) = 8
             /\ q[1] * 256 + q[2] = w[1] /\ q[3] * 256 + q[4] = w[2]
             /\ q[5] * 256 + q[6] = w[3] /\ q[7] * 256 + q[8] = w[4]
             /\ (q[1] >= 128 <=> High(w[1]))
<1> DEFINE a == writeUint32(w[1], w[2])
           b == writeUint32(w[3], w[4])
<1>0. w[1] \in Word16 /\ w[2] \in Word16 /\ w[3] \in Word16 /\ w[4] \in Word16
  <2> HIDE DEF Word16
  <2>. QED
    BY DEF Word64
<1>1. /\ a \in Seq(Byte) /\ Len(a) = 4
      /\ a[1] * 256 + a[2] = w[1] /\ a[3] * 256 + a[4] = w[2] /\ (a[1] >= 128 <=> High(w[1]))
  BY <1>0, Bytes32
<1>2. b \in Seq(Byte) /\ Len(b) = 4 /\ b[1] * 256 + b[2] = w[3] /\ b[3] * 256 + b[4] = w[4]
  BY <1>0, Bytes32
<1>3. writeUint64(w) = a \o b
  BY DEF writeUint64
<1> HIDE DEF a, b
<1>4. /\ a \o b \in Seq(Byte) /\ Len(a \o b) = Len(a) + Len(b)
      /\ \A i \in 1 .. Len(a) : (a \o b)[i] = a[i]
      /\ \A i \in 1 .. Len(b) : (a \o b)[Len(a) + i] = b[i]
  <2> HIDE DEF Byte
  <2>1. a \in Seq(Byte) /\ b \in Seq(Byte)
    BY <1>1, <1>2
  <2>. QED
    BY <2>1, Joined
<1> DEFINE q == a \o b
<1> HIDE DEF q
<1>5. Len(q) = 8 /\ q[1] = a[1] /\ q[2] = a[2] /\ q[3] = a[3] /\ q[4] = a[4]
  BY <1>1, <1>2, <1>4 DEF q
<1>6. q[5] = b[1] /\ q[6] = b[2] /\ q[7] = b[3] /\ q[8] = b[4]
  BY <1>1, <1>2, <1>4 DEF q
<1>. QED
  BY <1>1, <1>2, <1>3, <1>4, <1>5, <1>6 DEF q

\* p is the byte t and the bytes q, and s is p and r.
Spelled(t, q, r, p, s) ==
  /\ Tagged(s, Len(q), r) /\ s[1] = t
  /\ \A i \in 1 .. Len(q) : s[i + 1] = q[i] /\ q[i] \in Byte
  /\ p \in Seq(Byte) /\ Len(p) = Len(q) + 1

\* The bytes q after the tag t are at their places, whatever follows.
LEMMA TaggedBytes ==
  ASSUME NEW t \in Byte, NEW q \in Seq(Byte), NEW r \in Seq(Int)
  PROVE  Spelled(t, q, r, <<t>> \o q, (<<t>> \o q) \o r)
<1> DEFINE n == Len(q)
           p == <<t>> \o q
           s == p \o r
<1>7. n \in Nat
  OBVIOUS
<1> HIDE DEF n
<1>0. \A b \in Byte : b \in Int /\ b >= 0
  BY DEF Byte
<1>1. q \in Seq(Int) /\ \A i \in 1 .. n : q[i] \in Byte /\ q[i] \in Int /\ q[i] >= 0
  BY <1>0, Wider DEF n
<1>6. p \in Seq(Byte)
  <2>1. <<t>> \in Seq(Byte)
    OBVIOUS
  <2>. QED
    BY <2>1, OneAfterOther, Zenon
<1>2. p \in Seq(Int) /\ Len(p) = n + 1 /\ p[1] = t /\ \A i \in 1 .. n : p[i + 1] = q[i]
  BY <1>0, <1>1, Led DEF n
<1> HIDE DEF p
<1>3. ASSUME NEW k \in 2 .. n + 1
      PROVE  p[k] >= 0
  <2>1. k - 1 \in 1 .. n /\ (k - 1) + 1 = k
    BY <1>7
  <2>. QED
    BY <1>1, <1>2, <2>1
<1>4. Tagged(p \o r, n, r) /\ \A i \in 1 .. n + 1 : (p \o r)[i] = p[i]
  BY <1>2, <1>3, <1>7, TaggedIfPrepended, Zenon
<1> HIDE DEF s
<1>5. s[1] = t /\ \A i \in 1 .. n : s[i + 1] = q[i]
  BY <1>2, <1>4, <1>7 DEF s
<1>. QED
  BY <1>1, <1>2, <1>4, <1>5, <1>6, Zenon DEF n, p, s, Spelled

\* So is a single byte.
LEMMA TaggedByte ==
  ASSUME NEW t \in Int, NEW x \in Byte, NEW r \in Seq(Int)
  PROVE  LET s == <<t, x>> \o r IN Tagged(s, 1, r) /\ s[1] = t /\ s[2] = x
<1> DEFINE p == <<t, x>>
<1>1. p \in Seq(Int) /\ Len(p) = 2 /\ p[1] = t /\ p[2] = x /\ x >= 0 /\ x \in Int
  BY DEF Byte
<1> HIDE DEF p
<1>2. Len(p) = 1 + 1 /\ \A k \in 2 .. 1 + 1 : p[k] >= 0
  BY <1>1
<1>3. Tagged(p \o r, 1, r) /\ \A i \in 1 .. 1 + 1 : (p \o r)[i] = p[i]
  BY <1>1, <1>2, TaggedIfPrepended, Zenon
<1> DEFINE s == p \o r
<1> HIDE DEF s
<1>4. s[1] = t /\ s[2] = x
  <2>1. 1 \in 1 .. 1 + 1 /\ 2 \in 1 .. 1 + 1
    OBVIOUS
  <2>. QED
    BY <1>1, <1>3, <2>1, Zenon DEF s
<1>. QED
  BY <1>3, <1>4, Zenon DEF s, p

\* A single byte and what follows it.
LEMMA OneByte ==
  ASSUME NEW t \in Int, NEW r \in Seq(Int)
  PROVE  LET s == <<t>> \o r IN s \in Seq(Int) /\ s # <<>> /\ s[1] = t /\ Tail(s) = r
<1> DEFINE p == <<t>>
<1>1. p \in Seq(Int) /\ p # <<>> /\ Len(p) = 1 /\ p[1] = t
  OBVIOUS
<1> HIDE DEF p
<1>2. /\ p \o r \in Seq(Int) /\ p \o r # <<>> /\ Tail(p \o r) = r
      /\ \A i \in 1 .. Len(p) : (p \o r)[i] = p[i]
  BY <1>1, Prepended, Zenon
<1>3. 1 \in 1 .. Len(p)
  BY <1>1
<1>. QED
  BY <1>1, <1>2, <1>3, Zenon DEF p

\* Bytes and words are integers.
LEMMA ByteIsInt ==
  Byte \subseteq Int /\ Word16 \subseteq Int /\ \A x \in Byte : x >= 0 /\ x < 256
BY DEF Byte, Word16

\* The first bytes that carry a value or a size themselves.
LEMMA LeadFix ==
  ASSUME NEW t \in Int
  PROVE  /\ 0 <= t /\ t < 128 => Lead(t) = <<"natural", 0, <<0, 0, 0, t>>>>
         /\ 128 <= t /\ t < 144 => Lead(t) = <<"map", 0, t - 128>>
         /\ 144 <= t /\ t < 160 => Lead(t) = <<"array", 0, t - 144>>
         /\ 160 <= t /\ t < 192 => Lead(t) = <<"text", 0, t - 160>>
         /\ 224 <= t /\ t < 256 => Lead(t) = <<"negative", 0, Extended(t)>>
<1>1. ASSUME 0 <= t, t < 128
      PROVE  Lead(t) = <<"natural", 0, <<0, 0, 0, t>>>>
  BY <1>1, SMT DEF Lead
<1>2. ASSUME 128 <= t, t < 144
      PROVE  Lead(t) = <<"map", 0, t - 128>>
  BY <1>2, SMT DEF Lead
<1>3. ASSUME 144 <= t, t < 160
      PROVE  Lead(t) = <<"array", 0, t - 144>>
  BY <1>3, SMT DEF Lead
<1>4. ASSUME 160 <= t, t < 192
      PROVE  Lead(t) = <<"text", 0, t - 160>>
  BY <1>4, SMT DEF Lead
<1>5. ASSUME 224 <= t, t < 256
      PROVE  Lead(t) = <<"negative", 0, Extended(t)>>
  BY <1>5, SMT DEF Lead
<1>. QED
  BY <1>1, <1>2, <1>3, <1>4, <1>5

\* The first bytes that tell of others.
LEMMA LeadTag ==
  /\ Lead(192) = <<"nil", 0, 0>> /\ Lead(194) = <<"bool", 0, 0>> /\ Lead(195) = <<"bool", 0, 1>>
  /\ Lead(203) = <<"float", 8>>
  /\ Lead(204) = <<"natural", 1>> /\ Lead(205) = <<"natural", 2>>
  /\ Lead(206) = <<"natural", 4>> /\ Lead(207) = <<"natural", 8>>
  /\ Lead(208) = <<"signed", 1>> /\ Lead(209) = <<"signed", 2>>
  /\ Lead(210) = <<"signed", 4>> /\ Lead(211) = <<"signed", 8>>
  /\ Lead(217) = <<"text", 1>> /\ Lead(218) = <<"text", 2>> /\ Lead(219) = <<"text", 4>>
  /\ Lead(220) = <<"array", 2>> /\ Lead(221) = <<"array", 4>>
  /\ Lead(222) = <<"map", 2>> /\ Lead(223) = <<"map", 4>>
<1>0. Width[1] = 1 /\ Width[2] = 2 /\ Width[3] = 4 /\ Width[4] = 8
  BY DEF Width
<1> HIDE DEF Width
<1>1. Lead(192) = <<"nil", 0, 0>> /\ Lead(194) = <<"bool", 0, 0>> /\ Lead(195) = <<"bool", 0, 1>>
  BY SMT DEF Lead, Marker
<1>2. Lead(203) = <<"float", 8>>
  BY SMT DEF Lead, Marker
<1>3. Lead(204) = <<"natural", 1>> /\ Lead(205) = <<"natural", 2>>
  BY <1>0, SMT DEF Lead, Marker
<1>4. Lead(206) = <<"natural", 4>> /\ Lead(207) = <<"natural", 8>>
  BY <1>0, SMT DEF Lead, Marker
<1>5. Lead(208) = <<"signed", 1>> /\ Lead(209) = <<"signed", 2>>
  BY <1>0, SMT DEF Lead, Marker
<1>6. Lead(210) = <<"signed", 4>> /\ Lead(211) = <<"signed", 8>>
  BY <1>0, SMT DEF Lead, Marker
<1>7. Lead(217) = <<"text", 1>> /\ Lead(218) = <<"text", 2>> /\ Lead(219) = <<"text", 4>>
  BY <1>0, SMT DEF Lead, Marker
<1>8. Lead(220) = <<"array", 2>> /\ Lead(221) = <<"array", 4>>
  BY <1>0, SMT DEF Lead, Marker
<1>9. Lead(222) = <<"map", 2>> /\ Lead(223) = <<"map", 4>>
  BY <1>0, SMT DEF Lead, Marker
<1>. QED
  BY <1>1, <1>2, <1>3, <1>4, <1>5, <1>6, <1>7, <1>8, <1>9

\* A first byte that says everything leaves the tail.
LEMMA AnnouncedAtOnce ==
  ASSUME NEW s \in Seq(Int), s # <<>>, NEW kind, NEW content, Lead(s[1]) = <<kind, 0, content>>
  PROVE  Announced(s) = <<kind, content, Tail(s)>>
<1>1. Len(s) > 0 /\ \A k \in 2 .. 0 + 1 : FALSE
  BY NoElements
<1>2. Bytes(s, 0)
  BY <1>1 DEF Bytes
<1>3. After(s, 0) = Tail(s)
  BY <1>1, SMTT(30) DEF After
<1> HIDE DEF Lead, Bytes, After
<1>4. Lead(s[1]) # <<>> /\ Lead(s[1])[1] = kind /\ Lead(s[1])[2] = 0 /\ Lead(s[1])[3] = content
  OBVIOUS
<1>. QED
  BY <1>2, <1>3, <1>4 DEF Announced

\* A tag of n bytes announces the number in them, or the size, and leaves what follows.
LEMMA AnnouncedAfter ==
  ASSUME NEW s, NEW n, n # 0, NEW r, Tagged(s, n, r), NEW kind, Lead(s[1]) = <<kind, n>>
  PROVE  /\ kind \in {"natural", "float"} => Announced(s) = <<kind, Unsigned(s, n), r>>
         /\ kind = "signed" => Announced(s) = <<Sign(Signed(s, n)), Signed(s, n), r>>
         /\ kind \in {"text", "array", "map"} =>
              Announced(s) = <<kind, Size(Unsigned(s, n)), r>>
<1>1. s # <<>> /\ Bytes(s, n) /\ After(s, n) = r
  BY DEF Tagged
<1> HIDE DEF Lead, Bytes, After, Unsigned, Signed, Sign
<1>2. Lead(s[1]) # <<>> /\ Lead(s[1])[1] = kind /\ Lead(s[1])[2] = n
  OBVIOUS
<1>3. kind \in {"natural", "float"} => Announced(s) = <<kind, Unsigned(s, n), r>>
  BY <1>1, <1>2 DEF Announced
<1>4. kind = "signed" => Announced(s) = <<Sign(Signed(s, n)), Signed(s, n), r>>
  BY <1>1, <1>2 DEF Announced
<1>5. kind \in {"text", "array", "map"} =>
              Announced(s) = <<kind, Size(Unsigned(s, n)), r>>
  BY <1>1, <1>2 DEF Announced
<1>. QED
  BY <1>3, <1>4, <1>5

\* p is a marker t and n bytes that are the number u, read without and with a sign.
Carries(p, t, n, u) ==
  /\ p \in Seq(Byte) /\ Len(p) = n + 1
  /\ \A r \in Seq(Int) : Tagged(p \o r, n, r) /\ (p \o r)[1] = t /\ Unsigned(p \o r, n) = u

CarriesSigned(p, t, n, u) ==
  /\ p \in Seq(Byte) /\ Len(p) = n + 1
  /\ \A r \in Seq(Int) : Tagged(p \o r, n, r) /\ (p \o r)[1] = t /\ Signed(p \o r, n) = u

\* Whatever follows it, p is read as the start of a value with this content.
Announces(p, kind, content) ==
  /\ p \in Seq(Byte) /\ p # <<>>
  /\ \A r \in Seq(Int) : Announced(p \o r) = <<kind, content, r>>

\* A tag and the bytes of a number announce the number.
LEMMA NumberAnnounces ==
  ASSUME NEW p, NEW t, NEW n \in Nat, n # 0, NEW u, Carries(p, t, n, u), NEW kind, Lead(t) = <<kind, n>>,
         kind \in {"natural", "float"}
  PROVE  Announces(p, kind, u)
<1>1. p \in Seq(Byte) /\ p # <<>>
  BY DEF Carries
<1>2. ASSUME NEW r \in Seq(Int)
      PROVE  Announced(p \o r) = <<kind, u, r>>
  <2> DEFINE s == p \o r
  <2>1. Tagged(s, n, r) /\ s[1] = t /\ Unsigned(s, n) = u
    BY DEF Carries
  <2> HIDE DEF s
  <2>2. Announced(s) = <<kind, Unsigned(s, n), r>>
    BY <2>1, AnnouncedAfter
  <2>. QED
    BY <2>1, <2>2 DEF s
<1>. QED
  BY <1>1, <1>2 DEF Announces

\* A signed tag and the bytes of a number announce it with its sign.
LEMMA SignedAnnounces ==
  ASSUME NEW p, NEW t, NEW n \in Nat, n # 0, NEW u, CarriesSigned(p, t, n, u), Lead(t) = <<"signed", n>>
  PROVE  Announces(p, Sign(u), u)
<1>1. p \in Seq(Byte) /\ p # <<>>
  BY DEF CarriesSigned
<1>2. ASSUME NEW r \in Seq(Int)
      PROVE  Announced(p \o r) = <<Sign(u), u, r>>
  <2> DEFINE s == p \o r
  <2>1. Tagged(s, n, r) /\ s[1] = t /\ Signed(s, n) = u
    BY DEF CarriesSigned
  <2> HIDE DEF s
  <2>2. Announced(s) = <<Sign(Signed(s, n)), Signed(s, n), r>>
    BY <2>1, AnnouncedAfter
  <2>. QED
    BY <2>1, <2>2 DEF s
<1>. QED
  BY <1>1, <1>2 DEF Announces

\* A tag of a text or container and the bytes of a number announce its size.
LEMMA SizeAnnounces ==
  ASSUME NEW p, NEW t, NEW n \in Nat, n # 0, NEW u, Carries(p, t, n, u), NEW kind, Lead(t) = <<kind, n>>,
         kind \in {"text", "array", "map"}
  PROVE  Announces(p, kind, Size(u))
<1>1. p \in Seq(Byte) /\ p # <<>>
  BY DEF Carries
<1>2. ASSUME NEW r \in Seq(Int)
      PROVE  Announced(p \o r) = <<kind, Size(u), r>>
  <2> DEFINE s == p \o r
  <2>1. Tagged(s, n, r) /\ s[1] = t /\ Unsigned(s, n) = u
    BY DEF Carries
  <2> HIDE DEF s
  <2>2. Announced(s) = <<kind, Size(Unsigned(s, n)), r>>
    BY <2>1, AnnouncedAfter
  <2>. QED
    BY <2>1, <2>2 DEF s
<1>. QED
  BY <1>1, <1>2 DEF Announces

\* A 64-bit integer is its four words.
LEMMA FourWords ==
  ASSUME NEW w \in Word64
  PROVE  /\ w = <<w[1], w[2], w[3], w[4]>>
         /\ w[1] \in Word16 /\ w[2] \in Word16 /\ w[3] \in Word16 /\ w[4] \in Word16
<1> HIDE DEF Word16
<1>1. w[1] \in Word16 /\ w[2] \in Word16 /\ w[3] \in Word16 /\ w[4] \in Word16
  BY DEF Word64
<1>2. w = <<w[1], w[2], w[3], w[4]>>
  BY DEF Word64
<1>. QED
  BY <1>1, <1>2

\* A byte read as an unsigned number.
LEMMA Unsigned8 ==
  ASSUME NEW t \in Byte, NEW x \in Byte, NEW u, u = <<0, 0, 0, x>>
  PROVE  Carries(<<t, x>>, t, 1, u)
<1> DEFINE p == <<t, x>>
<1>1. p \in Seq(Byte) /\ Len(p) = 1 + 1
  OBVIOUS
<1>2. ASSUME NEW r \in Seq(Int)
      PROVE  Tagged(p \o r, 1, r) /\ (p \o r)[1] = t /\ Unsigned(p \o r, 1) = u
  <2> DEFINE s == p \o r
  <2>1. Tagged(s, 1, r) /\ s[1] = t /\ s[2] = x
    BY TaggedByte, ByteIsInt
  <2> HIDE DEF s
  <2>2. Unsigned(s, 1) = u
    BY <2>1 DEF Unsigned
  <2>. QED
    BY <2>1, <2>2 DEF s
<1> HIDE DEF p
<1>3. Carries(p, t, 1, u)
  BY <1>1, <1>2, Zenon DEF Carries
<1>. QED
  BY <1>3 DEF p

\* A byte read as a negative number.
LEMMA Signed8 ==
  ASSUME NEW t \in Byte, NEW x \in Byte, x >= 128, NEW u, u = Extended(x)
  PROVE  CarriesSigned(<<t, x>>, t, 1, u)
<1> DEFINE p == <<t, x>>
<1>1. p \in Seq(Byte) /\ Len(p) = 1 + 1
  OBVIOUS
<1>2. ASSUME NEW r \in Seq(Int)
      PROVE  Tagged(p \o r, 1, r) /\ (p \o r)[1] = t /\ Signed(p \o r, 1) = u
  <2> DEFINE s == p \o r
  <2>1. Tagged(s, 1, r) /\ s[1] = t /\ s[2] = x
    BY TaggedByte, ByteIsInt
  <2> HIDE DEF s
  <2>2. Signed(s, 1) = u
    BY <2>1, ByteIsInt DEF Signed
  <2>. QED
    BY <2>1, <2>2 DEF s
<1> HIDE DEF p
<1>3. CarriesSigned(p, t, 1, u)
  BY <1>1, <1>2, Zenon DEF CarriesSigned
<1>. QED
  BY <1>3 DEF p

\* The bytes q follow the first byte of s.
Holds(s, q) == \A i \in 1 .. Len(q) : s[i + 1] = q[i] /\ q[i] \in Int

\* A tag and bytes are bytes; whatever follows, the reader meets them there.
LEMMA Holding ==
  ASSUME NEW t \in Byte, NEW q \in Seq(Byte), NEW p, p = <<t>> \o q
  PROVE  /\ p \in Seq(Byte) /\ Len(p) = Len(q) + 1
         /\ \A r \in Seq(Int) : Tagged(p \o r, Len(q), r) /\ (p \o r)[1] = t /\ Holds(p \o r, q)
<1>0. Len(q) \in Nat /\ <<>> \in Seq(Int)
  OBVIOUS
<1>1. ASSUME NEW r \in Seq(Int)
      PROVE  /\ Tagged(p \o r, Len(q), r) /\ (p \o r)[1] = t /\ Holds(p \o r, q)
             /\ p \in Seq(Byte) /\ Len(p) = Len(q) + 1
  <2> DEFINE s == p \o r
  <2>1. Spelled(t, q, r, p, s)
    BY TaggedBytes
  <2> HIDE DEF s
  <2>2. Holds(s, q)
    BY <2>1, ByteIsInt, Zenon DEF Spelled, Holds
  <2>. QED
    BY <2>1, <2>2 DEF Spelled, s
<1>. QED
  BY <1>0, <1>1

\* It is enough to look at the bytes after the tag to know the number.
LEMMA Carrying ==
  ASSUME NEW t \in Byte, NEW q \in Seq(Byte), NEW n, n = Len(q), NEW u,
         \A s : Holds(s, q) => Unsigned(s, n) = u
  PROVE  Carries(<<t>> \o q, t, n, u)
<1> DEFINE p == <<t>> \o q
<1>1. /\ p \in Seq(Byte) /\ Len(p) = n + 1
      /\ \A r \in Seq(Int) : Tagged(p \o r, n, r) /\ (p \o r)[1] = t /\ Holds(p \o r, q)
  BY Holding, Zenon
<1> HIDE DEF p
<1>2. Carries(p, t, n, u)
  BY <1>1 DEF Carries
<1>. QED
  BY <1>2 DEF p

\* The same for a signed number.
LEMMA CarryingSigned ==
  ASSUME NEW t \in Byte, NEW q \in Seq(Byte), NEW n, n = Len(q), NEW u,
         \A s : Holds(s, q) => Signed(s, n) = u
  PROVE  CarriesSigned(<<t>> \o q, t, n, u)
<1> DEFINE p == <<t>> \o q
<1>1. /\ p \in Seq(Byte) /\ Len(p) = n + 1
      /\ \A r \in Seq(Int) : Tagged(p \o r, n, r) /\ (p \o r)[1] = t /\ Holds(p \o r, q)
  BY Holding, Zenon
<1> HIDE DEF p
<1>2. CarriesSigned(p, t, n, u)
  BY <1>1 DEF CarriesSigned
<1>. QED
  BY <1>2 DEF p

\* The word that writeUint16 wrote is read again.
LEMMA Words16 ==
  ASSUME NEW x \in Word16, NEW s, Holds(s, writeUint16(x))
  PROVE  Word(s, 2) = x /\ s[2] \in Int /\ (s[2] >= 128 <=> High(x))
<1> DEFINE q == writeUint16(x)
<1>1. /\ q \in Seq(Byte) /\ Len(q) = 2 /\ (q[1] >= 128 <=> High(x))
      /\ q[1] * 256 + q[2] = x
  BY Bytes16
<1>2. Holds(s, q)
  OBVIOUS
<1> HIDE DEF q
<1>. QED
  BY <1>1, <1>2 DEF Holds, Word

\* Two bytes read as an unsigned number.
LEMMA Unsigned16 ==
  ASSUME NEW t \in Byte, NEW x \in Word16, NEW u, u = <<0, 0, 0, x>>
  PROVE  Carries(<<t>> \o writeUint16(x), t, 2, u)
<1> DEFINE q == writeUint16(x)
<1>1. q \in Seq(Byte) /\ Len(q) = 2
  BY Bytes16
<1>2. ASSUME NEW s, Holds(s, q)
      PROVE  Word(s, 2) = x
  BY <1>2, Words16
<1> HIDE DEF q
<1>3. \A s : Holds(s, q) => Unsigned(s, 2) = u
  BY <1>2 DEF Unsigned
<1>. QED
  BY <1>1, <1>3, Carrying, Zenon DEF q

\* Two bytes with the high bit read as a negative number.
LEMMA Signed16 ==
  ASSUME NEW t \in Byte, NEW x \in Word16, High(x), NEW u, u = <<Ones, Ones, Ones, x>>
  PROVE  CarriesSigned(<<t>> \o writeUint16(x), t, 2, u)
<1> DEFINE q == writeUint16(x)
<1>1. q \in Seq(Byte) /\ Len(q) = 2
  BY Bytes16
<1>2. ASSUME NEW s, Holds(s, q)
      PROVE  Word(s, 2) = x /\ s[2] \in Int /\ s[2] >= 128
  BY <1>2, Words16
<1> HIDE DEF q
<1>3. \A s : Holds(s, q) => Signed(s, 2) = u
  BY <1>2 DEF Signed
<1>. QED
  BY <1>1, <1>3, CarryingSigned, Zenon DEF q

\* The two words that writeUint32 wrote are read again.
LEMMA Words32 ==
  ASSUME NEW x \in Word16, NEW y \in Word16, NEW s, Holds(s, writeUint32(x, y))
  PROVE  Word(s, 2) = x /\ Word(s, 4) = y /\ s[2] \in Int /\ (s[2] >= 128 <=> High(x))
<1> DEFINE q == writeUint32(x, y)
<1>1. /\ q \in Seq(Byte) /\ Len(q) = 4 /\ (q[1] >= 128 <=> High(x))
      /\ q[1] * 256 + q[2] = x /\ q[3] * 256 + q[4] = y
  BY Bytes32
<1>2. Holds(s, q)
  OBVIOUS
<1> HIDE DEF q
<1>. QED
  BY <1>1, <1>2 DEF Holds, Word

\* Four bytes read as an unsigned number.
LEMMA Unsigned32 ==
  ASSUME NEW t \in Byte, NEW x \in Word16, NEW y \in Word16, NEW u, u = <<0, 0, x, y>>
  PROVE  Carries(<<t>> \o writeUint32(x, y), t, 4, u)
<1> DEFINE q == writeUint32(x, y)
<1>1. q \in Seq(Byte) /\ Len(q) = 4
  BY Bytes32
<1>2. ASSUME NEW s, Holds(s, q)
      PROVE  Word(s, 2) = x /\ Word(s, 4) = y
  BY <1>2, Words32
<1> HIDE DEF q
<1>3. \A s : Holds(s, q) => Unsigned(s, 4) = u
  BY <1>2 DEF Unsigned
<1>. QED
  BY <1>1, <1>3, Carrying, Zenon DEF q

\* Four bytes with the high bit read as a negative number.
LEMMA Signed32 ==
  ASSUME NEW t \in Byte, NEW x \in Word16, NEW y \in Word16, High(x), NEW u, u = <<Ones, Ones, x, y>>
  PROVE  CarriesSigned(<<t>> \o writeUint32(x, y), t, 4, u)
<1> DEFINE q == writeUint32(x, y)
<1>1. q \in Seq(Byte) /\ Len(q) = 4
  BY Bytes32
<1>2. ASSUME NEW s, Holds(s, q)
      PROVE  Word(s, 2) = x /\ Word(s, 4) = y /\ s[2] \in Int /\ s[2] >= 128
  BY <1>2, Words32
<1> HIDE DEF q
<1>3. \A s : Holds(s, q) => Signed(s, 4) = u
  BY <1>2 DEF Signed
<1>. QED
  BY <1>1, <1>3, CarryingSigned, Zenon DEF q

\* Eight bytes are the number itself, unsigned and signed.
LEMMA Number64 ==
  ASSUME NEW t \in Byte, NEW w \in Word64
  PROVE  Carries(<<t>> \o writeUint64(w), t, 8, w) /\ CarriesSigned(<<t>> \o writeUint64(w), t, 8, w)
<1> DEFINE q == writeUint64(w)
<1>1. /\ q \in Seq(Byte) /\ Len(q) = 8
      /\ q[1] * 256 + q[2] = w[1] /\ q[3] * 256 + q[4] = w[2]
      /\ q[5] * 256 + q[6] = w[3] /\ q[7] * 256 + q[8] = w[4]
  BY Bytes64
<1> HIDE DEF q
<1>2. ASSUME NEW s, Holds(s, q)
      PROVE  Word(s, 2) = w[1] /\ Word(s, 4) = w[2] /\ Word(s, 6) = w[3] /\ Word(s, 8) = w[4]
  <2>1. /\ s[2] = q[1] /\ s[3] = q[2] /\ s[4] = q[3] /\ s[5] = q[4]
        /\ s[6] = q[5] /\ s[7] = q[6] /\ s[8] = q[7] /\ s[9] = q[8]
    BY <1>1, <1>2 DEF Holds
  <2>. QED
    BY <1>1, <2>1 DEF Word
<1>3. ASSUME NEW s, Holds(s, q)
      PROVE  Unsigned(s, 8) = w
  <2>1. Unsigned(s, 8) = <<w[1], w[2], w[3], w[4]>>
    BY <1>2, <1>3 DEF Unsigned
  <2>. QED
    BY <2>1, FourWords
<1>4. ASSUME NEW s, Holds(s, q)
      PROVE  Signed(s, 8) = w
  <2> HIDE DEF Unsigned
  <2>1. Signed(s, 8) = Unsigned(s, 8)
    BY DEF Signed
  <2>. QED
    BY <1>3, <1>4, <2>1
<1>5. q \in Seq(Byte) /\ 8 = Len(q)
  BY <1>1
<1>. QED
  BY <1>3, <1>4, <1>5, Carrying, CarryingSigned, Zenon DEF q

\* A first byte that says everything announces it.
LEMMA InOneByte ==
  ASSUME NEW t \in Byte, NEW kind, NEW content, Lead(t) = <<kind, 0, content>>
  PROVE  Announces(<<t>>, kind, content)
<1>1. <<t>> \in Seq(Byte) /\ <<t>> # <<>>
  OBVIOUS
<1>2. ASSUME NEW r \in Seq(Int)
      PROVE  Announced(<<t>> \o r) = <<kind, content, r>>
  <2> DEFINE s == <<t>> \o r
  <2>1. s \in Seq(Int) /\ s # <<>> /\ s[1] = t /\ Tail(s) = r
    BY OneByte, ByteIsInt
  <2> HIDE DEF s
  <2>2. Announced(s) = <<kind, content, Tail(s)>>
    BY <2>1, AnnouncedAtOnce, Zenon
  <2>. QED
    BY <2>1, <2>2, Zenon DEF s
<1>. QED
  BY <1>1, <1>2, Zenon DEF Announces

\* Whatever width packUint chooses, the reader gets the same natural number.
LEMMA UintAnnounces ==
  ASSUME NEW w \in Word64
  PROVE  Announces(packUint(w), "natural", w)
<1>0. /\ w = <<w[1], w[2], w[3], w[4]>>
      /\ w[1] \in Word16 /\ w[2] \in Word16 /\ w[3] \in Word16 /\ w[4] \in Word16
  BY FourWords
<1>1. CASE Below(w, 128)
  <2>1. w[1] = 0 /\ w[2] = 0 /\ w[3] = 0 /\ w[4] \in Byte /\ 0 <= w[4] /\ w[4] < 128 /\ w[4] \in Int
    BY <1>0, <1>1 DEF Below, Byte, Word16
  <2>2. Lead(w[4]) = <<"natural", 0, w>>
    BY <1>0, <2>1, LeadFix
  <2>3. packUint(w) = <<w[4]>>
    BY <1>1 DEF packUint
  <2>. QED
    BY <2>1, <2>2, <2>3, InOneByte
<1>2. CASE ~Below(w, 128) /\ Below(w, 256)
  <2>1. w[1] = 0 /\ w[2] = 0 /\ w[3] = 0 /\ w[4] \in Byte /\ 204 \in Byte
    BY <1>0, <1>2 DEF Below, Byte, Word16
  <2>2. Carries(<<204, w[4]>>, 204, 1, w)
    <3>1. w = <<0, 0, 0, w[4]>>
      BY <1>0, <2>1
    <3>. QED
      BY <1>0, <2>1, <3>1, Unsigned8
  <2>3. packUint(w) = <<204, w[4]>>
    BY <1>2 DEF packUint
  <2>. QED
    BY <2>2, <2>3, NumberAnnounces, LeadTag
<1>3. CASE ~Below(w, 128) /\ ~Below(w, 256) /\ Below(w, 65536)
  <2>1. w[1] = 0 /\ w[2] = 0 /\ w[3] = 0 /\ 205 \in Byte
    BY <1>3 DEF Below, Byte
  <2>2. Carries(<<205>> \o writeUint16(w[4]), 205, 2, w)
    <3>1. w = <<0, 0, 0, w[4]>>
      BY <1>0, <2>1
    <3>. QED
      BY <1>0, <2>1, <3>1, Unsigned16
  <2>3. packUint(w) = <<205>> \o writeUint16(w[4])
    BY <1>3 DEF packUint
  <2>. QED
    BY <2>2, <2>3, NumberAnnounces, LeadTag
<1>4. CASE ~Below(w, 128) /\ ~Below(w, 256) /\ ~Below(w, 65536) /\ w[1] = 0 /\ w[2] = 0
  <2>1. 206 \in Byte
    BY DEF Byte
  <2>2. Carries(<<206>> \o writeUint32(w[3], w[4]), 206, 4, w)
    <3>1. w = <<0, 0, w[3], w[4]>>
      BY <1>0, <1>4
    <3>. QED
      BY <1>0, <2>1, <3>1, Unsigned32
  <2>3. packUint(w) = <<206>> \o writeUint32(w[3], w[4])
    BY <1>4 DEF packUint
  <2>. QED
    BY <2>2, <2>3, NumberAnnounces, LeadTag
<1>5. CASE ~Below(w, 128) /\ ~Below(w, 256) /\ ~Below(w, 65536) /\ ~(w[1] = 0 /\ w[2] = 0)
  <2>1. 207 \in Byte
    BY DEF Byte
  <2>2. Carries(<<207>> \o writeUint64(w), 207, 8, w)
    BY <2>1, Number64, Zenon
  <2>3. packUint(w) = <<207>> \o writeUint64(w)
    BY <1>5 DEF packUint
  <2>. QED
    BY <2>2, <2>3, NumberAnnounces, LeadTag
<1>. QED
  BY <1>1, <1>2, <1>3, <1>4, <1>5

\* The low byte of a small negative number is enough to get it back.
LEMMA LowByte ==
  ASSUME NEW w \in Word64, NEW k \in Int, -128 <= k, AtLeast(w, k)
  PROVE  LET b == w[4] % 256
         IN  256 + k <= b /\ b < 256 /\ b \in Int /\ b \in Byte /\ w = Extended(b)
<1>0. w = <<w[1], w[2], w[3], w[4]>> /\ w[4] \in Word16
  BY FourWords
<1>1. w[1] = Ones /\ w[2] = Ones /\ w[3] = Ones /\ w[4] >= 65536 + k
  BY DEF AtLeast
<1> DEFINE x == w[4]
           b == x % 256
           a == x \div 256
<1>2. x \in Int /\ 0 <= x /\ x < 65536
  BY <1>0 DEF Word16
<1> HIDE DEF x
<1>3. a \in Int /\ b \in Int /\ a * 256 + b = x /\ 0 <= b /\ b < 256
  BY <1>2
<1> HIDE DEF a, b
<1>4. x >= 65536 + k
  BY <1>1 DEF x
<1>5. a = 255
  BY <1>2, <1>3, <1>4
<1>6. 65280 + b = x /\ 256 + k <= b
  BY <1>2, <1>3, <1>4, <1>5
<1>7. b \in Byte
  BY <1>3 DEF Byte
<1>8. w = Extended(b)
  BY <1>0, <1>1, <1>6 DEF x, Extended
<1>. QED
  BY <1>3, <1>6, <1>7, <1>8 DEF b, x

\* Whatever width packInt chooses, the reader gets the same number with its sign.
LEMMA IntAnnounces ==
  ASSUME NEW w \in Word64
  PROVE  Announces(packInt(w), Sign(w), w)
<1>0. /\ w = <<w[1], w[2], w[3], w[4]>>
      /\ w[1] \in Word16 /\ w[2] \in Word16 /\ w[3] \in Word16 /\ w[4] \in Word16
  BY FourWords
<1>1. CASE ~Negative(w)
  <2>1. packInt(w) = packUint(w) /\ Sign(w) = "natural"
    BY <1>1 DEF packInt, Sign
  <2>. QED
    BY <2>1, UintAnnounces
<1> DEFINE b == w[4] % 256
<1>2. ASSUME AtLeast(w, -32)
      PROVE  224 <= b /\ b < 256 /\ b \in Byte /\ b \in Int /\ w = Extended(b)
  <2>1. -32 \in Int /\ -128 <= -32 /\ 256 + (-32) = 224
    OBVIOUS
  <2>2. 256 + (-32) <= b /\ b < 256 /\ b \in Int /\ b \in Byte /\ w = Extended(b)
    BY <1>2, <2>1, LowByte
  <2>. QED
    BY <2>1, <2>2
<1>3. ASSUME AtLeast(w, -128)
      PROVE  128 <= b /\ b < 256 /\ b \in Byte /\ b \in Int /\ w = Extended(b)
  <2>1. -128 \in Int /\ -128 <= -128 /\ 256 + (-128) = 128
    OBVIOUS
  <2>2. 256 + (-128) <= b /\ b < 256 /\ b \in Int /\ b \in Byte /\ w = Extended(b)
    BY <1>3, <2>1, LowByte
  <2>. QED
    BY <2>1, <2>2
<1>4. CASE Negative(w) /\ AtLeast(w, -32)
  <2>1. packInt(w) = <<b>> /\ Sign(w) = "negative"
    BY <1>4 DEF packInt, Sign
  <2> HIDE DEF b
  <2>2. Lead(b) = <<"negative", 0, w>> /\ b \in Byte
    BY <1>2, <1>4, LeadFix
  <2>. QED
    BY <2>1, <2>2, InOneByte
<1>5. CASE Negative(w) /\ ~AtLeast(w, -32) /\ AtLeast(w, -128)
  <2>1. packInt(w) = <<208, b>> /\ 208 \in Byte
    BY <1>5 DEF packInt, Byte
  <2> HIDE DEF b
  <2>2. CarriesSigned(<<208, b>>, 208, 1, w)
    BY <1>3, <1>5, <2>1, Signed8
  <2>. QED
    BY <2>1, <2>2, SignedAnnounces, LeadTag
<1>6. CASE Negative(w) /\ ~AtLeast(w, -32) /\ ~AtLeast(w, -128) /\ AtLeast(w, -32768)
  <2>1. w[1] = Ones /\ w[2] = Ones /\ w[3] = Ones /\ w[4] >= 65536 + (-32768)
    BY <1>6 DEF AtLeast
  <2>2. High(w[4])
    BY <1>0, <2>1, ByteIsInt DEF High
  <2>3. w = <<Ones, Ones, Ones, w[4]>>
    BY <1>0, <2>1
  <2>4. packInt(w) = <<209>> \o writeUint16(w[4]) /\ 209 \in Byte
    BY <1>6 DEF packInt, Byte
  <2>5. CarriesSigned(<<209>> \o writeUint16(w[4]), 209, 2, w)
    BY <1>0, <2>2, <2>3, <2>4, Signed16
  <2>. QED
    BY <2>4, <2>5, SignedAnnounces, LeadTag
<1> DEFINE In32 == w[1] = Ones /\ w[2] = Ones /\ w[3] >= 32768
<1>7. CASE Negative(w) /\ ~AtLeast(w, -32) /\ ~AtLeast(w, -128) /\ ~AtLeast(w, -32768) /\ In32
  <2>1. High(w[3])
    BY <1>7 DEF High
  <2>2. w = <<Ones, Ones, w[3], w[4]>>
    BY <1>0, <1>7
  <2>3. packInt(w) = <<210>> \o writeUint32(w[3], w[4]) /\ 210 \in Byte
    BY <1>7 DEF packInt, Byte
  <2>4. CarriesSigned(<<210>> \o writeUint32(w[3], w[4]), 210, 4, w)
    BY <1>0, <2>1, <2>2, <2>3, Signed32
  <2>. QED
    BY <2>3, <2>4, SignedAnnounces, LeadTag
<1>8. CASE Negative(w) /\ ~AtLeast(w, -32) /\ ~AtLeast(w, -128) /\ ~AtLeast(w, -32768) /\ ~In32
  <2>1. packInt(w) = <<211>> \o writeUint64(w) /\ 211 \in Byte
    BY <1>8 DEF packInt, Byte
  <2>2. CarriesSigned(<<211>> \o writeUint64(w), 211, 8, w)
    BY <2>1, Number64, Zenon
  <2>. QED
    BY <2>1, <2>2, SignedAnnounces, LeadTag
<1> HIDE DEF In32, b
<1>. QED
  BY <1>1, <1>4, <1>5, <1>6, <1>7, <1>8

\* The bits of a float are read again.
LEMMA FloatAnnounces ==
  ASSUME NEW w \in Word64
  PROVE  Announces(packFloat64(w), "float", w)
<1>1. 203 \in Byte
  BY DEF Byte
<1>2. Carries(<<203>> \o writeUint64(w), 203, 8, w)
  BY <1>1, Number64, Zenon
<1>. QED
  BY <1>2, NumberAnnounces, LeadTag DEF packFloat64

\* A length is its two halves.
LEMMA Halves ==
  ASSUME NEW n \in Nat, n <= MaxLength
  PROVE  /\ n \div 65536 \in Word16 /\ n % 65536 \in Word16
         /\ \A u : u = <<0, 0, n \div 65536, n % 65536>> => Size(u) = n
<1> DEFINE a == n \div 65536
           b == n % 65536
<1>1. n <= 2147483647
  BY DEF MaxLength
<1>2. a \in Int /\ b \in Int /\ a * 65536 + b = n /\ 0 <= b /\ b < 65536
  OBVIOUS
<1> HIDE DEF a, b
<1>3. 0 <= a /\ a < 65536
  BY <1>1, <1>2
<1>4. a \in Word16 /\ b \in Word16
  BY <1>2, <1>3 DEF Word16
<1>5. \A u : u = <<0, 0, a, b>> => Size(u) = n
  BY <1>2 DEF Size
<1>. QED
  BY <1>4, <1>5 DEF a, b

\* A size of one word.
LEMMA SmallSize ==
  ASSUME NEW x \in Int, NEW u, u = <<0, 0, 0, x>>
  PROVE  Size(u) = x
BY DEF Size

\* The 16-bit and the 32-bit size of a text or container.
LEMMA LongSize ==
  ASSUME NEW n \in Nat, n <= MaxLength, NEW t \in Byte, NEW kind, kind \in {"text", "array", "map"}
  PROVE  /\ n <= Ones /\ Lead(t) = <<kind, 2>> => Announces(<<t>> \o writeUint16(n), kind, n)
         /\ Lead(t) = <<kind, 4>> =>
              Announces(<<t>> \o writeUint32(n \div 65536, n % 65536), kind, n)
<1>1. ASSUME n <= Ones, Lead(t) = <<kind, 2>>
      PROVE  Announces(<<t>> \o writeUint16(n), kind, n)
  <2> DEFINE u == <<0, 0, 0, n>>
             p == <<t>> \o writeUint16(n)
  <2>1. n \in Word16
    BY <1>1 DEF Word16, Ones
  <2>2. Size(u) = n
    BY SmallSize
  <2>3. Carries(p, t, 2, u)
    BY <2>1, Unsigned16
  <2> HIDE DEF u, p
  <2>4. Announces(p, kind, Size(u))
    BY <1>1, <2>3, SizeAnnounces
  <2>. QED
    BY <2>2, <2>4 DEF p
<1>2. ASSUME Lead(t) = <<kind, 4>>
      PROVE  Announces(<<t>> \o writeUint32(n \div 65536, n % 65536), kind, n)
  <2> DEFINE a == n \div 65536
             b == n % 65536
             u == <<0, 0, a, b>>
             p == <<t>> \o writeUint32(a, b)
  <2>1. a \in Word16 /\ b \in Word16 /\ Size(u) = n
    BY Halves
  <2> HIDE DEF a, b
  <2>2. Carries(p, t, 4, u)
    BY <2>1, Unsigned32
  <2> HIDE DEF u, p
  <2>3. Announces(p, kind, Size(u))
    BY <1>2, <2>2, SizeAnnounces
  <2>. QED
    BY <2>1, <2>3 DEF p, a, b
<1>. QED
  BY <1>1, <1>2

\* packArrayHeader and packMapHeader announce the number of elements, in each of their three forms.
LEMMA HeaderAnnounces ==
  ASSUME NEW n \in Nat, n <= MaxLength
  PROVE  Announces(packArrayHeader(n), "array", n) /\ Announces(packMapHeader(n), "map", n)
<1>0. 220 \in Byte /\ 221 \in Byte /\ 222 \in Byte /\ 223 \in Byte
  BY DEF Byte
<1>1. CASE n < 16
  <2>1. Header(n, 144, 220) = <<144 + n>> /\ Header(n, 128, 222) = <<128 + n>>
    BY <1>1 DEF Header
  <2>2. 144 + n \in Byte /\ 128 + n \in Byte
    BY <1>1 DEF Byte
  <2>3. Lead(144 + n) = <<"array", 0, n>>
    BY <1>1, LeadFix
  <2>4. Lead(128 + n) = <<"map", 0, n>>
    BY <1>1, LeadFix
  <2>5. Announces(<<144 + n>>, "array", n)
    BY <2>2, <2>3, InOneByte
  <2>6. Announces(<<128 + n>>, "map", n)
    BY <2>2, <2>4, InOneByte
  <2>. QED
    BY <2>1, <2>5, <2>6 DEF packArrayHeader, packMapHeader
<1>2. CASE n >= 16 /\ n <= 65535
  <2>1. Header(n, 144, 220) = <<220>> \o writeUint16(n) /\ Header(n, 128, 222) = <<222>> \o writeUint16(n)
    BY <1>2 DEF Header
  <2>2. n <= Ones
    BY <1>2 DEF Ones
  <2>3. Announces(<<220>> \o writeUint16(n), "array", n) /\ Announces(<<222>> \o writeUint16(n), "map", n)
    BY <1>0, <2>2, LongSize, LeadTag
  <2>. QED
    BY <2>1, <2>3, Zenon DEF packArrayHeader, packMapHeader
<1>3. CASE n >= 16 /\ n > 65535
  <2> DEFINE q == writeUint32(n \div 65536, n % 65536)
  <2>1. Header(n, 144, 220) = <<220 + 1>> \o q /\ Header(n, 128, 222) = <<222 + 1>> \o q
    BY <1>3 DEF Header
  <2>2. Announces(<<221>> \o q, "array", n) /\ Announces(<<223>> \o q, "map", n)
    BY <1>0, LongSize, LeadTag
  <2> HIDE DEF q
  <2>3. 220 + 1 = 221 /\ 222 + 1 = 223
    OBVIOUS
  <2>. QED
    BY <2>1, <2>2, <2>3, ZenonT(30) DEF packArrayHeader, packMapHeader
<1>. QED
  BY <1>1, <1>2, <1>3

\* What an encoding is made of.
Symbols == Byte \cup {-i : i \in Strings}

\* Whatever follows it, e is read as a value that means m.
ReadsAs(e, m, inner) ==
  /\ e \in Seq(Symbols) /\ e # <<>>
  /\ \A r \in Seq(Int) : Reading(e \o r, inner) = <<m, r>>

\* Strings are positive numbers, so that a body is never taken for a byte.
LEMMA StringsAreInts ==
  /\ \A i \in Strings : i \in Nat /\ i # 0 /\ Lengths[i] \in Nat /\ Lengths[i] <= MaxLength
  /\ Byte \subseteq Symbols /\ Symbols \subseteq Int
<1>1. ASSUME NEW i \in Strings
      PROVE  i \in Nat /\ i # 0 /\ Lengths[i] \in Nat /\ Lengths[i] <= MaxLength
  <2> HIDE DEF MaxLength
  <2>. QED
    BY MessagePackAssumption DEF MessagePackAssumption, Strings
<1> HIDE DEF Strings
<1>2. Byte \subseteq Symbols /\ Symbols \subseteq Int
  <2>1. \A i \in Strings : -i \in Int
    BY <1>1
  <2>2. Byte \subseteq Int
    BY ByteIsInt
  <2> HIDE DEF Byte
  <2>. QED
    BY <2>1, <2>2, Zenon DEF Symbols
<1>. QED
  BY <1>1, <1>2

\* The header of a string announces its length, in each of its four forms.
LEMMA StringHeaderAnnounces ==
  ASSUME NEW n \in Nat, n <= MaxLength
  PROVE  Announces(StringHeader(n), "text", n)
<1>0. 217 \in Byte /\ 218 \in Byte /\ 219 \in Byte
  BY DEF Byte
<1>1. CASE n < 32
  <2>1. StringHeader(n) = <<160 + n>>
    BY <1>1 DEF StringHeader
  <2>2. 160 + n \in Byte
    BY <1>1 DEF Byte
  <2>3. Lead(160 + n) = <<"text", 0, n>>
    BY <1>1, LeadFix
  <2>. QED
    BY <2>1, <2>2, <2>3, InOneByte
<1>2. CASE n >= 32 /\ n <= 255
  <2> DEFINE u == <<0, 0, 0, n>>
  <2>1. StringHeader(n) = <<217, n>>
    BY <1>2 DEF StringHeader
  <2>2. n \in Byte
    BY <1>2 DEF Byte
  <2>3. Size(u) = n
    BY SmallSize
  <2>4. Carries(<<217, n>>, 217, 1, u)
    BY <1>0, <2>2, Unsigned8
  <2> HIDE DEF u
  <2>5. Announces(<<217, n>>, "text", Size(u))
    BY <2>4, SizeAnnounces, LeadTag
  <2>. QED
    BY <2>1, <2>3, <2>5
<1>3. CASE n > 255 /\ n <= Ones
  <2> DEFINE q == writeUint16(n)
  <2>1. StringHeader(n) = <<218>> \o q
    BY <1>3 DEF StringHeader, Ones
  <2>2. Announces(<<218>> \o q, "text", n)
    BY <1>0, <1>3, LongSize, LeadTag
  <2> HIDE DEF q
  <2>. QED
    BY <2>1, <2>2
<1>4. CASE n > Ones
  <2> DEFINE q == writeUint32(n \div 65536, n % 65536)
  <2>1. StringHeader(n) = <<219>> \o q
    BY <1>4 DEF StringHeader, Ones
  <2>2. Announces(<<219>> \o q, "text", n)
    BY <1>0, LongSize, LeadTag
  <2> HIDE DEF q
  <2>. QED
    BY <2>1, <2>2
<1>. QED
  BY <1>1, <1>2, <1>3, <1>4 DEF Ones

\* The body of a string is read with its length; the empty string has none.
LEMMA BodyRead ==
  ASSUME NEW i \in Strings, NEW r \in Seq(Int)
  PROVE  Body(i) \in Seq(Symbols) /\ Text(Body(i) \o r, Lengths[i]) = <<<<"string", i>>, r>>
<1>0. i \in Int /\ -i \in Symbols /\ -i \in Int /\ Lengths[i] \in Nat
  BY StringsAreInts DEF Symbols
<1>1. CASE Lengths[i] = 0
  <2>1. Body(i) = <<>>
    BY <1>1 DEF Body
  <2>2. <<>> \o r = r
    OBVIOUS
  <2>3. Empty = i
    BY <1>1, MessagePackAssumption DEF MessagePackAssumption, Empty
  <2>4. Text(r, Lengths[i]) = <<<<"string", i>>, r>>
    BY <1>1, <2>3 DEF Text
  <2>. QED
    BY <2>1, <2>2, <2>4
<1>2. CASE Lengths[i] # 0
  <2> DEFINE b == <<-i>>
             s == b \o r
  <2>1. Body(i) = b /\ b \in Seq(Symbols)
    BY <1>0, <1>2 DEF Body
  <2>2. s \in Seq(Int) /\ s # <<>> /\ s[1] = -i /\ Tail(s) = r
    BY <1>0, OneByte
  <2> HIDE DEF b, s
  <2>3. -s[1] = i /\ Lengths[i] > 0
    BY <1>0, <1>2, <2>2
  <2>4. Text(s, Lengths[i]) = <<<<"string", i>>, r>>
    BY <1>2, <2>2, <2>3, Zenon DEF Text
  <2>. QED
    BY <2>1, <2>4 DEF s
<1>. QED
  BY <1>1, <1>2

\* packString writes what is read as the string.
LEMMA StringRead ==
  ASSUME NEW i \in Strings, NEW inner
  PROVE  ReadsAs(packString(i), <<"string", i>>, inner)
<1> DEFINE n == Lengths[i]
           h == StringHeader(n)
           b == Body(i)
<1>1. Announces(h, "text", n)
  BY StringsAreInts, StringHeaderAnnounces
<1>2. b \in Seq(Symbols) /\ \A r \in Seq(Int) : Text(b \o r, n) = <<<<"string", i>>, r>>
  <2>1. <<>> \in Seq(Int)
    OBVIOUS
  <2>. QED
    BY <2>1, BodyRead, Zenon
<1> HIDE DEF n, h, b
<1>3. h \in Seq(Byte) /\ h # <<>>
  BY <1>1 DEF Announces
<1>4. h \in Seq(Symbols) /\ h \in Seq(Int) /\ b \in Seq(Int)
  BY <1>2, <1>3, StringsAreInts, Wider, Zenon
<1>5. h \o b \in Seq(Symbols) /\ h \o b # <<>>
  BY <1>3, <1>4, <1>2, OneAfterOther
<1>6. ASSUME NEW r \in Seq(Int)
      PROVE  Reading((h \o b) \o r, inner) = <<<<"string", i>>, r>>
  <2> DEFINE s == (h \o b) \o r
  <2>1. b \o r \in Seq(Int) /\ s = h \o (b \o r)
    <3>1. b \o r \in Seq(Int)
      BY <1>4, OneAfterOther, Zenon
    <3>2. (h \o b) \o r = h \o (b \o r)
      BY <1>4, SMTT(30)
    <3>. QED
      BY <3>1, <3>2, Zenon
  <2>2. Announced(s) = <<"text", n, b \o r>>
    BY <1>1, <2>1, Zenon DEF Announces
  <2> HIDE DEF s
  <2>3. Reading(s, inner) = Text(b \o r, n)
    BY <2>2 DEF Reading
  <2>. QED
    BY <1>2, <2>3 DEF s
<1>7. ReadsAs(h \o b, <<"string", i>>, inner)
  BY <1>5, <1>6 DEF ReadsAs
<1>. QED
  BY <1>7 DEF packString, h, b, n

\* What announces a value without size or content is read as that value.
LEMMA PlainRead ==
  ASSUME NEW p, NEW kind, NEW content, Announces(p, kind, content), kind \notin {"text", "array", "map"},
         NEW inner, NEW m, m = <<kind, content>>
  PROVE  ReadsAs(p, m, inner)
<1>1. p \in Seq(Byte) /\ p # <<>>
  BY DEF Announces
<1>2. p \in Seq(Symbols)
  BY <1>1, StringsAreInts, Wider, Zenon
<1>3. ASSUME NEW r \in Seq(Int)
      PROVE  Reading(p \o r, inner) = <<m, r>>
  <2> DEFINE s == p \o r
  <2>1. Announced(s) = <<kind, content, r>>
    BY DEF Announces
  <2> HIDE DEF s
  <2>2. Reading(s, inner) = <<m, r>>
    BY <2>1 DEF Reading
  <2>. QED
    BY <2>2 DEF s
<1>. QED
  BY <1>1, <1>2, <1>3 DEF ReadsAs

Tagging == {"natural", "float", "signed", "text", "array", "map"}

\* The byte t is a value, or the size of a text or container.
AtOnce(t, kind, c) == Lead(t) = <<kind, 0, c>> /\ (kind \in {"array", "map"} => c \in Nat)

\* The byte t tells of n bytes.
Ahead(t, kind, n) == Lead(t) = <<kind, n>> /\ kind \in Tagging /\ n \in {1, 2, 4, 8}

\* Every tag of the format has one of the two shapes.
LEMMA TagShapes ==
  /\ AtOnce(192, "nil", 0) /\ AtOnce(194, "bool", 0) /\ AtOnce(195, "bool", 1)
  /\ Ahead(203, "float", 8)
  /\ Ahead(204, "natural", 1) /\ Ahead(205, "natural", 2) /\ Ahead(206, "natural", 4) /\ Ahead(207, "natural", 8)
  /\ Ahead(208, "signed", 1) /\ Ahead(209, "signed", 2) /\ Ahead(210, "signed", 4) /\ Ahead(211, "signed", 8)
  /\ Ahead(217, "text", 1) /\ Ahead(218, "text", 2) /\ Ahead(219, "text", 4)
  /\ Ahead(220, "array", 2) /\ Ahead(221, "array", 4) /\ Ahead(222, "map", 2) /\ Ahead(223, "map", 4)
<1>1. "nil" \notin {"array", "map"} /\ "bool" \notin {"array", "map"}
  BY SMT
<1>2. AtOnce(192, "nil", 0) /\ AtOnce(194, "bool", 0) /\ AtOnce(195, "bool", 1)
  BY <1>1, LeadTag, Zenon DEF AtOnce
<1>7. /\ "natural" \in Tagging /\ "float" \in Tagging /\ "signed" \in Tagging /\ "text" \in Tagging
      /\ "array" \in Tagging /\ "map" \in Tagging
  BY Zenon DEF Tagging
<1> DEFINE W == {1, 2, 4, 8}
<1> HIDE DEF W
<1>8. 1 \in W /\ 2 \in W /\ 4 \in W /\ 8 \in W
  BY DEF W
<1>9. ASSUME NEW t, NEW kind \in Tagging, NEW n \in W, Lead(t) = <<kind, n>>
      PROVE  Ahead(t, kind, n)
  BY <1>9, Zenon DEF Ahead, W
<1>10. Ahead(203, "float", 8)
  BY <1>7, <1>8, <1>9, LeadTag, Zenon
<1>11. Ahead(204, "natural", 1) /\ Ahead(205, "natural", 2) /\ Ahead(206, "natural", 4) /\ Ahead(207, "natural", 8)
  BY <1>7, <1>8, <1>9, LeadTag, ZenonT(30)
<1>12. Ahead(208, "signed", 1) /\ Ahead(209, "signed", 2) /\ Ahead(210, "signed", 4) /\ Ahead(211, "signed", 8)
  BY <1>7, <1>8, <1>9, LeadTag, Zenon
<1>13. Ahead(217, "text", 1) /\ Ahead(218, "text", 2) /\ Ahead(219, "text", 4)
  BY <1>7, <1>8, <1>9, LeadTag, Zenon
<1>14. Ahead(220, "array", 2) /\ Ahead(221, "array", 4) /\ Ahead(222, "map", 2) /\ Ahead(223, "map", 4)
  BY <1>7, <1>8, <1>9, LeadTag, Zenon
<1>. QED
  BY <1>2, <1>10, <1>11, <1>12, <1>13, <1>14, Zenon

\* There are no other tags.
LEMMA MarkerTags ==
  ASSUME NEW t \in Int, Marker(t) # <<>>
  PROVE  \/ t = 192 \/ t = 194 \/ t = 195 \/ t = 203
         \/ t = 204 \/ t = 205 \/ t = 206 \/ t = 207
         \/ t = 208 \/ t = 209 \/ t = 210 \/ t = 211
         \/ t = 217 \/ t = 218 \/ t = 219 \/ t = 220 \/ t = 221 \/ t = 222 \/ t = 223
<1>1. \/ t = 192 \/ t \in {194, 195} \/ t = 203 \/ t \in 204 .. 207 \/ t \in 208 .. 211
      \/ t \in 217 .. 219 \/ t \in {220, 221} \/ t \in {222, 223}
  BY Zenon DEF Marker
<1>2. /\ (t \in 204 .. 207 => t = 204 \/ t = 205 \/ t = 206 \/ t = 207)
      /\ (t \in 208 .. 211 => t = 208 \/ t = 209 \/ t = 210 \/ t = 211)
      /\ (t \in 217 .. 219 => t = 217 \/ t = 218 \/ t = 219)
  BY SMT
<1>. QED
  BY <1>1, <1>2, Zenon

\* A first byte says everything or tells of 1, 2, 4 or 8 bytes.
LEMMA LeadShapes ==
  ASSUME NEW t \in Int, Lead(t) # <<>>
  PROVE  (\E kind, c : AtOnce(t, kind, c)) \/ \E kind, n : Ahead(t, kind, n)
<1>1. CASE 0 <= t /\ t < 128
  <2>1. AtOnce(t, "natural", <<0, 0, 0, t>>)
    BY <1>1, LeadFix DEF AtOnce
  <2>. QED
    BY <2>1, Zenon
<1>2. CASE 128 <= t /\ t < 144
  <2>1. AtOnce(t, "map", t - 128)
    BY <1>2, LeadFix DEF AtOnce
  <2>. QED
    BY <2>1, Zenon
<1>3. CASE 144 <= t /\ t < 160
  <2>1. AtOnce(t, "array", t - 144)
    BY <1>3, LeadFix DEF AtOnce
  <2>. QED
    BY <2>1, Zenon
<1>4. CASE 160 <= t /\ t < 192
  <2>1. AtOnce(t, "text", t - 160)
    BY <1>4, LeadFix DEF AtOnce
  <2>. QED
    BY <2>1, Zenon
<1>5. CASE 224 <= t /\ t < 256
  <2>1. AtOnce(t, "negative", Extended(t))
    BY <1>5, LeadFix DEF AtOnce
  <2>. QED
    BY <2>1, Zenon
<1>6. CASE ~(0 <= t /\ t < 192) /\ ~(224 <= t /\ t < 256)
  <2>1. Lead(t) = Marker(t)
    BY <1>6, SMT DEF Lead
  <2>2. CASE t = 192 \/ t = 194 \/ t = 195
    BY <2>2, TagShapes, SMTT(30)
  <2>3. CASE t = 203 \/ t = 204 \/ t = 205 \/ t = 206 \/ t = 207
    BY <2>3, TagShapes, SMTT(30)
  <2>4. CASE t = 208 \/ t = 209 \/ t = 210 \/ t = 211
    BY <2>4, TagShapes, SMTT(30)
  <2>5. CASE t = 217 \/ t = 218 \/ t = 219
    BY <2>5, TagShapes, SMTT(30)
  <2>6. CASE t = 220 \/ t = 221 \/ t = 222 \/ t = 223
    BY <2>6, TagShapes, SMTT(30)
  <2>. QED
    BY <2>1, <2>2, <2>3, <2>4, <2>5, <2>6, MarkerTags, Zenon
<1>. QED
  BY <1>1, <1>2, <1>3, <1>4, <1>5, <1>6, SMT

\* The first n + 1 bytes of u are those of s.
SameStart(s, u, n) == \A k \in 1 .. n + 1 : s[k] = u[k]

\* The unsigned number in the bytes after the tag, by their number.
LEMMA NumberOf ==
  ASSUME NEW s
  PROVE  /\ Unsigned(s, 1) = <<0, 0, 0, s[2]>>
         /\ Unsigned(s, 2) = <<0, 0, 0, Word(s, 2)>>
         /\ Unsigned(s, 4) = <<0, 0, Word(s, 2), Word(s, 4)>>
         /\ Unsigned(s, 8) = <<Word(s, 2), Word(s, 4), Word(s, 6), Word(s, 8)>>
BY SMT DEF Unsigned

\* A number only depends on the bytes that it has.
LEMMA SameNumber ==
  ASSUME NEW s, NEW u, NEW n \in {1, 2, 4, 8}, SameStart(s, u, n)
  PROVE  Unsigned(u, n) = Unsigned(s, n) /\ Signed(u, n) = Signed(s, n)
<1>0. n + 1 \in Nat /\ n + 1 >= 2
  OBVIOUS
<1>5. ASSUME NEW k \in Nat, 1 <= k, k <= n + 1
      PROVE  s[k] = u[k]
  BY <1>0, <1>5 DEF SameStart
<1>6. s[2] = u[2]
  BY <1>0, <1>5
<1>7. Word(s, 2) = Word(u, 2) \/ n = 1
  BY <1>5, SMT DEF Word
<1>8. Word(s, 4) = Word(u, 4) \/ n = 1 \/ n = 2
  BY <1>5, SMT DEF Word
<1>9. (Word(s, 6) = Word(u, 6) /\ Word(s, 8) = Word(u, 8)) \/ n # 8
  BY <1>5, SMT DEF Word
<1>10. Unsigned(u, n) = Unsigned(s, n)
  <2>1. CASE n = 1
    BY <1>6, <2>1, NumberOf, Zenon
  <2>2. CASE n = 2
    <3>1. Word(s, 2) = Word(u, 2)
      BY <1>7, <2>2
    <3>. QED
      BY <2>2, <3>1, NumberOf, Zenon
  <2>3. CASE n = 4
    <3>1. Word(s, 2) = Word(u, 2) /\ Word(s, 4) = Word(u, 4)
      BY <1>7, <1>8, <2>3
    <3>. QED
      BY <2>3, <3>1, NumberOf, Zenon
  <2>4. CASE n = 8
    <3>1. Word(s, 2) = Word(u, 2) /\ Word(s, 4) = Word(u, 4) /\ Word(s, 6) = Word(u, 6) /\ Word(s, 8) = Word(u, 8)
      BY <1>7, <1>8, <1>9, <2>4
    <3>. QED
      BY <2>4, <3>1, NumberOf, Zenon
  <2>. QED
    BY <2>1, <2>2, <2>3, <2>4
<1>11. Signed(u, n) = Signed(s, n)
  BY <1>6, <1>7, <1>8, <1>10, SMT DEF Signed
<1>. QED
  BY <1>10, <1>11

\* A size is a natural number.
LEMMA SizeIsNat ==
  ASSUME NEW s \in Seq(Int), NEW n \in {1, 2, 4, 8}, Bytes(s, n)
  PROVE  Size(Unsigned(s, n)) \in Nat
<1>0. ASSUME NEW k \in Nat, 2 <= k, k <= n + 1
      PROVE  s[k] \in Nat
  BY <1>0 DEF Bytes
<1>1. ASSUME NEW k \in Nat, s[k] \in Nat, s[k + 1] \in Nat
      PROVE  Word(s, k) \in Nat
  <2> DEFINE a == s[k]
             b == s[k + 1]
  <2>1. a \in Nat /\ b \in Nat /\ Word(s, k) = a * 256 + b
    BY <1>1, Zenon DEF Word
  <2> HIDE DEF a, b
  <2>. QED
    BY <2>1
<1>2. ASSUME NEW a \in Nat, NEW b \in Nat, NEW u, u[3] = a, u[4] = b
      PROVE  Size(u) \in Nat
  BY <1>2 DEF Size
<1>3. CASE n = 1
  <2>1. s[2] \in Nat
    BY <1>0, <1>3
  <2>. QED
    BY <1>2, <1>3, <2>1, NumberOf, Zenon
<1>4. CASE n = 2
  <2>1. Word(s, 2) \in Nat
    BY <1>0, <1>1, <1>4
  <2>. QED
    BY <1>2, <1>4, <2>1, NumberOf, Zenon
<1>5. CASE n = 4
  <2>1. Word(s, 2) \in Nat /\ Word(s, 4) \in Nat
    BY <1>0, <1>1, <1>5
  <2>. QED
    BY <1>2, <1>5, <2>1, NumberOf, Zenon
<1>6. CASE n = 8
  <2>1. Word(s, 6) \in Nat /\ Word(s, 8) \in Nat
    BY <1>0, <1>1, <1>6
  <2>. QED
    BY <1>2, <1>6, <2>1, NumberOf, Zenon
<1>. QED
  BY <1>3, <1>4, <1>5, <1>6

PacksIn(w, n) == Len(packInt(w)) <= n

\* The encodings have their five sizes, of which p1 to p4 tell.
Sized(x, p1, p2, p3, p4) ==
  /\ (p1 => Len(x) <= 1) /\ (p2 => Len(x) <= 2) /\ (p3 => Len(x) <= 3)
  /\ (p4 => Len(x) <= 5) /\ Len(x) <= 9

\* The first of five cases that applies decides the size.
LEMMA FirstChoice ==
  ASSUME NEW x, NEW p1 \in BOOLEAN, NEW p2 \in BOOLEAN, NEW p3 \in BOOLEAN, NEW p4 \in BOOLEAN,
         NEW x1, NEW x2, NEW x3, NEW x4, NEW x5,
         Len(x1) = 1, Len(x2) = 2, Len(x3) = 3, Len(x4) = 5, Len(x5) = 9,
         x = IF p1 THEN x1 ELSE IF p2 THEN x2 ELSE IF p3 THEN x3 ELSE IF p4 THEN x4 ELSE x5
  PROVE  Sized(x, p1, p2, p3, p4)
<1>0. 1 <= 1 /\ 1 <= 2 /\ 1 <= 3 /\ 1 <= 5 /\ 1 <= 9 /\ 2 <= 2 /\ 2 <= 3 /\ 2 <= 5 /\ 2 <= 9
      /\ 3 <= 3 /\ 3 <= 5 /\ 3 <= 9 /\ 5 <= 5 /\ 5 <= 9 /\ 9 <= 9
  OBVIOUS
<1>1. CASE p1
  <2>1. x = x1
    BY <1>1, Zenon
  <2>. QED
    BY <1>0, <2>1, Zenon DEF Sized
<1>2. CASE ~p1 /\ p2
  <2>1. x = x2
    BY <1>2, Zenon
  <2>. QED
    BY <1>0, <1>2, <2>1, Zenon DEF Sized
<1>3. CASE ~p1 /\ ~p2 /\ p3
  <2>1. x = x3
    BY <1>3, Zenon
  <2>. QED
    BY <1>0, <1>3, <2>1, Zenon DEF Sized
<1>4. CASE ~p1 /\ ~p2 /\ ~p3 /\ p4
  <2>1. x = x4
    BY <1>4, Zenon
  <2>. QED
    BY <1>0, <1>4, <2>1, Zenon DEF Sized
<1>5. CASE ~p1 /\ ~p2 /\ ~p3 /\ ~p4
  <2>1. x = x5
    BY <1>5, Zenon
  <2>. QED
    BY <1>0, <1>5, <2>1, Zenon DEF Sized
<1>. QED
  BY <1>1, <1>2, <1>3, <1>4, <1>5, Zenon

\* How long a tag and a number are.
LEMMA TaggedSizes ==
  ASSUME NEW w \in Word64, NEW t \in Byte
  PROVE  /\ Len(<<t>> \o writeUint16(w[4])) = 3
         /\ Len(<<t>> \o writeUint32(w[3], w[4])) = 5
         /\ Len(<<t>> \o writeUint64(w)) = 9
<1> DEFINE a == writeUint16(w[4])
           b == writeUint32(w[3], w[4])
           c == writeUint64(w)
<1>1. w[3] \in Word16 /\ w[4] \in Word16
  BY FourWords
<1>2. a \in Seq(Byte) /\ Len(a) = 2
  BY <1>1, Bytes16
<1>3. b \in Seq(Byte) /\ Len(b) = 4
  BY <1>1, Bytes32
<1>4. c \in Seq(Byte) /\ Len(c) = 8
  BY Bytes64
<1>5. ASSUME NEW q \in Seq(Byte)
      PROVE  Len(<<t>> \o q) = Len(q) + 1
  BY Holding
<1>6. 2 + 1 = 3 /\ 4 + 1 = 5 /\ 8 + 1 = 9
  OBVIOUS
<1> HIDE DEF a, b, c
<1>7. Len(<<t>> \o a) = 3
  BY <1>2, <1>5, <1>6, Zenon
<1>8. Len(<<t>> \o b) = 5
  BY <1>3, <1>5, <1>6, Zenon
<1>9. Len(<<t>> \o c) = 9
  BY <1>4, <1>5, <1>6, Zenon
<1>. QED
  BY <1>7, <1>8, <1>9 DEF a, b, c

\* The bounds at which an integer needs more bytes.
FitsOne(w) == Below(w, 128) \/ AtLeast(w, -32)

FitsTwo(w) == Below(w, 256) \/ AtLeast(w, -128)

FitsThree(w) == Below(w, 65536) \/ AtLeast(w, -32768)

FitsFive(w) == (w[1] = 0 /\ w[2] = 0) \/ (w[1] = Ones /\ w[2] = Ones /\ w[3] >= 32768)

\* The length packInt chooses for a number that is not negative.
LEMMA NaturalSizes ==
  ASSUME NEW w \in Word64, ~Negative(w)
  PROVE  Sized(packInt(w), Below(w, 128), Below(w, 256), Below(w, 65536), w[1] = 0 /\ w[2] = 0)
<1> DEFINE p1 == Below(w, 128)
           p2 == Below(w, 256)
           p3 == Below(w, 65536)
           p4 == w[1] = 0 /\ w[2] = 0
           x == packInt(w)
           x1 == <<w[4]>>
           x2 == <<204, w[4]>>
           x3 == <<205>> \o writeUint16(w[4])
           x4 == <<206>> \o writeUint32(w[3], w[4])
           x5 == <<207>> \o writeUint64(w)
<1>1. p1 \in BOOLEAN /\ p2 \in BOOLEAN /\ p3 \in BOOLEAN /\ p4 \in BOOLEAN
  BY DEF Below
<1>2. 205 \in Byte /\ 206 \in Byte /\ 207 \in Byte
  BY DEF Byte
<1>3. Len(x1) = 1 /\ Len(x2) = 2
  OBVIOUS
<1>4. Len(x3) = 3 /\ Len(x4) = 5 /\ Len(x5) = 9
  BY <1>2, TaggedSizes
<1>5. x = packUint(w)
  BY SMT DEF packInt
<1>6. packUint(w) = IF p1 THEN x1 ELSE IF p2 THEN x2 ELSE IF p3 THEN x3 ELSE IF p4 THEN x4 ELSE x5
  BY DEF packUint
<1> HIDE DEF p1, p2, p3, p4, x, x1, x2, x3, x4, x5
<1>7. Sized(x, p1, p2, p3, p4)
  BY <1>1, <1>3, <1>4, <1>5, <1>6, FirstChoice
<1>. QED
  BY <1>7 DEF p1, p2, p3, p4, x

\* The length packInt chooses for a negative number.
LEMMA NegativeSizes ==
  ASSUME NEW w \in Word64, Negative(w)
  PROVE  Sized(packInt(w), AtLeast(w, -32), AtLeast(w, -128), AtLeast(w, -32768),
               w[1] = Ones /\ w[2] = Ones /\ w[3] >= 32768)
<1> DEFINE p1 == AtLeast(w, -32)
           p2 == AtLeast(w, -128)
           p3 == AtLeast(w, -32768)
           p4 == w[1] = Ones /\ w[2] = Ones /\ w[3] >= 32768
           x == packInt(w)
           x1 == <<w[4] % 256>>
           x2 == <<208, w[4] % 256>>
           x3 == <<209>> \o writeUint16(w[4])
           x4 == <<210>> \o writeUint32(w[3], w[4])
           x5 == <<211>> \o writeUint64(w)
           neg == Negative(w)
<1>1. p1 \in BOOLEAN /\ p2 \in BOOLEAN /\ p3 \in BOOLEAN /\ p4 \in BOOLEAN
  BY DEF AtLeast
<1>2. 209 \in Byte /\ 210 \in Byte /\ 211 \in Byte
  BY DEF Byte
<1>3. Len(x1) = 1 /\ Len(x2) = 2
  OBVIOUS
<1>4. Len(x3) = 3 /\ Len(x4) = 5 /\ Len(x5) = 9
  BY <1>2, TaggedSizes
<1>5. neg
  OBVIOUS
<1> DEFINE y == packUint(w)
<1>6. x = IF ~neg THEN y
          ELSE IF p1 THEN x1 ELSE IF p2 THEN x2 ELSE IF p3 THEN x3 ELSE IF p4 THEN x4 ELSE x5
  BY DEF packInt
<1> HIDE DEF p1, p2, p3, p4, x, x1, x2, x3, x4, x5, neg, y
<1>7. x = IF p1 THEN x1 ELSE IF p2 THEN x2 ELSE IF p3 THEN x3 ELSE IF p4 THEN x4 ELSE x5
  BY <1>5, <1>6, Zenon
<1>8. Sized(x, p1, p2, p3, p4)
  BY <1>1, <1>3, <1>4, <1>7, FirstChoice
<1>. QED
  BY <1>8 DEF p1, p2, p3, p4, x

\* The length packInt chooses, for every number.
LEMMA PackedSizes ==
  ASSUME NEW w \in Word64
  PROVE  /\ (FitsOne(w) => PacksIn(w, 1)) /\ (FitsTwo(w) => PacksIn(w, 2))
         /\ (FitsThree(w) => PacksIn(w, 3)) /\ (FitsFive(w) => PacksIn(w, 5)) /\ PacksIn(w, 9)
<1>1. CASE Negative(w)
  <2>1. /\ ~Below(w, 128) /\ ~Below(w, 256) /\ ~Below(w, 65536) /\ ~(w[1] = 0 /\ w[2] = 0)
    BY <1>1 DEF Below, Negative
  <2>2. /\ (FitsOne(w) => AtLeast(w, -32)) /\ (FitsTwo(w) => AtLeast(w, -128))
        /\ (FitsThree(w) => AtLeast(w, -32768))
        /\ (FitsFive(w) => w[1] = Ones /\ w[2] = Ones /\ w[3] >= 32768)
    BY <2>1 DEF FitsOne, FitsTwo, FitsThree, FitsFive
  <2>. QED
    BY <1>1, <2>2, NegativeSizes DEF Sized, PacksIn
<1>2. CASE ~Negative(w)
  <2>1. /\ ~AtLeast(w, -32) /\ ~AtLeast(w, -128) /\ ~AtLeast(w, -32768)
        /\ ~(w[1] = Ones /\ w[2] = Ones /\ w[3] >= 32768)
    BY <1>2 DEF AtLeast, Negative, Ones
  <2>2. /\ (FitsOne(w) => Below(w, 128)) /\ (FitsTwo(w) => Below(w, 256))
        /\ (FitsThree(w) => Below(w, 65536)) /\ (FitsFive(w) => w[1] = 0 /\ w[2] = 0)
    BY <2>1 DEF FitsOne, FitsTwo, FitsThree, FitsFive
  <2>. QED
    BY <1>2, <2>2, NaturalSizes DEF Sized, PacksIn
<1>. QED
  BY <1>1, <1>2

\* What fits into m bytes fits into more.
LEMMA SizeGrows ==
  ASSUME NEW w \in Word64, NEW m \in Nat, NEW n \in Nat, m <= n, PacksIn(w, m)
  PROVE  PacksIn(w, n)
<1> DEFINE k == Len(packInt(w))
<1>1. k \in Nat
  BY IntAnnounces DEF Announces
<1>2. k <= m
  BY DEF PacksIn
<1> HIDE DEF k
<1>3. k <= n
  BY <1>1, <1>2
<1>. QED
  BY <1>3 DEF PacksIn, k

\* A number that the first byte can carry is packed as one byte.
LEMMA FixedNumber ==
  ASSUME NEW t \in Byte, NEW w \in Word64, Lead(t) = <<Sign(w), 0, w>>
  PROVE  PacksIn(w, 1)
<1>0. t \in Nat /\ t < 256 /\ t \in Int
  BY DEF Byte
<1> DEFINE lead == Lead(t)
<1>1. lead # <<>> /\ lead[1] = Sign(w) /\ lead[2] = 0 /\ lead[3] = w
  OBVIOUS
<1>2. Sign(w) \in {"natural", "negative"}
  BY DEF Sign
<1>3. CASE 0 <= t /\ t < 128
  <2>1. lead = <<"natural", 0, <<0, 0, 0, t>>>>
    BY <1>0, <1>3, LeadFix
  <2>2. w = <<0, 0, 0, t>>
    BY <1>1, <2>1
  <2>. QED
    BY <1>0, <1>3, <2>2, PackedSizes DEF Below, FitsOne
<1>4. CASE 224 <= t /\ t < 256
  <2>1. lead = <<"negative", 0, Extended(t)>>
    BY <1>0, <1>4, LeadFix
  <2>2. w = Extended(t)
    BY <1>1, <2>1
  <2>3. AtLeast(w, -32)
    BY <1>0, <1>4, <2>2 DEF AtLeast, Extended
  <2>. QED
    BY <2>3, PackedSizes DEF FitsOne
<1>5. CASE 128 <= t /\ t < 192
  <2>1. lead[1] \in {"map", "array", "text"}
    BY <1>0, <1>5, LeadFix, SMT
  <2>. QED
    BY <1>1, <1>2, <2>1
<1>6. CASE 192 <= t /\ t < 224
  <2>1. Marker(t) # <<>>
    <3>1. lead = Marker(t)
      BY <1>0, <1>6, SMT DEF Lead
    <3>. QED
      BY <1>1, <3>1, Zenon
  <2>2. ASSUME NEW k, NEW n, Ahead(t, k, n)
        PROVE  FALSE
    BY <1>1, <2>2 DEF Ahead
  <2>3. ASSUME NEW k, NEW c, AtOnce(t, k, c), k \in {"nil", "bool"}
        PROVE  FALSE
    BY <1>1, <1>2, <2>3 DEF AtOnce
  <2> HIDE DEF lead
  <2>4. "nil" \in {"nil", "bool"} /\ "bool" \in {"nil", "bool"}
    OBVIOUS
  <2>5. t # 192 /\ t # 194 /\ t # 195
    BY <2>3, <2>4, TagShapes, SMT
  <2>6. t # 203 /\ t # 204 /\ t # 205 /\ t # 206 /\ t # 207
    BY <2>2, TagShapes, SMT
  <2>7. t # 208 /\ t # 209 /\ t # 210 /\ t # 211
    BY <2>2, TagShapes, SMT
  <2>8. t # 217 /\ t # 218 /\ t # 219 /\ t # 220 /\ t # 221 /\ t # 222 /\ t # 223
    BY <2>2, TagShapes, SMT
  <2>. QED
    BY <1>0, <2>1, <2>5, <2>6, <2>7, <2>8, MarkerTags, Zenon
<1>. QED
  BY <1>0, <1>3, <1>4, <1>5, <1>6, SMT

\* A number that n bytes after a tag can carry is packed with at most n.
LEMMA WideNumber ==
  ASSUME NEW s \in Seq(Byte), NEW n \in {1, 2, 4, 8}, Bytes(s, n),
         NEW w \in Word64, w = Unsigned(s, n) \/ w = Signed(s, n)
  PROVE  PacksIn(w, n + 1)
<1>1. w[1] \in Word16 /\ w[2] \in Word16 /\ w[3] \in Word16 /\ w[4] \in Word16
  BY FourWords
<1>2. s[2] \in Byte
  BY DEF Bytes
<1>3. s[2] \in Nat /\ s[2] < 256
  BY <1>2 DEF Byte
<1>4. n \in {2, 4} => s[3] \in Nat
  BY DEF Bytes, Byte
<1>5. s[2] >= 128 /\ n \in {2, 4} => Word(s, 2) >= 32768
  BY <1>3, <1>4 DEF Word
<1>6. Signed(s, n) # Unsigned(s, n) => s[2] >= 128 /\ n # 8
  BY <1>3, SMT DEF Signed
<1>7. CASE n = 1
  <2>1. CASE w = Unsigned(s, 1)
    <3>1. w = <<0, 0, 0, s[2]>>
      BY <2>1, NumberOf, Zenon
    <3>2. Below(w, 256)
      BY <1>3, <3>1 DEF Below
    <3>. QED
      BY <1>7, <3>2, PackedSizes DEF FitsTwo
  <2>2. CASE w # Unsigned(s, 1)
    <3>1. w = Extended(s[2]) /\ s[2] >= 128
      BY <1>3, <1>6, <1>7, <2>2, SMT DEF Signed
    <3>2. AtLeast(w, -128)
      BY <1>3, <3>1 DEF AtLeast, Extended
    <3>. QED
      BY <1>7, <3>2, PackedSizes DEF FitsTwo
  <2>. QED
    BY <2>1, <2>2
<1>8. CASE n = 2
  <2>1. CASE w = Unsigned(s, 2)
    <3>0. w = <<0, 0, 0, Word(s, 2)>>
      BY <2>1, NumberOf, Zenon
    <3>1. w[1] = 0 /\ w[2] = 0 /\ w[3] = 0
      BY <3>0
    <3>2. Below(w, 65536)
      BY <1>1, <3>1 DEF Below, Word16
    <3>. QED
      BY <1>8, <3>2, PackedSizes DEF FitsThree
  <2>2. CASE w # Unsigned(s, 2)
    <3>1. w = <<Ones, Ones, Ones, Word(s, 2)>> /\ s[2] >= 128
      BY <1>3, <1>6, <1>8, <2>2, SMT DEF Signed
    <3>2. w[1] = Ones /\ w[2] = Ones /\ w[3] = Ones /\ w[4] = Word(s, 2) /\ Word(s, 2) >= 32768
      BY <1>5, <1>8, <3>1
    <3>3. AtLeast(w, -32768)
      BY <3>2 DEF AtLeast
    <3>. QED
      BY <1>8, <3>3, PackedSizes DEF FitsThree
  <2>. QED
    BY <2>1, <2>2
<1>9. CASE n = 4
  <2>1. CASE w = Unsigned(s, 4)
    <3>0. w = <<0, 0, Word(s, 2), Word(s, 4)>>
      BY <2>1, NumberOf, Zenon
    <3>1. w[1] = 0 /\ w[2] = 0
      BY <3>0
    <3>. QED
      BY <1>9, <3>1, PackedSizes DEF FitsFive
  <2>2. CASE w # Unsigned(s, 4)
    <3>1. w = <<Ones, Ones, Word(s, 2), Word(s, 4)>> /\ s[2] >= 128
      BY <1>3, <1>6, <1>9, <2>2, SMT DEF Signed
    <3>2. w[1] = Ones /\ w[2] = Ones /\ w[3] = Word(s, 2) /\ Word(s, 2) >= 32768
      BY <1>5, <1>9, <3>1
    <3>. QED
      BY <1>9, <3>2, PackedSizes DEF FitsFive
  <2>. QED
    BY <2>1, <2>2
<1>10. CASE n = 8
  BY <1>10, PackedSizes
<1>. QED
  BY <1>7, <1>8, <1>9, <1>10

\* Joining sequences is associative.
LEMMA Shifted ==
  ASSUME NEW a \in Seq(Int), NEW b \in Seq(Int), NEW c \in Seq(Int)
  PROVE  (a \o b) \o c = a \o (b \o c) /\ b \o c \in Seq(Int) /\ a \o b \in Seq(Int)
<1>1. (a \o b) \o c = a \o (b \o c)
  OBVIOUS
<1>. QED
  BY <1>1, OneAfterOther, Zenon

\* The same, for all of them.
LEMMA Regrouped ==
  \A a, b, c \in Seq(Int) : (a \o b) \o c = a \o (b \o c) /\ b \o c \in Seq(Int)
BY Shifted, Zenon

\* A sequence is its first k elements and the rest.
LEMMA SplitAt ==
  ASSUME NEW s \in Seq(Int), NEW k \in Nat, k <= Len(s)
  PROVE  /\ SubSeq(s, 1, k) \in Seq(Int) /\ SubSeq(s, k + 1, Len(s)) \in Seq(Int)
         /\ Len(SubSeq(s, 1, k)) = k
         /\ SubSeq(s, 1, k) \o SubSeq(s, k + 1, Len(s)) = s
<1> DEFINE a == SubSeq(s, 1, k)
           b == SubSeq(s, k + 1, Len(s))
<1>1. Len(s) \in Nat /\ 1 \in 1 .. Len(s) + 1 /\ k \in 1 - 1 .. Len(s) /\ k + 1 \in 1 .. Len(s) + 1
      /\ Len(s) \in (k + 1) - 1 .. Len(s)
  OBVIOUS
<1>2. /\ a \in Seq(Int) /\ Len(a) = k - 1 + 1
      /\ \A i \in 1 .. k - 1 + 1 : a[i] = s[1 + i - 1]
  BY <1>1, Piece
<1>3. /\ b \in Seq(Int) /\ Len(b) = Len(s) - (k + 1) + 1
      /\ \A i \in 1 .. Len(s) - (k + 1) + 1 : b[i] = s[k + 1 + i - 1]
  BY <1>1, Piece
<1> HIDE DEF a, b
<1>4. /\ a \o b \in Seq(Int) /\ Len(a \o b) = Len(a) + Len(b)
      /\ \A i \in 1 .. Len(a) + Len(b) : (a \o b)[i] = IF i <= Len(a) THEN a[i] ELSE b[i - Len(a)]
  BY <1>2, <1>3, OneAfterOther, Zenon
<1>5. Len(a) = k /\ Len(b) = Len(s) - k
  BY <1>1, <1>2, <1>3
<1>6. ASSUME NEW i \in 1 .. Len(s)
      PROVE  (a \o b)[i] = s[i]
  <2>1. (a \o b)[i] = IF i <= k THEN a[i] ELSE b[i - k]
    BY <1>1, <1>4, <1>5, SMTT(30)
  <2>2. CASE i <= k
    BY <1>2, <2>1, <2>2
  <2>3. CASE ~ i <= k
    <3>1. i - k \in 1 .. Len(s) - (k + 1) + 1 /\ k + 1 + (i - k) - 1 = i
      BY <1>1, <2>3
    <3>2. b[i - k] = s[k + 1 + (i - k) - 1]
      BY <1>3, <3>1, Zenon
    <3>. QED
      BY <2>1, <2>3, <3>1, <3>2
  <2>. QED
    BY <2>2, <2>3, Zenon
<1>7. a \o b = s
  <2>1. Len(a \o b) = Len(s)
    BY <1>1, <1>4, <1>5
  <2>. QED
    BY <1>4, <1>6, <2>1, SameElements, Zenon
<1>. QED
  BY <1>2, <1>3, <1>5, <1>7, Zenon DEF a, b

\* More bytes at the end are more at the end of every rest.
LEMMA RestExtends ==
  ASSUME NEW s \in Seq(Int), NEW e \in Seq(Int), NEW k \in Nat, 1 <= k, k <= Len(s)
  PROVE  /\ SubSeq(s, k + 1, Len(s)) \in Seq(Int)
         /\ SubSeq(s \o e, k + 1, Len(s \o e)) = SubSeq(s, k + 1, Len(s)) \o e
<1> DEFINE p == SubSeq(s, 1, k)
           q == SubSeq(s, k + 1, Len(s))
<1>1. p \in Seq(Int) /\ q \in Seq(Int) /\ Len(p) = k /\ p \o q = s
  BY SplitAt
<1> HIDE DEF p, q
<1>2. p # <<>>
  BY <1>1
<1> DEFINE r == q \o e
<1>3. r \in Seq(Int) /\ s \o e = p \o r
  <2>0. p \in Seq(Int) /\ q \in Seq(Int) /\ e \in Seq(Int)
    BY <1>1
  <2>2. (p \o q) \o e = p \o (q \o e) /\ q \o e \in Seq(Int)
    BY <2>0, Regrouped, ZenonT(30)
  <2>. QED
    BY <1>1, <2>2, Zenon
<1> HIDE DEF r
<1>4. SubSeq(p \o r, Len(p) + 1, Len(p \o r)) = r
  BY <1>1, <1>2, <1>3, Prepended, Zenon
<1>5. SubSeq(p \o r, k + 1, Len(p \o r)) = r
  BY <1>1, <1>4, Zenon
<1>. QED
  BY <1>1, <1>3, <1>5, Zenon DEF r, q

\* The same for the tail.
LEMMA TailExtends ==
  ASSUME NEW s \in Seq(Int), NEW e \in Seq(Int), s # <<>>
  PROVE  Tail(s) \in Seq(Int) /\ Tail(s \o e) = Tail(s) \o e
<1>1. 1 \in Nat /\ 1 <= 1 /\ 1 <= Len(s)
  BY NoElements
<1>2. \A q \in Seq(Int) : q # <<>> => Tail(q) = SubSeq(q, 2, Len(q))
  OBVIOUS
<1>3. s \o e \in Seq(Int) /\ s \o e # <<>>
  BY Prepended
<1>4. /\ SubSeq(s, 1 + 1, Len(s)) \in Seq(Int)
      /\ SubSeq(s \o e, 1 + 1, Len(s \o e)) = SubSeq(s, 1 + 1, Len(s)) \o e
  BY <1>1, RestExtends, Zenon
<1>5. 1 + 1 = 2
  OBVIOUS
<1>. QED
  BY <1>2, <1>3, <1>4, <1>5, Zenon

\* s starts with a header: of a scalar, or of a text or container of size c.
Shows(s, kind, c, r) ==
  Announced(s) = <<kind, c, r>> /\ r \in Seq(Int) /\ (kind \in {"array", "map"} => c \in Nat)

\* Only a known first byte with all the bytes that it tells of announces anything.
LEMMA AnnouncedIf ==
  ASSUME NEW s, Announced(s) # <<>>
  PROVE  s # <<>> /\ Lead(s[1]) # <<>> /\ Bytes(s, Lead(s[1])[2])
BY Zenon DEF Announced

\* A tag and its bytes stay there when more bytes follow.
LEMMA TaggedExtends ==
  ASSUME NEW s \in Seq(Int), NEW e \in Seq(Int), s # <<>>, NEW n \in {1, 2, 4, 8}, Bytes(s, n)
  PROVE  /\ After(s, n) \in Seq(Int)
         /\ Tagged(s, n, After(s, n)) /\ Tagged(s \o e, n, After(s, n) \o e)
         /\ SameStart(s, s \o e, n)
<1> DEFINE u == s \o e
<1>1. Len(s) > n /\ \A k \in 2 .. n + 1 : s[k] >= 0
  BY DEF Bytes
<1>2. /\ u \in Seq(Int) /\ u # <<>> /\ Len(u) = Len(s) + Len(e) /\ Len(s) \in Nat /\ Len(e) \in Nat
      /\ \A i \in 1 .. Len(s) : u[i] = s[i]
  BY Prepended
<1>3. n + 1 \in Nat /\ 1 <= n + 1 /\ n + 1 <= Len(s) /\ (n + 1) + 1 = n + 2
  BY <1>1, <1>2
<1>4. SubSeq(s, n + 2, Len(s)) \in Seq(Int) /\ SubSeq(u, n + 2, Len(u)) = SubSeq(s, n + 2, Len(s)) \o e
  <2>1. /\ SubSeq(s, (n + 1) + 1, Len(s)) \in Seq(Int)
        /\ SubSeq(u, (n + 1) + 1, Len(u)) = SubSeq(s, (n + 1) + 1, Len(s)) \o e
    BY <1>3, RestExtends, Zenon
  <2>. QED
    BY <1>3, <2>1, Zenon
<1> HIDE DEF u
<1>5. \A i \in 1 .. n + 1 : s[i] = u[i]
  BY <1>1, <1>2
<1>6. Bytes(u, n)
  <2>1. Len(u) > n
    BY <1>1, <1>2
  <2>2. \A k \in 2 .. n + 1 : u[k] >= 0
    BY <1>1, <1>5
  <2>. QED
    BY <2>1, <2>2 DEF Bytes
<1>. QED
  BY <1>2, <1>4, <1>5, <1>6, Zenon DEF u, After, Tagged, SameStart

\* What is announced stays announced when more bytes follow: they are only left over.
LEMMA AnnouncedExtends ==
  ASSUME NEW s \in Seq(Int), NEW e \in Seq(Int), Announced(s) # <<>>
  PROVE  \E kind, c, r : Shows(s, kind, c, r) /\ Shows(s \o e, kind, c, r \o e)
<1> DEFINE t == s[1]
           u == s \o e
<1>1. s # <<>> /\ Lead(t) # <<>> /\ Bytes(s, Lead(t)[2])
  BY AnnouncedIf
<1>2. t \in Int /\ u \in Seq(Int) /\ u # <<>> /\ u[1] = t
  <2>1. Len(s) \in Nat /\ Len(s) >= 1
    BY <1>1, NoElements
  <2>2. u \in Seq(Int) /\ u # <<>> /\ \A i \in 1 .. Len(s) : u[i] = s[i]
    BY <1>1, Prepended
  <2>. QED
    BY <2>1, <2>2
<1>3. \A r \in Seq(Int) : r \o e \in Seq(Int)
  BY OneAfterOther
<1>4. ASSUME NEW kind, NEW c, AtOnce(t, kind, c)
      PROVE  \E r : Shows(s, kind, c, r) /\ Shows(u, kind, c, r \o e)
  <2>1. Lead(t) = <<kind, 0, c>> /\ (kind \in {"array", "map"} => c \in Nat)
    BY <1>4 DEF AtOnce
  <2>2. Tail(s) \in Seq(Int) /\ Tail(u) = Tail(s) \o e
    BY <1>1, TailExtends
  <2> HIDE DEF u
  <2>3. Announced(s) = <<kind, c, Tail(s)>> /\ Announced(u) = <<kind, c, Tail(u)>>
    <3> HIDE DEF t
    <3>1. s[1] = t
      BY DEF t
    <3>. QED
      BY <1>1, <1>2, <2>1, <3>1, AnnouncedAtOnce, Zenon
  <2>. QED
    BY <1>3, <2>1, <2>2, <2>3, Zenon DEF Shows
<1>5. ASSUME NEW kind, NEW n, Ahead(t, kind, n)
      PROVE  \E k, c, r : Shows(s, k, c, r) /\ Shows(u, k, c, r \o e)
  <2>1. Lead(t) = <<kind, n>> /\ kind \in Tagging /\ n \in {1, 2, 4, 8}
    BY <1>5 DEF Ahead
  <2>2. Bytes(s, n)
    BY <1>1, <2>1
  <2> DEFINE r == After(s, n)
             w == Unsigned(s, n)
             v == Signed(s, n)
  <2>3. r \in Seq(Int) /\ Tagged(s, n, r) /\ Tagged(u, n, r \o e) /\ SameStart(s, u, n)
    BY <1>1, <2>1, <2>2, TaggedExtends, Zenon
  <2>4. Unsigned(u, n) = w /\ Signed(u, n) = v
    BY <2>1, <2>3, SameNumber
  <2>5. Size(w) \in Nat
    BY <2>1, <2>2, SizeIsNat
  <2>6. n # 0 /\ Lead(s[1]) = <<kind, n>> /\ Lead(u[1]) = <<kind, n>>
    BY <1>2, <2>1
  <2> HIDE DEF r, w, v, u
  <2>7. CASE kind \in {"natural", "float"}
    <3>1. Announced(s) = <<kind, w, r>>
      BY <2>3, <2>6, <2>7, AnnouncedAfter, Zenon DEF w
    <3>2. Announced(u) = <<kind, w, r \o e>>
      BY <2>3, <2>4, <2>6, <2>7, AnnouncedAfter, Zenon
    <3>3. kind \notin {"array", "map"}
      BY <2>7
    <3>. QED
      BY <1>3, <2>3, <3>1, <3>2, <3>3, Zenon DEF Shows
  <2>8. CASE kind = "signed"
    <3>1. Announced(s) = <<Sign(v), v, r>>
      BY <2>3, <2>6, <2>8, AnnouncedAfter, Zenon DEF v
    <3>2. Announced(u) = <<Sign(v), v, r \o e>>
      BY <2>3, <2>4, <2>6, <2>8, AnnouncedAfter, Zenon
    <3>3. Sign(v) \notin {"array", "map"}
      BY DEF Sign
    <3>. QED
      BY <1>3, <2>3, <3>1, <3>2, <3>3, Zenon DEF Shows
  <2>9. CASE kind \in {"text", "array", "map"}
    <3>1. Announced(s) = <<kind, Size(w), r>>
      BY <2>3, <2>6, <2>9, AnnouncedAfter, Zenon DEF w
    <3>2. Announced(u) = <<kind, Size(w), r \o e>>
      BY <2>3, <2>4, <2>6, <2>9, AnnouncedAfter, Zenon
    <3>. QED
      BY <1>3, <2>3, <2>5, <3>1, <3>2, Zenon DEF Shows
  <2>. QED
    BY <2>1, <2>7, <2>8, <2>9 DEF Tagging
<1>6. (\E kind, c : AtOnce(t, kind, c)) \/ \E kind, n : Ahead(t, kind, n)
  BY <1>1, <1>2, LeadShapes
<1>. QED
  BY <1>4, <1>5, <1>6, Zenon

\* Bytes are integers, in a sequence as well.
LEMMA BytesAreInts ==
  \A s \in Seq(Byte) : s \in Seq(Int)
<1> SUFFICES ASSUME NEW s \in Seq(Byte)
             PROVE  s \in Seq(Int)
  OBVIOUS
<1> HIDE DEF Byte
<1>1. Byte \subseteq Int
  BY ByteIsInt
<1>2. Len(s) \in Nat /\ s \in [1 .. Len(s) -> Byte]
  OBVIOUS
<1>3. s \in [1 .. Len(s) -> Int]
  BY <1>1, <1>2, Zenon
<1>. QED
  BY <1>2, <1>3, SequenceOf

\* A byte before bytes.
LEMMA OneByteMore ==
  \A t \in Byte, q \in Seq(Byte) : <<t>> \o q \in Seq(Byte)
BY Holding

\* The last 1, 2, 4 or 8 bytes of a number.
LEMMA LastBytes ==
  ASSUME NEW q \in Seq(Byte), Len(q) = 8
  PROVE  /\ SubSeq(q, 9 - 1, 8) \in Seq(Byte) /\ SubSeq(q, 9 - 2, 8) \in Seq(Byte)
         /\ SubSeq(q, 9 - 4, 8) \in Seq(Byte) /\ SubSeq(q, 9 - 8, 8) \in Seq(Byte)
<1> HIDE DEF Byte
<1>1. ASSUME NEW i \in 1 .. 8
      PROVE  SubSeq(q, i, 8) \in Seq(Byte)
  <2>1. i \in 1 .. Len(q) + 1 /\ 8 \in i - 1 .. Len(q)
    OBVIOUS
  <2>. QED
    BY <2>1, Piece, Zenon
<1>2. 9 - 1 \in 1 .. 8 /\ 9 - 2 \in 1 .. 8 /\ 9 - 4 \in 1 .. 8 /\ 9 - 8 \in 1 .. 8
  OBVIOUS
<1>. QED
  BY <1>1, <1>2, Zenon

\* Bytes that announce a number are no shorter than what packInt writes for it.
LEMMA AnnouncedNumber ==
  ASSUME NEW s \in Seq(Byte), NEW w \in Word64, NEW r, Announced(s) = <<Sign(w), w, r>>
  PROVE  PacksIn(w, Len(s))
<1> DEFINE t == s[1]
           x == Announced(s)
<1>1. x # <<>> /\ x[1] = Sign(w) /\ x[2] = w
  OBVIOUS
<1>2. s # <<>> /\ Lead(t) # <<>> /\ Bytes(s, Lead(t)[2])
  BY <1>1, AnnouncedIf
<1>3. s \in Seq(Int) /\ Len(s) \in Nat /\ Len(s) >= 1
  <2>1. s \in Seq(Int)
    BY BytesAreInts, Zenon
  <2>. QED
    BY <1>2, <2>1, NoElements
<1>4. t \in Byte /\ t \in Int
  BY <1>3, ByteIsInt
<1>5. Sign(w) \in {"natural", "negative"}
  BY DEF Sign
<1>6. ASSUME NEW kind, NEW c, AtOnce(t, kind, c)
      PROVE  PacksIn(w, Len(s))
  <2>1. Lead(t) = <<kind, 0, c>>
    BY <1>6 DEF AtOnce
  <2>2. x = <<kind, c, Tail(s)>>
    <3> HIDE DEF x
    <3>. QED
      BY <1>2, <1>3, <2>1, AnnouncedAtOnce, Zenon DEF x
  <2>3. kind = Sign(w) /\ c = w
    BY <1>1, <2>2
  <2>4. PacksIn(w, 1)
    BY <1>4, <2>1, <2>3, FixedNumber, Zenon
  <2>. QED
    BY <1>3, <2>4, SizeGrows
<1>7. ASSUME NEW kind, NEW n, Ahead(t, kind, n)
      PROVE  PacksIn(w, Len(s))
  <2>1. Lead(t) = <<kind, n>> /\ kind \in Tagging /\ n \in {1, 2, 4, 8}
    BY <1>7 DEF Ahead
  <2>2. Bytes(s, n) /\ n # 0
    BY <1>2, <2>1
  <2> DEFINE a == After(s, n)
             u == Unsigned(s, n)
             v == Signed(s, n)
  <2>3. Tagged(s, n, a)
    BY <1>2, <1>3, <2>2 DEF Tagged
  <2>4. Lead(s[1]) = <<kind, n>>
    BY <2>1
  <2>5. /\ kind \in {"natural", "float"} => x = <<kind, u, a>>
        /\ kind = "signed" => x = <<Sign(v), v, a>>
        /\ kind \in {"text", "array", "map"} => x = <<kind, Size(u), a>>
    <3> HIDE DEF a, t
    <3>. QED
      BY <2>2, <2>3, <2>4, AnnouncedAfter, Zenon
  <2> HIDE DEF a, u, v, x, t
  <2>6. kind \notin {"text", "array", "map"}
    BY <1>1, <1>5, <2>5
  <2>7. w = u \/ w = v
    BY <1>1, <2>1, <2>5, <2>6 DEF Tagging
  <2>8. PacksIn(w, n + 1)
    BY <2>1, <2>2, <2>7, WideNumber, Zenon DEF u, v
  <2>9. n + 1 <= Len(s) /\ n + 1 \in Nat
    BY <1>3, <2>1, <2>2 DEF Bytes
  <2>. QED
    BY <1>3, <2>8, <2>9, SizeGrows
<1>. QED
  BY <1>2, <1>4, <1>6, <1>7, LeadShapes, Zenon

\* What was got, and what is left.
Got(x, a, r) == x = <<a, r>>

\* The same was got from more bytes; the e that was added is what is left more.
Grows(x, y, e) == \E m, r : r \in Seq(Int) /\ Got(x, m, r) /\ Got(y, m, r \o e)

\* Whatever inner reads from the beginning of some bytes, it reads from more of them.
Steady(inner) == \A s, e \in Seq(Int) : inner[s] # <<>> => Grows(inner[s], inner[s \o e], e)

\* There is text in the bytes s, which is not the empty one.
TextIn(s, n) == n > 0 /\ s # <<>> /\ -s[1] \in Strings /\ Lengths[-s[1]] = n

\* The text at the beginning of some bytes, if there is one.
LEMMA TextIs ==
  ASSUME NEW s, NEW n
  PROVE  LET none == n = 0 /\ \E i \in Strings : Lengths[i] = 0
         IN  /\ none => Got(Text(s, n), <<"string", Empty>>, s)
             /\ ~none /\ TextIn(s, n) => Got(Text(s, n), <<"string", -s[1]>>, Tail(s))
             /\ ~none /\ ~TextIn(s, n) => Text(s, n) = <<>>
<1> DEFINE none == n = 0 /\ \E i \in Strings : Lengths[i] = 0
<1>1. none => ~TextIn(s, n)
  BY DEF TextIn
<1>2. Text(s, n) = CASE none -> <<<<"string", Empty>>, s>>
                     [] TextIn(s, n) -> <<<<"string", -s[1]>>, Tail(s)>>
                     [] OTHER -> <<>>
  BY Zenon DEF Text, TextIn
<1> HIDE DEF none
<1>. QED
  BY <1>1, <1>2, Zenon DEF none, Got

\* A text is read the same when more bytes follow.
LEMMA TextExtends ==
  ASSUME NEW s \in Seq(Int), NEW e \in Seq(Int), NEW n, Text(s, n) # <<>>
  PROVE  Grows(Text(s, n), Text(s \o e, n), e)
<1> DEFINE none == n = 0 /\ \E i \in Strings : Lengths[i] = 0
           u == s \o e
<1>1. CASE none
  <2>1. Got(Text(s, n), <<"string", Empty>>, s) /\ Got(Text(u, n), <<"string", Empty>>, u)
    BY <1>1, TextIs, Zenon
  <2>. QED
    BY <2>1, Zenon DEF Grows
<1>2. CASE ~none
  <2>1. TextIn(s, n) /\ Got(Text(s, n), <<"string", -s[1]>>, Tail(s))
    BY <1>2, TextIs, Zenon
  <2>2. s # <<>>
    BY <2>1, Zenon DEF TextIn
  <2>3. u # <<>> /\ u[1] = s[1]
    <3>1. 1 \in 1 .. Len(s)
      BY <2>2, NoElements
    <3>. QED
      BY <2>2, <3>1, Prepended, Zenon
  <2>4. Tail(s) \in Seq(Int) /\ Tail(u) = Tail(s) \o e
    BY <2>2, TailExtends, Zenon
  <2> HIDE DEF u
  <2>5. TextIn(u, n)
    BY <2>1, <2>3, Zenon DEF TextIn
  <2>6. Got(Text(u, n), <<"string", -s[1]>>, Tail(s) \o e)
    <3>1. Got(Text(u, n), <<"string", -u[1]>>, Tail(u))
      BY <1>2, <2>5, TextIs, Zenon
    <3>. QED
      BY <2>3, <2>4, <3>1, Zenon
  <2>. QED
    BY <2>1, <2>4, <2>6, Zenon DEF Grows, u
<1>. QED
  BY <1>1, <1>2

\* One element more is read.
LEMMA OneItemRead ==
  ASSUME NEW inner, NEW got, NEW a, NEW s, Got(got, a, s), NEW m, NEW r, Got(inner[s], m, r)
  PROVE  Got(NextItem(inner, got), Append(a, m), r)
<1>1. got # <<>> /\ got[1] = a /\ got[2] = s /\ inner[s] # <<>> /\ inner[s][1] = m /\ inner[s][2] = r
  BY DEF Got
<1>. QED
  BY <1>1, Zenon DEF NextItem, Got

\* An element is read the same when more bytes follow.
LEMMA NextItemExtends ==
  ASSUME NEW inner, Steady(inner), NEW e \in Seq(Int), NEW x, NEW y,
         x # <<>> => Grows(x, y, e), NextItem(inner, x) # <<>>
  PROVE  Grows(NextItem(inner, x), NextItem(inner, y), e)
<1>1. x # <<>> /\ inner[x[2]] # <<>>
  BY Zenon DEF NextItem
<1>2. PICK a, s : s \in Seq(Int) /\ Got(x, a, s) /\ Got(y, a, s \o e)
  BY <1>1, Zenon DEF Grows
<1>3. x[2] = s
  BY <1>2 DEF Got
<1>4. Grows(inner[s], inner[s \o e], e)
  BY <1>1, <1>2, <1>3, Zenon DEF Steady
<1>5. PICK m, r : r \in Seq(Int) /\ Got(inner[s], m, r) /\ Got(inner[s \o e], m, r \o e)
  BY <1>4, Zenon DEF Grows
<1>6. Got(NextItem(inner, x), Append(a, m), r)
  BY <1>2, <1>5, OneItemRead, Zenon
<1>7. Got(NextItem(inner, y), Append(a, m), r \o e)
  BY <1>2, <1>5, OneItemRead, Zenon
<1>. QED
  BY <1>5, <1>6, <1>7, Zenon DEF Grows

\* One pair more is read.
LEMMA NextPairIs ==
  ASSUME NEW inner, NEW got, NEW a, NEW s, Got(got, a, s), NEW key, NEW u, Got(inner[s], key, u),
         key[1] = "string", NEW m, NEW r, Got(inner[u], m, r)
  PROVE  Got(NextPair(inner, got), a \cup {<<key[2], m>>}, r)
<1> DEFINE x == inner[s]
           y == inner[u]
<1>2. got # <<>> /\ got[1] = a /\ got[2] = s
  BY DEF Got
<1>3. x # <<>> /\ x[1] = key /\ x[2] = u
  BY DEF Got
<1>4. y # <<>> /\ y[1] = m /\ y[2] = r
  BY DEF Got
<1>. QED
  BY <1>2, <1>3, <1>4, Zenon DEF NextPair, Got

\* A pair is read the same when more bytes follow.
LEMMA NextPairExtends ==
  ASSUME NEW inner, Steady(inner), NEW e \in Seq(Int), NEW x, NEW y,
         x # <<>> => Grows(x, y, e), NextPair(inner, x) # <<>>
  PROVE  Grows(NextPair(inner, x), NextPair(inner, y), e)
<1>1. x # <<>> /\ inner[x[2]] # <<>> /\ inner[x[2]][1][1] = "string" /\ inner[inner[x[2]][2]] # <<>>
  BY Zenon DEF NextPair
<1>2. PICK a, s : s \in Seq(Int) /\ Got(x, a, s) /\ Got(y, a, s \o e)
  BY <1>1, Zenon DEF Grows
<1>3. x[2] = s
  BY <1>2 DEF Got
<1>4. Grows(inner[s], inner[s \o e], e)
  BY <1>1, <1>2, <1>3, Zenon DEF Steady
<1>5. PICK key, q : q \in Seq(Int) /\ Got(inner[s], key, q) /\ Got(inner[s \o e], key, q \o e)
  BY <1>4, Zenon DEF Grows
<1>6. inner[s][1] = key /\ inner[s][2] = q
  BY <1>5 DEF Got
<1>7. key[1] = "string" /\ inner[q] # <<>>
  BY <1>1, <1>3, <1>6, Zenon
<1>8. Grows(inner[q], inner[q \o e], e)
  BY <1>5, <1>7, Zenon DEF Steady
<1>9. PICK m, r : r \in Seq(Int) /\ Got(inner[q], m, r) /\ Got(inner[q \o e], m, r \o e)
  BY <1>8, Zenon DEF Grows
<1>10. Got(NextPair(inner, x), a \cup {<<key[2], m>>}, r)
  BY <1>2, <1>5, <1>7, <1>9, NextPairIs, Zenon
<1>11. Got(NextPair(inner, y), a \cup {<<key[2], m>>}, r \o e)
  BY <1>2, <1>5, <1>7, <1>9, NextPairIs, Zenon
<1>. QED
  BY <1>9, <1>10, <1>11, Zenon DEF Grows

\* The Go values without content, by their type.
LEMMA ScalarTypes ==
  ASSUME NEW x \in Scalars
  PROVE  \/ x.go \in {"nil", "other"}
         \/ x.go = "bool" /\ x.v \in BOOLEAN
         \/ x.go = "string" /\ x.v \in Strings
         \/ x.go \in {"int", "uint", "float"} /\ x.v \in Word64
<1> HIDE DEF Word64, Strings
<1>. QED
  BY DEF Scalars

\* The bytes of what is neither text in a container nor a container, told from its meaning.
Again(m) ==
  CASE m[1] = "nil"      -> <<192>>
    [] m[1] = "bool"     -> <<194 + m[2]>>
    [] m[1] = "string"   -> packString(m[2])
    [] m[1] = "natural"  -> packUint(m[2])
    [] m[1] = "negative" -> packInt(m[2])
    [] m[1] = "float"    -> packFloat64(m[2])

\* x means c of the kind, and is written as b.
Means(x, m, e, kind, c, b) == MeaningOf(x, m) = <<kind, c>> /\ Encoding(x, e) = b

\* What a value without content means and how it is written.
LEMMA ScalarMeans ==
  ASSUME NEW x \in Scalars, NEW e, NEW m
  PROVE  \/ Means(x, m, e, "nil", 0, <<192>>)
         \/ Means(x, m, e, "bool", 0, <<194>>) \/ Means(x, m, e, "bool", 1, <<195>>)
         \/ Means(x, m, e, "string", x.v, packString(x.v)) /\ x.v \in Strings
         \/ Means(x, m, e, "natural", x.v, packUint(x.v)) /\ x.v \in Word64
         \/ Means(x, m, e, "negative", x.v, packInt(x.v)) /\ x.v \in Word64 /\ Negative(x.v)
         \/ Means(x, m, e, "float", x.v, packFloat64(x.v)) /\ x.v \in Word64
<1>2. CASE x.go \in {"nil", "other"}
  <2>1. Encoding(x, e) = <<192>>
    BY <1>2, Zenon DEF Encoding
  <2>2. MeaningOf(x, m) = <<"nil", 0>>
    BY <1>2, Zenon DEF MeaningOf
  <2>. QED
    BY <2>1, <2>2, Zenon DEF Means
<1>3. CASE x.go = "bool" /\ x.v \in BOOLEAN
  <2>1. CASE x.v
    <3>1. Encoding(x, e) = <<195>>
      BY <1>3, <2>1, Zenon DEF Encoding
    <3>2. MeaningOf(x, m) = <<"bool", 1>>
      BY <1>3, <2>1, Zenon DEF MeaningOf
    <3>. QED
      BY <3>1, <3>2, Zenon DEF Means
  <2>2. CASE ~x.v
    <3>1. Encoding(x, e) = <<194>>
      BY <1>3, <2>2, Zenon DEF Encoding
    <3>2. MeaningOf(x, m) = <<"bool", 0>>
      BY <1>3, <2>2, Zenon DEF MeaningOf
    <3>. QED
      BY <3>1, <3>2, Zenon DEF Means
  <2>. QED
    BY <2>1, <2>2
<1>4. CASE x.go = "string" /\ x.v \in Strings
  <2>1. Encoding(x, e) = packString(x.v)
    BY <1>4, Zenon DEF Encoding
  <2>2. MeaningOf(x, m) = <<"string", x.v>>
    BY <1>4, Zenon DEF MeaningOf
  <2>. QED
    BY <1>4, <2>1, <2>2, Zenon DEF Means
<1>5. CASE x.go = "int" /\ x.v \in Word64
  <2>1. Encoding(x, e) = packInt(x.v)
    BY <1>5, Zenon DEF Encoding
  <2>2. MeaningOf(x, m) = <<Sign(x.v), x.v>>
    BY <1>5, Zenon DEF MeaningOf
  <2>3. CASE Negative(x.v)
    BY <1>5, <2>1, <2>2, <2>3, Zenon DEF Means, Sign
  <2>4. CASE ~Negative(x.v)
    <3>1. packInt(x.v) = packUint(x.v)
      BY <2>4 DEF packInt
    <3>. QED
      BY <1>5, <2>1, <2>2, <2>4, <3>1, Zenon DEF Means, Sign
  <2>. QED
    BY <2>3, <2>4
<1>6. CASE x.go = "uint" /\ x.v \in Word64
  <2>1. Encoding(x, e) = packUint(x.v)
    BY <1>6, Zenon DEF Encoding
  <2>2. MeaningOf(x, m) = <<"natural", x.v>>
    BY <1>6, Zenon DEF MeaningOf
  <2>. QED
    BY <1>6, <2>1, <2>2, Zenon DEF Means
<1>7. CASE x.go = "float" /\ x.v \in Word64
  <2>1. Encoding(x, e) = packFloat64(x.v)
    BY <1>7, Zenon DEF Encoding
  <2>2. MeaningOf(x, m) = <<"float", x.v>>
    BY <1>7, Zenon DEF MeaningOf
  <2>. QED
    BY <1>7, <2>1, <2>2, Zenon DEF Means
<1>. QED
  BY <1>2, <1>3, <1>4, <1>5, <1>6, <1>7, ScalarTypes, Zenon

\* What means c of the kind is written as b.
WrittenAs(kind, c, b) == Again(<<kind, c>>) = b

\* How a meaning is written again.
LEMMA AgainIs ==
  /\ WrittenAs("nil", 0, <<192>>) /\ WrittenAs("bool", 0, <<194>>) /\ WrittenAs("bool", 1, <<195>>)
  /\ \A c : /\ WrittenAs("string", c, packString(c)) /\ WrittenAs("natural", c, packUint(c))
            /\ WrittenAs("negative", c, packInt(c)) /\ WrittenAs("float", c, packFloat64(c))
<1>1. ASSUME NEW k, NEW d
      PROVE  <<k, d>>[1] = k /\ <<k, d>>[2] = d
  OBVIOUS
<1>2. 194 + 0 = 194 /\ 194 + 1 = 195
  OBVIOUS
<1>. QED
  BY <1>1, <1>2, SMT DEF Again, WrittenAs

\* The bytes of a value without content are a function of what it means: int and uint agree.
LEMMA ScalarAgain ==
  ASSUME NEW x \in Scalars, NEW e, NEW m
  PROVE  /\ Encoding(x, e) = Again(MeaningOf(x, m))
         /\ MeaningOf(x, m)[1] # "array" /\ MeaningOf(x, m)[1] # "map"
<1>1. ASSUME NEW kind, NEW c, NEW b, Means(x, m, e, kind, c, b)
      PROVE  Encoding(x, e) = b /\ Again(MeaningOf(x, m)) = Again(<<kind, c>>) /\ MeaningOf(x, m)[1] = kind
  BY <1>1 DEF Means
<1> DEFINE Kinds == {"nil", "bool", "string", "natural", "negative", "float"}
           Told == Encoding(x, e) = Again(MeaningOf(x, m))
                     /\ MeaningOf(x, m)[1] \in Kinds
<1>2. ASSUME NEW kind, kind \in Kinds, NEW c, NEW b, Means(x, m, e, kind, c, b), WrittenAs(kind, c, b)
      PROVE  Told
  BY <1>1, <1>2, Zenon DEF WrittenAs
<1>5. /\ "nil" \in Kinds /\ "bool" \in Kinds /\ "string" \in Kinds /\ "natural" \in Kinds
      /\ "negative" \in Kinds /\ "float" \in Kinds
  BY Zenon
<1>6. \A k \in Kinds : k # "array" /\ k # "map"
  OBVIOUS
<1> HIDE DEF Told, Kinds
<1>3. Told
  <2>1. CASE Means(x, m, e, "nil", 0, <<192>>)
    BY <1>2, <1>5, AgainIs, <2>1, SMT
  <2>2. CASE Means(x, m, e, "bool", 0, <<194>>)
    BY <1>2, <1>5, AgainIs, <2>2, SMT
  <2>3. CASE Means(x, m, e, "bool", 1, <<195>>)
    BY <1>2, <1>5, AgainIs, <2>3, SMT
  <2>4. CASE Means(x, m, e, "string", x.v, packString(x.v))
    BY <1>2, <1>5, AgainIs, <2>4, SMT
  <2>5. CASE Means(x, m, e, "natural", x.v, packUint(x.v))
    BY <1>2, <1>5, AgainIs, <2>5, SMT
  <2>6. CASE Means(x, m, e, "negative", x.v, packInt(x.v))
    BY <1>2, <1>5, AgainIs, <2>6, SMT
  <2>7. CASE Means(x, m, e, "float", x.v, packFloat64(x.v))
    BY <1>2, <1>5, AgainIs, <2>7, SMT
  <2>. QED
    BY <2>1, <2>2, <2>3, <2>4, <2>5, <2>6, <2>7, ScalarMeans, Zenon
<1>. QED
  BY <1>3, <1>6, Zenon DEF Told

\* Every recursive function of the model, and two of the proofs, by its kind and
\* parameters: its first value, and the step from f[n - 1] = x to f[n].
Start(p) ==
  CASE p[1] \in {"joined", "left"} -> <<>>
    [] p[1] = "items"     -> <<<<>>, p[3]>>
    [] p[1] = "pairs"     -> <<{}, p[3]>>
    [] p[1] = "stream"    -> <<<<>>, p[2]>>
    [] p[1] = "values"    -> Scalars
    [] p[1] = "encodings" -> [x \in Values[0] |-> Encoding(x, <<>>)]
    [] p[1] = "meanings"  -> [x \in Values[0] |-> MeaningOf(x, <<>>)]
    [] p[1] = "readings"  -> [s \in Seq(Int) |-> Reading(s, [r \in Seq(Int) |-> <<>>])]

Step(p, n, x) ==
  CASE p[1] = "joined"    -> x \o p[2][n]
    [] p[1] = "left"      -> p[2][Len(p[2]) - n + 1] \o x
    [] p[1] = "items"     -> NextItem(p[2], x)
    [] p[1] = "pairs"     -> NextPair(p[2], x)
    [] p[1] = "stream"    -> NextValue(x)
    [] p[1] = "values"    -> Scalars \cup Arrays(x) \cup Maps(x)
    [] p[1] = "encodings" -> [y \in Values[n] |-> Encoding(y, x)]
    [] p[1] = "meanings"  -> [y \in Values[n] |-> MeaningOf(y, x)]
    [] p[1] = "readings"  -> [s \in Seq(Int) |-> Reading(s, x)]

Follows(p, f) == f = [n \in Nat |-> IF n = 0 THEN Start(p) ELSE Step(p, n, f[n - 1])]

\* A recursive function starts with its first value and goes on with its step.
LEMMA Unfolds ==
  ASSUME NEW p, NEW f, Follows(p, f)
  PROVE  f[0] = Start(p) /\ \A n \in Nat : f[n + 1] = Step(p, n + 1, f[n])
<1>1. \A n \in Nat : f[n] = IF n = 0 THEN Start(p) ELSE Step(p, n, f[n - 1])
  BY Zenon DEF Follows
<1>2. 0 \in Nat /\ \A n \in Nat : n + 1 \in Nat /\ n + 1 # 0 /\ (n + 1) - 1 = n
  OBVIOUS
<1>. QED
  BY <1>1, <1>2

\* Two values that mean the same are written as the same bytes.
Agrees(S, e, m) == \A x, y \in S : m[x] = m[y] => e[x] = e[y]

\* The rows of a map in their order, with their encodings: t sorts v.
InRows(t, v, n, S) ==
  /\ n \in Nat /\ \A k \in 1 .. n : t[k][1] \in Int /\ t[k][2] \in S
  /\ \A k \in 1 .. n : \E i \in 1 .. n : t[k] = v[i]
  /\ \A i \in 1 .. n : \E k \in 1 .. n : t[k] = v[i]
  /\ \A i, j \in 1 .. n : i < j => t[i][1] < t[j][1]

\* Every row of t is one of u, but for a value that means the same.
Rowwise(t, n, u, k, m) ==
  \A i \in 1 .. n : \E j \in 1 .. k : t[i][1] = u[j][1] /\ m[t[i][2]] = m[u[j][2]]

\* What the map means whose n rows are v.
PairSet(v, n, m) == {<<v[i][1], m[v[i][2]]>> : i \in 1 .. n}

\* Maps that mean the same have the same rows, one way.
LEMMA RowsOfOther ==
  ASSUME NEW S, NEW t, NEW v, NEW n, InRows(t, v, n, S), NEW u, NEW w, NEW k, InRows(u, w, k, S), NEW m,
         PairSet(v, n, m) \subseteq PairSet(w, k, m)
  PROVE  Rowwise(t, n, u, k, m)
<1> SUFFICES ASSUME NEW i \in 1 .. n
             PROVE  \E j \in 1 .. k : t[i][1] = u[j][1] /\ m[t[i][2]] = m[u[j][2]]
  BY Zenon DEF Rowwise
<1>1. PICK a \in 1 .. n : t[i] = v[a]
  BY Zenon DEF InRows
<1>2. <<v[a][1], m[v[a][2]]>> \in {<<w[j][1], m[w[j][2]]>> : j \in 1 .. k}
  BY Zenon DEF PairSet
<1>3. PICK b \in 1 .. k : <<v[a][1], m[v[a][2]]>> = <<w[b][1], m[w[b][2]]>>
  BY <1>2, Zenon
<1>4. v[a][1] = w[b][1] /\ m[v[a][2]] = m[w[b][2]]
  BY <1>3
<1>5. PICK j \in 1 .. k : u[j] = w[b]
  BY Zenon DEF InRows
<1>. QED
  BY <1>1, <1>4, <1>5, Zenon

\* Arrays that mean the same are written as the same bytes, if their elements are.
LEMMA SameArray ==
  ASSUME NEW S, NEW x \in Arrays(S), NEW y \in Arrays(S), NEW e, NEW m, Agrees(S, e, m),
         MeaningOf(x, m) = MeaningOf(y, m)
  PROVE  Encoding(x, e) = Encoding(y, e)
<1> DEFINE v == x.v
           w == y.v
           n == Len(v)
           k == Len(w)
           p == [i \in 1 .. n |-> m[v[i]]]
           q == [i \in 1 .. k |-> m[w[i]]]
           a == [i \in 1 .. n |-> e[v[i]]]
           b == [i \in 1 .. k |-> e[w[i]]]
<1>1. x.go = "array" /\ y.go = "array" /\ v \in Seq(S) /\ w \in Seq(S)
  <2> HIDE DEF MaxLength
  <2>. QED
    BY DEF Arrays
<1>2. MeaningOf(x, m) = <<"array", p>> /\ MeaningOf(y, m) = <<"array", q>>
  <2>1. MeaningOf(x, m) = <<"array", p>>
    BY <1>1, Zenon DEF MeaningOf
  <2>2. MeaningOf(y, m) = <<"array", q>>
    BY <1>1, Zenon DEF MeaningOf
  <2>. QED
    BY <2>1, <2>2, Zenon
<1>3. Encoding(x, e) = packArrayHeader(n) \o Concat(a)
  BY <1>1, Zenon DEF Encoding
<1>4. Encoding(y, e) = packArrayHeader(k) \o Concat(b)
  BY <1>1, Zenon DEF Encoding
<1>5. p = q
  <2> HIDE DEF p, q
  <2> DEFINE z == MeaningOf(x, m)
  <2>0. z = <<"array", p>> /\ z = <<"array", q>>
    BY <1>2, Zenon
  <2> HIDE DEF z
  <2>1. z[2] = p /\ z[2] = q
    <3>1. z[2] = p
      BY <2>0
    <3>2. z[2] = q
      BY <2>0
    <3>. QED
      BY <3>1, <3>2
  <2>. QED
    BY <2>1, Zenon
<1> HIDE DEF v, w
<1>6. n \in Nat /\ k \in Nat /\ (\A i \in 1 .. n : v[i] \in S) /\ \A i \in 1 .. k : w[i] \in S
  BY <1>1
<1> HIDE DEF n, k
<1>7. 1 .. n = 1 .. k
  <2>1. DOMAIN p = 1 .. n /\ DOMAIN q = 1 .. k
    BY Zenon
  <2>. QED
    BY <1>5, <2>1, Zenon
<1>8. n = k
  <2>1. (n # 0 => n \in 1 .. k) /\ (k # 0 => k \in 1 .. n)
    BY <1>6, <1>7
  <2>. QED
    BY <1>6, <2>1
<1>9. \A i \in 1 .. n : p[i] = m[v[i]] /\ q[i] = m[w[i]]
  BY <1>8, Zenon
<1>10. \A i \in 1 .. n : e[v[i]] = e[w[i]]
  <2> HIDE DEF p, q
  <2>1. \A i \in 1 .. n : m[v[i]] = m[w[i]]
    BY <1>5, <1>9, Zenon
  <2>2. \A i \in 1 .. n : v[i] \in S /\ w[i] \in S
    BY <1>6, <1>8, Zenon
  <2>. QED
    BY <2>1, <2>2, Zenon DEF Agrees
<1>11. a = b
  BY <1>8, <1>10, Zenon
<1> HIDE DEF a, b
<1>. QED
  BY <1>3, <1>4, <1>8, <1>11, Zenon

\* The first k elements and the next one are the first k + 1.
LEMMA OneMore ==
  ASSUME NEW ms, NEW k \in Nat
  PROVE  /\ [j \in 1 .. 0 |-> ms[j]] = <<>>
         /\ Append([j \in 1 .. k |-> ms[j]], ms[k + 1]) = [j \in 1 .. k + 1 |-> ms[j]]
<1>1. [j \in 1 .. 0 |-> ms[j]] = <<>>
  OBVIOUS
<1> DEFINE a == [j \in 1 .. k |-> ms[j]]
           b == [j \in 1 .. k + 1 |-> ms[j]]
           S == {ms[j] : j \in 1 .. k + 1}
           c == Append(a, ms[k + 1])
<1>2. a \in Seq(S) /\ b \in Seq(S) /\ ms[k + 1] \in S /\ Len(a) = k /\ Len(b) = k + 1
  OBVIOUS
<1>3. \A j \in 1 .. k + 1 : b[j] = IF j = k + 1 THEN ms[k + 1] ELSE a[j]
  OBVIOUS
<1> HIDE DEF a, b, S
<1>4. c \in Seq(S) /\ Len(c) = k + 1 /\ \A j \in 1 .. k + 1 : c[j] = IF j = k + 1 THEN ms[k + 1] ELSE a[j]
  BY <1>2, OneMoreElement
<1> HIDE DEF c
<1>5. c = b
  BY <1>2, <1>3, <1>4, SameElements
<1>. QED
  BY <1>1, <1>5 DEF a, b, c

\* A key and a value are read, one after the other.
PairRead(inner, s, key, m, r) ==
  \E u : Got(inner[s], <<"string", key>>, u) /\ Got(inner[u], m, r)

\* A key and a value make one pair more.
LEMMA OnePairRead ==
  ASSUME NEW inner, NEW got, NEW a, NEW s, Got(got, a, s),
         NEW key, NEW m, NEW r, PairRead(inner, s, key, m, r)
  PROVE  Got(NextPair(inner, got), a \cup {<<key, m>>}, r)
<1>1. PICK u : Got(inner[s], <<"string", key>>, u) /\ Got(inner[u], m, r)
  BY DEF PairRead
<1> DEFINE x == inner[s]
           y == inner[u]
<1>2. got # <<>> /\ got[1] = a /\ got[2] = s
  BY DEF Got
<1>3. x # <<>> /\ x[1][1] = "string" /\ x[1][2] = key /\ x[2] = u
  BY <1>1 DEF Got
<1>4. y # <<>> /\ y[1] = m /\ y[2] = r
  BY <1>1 DEF Got
<1>. QED
  BY <1>2, <1>3, <1>4, Zenon DEF NextPair, Got

\* A header and its content: the header is announced, the content is what follows.
LEMMA AfterHeader ==
  ASSUME NEW h, NEW kind, NEW n, Announces(h, kind, n), NEW b \in Seq(Symbols)
  PROVE  /\ h \o b \in Seq(Symbols) /\ h \o b # <<>> /\ b \in Seq(Int)
         /\ \A r \in Seq(Int) : b \o r \in Seq(Int) /\ Announced((h \o b) \o r) = <<kind, n, b \o r>>
<1>1. h \in Seq(Byte) /\ h # <<>>
  BY DEF Announces
<1>2. h \in Seq(Symbols) /\ h \in Seq(Int) /\ b \in Seq(Int)
  BY <1>1, StringsAreInts, Wider, Zenon
<1>3. h \o b \in Seq(Symbols) /\ h \o b # <<>>
  BY <1>1, <1>2, OneAfterOther
<1>4. ASSUME NEW r \in Seq(Int)
      PROVE  b \o r \in Seq(Int) /\ Announced((h \o b) \o r) = <<kind, n, b \o r>>
  <2>1. b \o r \in Seq(Int) /\ (h \o b) \o r = h \o (b \o r)
    BY <1>2, Shifted, ZenonT(30)
  <2>. QED
    BY <2>1, Zenon DEF Announces
<1>. QED
  BY <1>2, <1>3, <1>4

\* Whatever follows it, inner reads e as a value that means m.
Understood(e, m, inner) ==
  e \in Seq(Symbols) /\ \A r \in Seq(Int) : inner[e \o r] = <<m, r>>

\* How the kind that is announced decides what is read.
LEMMA ReadingByKind ==
  ASSUME NEW s, NEW inner
  PROVE  LET a == Announced(s)
             items == Items(inner, a[3], a[2])
             pairs == Pairs(inner, a[3], a[2])
         IN  /\ a = <<>> => Reading(s, inner) = <<>>
             /\ a # <<>> /\ a[1] = "text" => Reading(s, inner) = Text(a[3], a[2])
             /\ a # <<>> /\ a[1] = "array" =>
                  Reading(s, inner) = IF items = <<>> THEN <<>> ELSE <<<<"array", items[1]>>, items[2]>>
             /\ a # <<>> /\ a[1] = "map" =>
                  Reading(s, inner) = IF pairs = <<>> THEN <<>> ELSE <<<<"map", pairs[1]>>, pairs[2]>>
             /\ a # <<>> /\ a[1] \notin {"text", "array", "map"} =>
                  Reading(s, inner) = <<<<a[1], a[2]>>, a[3]>>
BY Zenon DEF Reading

\* A value without content is read as what it means.
LEMMA ScalarRead ==
  ASSUME NEW x \in Scalars, NEW e, NEW m, NEW inner
  PROVE  ReadsAs(Encoding(x, e), MeaningOf(x, m), inner)
<1>0. 192 \in Byte /\ 194 \in Byte /\ 195 \in Byte
  BY DEF Byte
<1>1. Announces(<<192>>, "nil", 0) /\ Announces(<<194>>, "bool", 0) /\ Announces(<<195>>, "bool", 1)
  BY <1>0, InOneByte, LeadTag
<1> DEFINE Plain(kind) == kind \notin {"text", "array", "map"}
<1>2. ASSUME NEW kind, Plain(kind), NEW c, NEW b, Announces(b, kind, c), Means(x, m, e, kind, c, b)
      PROVE  ReadsAs(Encoding(x, e), MeaningOf(x, m), inner)
  <2>1. ReadsAs(b, <<kind, c>>, inner)
    BY <1>2, PlainRead, Zenon
  <2>. QED
    BY <1>2, <2>1, Zenon DEF Means
<1>3. Plain("nil") /\ Plain("bool") /\ Plain("natural") /\ Plain("negative") /\ Plain("float")
  BY SMT
<1> HIDE DEF Plain
<1>4. CASE \/ Means(x, m, e, "nil", 0, <<192>>)
           \/ Means(x, m, e, "bool", 0, <<194>>) \/ Means(x, m, e, "bool", 1, <<195>>)
  BY <1>1, <1>2, <1>3, <1>4, SMT
<1>5. CASE Means(x, m, e, "string", x.v, packString(x.v)) /\ x.v \in Strings
  <2>1. ReadsAs(packString(x.v), <<"string", x.v>>, inner)
    BY <1>5, StringRead, Zenon
  <2>. QED
    BY <1>5, <2>1, Zenon DEF Means
<1>6. CASE Means(x, m, e, "natural", x.v, packUint(x.v)) /\ x.v \in Word64
  <2>1. Announces(packUint(x.v), "natural", x.v)
    BY <1>6, UintAnnounces, Zenon
  <2>. QED
    BY <1>2, <1>3, <1>6, <2>1, Zenon
<1>7. CASE Means(x, m, e, "negative", x.v, packInt(x.v)) /\ x.v \in Word64 /\ Negative(x.v)
  <2>1. Announces(packInt(x.v), "negative", x.v)
    BY <1>7, IntAnnounces, Zenon DEF Sign
  <2>. QED
    BY <1>2, <1>3, <1>7, <2>1, Zenon
<1>8. CASE Means(x, m, e, "float", x.v, packFloat64(x.v)) /\ x.v \in Word64
  <2>1. Announces(packFloat64(x.v), "float", x.v)
    BY <1>8, FloatAnnounces, Zenon
  <2>. QED
    BY <1>2, <1>3, <1>8, <2>1, Zenon
<1>. QED
  <2>1. \/ Means(x, m, e, "nil", 0, <<192>>)
        \/ Means(x, m, e, "bool", 0, <<194>>) \/ Means(x, m, e, "bool", 1, <<195>>)
        \/ Means(x, m, e, "string", x.v, packString(x.v)) /\ x.v \in Strings
        \/ Means(x, m, e, "natural", x.v, packUint(x.v)) /\ x.v \in Word64
        \/ Means(x, m, e, "negative", x.v, packInt(x.v)) /\ x.v \in Word64 /\ Negative(x.v)
        \/ Means(x, m, e, "float", x.v, packFloat64(x.v)) /\ x.v \in Word64
    BY ScalarMeans, SMTT(30)
  <2>. QED
    BY <1>4, <1>5, <1>6, <1>7, <1>8, <2>1, SMTT(30)

\* A key and a value one after the other are read as a pair.
LEMMA OnePairUnderstood ==
  ASSUME NEW inner, NEW p, NEW key, Understood(p, <<"string", key>>, inner), NEW e, NEW m, Understood(e, m, inner)
  PROVE  p \o e \in Seq(Symbols) /\ \A r \in Seq(Int) : PairRead(inner, (p \o e) \o r, key, m, r)
<1>1. /\ p \in Seq(Symbols) /\ \A r \in Seq(Int) : inner[p \o r] = <<<<"string", key>>, r>>
      /\ e \in Seq(Symbols) /\ \A r \in Seq(Int) : inner[e \o r] = <<m, r>>
  BY Zenon DEF Understood
<1>2. p \o e \in Seq(Symbols)
  BY <1>1, OneAfterOther
<1>3. p \in Seq(Int) /\ e \in Seq(Int)
  BY <1>1, StringsAreInts, Wider, Zenon
<1>4. ASSUME NEW r \in Seq(Int)
      PROVE  PairRead(inner, (p \o e) \o r, key, m, r)
  <2>1. (p \o e) \o r = p \o (e \o r) /\ e \o r \in Seq(Int)
    BY <1>3, Shifted, ZenonT(30)
  <2>2. Got(inner[(p \o e) \o r], <<"string", key>>, e \o r) /\ Got(inner[e \o r], m, r)
    BY <1>1, <2>1, Zenon DEF Got
  <2>. QED
    BY <2>2, Zenon DEF PairRead
<1>. QED
  BY <1>2, <1>4

\* What is read as a meaning at one depth is understood at the next.
LEMMA UnderstoodIfRead ==
  ASSUME NEW e, NEW m, NEW inner, ReadsAs(e, m, inner), NEW reads, reads = [s \in Seq(Int) |-> Reading(s, inner)]
  PROVE  Understood(e, m, reads)
<1>1. e \in Seq(Symbols) /\ \A r \in Seq(Int) : Reading(e \o r, inner) = <<m, r>>
  BY DEF ReadsAs
<1>2. e \in Seq(Int)
  BY <1>1, StringsAreInts, Wider, Zenon
<1>3. ASSUME NEW r \in Seq(Int)
      PROVE  reads[e \o r] = <<m, r>>
  <2>1. e \o r \in Seq(Int)
    BY <1>2, OneAfterOther
  <2>2. reads[e \o r] = Reading(e \o r, inner)
    BY <2>1, Zenon
  <2>. QED
    BY <1>1, <2>2, Zenon
<1>. QED
  BY <1>1, <1>3, Zenon DEF Understood

\* What is got becomes a value of the kind.
Wrapped(kind, got) == IF got = <<>> THEN <<>> ELSE <<<<kind, got[1]>>, got[2]>>

\* A container is got the same from more bytes if its content is.
LEMMA WrappedGrows ==
  ASSUME NEW kind, NEW x, NEW y, NEW e, Grows(x, y, e)
  PROVE  Grows(Wrapped(kind, x), Wrapped(kind, y), e)
<1>1. PICK m, r : r \in Seq(Int) /\ Got(x, m, r) /\ Got(y, m, r \o e)
  BY Zenon DEF Grows
<1> DEFINE u == r \o e
<1>2. x # <<>> /\ x[1] = m /\ x[2] = r
  BY <1>1 DEF Got
<1>3. y # <<>> /\ y[1] = m /\ y[2] = u
  BY <1>1 DEF Got
<1>4. Got(Wrapped(kind, x), <<kind, m>>, r) /\ Got(Wrapped(kind, y), <<kind, m>>, u)
  BY <1>2, <1>3, Zenon DEF Wrapped, Got
<1>. QED
  BY <1>1, <1>4, Zenon DEF Grows

\* What is read when neither text nor a container is announced.
LEMMA ReadingOfOther ==
  ASSUME NEW s, NEW inner, NEW kind, NEW c, NEW r, Shows(s, kind, c, r), kind \notin {"text", "array", "map"}
  PROVE  Got(Reading(s, inner), <<kind, c>>, r)
<1> DEFINE a == Announced(s)
<1>1. a # <<>> /\ a[1] = kind /\ a[2] = c /\ a[3] = r
  BY DEF Shows
<1> HIDE DEF a
<1>. QED
  BY <1>1, ReadingByKind, Zenon DEF a, Got

\* What is read when text is announced.
LEMMA ReadingOfText ==
  ASSUME NEW s, NEW inner, NEW c, NEW r, Shows(s, "text", c, r)
  PROVE  Reading(s, inner) = Text(r, c)
<1> DEFINE a == Announced(s)
<1>1. a # <<>> /\ a[1] = "text" /\ a[2] = c /\ a[3] = r
  BY DEF Shows
<1> HIDE DEF a
<1>. QED
  BY <1>1, ReadingByKind, Zenon DEF a

\* What is read when an array is announced.
LEMMA ReadingOfArray ==
  ASSUME NEW s, NEW inner, NEW c, NEW r, Shows(s, "array", c, r)
  PROVE  Reading(s, inner) = Wrapped("array", Items(inner, r, c))
<1> DEFINE a == Announced(s)
<1>1. a # <<>> /\ a[1] = "array" /\ a[2] = c /\ a[3] = r
  BY DEF Shows
<1> HIDE DEF a
<1>. QED
  BY <1>1, ReadingByKind, Zenon DEF a, Wrapped

\* What is read when a map is announced.
LEMMA ReadingOfMap ==
  ASSUME NEW s, NEW inner, NEW c, NEW r, Shows(s, "map", c, r)
  PROVE  Reading(s, inner) = Wrapped("map", Pairs(inner, r, c))
<1> DEFINE a == Announced(s)
<1>1. a # <<>> /\ a[1] = "map" /\ a[2] = c /\ a[3] = r
  BY DEF Shows
<1> HIDE DEF a
<1>. QED
  BY <1>1, ReadingByKind, Zenon DEF a, Wrapped

\* What was got is one thing.
LEMMA GotOnce ==
  ASSUME NEW x, NEW a, NEW r, Got(x, a, r), NEW b, NEW q, Got(x, b, q)
  PROVE  a = b /\ r = q
BY DEF Got

\* One value more of the stream, if there is one.
LEMMA NextValueIs ==
  ASSUME NEW got, NEW a, NEW s, Got(got, a, s)
  PROVE  /\ Decode(s) = <<>> => NextValue(got) = got
         /\ \A m, r : Got(Decode(s), m, r) => Got(NextValue(got), Append(a, m), r)
<1>1. got[1] = a /\ got[2] = s
  BY DEF Got
<1>2. Decode(s) = <<>> => NextValue(got) = got
  BY <1>1, Zenon DEF NextValue
<1>3. ASSUME NEW m, NEW r, Got(Decode(s), m, r)
      PROVE  Got(NextValue(got), Append(a, m), r)
  <2> DEFINE x == Decode(s)
  <2>1. x # <<>> /\ x[1] = m /\ x[2] = r
    BY <1>3 DEF Got
  <2> HIDE DEF x
  <2>. QED
    BY <1>1, <2>1, Zenon DEF NextValue, Got, x
<1>. QED
  BY <1>2, <1>3

\* What was got has one kind and one content.
LEMMA GotOnlyOnce ==
  ASSUME NEW x, NEW k, NEW a, NEW r, Got(x, <<k, a>>, r), NEW l, NEW b, NEW q, Got(x, <<l, b>>, q)
  PROVE  k = l /\ a = b
<1>1. <<k, a>> = <<l, b>>
  BY GotOnce, Zenon
<1>. QED
  BY <1>1

\* A number can only be read where it is announced.
LEMMA NumberRead ==
  ASSUME NEW s \in Seq(Int), NEW inner, NEW k \in {"natural", "negative"}, NEW w, NEW q,
         Got(Reading(s, inner), <<k, w>>, q)
  PROVE  \E r : Announced(s) = <<k, w, r>>
<1> DEFINE x == Reading(s, inner)
<1>1. x # <<>>
  BY DEF Got
<1>2. Announced(s) # <<>>
  BY <1>1, ReadingByKind, Zenon
<1>3. <<>> \in Seq(Int)
  OBVIOUS
<1>4. PICK kind, c, r : Shows(s, kind, c, r)
  BY <1>2, <1>3, AnnouncedExtends, Zenon
<1> HIDE DEF x
<1>5. k # "string" /\ k # "array" /\ k # "map"
  OBVIOUS
<1>6. CASE kind = "text"
  <2>1. x = Text(r, c)
    BY <1>4, <1>6, ReadingOfText, Zenon DEF x
  <2>2. \E b, e : Got(x, <<"string", b>>, e)
    BY <1>1, <2>1, TextIs, Zenon
  <2>. QED
    BY <1>5, <2>2, GotOnlyOnce, Zenon DEF x
<1>7. ASSUME NEW l \in {"array", "map"}, NEW got, x = Wrapped(l, got)
      PROVE  FALSE
  <2>1. Got(x, <<l, got[1]>>, got[2])
    BY <1>1, <1>7, Zenon DEF Wrapped, Got
  <2>2. l = k
    <3> DEFINE a == got[1]
               e == got[2]
    <3>1. Got(x, <<l, a>>, e) /\ Got(x, <<k, w>>, q)
      BY <2>1 DEF x
    <3> HIDE DEF a, e
    <3>. QED
      BY <3>1, GotOnlyOnce, Zenon
  <2>. QED
    BY <1>5, <2>2
<1>8. kind # "array"
  <2>1. SUFFICES ASSUME Shows(s, "array", c, r)
                 PROVE  FALSE
    BY <1>4, Zenon
  <2>2. x = Wrapped("array", Items(inner, r, c))
    BY <2>1, ReadingOfArray, Zenon DEF x
  <2>3. "array" \in {"array", "map"}
    OBVIOUS
  <2>. QED
    BY <1>7, <2>2, <2>3, Zenon
<1>9. kind # "map"
  <2>1. SUFFICES ASSUME Shows(s, "map", c, r)
                 PROVE  FALSE
    BY <1>4, Zenon
  <2>2. x = Wrapped("map", Pairs(inner, r, c))
    BY <2>1, ReadingOfMap, Zenon DEF x
  <2>3. "map" \in {"array", "map"}
    OBVIOUS
  <2>. QED
    BY <1>7, <2>2, <2>3, Zenon
<1>10. CASE kind \notin {"text", "array", "map"}
  <2>1. Got(x, <<kind, c>>, r)
    BY <1>4, <1>10, ReadingOfOther, Zenon DEF x
  <2>2. kind = k /\ c = w
    BY <2>1, GotOnlyOnce, Zenon DEF x
  <2>. QED
    BY <1>4, <2>2, Zenon DEF Shows
<1>. QED
  BY <1>6, <1>8, <1>9, <1>10

----------------------------------------------------------------------------
\* Recursion on the naturals, and what the encoder and the reader do with it.
LOCAL INSTANCE WellFoundedInduction

\* Induction over the natural numbers, for a set instead of a predicate.
LEMMA Induction ==
  ASSUME NEW T, 0 \in T, \A n \in Nat : n \in T => n + 1 \in T
  PROVE  Nat \subseteq T
<1> DEFINE Rest == Nat \ T
           Less == OpToRel(<, Nat)
<1> SUFFICES ASSUME Rest # {}
             PROVE  FALSE
  OBVIOUS
<1>1. \A m, n \in Nat : m < n => <<m, n>> \in Less
  BY Zenon DEF OpToRel
<1>2. PICK x \in Rest : \A y \in Rest : <<y, x>> \notin Less
  <2>1. IsWellFoundedOn(Less, Nat) /\ Rest \subseteq Nat
    BY NatLessThanWellFounded, Zenon
  <2> HIDE DEF Rest, Less
  <2>. QED
    BY <2>1, WFMin, Zenon
<1> HIDE DEF Less
<1>3. x \in Nat /\ x - 1 \in Nat /\ x - 1 < x
  OBVIOUS
<1>4. x - 1 \in T
  BY <1>1, <1>2, <1>3, Zenon
<1>5. (x - 1) + 1 \in T
  BY <1>3, <1>4
<1>. QED
  BY <1>3, <1>5

\* There is a function for every recursion: what the loops of msgpack.go compute exists.
LEMMA Exists ==
  ASSUME NEW p
  PROVE  \E f : Follows(p, f)
<1> DEFINE To(n, g) == g = [i \in 0 .. n |-> IF i = 0 THEN Start(p) ELSE Step(p, i, g[i - 1])]
           Some == {n \in Nat : \E g : To(n, g)}
           Same == {i \in Nat : \A m, n \in Nat : \A g, k : To(m, g) /\ To(n, k) /\ i <= m /\ i <= n => g[i] = k[i]}
           Pick(n) == CHOOSE g : To(n, g)
           f == [n \in Nat |-> Pick(n)[n]]
<1>0. \A n \in Nat : \A g : To(n, g) => g[0] = Start(p) /\ \A i \in 1 .. n : g[i] = Step(p, i, g[i - 1])
  <2> SUFFICES ASSUME NEW n \in Nat, NEW g, To(n, g)
               PROVE  g[0] = Start(p) /\ \A i \in 1 .. n : g[i] = Step(p, i, g[i - 1])
    OBVIOUS
  <2>1. \A i \in 0 .. n : g[i] = IF i = 0 THEN Start(p) ELSE Step(p, i, g[i - 1])
    BY Zenon
  <2> HIDE DEF To
  <2>2. 0 \in 0 .. n /\ \A i \in 1 .. n : i \in 0 .. n /\ i # 0
    OBVIOUS
  <2>. QED
    BY <2>1, <2>2
<1>1. Nat \subseteq Some
  <2>1. 0 \in Some
    <3> DEFINE g == [i \in 0 .. 0 |-> Start(p)]
    <3>1. \A i \in 0 .. 0 : i = 0
      OBVIOUS
    <3>2. g = [i \in 0 .. 0 |-> IF i = 0 THEN Start(p) ELSE Step(p, i, g[i - 1])]
      BY <3>1, Zenon
    <3>. QED
      BY <3>2, Zenon
  <2>2. ASSUME NEW n \in Nat, n \in Some
        PROVE  n + 1 \in Some
    <3>1. PICK g : To(n, g)
      BY <2>2
    <3> DEFINE k == [i \in 0 .. n + 1 |-> IF i <= n THEN g[i] ELSE Step(p, n + 1, g[n])]
    <3>2. g[0] = Start(p) /\ \A i \in 1 .. n : g[i] = Step(p, i, g[i - 1])
      BY <1>0, <3>1
    <3> HIDE DEF To
    <3>3. ASSUME NEW i \in 0 .. n + 1
          PROVE  k[i] = IF i = 0 THEN Start(p) ELSE Step(p, i, k[i - 1])
      <4>1. CASE i = 0
        BY <3>2, <4>1
      <4>2. CASE i \in 1 .. n
        <5>1. k[i] = g[i] /\ k[i - 1] = g[i - 1] /\ i # 0
          BY <4>2
        <5>. QED
          BY <3>2, <4>2, <5>1
      <4>3. CASE i = n + 1
        <5>1. k[i] = Step(p, n + 1, g[n]) /\ k[i - 1] = g[n] /\ i # 0
          BY <4>3
        <5>. QED
          BY <4>3, <5>1
      <4>. QED
        BY <4>1, <4>2, <4>3
    <3>4. k = [i \in 0 .. n + 1 |-> k[i]]
      OBVIOUS
    <3> HIDE DEF k
    <3>5. To(n + 1, k)
      BY <3>3, <3>4, Zenon DEF To
    <3>6. n + 1 \in Nat
      OBVIOUS
    <3>. QED
      BY <3>5, <3>6
  <2> HIDE DEF Some
  <2>. QED
    BY <2>1, <2>2, Induction
<1>2. Nat \subseteq Same
  <2> HIDE DEF To
  <2>1. 0 \in Same
    BY <1>0
  <2>2. ASSUME NEW i \in Nat, i \in Same
        PROVE  i + 1 \in Same
    <3> SUFFICES ASSUME NEW m \in Nat, NEW n \in Nat, NEW g, NEW k, To(m, g), To(n, k),
                        i + 1 <= m, i + 1 <= n
                 PROVE  g[i + 1] = k[i + 1]
      OBVIOUS
    <3>1. g[i] = k[i]
      BY <2>2
    <3>2. i + 1 \in 1 .. m /\ i + 1 \in 1 .. n /\ (i + 1) - 1 = i
      OBVIOUS
    <3>3. g[i + 1] = Step(p, i + 1, g[i]) /\ k[i + 1] = Step(p, i + 1, k[i])
      BY <1>0, <3>2
    <3>. QED
      BY <3>1, <3>3
  <2> HIDE DEF Same
  <2>. QED
    BY <2>1, <2>2, Induction
<1>3. \A n \in Nat : To(n, Pick(n))
  BY <1>1, Zenon
<1> HIDE DEF To, Pick
<1>4. ASSUME NEW n \in Nat
      PROVE  f[n] = IF n = 0 THEN Start(p) ELSE Step(p, n, f[n - 1])
  <2>1. CASE n = 0
    BY <1>0, <1>3, <2>1
  <2>2. CASE n # 0
    <3>1. n - 1 \in Nat /\ n - 1 <= n /\ n \in 1 .. n
      BY <2>2
    <3>2. Pick(n)[n - 1] = Pick(n - 1)[n - 1]
      BY <1>2, <1>3, <3>1
    <3>3. Pick(n)[n] = Step(p, n, Pick(n)[n - 1])
      BY <1>0, <1>3, <3>1
    <3>. QED
      BY <2>2, <3>1, <3>2, <3>3, SMTT(30)
  <2>. QED
    BY <2>1, <2>2
<1>5. f = [n \in Nat |-> f[n]]
  OBVIOUS
<1> HIDE DEF f
<1>6. Follows(p, f)
  BY <1>4, <1>5, Zenon DEF Follows
<1>. QED
  BY <1>6

\* f[k] joins the first k sequences.
Joins(f, es, S) ==
  /\ f[0] = <<>> /\ \A k \in 0 .. Len(es) : f[k] \in Seq(S)
  /\ \A k \in Nat : k < Len(es) => f[k + 1] = f[k] \o es[k + 1]

\* Concat joins one sequence after the other.
LEMMA ConcatInSteps ==
  ASSUME NEW S, NEW es \in Seq(Seq(S))
  PROVE  \E f : Joins(f, es, S) /\ Concat(es) = f[Len(es)]
<1> DEFINE N == Len(es)
           p == <<"joined", es>>
           f == CHOOSE joined : joined = [k \in Nat |-> IF k = 0 THEN <<>> ELSE joined[k - 1] \o es[k]]
<1>1. N \in Nat /\ \A n \in 1 .. N : es[n] \in Seq(S)
  OBVIOUS
<1>0. Start(p) = <<>> /\ \A n, x : Step(p, n, x) = x \o es[n]
  <2>1. p[1] = "joined" /\ p[2] = es
    OBVIOUS
  <2> HIDE DEF p
  <2>. QED
    BY <2>1, Zenon DEF Start, Step
<1> HIDE DEF p
<1>2. Follows(p, f)
  <2>1. PICK g : Follows(p, g)
    BY Exists
  <2>2. g = [k \in Nat |-> IF k = 0 THEN <<>> ELSE g[k - 1] \o es[k]]
    BY <1>0, <2>1, Zenon DEF Follows
  <2>3. f = [k \in Nat |-> IF k = 0 THEN <<>> ELSE f[k - 1] \o es[k]]
    BY <2>2, Zenon
  <2> HIDE DEF f
  <2>. QED
    BY <1>0, <2>3, Zenon DEF Follows
<1>6. Concat(es) = f[N]
  BY Zenon DEF Concat
<1> HIDE DEF f
<1>3. f[0] = <<>> /\ \A n \in Nat : f[n + 1] = f[n] \o es[n + 1]
  <2>1. f[0] = Start(p) /\ \A n \in Nat : f[n + 1] = Step(p, n + 1, f[n])
    BY <1>2, Unfolds, Zenon
  <2>. QED
    BY <1>0, <2>1, Zenon
<1>4. \A k \in 0 .. N : f[k] \in Seq(S)
  <2> DEFINE D == Seq(S)
             T == {n \in Nat : n <= N => f[n] \in D}
  <2>0. <<>> \in D /\ (\A n \in 1 .. N : es[n] \in D) /\ \A a, b \in D : a \o b \in D
    BY <1>1, OneAfterOther
  <2> HIDE DEF D, N
  <2>1. 0 \in T
    BY <1>3, <2>0
  <2>2. ASSUME NEW n \in Nat, n \in T
        PROVE  n + 1 \in T
    <3> SUFFICES ASSUME n + 1 <= N
                 PROVE  f[n + 1] \in D
      OBVIOUS
    <3>1. n + 1 \in 1 .. N /\ n <= N
      BY <1>1
    <3>2. es[n + 1] \in D /\ f[n] \in D /\ f[n + 1] = f[n] \o es[n + 1]
      BY <1>3, <2>0, <2>2, <3>1, Zenon
    <3>. QED
      BY <2>0, <3>2
  <2>3. Nat \subseteq T
    <3> HIDE DEF T
    <3>. QED
      BY <2>1, <2>2, Induction, Zenon
  <2>. QED
    BY <1>1, <2>3 DEF D
<1>5. Joins(f, es, S)
  BY <1>3, <1>4, Zenon DEF Joins
<1>. QED
  BY <1>5, <1>6

\* t[k] joins the sequences after the first k.
Leaves(t, es, S) ==
  /\ t[0] = Concat(es) /\ t[Len(es)] = <<>>
  /\ \A k \in 0 .. Len(es) : t[k] \in Seq(S)
  /\ \A k \in Nat : k < Len(es) => t[k] = es[k + 1] \o t[k + 1]

\* Concat taken apart from the front, as the reader meets it.
LEMMA ConcatFromFront ==
  ASSUME NEW S, NEW es \in Seq(Seq(S))
  PROVE  \E t : Leaves(t, es, S)
<1> DEFINE N == Len(es)
<1>1. N \in Nat /\ \A n \in 1 .. N : es[n] \in Seq(S)
  OBVIOUS
<1> DEFINE p == <<"left", es>>
<1>0. Start(p) = <<>> /\ \A n, x : Step(p, n, x) = es[Len(es) - n + 1] \o x
  <2>1. p[1] = "left" /\ p[2] = es
    OBVIOUS
  <2> HIDE DEF p
  <2>. QED
    BY <2>1, Zenon DEF Start, Step
<1> HIDE DEF p
<1>2. PICK g : Follows(p, g)
  BY Exists
<1>3. g[0] = <<>> /\ \A n \in Nat : g[n + 1] = es[N - (n + 1) + 1] \o g[n]
  <2>1. g[0] = Start(p) /\ \A n \in Nat : g[n + 1] = Step(p, n + 1, g[n])
    BY <1>2, Unfolds, Zenon
  <2>. QED
    BY <1>0, <2>1, Zenon
<1>4. PICK f : Joins(f, es, S) /\ Concat(es) = f[N]
  BY ConcatInSteps
<1>5. /\ f[0] = <<>> /\ \A k \in 0 .. N : f[k] \in Seq(S)
      /\ \A k \in Nat : k < N => f[k + 1] = f[k] \o es[k + 1]
  BY <1>4, Zenon DEF Joins
<1> DEFINE t == [k \in 0 .. N |-> g[N - k]]
<1>6. \A k \in 0 .. N : g[k] \in Seq(S)
  <2> DEFINE D == Seq(S)
             T == {n \in Nat : n <= N => g[n] \in D}
  <2>0. <<>> \in D /\ (\A n \in 1 .. N : es[n] \in D) /\ \A a, b \in D : a \o b \in D
    BY <1>1, OneAfterOther
  <2> HIDE DEF D, N
  <2>1. 0 \in T
    BY <1>3, <2>0
  <2>2. ASSUME NEW n \in Nat, n \in T
        PROVE  n + 1 \in T
    <3> SUFFICES ASSUME n + 1 <= N
                 PROVE  g[n + 1] \in D
      OBVIOUS
    <3>1. N - (n + 1) + 1 \in 1 .. N /\ n <= N
      BY <1>1
    <3>2. es[N - (n + 1) + 1] \in D /\ g[n] \in D /\ g[n + 1] = es[N - (n + 1) + 1] \o g[n]
      BY <1>3, <2>0, <2>2, <3>1, Zenon
    <3>. QED
      BY <2>0, <3>2
  <2>3. Nat \subseteq T
    <3> HIDE DEF T
    <3>. QED
      BY <2>1, <2>2, Induction, Zenon
  <2>. QED
    BY <1>1, <2>3 DEF D
<1>7. \A k \in 0 .. N : t[k] \in Seq(S)
  BY <1>1, <1>6
<1>8. ASSUME NEW k \in Nat, k < N
      PROVE  t[k] = es[k + 1] \o t[k + 1]
  <2>1. N - k - 1 \in Nat /\ (N - k - 1) + 1 = N - k /\ N - ((N - k - 1) + 1) + 1 = k + 1
        /\ N - (k + 1) = N - k - 1 /\ k \in 0 .. N /\ k + 1 \in 0 .. N
    BY <1>1, <1>8
  <2>2. t[k] = g[N - k] /\ t[k + 1] = g[N - k - 1]
    BY <2>1
  <2>3. g[N - k] = es[k + 1] \o g[N - k - 1]
    BY <1>3, <2>1, Zenon
  <2>. QED
    BY <2>2, <2>3, Zenon
<1>9. t[N] = <<>>
  BY <1>1, <1>3
<1> HIDE DEF t
<1> DEFINE Whole(k) == f[k] \o t[k] = t[0]
           T == {k \in Nat : k <= N => Whole(k)}
<1>10. Whole(0)
  <2>1. t[0] \in Seq(S)
    BY <1>1, <1>7
  <2>. QED
    BY <1>5, <2>1, NothingAdded
<1>11. ASSUME NEW k \in Nat, k + 1 <= N, Whole(k)
       PROVE  Whole(k + 1)
  <2>0. k \in 0 .. N /\ k + 1 \in 0 .. N /\ k + 1 \in 1 .. N /\ k < N
    BY <1>1, <1>11
  <2>1. /\ f[k] \in Seq(S) /\ es[k + 1] \in Seq(S) /\ t[k + 1] \in Seq(S)
        /\ f[k + 1] = f[k] \o es[k + 1] /\ t[k] = es[k + 1] \o t[k + 1]
    BY <1>1, <1>5, <1>7, <1>8, <2>0, Zenon
  <2> DEFINE a == f[k]
             b == es[k + 1]
             c == t[k + 1]
  <2>2. (a \o b) \o c = a \o (b \o c)
    <3> HIDE DEF a, b, c
    <3>1. a \in Seq(S) /\ b \in Seq(S) /\ c \in Seq(S)
      BY <2>1 DEF a, b, c
    <3>. QED
      BY <3>1, ThreeInARow, SMTT(30)
  <2>. QED
    BY <1>11, <2>1, <2>2, Zenon
<1>12. Nat \subseteq T
  <2> HIDE DEF Whole, N
  <2>1. 0 \in T
    BY <1>10
  <2>2. ASSUME NEW k \in Nat, k \in T
        PROVE  k + 1 \in T
    BY <1>1, <1>11, <2>2
  <2> HIDE DEF T
  <2>. QED
    BY <2>1, <2>2, Induction
<1>13. f[N] \o t[N] = t[0]
  <2>1. Whole(N)
    <3> HIDE DEF Whole
    <3>. QED
      BY <1>1, <1>12
  <2>. QED
    BY <2>1
<1>14. f[N] \o <<>> = f[N]
  <2>1. f[N] \in Seq(S)
    BY <1>1, <1>5
  <2>. QED
    BY <2>1, NothingAdded
<1>15. t[0] = Concat(es)
  BY <1>4, <1>9, <1>13, <1>14, SMTT(30)
<1>16. Leaves(t, es, S)
  BY <1>7, <1>8, <1>9, <1>15, Zenon DEF Leaves
<1>. QED
  BY <1>16

\* The numbers of a, of which there are n, rise.
Rises(a, n) == \A i, j \in 1 .. n : i < j => a[i] < a[j]

\* The n numbers of a are among the k numbers of b.
Among(a, n, b, k) == \A i \in 1 .. n : a[i] \in Int /\ \E j \in 1 .. k : a[i] = b[j]

\* They are the same, one by one.
Alike(a, n, b, k) == n = k /\ \A i \in 1 .. n : a[i] = b[i]

\* Two increasing sequences with the same elements are equal.
LEMMA SameOrder ==
  ASSUME NEW n \in Nat, NEW k \in Nat, NEW a, NEW b,
         Among(a, n, b, k), Among(b, k, a, n), Rises(a, n), Rises(b, k)
  PROVE  Alike(a, n, b, k)
<1> DEFINE Same(c) == \A i \in 1 .. c : i <= n /\ i <= k => a[i] = b[i]
           T == {c \in Nat : Same(c)}
<1>0. /\ \A i \in 1 .. n : a[i] \in Int /\ \E j \in 1 .. k : a[i] = b[j]
      /\ \A j \in 1 .. k : b[j] \in Int /\ \E i \in 1 .. n : a[i] = b[j]
  BY DEF Among
<1>1. ASSUME NEW c \in Nat, Same(c), c + 1 <= n, c + 1 <= k
      PROVE  a[c + 1] = b[c + 1]
  <2> DEFINE d == c + 1
  <2>0. d \in 1 .. n /\ d \in 1 .. k
    BY <1>1
  <2>1. PICK j \in 1 .. k : a[d] = b[j]
    BY <1>0, <2>0, Zenon
  <2>2. PICK i \in 1 .. n : a[i] = b[d]
    BY <1>0, <2>0, Zenon
  <2>3. j >= d
    <3> SUFFICES ASSUME j < d
                 PROVE  FALSE
      OBVIOUS
    <3>1. j \in 1 .. c /\ j <= n /\ j <= k /\ j \in 1 .. n
      BY <2>0
    <3>2. a[j] = a[d]
      BY <1>1, <2>1, <3>1, SMTT(30)
    <3>. QED
      BY <1>0, <2>0, <3>1, <3>2, SMTT(30) DEF Rises
  <2>4. i >= d
    <3> SUFFICES ASSUME i < d
                 PROVE  FALSE
      OBVIOUS
    <3>1. i \in 1 .. c /\ i <= n /\ i <= k /\ i \in 1 .. k
      BY <2>0
    <3>2. b[i] = b[d]
      BY <1>1, <2>2, <3>1
    <3>. QED
      BY <1>0, <2>0, <3>1, <3>2, SMTT(30) DEF Rises
  <2>5. b[j] >= b[d]
    BY <1>0, <2>0, <2>3 DEF Rises
  <2>6. a[i] >= a[d]
    BY <1>0, <2>0, <2>4 DEF Rises
  <2>. QED
    <3>1. a[d] \in Int /\ b[d] \in Int /\ a[d] >= b[d] /\ b[d] >= a[d]
      BY <1>0, <2>0, <2>1, <2>2, <2>5, <2>6, SMTT(30)
    <3>2. \A p, q \in Int : p >= q /\ q >= p => p = q
      OBVIOUS
    <3>. QED
      BY <3>1, <3>2, Zenon
<1>2. Nat \subseteq T
  <2>1. 0 \in T
    OBVIOUS
  <2>2. ASSUME NEW c \in Nat, c \in T
        PROVE  c + 1 \in T
    <3>1. Same(c + 1)
      <4>1. Same(c)
        BY <2>2
      <4> SUFFICES ASSUME NEW i \in 1 .. c + 1, i <= n, i <= k
                   PROVE  a[i] = b[i]
        OBVIOUS
      <4>2. CASE i \in 1 .. c
        BY <4>1, <4>2
      <4>3. CASE i = c + 1
        BY <1>1, <4>1, <4>3
      <4>. QED
        BY <4>2, <4>3
    <3> HIDE DEF Same
    <3>. QED
      BY <3>1
  <2> HIDE DEF T
  <2>. QED
    BY <2>1, <2>2, Induction
<1>3. \A i \in Nat : 1 <= i /\ i <= n /\ i <= k => a[i] = b[i]
  <2>1. Same(n)
    BY <1>2
  <2>. QED
    BY <2>1
<1>4. ~(n < k)
  <2> SUFFICES ASSUME n < k
               PROVE  FALSE
    OBVIOUS
  <2>1. k \in 1 .. k
    OBVIOUS
  <2>2. PICK i \in 1 .. n : a[i] = b[k]
    BY <1>0, <2>1, Zenon
  <2>3. i \in 1 .. k /\ i < k /\ a[i] = b[i]
    BY <1>3
  <2>4. b[i] < b[k] /\ b[k] \in Int
    BY <1>0, <2>1, <2>3, Zenon DEF Rises
  <2>5. ~(b[k] < b[k])
    BY <2>4
  <2>. QED
    BY <2>2, <2>3, <2>4, <2>5, Zenon
<1>5. ~(k < n)
  <2> SUFFICES ASSUME k < n
               PROVE  FALSE
    OBVIOUS
  <2>1. n \in 1 .. n
    OBVIOUS
  <2>2. PICK j \in 1 .. k : a[n] = b[j]
    BY <1>0, <2>1, Zenon
  <2>3. j \in 1 .. n /\ j < n /\ a[j] = b[j]
    BY <1>3
  <2>4. a[j] < a[n] /\ a[n] \in Int
    BY <1>0, <2>1, <2>3, Zenon DEF Rises
  <2>5. ~(a[n] < a[n])
    BY <2>4
  <2>. QED
    BY <2>2, <2>3, <2>4, <2>5, Zenon
<1>6. n = k /\ \A i \in 1 .. n : a[i] = b[i]
  BY <1>3, <1>4, <1>5
<1>. QED
  BY <1>6, Zenon DEF Alike

\* Row by row, t and u have the same keys, and values that mean the same.
SameMeanings(t, n, u, k, m) ==
  n = k /\ \A i \in 1 .. n : t[i][1] = u[i][1] /\ m[t[i][2]] = m[u[i][2]]

\* Sorted, they have the same rows in the same order.
LEMMA SameRows ==
  ASSUME NEW S, NEW t, NEW v, NEW n, InRows(t, v, n, S), NEW u, NEW w, NEW k, InRows(u, w, k, S),
         NEW m, Rowwise(t, n, u, k, m), Rowwise(u, k, t, n, m)
  PROVE  SameMeanings(t, n, u, k, m)
<1> DEFINE a == [i \in 1 .. n |-> t[i][1]]
           b == [i \in 1 .. k |-> u[i][1]]
<1>1. (\A i \in 1 .. n : a[i] = t[i][1]) /\ \A i \in 1 .. k : b[i] = u[i][1]
  BY Zenon
<1> HIDE DEF a, b
<1>2. n \in Nat /\ k \in Nat /\ Rises(a, n) /\ Rises(b, k)
  BY <1>1, ZenonT(30) DEF InRows, Rises
<1>3. Among(a, n, b, k)
  <2> SUFFICES ASSUME NEW i \in 1 .. n
               PROVE  a[i] \in Int /\ \E j \in 1 .. k : a[i] = b[j]
    BY Zenon DEF Among
  <2>1. PICK j \in 1 .. k : t[i][1] = u[j][1]
    BY Zenon DEF Rowwise
  <2>. QED
    <3>1. t[i][1] \in Int
      BY Zenon DEF InRows
    <3>. QED
      BY <1>1, <2>1, <3>1, Zenon
<1>4. Among(b, k, a, n)
  <2> SUFFICES ASSUME NEW i \in 1 .. k
               PROVE  b[i] \in Int /\ \E j \in 1 .. n : b[i] = a[j]
    BY Zenon DEF Among
  <2>1. PICK j \in 1 .. n : u[i][1] = t[j][1]
    BY Zenon DEF Rowwise
  <2>. QED
    <3>1. u[i][1] \in Int
      BY Zenon DEF InRows
    <3>. QED
      BY <1>1, <2>1, <3>1, Zenon
<1>5. n = k /\ \A i \in 1 .. n : a[i] = b[i]
  <2>1. Alike(a, n, b, k)
    BY <1>2, <1>3, <1>4, SameOrder, Zenon
  <2>. QED
    BY <2>1, Zenon DEF Alike
<1>6. ASSUME NEW i \in 1 .. n
      PROVE  t[i][1] = u[i][1] /\ m[t[i][2]] = m[u[i][2]]
  <2>1. t[i][1] = u[i][1]
    <3>1. i \in 1 .. k /\ a[i] = b[i]
      BY <1>5, Zenon
    <3>. QED
      BY <1>1, <3>1, Zenon
  <2>2. PICK j \in 1 .. k : t[i][1] = u[j][1] /\ m[t[i][2]] = m[u[j][2]]
    BY Zenon DEF Rowwise
  <2>3. b[i] = b[j] /\ i \in 1 .. k
    BY <1>1, <1>5, <2>1, <2>2, Zenon
  <2>4. i = j
    <3>1. b[i] \in Int /\ ~(b[i] < b[j]) /\ ~(b[j] < b[i])
      <4>1. b[i] \in Int
        BY <1>4, <2>3, Zenon DEF Among
      <4>. QED
        BY <2>3, <4>1
    <3>2. ~(i < j) /\ ~(j < i)
      BY <1>2, <2>3, <3>1, Zenon DEF Rises
    <3>. QED
      BY <1>2, <3>2
  <2>. QED
    BY <2>1, <2>2, <2>4, Zenon
<1>. QED
  BY <1>5, <1>6, Zenon DEF SameMeanings

\* got[k] is what the loop has after k items.
GotItems(got, inner, s) ==
  /\ got[0] = <<<<>>, s>> /\ \A k \in Nat : got[k + 1] = NextItem(inner, got[k])
  /\ \A n : Items(inner, s, n) = got[n]

\* Items reads one element after the other.
LEMMA ItemsInSteps ==
  ASSUME NEW inner, NEW s
  PROVE  \E got : GotItems(got, inner, s)
<1> DEFINE p == <<"items", inner, s>>
           got == CHOOSE got : got = [k \in Nat |-> IF k = 0 THEN <<<<>>, s>> ELSE NextItem(inner, got[k - 1])]
<1>1. Start(p) = <<<<>>, s>> /\ \A n, x : Step(p, n, x) = NextItem(inner, x)
  <2>1. p[1] = "items" /\ p[2] = inner /\ p[3] = s
    OBVIOUS
  <2> HIDE DEF p
  <2>. QED
    BY <2>1, Zenon DEF Start, Step
<1> HIDE DEF p
<1>2. PICK f : Follows(p, f)
  BY Exists
<1>3. f = [k \in Nat |-> IF k = 0 THEN <<<<>>, s>> ELSE NextItem(inner, f[k - 1])]
  BY <1>1, <1>2, Zenon DEF Follows
<1>4. got = [k \in Nat |-> IF k = 0 THEN <<<<>>, s>> ELSE NextItem(inner, got[k - 1])]
  BY <1>3, Zenon
<1>5. \A n : Items(inner, s, n) = got[n]
  BY Zenon DEF Items
<1> HIDE DEF got
<1>6. Follows(p, got)
  BY <1>1, <1>4, Zenon DEF Follows
<1>7. got[0] = <<<<>>, s>> /\ \A k \in Nat : got[k + 1] = NextItem(inner, got[k])
  <2>1. got[0] = Start(p) /\ \A n \in Nat : got[n + 1] = Step(p, n + 1, got[n])
    BY <1>6, Unfolds, Zenon
  <2>. QED
    BY <1>1, <2>1, Zenon
<1>. QED
  BY <1>5, <1>7 DEF GotItems

\* inner reads each of the n sequences as what ms says.
AllRead(inner, es, ms, n) == \A k \in 1 .. n : \A r \in Seq(Int) : inner[es[k] \o r] = <<ms[k], r>>

\* The loop reads s as the n values of ms, and leaves r.
ItemsGot(inner, s, n, ms, r) == Items(inner, s, n) = <<[j \in 1 .. n |-> ms[j]], r>>

\* The elements of an array are read, one after the other, and what follows is left.
LEMMA ItemsRead ==
  ASSUME NEW inner, NEW n \in Nat, NEW es \in Seq(Seq(Int)), Len(es) = n, NEW ms,
         AllRead(inner, es, ms, n), NEW r \in Seq(Int)
  PROVE  ItemsGot(inner, Concat(es) \o r, n, ms, r)
<1>1. PICK t : Leaves(t, es, Int)
  BY ConcatFromFront
<1>2. /\ t[0] = Concat(es) /\ t[n] = <<>> /\ \A k \in 0 .. n : t[k] \in Seq(Int)
      /\ \A k \in Nat : k < n => t[k] = es[k + 1] \o t[k + 1]
  BY <1>1, Zenon DEF Leaves
<1> DEFINE s == Concat(es) \o r
<1>3. PICK got : GotItems(got, inner, s)
  BY ItemsInSteps, Zenon
<1> DEFINE first(k) == [j \in 1 .. k |-> ms[j]]
           Whole(k) == got[k] = <<first(k), t[k] \o r>>
           T == {k \in Nat : k <= n => Whole(k)}
<1>4. Whole(0)
  <2>1. first(0) = <<>>
    OBVIOUS
  <2> HIDE DEF first
  <2>. QED
    BY <1>2, <1>3, <2>1, Zenon DEF GotItems
<1>5. ASSUME NEW k \in Nat, k + 1 <= n, Whole(k)
      PROVE  Whole(k + 1)
  <2> DEFINE a == es[k + 1]
             b == t[k + 1]
  <2>1. k + 1 \in 1 .. n /\ k + 1 \in 0 .. n /\ k < n
    BY <1>5
  <2>2. a \in Seq(Int) /\ b \in Seq(Int) /\ t[k] = a \o b
    <3>1. a \in Seq(Int)
      BY <2>1
    <3>. QED
      BY <1>2, <2>1, <3>1, Zenon
  <2>3. \A u \in Seq(Int) : inner[a \o u] = <<ms[k + 1], u>>
    BY <2>1, Zenon DEF AllRead
  <2> HIDE DEF a, b
  <2>4. t[k] \o r = a \o (b \o r) /\ b \o r \in Seq(Int)
    <3>1. a \in Seq(Int) /\ b \in Seq(Int) /\ r \in Seq(Int)
      BY <2>2
    <3>2. (a \o b) \o r = a \o (b \o r) /\ b \o r \in Seq(Int)
      BY <3>1, Shifted, ZenonT(30)
    <3>. QED
      BY <2>2, <3>2, Zenon
  <2>5. inner[t[k] \o r] = <<ms[k + 1], b \o r>>
    BY <2>3, <2>4, Zenon
  <2>6. got[k + 1] = NextItem(inner, got[k])
    BY <1>3, Zenon DEF GotItems
  <2> DEFINE f == first(k)
             m == ms[k + 1]
             g == got[k]
             x == t[k] \o r
             y == b \o r
  <2>7. Got(g, f, x) /\ Got(inner[x], m, y)
    BY <1>5, <2>5 DEF Got
  <2>8. Append(f, m) = first(k + 1)
    BY OneMore
  <2> HIDE DEF f, m, g, x, y
  <2>9. Got(NextItem(inner, g), Append(f, m), y)
    BY <2>7, OneItemRead, Zenon
  <2>. QED
    BY <2>6, <2>8, <2>9, Zenon DEF g, y, b, Got
<1>6. Nat \subseteq T
  <2> HIDE DEF Whole
  <2>1. 0 \in T
    BY <1>4
  <2>2. ASSUME NEW k \in Nat, k \in T
        PROVE  k + 1 \in T
    BY <1>5, <2>2
  <2> HIDE DEF T
  <2>. QED
    BY <2>1, <2>2, Induction, Zenon
<1>7. Whole(n)
  <2> HIDE DEF Whole
  <2>. QED
    BY <1>6
<1>8. <<>> \o r = r
  OBVIOUS
<1>9. Items(inner, s, n) = got[n]
  BY <1>3, Zenon DEF GotItems
<1>. QED
  BY <1>2, <1>7, <1>8, <1>9, SMTT(30) DEF ItemsGot

\* got[k] is what the loop has after k pairs.
GotPairs(got, inner, s) ==
  /\ got[0] = <<{}, s>> /\ \A k \in Nat : got[k + 1] = NextPair(inner, got[k])
  /\ \A n : Pairs(inner, s, n) = got[n]

\* Pairs reads one pair after the other.
LEMMA PairsInSteps ==
  ASSUME NEW inner, NEW s
  PROVE  \E got : GotPairs(got, inner, s)
<1> DEFINE p == <<"pairs", inner, s>>
           got == CHOOSE got : got = [k \in Nat |-> IF k = 0 THEN <<{}, s>> ELSE NextPair(inner, got[k - 1])]
<1>1. Start(p) = <<{}, s>> /\ \A n, x : Step(p, n, x) = NextPair(inner, x)
  <2>1. p[1] = "pairs" /\ p[2] = inner /\ p[3] = s
    OBVIOUS
  <2> HIDE DEF p
  <2>. QED
    BY <2>1, Zenon DEF Start, Step
<1> HIDE DEF p
<1>2. PICK f : Follows(p, f)
  BY Exists
<1>3. f = [k \in Nat |-> IF k = 0 THEN <<{}, s>> ELSE NextPair(inner, f[k - 1])]
  BY <1>1, <1>2, Zenon DEF Follows
<1>4. got = [k \in Nat |-> IF k = 0 THEN <<{}, s>> ELSE NextPair(inner, got[k - 1])]
  BY <1>3, Zenon
<1>5. \A n : Pairs(inner, s, n) = got[n]
  BY Zenon DEF Pairs
<1> HIDE DEF got
<1>6. Follows(p, got)
  BY <1>1, <1>4, Zenon DEF Follows
<1>7. got[0] = <<{}, s>> /\ \A k \in Nat : got[k + 1] = NextPair(inner, got[k])
  <2>1. got[0] = Start(p) /\ \A n \in Nat : got[n + 1] = Step(p, n + 1, got[n])
    BY <1>6, Unfolds, Zenon
  <2>. QED
    BY <1>1, <2>1, ZenonT(30)
<1>. QED
  BY <1>5, <1>7 DEF GotPairs

\* inner reads each of the n sequences as a key and a value.
AllPairsRead(inner, es, ks, ms, n) ==
  \A k \in 1 .. n : \A r \in Seq(Int) : PairRead(inner, es[k] \o r, ks[k], ms[k], r)

\* m has the n keys and values.
PairsOf(m, ks, ms, n) == m = {<<ks[j], ms[j]>> : j \in 1 .. n}

\* The loop reads s as n pairs, and leaves r.
PairsGot(inner, s, n, ks, ms, r) == Pairs(inner, s, n) = <<{<<ks[j], ms[j]>> : j \in 1 .. n}, r>>

\* The pairs of a map are read, one after the other, and what follows is left.
LEMMA PairsRead ==
  ASSUME NEW inner, NEW n \in Nat, NEW es \in Seq(Seq(Int)), Len(es) = n, NEW ks, NEW ms,
         AllPairsRead(inner, es, ks, ms, n), NEW r \in Seq(Int)
  PROVE  PairsGot(inner, Concat(es) \o r, n, ks, ms, r)
<1>1. PICK t : Leaves(t, es, Int)
  BY ConcatFromFront
<1>2. /\ t[0] = Concat(es) /\ t[n] = <<>> /\ \A k \in 0 .. n : t[k] \in Seq(Int)
      /\ \A k \in Nat : k < n => t[k] = es[k + 1] \o t[k + 1]
  BY <1>1, Zenon DEF Leaves
<1> DEFINE s == Concat(es) \o r
<1>3. PICK got : GotPairs(got, inner, s)
  BY PairsInSteps, Zenon
<1> DEFINE first(k) == {<<ks[j], ms[j]>> : j \in 1 .. k}
           Whole(k) == got[k] = <<first(k), t[k] \o r>>
           T == {k \in Nat : k <= n => Whole(k)}
<1>4. Whole(0)
  <2>1. first(0) = {}
    OBVIOUS
  <2> HIDE DEF first
  <2>. QED
    BY <1>2, <1>3, <2>1, Zenon DEF GotPairs
<1>5. ASSUME NEW k \in Nat, k + 1 <= n, Whole(k)
      PROVE  Whole(k + 1)
  <2> DEFINE a == es[k + 1]
             b == t[k + 1]
             key == ks[k + 1]
             m == ms[k + 1]
  <2>1. k + 1 \in 1 .. n /\ k + 1 \in 0 .. n /\ k < n
    BY <1>5
  <2>2. a \in Seq(Int) /\ b \in Seq(Int) /\ t[k] = a \o b
    <3>1. a \in Seq(Int)
      BY <2>1
    <3>. QED
      BY <1>2, <2>1, <3>1, Zenon
  <2>3. \A u \in Seq(Int) : PairRead(inner, a \o u, key, m, u)
    BY <2>1, Zenon DEF AllPairsRead
  <2>7. first(k + 1) = first(k) \cup {<<key, m>>}
    <3>1. \A j \in 1 .. k + 1 : j \in 1 .. k \/ j = k + 1
      OBVIOUS
    <3>2. \A j \in 1 .. k : j \in 1 .. k + 1
      OBVIOUS
    <3>3. k + 1 \in 1 .. k + 1
      OBVIOUS
    <3>4. first(k + 1) \subseteq first(k) \cup {<<key, m>>}
      BY <3>1, Zenon
    <3>5. first(k) \cup {<<key, m>>} \subseteq first(k + 1)
      BY <3>2, <3>3, Zenon
    <3>. QED
      BY <3>4, <3>5, Zenon
  <2> HIDE DEF a, b, key, m
  <2>4. t[k] \o r = a \o (b \o r) /\ b \o r \in Seq(Int)
    <3>1. a \in Seq(Int) /\ b \in Seq(Int) /\ r \in Seq(Int)
      BY <2>2
    <3>2. (a \o b) \o r = a \o (b \o r) /\ b \o r \in Seq(Int)
      BY <3>1, Shifted, ZenonT(30)
    <3>. QED
      BY <2>2, <3>2, Zenon
  <2>5. PairRead(inner, t[k] \o r, key, m, b \o r)
    BY <2>3, <2>4, Zenon
  <2>6. got[k + 1] = NextPair(inner, got[k])
    BY <1>3, Zenon DEF GotPairs
  <2> DEFINE f == first(k)
             g == got[k]
             x == t[k] \o r
             y == b \o r
  <2>8. Got(g, f, x) /\ PairRead(inner, x, key, m, y)
    BY <1>5, <2>5 DEF Got
  <2> HIDE DEF f, g, x, y
  <2>9. Got(NextPair(inner, g), f \cup {<<key, m>>}, y)
    BY <2>8, OnePairRead, Zenon
  <2>. QED
    BY <2>6, <2>7, <2>9, Zenon DEF f, g, y, b, Got
<1>6. Nat \subseteq T
  <2> HIDE DEF Whole
  <2>1. 0 \in T
    BY <1>4
  <2>2. ASSUME NEW k \in Nat, k \in T
        PROVE  k + 1 \in T
    BY <1>5, <2>2
  <2> HIDE DEF T
  <2>. QED
    BY <2>1, <2>2, Induction, Zenon
<1>7. Whole(n)
  <2> HIDE DEF Whole
  <2>. QED
    BY <1>6
<1>8. <<>> \o r = r
  OBVIOUS
<1>9. Pairs(inner, s, n) = got[n]
  BY <1>3, Zenon DEF GotPairs
<1>. QED
  BY <1>2, <1>7, <1>8, <1>9, SMTT(30) DEF PairsGot

\* The values of a depth, by those of the depth below.
LEMMA ValuesUnfold ==
  Values[0] = Scalars /\ \A n \in Nat : Values[n + 1] = Scalars \cup Arrays(Values[n]) \cup Maps(Values[n])
<1> DEFINE p == <<"values">>
<1>0. Start(p) = Scalars /\ \A n, S : Step(p, n, S) = Scalars \cup Arrays(S) \cup Maps(S)
  <2>1. p[1] = "values"
    OBVIOUS
  <2> HIDE DEF p
  <2>. QED
    BY <2>1, Zenon DEF Start, Step
<1> HIDE DEF p
<1>1. PICK f : Follows(p, f)
  BY Exists
<1>2. f = [n \in Nat |-> IF n = 0 THEN Scalars ELSE Scalars \cup Arrays(f[n - 1]) \cup Maps(f[n - 1])]
  BY <1>0, <1>1, Zenon DEF Follows
<1> DEFINE e == Values
<1>3. e = [n \in Nat |-> IF n = 0 THEN Scalars ELSE Scalars \cup Arrays(e[n - 1]) \cup Maps(e[n - 1])]
  BY <1>2, Zenon DEF Values
<1> HIDE DEF e
<1>4. Follows(p, e)
  BY <1>0, <1>3, ZenonT(30) DEF Follows
<1>5. e[0] = Start(p) /\ \A n \in Nat : e[n + 1] = Step(p, n + 1, e[n])
  BY <1>4, Unfolds, Zenon
<1>. QED
  BY <1>0, <1>5, Zenon DEF e

\* The encodings of a depth, by those of the depth below.
LEMMA EncodingsUnfold ==
  /\ Encodings[0] = [x \in Values[0] |-> Encoding(x, <<>>)]
  /\ \A n \in Nat : Encodings[n + 1] = [x \in Values[n + 1] |-> Encoding(x, Encodings[n])]
<1> DEFINE p == <<"encodings">>
           First == [x \in Values[0] |-> Encoding(x, <<>>)]
           Then(n, e) == [x \in Values[n] |-> Encoding(x, e)]
           At(f, n) == [x \in Values[n] |-> Encoding(x, IF n = 0 THEN <<>> ELSE f[n - 1])]
           Steps(f, n) == IF n = 0 THEN First ELSE Then(n, f[n - 1])
<1>0. Start(p) = First /\ \A n, e : Step(p, n, e) = Then(n, e)
  <2>1. p[1] = "encodings"
    OBVIOUS
  <2> HIDE DEF p
  <2>. QED
    BY <2>1, Zenon DEF Start, Step
<1> HIDE DEF p
<1>1. ASSUME NEW f, NEW n \in Nat
      PROVE  At(f, n) = Steps(f, n)
  <2>1. CASE n = 0
    BY <2>1, Zenon
  <2>2. CASE n # 0
    BY <2>2, Zenon
  <2>. QED
    BY <2>1, <2>2, Zenon
<1>2. Encodings = CHOOSE f : f = [n \in Nat |-> At(f, n)]
  BY Zenon DEF Encodings
<1> HIDE DEF At, First, Then
<1>3. \A f : Follows(p, f) <=> f = [n \in Nat |-> Steps(f, n)]
  BY <1>0, Zenon DEF Follows
<1> HIDE DEF Steps
<1>4. \A f : [n \in Nat |-> At(f, n)] = [n \in Nat |-> Steps(f, n)]
  BY <1>1, Zenon
<1>5. PICK f : Follows(p, f)
  BY Exists
<1>6. f = [n \in Nat |-> At(f, n)]
  BY <1>3, <1>4, <1>5, Zenon
<1>7. Encodings = [n \in Nat |-> At(Encodings, n)]
  BY <1>2, <1>6, Zenon
<1> DEFINE e == Encodings
<1> HIDE DEF e
<1>8. e = [n \in Nat |-> Steps(e, n)]
  BY <1>4, <1>7, Zenon DEF e
<1>9. Follows(p, e)
  BY <1>3, <1>8, Zenon
<1>10. e[0] = Start(p) /\ \A n \in Nat : e[n + 1] = Step(p, n + 1, e[n])
  BY <1>9, Unfolds, Zenon
<1>11. e[0] = First /\ \A n \in Nat : e[n + 1] = Then(n + 1, e[n])
  BY <1>0, <1>10, Zenon
<1>. QED
  BY <1>11, Zenon DEF e, First, Then

\* The meanings of a depth, by those of the depth below.
LEMMA MeaningsUnfold ==
  /\ Meanings[0] = [x \in Values[0] |-> MeaningOf(x, <<>>)]
  /\ \A n \in Nat : Meanings[n + 1] = [x \in Values[n + 1] |-> MeaningOf(x, Meanings[n])]
<1> DEFINE p == <<"meanings">>
           First == [x \in Values[0] |-> MeaningOf(x, <<>>)]
           Then(n, e) == [x \in Values[n] |-> MeaningOf(x, e)]
           At(f, n) == [x \in Values[n] |-> MeaningOf(x, IF n = 0 THEN <<>> ELSE f[n - 1])]
           Steps(f, n) == IF n = 0 THEN First ELSE Then(n, f[n - 1])
<1>0. Start(p) = First /\ \A n, e : Step(p, n, e) = Then(n, e)
  <2>1. p[1] = "meanings"
    BY SMTT(30)
  <2> HIDE DEF p
  <2>. QED
    BY <2>1, Zenon DEF Start, Step
<1> HIDE DEF p
<1>1. ASSUME NEW f, NEW n \in Nat
      PROVE  At(f, n) = Steps(f, n)
  <2>1. CASE n = 0
    BY <2>1, Zenon
  <2>2. CASE n # 0
    BY <2>2, Zenon
  <2>. QED
    BY <2>1, <2>2, Zenon
<1>2. Meanings = CHOOSE f : f = [n \in Nat |-> At(f, n)]
  BY Zenon DEF Meanings
<1> HIDE DEF At, First, Then
<1>3. \A f : Follows(p, f) <=> f = [n \in Nat |-> Steps(f, n)]
  BY <1>0, Zenon DEF Follows
<1> HIDE DEF Steps
<1>4. \A f : [n \in Nat |-> At(f, n)] = [n \in Nat |-> Steps(f, n)]
  BY <1>1, Zenon
<1>5. PICK f : Follows(p, f)
  BY Exists
<1>6. f = [n \in Nat |-> At(f, n)]
  BY <1>3, <1>4, <1>5, Zenon
<1>7. Meanings = [n \in Nat |-> At(Meanings, n)]
  BY <1>2, <1>6, Zenon
<1> DEFINE e == Meanings
<1> HIDE DEF e
<1>8. e = [n \in Nat |-> Steps(e, n)]
  BY <1>4, <1>7, Zenon DEF e
<1>9. Follows(p, e)
  BY <1>3, <1>8, Zenon
<1>10. e[0] = Start(p) /\ \A n \in Nat : e[n + 1] = Step(p, n + 1, e[n])
  BY <1>9, Unfolds, Zenon
<1>11. e[0] = First /\ \A n \in Nat : e[n + 1] = Then(n + 1, e[n])
  BY <1>0, <1>10, Zenon
<1>. QED
  BY <1>11, Zenon DEF e, First, Then

\* The readings of a depth, by those of the depth below.
LEMMA ReadingsUnfold ==
  /\ Readings[0] = [x \in Seq(Int) |-> Reading(x, [r \in Seq(Int) |-> <<>>])]
  /\ \A n \in Nat : Readings[n + 1] = [x \in Seq(Int) |-> Reading(x, Readings[n])]
<1> DEFINE p == <<"readings">>
           First == [x \in Seq(Int) |-> Reading(x, [r \in Seq(Int) |-> <<>>])]
           Then(n, e) == [x \in Seq(Int) |-> Reading(x, e)]
           At(f, n) == [x \in Seq(Int) |-> Reading(x, IF n = 0 THEN [r \in Seq(Int) |-> <<>>] ELSE f[n - 1])]
           Steps(f, n) == IF n = 0 THEN First ELSE Then(n, f[n - 1])
<1>0. Start(p) = First /\ \A n, e : Step(p, n, e) = Then(n, e)
  <2>1. p[1] = "readings"
    OBVIOUS
  <2> HIDE DEF p
  <2>. QED
    BY <2>1, Zenon DEF Start, Step
<1> HIDE DEF p
<1>1. ASSUME NEW f, NEW n \in Nat
      PROVE  At(f, n) = Steps(f, n)
  <2>1. CASE n = 0
    BY <2>1, Zenon
  <2>2. CASE n # 0
    BY <2>2, Zenon
  <2>. QED
    BY <2>1, <2>2, Zenon
<1>2. Readings = CHOOSE f : f = [n \in Nat |-> At(f, n)]
  BY Zenon DEF Readings
<1> HIDE DEF At, First, Then
<1>3. \A f : Follows(p, f) <=> f = [n \in Nat |-> Steps(f, n)]
  BY <1>0, Zenon DEF Follows
<1> HIDE DEF Steps
<1>4. \A f : [n \in Nat |-> At(f, n)] = [n \in Nat |-> Steps(f, n)]
  BY <1>1, Zenon
<1>5. PICK f : Follows(p, f)
  BY Exists
<1>6. f = [n \in Nat |-> At(f, n)]
  BY <1>3, <1>4, <1>5, Zenon
<1>7. Readings = [n \in Nat |-> At(Readings, n)]
  BY <1>2, <1>6, Zenon
<1> DEFINE e == Readings
<1> HIDE DEF e
<1>8. e = [n \in Nat |-> Steps(e, n)]
  BY <1>4, <1>7, Zenon DEF e
<1>9. Follows(p, e)
  BY <1>3, <1>8, Zenon
<1>10. e[0] = Start(p) /\ \A n \in Nat : e[n + 1] = Step(p, n + 1, e[n])
  BY <1>9, Unfolds, Zenon
<1>11. e[0] = First /\ \A n \in Nat : e[n + 1] = Then(n + 1, e[n])
  BY <1>0, <1>10, Zenon
<1>. QED
  BY <1>11, Zenon DEF e, First, Then

\* Encodings one after the other are an encoding.
LEMMA ConcatSymbols ==
  ASSUME NEW es \in Seq(Seq(Symbols))
  PROVE  Concat(es) \in Seq(Symbols) /\ es \in Seq(Seq(Int))
<1>1. PICK f : Joins(f, es, Symbols) /\ Concat(es) = f[Len(es)]
  BY ConcatInSteps
<1>2. Len(es) \in 0 .. Len(es)
  OBVIOUS
<1>3. Concat(es) \in Seq(Symbols)
  BY <1>1, <1>2, Zenon DEF Joins
<1>4. Seq(Symbols) \subseteq Seq(Int)
  BY StringsAreInts, Wider, Zenon
<1> DEFINE A == Seq(Symbols)
           B == Seq(Int)
<1>5. es \in Seq(B)
  <2>1. A \subseteq B /\ es \in Seq(A)
    BY <1>4
  <2> HIDE DEF A, B
  <2>. QED
    BY <2>1, Wider
<1>. QED
  BY <1>3, <1>5

\* packArray writes what is read as the array, if its elements are.
LEMMA ArrayRead ==
  ASSUME NEW n \in Nat, n <= MaxLength, NEW inner, NEW es \in Seq(Seq(Symbols)), Len(es) = n, NEW ms,
         \A k \in 1 .. n : Understood(es[k], ms[k], inner)
  PROVE  ReadsAs(packArrayHeader(n) \o Concat(es), <<"array", [j \in 1 .. n |-> ms[j]]>>, inner)
<1> DEFINE h == packArrayHeader(n)
           b == Concat(es)
           m == [j \in 1 .. n |-> ms[j]]
<1>1. Announces(h, "array", n)
  BY HeaderAnnounces
<1>2. b \in Seq(Symbols) /\ es \in Seq(Seq(Int))
  BY ConcatSymbols
<1>3. AllRead(inner, es, ms, n)
  BY Zenon DEF Understood, AllRead
<1>4. \A r \in Seq(Int) : Items(inner, b \o r, n) = <<m, r>>
  <2>1. \A r \in Seq(Int) : ItemsGot(inner, b \o r, n, ms, r)
    BY <1>2, <1>3, ItemsRead, Zenon
  <2>. QED
    BY <2>1, Zenon DEF ItemsGot
<1> HIDE DEF h, b, m
<1>5. /\ h \o b \in Seq(Symbols) /\ h \o b # <<>>
      /\ \A r \in Seq(Int) : Announced((h \o b) \o r) = <<"array", n, b \o r>>
  BY <1>1, <1>2, AfterHeader, SMTT(30)
<1>6. ASSUME NEW r \in Seq(Int)
      PROVE  Reading((h \o b) \o r, inner) = <<<<"array", m>>, r>>
  <2> DEFINE s == (h \o b) \o r
             q == b \o r
             a == Announced(s)
             got == Items(inner, q, n)
  <2>1. a = <<"array", n, q>> /\ got = <<m, r>>
    BY <1>4, <1>5, SMTT(30)
  <2> HIDE DEF s, q
  <2>3. a # <<>> /\ a[1] = "array" /\ a[2] = n /\ a[3] = q
    BY <2>1
  <2>4. Reading(s, inner) = IF got = <<>> THEN <<>> ELSE <<<<"array", got[1]>>, got[2]>>
    BY <2>3, ReadingByKind, Zenon
  <2> HIDE DEF got, a
  <2>5. got # <<>> /\ got[1] = m /\ got[2] = r
    BY <2>1
  <2>. QED
    BY <2>4, <2>5, Zenon DEF s
<1>. QED
  BY <1>5, <1>6, Zenon DEF ReadsAs, h, b, m

\* packMap writes what is read as the map, if its pairs are.
LEMMA MapRead ==
  ASSUME NEW n \in Nat, n <= MaxLength, NEW inner, NEW es \in Seq(Seq(Symbols)), Len(es) = n, NEW ks, NEW ms,
         AllPairsRead(inner, es, ks, ms, n), NEW m, PairsOf(m, ks, ms, n)
  PROVE  ReadsAs(packMapHeader(n) \o Concat(es), <<"map", m>>, inner)
<1> DEFINE h == packMapHeader(n)
           b == Concat(es)
<1>1. Announces(h, "map", n)
  BY HeaderAnnounces
<1>2. b \in Seq(Symbols) /\ es \in Seq(Seq(Int))
  BY ConcatSymbols
<1>4. \A r \in Seq(Int) : Pairs(inner, b \o r, n) = <<m, r>>
  <2>1. \A r \in Seq(Int) : PairsGot(inner, b \o r, n, ks, ms, r)
    BY <1>2, PairsRead, Zenon
  <2>. QED
    BY <2>1, Zenon DEF PairsGot, PairsOf
<1> HIDE DEF h, b
<1>5. /\ h \o b \in Seq(Symbols) /\ h \o b # <<>>
      /\ \A r \in Seq(Int) : Announced((h \o b) \o r) = <<"map", n, b \o r>>
  BY <1>1, <1>2, AfterHeader
<1>6. ASSUME NEW r \in Seq(Int)
      PROVE  Reading((h \o b) \o r, inner) = <<<<"map", m>>, r>>
  <2> DEFINE s == (h \o b) \o r
             q == b \o r
             a == Announced(s)
             got == Pairs(inner, q, n)
  <2>1. a = <<"map", n, q>> /\ got = <<m, r>>
    BY <1>4, <1>5
  <2> HIDE DEF s, q
  <2>3. a # <<>> /\ a[1] = "map" /\ a[2] = n /\ a[3] = q
    BY <2>1
  <2>4. Reading(s, inner) = IF got = <<>> THEN <<>> ELSE <<<<"map", got[1]>>, got[2]>>
    BY <2>3, ReadingByKind, Zenon
  <2> HIDE DEF got, a
  <2>5. got # <<>> /\ got[1] = m /\ got[2] = r
    BY <2>1
  <2>. QED
    BY <2>4, <2>5, Zenon DEF s
<1>. QED
  BY <1>5, <1>6, Zenon DEF ReadsAs, h, b

\* An array is read as what it means, if its elements are.
LEMMA NestedArrayRead ==
  ASSUME NEW S, NEW x \in Arrays(S), NEW e, NEW m, NEW inner, \A y \in S : Understood(e[y], m[y], inner)
  PROVE  ReadsAs(Encoding(x, e), MeaningOf(x, m), inner)
<1> DEFINE v == x.v
           n == Len(v)
           es == [k \in 1 .. n |-> e[v[k]]]
           ms == [k \in 1 .. n |-> m[v[k]]]
<1>1. x.go = "array" /\ v \in Seq(S) /\ n <= MaxLength
  <2> HIDE DEF MaxLength
  <2>. QED
    BY DEF Arrays
<1>2. n \in Nat /\ \A k \in 1 .. n : v[k] \in S
  <2> HIDE DEF v
  <2>. QED
    BY <1>1
<1>3. Encoding(x, e) = packArrayHeader(n) \o Concat(es) /\ MeaningOf(x, m) = <<"array", ms>>
  <2>1. Encoding(x, e) = packArrayHeader(n) \o Concat(es)
    BY <1>1, Zenon DEF Encoding
  <2>2. MeaningOf(x, m) = <<"array", ms>>
    BY <1>1, Zenon DEF MeaningOf
  <2>. QED
    BY <2>1, <2>2
<1> HIDE DEF v, n
<1>4. \A k \in 1 .. n : es[k] = e[v[k]] /\ ms[k] = m[v[k]] /\ Understood(es[k], ms[k], inner)
  BY <1>2, Zenon
<1>5. \A k \in 1 .. n : es[k] \in Seq(Symbols)
  BY <1>4, Zenon DEF Understood
<1>6. es \in Seq(Seq(Symbols)) /\ Len(es) = n
  <2> DEFINE A == Seq(Symbols)
  <2> HIDE DEF A
  <2>1. \A k \in 1 .. n : es[k] \in A
    BY <1>5 DEF A
  <2>2. es \in [1 .. n -> A]
    BY <2>1, Zenon
  <2> HIDE DEF es
  <2>3. es \in Seq(A) /\ Len(es) = n
    BY <1>2, <2>2
  <2>. QED
    BY <2>3 DEF A
<1>7. [j \in 1 .. n |-> ms[j]] = ms
  BY Zenon
<1> HIDE DEF es, ms
<1>8. ReadsAs(packArrayHeader(n) \o Concat(es), <<"array", [j \in 1 .. n |-> ms[j]]>>, inner)
  <2>1. \A k \in 1 .. n : Understood(es[k], ms[k], inner)
    BY <1>4
  <2>. QED
    BY <1>1, <1>2, <1>6, <2>1, ArrayRead, Zenon DEF n
<1>. QED
  BY <1>3, <1>7, <1>8, Zenon

\* Strings are understood at every depth.
LEMMA StringsUnderstood ==
  ASSUME NEW n \in Nat, NEW i \in Strings
  PROVE  Understood(packString(i), <<"string", i>>, Readings[n])
<1>1. CASE n = 0
  BY <1>1, ReadingsUnfold, StringRead, UnderstoodIfRead, Zenon
<1>2. CASE n # 0
  <2>1. n - 1 \in Nat /\ (n - 1) + 1 = n
    BY <1>2
  <2>2. Readings[n] = [s \in Seq(Int) |-> Reading(s, Readings[n - 1])]
    BY <2>1, ReadingsUnfold, Zenon
  <2>. QED
    BY <2>2, StringRead, UnderstoodIfRead, Zenon
<1>. QED
  BY <1>1, <1>2

\* The elements of an array are read the same when more bytes follow.
LEMMA ItemsExtend ==
  ASSUME NEW inner, Steady(inner), NEW s \in Seq(Int), NEW e \in Seq(Int), NEW n \in Nat,
         Items(inner, s, n) # <<>>
  PROVE  Grows(Items(inner, s, n), Items(inner, s \o e, n), e)
<1> DEFINE u == s \o e
<1>1. PICK x : GotItems(x, inner, s)
  BY ItemsInSteps, Zenon
<1>2. PICK y : GotItems(y, inner, u)
  BY ItemsInSteps, Zenon
<1> DEFINE Whole(k) == x[k] # <<>> => Grows(x[k], y[k], e)
           T == {k \in Nat : Whole(k)}
<1>3. Whole(0)
  <2>1. Got(x[0], <<>>, s) /\ Got(y[0], <<>>, s \o e)
    BY <1>1, <1>2, Zenon DEF GotItems, Got
  <2>. QED
    BY <2>1, Zenon DEF Grows
<1>4. ASSUME NEW k \in Nat, Whole(k)
      PROVE  Whole(k + 1)
  <2>1. x[k + 1] = NextItem(inner, x[k]) /\ y[k + 1] = NextItem(inner, y[k])
    BY <1>1, <1>2, Zenon DEF GotItems
  <2>. QED
    BY <1>4, <2>1, NextItemExtends, Zenon
<1> HIDE DEF Whole
<1>5. Nat \subseteq T
  <2>1. 0 \in T
    BY <1>3
  <2>2. ASSUME NEW k \in Nat, k \in T
        PROVE  k + 1 \in T
    <3>1. k + 1 \in Nat
      OBVIOUS
    <3>. QED
      BY <1>4, <2>2, <3>1, Zenon
  <2> HIDE DEF T
  <2>. QED
    BY <2>1, <2>2, Induction, Zenon
<1>6. Whole(n)
  BY <1>5, Zenon
<1>7. Items(inner, s, n) = x[n] /\ Items(inner, u, n) = y[n]
  BY <1>1, <1>2, Zenon DEF GotItems
<1>. QED
  BY <1>6, <1>7, Zenon DEF Whole

\* The pairs of a map are read the same when more bytes follow.
LEMMA PairsExtend ==
  ASSUME NEW inner, Steady(inner), NEW s \in Seq(Int), NEW e \in Seq(Int), NEW n \in Nat,
         Pairs(inner, s, n) # <<>>
  PROVE  Grows(Pairs(inner, s, n), Pairs(inner, s \o e, n), e)
<1> DEFINE u == s \o e
<1>1. PICK x : GotPairs(x, inner, s)
  BY PairsInSteps, Zenon
<1>2. PICK y : GotPairs(y, inner, u)
  BY PairsInSteps, Zenon
<1> DEFINE Whole(k) == x[k] # <<>> => Grows(x[k], y[k], e)
           T == {k \in Nat : Whole(k)}
<1>3. Whole(0)
  <2>1. Got(x[0], {}, s) /\ Got(y[0], {}, s \o e)
    BY <1>1, <1>2, Zenon DEF GotPairs, Got
  <2>. QED
    BY <2>1, Zenon DEF Grows
<1>4. ASSUME NEW k \in Nat, Whole(k)
      PROVE  Whole(k + 1)
  <2>1. x[k + 1] = NextPair(inner, x[k]) /\ y[k + 1] = NextPair(inner, y[k])
    BY <1>1, <1>2, Zenon DEF GotPairs
  <2>. QED
    BY <1>4, <2>1, NextPairExtends, Zenon
<1> HIDE DEF Whole
<1>5. Nat \subseteq T
  <2>1. 0 \in T
    BY <1>3
  <2>2. ASSUME NEW k \in Nat, k \in T
        PROVE  k + 1 \in T
    <3>1. k + 1 \in Nat
      OBVIOUS
    <3>. QED
      BY <1>4, <2>2, <3>1, Zenon
  <2> HIDE DEF T
  <2>. QED
    BY <2>1, <2>2, Induction, Zenon
<1>6. Whole(n)
  BY <1>5, Zenon
<1>7. Pairs(inner, s, n) = x[n] /\ Pairs(inner, u, n) = y[n]
  BY <1>1, <1>2, Zenon DEF GotPairs
<1>. QED
  BY <1>6, <1>7, Zenon DEF Whole

\* A value is read the same when more bytes follow, if what it contains is.
LEMMA ReadingExtends ==
  ASSUME NEW inner, Steady(inner), NEW s \in Seq(Int), NEW e \in Seq(Int), Reading(s, inner) # <<>>
  PROVE  Grows(Reading(s, inner), Reading(s \o e, inner), e)
<1> DEFINE u == s \o e
           x == Reading(s, inner)
           y == Reading(u, inner)
<1>1. Announced(s) # <<>>
  BY ReadingByKind, Zenon
<1>2. PICK kind, c, r : Shows(s, kind, c, r) /\ Shows(u, kind, c, r \o e)
  BY <1>1, AnnouncedExtends, Zenon
<1>3. r \in Seq(Int) /\ (kind \in {"array", "map"} => c \in Nat)
  BY <1>2, Zenon DEF Shows
<1> HIDE DEF u
<1>4. CASE kind = "text"
  <2>1. x = Text(r, c) /\ y = Text(r \o e, c)
    <3>0. Shows(s, "text", c, r) /\ Shows(u, "text", c, r \o e)
      BY <1>2, <1>4, Zenon
    <3>1. x = Text(r, c)
      BY <3>0, ReadingOfText, Zenon
    <3>2. y = Text(r \o e, c)
      BY <3>0, ReadingOfText, Zenon
    <3>. QED
      BY <3>1, <3>2, Zenon
  <2>. QED
    BY <1>3, <2>1, TextExtends, Zenon DEF u
<1>5. CASE kind = "array"
  <2> DEFINE a == Items(inner, r, c)
             b == Items(inner, r \o e, c)
  <2>1. x = Wrapped("array", a) /\ y = Wrapped("array", b)
    <3>0. Shows(s, "array", c, r) /\ Shows(u, "array", c, r \o e)
      BY <1>2, <1>5, Zenon
    <3>1. x = Wrapped("array", a)
      BY <3>0, ReadingOfArray, Zenon
    <3>2. y = Wrapped("array", b)
      BY <3>0, ReadingOfArray, Zenon
    <3>. QED
      BY <3>1, <3>2, Zenon
  <2>2. a # <<>> /\ c \in Nat
    BY <1>3, <1>5, <2>1, Zenon DEF Wrapped
  <2>3. Grows(a, b, e)
    BY <1>3, <2>2, ItemsExtend, Zenon
  <2> HIDE DEF a, b
  <2>. QED
    BY <2>1, <2>3, WrappedGrows, Zenon DEF u
<1>6. CASE kind = "map"
  <2> DEFINE a == Pairs(inner, r, c)
             b == Pairs(inner, r \o e, c)
  <2>1. x = Wrapped("map", a) /\ y = Wrapped("map", b)
    <3>0. Shows(s, "map", c, r) /\ Shows(u, "map", c, r \o e)
      BY <1>2, <1>6, Zenon
    <3>1. x = Wrapped("map", a)
      BY <3>0, ReadingOfMap, Zenon
    <3>2. y = Wrapped("map", b)
      BY <3>0, ReadingOfMap, Zenon
    <3>. QED
      BY <3>1, <3>2, Zenon
  <2>2. a # <<>> /\ c \in Nat
    BY <1>3, <1>6, <2>1, Zenon DEF Wrapped
  <2>3. Grows(a, b, e)
    BY <1>3, <2>2, PairsExtend, Zenon
  <2> HIDE DEF a, b
  <2>. QED
    BY <2>1, <2>3, WrappedGrows, Zenon DEF u
<1>7. CASE kind \notin {"text", "array", "map"}
  <2>1. Got(x, <<kind, c>>, r) /\ Got(y, <<kind, c>>, r \o e)
    BY <1>2, <1>7, ReadingOfOther, Zenon
  <2>. QED
    BY <1>3, <2>1, Zenon DEF u, Grows
<1>. QED
  BY <1>4, <1>5, <1>6, <1>7, Zenon

\* One depth more keeps that.
LEMMA SteadyNext ==
  ASSUME NEW inner, Steady(inner), NEW f, f = [s \in Seq(Int) |-> Reading(s, inner)]
  PROVE  Steady(f)
<1> SUFFICES ASSUME NEW s \in Seq(Int), NEW e \in Seq(Int), f[s] # <<>>
             PROVE  Grows(f[s], f[s \o e], e)
  BY Zenon DEF Steady
<1>1. s \o e \in Seq(Int)
  BY OneAfterOther
<1>2. f[s] = Reading(s, inner) /\ f[s \o e] = Reading(s \o e, inner)
  BY <1>1, Zenon
<1>. QED
  BY <1>2, ReadingExtends, Zenon

\* Values of every depth are read the same when more bytes follow: no encoding is the beginning of
\* another one.
LEMMA ReadingsSteady ==
  \A n \in Nat : Steady(Readings[n])
<1> DEFINE T == {n \in Nat : Steady(Readings[n])}
           none == [r \in Seq(Int) |-> <<>>]
<1>1. Steady(Readings[0])
  <2>1. Steady(none)
    BY Zenon DEF Steady
  <2>2. Readings[0] = [s \in Seq(Int) |-> Reading(s, none)]
    BY ReadingsUnfold, Zenon
  <2> HIDE DEF none
  <2>. QED
    BY <2>1, <2>2, SteadyNext, Zenon
<1>2. ASSUME NEW n \in Nat, Steady(Readings[n])
      PROVE  Steady(Readings[n + 1])
  <2> DEFINE inner == Readings[n]
             next == Readings[n + 1]
  <2>1. next = [s \in Seq(Int) |-> Reading(s, inner)]
    BY ReadingsUnfold, Zenon
  <2>2. Steady(inner)
    BY <1>2
  <2> HIDE DEF inner, next
  <2>3. Steady(next)
    BY <2>1, <2>2, SteadyNext, Zenon
  <2>. QED
    BY <2>3 DEF next
<1>3. Nat \subseteq T
  <2>1. 0 \in T
    BY <1>1
  <2>2. ASSUME NEW n \in Nat, n \in T
        PROVE  n + 1 \in T
    <3>1. n + 1 \in Nat
      OBVIOUS
    <3>. QED
      BY <1>2, <2>2, <3>1, Zenon
  <2> HIDE DEF T
  <2>. QED
    BY <2>1, <2>2, Induction
<1>. QED
  BY <1>3, Zenon

\* got[k] is what the receiver has after k values.
GotValues(got, s) ==
  /\ got[0] = <<<<>>, s>> /\ \A k \in Nat : got[k + 1] = NextValue(got[k])
  /\ \A n : Stream(s, n) = got[n][1]

\* Stream reads one value after the other.
LEMMA StreamInSteps ==
  ASSUME NEW s
  PROVE  \E got : GotValues(got, s)
<1> DEFINE p == <<"stream", s>>
           got == CHOOSE got : got = [k \in Nat |-> IF k = 0 THEN <<<<>>, s>> ELSE NextValue(got[k - 1])]
<1>1. Start(p) = <<<<>>, s>> /\ \A n, x : Step(p, n, x) = NextValue(x)
  <2>1. p[1] = "stream" /\ p[2] = s
    OBVIOUS
  <2> HIDE DEF p
  <2>. QED
    BY <2>1, Zenon DEF Start, Step
<1> HIDE DEF p
<1>2. PICK f : Follows(p, f)
  BY Exists
<1>3. f = [k \in Nat |-> IF k = 0 THEN <<<<>>, s>> ELSE NextValue(f[k - 1])]
  BY <1>1, <1>2, Zenon DEF Follows
<1>4. got = [k \in Nat |-> IF k = 0 THEN <<<<>>, s>> ELSE NextValue(got[k - 1])]
  BY <1>3, Zenon
<1>5. \A n : Stream(s, n) = got[n][1]
  BY Zenon DEF Stream
<1> HIDE DEF got
<1>6. Follows(p, got)
  BY <1>1, <1>4, Zenon DEF Follows
<1>7. got[0] = <<<<>>, s>> /\ \A k \in Nat : got[k + 1] = NextValue(got[k])
  <2>1. got[0] = Start(p) /\ \A n \in Nat : got[n + 1] = Step(p, n + 1, got[n])
    BY <1>6, Unfolds, Zenon
  <2>. QED
    BY <1>1, <2>1, Zenon
<1>. QED
  BY <1>5, <1>7 DEF GotValues

\* A message is read the same when more bytes follow, and none is read from nothing.
LEMMA DecodeSteady ==
  /\ Decode(<<>>) = <<>>
  /\ \A s, e \in Seq(Int) : Decode(s) # <<>> => Grows(Decode(s), Decode(s \o e), e)
<1>1. MaxDepth \in Nat /\ MaxDepth + 1 \in Nat
  BY MessagePackAssumption
<1>2. Readings[MaxDepth + 1] = [s \in Seq(Int) |-> Reading(s, Readings[MaxDepth])]
  BY <1>1, ReadingsUnfold, Zenon
<1>3. Announced(<<>>) = <<>>
  BY Zenon DEF Announced
<1>4. Reading(<<>>, Readings[MaxDepth]) = <<>>
  BY <1>3, ReadingByKind, Zenon
<1>5. <<>> \in Seq(Int)
  OBVIOUS
<1>6. Decode(<<>>) = <<>>
  BY <1>2, <1>4, <1>5, Zenon DEF Decode
<1>7. Steady(Readings[MaxDepth + 1])
  BY <1>1, ReadingsSteady, Zenon
<1>. QED
  BY <1>6, <1>7, Zenon DEF Steady, Decode

\* What reached the receiver, w, and what did not, missing, are the sequences es,
\* which are read as what ms says.
Sent(es, ms, w, missing) ==
  /\ es \in Seq(Seq(Symbols)) /\ w \in Seq(Int) /\ missing \in Seq(Int)
  /\ \A k \in 1 .. Len(es) : Understood(es[k], ms[k], Readings[MaxDepth + 1])
  /\ w \o missing = Concat(es)

\* The first n of them have been read.
ReadFirst(x, ms, n, r) == Got(x, [j \in 1 .. n |-> ms[j]], r)

\* The loop has read the first values, of which nothing but the missing bytes are left.
Reads(x, k, es, ms, t, missing) ==
  \E n \in 0 .. Len(es) : \E r \in Seq(Int) :
    ReadFirst(x, ms, n, r) /\ r \o missing = t[n] /\ (missing = <<>> => n >= k \/ n = Len(es))

\* The reader is always at the beginning of an encoding, or stuck in the one that was cut.
LEMMA OneValueRead ==
  ASSUME NEW es, NEW ms, NEW w, NEW missing, Sent(es, ms, w, missing), NEW t, Leaves(t, es, Int),
         NEW k \in Nat, NEW x, Reads(x, k, es, ms, t, missing)
  PROVE  Reads(NextValue(x), k + 1, es, ms, t, missing)
<1> DEFINE N == Len(es)
<1>1. N \in Nat /\ missing \in Seq(Int) /\ es \in Seq(Seq(Symbols))
  BY DEF Sent
<1>2. PICK n \in 0 .. N, r \in Seq(Int) :
        ReadFirst(x, ms, n, r) /\ r \o missing = t[n] /\ (missing = <<>> => n >= k \/ n = N)
  BY Zenon DEF Reads
<1>3. Got(x, [j \in 1 .. n |-> ms[j]], r)
  BY <1>2, Zenon DEF ReadFirst
<1>4. n < N => \E y \in Seq(Int) : t[n + 1] = y /\ Got(Decode(t[n]), ms[n + 1], y)
  <2> SUFFICES ASSUME n < N
               PROVE  \E y \in Seq(Int) : t[n + 1] = y /\ Got(Decode(t[n]), ms[n + 1], y)
    OBVIOUS
  <2>1. n \in Nat /\ n + 1 \in 0 .. N /\ n + 1 \in 1 .. N
    BY <1>1
  <2>2. t[n + 1] \in Seq(Int) /\ t[n] = es[n + 1] \o t[n + 1]
    BY <2>1, Zenon DEF Leaves
  <2>3. Understood(es[n + 1], ms[n + 1], Readings[MaxDepth + 1])
    BY <2>1, Zenon DEF Sent
  <2>4. Decode(es[n + 1] \o t[n + 1]) = <<ms[n + 1], t[n + 1]>>
    BY <2>2, <2>3, Zenon DEF Understood, Decode
  <2>. QED
    BY <2>2, <2>4, Zenon DEF Got
<1>5. n = N => t[n] = <<>>
  BY Zenon DEF Leaves
<1>6. CASE Decode(r) = <<>>
  <2>1. NextValue(x) = x
    BY <1>3, <1>6, NextValueIs, Zenon
  <2>2. missing = <<>> => n = N
    <3> SUFFICES ASSUME missing = <<>>, n # N
                 PROVE  FALSE
      OBVIOUS
    <3>1. r \o missing = r /\ n < N
      BY <1>1
    <3>2. PICK y : Got(Decode(t[n]), ms[n + 1], y)
      BY <1>4, <3>1, Zenon
    <3>3. Decode(t[n]) # <<>>
      BY <3>2 DEF Got
    <3>. QED
      BY <1>2, <1>6, <3>1, <3>3, Zenon
  <2>. QED
    BY <1>2, <2>1, <2>2, Zenon DEF Reads
<1>7. CASE Decode(r) # <<>>
  <2>1. Grows(Decode(r), Decode(t[n]), missing)
    BY <1>1, <1>2, <1>7, DecodeSteady, Zenon
  <2>2. PICK m, q : q \in Seq(Int) /\ Got(Decode(r), m, q) /\ Got(Decode(t[n]), m, q \o missing)
    BY <2>1, Zenon DEF Grows
  <2>3. Decode(t[n]) # <<>>
    BY <2>2 DEF Got
  <2>4. n < N
    <3>1. n # N
      BY <1>5, <2>3, DecodeSteady, Zenon
    <3>. QED
      BY <1>1, <3>1
  <2>5. PICK y \in Seq(Int) : t[n + 1] = y /\ Got(Decode(t[n]), ms[n + 1], y)
    BY <1>4, <2>4, Zenon
  <2>6. m = ms[n + 1] /\ q \o missing = t[n + 1]
    <3>1. m = ms[n + 1] /\ q \o missing = y
      BY <2>2, <2>5, GotOnce, Zenon
    <3>. QED
      BY <2>5, <3>1, Zenon
  <2>7. ReadFirst(NextValue(x), ms, n + 1, q)
    <3> DEFINE a == [j \in 1 .. n |-> ms[j]]
    <3>0. n \in Nat
      OBVIOUS
    <3>1. Append(a, ms[n + 1]) = [j \in 1 .. n + 1 |-> ms[j]]
      BY <3>0, OneMore
    <3>2. Got(x, a, r)
      BY <1>3
    <3> HIDE DEF a
    <3>3. Got(NextValue(x), Append(a, m), q)
      BY <2>2, <3>2, NextValueIs, Zenon
    <3>. QED
      BY <2>6, <3>1, <3>3, Zenon DEF ReadFirst
  <2>8. n + 1 \in 0 .. N /\ (missing = <<>> => n + 1 >= k + 1 \/ n + 1 = N)
    BY <1>1, <1>2, <2>4, SMTT(30)
  <2>. QED
    BY <2>2, <2>6, <2>7, <2>8, Zenon DEF Reads
<1>. QED
  BY <1>6, <1>7

\* The first n values of ms.
First(x, ms, n) == x = [j \in 1 .. n |-> ms[j]]

\* From the encodings of some values, cut anywhere, the first of the values are read and nothing
\* else; all of them when nothing is cut.
LEMMA StreamRead ==
  ASSUME NEW es, NEW ms, NEW w, NEW missing, Sent(es, ms, w, missing), NEW limit \in Nat, Len(es) < limit
  PROVE  \E n \in 0 .. Len(es) :
           First(Stream(w, limit), ms, n) /\ (missing = <<>> => n = Len(es))
<1> DEFINE N == Len(es)
<1>1. es \in Seq(Seq(Int)) /\ N \in Nat /\ w \in Seq(Int) /\ w \o missing = Concat(es)
  BY ConcatSymbols DEF Sent
<1>2. PICK t : Leaves(t, es, Int)
  BY <1>1, ConcatFromFront
<1>3. PICK got : GotValues(got, w)
  BY StreamInSteps
<1> DEFINE Whole(k) == Reads(got[k], k, es, ms, t, missing)
           T == {k \in Nat : Whole(k)}
<1>4. Whole(0)
  <2> DEFINE none == [j \in 1 .. 0 |-> ms[j]]
  <2>1. none = <<>> /\ 0 \in 0 .. N /\ 0 >= 0
    BY <1>1
  <2> HIDE DEF none
  <2>2. got[0] = <<none, w>>
    BY <1>3, <2>1, Zenon DEF GotValues
  <2>3. ReadFirst(got[0], ms, 0, w)
    BY <2>2, Zenon DEF ReadFirst, Got, none
  <2>4. w \o missing = t[0]
    BY <1>1, <1>2, Zenon DEF Leaves
  <2>. QED
    BY <1>1, <2>1, <2>3, <2>4, Zenon DEF Reads
<1>5. ASSUME NEW k \in Nat, Whole(k)
      PROVE  Whole(k + 1)
  <2>1. got[k + 1] = NextValue(got[k])
    BY <1>3, Zenon DEF GotValues
  <2>2. Reads(NextValue(got[k]), k + 1, es, ms, t, missing)
    BY <1>2, <1>5, OneValueRead, Zenon
  <2>. QED
    BY <2>1, <2>2, Zenon
<1> HIDE DEF Whole
<1>6. Nat \subseteq T
  <2>1. 0 \in T
    BY <1>4
  <2>2. ASSUME NEW k \in Nat, k \in T
        PROVE  k + 1 \in T
    <3>1. k + 1 \in Nat
      OBVIOUS
    <3>. QED
      BY <1>5, <2>2, <3>1, Zenon
  <2> HIDE DEF T
  <2>. QED
    BY <2>1, <2>2, Induction, SMTT(30)
<1>7. Reads(got[limit], limit, es, ms, t, missing)
  BY <1>6, Zenon DEF Whole
<1>8. PICK n \in 0 .. N, r \in Seq(Int) :
        /\ Got(got[limit], [j \in 1 .. n |-> ms[j]], r)
        /\ (missing = <<>> => n >= limit \/ n = N)
  BY <1>7, Zenon DEF Reads, ReadFirst
<1>9. Stream(w, limit) = got[limit][1]
  BY <1>3, Zenon DEF GotValues
<1>10. got[limit][1] = [j \in 1 .. n |-> ms[j]]
  BY <1>8 DEF Got
<1>11. missing = <<>> => n = N
  BY <1>1, <1>8
<1>. QED
  BY <1>9, <1>10, <1>11, Zenon DEF First

\* No sequence of bytes that is read as a number is shorter than what packInt writes for it.
THEOREM NothingShorter ==
  ASSUME NEW w \in Word64, NEW s \in Seq(Byte), NEW q, Got(Decode(s), <<Sign(w), w>>, q)
  PROVE  Len(packInt(w)) <= Len(s)
<1>1. s \in Seq(Int)
  BY BytesAreInts, Zenon
<1>2. MaxDepth \in Nat
  BY MessagePackAssumption
<1>3. Decode(s) = Reading(s, Readings[MaxDepth])
  <2>1. Readings[MaxDepth + 1] = [x \in Seq(Int) |-> Reading(x, Readings[MaxDepth])]
    BY <1>2, ReadingsUnfold, Zenon
  <2>. QED
    BY <1>1, <2>1, Zenon DEF Decode
<1>4. Sign(w) \in {"natural", "negative"}
  BY DEF Sign
<1>5. Got(Reading(s, Readings[MaxDepth]), <<Sign(w), w>>, q)
  BY <1>3, Zenon
<1>6. PICK r : Announced(s) = <<Sign(w), w, r>>
  BY <1>1, <1>4, <1>5, NumberRead, Zenon
<1>. QED
  BY <1>6, AnnouncedNumber, Zenon DEF PacksIn
=============================================================================
