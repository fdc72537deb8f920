--------------------------- MODULE ForwardProofs ---------------------------
(***************************************************************************)
(* What the receiver of a batch reads.  The first part is about            *)
(* MessagePack: maps, in whatever order they are iterated, and with them   *)
(* the bytes and the readings of values at every depth.  The other parts   *)
(* are about Forward.                                                      *)
(***************************************************************************)
EXTENDS Forward, MessagePackProofs, FiniteSetTheorems

\* Every key is in s once.
Distinct(s) == \A i, j \in 1 .. Len(s) : s[i][1] = s[j][1] => i = j

\* t has the pairs of s, in the order of their keys.
InOrder(t, s) ==
  /\ t = [k \in 1 .. Len(s) |-> t[k]]
  /\ \A k \in 1 .. Len(s) : \E i \in 1 .. Len(s) : t[k] = s[i]
  /\ \A i \in 1 .. Len(s) : \E k \in 1 .. Len(s) : t[k] = s[i]
  /\ \A i, j \in 1 .. Len(s) : i < j => t[i][1] < t[j][1]

\* The places of distinct keys are 1 .. n, in the order of the keys.
LEMMA Places ==
  ASSUME NEW s, Len(s) \in Nat, \A i \in 1 .. Len(s) : s[i][1] \in Int, Distinct(s)
  PROVE  /\ \A i \in 1 .. Len(s) : Place(s, i) \in 1 .. Len(s)
         /\ \A i, j \in 1 .. Len(s) : s[i][1] < s[j][1] => Place(s, i) < Place(s, j)
         /\ \A k \in 1 .. Len(s) : \E i \in 1 .. Len(s) : Place(s, i) = k
<1> DEFINE n == Len(s)
           I == 1 .. n
           upto(i) == {j \in I : s[j][1] <= s[i][1]}
<1>1. IsFiniteSet(I) /\ Cardinality(I) = n
  <2>1. 1 \in Int /\ n \in Int /\ n - 1 + 1 = n /\ (1 > n => n = 0)
    OBVIOUS
  <2> HIDE DEF n
  <2>2. IsFiniteSet(1 .. n) /\ Cardinality(1 .. n) = IF 1 > n THEN 0 ELSE n - 1 + 1
    BY <2>1, FS_Interval, Zenon
  <2>. QED
    BY <2>1, <2>2
<1>2. ASSUME NEW i \in I
      PROVE  IsFiniteSet(upto(i)) /\ Place(s, i) = Cardinality(upto(i)) /\ Cardinality(upto(i)) \in 1 .. n
  <2>1. upto(i) \in SUBSET I
    OBVIOUS
  <2>2. i \in upto(i)
    OBVIOUS
  <2>3. Place(s, i) = Cardinality(upto(i))
    BY Zenon DEF Place
  <2> HIDE DEF upto, I
  <2>4. IsFiniteSet(upto(i)) /\ Cardinality(upto(i)) <= n
    BY <1>1, <2>1, FS_Subset, SMTT(30)
  <2>5. Cardinality(upto(i)) \in Nat /\ Cardinality(upto(i)) # 0
    BY <2>2, <2>4, FS_CardinalityType, FS_EmptySet, SMTT(30)
  <2>. QED
    BY <2>3, <2>4, <2>5, SMTT(30)
<1>3. ASSUME NEW i \in I, NEW j \in I, s[i][1] < s[j][1]
      PROVE  Place(s, i) < Place(s, j)
  <2>1. upto(i) \in SUBSET upto(j) /\ j \in upto(j) /\ j \notin upto(i)
    BY <1>3
  <2>0. \A c \in 1 .. n : c \in Nat
    OBVIOUS
  <2> HIDE DEF upto
  <2>2. IsFiniteSet(upto(j)) /\ Cardinality(upto(i)) \in Nat /\ Cardinality(upto(j)) \in Nat
    BY <1>2, <2>0, Zenon
  <2> HIDE DEF I
  <2>3. Cardinality(upto(i)) <= Cardinality(upto(j)) /\ Cardinality(upto(i)) # Cardinality(upto(j))
    BY <2>1, <2>2, FS_Subset, SMTT(30)
  <2>. QED
    BY <1>2, <2>2, <2>3, SMTT(30)
<1> DEFINE f == [i \in I |-> Place(s, i)]
<1>4. f \in Injection(I, I)
  <2>1. f \in [I -> I]
    BY <1>2, Zenon
  <2>2. ASSUME NEW i \in I, NEW j \in I, f[i] = f[j]
        PROVE  i = j
    <3>0. \A c \in 1 .. n : c \in Int
      OBVIOUS
    <3>1. Place(s, i) = Place(s, j) /\ Place(s, i) \in Int
      <4> HIDE DEF upto
      <4>. QED
        BY <1>2, <2>2, <3>0, Zenon
    <3>2. ~(s[i][1] < s[j][1]) /\ ~(s[j][1] < s[i][1])
      BY <1>3, <3>1
    <3>3. s[i][1] = s[j][1]
      BY <3>2
    <3>. QED
      BY <3>3 DEF Distinct
  <2> HIDE DEF f, I
  <2>. QED
    BY <2>1, <2>2 DEF Injection, IsInjective
<1>5. f \in Surjection(I, I)
  <2> HIDE DEF f, I
  <2>. QED
    BY <1>1, <1>4, FS_Injection, SMTT(30)
<1>6. \A k \in I : \E i \in I : f[i] = k
  <2> HIDE DEF f, I
  <2>. QED
    BY <1>5 DEF Surjection
<1>. QED
  BY <1>2, <1>3, <1>6, Zenon

\* sort.Strings: the sorted pairs are the pairs, with increasing keys.
LEMMA SortedInOrder ==
  ASSUME NEW s, Len(s) \in Nat, \A i \in 1 .. Len(s) : s[i][1] \in Int, Distinct(s)
  PROVE  InOrder(Sorted(s), s)
<1> DEFINE n == Len(s)
           I == 1 .. n
           at(k) == CHOOSE i \in I : Place(s, i) = k
           t == Sorted(s)
<1>1. /\ \A i \in I : Place(s, i) \in I
      /\ \A i, j \in I : s[i][1] < s[j][1] => Place(s, i) < Place(s, j)
      /\ \A k \in I : \E i \in I : Place(s, i) = k
  BY Places, Zenon
<1>2. t = [k \in I |-> s[at(k)]]
  BY Zenon DEF Sorted
<1> HIDE DEF t
<1>3. \A k \in I : at(k) \in I /\ Place(s, at(k)) = k
  BY <1>1, Zenon
<1> HIDE DEF at
<1>4. t = [k \in I |-> t[k]] /\ \A k \in I : t[k] = s[at(k)]
  BY <1>2, Zenon
<1>5. ASSUME NEW i \in I
      PROVE  \E k \in I : t[k] = s[i]
  <2> DEFINE k == Place(s, i)
  <2>1. k \in I /\ at(k) \in I /\ Place(s, at(k)) = k
    BY <1>1, <1>3, Zenon
  <2>2. ~(s[i][1] < s[at(k)][1]) /\ ~(s[at(k)][1] < s[i][1])
    <3>1. Place(s, i) \in Int /\ Place(s, at(k)) = Place(s, i)
      BY <2>1
    <3>2. ~(Place(s, i) < Place(s, at(k))) /\ ~(Place(s, at(k)) < Place(s, i))
      BY <3>1
    <3>. QED
      BY <1>1, <2>1, <3>2, Zenon
  <2> HIDE DEF k
  <2>3. at(k) = i
    BY <2>1, <2>2, SMTT(30) DEF Distinct
  <2>. QED
    BY <1>4, <2>1, <2>3, SMTT(30)
<1>6. ASSUME NEW i \in I, NEW j \in I, i < j
      PROVE  t[i][1] < t[j][1]
  <2> DEFINE a == at(i)
             b == at(j)
  <2>1. a \in I /\ b \in I /\ Place(s, a) = i /\ Place(s, b) = j /\ t[i] = s[a] /\ t[j] = s[b]
    BY <1>3, <1>4
  <2> HIDE DEF a, b
  <2>2. ~(s[b][1] < s[a][1]) /\ a # b
    <3>1. ~(j < i) /\ i # j
      BY <1>6
    <3>. QED
      BY <1>1, <2>1, <3>1, Zenon
  <2>3. s[a][1] # s[b][1]
    BY <2>1, <2>2 DEF Distinct
  <2>. QED
    BY <2>1, <2>2, <2>3, SMTT(30)
<1>. QED
  BY <1>3, <1>4, <1>5, <1>6, Zenon DEF InOrder, t

\* A map sorted by packMap is in rows.
LEMMA MapInRows ==
  ASSUME NEW S, NEW x \in Maps(S)
  PROVE  x.go = "map" /\ InRows(Sorted(x.v), x.v, Len(x.v), S)
<1> DEFINE v == x.v
           n == Len(v)
           t == Sorted(v)
<1>1. x.go = "map" /\ v \in Seq(Strings \X S) /\ Distinct(v)
  <2> HIDE DEF MaxLength, Strings
  <2>. QED
    BY DEF Maps, Distinct
<1>2. n \in Nat /\ \A k \in 1 .. n : v[k][1] \in Strings /\ v[k][2] \in S
  <2> HIDE DEF v, Strings
  <2>. QED
    BY <1>1
<1> HIDE DEF v
<1>3. \A k \in 1 .. n : v[k][1] \in Int
  BY <1>2, StringsAreInts, SMTT(30)
<1>4. InOrder(t, v)
  BY <1>1, <1>2, <1>3, SortedInOrder, SMTT(30)
<1> HIDE DEF n, t
<1>5. /\ \A k \in 1 .. n : \E i \in 1 .. n : t[k] = v[i]
      /\ \A i \in 1 .. n : \E k \in 1 .. n : t[k] = v[i]
      /\ \A i, j \in 1 .. n : i < j => t[i][1] < t[j][1]
  BY <1>4, Zenon DEF InOrder, n
<1>6. \A k \in 1 .. n : t[k][1] \in Int /\ t[k][2] \in S
  BY <1>2, <1>3, <1>5, Zenon
<1>. QED
  BY <1>1, <1>2, <1>5, <1>6, Zenon DEF InRows, v, n, t

\* Maps that mean the same are written as the same bytes, if their values are.
LEMMA SameMap ==
  ASSUME NEW S, NEW x \in Maps(S), NEW y \in Maps(S), NEW e, NEW m, Agrees(S, e, m),
         MeaningOf(x, m) = MeaningOf(y, m)
  PROVE  Encoding(x, e) = Encoding(y, e)
<1> DEFINE v == x.v
           w == y.v
           n == Len(v)
           k == Len(w)
           t == Sorted(v)
           u == Sorted(w)
           P == PairSet(v, n, m)
           Q == PairSet(w, k, m)
           a == [i \in 1 .. n |-> packString(t[i][1]) \o e[t[i][2]]]
           b == [i \in 1 .. k |-> packString(u[i][1]) \o e[u[i][2]]]
<1>1. x.go = "map" /\ y.go = "map" /\ InRows(t, v, n, S) /\ InRows(u, w, k, S)
  BY MapInRows, Zenon
<1>2. MeaningOf(x, m) = <<"map", P>> /\ MeaningOf(y, m) = <<"map", Q>>
  <2>1. MeaningOf(x, m) = <<"map", P>>
    BY <1>1, Zenon DEF MeaningOf, PairSet
  <2>2. MeaningOf(y, m) = <<"map", Q>>
    BY <1>1, Zenon DEF MeaningOf, PairSet
  <2>. QED
    BY <2>1, <2>2, Zenon
<1>3. Encoding(x, e) = packMapHeader(n) \o Concat(a)
  BY <1>1, Zenon DEF Encoding
<1>4. Encoding(y, e) = packMapHeader(k) \o Concat(b)
  BY <1>1, Zenon DEF Encoding
<1>5. P = Q
  <2> HIDE DEF P, Q
  <2> DEFINE z == MeaningOf(x, m)
  <2>0. z = <<"map", P>> /\ z = <<"map", Q>>
    BY <1>2, Zenon
  <2> HIDE DEF z
  <2>1. z[2] = P /\ z[2] = Q
    <3>1. z[2] = P
      BY <2>0
    <3>2. z[2] = Q
      BY <2>0
    <3>. QED
      BY <3>1, <3>2, SMTT(30)
  <2>. QED
    BY <2>1, Zenon
<1> HIDE DEF v, w, n, k, t, u
<1>6. Rowwise(t, n, u, k, m) /\ Rowwise(u, k, t, n, m)
  <2>1. PairSet(v, n, m) \subseteq PairSet(w, k, m) /\ PairSet(w, k, m) \subseteq PairSet(v, n, m)
    BY <1>5, Zenon
  <2>. QED
    BY <1>1, <2>1, RowsOfOther, Zenon
<1>7. n = k /\ \A i \in 1 .. n : t[i][1] = u[i][1] /\ m[t[i][2]] = m[u[i][2]]
  <2>1. SameMeanings(t, n, u, k, m)
    BY <1>1, <1>6, SameRows, Zenon
  <2>. QED
    BY <2>1, Zenon DEF SameMeanings
<1>8. \A i \in 1 .. n : e[t[i][2]] = e[u[i][2]]
  <2>1. \A i \in 1 .. n : t[i][2] \in S /\ u[i][2] \in S
    BY <1>1, <1>7, Zenon DEF InRows
  <2>. QED
    BY <1>7, <2>1, Zenon DEF Agrees
<1>9. a = b
  BY <1>7, <1>8, Zenon
<1> HIDE DEF a, b
<1>. QED
  BY <1>3, <1>4, <1>7, <1>9, Zenon

\* The values that contain values of S.
Around(S) == Scalars \cup Arrays(S) \cup Maps(S)

\* What means the same, in itself or in what it contains, is written as the same bytes.
LEMMA SameEncoding ==
  ASSUME NEW S, NEW e, NEW m, Agrees(S, e, m),
         NEW x \in Around(S), NEW y \in Around(S),
         MeaningOf(x, m) = MeaningOf(y, m)
  PROVE  Encoding(x, e) = Encoding(y, e)
<1>1. ASSUME NEW z \in Arrays(S)
      PROVE  MeaningOf(z, m)[1] = "array"
  <2>1. z.go = "array"
    <3> HIDE DEF MaxLength
    <3>. QED
      BY DEF Arrays
  <2>2. MeaningOf(z, m) = <<"array", [k \in 1 .. Len(z.v) |-> m[z.v[k]]]>>
    BY <2>1, Zenon DEF MeaningOf
  <2>. QED
    BY <2>2
<1>2. ASSUME NEW z \in Maps(S)
      PROVE  MeaningOf(z, m)[1] = "map"
  <2>1. z.go = "map"
    BY MapInRows
  <2>2. MeaningOf(z, m) = <<"map", {<<z.v[k][1], m[z.v[k][2]]>> : k \in 1 .. Len(z.v)}>>
    BY <2>1, Zenon DEF MeaningOf
  <2>. QED
    BY <2>2
<1>3. x \in Scalars \cup Arrays(S) \cup Maps(S) /\ y \in Scalars \cup Arrays(S) \cup Maps(S)
  BY DEF Around
<1>7. "array" # "map"
  OBVIOUS
<1>4. CASE x \in Scalars
  <2>1. y \in Scalars
    BY <1>1, <1>2, <1>3, <1>4, ScalarAgain, Zenon
  <2>. QED
    BY <1>4, <2>1, ScalarAgain, Zenon
<1>5. CASE x \in Arrays(S)
  <2>1. y \in Arrays(S)
    BY <1>1, <1>2, <1>3, <1>5, <1>7, ScalarAgain, Zenon
  <2>. QED
    BY <1>5, <2>1, SameArray, Zenon
<1>6. CASE x \in Maps(S)
  <2>1. y \in Maps(S)
    BY <1>1, <1>2, <1>3, <1>6, <1>7, ScalarAgain, Zenon
  <2>. QED
    BY <1>6, <2>1, SameMap, Zenon
<1>. QED
  BY <1>3, <1>4, <1>5, <1>6, Zenon

\* Values that mean the same are written as the same bytes, however deep they are nested and
\* in whatever order their maps are iterated (packMap sorts the keys, packInt and packUint agree).
THEOREM SameBytes ==
  \A n \in Nat : Agrees(Values[n], Encodings[n], Meanings[n])
<1> DEFINE Same(n) == Agrees(Values[n], Encodings[n], Meanings[n])
           T == {n \in Nat : Same(n)}
<1>1. Same(0)
  <2> SUFFICES ASSUME NEW x \in Values[0], NEW y \in Values[0], Meanings[0][x] = Meanings[0][y]
               PROVE  Encodings[0][x] = Encodings[0][y]
    BY Zenon DEF Agrees
  <2>1. x \in Scalars /\ y \in Scalars
    BY ValuesUnfold, Zenon
  <2>2. Encodings[0][x] = Encoding(x, <<>>) /\ Meanings[0][x] = MeaningOf(x, <<>>)
    BY EncodingsUnfold, MeaningsUnfold, Zenon
  <2>3. Encodings[0][y] = Encoding(y, <<>>) /\ Meanings[0][y] = MeaningOf(y, <<>>)
    BY EncodingsUnfold, MeaningsUnfold, Zenon
  <2>4. Encoding(x, <<>>) = Again(MeaningOf(x, <<>>)) /\ Encoding(y, <<>>) = Again(MeaningOf(y, <<>>))
    BY <2>1, ScalarAgain, Zenon
  <2>. QED
    BY <2>2, <2>3, <2>4, Zenon
<1>2. ASSUME NEW n \in Nat, Same(n)
      PROVE  Same(n + 1)
  <2> DEFINE N == n + 1
             e == Encodings[n]
             m == Meanings[n]
             S == Values[n]
  <2> SUFFICES ASSUME NEW x \in Values[N], NEW y \in Values[N], Meanings[N][x] = Meanings[N][y]
               PROVE  Encodings[N][x] = Encodings[N][y]
    BY Zenon DEF Agrees
  <2>1. x \in Around(S) /\ y \in Around(S)
    BY ValuesUnfold, Zenon DEF Around
  <2>2. Encodings[N] = [z \in Values[N] |-> Encoding(z, e)]
    BY EncodingsUnfold, Zenon
  <2>3. Meanings[N] = [z \in Values[N] |-> MeaningOf(z, m)]
    BY MeaningsUnfold, Zenon
  <2>4. Agrees(S, e, m)
    BY <1>2, Zenon
  <2> HIDE DEF e, m, S, N
  <2>5. /\ Encodings[N][x] = Encoding(x, e) /\ Meanings[N][x] = MeaningOf(x, m)
        /\ Encodings[N][y] = Encoding(y, e) /\ Meanings[N][y] = MeaningOf(y, m)
    BY <2>2, <2>3, Zenon
  <2>6. MeaningOf(x, m) = MeaningOf(y, m)
    BY <2>5, Zenon
  <2>7. Encoding(x, e) = Encoding(y, e)
    BY <2>1, <2>4, <2>6, SameEncoding, Zenon
  <2>. QED
    BY <2>5, <2>7, Zenon
<1> HIDE DEF Same
<1>3. Nat \subseteq T
  <2>1. 0 \in T
    BY <1>1
  <2>2. ASSUME NEW n \in Nat, n \in T
        PROVE  n + 1 \in T
    <3>1. n + 1 \in Nat
      OBVIOUS
    <3>. QED
      BY <1>2, <2>2, <3>1, Zenon
  <2> HIDE DEF T
  <2>. QED
    BY <2>1, <2>2, Induction, SMTT(30)
<1>. QED
  BY <1>3, Zenon DEF Same

\* A map is read as what it means, if its values are.
LEMMA NestedMapRead ==
  ASSUME NEW S, NEW x \in Maps(S), NEW e, NEW m, NEW inner, \A y \in S : Understood(e[y], m[y], inner),
         \A i \in Strings : Understood(packString(i), <<"string", i>>, inner)
  PROVE  ReadsAs(Encoding(x, e), MeaningOf(x, m), inner)
<1> DEFINE v == x.v
           n == Len(v)
           t == Sorted(v)
           es == [k \in 1 .. n |-> packString(t[k][1]) \o e[t[k][2]]]
           ks == [k \in 1 .. n |-> t[k][1]]
           ms == [k \in 1 .. n |-> m[t[k][2]]]
           pairs == {<<v[k][1], m[v[k][2]]>> : k \in 1 .. n}
<1>1. x.go = "map" /\ v \in Seq(Strings \X S) /\ n <= MaxLength /\ Distinct(v)
  <2> HIDE DEF MaxLength, Strings
  <2>. QED
    BY DEF Maps, Distinct
<1>2. n \in Nat /\ \A k \in 1 .. n : v[k][1] \in Strings /\ v[k][2] \in S
  <2> HIDE DEF v, Strings
  <2>. QED
    BY <1>1
<1>3. Encoding(x, e) = packMapHeader(n) \o Concat(es)
  BY <1>1, Zenon DEF Encoding
<1>4. MeaningOf(x, m) = <<"map", pairs>>
  BY <1>1, Zenon DEF MeaningOf
<1> HIDE DEF v
<1>5. InOrder(t, v)
  <2>1. \A k \in 1 .. n : v[k][1] \in Int
    BY <1>2, StringsAreInts, SMTT(30)
  <2>. QED
    BY <1>1, <1>2, <2>1, SortedInOrder, SMTT(30)
<1> HIDE DEF n, t
<1>6. /\ \A k \in 1 .. n : \E i \in 1 .. n : t[k] = v[i]
      /\ \A i \in 1 .. n : \E k \in 1 .. n : t[k] = v[i]
  BY <1>5, Zenon DEF InOrder, n
<1>7. \A k \in 1 .. n : t[k][1] \in Strings /\ t[k][2] \in S
  BY <1>2, <1>6, Zenon
<1>8. \A k \in 1 .. n : es[k] \in Seq(Symbols) /\ \A r \in Seq(Int) : PairRead(inner, es[k] \o r, ks[k], ms[k], r)
  <2> SUFFICES ASSUME NEW k \in 1 .. n
               PROVE  es[k] \in Seq(Symbols) /\ \A r \in Seq(Int) : PairRead(inner, es[k] \o r, ks[k], ms[k], r)
    BY Zenon
  <2> DEFINE p == packString(t[k][1])
             q == e[t[k][2]]
             key == t[k][1]
             mm == m[t[k][2]]
  <2>1. es[k] = p \o q /\ ks[k] = key /\ ms[k] = mm
    BY Zenon
  <2>2. Understood(p, <<"string", key>>, inner) /\ Understood(q, mm, inner)
    BY <1>7, Zenon
  <2> HIDE DEF p, q, key, mm, es, ks, ms
  <2>3. p \o q \in Seq(Symbols) /\ \A r \in Seq(Int) : PairRead(inner, (p \o q) \o r, key, mm, r)
    BY <2>2, OnePairUnderstood, Zenon
  <2>. QED
    BY <2>1, <2>3, Zenon
<1>9. es \in Seq(Seq(Symbols)) /\ Len(es) = n
  <2> DEFINE A == Seq(Symbols)
  <2> HIDE DEF A
  <2>1. \A k \in 1 .. n : es[k] \in A
    BY <1>8, Zenon DEF A
  <2>2. es \in [1 .. n -> A]
    BY <2>1, Zenon
  <2> HIDE DEF es
  <2>3. es \in Seq(A) /\ Len(es) = n
    BY <1>2, <2>2, SMTT(30)
  <2>. QED
    BY <2>3 DEF A
<1>10. PairsOf(pairs, ks, ms, n)
  <2>1. \A j \in 1 .. n : <<ks[j], ms[j]>> = <<t[j][1], m[t[j][2]]>>
    BY Zenon
  <2> HIDE DEF ks, ms
  <2>2. ASSUME NEW j \in 1 .. n
        PROVE  <<ks[j], ms[j]>> \in pairs
    <3>1. PICK i \in 1 .. n : t[j] = v[i]
      BY <1>6, Zenon
    <3>2. <<ks[j], ms[j]>> = <<v[i][1], m[v[i][2]]>>
      BY <2>1, <3>1, Zenon
    <3>. QED
      BY <3>2, Zenon
  <2>3. ASSUME NEW i \in 1 .. n
        PROVE  <<v[i][1], m[v[i][2]]>> \in {<<ks[j], ms[j]>> : j \in 1 .. n}
    <3>1. PICK j \in 1 .. n : t[j] = v[i]
      BY <1>6, Zenon
    <3>2. <<ks[j], ms[j]>> = <<v[i][1], m[v[i][2]]>>
      BY <2>1, <3>1, Zenon
    <3>. QED
      BY <3>2, Zenon
  <2>. QED
    BY <2>2, <2>3, Zenon DEF PairsOf
<1>11. AllPairsRead(inner, es, ks, ms, n)
  BY <1>8, Zenon DEF AllPairsRead
<1> HIDE DEF es, ks, ms, pairs
<1>12. ReadsAs(packMapHeader(n) \o Concat(es), <<"map", pairs>>, inner)
  <2>1. n <= MaxLength
    BY <1>1, Zenon DEF n
  <2>. QED
    BY <1>2, <1>9, <1>10, <1>11, <2>1, MapRead, Zenon
<1>. QED
  BY <1>3, <1>4, <1>12, Zenon

\* What encodes to what the value means.
RoundTrips(n) == \A x \in Values[n] : Understood(Encodings[n][x], Meanings[n][x], Readings[n])

\* Whatever Go value packValue writes, the receiver reads what it means, and everything after it is
\* left: for all widths, lengths and types, however deep they are nested.
THEOREM RoundTrip ==
  \A n \in Nat : RoundTrips(n)
<1> DEFINE T == {n \in Nat : RoundTrips(n)}
<1>1. RoundTrips(0)
  <2> SUFFICES ASSUME NEW x \in Values[0]
               PROVE  Understood(Encodings[0][x], Meanings[0][x], Readings[0])
    BY Zenon DEF RoundTrips
  <2> DEFINE inner == [r \in Seq(Int) |-> <<>>]
  <2>1. x \in Scalars
    BY ValuesUnfold, Zenon
  <2>2. Encodings[0][x] = Encoding(x, <<>>) /\ Meanings[0][x] = MeaningOf(x, <<>>)
    BY EncodingsUnfold, MeaningsUnfold, Zenon
  <2>3. Readings[0] = [s \in Seq(Int) |-> Reading(s, inner)]
    BY ReadingsUnfold, Zenon
  <2> HIDE DEF inner
  <2>4. ReadsAs(Encodings[0][x], Meanings[0][x], inner)
    BY <2>1, <2>2, ScalarRead, Zenon
  <2>. QED
    BY <2>3, <2>4, UnderstoodIfRead, Zenon
<1>2. ASSUME NEW n \in Nat, RoundTrips(n)
      PROVE  RoundTrips(n + 1)
  <2> DEFINE N == n + 1
             inner == Readings[n]
             e == Encodings[n]
             m == Meanings[n]
             S == Values[n]
  <2> SUFFICES ASSUME NEW x \in Values[N]
               PROVE  Understood(Encodings[N][x], Meanings[N][x], Readings[N])
    BY Zenon DEF RoundTrips
  <2>1. x \in Scalars \/ x \in Arrays(S) \/ x \in Maps(S)
    BY ValuesUnfold, Zenon
  <2>2. Encodings[N][x] = Encoding(x, e) /\ Meanings[N][x] = MeaningOf(x, m)
    <3>1. Encodings[N] = [y \in Values[N] |-> Encoding(y, e)]
      BY EncodingsUnfold, Zenon
    <3>2. Meanings[N] = [y \in Values[N] |-> MeaningOf(y, m)]
      BY MeaningsUnfold, Zenon
    <3> HIDE DEF N
    <3>. QED
      BY <3>1, <3>2, Zenon
  <2>3. Readings[N] = [s \in Seq(Int) |-> Reading(s, inner)]
    BY ReadingsUnfold, Zenon
  <2>4. \A y \in S : Understood(e[y], m[y], inner)
    BY <1>2, Zenon DEF RoundTrips
  <2>5. \A i \in Strings : Understood(packString(i), <<"string", i>>, inner)
    BY StringsUnderstood, Zenon
  <2> HIDE DEF inner, e, m, S, N
  <2>6. ReadsAs(Encoding(x, e), MeaningOf(x, m), inner)
    <3>1. CASE x \in Scalars
      BY <3>1, ScalarRead, Zenon
    <3>2. CASE x \in Arrays(S)
      BY <2>4, <3>2, NestedArrayRead, Zenon
    <3>3. CASE x \in Maps(S)
      BY <2>4, <2>5, <3>3, NestedMapRead, Zenon
    <3>. QED
      BY <2>1, <3>1, <3>2, <3>3, SMTT(30)
  <2>. QED
    BY <2>2, <2>3, <2>6, UnderstoodIfRead, Zenon
<1>3. Nat \subseteq T
  <2>1. 0 \in T
    BY <1>1
  <2>2. ASSUME NEW n \in Nat, n \in T
        PROVE  n + 1 \in T
    <3>1. n + 1 \in Nat
      OBVIOUS
    <3>. QED
      BY <1>2, <2>2, <3>1, Zenon
  <2> HIDE DEF T
  <2>. QED
    BY <2>1, <2>2, Induction
<1>. QED
  BY <1>3, Zenon

----------------------------------------------------------------------------
\* A batch.

\* A record is an array deep, and a message one deeper.
LEMMA Depths ==
  /\ MaxDepth \in Nat /\ MaxDepth - 1 \in Nat /\ (MaxDepth - 1) + 1 = MaxDepth /\ MaxDepth + 1 \in Nat
BY MessagePackAssumption, ForwardAssumption, SMTT(30)

\* Values without content have every depth.
LEMMA ScalarsWithin ==
  \A n \in Nat : Scalars \subseteq Values[n]
<1> SUFFICES ASSUME NEW n \in Nat
             PROVE  Scalars \subseteq Values[n]
  OBVIOUS
<1>1. CASE n = 0
  BY <1>1, ValuesUnfold, Zenon
<1>2. CASE n # 0
  <2>1. n - 1 \in Nat /\ (n - 1) + 1 = n
    BY <1>2
  <2>2. Values[n] = Scalars \cup Arrays(Values[n - 1]) \cup Maps(Values[n - 1])
    BY <2>1, ValuesUnfold, Zenon
  <2>. QED
    BY <2>2, Zenon
<1>. QED
  BY <1>1, <1>2, SMTT(30)

\* The records that can be packed.
Records == Maps(Values[MaxDepth - 1])

\* Records are values.
LEMMA RecordsWithin ==
  Records \subseteq Values[MaxDepth]
<1>1. Values[MaxDepth] = Scalars \cup Arrays(Values[MaxDepth - 1]) \cup Maps(Values[MaxDepth - 1])
  BY Depths, ValuesUnfold, Zenon
<1>. QED
  BY <1>1, Zenon DEF Records

\* Every encoding is one of Encoding.
LEMMA EncodedAs ==
  ASSUME NEW n \in Nat, NEW x \in Values[n]
  PROVE  \E inner : Encodings[n][x] = Encoding(x, inner)
<1>1. CASE n = 0
  BY <1>1, EncodingsUnfold, Zenon
<1>2. CASE n # 0
  <2>1. n - 1 \in Nat /\ (n - 1) + 1 = n
    BY <1>2
  <2>2. Encodings[n] = [y \in Values[n] |-> Encoding(y, Encodings[n - 1])]
    BY <2>1, EncodingsUnfold, Zenon
  <2>. QED
    BY <2>2, Zenon
<1>. QED
  BY <1>1, <1>2, SMTT(30)

\* The tag and the time are written by packString and packInt.
LEMMA TagAndTime ==
  ASSUME NEW n \in Nat, NEW i \in Strings, NEW w \in Word64
  PROVE  /\ Str(i) \in Values[n] /\ Encodings[n][Str(i)] = packString(i)
         /\ Number(w) \in Values[n] /\ Encodings[n][Number(w)] = packInt(w)
<1> DEFINE a == Str(i)
           b == Number(w)
<1>1. a \in Scalars /\ b \in Scalars
  <2>1. a \in [go : {"string"}, v : Strings]
    BY DEF Str
  <2>2. b \in [go : {"int", "uint", "float"}, v : Word64]
    BY DEF Number
  <2>. QED
    BY <2>1, <2>2, Zenon DEF Scalars
<1>2. a \in Values[n] /\ b \in Values[n]
  BY <1>1, ScalarsWithin, Zenon
<1>3. a.go = "string" /\ a.v = i /\ b.go = "int" /\ b.v = w
  BY DEF Str, Number
<1> HIDE DEF a, b
<1>4. Encodings[n][a] = packString(i)
  <2>1. PICK inner : Encodings[n][a] = Encoding(a, inner)
    BY <1>2, EncodedAs, Zenon
  <2>2. a.go \notin {"nil", "other"} /\ a.go # "bool" /\ a.go # "int" /\ a.go # "uint" /\ a.go # "float"
        /\ a.go # "array" /\ a.go # "map"
    BY <1>3
  <2>. QED
    BY <1>3, <2>1, <2>2, Zenon DEF Encoding
<1>5. Encodings[n][b] = packInt(w)
  <2>1. PICK inner : Encodings[n][b] = Encoding(b, inner)
    BY <1>2, EncodedAs, Zenon
  <2>2. b.go \notin {"nil", "other"} /\ b.go # "bool" /\ b.go # "string" /\ b.go # "uint" /\ b.go # "float"
        /\ b.go # "array" /\ b.go # "map"
    BY <1>3
  <2>. QED
    BY <1>3, <2>1, <2>2, Zenon DEF Encoding
<1>. QED
  BY <1>2, <1>4, <1>5, SMTT(30) DEF a, b

\* Three sequences, one after the other.
LEMMA ConcatThree ==
  ASSUME NEW a \in Seq(Int), NEW b \in Seq(Int), NEW c \in Seq(Int)
  PROVE  Concat(<<a, b, c>>) = (a \o b) \o c
<1> DEFINE es == <<a, b, c>>
           D == Seq(Int)
<1>1. es \in Seq(D) /\ Len(es) = 3 /\ es[1] = a /\ es[2] = b /\ es[3] = c
  <2> HIDE DEF D
  <2>1. a \in D /\ b \in D /\ c \in D
    BY DEF D
  <2>. QED
    BY <2>1
<1> HIDE DEF es
<1>2. PICK f : Joins(f, es, Int) /\ Concat(es) = f[Len(es)]
  BY <1>1, ConcatInSteps, Zenon
<1>3. f[0] = <<>> /\ f[0 + 1] = f[0] \o es[0 + 1] /\ f[1 + 1] = f[1] \o es[1 + 1] /\ f[2 + 1] = f[2] \o es[2 + 1]
  <2>1. 0 \in Nat /\ 1 \in Nat /\ 2 \in Nat /\ 0 < Len(es) /\ 1 < Len(es) /\ 2 < Len(es)
    BY <1>1
  <2>. QED
    BY <1>2, <2>1, Zenon DEF Joins
<1>4. 0 + 1 = 1 /\ 1 + 1 = 2 /\ 2 + 1 = 3
  OBVIOUS
<1>5. <<>> \o a = a
  OBVIOUS
<1>6. f[1] = <<>> \o a /\ f[2] = f[1] \o b /\ f[3] = f[2] \o c
  BY <1>1, <1>3, <1>4, Zenon
<1>. QED
  BY <1>1, <1>2, <1>5, <1>6, Zenon DEF es

\* packForwardMessage writes the array [tag, time, record].
LEMMA MessageEncoded ==
  ASSUME NEW w \in Word64, NEW r \in Records, NEW m, m = <<w, r>>
  PROVE  /\ Message(m) \in Values[MaxDepth + 1]
         /\ Encodings[MaxDepth + 1][Message(m)] = packForwardMessage(Tag, w, r)
<1> DEFINE V == Values[MaxDepth]
           e == Encodings[MaxDepth]
           x == Message(m)
           v == <<Str(Tag), Number(w), r>>
           N == MaxDepth + 1
<1>1. m[1] = w /\ m[2] = r
  OBVIOUS
<1>2. x.go = "array" /\ x.v = v /\ x = [go |-> "array", v |-> v]
  BY <1>1 DEF Message
<1>3. /\ Str(Tag) \in V /\ e[Str(Tag)] = packString(Tag)
      /\ Number(w) \in V /\ e[Number(w)] = packInt(w) /\ r \in V
  BY Depths, ForwardAssumption, TagAndTime, RecordsWithin, Zenon
<1>4. v \in Seq(V) /\ Len(v) = 3 /\ v[1] = Str(Tag) /\ v[2] = Number(w) /\ v[3] = r
  <2> HIDE DEF V
  <2>. QED
    BY <1>3
<1> HIDE DEF x, v
<1>5. x \in Arrays(V)
  <2>1. 3 <= MaxLength
    BY DEF MaxLength
  <2>2. v \in {s \in Seq(V) : Len(s) <= MaxLength}
    BY <1>4, <2>1, Zenon
  <2> DEFINE A == {s \in Seq(V) : Len(s) <= MaxLength}
  <2> HIDE DEF A
  <2>3. [go |-> "array", v |-> v] \in [go : {"array"}, v : A]
    BY <2>2 DEF A
  <2>. QED
    BY <1>2, <2>3, Zenon DEF Arrays, A
<1>6. x \in Values[N]
  <2>1. Values[MaxDepth + 1] = Scalars \cup Arrays(V) \cup Maps(V)
    BY Depths, ValuesUnfold, Zenon
  <2>. QED
    BY <1>5, <2>1, Zenon
<1>7. Encodings[N][x] = Encoding(x, e)
  <2>1. Encodings[N] = [y \in Values[N] |-> Encoding(y, e)]
    BY Depths, EncodingsUnfold, Zenon
  <2> HIDE DEF N, e
  <2>. QED
    BY <1>6, <2>1, Zenon
<1> DEFINE es == [k \in 1 .. Len(x.v) |-> e[x.v[k]]]
<1>8. Encoding(x, e) = packArrayHeader(Len(x.v)) \o Concat(es)
  <2>1. x.go \notin {"nil", "other"} /\ x.go # "bool" /\ x.go # "string" /\ x.go # "int" /\ x.go # "uint"
        /\ x.go # "float" /\ x.go # "map"
    BY <1>2
  <2>. QED
    BY <1>2, <2>1, Zenon DEF Encoding
<1>9. es = <<packString(Tag), packInt(w), e[r]>>
  BY <1>2, <1>3, <1>4, SMTT(30)
<1> DEFINE h == packArrayHeader(3)
           a == packString(Tag)
           b == packInt(w)
           c == packValue(r)
<1>10. h \in Seq(Int) /\ a \in Seq(Int) /\ b \in Seq(Int) /\ c \in Seq(Int)
  <2>1. /\ Understood(a, Meanings[MaxDepth][Str(Tag)], Readings[MaxDepth])
        /\ Understood(b, Meanings[MaxDepth][Number(w)], Readings[MaxDepth])
        /\ Understood(e[r], Meanings[MaxDepth][r], Readings[MaxDepth])
    BY <1>3, Depths, RoundTrip, Zenon DEF RoundTrips
  <2>2. a \in Seq(Symbols) /\ b \in Seq(Symbols) /\ c \in Seq(Symbols)
    BY <2>1, Zenon DEF Understood, packValue
  <2>3. 3 \in Nat /\ 3 <= MaxLength
    BY DEF MaxLength
  <2>4. h \in Seq(Byte)
    BY <2>3, HeaderAnnounces, Zenon DEF Announces
  <2> HIDE DEF a, b, c, h
  <2>. QED
    BY <2>2, <2>4, StringsAreInts, Wider, Zenon
<1>11. packForwardMessage(Tag, w, r) = ((h \o a) \o b) \o c
  BY Zenon DEF packForwardMessage
<1>12. Encoding(x, e) = h \o Concat(<<a, b, c>>)
  BY <1>2, <1>4, <1>8, <1>9, Zenon DEF packValue
<1> HIDE DEF h, a, b, c, es
<1>13. ((h \o a) \o b) \o c = h \o ((a \o b) \o c)
  <2>1. (h \o a) \o b = h \o (a \o b) /\ a \o b \in Seq(Int)
    BY <1>10, Regrouped, ZenonT(30)
  <2>2. (h \o (a \o b)) \o c = h \o ((a \o b) \o c)
    <3> DEFINE q == a \o b
    <3>1. h \in Seq(Int) /\ q \in Seq(Int) /\ c \in Seq(Int)
      BY <1>10, <2>1
    <3> HIDE DEF q
    <3>2. (h \o q) \o c = h \o (q \o c)
      BY <3>1, Regrouped, Zenon
    <3>. QED
      BY <3>2 DEF q
  <2>. QED
    BY <2>1, <2>2, Zenon
<1>14. Concat(<<a, b, c>>) = (a \o b) \o c
  BY <1>10, ConcatThree, Zenon
<1>. QED
  BY <1>6, <1>7, <1>11, <1>12, <1>13, <1>14, Zenon DEF x, N

\* The receiver reads a message as what it means.
LEMMA MessageUnderstood ==
  ASSUME NEW w \in Word64, NEW r \in Records, NEW m, m = <<w, r>>
  PROVE  Understood(packForwardMessage(Tag, w, r), Meanings[MaxDepth + 1][Message(m)], Readings[MaxDepth + 1])
BY Depths, MessageEncoded, RoundTrip, Zenon DEF RoundTrips

\* The keys and values of a record, in some order.
Rows ==
  {s \in Seq(Strings \X Values[MaxDepth - 1]) :
     /\ Len(s) <= MaxLength
     /\ \A i, j \in 1 .. Len(s) : s[i][1] = s[j][1] => i = j}

\* Records by their rows.
LEMMA RowsAreRecords ==
  /\ \A s \in Rows : [go |-> "map", v |-> s] \in Records
  /\ \A x \in Records : x.v \in Rows
<1>1. Records = [go : {"map"}, v : Rows]
  BY Zenon DEF Records, Maps, Rows
<1>. QED
  BY <1>1

\* A map in the other order is a map.
LEMMA RowsBackwards ==
  ASSUME NEW s \in Rows
  PROVE  [k \in 1 .. Len(s) |-> s[Len(s) + 1 - k]] \in Rows
<1> DEFINE P == Strings \X Values[MaxDepth - 1]
           n == Len(s)
           t == [k \in 1 .. n |-> s[n + 1 - k]]
<1>1. s \in Seq(P) /\ n <= MaxLength /\ \A i, j \in 1 .. n : s[i][1] = s[j][1] => i = j
  BY Zenon DEF Rows
<1> HIDE DEF P
<1>2. n \in Nat /\ \A i \in 1 .. n : s[i] \in P
  BY <1>1
<1> HIDE DEF n
<1>3. \A k \in 1 .. n : n + 1 - k \in 1 .. n
  BY <1>2
<1>4. t \in Seq(P) /\ Len(t) = n
  BY <1>2, <1>3, SMTT(30)
<1>5. ASSUME NEW i \in 1 .. n, NEW j \in 1 .. n, t[i][1] = t[j][1]
      PROVE  i = j
  <2>1. t[i] = s[n + 1 - i] /\ t[j] = s[n + 1 - j]
    OBVIOUS
  <2>2. n + 1 - i = n + 1 - j
    BY <1>1, <1>3, <1>5, <2>1, Zenon DEF n
  <2>. QED
    BY <1>2, <2>2, SMTT(30)
<1> HIDE DEF t
<1>6. t \in Rows
  BY <1>1, <1>4, <1>5, Zenon DEF Rows, P
<1>. QED
  BY <1>6, Zenon DEF t, n

\* The fields of a record, in the order of Record.
Fields == <<"time", "method", "path", "backend", "status", "duration_ms", "level", "retries">>

\* The fields of a log entry have names of their own.
LEMMA FieldNames ==
  /\ \A i, j \in 1 .. 8 : Key[Fields[i]] = Key[Fields[j]] => i = j
  /\ \A i \in 1 .. 8 : Key[Fields[i]] \in Strings
<1> DEFINE D == {"time", "method", "path", "backend", "status", "duration_ms", "level", "retries"}
<1>1. DOMAIN Key = D /\ \A f \in D : Key[f] \in Strings
  BY ForwardAssumption
<1>2. \A f, g \in D : Key[f] = Key[g] => f = g
  BY <1>1, ForwardAssumption, SMTT(30)
<1>3. \A i \in 1 .. 8 : Fields[i] \in D
  BY DEF Fields
<1>4. \A i, j \in 1 .. 8 : Fields[i] = Fields[j] => i = j
  BY DEF Fields
<1> HIDE DEF D
<1>. QED
  BY <1>1, <1>2, <1>3, <1>4, Zenon

\* LogEntry.Record makes a record of every entry, with and without retries.
LEMMA EntryRows ==
  ASSUME NEW e \in LogEntries
  PROVE  e.unix \in Word64 /\ Record(e).v \in Rows
<1> DEFINE V == Values[MaxDepth - 1]
           P == Strings \X V
           a == <<<<Key.time, Str(e.time)>>, <<Key.method, Str(e.method)>>,
                  <<Key.path, Str(e.path)>>, <<Key.backend, Str(e.backend)>>,
                  <<Key.status, Number(e.status)>>, <<Key.duration_ms, Number(e.duration_ms)>>,
                  <<Key.level, Str(e.level)>>>>
           last == <<Key.retries, Number(e.retries)>>
           b == IF e.retries = <<0, 0, 0, 0>> \/ Negative(e.retries) THEN <<>> ELSE <<last>>
           s == a \o b
<1>1. /\ e.unix \in Word64 /\ e.status \in Word64 /\ e.duration_ms \in Word64 /\ e.retries \in Word64
      /\ e.time \in Strings /\ e.method \in Strings /\ e.path \in Strings /\ e.backend \in Strings
      /\ e.level \in Strings
  BY ForwardAssumption, SMTT(30)
<1>2. /\ Key.time \in Strings /\ Key.method \in Strings /\ Key.path \in Strings /\ Key.backend \in Strings
      /\ Key.status \in Strings /\ Key.duration_ms \in Strings /\ Key.level \in Strings /\ Key.retries \in Strings
  BY ForwardAssumption
<1>3. (\A i \in Strings : Str(i) \in V) /\ \A w \in Word64 : Number(w) \in V
  <2>1. \A i \in Strings, w \in Word64 : Str(i) \in V /\ Number(w) \in V
    BY Depths, TagAndTime, Zenon
  <2>. QED
    BY <1>1, <2>1, Zenon
<1> HIDE DEF V
<1>4. /\ <<Key.time, Str(e.time)>> \in P /\ <<Key.method, Str(e.method)>> \in P
      /\ <<Key.path, Str(e.path)>> \in P /\ <<Key.backend, Str(e.backend)>> \in P
      /\ <<Key.status, Number(e.status)>> \in P /\ <<Key.duration_ms, Number(e.duration_ms)>> \in P
      /\ <<Key.level, Str(e.level)>> \in P /\ last \in P
  BY <1>1, <1>2, <1>3, SMTT(30)
<1>5. /\ a[1][1] = Key[Fields[1]] /\ a[2][1] = Key[Fields[2]] /\ a[3][1] = Key[Fields[3]] /\ a[4][1] = Key[Fields[4]]
      /\ a[5][1] = Key[Fields[5]] /\ a[6][1] = Key[Fields[6]] /\ a[7][1] = Key[Fields[7]] /\ last[1] = Key[Fields[8]]
  BY DEF Fields
<1> HIDE DEF P
<1>6. a \in Seq(P) /\ Len(a) = 7 /\ b \in Seq(P) /\ (b = <<>> \/ (Len(b) = 1 /\ b[1] = last))
  BY <1>4, SMTT(30)
<1>7. Record(e).v = s
  BY DEF Record
<1> HIDE DEF a, b, last
<1>8. s \in Seq(P) /\ Len(s) = 7 + Len(b)
      /\ \A i \in 1 .. 7 + Len(b) : s[i] = IF i <= 7 THEN a[i] ELSE b[i - 7]
  <2>1. s \in Seq(P) /\ Len(s) = Len(a) + Len(b)
        /\ \A i \in 1 .. Len(a) + Len(b) : s[i] = IF i <= Len(a) THEN a[i] ELSE b[i - Len(a)]
    BY <1>6, OneAfterOther, Zenon
  <2> HIDE DEF s
  <2>. QED
    BY <1>6, <2>1, Zenon
<1>9. Len(s) \in {7, 8}
  BY <1>6, <1>8
<1>10. \A i \in 1 .. 7 : a[i][1] = Key[Fields[i]]
  BY <1>5
<1>11. \A i \in 1 .. Len(s) : s[i][1] = Key[Fields[i]] /\ i \in 1 .. 8
  <2> SUFFICES ASSUME NEW i \in 1 .. Len(s)
               PROVE  s[i][1] = Key[Fields[i]] /\ i \in 1 .. 8
    OBVIOUS
  <2>1. CASE i <= 7
    <3>1. i \in 1 .. 7 /\ i \in 1 .. 8 /\ s[i] = a[i]
      BY <1>6, <1>8, <1>9, <2>1, SMTT(30)
    <3>. QED
      BY <1>10, <3>1, Zenon
  <2>2. CASE i > 7
    <3>1. i = 8 /\ Len(s) = 8 /\ Len(b) = 1
      BY <1>6, <1>8, <1>9, <2>2, SMTT(30)
    <3>2. s[8] = b[1] /\ b[1] = last
      <4>1. 8 \in 1 .. 7 + Len(b) /\ ~(8 <= 7) /\ 8 - 7 = 1
        BY <3>1, SMTT(30)
      <4>2. s[8] = b[8 - 7]
        BY <1>8, <4>1, Zenon
      <4>3. b # <<>>
        BY <3>1
      <4>. QED
        BY <1>6, <4>1, <4>2, <4>3, ZenonT(30)
    <3>3. i \in 1 .. 8
      BY <3>1, SMTT(30)
    <3>. QED
      BY <1>5, <3>1, <3>2, <3>3, Zenon
  <2>. QED
    BY <1>9, <2>1, <2>2, SMTT(30)
<1> HIDE DEF s
<1>12. ASSUME NEW i \in 1 .. Len(s), NEW j \in 1 .. Len(s), s[i][1] = s[j][1]
       PROVE  i = j
  <2>1. Key[Fields[i]] = Key[Fields[j]] /\ i \in 1 .. 8 /\ j \in 1 .. 8
    BY <1>11, <1>12, Zenon
  <2>. QED
    BY <2>1, FieldNames, Zenon
<1>13. Len(s) <= MaxLength
  <2>1. 7 <= MaxLength /\ 8 <= MaxLength
    BY SMT DEF MaxLength
  <2>. QED
    BY <1>9, <2>1, ZenonT(30)
<1>14. s \in Rows
  BY <1>8, <1>12, <1>13, Zenon DEF Rows, P, V
<1>. QED
  BY <1>1, <1>7, <1>14, Zenon

----------------------------------------------------------------------------

\* Every message is the encoding of its record, and the receiver has some of the
\* first bytes; none before the one write.
FInv ==
  /\ messages \in Seq(Word64 \X Records) /\ buf \in Seq(Seq(Symbols))
  /\ Len(messages) = Len(buf) /\ Len(buf) <= MaxBatch
  /\ \A k \in 1 .. Len(buf) : buf[k] = packForwardMessage(Tag, messages[k][1], messages[k][2])
  /\ conn \in {"none", "open", "closed"}
  /\ \E n \in 0 .. Len(Concat(buf)) : wire = SubSeq(Concat(buf), 1, n)
  /\ conn # "closed" => wire = <<>>

\* Before the write nothing is on the wire.
LEMMA NothingYet ==
  ASSUME NEW b \in Seq(Seq(Symbols))
  PROVE  0 \in 0 .. Len(Concat(b)) /\ SubSeq(Concat(b), 1, 0) = <<>>
<1>1. Concat(b) \in Seq(Symbols)
  BY ConcatSymbols
<1>. QED
  BY <1>1

\* Packing one more entry keeps the invariant.
LEMMA PackKeeps ==
  ASSUME FInv, NEW unix \in Word64, NEW pairs \in Rows, Pack(unix, pairs)
  PROVE  FInv'
<1> DEFINE P == Word64 \X Records
           S == Seq(Symbols)
<1>1. PICK order \in {pairs, [k \in 1 .. Len(pairs) |-> pairs[Len(pairs) + 1 - k]]} :
        /\ messages' = Append(messages, <<unix, [go |-> "map", v |-> order]>>)
        /\ buf' = Append(buf, packForwardMessage(Tag, unix, [go |-> "map", v |-> order]))
  BY Zenon DEF Pack
<1>2. conn = "open" /\ Len(messages) < MaxBatch /\ wire' = wire /\ conn' = conn
  BY Zenon DEF Pack
<1> DEFINE r == [go |-> "map", v |-> order]
           m == <<unix, r>>
           e == packForwardMessage(Tag, unix, r)
<1>3. r \in Records
  <2>1. order \in Rows
    BY <1>1, RowsBackwards, ZenonT(30)
  <2>. QED
    BY <2>1, RowsAreRecords, Zenon
<1>4. m \in P /\ e \in S /\ m[1] = unix /\ m[2] = r
  <2>1. e \in S
    BY <1>3, MessageUnderstood, ZenonT(30) DEF Understood
  <2> HIDE DEF r, e
  <2>. QED
    BY <1>3, <2>1, SMTT(30)
<1>5. /\ messages \in Seq(P) /\ buf \in Seq(S) /\ Len(messages) = Len(buf) /\ Len(buf) <= MaxBatch
      /\ \A k \in 1 .. Len(buf) : buf[k] = packForwardMessage(Tag, messages[k][1], messages[k][2])
      /\ wire = <<>>
  BY <1>2 DEF FInv
<1>6. messages' = Append(messages, m) /\ buf' = Append(buf, e)
  BY <1>1, Zenon
<1>15. e = packForwardMessage(Tag, m[1], m[2])
  BY <1>4, Zenon
<1> HIDE DEF m, e, P, S, r
<1>7. /\ messages' \in Seq(P) /\ Len(messages') = Len(messages) + 1 /\ Len(messages) \in Nat
      /\ \A k \in 1 .. Len(messages) + 1 : messages'[k] = IF k = Len(messages) + 1 THEN m ELSE messages[k]
  BY <1>4, <1>5, <1>6, OneMoreElement, SMTT(30)
<1>8. /\ buf' \in Seq(S) /\ Len(buf') = Len(buf) + 1
      /\ \A k \in 1 .. Len(buf) + 1 : buf'[k] = IF k = Len(buf) + 1 THEN e ELSE buf[k]
  BY <1>4, <1>5, <1>6, OneMoreElement, SMTT(30)
<1>9. Len(messages') = Len(buf') /\ Len(buf') <= MaxBatch
  BY <1>2, <1>5, <1>7, <1>8, ForwardAssumption, SMTT(30)
<1>10. ASSUME NEW k \in 1 .. Len(buf')
       PROVE  buf'[k] = packForwardMessage(Tag, messages'[k][1], messages'[k][2])
  <2>1. CASE k = Len(buf) + 1
    <3>1. buf'[k] = e /\ messages'[k] = m
      BY <1>5, <1>7, <1>8, <2>1, SMTT(30)
    <3>. QED
      BY <1>15, <3>1, Zenon
  <2>2. CASE k # Len(buf) + 1
    <3>1. k \in 1 .. Len(buf) /\ buf'[k] = buf[k] /\ messages'[k] = messages[k]
      BY <1>5, <1>7, <1>8, <2>2, SMTT(30)
    <3>. QED
      BY <1>5, <3>1, ZenonT(30)
  <2>. QED
    BY <2>1, <2>2, SMTT(30)
<1>11. \E n \in 0 .. Len(Concat(buf')) : wire' = SubSeq(Concat(buf'), 1, n)
  <2>1. 0 \in 0 .. Len(Concat(buf')) /\ SubSeq(Concat(buf'), 1, 0) = <<>>
    BY <1>8, NothingYet, SMTT(30) DEF S
  <2>2. wire' = <<>>
    BY <1>2, <1>5, SMTT(30)
  <2>. QED
    BY <2>1, <2>2, ZenonT(30)
<1>12. conn' \in {"none", "open", "closed"} /\ wire' = <<>>
  BY <1>2, <1>5, SMTT(30)
<1>. QED
  BY <1>7, <1>8, <1>9, <1>10, <1>11, <1>12, Zenon DEF FInv, P, S

\* The invariant holds before the dial.
LEMMA FInvInit ==
  ASSUME Init
  PROVE  FInv
<1>1. messages = <<>> /\ buf = <<>> /\ wire = <<>> /\ conn = "none"
  BY DEF Init
<1> DEFINE P == Word64 \X Records
           S == Seq(Symbols)
<1> HIDE DEF P, S
<1>2. messages \in Seq(P) /\ buf \in Seq(S) /\ Len(messages) = 0 /\ Len(buf) = 0 /\ Len(buf) <= MaxBatch
  BY <1>1, ForwardAssumption, SMTT(30)
<1>3. \A k \in 1 .. Len(buf) : FALSE
  BY <1>2
<1>4. 0 \in 0 .. Len(Concat(buf)) /\ SubSeq(Concat(buf), 1, 0) = <<>>
  BY <1>2, NothingYet, SMTT(30) DEF S
<1>5. conn \in {"none", "open", "closed"}
  BY <1>1
<1>. QED
  BY <1>1, <1>2, <1>3, <1>4, <1>5, Zenon DEF FInv, P, S

\* Every step of forward keeps it.
LEMMA FInvNext ==
  ASSUME FInv, [Next]_vars
  PROVE  FInv'
<1>1. CASE Dial
  <2>1. messages' = messages /\ buf' = buf /\ wire' = wire /\ wire = <<>> /\ conn' \in {"none", "open", "closed"}
    BY <1>1 DEF Dial, FInv
  <2>. QED
    BY <2>1, Zenon DEF FInv
<1>2. CASE Send
  <2>1. /\ messages' = messages /\ buf' = buf /\ conn' = "closed"
        /\ \E n \in 0 .. Len(Concat(buf)) : wire' = SubSeq(Concat(buf), 1, n)
    BY <1>2, Zenon DEF Send
  <2>2. conn' \in {"none", "open", "closed"}
    BY <2>1
  <2>. QED
    BY <2>1, <2>2, Zenon DEF FInv
<1>3. ASSUME NEW e \in LogEntries, Pack(e.unix, Record(e).v)
      PROVE  FInv'
  <2>1. e.unix \in Word64 /\ Record(e).v \in Rows
    BY EntryRows
  <2>. QED
    BY <1>3, <2>1, PackKeeps, Zenon
<1>4. ASSUME NEW m \in Others, Pack(m[1], m[2].v)
      PROVE  FInv'
  <2>1. m \in Word64 \X Records
    BY ForwardAssumption, Zenon DEF Records
  <2>2. m[1] \in Word64 /\ m[2] \in Records
    BY <2>1
  <2>3. m[2].v \in Rows
    BY <2>2, RowsAreRecords, Zenon
  <2>. QED
    BY <1>4, <2>2, <2>3, PackKeeps, Zenon
<1>5. CASE UNCHANGED vars
  <2>1. messages' = messages /\ buf' = buf /\ wire' = wire /\ conn' = conn
    BY <1>5 DEF vars
  <2>. QED
    BY <2>1, Zenon DEF FInv
<1>. QED
  BY <1>1, <1>2, <1>3, <1>4, <1>5, Zenon DEF Next

\* The invariant holds always.
LEMMA FInvAlways ==
  Spec => []FInv
<1>1. Init => FInv
  BY FInvInit
<1>2. FInv /\ [Next]_vars => FInv'
  BY FInvNext
<1>. QED
  BY <1>1, <1>2, PTL DEF Spec

\* Messages and encodings are as many, within a batch, and of bytes and bodies only.
THEOREM TypeCorrect ==
  Spec => []TypeOK
<1>1. FInv => TypeOK
  <2> SUFFICES ASSUME FInv
               PROVE  TypeOK
    OBVIOUS
  <2>1. ASSUME NEW k \in 1 .. Len(buf), NEW i \in 1 .. Len(buf[k])
        PROVE  buf[k][i] \in Byte \/ -buf[k][i] \in Strings
    <3> DEFINE b == buf[k]
    <3>1. b \in Seq(Symbols)
      <4> DEFINE S == Seq(Symbols)
      <4>1. buf \in Seq(S)
        BY DEF FInv
      <4> HIDE DEF S
      <4>2. b \in S
        BY <4>1
      <4>. QED
        BY <4>2, SMTT(30) DEF S
    <3>2. b[i] \in Symbols
      BY <3>1, SMTT(30)
    <3> HIDE DEF b
    <3>3. CASE b[i] \in Byte
      BY <3>3, SMTT(30) DEF b
    <3>4. CASE \E j \in Strings : b[i] = -j
      <4>1. PICK j \in Strings : b[i] = -j
        BY <3>4, SMTT(30)
      <4>2. j \in Nat
        BY StringsAreInts, Zenon
      <4>3. -b[i] = j
        BY <4>1, <4>2, SMTT(30)
      <4>. QED
        BY <4>3, SMTT(30) DEF b
    <3>. QED
      BY <3>2, <3>3, <3>4, Zenon DEF Symbols
  <2>. QED
    BY <2>1, Zenon DEF TypeOK, FInv
<1>. QED
  BY <1>1, FInvAlways, PTL

\* Every encoding in the buffer is understood as the message that was packed.
LEMMA AllMeant ==
  ASSUME FInv
  PROVE  \A k \in 1 .. Len(buf) : Understood(buf[k], Meant[k], Readings[MaxDepth + 1])
<1> SUFFICES ASSUME NEW k \in 1 .. Len(buf)
             PROVE  Understood(buf[k], Meant[k], Readings[MaxDepth + 1])
  OBVIOUS
<1> DEFINE m == messages[k]
           P == Word64 \X Records
<1>1. messages \in Seq(P) /\ Len(messages) = Len(buf)
      /\ buf[k] = packForwardMessage(Tag, m[1], m[2])
  BY Zenon DEF FInv
<1>2. Meant[k] = Meanings[MaxDepth + 1][Message(m)]
  BY <1>1, Zenon DEF Meant
<1>3. m \in P
  <2> HIDE DEF P
  <2>. QED
    BY <1>1, SMTT(30)
<1> HIDE DEF m
<1>4. m[1] \in Word64 /\ m[2] \in Records /\ m = <<m[1], m[2]>>
  BY <1>3, SMTT(30)
<1>. QED
  BY <1>1, <1>2, <1>4, MessageUnderstood, ZenonT(30)

\* For every batch of every size and every place at which the connection breaks, the receiver reads
\* the messages that forward packed, in order and unchanged, up to the last complete one.
THEOREM MessagesReadBack ==
  Spec => []ReadBack
<1>1. FInv => ReadBack
  <2> SUFFICES ASSUME FInv
               PROVE  ReadBack
    OBVIOUS
  <2> DEFINE B == Concat(buf)
             M == Meant
             limit == MaxBatch + 1
             R == Readings[MaxDepth + 1]
  <2>1. buf \in Seq(Seq(Symbols)) /\ Len(messages) = Len(buf) /\ Len(buf) <= MaxBatch
    BY DEF FInv
  <2>2. \A k \in 1 .. Len(buf) : Understood(buf[k], M[k], R)
    BY AllMeant
  <2>3. B \in Seq(Int)
    <3>1. B \in Seq(Symbols)
      BY <2>1, ConcatSymbols
    <3>. QED
      BY <3>1, StringsAreInts, Wider, Zenon
  <2>4. limit \in Nat /\ Len(buf) < limit /\ Len(buf) \in Nat
    BY <2>1, ForwardAssumption, SMTT(30)
  <2>5. M = [j \in 1 .. Len(buf) |-> M[j]] /\ Len(M) = Len(buf)
    BY <2>1, <2>4, SMTT(30) DEF Meant
  <2> HIDE DEF M, B, limit
  <2>6. Stream(B, limit) = M
    <3>1. Sent(buf, M, B, <<>>)
      <4>1. B \o <<>> = B /\ <<>> \in Seq(Int)
        BY <2>3
      <4>. QED
        BY <2>1, <2>2, <2>3, <4>1, Zenon DEF Sent, B
    <3>2. PICK n \in 0 .. Len(buf) :
            First(Stream(B, limit), M, n) /\ (<<>> = <<>> => n = Len(buf))
      BY <2>4, <3>1, StreamRead, Zenon
    <3>. QED
      BY <2>5, <3>2, Zenon DEF First
  <2>7. \E n \in 0 .. Len(M) : Stream(wire, limit) = SubSeq(M, 1, n)
    <3>1. PICK k \in 0 .. Len(B) : wire = SubSeq(B, 1, k)
      BY Zenon DEF FInv, B
    <3> DEFINE missing == SubSeq(B, k + 1, Len(B))
    <3>2. wire \in Seq(Int) /\ missing \in Seq(Int) /\ wire \o missing = B
      <4>1. k \in Nat /\ k <= Len(B)
        BY <2>3, SMTT(30)
      <4>. QED
        BY <2>3, <3>1, <4>1, SplitAt, Zenon
    <3> HIDE DEF missing
    <3>3. Sent(buf, M, wire, missing)
      BY <2>1, <2>2, <3>2, Zenon DEF Sent, B
    <3>4. PICK n \in 0 .. Len(buf) : First(Stream(wire, limit), M, n)
      BY <2>4, <3>3, StreamRead, Zenon
    <3>5. SubSeq(M, 1, n) = [j \in 1 .. n |-> M[j]]
      BY <2>4, <2>5, SMTT(30)
    <3>. QED
      BY <2>5, <3>4, <3>5, Zenon DEF First
  <2>. QED
    BY <2>6, <2>7, Zenon DEF ReadBack, M, B, limit
<1>. QED
  BY <1>1, FInvAlways, PTL

\* Two messages of a batch with the same meaning are the same bytes, whatever order Go iterated
\* their maps in (packMap sorts the keys).
THEOREM EqualRecordsEqualBytes ==
  Spec => []StableBytes
<1>1. FInv => StableBytes
  <2> SUFFICES ASSUME FInv, NEW i \in 1 .. Len(buf), NEW j \in 1 .. Len(buf), Meant[i] = Meant[j]
               PROVE  buf[i] = buf[j]
    BY Zenon DEF StableBytes
  <2> DEFINE D == MaxDepth + 1
             x(k) == Message(messages[k])
  <2>1. ASSUME NEW k \in 1 .. Len(buf)
        PROVE  x(k) \in Values[D] /\ buf[k] = Encodings[D][x(k)] /\ Meant[k] = Meanings[D][x(k)]
    <3> DEFINE m == messages[k]
               P == Word64 \X Records
    <3>1. messages \in Seq(P) /\ Len(messages) = Len(buf)
          /\ buf[k] = packForwardMessage(Tag, m[1], m[2])
      BY Zenon DEF FInv
    <3>2. Meant[k] = Meanings[D][x(k)]
      BY <3>1, Zenon DEF Meant
    <3>3. m \in P
      <4> HIDE DEF P
      <4>. QED
        BY <3>1
    <3> HIDE DEF m
    <3>4. m[1] \in Word64 /\ m[2] \in Records /\ m = <<m[1], m[2]>>
      BY <3>3
    <3>5. Message(m) \in Values[D] /\ Encodings[D][Message(m)] = packForwardMessage(Tag, m[1], m[2])
      BY <3>4, MessageEncoded, Zenon
    <3>. QED
      BY <3>1, <3>2, <3>5, Zenon DEF m
  <2>2. Agrees(Values[D], Encodings[D], Meanings[D])
    BY Depths, SameBytes, Zenon
  <2> HIDE DEF x, D
  <2>3. x(i) \in Values[D] /\ x(j) \in Values[D] /\ Meanings[D][x(i)] = Meanings[D][x(j)]
    BY <2>1, Zenon
  <2>4. Encodings[D][x(i)] = Encodings[D][x(j)]
    BY <2>2, <2>3, Zenon DEF Agrees
  <2>. QED
    BY <2>1, <2>4, Zenon
<1>. QED
  BY <1>1, FInvAlways, PTL

\* The forms of a number are bytes.
LEMMA FormsAreBytes ==
  ASSUME NEW w \in Word64, NEW f \in Forms(w)
  PROVE  f \in Seq(Byte)
<1> DEFINE q == writeUint64(w)
<1>1. q \in Seq(Byte) /\ Len(q) = 8
  BY Bytes64
<1> HIDE DEF q
<1>2. ASSUME NEW n \in {1, 2, 4, 8}
      PROVE  Low(w, n) \in Seq(Byte)
  <2>1. SubSeq(q, 9 - n, 8) \in Seq(Byte)
    BY <1>1, LastBytes, Zenon
  <2>. QED
    BY <2>1, Zenon DEF Low, q
<1>3. CASE f = Low(w, 1)
  BY <1>2, <1>3, SMTT(30)
<1>4. CASE \E t \in {203, 207}, i \in 1 .. 4 : f = <<t + i>> \o Low(w, Width[i])
  <2>1. PICK t \in {203, 207}, i \in 1 .. 4 : f = <<t + i>> \o Low(w, Width[i])
    BY <1>4, Zenon
  <2>2. t + i \in Byte /\ Width[i] \in {1, 2, 4, 8}
    BY DEF Byte, Width
  <2>3. Low(w, Width[i]) \in Seq(Byte)
    BY <1>2, <2>2, Zenon
  <2> DEFINE a == t + i
             e == Low(w, Width[i])
  <2> HIDE DEF a, e
  <2>4. <<a>> \o e \in Seq(Byte)
    BY <2>2, <2>3, OneByteMore, Zenon DEF a, e
  <2>. QED
    BY <2>1, <2>4, ZenonT(30) DEF a, e
<1> DEFINE T == {203, 207}
           I == 1 .. 4
           G(t, i) == <<t + i>> \o Low(w, Width[i])
<1>5. Forms(w) = {Low(w, 1)} \cup {G(t, i) : t \in T, i \in I}
  BY DEF Forms
<1>6. f = Low(w, 1) \/ \E t \in T, i \in I : f = G(t, i)
  <2> HIDE DEF T, I, G
  <2>. QED
    BY <1>5
<1>. QED
  BY <1>3, <1>4, <1>6, Zenon

\* An int means its sign and its number.
LEMMA IntegerMeans ==
  ASSUME NEW x, NEW m, x.go = "int"
  PROVE  MeaningOf(x, m) = <<Sign(x.v), x.v>>
BY Zenon DEF MeaningOf

\* No form of a time that reads as that time is shorter than the one packInt chose.
THEOREM NarrowestForm ==
  Spec => []Narrowest
<1>1. FInv => Narrowest
  <2> SUFFICES ASSUME FInv, NEW k \in 1 .. Len(messages), NEW f \in Forms(messages[k][1]),
                      Decode(f) = <<MeaningOf(Number(messages[k][1]), <<>>), <<>>>>
               PROVE  Len(packInt(messages[k][1])) <= Len(f)
    BY Zenon DEF Narrowest
  <2> DEFINE m == messages[k]
             w == m[1]
             P == Word64 \X Records
  <2>1. m \in P
    <3>1. messages \in Seq(P)
      BY Zenon DEF FInv
    <3> HIDE DEF P
    <3>. QED
      BY <3>1
  <2>2. w \in Word64
    <3> HIDE DEF m
    <3>. QED
      BY <2>1, SMTT(30)
  <2>3. f \in Forms(w) /\ Decode(f) = <<MeaningOf(Number(w), <<>>), <<>>>>
    OBVIOUS
  <2> HIDE DEF w
  <2>4. MeaningOf(Number(w), <<>>) = <<Sign(w), w>>
    <3>1. Number(w).go = "int" /\ Number(w).v = w
      BY DEF Number
    <3> DEFINE x == Number(w)
    <3>2. x.go = "int" /\ x.v = w
      BY <3>1
    <3> HIDE DEF x
    <3>3. MeaningOf(x, <<>>) = <<Sign(x.v), x.v>>
      BY <3>2, IntegerMeans, Zenon
    <3>4. MeaningOf(x, <<>>) = <<Sign(w), w>>
      BY <3>2, <3>3, Zenon
    <3>. QED
      BY <3>4, SMTT(30) DEF x
  <2>5. f \in Seq(Byte)
    BY <2>2, <2>3, FormsAreBytes, Zenon
  <2>6. Got(Decode(f), <<Sign(w), w>>, <<>>)
    BY <2>3, <2>4, Zenon DEF Got
  <2>7. Len(packInt(w)) <= Len(f)
    BY <2>2, <2>5, <2>6, NothingShorter, Zenon
  <2>. QED
    BY <2>7 DEF w
<1>. QED
  BY <1>1, FInvAlways, PTL
=============================================================================
