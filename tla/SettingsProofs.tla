--------------------------- MODULE SettingsProofs --------------------------
(***************************************************************************)
(* Theorems about Settings, ConfigFile and Commands for every set of       *)
(* files, whatever numbers, texts and servers they hold, every answer of   *)
(* discovery and every schema.                                             *)
(*                                                                         *)
(* The first parts are about the loops that make a pool of a config and of *)
(* a listing: mergeEntries (cli/engine.go) and the slots of the balancers  *)
(* (internal/balancer/balancer.go), for lists of any length and any        *)
(* weights.  The model has these loops as functions on the naturals,       *)
(* defined by recursion.  Such a function exists and follows its equation; *)
(* then follows what these two compute.                                    *)
(*                                                                         *)
(* The last parts are about `haribon validate`: what the recursion of      *)
(* validateNode (internal/config/schema.go) finds, against what the schema *)
(* says of the document, one level of the tree after the other.            *)
(***************************************************************************)
EXTENDS Commands, FiniteSetTheorems, TLAPS

----------------------------------------------------------------------------
\* Sequences.

\* The empty sequence, and the others.
LEMMA NoElements ==
  ASSUME NEW S
  PROVE  <<>> \in Seq(S) /\ Len(<<>>) = 0 /\ \A s \in Seq(S) : s # <<>> => Len(s) \in Nat \ {0}
OBVIOUS

\* Sequences with the same elements are the same.
LEMMA SameElements ==
  ASSUME NEW S, NEW a \in Seq(S), NEW b \in Seq(S),
         Len(a) = Len(b), \A i \in 1 .. Len(a) : a[i] = b[i]
  PROVE  a = b
OBVIOUS

\* A sequence and one element more.
LEMMA OneMoreElement ==
  ASSUME NEW S, NEW a \in Seq(S), NEW x \in S
  PROVE  /\ Append(a, x) \in Seq(S) /\ Append(a, x) # <<>> /\ Len(Append(a, x)) = Len(a) + 1
         /\ \A i \in 1 .. Len(a) : Append(a, x)[i] = a[i]
         /\ Append(a, x)[Len(a) + 1] = x
OBVIOUS

\* One sequence after the other.
LEMMA OneAfterOther ==
  ASSUME NEW S, NEW a \in Seq(S), NEW b \in Seq(S)
  PROVE  /\ a \o b \in Seq(S) /\ Len(a \o b) = Len(a) + Len(b)
         /\ \A i \in 1 .. Len(a) + Len(b) : (a \o b)[i] = IF i <= Len(a) THEN a[i] ELSE b[i - Len(a)]
<1>1. a \o b \in Seq(S) /\ Len(a \o b) = Len(a) + Len(b)
  OBVIOUS
<1>2. ASSUME NEW i \in 1 .. Len(a) + Len(b)
      PROVE  (a \o b)[i] = IF i <= Len(a) THEN a[i] ELSE b[i - Len(a)]
  OBVIOUS
<1>. QED
  BY <1>1, <1>2

----------------------------------------------------------------------------
\* Recursion on the naturals.

\* Induction, in the form of a set: 0 is in it and, with a number, the next one.
LEMMA Induction ==
  ASSUME NEW T, 0 \in T, \A n \in Nat : n \in T => n + 1 \in T
  PROVE  Nat \subseteq T
<1> DEFINE Rest == Nat \ T
           Less == OpToRel(<, Nat)
<1> SUFFICES ASSUME Rest # {}
             PROVE  FALSE
  OBVIOUS
<1>1. \A m, n \in Nat : m < n => <<m, n>> \in Less
  BY Zenon DEF OpToRel
<1>2. PICK x \in Rest : \A y \in Rest : <<y, x>> \notin Less
  <2>1. IsWellFoundedOn(Less, Nat) /\ Rest \subseteq Nat
    BY NatLessThanWellFounded, Zenon
  <2> HIDE DEF Rest, Less
  <2>. QED
    BY <2>1, WFMin, Zenon
<1> HIDE DEF Less
<1>3. x \in Nat /\ x - 1 \in Nat /\ x - 1 < x
  OBVIOUS
<1>4. x - 1 \in T
  BY <1>1, <1>2, <1>3, Zenon
<1>5. (x - 1) + 1 \in T
  BY <1>3, <1>4
<1>. QED
  BY <1>3, <1>5

\* A set of natural numbers that is not empty has a least element.
LEMMA MinOfNaturals ==
  ASSUME NEW S \in SUBSET Nat, S # {}
  PROVE  Min(S) \in S /\ \A y \in S : Min(S) <= y
<1>1. \E x \in S : \A y \in S : x <= y
  <2> SUFFICES ASSUME ~ \E x \in S : \A y \in S : x <= y
               PROVE  FALSE
    OBVIOUS
  <2> DEFINE T == {n \in Nat : \A y \in S : n <= y}
  <2>1. 0 \in T
    OBVIOUS
  <2>2. ASSUME NEW n \in Nat, n \in T
        PROVE  n + 1 \in T
    BY <2>2
  <2>3. Nat \subseteq T
    <3> HIDE DEF T
    <3>. QED
      BY <2>1, <2>2, Induction
  <2>4. PICK y \in S : TRUE
    BY Zenon
  <2>5. y + 1 \in T
    BY <2>3
  <2>. QED
    BY <2>5
<1>. QED
  BY <1>1, Zenon DEF Min

\* f[n] is the result of the first n steps from b, h[n] being step n + 1.
Iterates(f, b, h) == f[0] = b /\ \A n \in Nat : f[n + 1] = h[n][f[n]]

\* Steps can be repeated without end: for every start and every list of steps there
\* is such an f.  (Of any two starts of it one continues the other, and every one can
\* be continued; f takes its values from them.)
LEMMA Iteration ==
  ASSUME NEW D, NEW b \in D, NEW h \in [Nat -> [D -> D]]
  PROVE  \E f \in [Nat -> D] : Iterates(f, b, h)
<1> SUFFICES \E f \in [Nat -> D] : f[0] = b /\ \A n \in Nat : f[n + 1] = h[n][f[n]]
  BY Zenon DEF Iterates
<1> DEFINE Starts(n) == {g \in [0 .. n -> D] : g[0] = b /\ \A i \in 0 .. n - 1 : g[i + 1] = h[i][g[i]]}
           Some == {n \in Nat : Starts(n) # {}}
           Same == {i \in Nat : \A m, n \in Nat : \A g \in Starts(m), k \in Starts(n) :
                                   i <= m /\ i <= n => g[i] = k[i]}
           Pick(n) == CHOOSE g : g \in Starts(n)
           f == [n \in Nat |-> Pick(n)[n]]
<1>0. \A n \in Nat : \A g : g \in Starts(n) <=>
         /\ g \in [0 .. n -> D] /\ g[0] = b
         /\ \A i \in 0 .. n - 1 : g[i + 1] = h[i][g[i]]
  BY Zenon
<1> HIDE DEF Starts
<1>1. Nat \subseteq Some
  <2>1. 0 \in Some
    <3> DEFINE g == [i \in 0 .. 0 |-> b]
    <3>1. g \in [0 .. 0 -> D] /\ g[0] = b /\ 0 .. 0 - 1 = {}
      OBVIOUS
    <3> HIDE DEF g
    <3>2. g \in Starts(0)
      BY <1>0, <3>1, Zenon
    <3>. QED
      BY <3>2
  <2>2. ASSUME NEW n \in Nat, n \in Some
        PROVE  n + 1 \in Some
    <3>1. PICK g \in Starts(n) : TRUE
      BY <2>2
    <3> DEFINE k == [i \in 0 .. n + 1 |-> IF i <= n THEN g[i] ELSE h[n][g[n]]]
    <3>2. /\ g \in [0 .. n -> D] /\ g[0] = b
          /\ \A i \in 0 .. n - 1 : g[i + 1] = h[i][g[i]]
      BY <1>0, <3>1
    <3>3. k \in [0 .. n + 1 -> D] /\ k[0] = b
      BY <3>2
    <3>4. ASSUME NEW i \in 0 .. (n + 1) - 1
          PROVE  k[i + 1] = h[i][k[i]]
      <4>1. k[i] = g[i] /\ k[i + 1] = IF i < n THEN g[i + 1] ELSE h[n][g[n]]
        OBVIOUS
      <4>2. CASE i < n
        BY <3>2, <4>1, <4>2
      <4>3. CASE i = n
        BY <4>1, <4>3
      <4>. QED
        BY <4>2, <4>3
    <3> HIDE DEF k
    <3>5. n + 1 \in Nat
      OBVIOUS
    <3>6. k \in Starts(n + 1)
      BY <1>0, <3>3, <3>4, <3>5, Zenon
    <3>. QED
      BY <3>5, <3>6
  <2> HIDE DEF Some
  <2>. QED
    BY <2>1, <2>2, Induction
<1>2. Nat \subseteq Same
  <2>1. 0 \in Same
    BY <1>0
  <2>2. ASSUME NEW i \in Nat, i \in Same
        PROVE  i + 1 \in Same
    <3> SUFFICES ASSUME NEW m \in Nat, NEW n \in Nat, NEW g \in Starts(m), NEW k \in Starts(n),
                        i + 1 <= m, i + 1 <= n
                 PROVE  g[i + 1] = k[i + 1]
      OBVIOUS
    <3>1. g[i] = k[i]
      BY <2>2
    <3>2. i \in 0 .. m - 1 /\ i \in 0 .. n - 1
      OBVIOUS
    <3>3. g[i + 1] = h[i][g[i]] /\ k[i + 1] = h[i][k[i]]
      BY <1>0, <3>2
    <3>. QED
      BY <3>1, <3>3
  <2> HIDE DEF Same
  <2>. QED
    BY <2>1, <2>2, Induction
<1>3. \A n \in Nat : Pick(n) \in Starts(n)
  BY <1>1
<1>4. f \in [Nat -> D] /\ f[0] = b
  <2>1. \A n \in Nat : Pick(n)[n] \in D /\ Pick(n)[0] = b
    <3> HIDE DEF Pick
    <3>. QED
      BY <1>0, <1>3
  <2> HIDE DEF Pick
  <2>. QED
    BY <2>1
<1>5. ASSUME NEW n \in Nat
      PROVE  f[n + 1] = h[n][f[n]]
  <2>1. n + 1 \in Nat /\ n \in 0 .. (n + 1) - 1
    OBVIOUS
  <2>2. Pick(n + 1) \in Starts(n + 1) /\ Pick(n) \in Starts(n)
    BY <1>3, <2>1
  <2>3. Pick(n + 1)[n] = Pick(n)[n]
    <3> HIDE DEF Pick
    <3>. QED
      BY <1>2, <2>1, <2>2
  <2>4. Pick(n + 1)[n + 1] = h[n][Pick(n + 1)[n]]
    <3> HIDE DEF Pick
    <3>. QED
      BY <1>0, <2>1, <2>2
  <2>. QED
    BY <2>1, <2>3, <2>4
<1>. QED
  BY <1>4, <1>5, Zenon

----------------------------------------------------------------------------
\* mergeEntries (cli/engine.go).

\* An entry that Validate lets through.
Entry == [url : Servers, weight : Nat]

\* Adding an entry gives a list of entries.
LEMMA AddType ==
  ASSUME NEW kept \in Seq(Entry), NEW e \in Entry
  PROVE  Add(kept, e) \in Seq(Entry)
<1>1. Append(kept, e) \in Seq(Entry)
  BY OneMoreElement
<1>. QED
  BY <1>1, Zenon DEF Add

\* The loop of mergeEntries goes through the lists m[0], m[1], ..., and returns the last.
LEMMA MergedInSteps ==
  ASSUME NEW all \in Seq(Entry)
  PROVE  \E m \in [0 .. Len(all) -> Seq(Entry)] :
           /\ m[0] = <<>>
           /\ \A n \in 1 .. Len(all) : m[n] = Add(m[n - 1], all[n])
           /\ FirstOfEach(all) = m[Len(all)]
<1> DEFINE D == Seq(Entry)
           N == Len(all)
           h == [n \in Nat |-> [kept \in D |-> IF n < N THEN Add(kept, all[n + 1]) ELSE kept]]
           m == CHOOSE merged : merged =
                  [n \in 0 .. N |-> IF n = 0 THEN <<>> ELSE Add(merged[n - 1], all[n])]
<1>1. N \in Nat /\ \A n \in 1 .. N : all[n] \in Entry
  OBVIOUS
<1>2. h \in [Nat -> [D -> D]]
  <2>1. ASSUME NEW n \in Nat, NEW kept \in D, n < N
        PROVE  Add(kept, all[n + 1]) \in D
    <3>1. all[n + 1] \in Entry
      BY <1>1, <2>1
    <3>. QED
      BY <3>1, AddType, Zenon
  <2> HIDE DEF D, N
  <2>. QED
    BY <2>1
<1>3. PICK f \in [Nat -> D] : f[0] = <<>> /\ \A n \in Nat : f[n + 1] = h[n][f[n]]
  <2>1. <<>> \in D
    OBVIOUS
  <2> HIDE DEF D, h
  <2>2. \E f \in [Nat -> D] : Iterates(f, <<>>, h)
    BY <1>2, <2>1, Iteration, Zenon
  <2>. QED
    BY <2>2, Zenon DEF Iterates
<1> DEFINE g == [n \in 0 .. N |-> f[n]]
<1>4. \A n \in 1 .. N : f[n] = Add(f[n - 1], all[n])
  <2> SUFFICES ASSUME NEW n \in 1 .. N
               PROVE  f[n] = Add(f[n - 1], all[n])
    OBVIOUS
  <2>1. n - 1 \in Nat /\ (n - 1) + 1 = n /\ n - 1 < N
    BY <1>1
  <2>2. f[n] = h[n - 1][f[n - 1]] /\ f[n - 1] \in D
    <3> HIDE DEF D, h
    <3>. QED
      BY <1>3, <2>1
  <2>3. h[n - 1][f[n - 1]] = Add(f[n - 1], all[n])
    <3> HIDE DEF D, N
    <3>. QED
      BY <2>1, <2>2
  <2>. QED
    BY <2>2, <2>3
<1>5. g = [n \in 0 .. N |-> IF n = 0 THEN <<>> ELSE Add(g[n - 1], all[n])]
  <2>1. \A n \in 0 .. N : g[n] = IF n = 0 THEN <<>> ELSE Add(g[n - 1], all[n])
    <3> SUFFICES ASSUME NEW n \in 0 .. N
                 PROVE  g[n] = IF n = 0 THEN <<>> ELSE Add(g[n - 1], all[n])
      BY SMTT(30)
    <3>1. CASE n = 0
      BY <1>3, <3>1
    <3>2. CASE n # 0
      <4>1. n \in 1 .. N /\ n - 1 \in 0 .. N
        BY <1>1, <3>2
      <4>2. g[n] = f[n] /\ g[n - 1] = f[n - 1]
        BY <4>1
      <4>. QED
        BY <1>4, <3>2, <4>1, <4>2
    <3>. QED
      BY <3>1, <3>2
  <2>. QED
    BY <2>1, Zenon
<1>6. m = [n \in 0 .. N |-> IF n = 0 THEN <<>> ELSE Add(m[n - 1], all[n])]
  <2> HIDE DEF g, N
  <2>. QED
    BY <1>5, Zenon
<1>7. FirstOfEach(all) = m[Len(all)]
  BY Zenon DEF FirstOfEach
<1> HIDE DEF m
<1>8. \A n \in 0 .. N : m[n] = f[n]
  <2> DEFINE T == {n \in Nat : n <= N => m[n] = f[n]}
  <2>1. 0 \in T
    BY <1>1, <1>3, <1>6
  <2>2. ASSUME NEW n \in T
        PROVE  n + 1 \in T
    <3> SUFFICES ASSUME n + 1 <= N
                 PROVE  m[n + 1] = f[n + 1]
      BY <2>2
    <3>1. n \in Nat /\ n + 1 \in 1 .. N /\ n + 1 \in 0 .. N /\ (n + 1) - 1 = n /\ n + 1 # 0
      BY <1>1
    <3>2. m[n] = f[n]
      BY <1>1, <3>1
    <3>3. m[n + 1] = Add(m[n], all[n + 1])
      <4> HIDE DEF T
      <4>. QED
        BY <1>6, <3>1, Zenon
    <3>4. f[n + 1] = Add(f[n], all[n + 1])
      BY <1>4, <3>1
    <3>. QED
      BY <3>2, <3>3, <3>4
  <2>3. Nat \subseteq T
    <3> HIDE DEF T
    <3>. QED
      BY <2>1, <2>2, Induction, Zenon
  <2>. QED
    BY <1>1, <2>3
<1>9. m \in [0 .. N -> D]
  <2>1. \A n \in 0 .. N : m[n] \in D
    BY <1>1, <1>3, <1>8
  <2> HIDE DEF D
  <2>. QED
    BY <1>6, <2>1
<1>10. m[0] = <<>>
  BY <1>1, <1>3, <1>8
<1>11. ASSUME NEW n \in 1 .. N
       PROVE  m[n] = Add(m[n - 1], all[n])
  <2>1. n \in 0 .. N /\ n - 1 \in 0 .. N
    BY <1>1
  <2>. QED
    BY <1>4, <1>8, <2>1, Zenon
<1>. QED
  BY <1>7, <1>9, <1>10, <1>11, Zenon

\* The entry at p is the first that names its server.
First(all, p) == \A q \in 1 .. p - 1 : all[q].url # all[p].url

\* What the loop has kept after n entries: of each server named so far the first entry.
Firsts(all, n, kept) ==
  /\ kept \in Seq(Entry)
  /\ \A i, j \in DOMAIN kept : kept[i].url = kept[j].url => i = j
  /\ \A i \in DOMAIN kept : \E p \in 1 .. n : kept[i] = all[p] /\ First(all, p)
  /\ \A p \in 1 .. n : \E i \in DOMAIN kept : kept[i].url = all[p].url

\* One more turn of the loop.
LEMMA AddKeepsFirsts ==
  ASSUME NEW all \in Seq(Entry), NEW n \in Nat, n + 1 <= Len(all),
         NEW kept, Firsts(all, n, kept)
  PROVE  Firsts(all, n + 1, Add(kept, all[n + 1]))
<1> DEFINE e == all[n + 1]
<1>1. e \in Entry /\ kept \in Seq(Entry)
  BY DEF Firsts
<1>2. e.url # ""
  BY <1>1, SettingsAssumption DEF Entry
<1>3. \A p \in 1 .. n + 1 : p \in 1 .. n \/ p = n + 1
  OBVIOUS
<1>4. \A p \in 1 .. n : p \in 1 .. n + 1
  OBVIOUS
<1>5. CASE \E i \in DOMAIN kept : kept[i].url = e.url
  <2>1. Add(kept, e) = kept
    BY <1>5, Zenon DEF Add
  <2>2. Firsts(all, n + 1, kept)
    BY <1>3, <1>4, <1>5, Zenon DEF Firsts
  <2>. QED
    BY <2>1, <2>2
<1>6. CASE ~ \E i \in DOMAIN kept : kept[i].url = e.url
  <2> DEFINE k == Append(kept, e)
  <2>1. Add(kept, e) = k
    BY <1>2, <1>6, Zenon DEF Add
  <2>2. /\ k \in Seq(Entry) /\ DOMAIN k = 1 .. Len(kept) + 1 /\ DOMAIN kept = 1 .. Len(kept)
        /\ Len(kept) \in Nat
        /\ \A i \in 1 .. Len(kept) : k[i] = kept[i]
        /\ k[Len(kept) + 1] = e
    BY <1>1
  <2>3. \A i \in DOMAIN k : i \in DOMAIN kept \/ i = Len(kept) + 1
    BY <2>2
  <2>4. \A i \in DOMAIN kept : i \in DOMAIN k /\ k[i] = kept[i]
    BY <2>2
  <2>5. Len(kept) + 1 \in DOMAIN k
    BY <2>2
  <2> HIDE DEF k
  <2>6. \A i, j \in DOMAIN k : k[i].url = k[j].url => i = j
    BY <1>6, <2>2, <2>3, <2>4, Zenon DEF Firsts
  <2>7. First(all, n + 1)
    <3>1. \A q \in 1 .. n : all[q].url # e.url
      BY <1>6, ZenonT(60) DEF Firsts
    <3>2. (n + 1) - 1 = n
      OBVIOUS
    <3>. QED
      BY <3>1, <3>2, Zenon DEF First
  <2>8. \A i \in DOMAIN k : \E p \in 1 .. n + 1 : k[i] = all[p] /\ First(all, p)
    <3> SUFFICES ASSUME NEW i \in DOMAIN k
                 PROVE  \E p \in 1 .. n + 1 : k[i] = all[p] /\ First(all, p)
      OBVIOUS
    <3>1. n + 1 \in 1 .. n + 1
      OBVIOUS
    <3>2. CASE i \in DOMAIN kept
      <4>1. PICK p \in 1 .. n : kept[i] = all[p] /\ First(all, p)
        BY <3>2, Zenon DEF Firsts
      <4>. QED
        BY <1>4, <2>4, <3>2, <4>1, Zenon
    <3>3. CASE i = Len(kept) + 1
      BY <2>2, <2>7, <3>1, <3>3, Zenon
    <3>. QED
      BY <2>3, <3>2, <3>3
  <2>9. \A p \in 1 .. n + 1 : \E i \in DOMAIN k : k[i].url = all[p].url
    <3> SUFFICES ASSUME NEW p \in 1 .. n + 1
                 PROVE  \E i \in DOMAIN k : k[i].url = all[p].url
      OBVIOUS
    <3>1. CASE p \in 1 .. n
      <4>1. PICK i \in DOMAIN kept : kept[i].url = all[p].url
        BY <3>1, Zenon DEF Firsts
      <4>. QED
        BY <2>4, <4>1, Zenon
    <3>2. CASE p = n + 1
      BY <2>2, <2>5, <3>2, Zenon
    <3>. QED
      BY <1>3, <3>1, <3>2
  <2>. QED
    BY <2>1, <2>2, <2>6, <2>8, <2>9, Zenon DEF Firsts
<1>. QED
  BY <1>5, <1>6

\* mergeEntries keeps of each server the first entry, and no other.
LEMMA FirstOfEachIsSound ==
  ASSUME NEW all \in Seq(Entry)
  PROVE  Firsts(all, Len(all), FirstOfEach(all))
<1>1. PICK m \in [0 .. Len(all) -> Seq(Entry)] :
        /\ m[0] = <<>>
        /\ \A n \in 1 .. Len(all) : m[n] = Add(m[n - 1], all[n])
        /\ FirstOfEach(all) = m[Len(all)]
  BY MergedInSteps, Zenon
<1> DEFINE T == {n \in Nat : n <= Len(all) => Firsts(all, n, m[n])}
<1>2. 0 \in T
  <2>1. Firsts(all, 0, <<>>)
    BY DEF Firsts
  <2>. QED
    BY <1>1, <2>1
<1>3. ASSUME NEW n \in Nat, n \in T
      PROVE  n + 1 \in T
  <2> SUFFICES ASSUME n + 1 <= Len(all)
               PROVE  Firsts(all, n + 1, m[n + 1])
    BY <1>3
  <2>1. Firsts(all, n, m[n])
    BY <1>3
  <2>2. m[n + 1] = Add(m[n], all[n + 1])
    BY <1>1
  <2>. QED
    BY <2>1, <2>2, AddKeepsFirsts
<1>4. Nat \subseteq T
  <2> HIDE DEF T
  <2>. QED
    BY <1>2, <1>3, Induction
<1>5. Len(all) \in Nat
  OBVIOUS
<1>. QED
  BY <1>1, <1>4, <1>5

\* Discovered servers become entries of weight 1, in their order.
LEMMA ListedType ==
  ASSUME NEW list \in Seq(Servers)
  PROVE  /\ Listed(list) \in Seq(Entry) /\ Len(Listed(list)) = Len(list)
         /\ \A i \in 1 .. Len(list) : Listed(list)[i].url = list[i] /\ Listed(list)[i].weight = 1
<1>1. DOMAIN list = 1 .. Len(list) /\ Len(list) \in Nat
  OBVIOUS
<1>2. \A i \in 1 .. Len(list) : [url |-> list[i], weight |-> 1] \in Entry
  BY DEF Entry
<1>3. Listed(list) \in [1 .. Len(list) -> Entry]
  BY <1>1, <1>2, Zenon DEF Listed
<1>4. Listed(list) \in Seq(Entry) /\ Len(Listed(list)) = Len(list)
  BY <1>1, <1>3
<1>5. \A i \in 1 .. Len(list) : Listed(list)[i].url = list[i] /\ Listed(list)[i].weight = 1
  BY <1>1, Zenon DEF Listed
<1>. QED
  BY <1>4, <1>5

\* What mergeEntries keeps of the entries of the config and, after them, those of
\* discovery.
LEMMA MergeIsSound ==
  ASSUME NEW backends \in Seq(Entry), NEW list \in Seq(Servers)
  PROVE  LET all == backends \o Listed(list)
         IN  /\ all \in Seq(Entry) /\ Len(all) = Len(backends) + Len(list)
             /\ \A i \in 1 .. Len(backends) : all[i] = backends[i]
             /\ \A i \in 1 .. Len(list) :
                  all[Len(backends) + i].url = list[i] /\ all[Len(backends) + i].weight = 1
             /\ Firsts(all, Len(all), Merge(backends, list))
<1> DEFINE l == Listed(list)
           all == backends \o l
<1>1. /\ l \in Seq(Entry) /\ Len(l) = Len(list)
      /\ \A i \in 1 .. Len(list) : l[i].url = list[i] /\ l[i].weight = 1
  BY ListedType
<1>2. Firsts(all, Len(all), Merge(backends, list))
  <2>1. all \in Seq(Entry)
    <3> HIDE DEF l
    <3>. QED
      BY <1>1, OneAfterOther
  <2>. QED
    BY <2>1, FirstOfEachIsSound, Zenon DEF Merge
<1> HIDE DEF l
<1>3. all \in Seq(Entry) /\ Len(all) = Len(backends) + Len(list)
  <2>1. all \in Seq(Entry) /\ Len(all) = Len(backends) + Len(l)
    BY <1>1, OneAfterOther, Zenon
  <2>. QED
    BY <1>1, <2>1
<1>4. \A i \in 1 .. Len(backends) : all[i] = backends[i]
  BY <1>1
<1>5. \A i \in 1 .. Len(list) : all[Len(backends) + i] = l[i]
  BY <1>1
<1>. QED
  BY <1>1, <1>2, <1>3, <1>4, <1>5, Zenon DEF l

\* Where a server is named there is a pool.
LEMMA SomeServer ==
  ASSUME NEW backends \in Seq(Entry), NEW list \in Seq(Servers),
         {b.url : b \in Range(backends)} \cup Range(list) # {}
  PROVE  Merge(backends, list) # <<>>
<1> DEFINE all == backends \o Listed(list)
<1>1. /\ all \in Seq(Entry) /\ Len(all) = Len(backends) + Len(list)
      /\ Firsts(all, Len(all), Merge(backends, list))
  BY MergeIsSound, Zenon
<1>2. Len(backends) # 0 \/ Len(list) # 0
  <2>1. ASSUME Len(backends) = 0, Len(list) = 0
        PROVE  FALSE
    <3>1. DOMAIN backends = {} /\ DOMAIN list = {}
      BY <2>1
    <3>. QED
      BY <3>1, Zenon DEF Range
  <2>. QED
    BY <2>1
<1>3. 1 \in 1 .. Len(all)
  BY <1>1, <1>2
<1> HIDE DEF all
<1>4. DOMAIN Merge(backends, list) # {}
  BY <1>1, <1>3, Zenon DEF Firsts
<1>. QED
  BY <1>4

----------------------------------------------------------------------------
\* The slots of a pool (internal/balancer/balancer.go).

\* Every server has a turn.
LEMMA TurnsArePositive ==
  ASSUME NEW strategy, NEW e \in Entry
  PROVE  TurnsOf(strategy, e) \in Nat \ {0}
BY DEF TurnsOf, Turns, Entry

\* The turns of one entry are as many as its weight says.
LEMMA SlotsOfType ==
  ASSUME NEW strategy, NEW e \in Entry
  PROVE  /\ SlotsOf(strategy, e) \in Seq(Servers)
         /\ Len(SlotsOf(strategy, e)) = TurnsOf(strategy, e)
         /\ \A j \in 1 .. TurnsOf(strategy, e) : SlotsOf(strategy, e)[j] = e.url
<1>1. TurnsOf(strategy, e) \in Nat /\ e.url \in Servers
  BY TurnsArePositive DEF Entry
<1>. QED
  BY <1>1 DEF SlotsOf

\* The loop of NewWeightedRoundRobin goes through the lists m[0], m[1], ..., and keeps the
\* last.
LEMMA LaidInSteps ==
  ASSUME NEW strategy, NEW entries \in Seq(Entry)
  PROVE  \E m \in [0 .. Len(entries) -> Seq(Servers)] :
           /\ m[0] = <<>>
           /\ \A n \in 1 .. Len(entries) : m[n] = m[n - 1] \o SlotsOf(strategy, entries[n])
           /\ Slots(strategy, entries) = m[Len(entries)]
<1> DEFINE D == Seq(Servers)
           N == Len(entries)
           h == [n \in Nat |-> [s \in D |-> IF n < N THEN s \o SlotsOf(strategy, entries[n + 1]) ELSE s]]
           m == CHOOSE slots : slots =
                  [n \in 0 .. N |-> IF n = 0 THEN <<>> ELSE slots[n - 1] \o SlotsOf(strategy, entries[n])]
<1>1. N \in Nat /\ \A n \in 1 .. N : entries[n] \in Entry
  OBVIOUS
<1>2. h \in [Nat -> [D -> D]]
  <2>1. ASSUME NEW n \in Nat, NEW s \in D, n < N
        PROVE  s \o SlotsOf(strategy, entries[n + 1]) \in D
    <3>1. entries[n + 1] \in Entry
      BY <1>1, <2>1
    <3>. QED
      BY <3>1, SlotsOfType, OneAfterOther, Zenon
  <2> HIDE DEF D, N
  <2>. QED
    BY <2>1
<1>3. PICK f \in [Nat -> D] : f[0] = <<>> /\ \A n \in Nat : f[n + 1] = h[n][f[n]]
  <2>1. <<>> \in D
    OBVIOUS
  <2> HIDE DEF D, h
  <2>2. \E f \in [Nat -> D] : Iterates(f, <<>>, h)
    BY <1>2, <2>1, Iteration, Zenon
  <2>. QED
    BY <2>2, Zenon DEF Iterates
<1> DEFINE g == [n \in 0 .. N |-> f[n]]
<1>4. \A n \in 1 .. N : f[n] = f[n - 1] \o SlotsOf(strategy, entries[n])
  <2> SUFFICES ASSUME NEW n \in 1 .. N
               PROVE  f[n] = f[n - 1] \o SlotsOf(strategy, entries[n])
    BY Zenon
  <2>1. n - 1 \in Nat /\ (n - 1) + 1 = n /\ n - 1 < N
    BY <1>1
  <2>2. f[n] = h[n - 1][f[n - 1]] /\ f[n - 1] \in D
    <3> HIDE DEF D, h
    <3>. QED
      BY <1>3, <2>1
  <2>3. h[n - 1][f[n - 1]] = f[n - 1] \o SlotsOf(strategy, entries[n])
    <3> HIDE DEF D, N
    <3>. QED
      BY <2>1, <2>2
  <2>. QED
    BY <2>2, <2>3, Zenon
<1>5. g = [n \in 0 .. N |-> IF n = 0 THEN <<>> ELSE g[n - 1] \o SlotsOf(strategy, entries[n])]
  <2>1. \A n \in 0 .. N : g[n] = IF n = 0 THEN <<>> ELSE g[n - 1] \o SlotsOf(strategy, entries[n])
    <3> SUFFICES ASSUME NEW n \in 0 .. N
                 PROVE  g[n] = IF n = 0 THEN <<>> ELSE g[n - 1] \o SlotsOf(strategy, entries[n])
      BY Zenon
    <3>1. CASE n = 0
      BY <1>3, <3>1
    <3>2. CASE n # 0
      <4>1. n \in 1 .. N /\ n - 1 \in 0 .. N
        BY <1>1, <3>2
      <4>2. g[n] = f[n] /\ g[n - 1] = f[n - 1]
        BY <4>1
      <4>. QED
        BY <1>4, <3>2, <4>1, <4>2, Zenon
    <3>. QED
      BY <3>1, <3>2, Zenon
  <2>. QED
    BY <2>1, Zenon
<1>6. m = [n \in 0 .. N |-> IF n = 0 THEN <<>> ELSE m[n - 1] \o SlotsOf(strategy, entries[n])]
  <2> HIDE DEF g, N
  <2>. QED
    BY <1>5, Zenon
<1>7. Slots(strategy, entries) = m[Len(entries)]
  BY Zenon DEF Slots
<1> HIDE DEF m
<1>8. \A n \in 0 .. N : m[n] = f[n]
  <2> DEFINE T == {n \in Nat : n <= N => m[n] = f[n]}
  <2>1. 0 \in T
    BY <1>1, <1>3, <1>6
  <2>2. ASSUME NEW n \in T
        PROVE  n + 1 \in T
    <3> SUFFICES ASSUME n + 1 <= N
                 PROVE  m[n + 1] = f[n + 1]
      BY <2>2
    <3>1. n \in Nat /\ n + 1 \in 1 .. N /\ n + 1 \in 0 .. N /\ (n + 1) - 1 = n /\ n + 1 # 0
      BY <1>1
    <3>2. m[n] = f[n]
      BY <1>1, <3>1
    <3>3. m[n + 1] = m[n] \o SlotsOf(strategy, entries[n + 1])
      <4> HIDE DEF T
      <4>. QED
        BY <1>6, <3>1, Zenon
    <3>4. f[n + 1] = f[n] \o SlotsOf(strategy, entries[n + 1])
      BY <1>4, <3>1, Zenon
    <3>. QED
      BY <3>2, <3>3, <3>4
  <2>3. Nat \subseteq T
    <3> HIDE DEF T
    <3>. QED
      BY <2>1, <2>2, Induction, Zenon
  <2>. QED
    BY <1>1, <2>3
<1>9. m \in [0 .. N -> D]
  <2>1. \A n \in 0 .. N : m[n] \in D
    BY <1>1, <1>3, <1>8
  <2> HIDE DEF D
  <2>. QED
    BY <1>6, <2>1
<1>10. m[0] = <<>>
  BY <1>1, <1>3, <1>8
<1>11. ASSUME NEW n \in 1 .. N
       PROVE  m[n] = m[n - 1] \o SlotsOf(strategy, entries[n])
  <2>1. n \in 0 .. N /\ n - 1 \in 0 .. N
    BY <1>1
  <2>. QED
    BY <1>4, <1>8, <2>1, Zenon
<1>. QED
  BY <1>7, <1>9, <1>10, <1>11, Zenon

\* The turns of the first n entries: those of each entry are next to one another, and
\* there are no others.
Laid(strategy, entries, n, slots) ==
  /\ slots \in Seq(Servers)
  /\ \A p \in 1 .. Len(slots) : \E i \in 1 .. n : slots[p] = entries[i].url
  /\ \A i \in 1 .. n : \E a \in Nat :
       /\ a + TurnsOf(strategy, entries[i]) <= Len(slots)
       /\ \A p \in 1 .. Len(slots) :
            slots[p] = entries[i].url <=> p > a /\ p <= a + TurnsOf(strategy, entries[i])

\* The turns of the next entry come after them.
LEMMA LayOneMore ==
  ASSUME NEW strategy, NEW entries \in Seq(Entry),
         \A i, j \in 1 .. Len(entries) : entries[i].url = entries[j].url => i = j,
         NEW n \in Nat, n + 1 <= Len(entries),
         NEW slots, Laid(strategy, entries, n, slots)
  PROVE  Laid(strategy, entries, n + 1, slots \o SlotsOf(strategy, entries[n + 1]))
<1> DEFINE e == entries[n + 1]
           t == TurnsOf(strategy, e)
           b == SlotsOf(strategy, e)
           l == Len(slots)
           s == slots \o b
<1>1. e \in Entry /\ slots \in Seq(Servers) /\ l \in Nat
  BY DEF Laid
<1>2. t \in Nat \ {0} /\ b \in Seq(Servers) /\ Len(b) = t /\ \A j \in 1 .. t : b[j] = e.url
  <2> HIDE DEF e
  <2>. QED
    BY <1>1, TurnsArePositive, SlotsOfType
<1>3. s \in Seq(Servers) /\ Len(s) = l + t
  <2> HIDE DEF b, t
  <2>. QED
    BY <1>1, <1>2, OneAfterOther, Zenon
<1>4. \A p \in 1 .. l : s[p] = slots[p]
  <2> HIDE DEF b, t
  <2>. QED
    BY <1>1, <1>2
<1>5. \A p \in l + 1 .. l + t : s[p] = e.url
  <2> SUFFICES ASSUME NEW p \in l + 1 .. l + t
               PROVE  s[p] = e.url
    BY Zenon
  <2>1. p - l \in 1 .. t
    <3> HIDE DEF l, t
    <3>. QED
      BY <1>1, <1>2
  <2>2. s[p] = b[p - l]
    <3> HIDE DEF b, t
    <3>. QED
      BY <1>1, <1>2
  <2> HIDE DEF b, t
  <2>. QED
    BY <1>2, <2>1, <2>2
<1>6. \A i \in 1 .. n : i \in 1 .. n + 1 /\ entries[i].url # e.url
  <2>1. \A i \in 1 .. n : i \in 1 .. Len(entries) /\ i # n + 1
    OBVIOUS
  <2>2. n + 1 \in 1 .. Len(entries)
    OBVIOUS
  <2>. QED
    BY <2>1, <2>2
<1>7. \A p \in 1 .. l : slots[p] # e.url
  <2>1. \A p \in 1 .. l : \E i \in 1 .. n : slots[p] = entries[i].url
    BY Zenon DEF Laid
  <2>. QED
    BY <1>6, <2>1, Zenon
<1>8. \A p \in 1 .. l + t : p \in 1 .. l \/ p \in l + 1 .. l + t
  <2> HIDE DEF l, t
  <2>. QED
    BY <1>1, <1>2
<1>9. \A i \in 1 .. n + 1 : i \in 1 .. n \/ i = n + 1
  OBVIOUS
<1>10. n + 1 \in 1 .. n + 1
  OBVIOUS
<1>11. ASSUME NEW p \in 1 .. l + t
       PROVE  \E i \in 1 .. n + 1 : s[p] = entries[i].url
  <2>1. CASE p \in 1 .. l
    <3>1. PICK i \in 1 .. n : slots[p] = entries[i].url
      BY <2>1, Zenon DEF Laid
    <3> HIDE DEF s, l
    <3>. QED
      BY <1>4, <1>6, <2>1, <3>1, Zenon
  <2>2. CASE p \in l + 1 .. l + t
    BY <1>5, <1>10, <2>2, Zenon
  <2>. QED
    BY <1>8, <2>1, <2>2, Zenon
<1>12. ASSUME NEW i \in 1 .. n
       PROVE  \E a \in Nat :
                /\ a + TurnsOf(strategy, entries[i]) <= l + t
                /\ \A p \in 1 .. l + t :
                     s[p] = entries[i].url <=> p > a /\ p <= a + TurnsOf(strategy, entries[i])
  <2>1. PICK a \in Nat :
          /\ a + TurnsOf(strategy, entries[i]) <= l
          /\ \A p \in 1 .. l :
               slots[p] = entries[i].url <=> p > a /\ p <= a + TurnsOf(strategy, entries[i])
    BY Zenon DEF Laid
  <2> DEFINE u == TurnsOf(strategy, entries[i])
  <2>2. u \in Nat \ {0}
    <3>1. entries[i] \in Entry
      OBVIOUS
    <3>. QED
      BY <3>1, TurnsArePositive
  <2> HIDE DEF u, l, t, s
  <2>3. a + u <= l + t
    BY <1>1, <1>2, <2>1, <2>2 DEF u
  <2>4. ASSUME NEW p \in 1 .. l + t
        PROVE  s[p] = entries[i].url <=> p > a /\ p <= a + u
    <3>1. CASE p \in 1 .. l
      BY <1>4, <2>1, <3>1, Zenon DEF u
    <3>2. CASE p \in l + 1 .. l + t
      <4>1. s[p] # entries[i].url
        BY <1>5, <1>6, <3>2, Zenon
      <4>2. a + u <= l
        BY <2>1, Zenon DEF u
      <4>3. ~ p <= a + u
        BY <1>1, <2>2, <3>2, <4>2
      <4>. QED
        BY <4>1, <4>3
    <3>. QED
      BY <1>8, <3>1, <3>2
  <2>. QED
    BY <2>3, <2>4, Zenon DEF u
<1>13. /\ l + t <= l + t
       /\ \A p \in 1 .. l + t : s[p] = e.url <=> p > l /\ p <= l + t
  <2>1. ASSUME NEW p \in 1 .. l + t
        PROVE  s[p] = e.url <=> p > l /\ p <= l + t
    <3>1. CASE p \in 1 .. l
      <4>1. s[p] # e.url
        BY <1>4, <1>7, <3>1, Zenon
      <4> HIDE DEF l, t, s
      <4>. QED
        BY <1>1, <3>1, <4>1
    <3>2. CASE p \in l + 1 .. l + t
      <4>1. s[p] = e.url
        BY <1>5, <3>2, Zenon
      <4> HIDE DEF l, t, s
      <4>. QED
        BY <1>1, <1>2, <3>2, <4>1
    <3>. QED
      BY <1>8, <3>1, <3>2, Zenon
  <2>2. l + t <= l + t
    <3> HIDE DEF l, t
    <3>. QED
      BY <1>1, <1>2
  <2>. QED
    BY <2>1, <2>2, Zenon
<1> HIDE DEF s, l
<1>14. ASSUME NEW i \in 1 .. n + 1
       PROVE  \E a \in Nat :
                /\ a + TurnsOf(strategy, entries[i]) <= l + t
                /\ \A p \in 1 .. l + t :
                     s[p] = entries[i].url <=> p > a /\ p <= a + TurnsOf(strategy, entries[i])
  BY <1>1, <1>9, <1>12, <1>13, Zenon
<1> HIDE DEF t
<1>15. Laid(strategy, entries, n + 1, s)
  BY <1>3, <1>11, <1>14, Zenon DEF Laid
<1>. QED
  BY <1>15 DEF s, b

\* The slots are the turns of all entries.
LEMMA SlotsAreLaid ==
  ASSUME NEW strategy, NEW entries \in Seq(Entry), entries # <<>>,
         \A i, j \in 1 .. Len(entries) : entries[i].url = entries[j].url => i = j
  PROVE  Laid(strategy, entries, Len(entries), Slots(strategy, entries))
<1> DEFINE N == Len(entries)
<1>1. N \in Nat
  OBVIOUS
<1>2. PICK m \in [0 .. N -> Seq(Servers)] :
        /\ m[0] = <<>>
        /\ \A n \in 1 .. N : m[n] = m[n - 1] \o SlotsOf(strategy, entries[n])
        /\ Slots(strategy, entries) = m[N]
  BY LaidInSteps, Zenon
<1> DEFINE T == {n \in Nat : n <= N => Laid(strategy, entries, n, m[n])}
<1>3. 0 \in T
  <2>1. Laid(strategy, entries, 0, <<>>)
    BY DEF Laid
  <2>. QED
    BY <1>2, <2>1
<1>4. ASSUME NEW n \in Nat, n \in T
      PROVE  n + 1 \in T
  <2> SUFFICES ASSUME n + 1 <= N
               PROVE  Laid(strategy, entries, n + 1, m[n + 1])
    BY <1>4
  <2>1. n + 1 \in 1 .. N /\ (n + 1) - 1 = n /\ n <= N
    BY <1>1
  <2>2. Laid(strategy, entries, n, m[n])
    BY <1>4, <2>1
  <2>3. m[n + 1] = m[n] \o SlotsOf(strategy, entries[n + 1])
    BY <1>2, <2>1, Zenon
  <2>. QED
    BY <2>2, <2>3, LayOneMore
<1>5. Nat \subseteq T
  <2> HIDE DEF T
  <2>. QED
    BY <1>3, <1>4, Induction
<1>6. Laid(strategy, entries, N, m[N])
  <2>1. N \in T
    BY <1>1, <1>5
  <2>. QED
    BY <1>1, <2>1
<1>. QED
  BY <1>2, <1>6

\* The servers in the slots are those of the config and of discovery.
LEMMA BuiltPool ==
  ASSUME NEW strategy, NEW backends \in Seq(Entry), NEW list \in Seq(Servers),
         Merge(backends, list) # <<>>
  PROVE  /\ Slots(strategy, Merge(backends, list)) \in Seq(Servers)
         /\ Range(Slots(strategy, Merge(backends, list)))
              = {b.url : b \in Range(backends)} \cup Range(list)
<1> DEFINE all == backends \o Listed(list)
           k == Merge(backends, list)
           s == Slots(strategy, k)
           n == Len(backends)
<1>1. /\ all \in Seq(Entry) /\ Len(all) = n + Len(list)
      /\ \A i \in 1 .. n : all[i] = backends[i]
      /\ \A i \in 1 .. Len(list) : all[n + i].url = list[i] /\ all[n + i].weight = 1
      /\ Firsts(all, Len(all), k)
  BY MergeIsSound, Zenon
<1>2. n \in Nat /\ Len(list) \in Nat /\ DOMAIN backends = 1 .. n /\ DOMAIN list = 1 .. Len(list)
  OBVIOUS
<1> HIDE DEF all, k, n
<1>3. /\ k \in Seq(Entry) /\ DOMAIN k = 1 .. Len(k)
      /\ \A i, j \in 1 .. Len(k) : k[i].url = k[j].url => i = j
  BY <1>1, SMTT(30) DEF Firsts
<1>4. k # <<>>
  BY DEF k
<1>5. Laid(strategy, k, Len(k), s)
  BY <1>3, <1>4, SlotsAreLaid
<1> HIDE DEF s
<1>6. s \in Seq(Servers) /\ DOMAIN s = 1 .. Len(s) /\ Len(s) \in Nat
  BY <1>5 DEF Laid
<1>7. ASSUME NEW u
      PROVE  u \in Range(s) <=> \E i \in 1 .. Len(k) : u = k[i].url
  <2>1. ASSUME u \in Range(s)
        PROVE  \E i \in 1 .. Len(k) : u = k[i].url
    <3>1. PICK p \in 1 .. Len(s) : u = s[p]
      BY <1>6, <2>1, Zenon DEF Range
    <3>2. \A q \in 1 .. Len(s) : \E i \in 1 .. Len(k) : s[q] = k[i].url
      BY <1>5, Zenon DEF Laid
    <3>. QED
      BY <3>1, <3>2, Zenon
  <2>2. ASSUME NEW i \in 1 .. Len(k), u = k[i].url
        PROVE  u \in Range(s)
    <3> DEFINE t == TurnsOf(strategy, k[i])
    <3>1. t \in Nat \ {0}
      BY <1>3, TurnsArePositive
    <3>2. PICK a \in Nat :
            /\ a + t <= Len(s)
            /\ \A p \in 1 .. Len(s) : s[p] = k[i].url <=> p > a /\ p <= a + t
      BY <1>5, Zenon DEF Laid
    <3> HIDE DEF t
    <3>3. a + 1 \in 1 .. Len(s) /\ a + 1 > a /\ a + 1 <= a + t
      BY <1>6, <3>1, <3>2
    <3>4. s[a + 1] = u
      BY <2>2, <3>2, <3>3, Zenon
    <3>. QED
      BY <1>6, <3>3, <3>4, Zenon DEF Range
  <2>. QED
    BY <2>1, <2>2, Zenon
<1>8. ASSUME NEW u
      PROVE  (\E i \in 1 .. Len(k) : u = k[i].url) <=> \E p \in 1 .. Len(all) : u = all[p].url
  <2>1. /\ \A i \in 1 .. Len(k) : \E p \in 1 .. Len(all) : k[i] = all[p]
        /\ \A p \in 1 .. Len(all) : \E i \in 1 .. Len(k) : k[i].url = all[p].url
    BY <1>1, <1>3, Zenon DEF Firsts
  <2>2. \A i \in 1 .. Len(k) : \E p \in 1 .. Len(all) : k[i].url = all[p].url
    BY <2>1, Zenon
  <2>3. ASSUME NEW i \in 1 .. Len(k), u = k[i].url
        PROVE  \E p \in 1 .. Len(all) : u = all[p].url
    BY <2>2, <2>3, Zenon
  <2>4. ASSUME NEW p \in 1 .. Len(all), u = all[p].url
        PROVE  \E i \in 1 .. Len(k) : u = k[i].url
    BY <2>1, <2>4, Zenon
  <2>. QED
    BY <2>3, <2>4, Zenon
<1>9. ASSUME NEW u
      PROVE  (\E p \in 1 .. Len(all) : u = all[p].url)
               <=> u \in {b.url : b \in Range(backends)} \cup Range(list)
  <2>1. ASSUME NEW p \in 1 .. Len(all), u = all[p].url
        PROVE  u \in {b.url : b \in Range(backends)} \cup Range(list)
    <3>1. CASE p \in 1 .. n
      BY <1>1, <1>2, <2>1, <3>1, Zenon DEF Range
    <3>2. CASE p \notin 1 .. n
      <4>1. p - n \in 1 .. Len(list) /\ n + (p - n) = p
        BY <1>1, <1>2, <3>2
      <4>2. list[p - n] = u
        BY <1>1, <2>1, <4>1
      <4>. QED
        BY <1>2, <4>1, <4>2, Zenon DEF Range
    <3>. QED
      BY <3>1, <3>2
  <2>2. ASSUME NEW i \in 1 .. n, u = backends[i].url
        PROVE  \E p \in 1 .. Len(all) : u = all[p].url
    <3>1. i \in 1 .. Len(all)
      BY <1>1, <1>2
    <3>. QED
      BY <1>1, <2>2, <3>1, Zenon
  <2>3. ASSUME NEW i \in 1 .. Len(list), u = list[i]
        PROVE  \E p \in 1 .. Len(all) : u = all[p].url
    <3>1. n + i \in 1 .. Len(all)
      BY <1>1, <1>2
    <3>. QED
      BY <1>1, <2>3, <3>1, Zenon
  <2>4. u \in {b.url : b \in Range(backends)} <=> \E i \in 1 .. n : u = backends[i].url
    BY <1>2, Zenon DEF Range
  <2>5. u \in Range(list) <=> \E i \in 1 .. Len(list) : u = list[i]
    BY <1>2, Zenon DEF Range
  <2>. QED
    BY <2>1, <2>2, <2>3, <2>4, <2>5, Zenon
<1>10. Range(s) = {b.url : b \in Range(backends)} \cup Range(list)
  BY <1>7, <1>8, <1>9, Zenon
<1>. QED
  BY <1>6, <1>10 DEF s, k

\* A server has as many slots as the first entry of the config that names it says.
LEMMA PoolShares ==
  ASSUME NEW strategy, NEW backends \in Seq(Entry), NEW list \in Seq(Servers),
         Merge(backends, list) # <<>>,
         NEW u \in Range(Slots(strategy, Merge(backends, list)))
  PROVE  TurnsIn(Slots(strategy, Merge(backends, list)), u)
           = IF strategy = "weighted_round_robin" /\ FirstWeight(backends, u) > 1
               THEN FirstWeight(backends, u) ELSE 1
<1> DEFINE all == backends \o Listed(list)
           k == Merge(backends, list)
           s == Slots(strategy, k)
           n == Len(backends)
           naming == {i \in DOMAIN backends : backends[i].url = u}
           weight == IF naming = {} THEN 1 ELSE backends[Min(naming)].weight
<1>1. /\ all \in Seq(Entry) /\ Len(all) = n + Len(list)
      /\ \A i \in 1 .. n : all[i] = backends[i]
      /\ \A i \in 1 .. Len(list) : all[n + i].url = list[i] /\ all[n + i].weight = 1
      /\ Firsts(all, Len(all), k)
  BY MergeIsSound, Zenon
<1>2. n \in Nat /\ Len(list) \in Nat /\ DOMAIN backends = 1 .. n /\ naming \in SUBSET Nat
  OBVIOUS
<1>3. u \in Range(s)
  OBVIOUS
<1>4. k # <<>>
  OBVIOUS
<1> HIDE DEF all, k, n
<1>5. /\ k \in Seq(Entry) /\ DOMAIN k = 1 .. Len(k)
      /\ \A i, j \in 1 .. Len(k) : k[i].url = k[j].url => i = j
  BY <1>1, SMTT(30) DEF Firsts
<1>6. Laid(strategy, k, Len(k), s)
  BY <1>4, <1>5, SlotsAreLaid
<1> HIDE DEF s
<1>7. s \in Seq(Servers) /\ DOMAIN s = 1 .. Len(s) /\ Len(s) \in Nat
  BY <1>6 DEF Laid
<1>8. PICK i \in 1 .. Len(k) : u = k[i].url
  <2>1. PICK p \in 1 .. Len(s) : u = s[p]
    BY <1>3, <1>7, Zenon DEF Range
  <2>2. \A q \in 1 .. Len(s) : \E i \in 1 .. Len(k) : s[q] = k[i].url
    BY <1>6, Zenon DEF Laid
  <2>. QED
    BY <2>1, <2>2, Zenon
<1> DEFINE t == TurnsOf(strategy, k[i])
           at == {p \in DOMAIN s : s[p] = u}
<1>9. Cardinality(at) = t
  <2>1. t \in Nat \ {0}
    BY <1>5, TurnsArePositive
  <2>2. PICK a \in Nat :
          /\ a + t <= Len(s)
          /\ \A p \in 1 .. Len(s) : s[p] = k[i].url <=> p > a /\ p <= a + t
    BY <1>6, Zenon DEF Laid
  <2> HIDE DEF t
  <2>3. \A p : p \in at <=> p \in 1 .. Len(s) /\ p > a /\ p <= a + t
    BY <1>7, <1>8, <2>2, Zenon
  <2>4. \A p : p \in 1 .. Len(s) /\ p > a /\ p <= a + t <=> p \in (a + 1) .. (a + t)
    BY <1>7, <2>1, <2>2
  <2>5. at = (a + 1) .. (a + t)
    BY <2>3, <2>4, Zenon
  <2>6. Cardinality((a + 1) .. (a + t)) = IF a + 1 > a + t THEN 0 ELSE (a + t) - (a + 1) + 1
    BY <2>1, FS_Interval
  <2>7. ~ a + 1 > a + t /\ (a + t) - (a + 1) + 1 = t
    BY <2>1
  <2>. QED
    BY <2>5, <2>6, <2>7, Zenon
<1>10. PICK p \in 1 .. Len(all) : k[i] = all[p] /\ First(all, p)
  BY <1>1, <1>5, Zenon DEF Firsts
<1>11. k[i].weight = weight
  <2>1. CASE naming = {}
    <3>1. p \notin 1 .. n
      BY <1>1, <1>2, <1>8, <1>10, <2>1, Zenon
    <3>2. p - n \in 1 .. Len(list) /\ n + (p - n) = p
      BY <1>1, <1>2, <3>1
    <3>3. all[p].weight = 1
      BY <1>1, <3>2
    <3>. QED
      BY <1>10, <2>1, <3>3
  <2>2. CASE naming # {}
    <3> DEFINE q == Min(naming)
    <3>1. q \in naming /\ \A y \in naming : q <= y
      BY <1>2, <2>2, MinOfNaturals, Zenon
    <3>2. q \in 1 .. n /\ q \in 1 .. Len(all) /\ all[q] = backends[q] /\ all[q].url = all[p].url
      BY <1>1, <1>2, <1>8, <1>10, <3>1
    <3>3. ~ p < q
      <4>1. ASSUME p < q
            PROVE  p \in naming
        BY <1>1, <1>2, <1>8, <1>10, <3>2, <4>1
      <4> HIDE DEF naming, q
      <4>. QED
        BY <1>2, <3>1, <3>2, <4>1
    <3>4. ~ q < p
      <4> HIDE DEF naming, q
      <4>. QED
        BY <1>2, <1>10, <3>2 DEF First
    <3>5. p = q
      <4> HIDE DEF naming, q
      <4>. QED
        BY <1>2, <3>2, <3>3, <3>4
    <3>. QED
      BY <1>10, <2>2, <3>2, <3>5
  <2>. QED
    BY <2>1, <2>2
<1>12. t = IF strategy = "weighted_round_robin" /\ weight > 1 THEN weight ELSE 1
  <2>1. k[i].weight \in Nat
    <3>1. k[i] \in Entry
      BY <1>5
    <3>. QED
      BY <3>1 DEF Entry
  <2> HIDE DEF weight
  <2>. QED
    BY <1>11, <2>1 DEF TurnsOf, Turns
<1>13. FirstWeight(backends, u) = weight
  BY Zenon DEF FirstWeight
<1>14. TurnsIn(s, u) = Cardinality(at)
  BY Zenon DEF TurnsIn
<1> HIDE DEF weight, at, t
<1>. QED
  BY <1>9, <1>12, <1>13, <1>14, Zenon DEF s, k

----------------------------------------------------------------------------
\* Validate and Defaults (internal/config/config.go).

\* What Validate and Defaults together make sure of.
Complete(c) ==
  /\ \A k \in DOMAIN DefaultOf : c.number[k] \in Nat \ {0}
  /\ c.cluster => c.gossip \in Nat \ {0} /\ c.node # "unresolved"
  /\ Discovers(c) => c.target
  /\ c.provider = "dns" => c.dnsPort \in 1 .. MaxPort

\* No default is 0.
LEMMA DefaultsArePositive ==
  \A k \in DOMAIN DefaultOf : DefaultOf[k] \in Nat \ {0}
BY DEF DefaultOf

\* An environment variable changes the port only.
LEMMA Overridden ==
  ASSUME NEW c \in Config
  PROVE  ApplyEnvOverrides(c) \in Config
<1>1. CASE EnvPort = <<>>
  BY <1>1 DEF ApplyEnvOverrides
<1>2. CASE EnvPort # <<>>
  <2>1. EnvPort[1] \in Int
    <3>1. EnvPort \in Seq(Int)
      BY SettingsAssumption, Zenon
    <3>. QED
      BY <1>2, <3>1
  <2>2. [c EXCEPT !.port = EnvPort[1]] \in Config
    BY <2>1 DEF Config
  <2>. QED
    BY <1>2, <2>2 DEF ApplyEnvOverrides
<1>. QED
  BY <1>1, <1>2

\* What Defaults completes is a config.
LEMMA DefaultsType ==
  ASSUME NEW c \in Config, NEW h \in Hostname
  PROVE  Defaults(c, h) \in Config
<1> DEFINE number == [k \in DOMAIN DefaultOf |-> Positive(c.number[k], DefaultOf[k])]
           strategy == Text(c.strategy, "round_robin")
           format == IF c.format \in {"json", "text"} THEN c.format ELSE "json"
           dnsPort == IF c.provider = "dns" THEN Positive(c.dnsPort, 80) ELSE c.dnsPort
           gossip == IF c.cluster THEN Positive(c.gossip, 5) ELSE c.gossip
           node == IF c.cluster THEN Text(c.node, h) ELSE c.node
           exporters == IF c.exporters = {} THEN {"stdout"} ELSE c.exporters
<1>1. strategy \in Strategies \cup {"", "other"}
  BY DEF Text, Config, Strategies
<1>2. number \in [DOMAIN DefaultOf -> Int]
  <2>1. ASSUME NEW k \in DOMAIN DefaultOf
        PROVE  Positive(c.number[k], DefaultOf[k]) \in Int
    <3>1. c.number[k] \in Int
      BY DEF Config
    <3>2. DefaultOf[k] \in Int
      BY DEF DefaultOf
    <3>. QED
      BY <3>1, <3>2, Zenon DEF Positive
  <2>. QED
    BY <2>1, Zenon
<1>3. format \in {"", "json", "text", "other"}
  BY DEF Config
<1>4. dnsPort \in Int /\ gossip \in Int
  <2>1. c.dnsPort \in Int /\ c.gossip \in Int
    BY DEF Config
  <2>. QED
    BY <2>1 DEF Positive
<1>5. node \in {"", "name", "unresolved"}
  BY DEF Text, Config, Hostname
<1>6. exporters \in SUBSET (Exporters \cup {"other"})
  BY DEF Config, Exporters
<1>7. Defaults(c, h) = [c EXCEPT !.strategy = strategy, !.number = number, !.format = format,
                              !.dnsPort = dnsPort, !.gossip = gossip, !.node = node,
                              !.exporters = exporters]
  BY ZenonT(60) DEF Defaults, Config
<1> HIDE DEF number, strategy, format, dnsPort, gossip, node, exporters
<1>. QED
  BY <1>1, <1>2, <1>3, <1>4, <1>5, <1>6, <1>7, ZenonT(30) DEF Config

\* Defaults completes what Validate lets through.
LEMMA AcceptedIsComplete ==
  ASSUME NEW c \in Config, NEW h \in Hostname, Validate(c)
  PROVE  Complete(Defaults(c, h))
<1>1. /\ c.number \in [DOMAIN DefaultOf -> Int] /\ c.gossip \in Int /\ c.dnsPort \in Int
      /\ c.node \in {"", "name", "unresolved"}
  BY DEF Config
<1>2. \A n \in Int, default \in Nat \ {0} : Positive(n, default) \in Nat \ {0}
  BY DEF Positive
<1>3. ASSUME NEW k \in DOMAIN DefaultOf
      PROVE  Defaults(c, h).number[k] \in Nat \ {0}
  <2>1. Defaults(c, h).number = [j \in DOMAIN DefaultOf |-> Positive(c.number[j], DefaultOf[j])]
    BY Zenon DEF Defaults, Config
  <2>2. Defaults(c, h).number[k] = Positive(c.number[k], DefaultOf[k])
    BY <2>1, Zenon
  <2>3. c.number[k] \in Int /\ DefaultOf[k] \in Nat \ {0}
    BY <1>1, DefaultsArePositive
  <2>. QED
    BY <1>2, <2>2, <2>3, Zenon
<1>4. Defaults(c, h).provider = c.provider /\ Defaults(c, h).target = c.target /\ Defaults(c, h).cluster = c.cluster
  BY Zenon DEF Defaults, Config
<1>5. ASSUME Defaults(c, h).cluster
      PROVE  Defaults(c, h).gossip \in Nat \ {0} /\ Defaults(c, h).node # "unresolved"
  <2>1. Defaults(c, h).gossip = Positive(c.gossip, 5) /\ Defaults(c, h).node = Text(c.node, h)
    BY <1>4, <1>5, Zenon DEF Defaults, Config
  <2>2. c.node # "unresolved"
    BY <1>4, <1>5, Zenon DEF Validate
  <2>. QED
    <3>1. Text(c.node, h) # "unresolved"
      BY <2>2 DEF Text, Hostname
    <3>2. Positive(c.gossip, 5) \in Nat \ {0}
      <4>1. 5 \in Nat \ {0}
        OBVIOUS
      <4>. QED
        BY <1>1, <1>2, <4>1, Zenon
    <3>. QED
      BY <2>1, <3>1, <3>2, Zenon
<1>6. Discovers(Defaults(c, h)) => Defaults(c, h).target
  BY <1>4, Zenon DEF Discovers, Validate, ValidDiscovery
<1>7. ASSUME Defaults(c, h).provider = "dns"
      PROVE  Defaults(c, h).dnsPort \in 1 .. MaxPort
  <2>1. Defaults(c, h).dnsPort = Positive(c.dnsPort, 80)
    BY <1>4, <1>7, Zenon DEF Defaults, Config
  <2>2. c.dnsPort \in 0 .. MaxPort
    <3>1. ValidDiscovery(c) /\ c.provider = "dns"
      BY <1>4, <1>7, Zenon DEF Validate
    <3>. QED
      BY <3>1 DEF ValidDiscovery, PortOrUnset
  <2>3. MaxPort \in Nat /\ 80 <= MaxPort
    BY DEF MaxPort
  <2>4. \A n \in 0 .. MaxPort : Positive(n, 80) \in 1 .. MaxPort
    BY <2>3 DEF Positive
  <2>. QED
    BY <2>1, <2>2, <2>4, Zenon
<1> DEFINE d == Defaults(c, h)
<1> HIDE DEF d
<1>8. /\ \A k \in DOMAIN DefaultOf : d.number[k] \in Nat \ {0}
      /\ d.cluster => d.gossip \in Nat \ {0} /\ d.node # "unresolved"
      /\ Discovers(d) => d.target
      /\ d.provider = "dns" => d.dnsPort \in 1 .. MaxPort
  BY <1>3, <1>5, <1>6, <1>7, Zenon DEF d
<1>9. Complete(d)
  BY <1>8, Zenon DEF Complete
<1>. QED
  BY <1>9 DEF d

\* So does every file that comes into effect.
LEMMA EffectiveIsComplete ==
  ASSUME NEW e \in Effective
  PROVE  Complete(e)
<1>1. PICK f \in Files, h \in Hostname :
        Validate(ApplyEnvOverrides(f)) /\ e = Defaults(ApplyEnvOverrides(f), h)
  BY DEF Effective, Accepted
<1>2. f \in Config
  BY SettingsAssumption, Zenon
<1>. QED
  BY <1>1, <1>2, Overridden, AcceptedIsComplete, Zenon

\* Nothing comes into effect with a strategy or a server that balancer.New would refuse.
LEMMA EffectiveType ==
  ASSUME NEW c \in Effective
  PROVE  c \in Config /\ c.strategy \in Strategies /\ c.backends \in Seq(Entry)
<1>0. \A w \in Int : w >= 0 => w \in Nat
  OBVIOUS
<1>1. PICK f \in Files, h \in Hostname :
        Validate(ApplyEnvOverrides(f)) /\ c = Defaults(ApplyEnvOverrides(f), h)
  BY DEF Effective, Accepted
<1> DEFINE o == ApplyEnvOverrides(f)
<1>2. o \in Config
  BY <1>1, Overridden, SettingsAssumption
<1>3. Validate(o) /\ c = Defaults(o, h)
  BY <1>1
<1> HIDE DEF o
<1>4. c \in Config
  BY <1>2, <1>3, DefaultsType
<1>5. c.strategy = Text(o.strategy, "round_robin") /\ c.backends = o.backends
  BY <1>2, <1>3, Zenon DEF Defaults, Config
<1>6. c.strategy \in Strategies
  <2>1. o.strategy \in Strategies \cup {"", "other"} /\ o.strategy # "other"
    BY <1>2, <1>3, Zenon DEF Validate, Config
  <2>. QED
    BY <1>5, <2>1 DEF Text, Strategies
<1>7. o.backends \in Seq(Entry)
  <2> DEFINE Read == [url : Servers \cup {"", "other"}, weight : Int]
             s == o.backends
  <2>1. s \in Seq(Read)
    BY <1>2, Zenon DEF Config
  <2>2. \A i \in DOMAIN s : s[i].url \in Servers /\ s[i].weight >= 0
    BY <1>3, Zenon DEF Validate, ValidBackend
  <2>3. ASSUME NEW e \in Read, e.url \in Servers, e.weight >= 0
        PROVE  e \in Entry
    <3>1. e = [url |-> e.url, weight |-> e.weight] /\ e.weight \in Int
      OBVIOUS
    <3>2. e.weight \in Nat
      BY <1>0, <2>3, <3>1, Zenon
    <3>. QED
      BY <2>3, <3>1, <3>2, Zenon DEF Entry
  <2> HIDE DEF s, Read
  <2>4. Len(s) \in Nat /\ s \in [1 .. Len(s) -> Read]
    BY <2>1
  <2>5. \A i \in 1 .. Len(s) : s[i] \in Entry
    BY <2>2, <2>3, <2>4, Zenon
  <2>6. s \in [1 .. Len(s) -> Entry]
    BY <2>4, <2>5
  <2>7. s \in Seq(Entry)
    BY <2>4, <2>6
  <2>. QED
    BY <2>7 DEF s
<1>. QED
  BY <1>4, <1>5, <1>6, <1>7, Zenon

----------------------------------------------------------------------------
\* The settings in force.

\* What a process runs on is complete, also while it keeps an older generation.
Positives ==
  /\ running => Complete(snapshot) /\ Complete(started)
  /\ routing # NoRouting => \A k \in Reloadable : routing.number[k] \in Nat \ {0}

\* A rebuild takes its numbers from a complete config or leaves them.
LEMMA RebuiltIsPositive ==
  ASSUME NEW c, NEW list, Complete(c), Positives
  PROVE  Rebuilt(c, list) # NoRouting => \A k \in Reloadable : Rebuilt(c, list).number[k] \in Nat \ {0}
<1>1. \/ Rebuilt(c, list).number = [k \in Reloadable |-> c.number[k]]
      \/ Rebuilt(c, list) = routing
  BY Zenon DEF Rebuilt
<1>2. \A k \in Reloadable : c.number[k] \in Nat \ {0}
  <2>1. Reloadable \subseteq DOMAIN DefaultOf
    BY DEF Reloadable, DefaultOf
  <2>. QED
    BY <2>1, Zenon DEF Complete
<1>3. CASE Rebuilt(c, list).number = [k \in Reloadable |-> c.number[k]]
  BY <1>2, <1>3, Zenon
<1>4. CASE Rebuilt(c, list) = routing
  BY <1>4, Zenon DEF Positives
<1>. QED
  BY <1>1, <1>3, <1>4, Zenon

\* A file with any numbers in any places never gives a running process a ticker
\* period, threshold or limit below 1, a cluster node that is named by a leftover
\* reference or a provider without a target, whatever is reloaded and whether or not
\* the host has a name (internal/config/config.go Validate and Defaults,
\* cli/engine.go rebuild).
THEOREM FilesAreWorkable == Spec => []Workable
<1>1. Init => Positives
  BY Zenon DEF Init, Positives
<1>2. ASSUME Positives, [Next]_vars
      PROVE  Positives'
  <2>1. CASE Start
    <3>1. Complete(snapshot') /\ started' = snapshot' /\ routing' = Rebuilt(snapshot', found')
      BY <2>1, EffectiveIsComplete, Zenon DEF Start
    <3>. QED
      BY <1>2, <3>1, RebuiltIsPositive, Zenon DEF Positives
  <2>2. CASE Reload
    <3>1. /\ Complete(snapshot') /\ Complete(started) /\ started' = started
          /\ routing' = Rebuilt(snapshot', found)
      BY <1>2, <2>2, EffectiveIsComplete, Zenon DEF Reload, Positives
    <3>. QED
      BY <1>2, <3>1, RebuiltIsPositive, Zenon DEF Positives
  <2>3. CASE OnDiscovery
    <3>1. /\ Complete(snapshot) /\ Complete(started) /\ snapshot' = snapshot /\ started' = started
          /\ routing' = Rebuilt(snapshot, found')
      BY <1>2, <2>3, Zenon DEF OnDiscovery, Positives
    <3>. QED
      BY <1>2, <3>1, RebuiltIsPositive, Zenon DEF Positives
  <2>4. CASE Stop
    BY <2>4, Zenon DEF Stop, Positives
  <2>5. CASE UNCHANGED vars
    BY <1>2, <2>5, Zenon DEF vars, Positives
  <2>. QED
    BY <1>2, <2>1, <2>2, <2>3, <2>4, <2>5, Zenon DEF Next
<1>3. Positives => Workable
  <2> SUFFICES ASSUME Positives, running
               PROVE  Workable
    BY Zenon DEF Workable
  <2>1. \A n \in Nat \ {0} : n >= 1
    OBVIOUS
  <2>2. Complete(started)
    BY Zenon DEF Positives
  <2>3. routing # NoRouting => \A k \in Reloadable : routing.number[k] >= 1
    BY <2>1, Zenon DEF Positives
  <2>4. \A k \in AtStart : started.number[k] >= 1
    BY <2>1, <2>2, Zenon DEF Complete, AtStart
  <2>5. started.cluster => started.gossip >= 1 /\ started.node # "unresolved"
    BY <2>1, <2>2, Zenon DEF Complete
  <2>6. (Discovers(started) => started.target) /\ (started.provider = "dns" => started.dnsPort \in 1 .. MaxPort)
    BY <2>2, Zenon DEF Complete
  <2>. QED
    BY <2>3, <2>4, <2>5, <2>6, Zenon DEF Workable
<1>. QED
  BY <1>1, <1>2, <1>3, PTL DEF Spec
----------------------------------------------------------------------------

\* The generation that rebuild makes of a config and a listing.
Built(c, list) ==
  [strategy |-> c.strategy, slots |-> Slots(c.strategy, Merge(c.backends, list)),
   number |-> [k \in Reloadable |-> c.number[k]]]

\* The generation in use is the one that the config in force and the last listing call
\* for, unless they name no server at all.
Settled ==
  /\ found \in Listings \cup {<<>>}
  /\ running \in BOOLEAN
  /\ snapshot \in Config /\ started \in Config /\ routing \in Routing
  /\ running =>
       /\ snapshot.strategy \in Strategies /\ snapshot.backends \in Seq(Entry)
       /\ Merge(snapshot.backends, found) # <<>> => routing = Built(snapshot, found)
  /\ ~running => routing = NoRouting

\* A listing is a list of servers.
LEMMA ListingType ==
  \A list \in Listings \cup {<<>>} : list \in Seq(Servers)
BY SettingsAssumption, NoElements, Zenon

\* rebuild makes that generation: balancer.New refuses nothing that Validate let through.
LEMMA RebuiltInForce ==
  ASSUME NEW c \in Config, c.strategy \in Strategies, c.backends \in Seq(Entry),
         NEW list \in Listings \cup {<<>>}, routing \in Routing
  PROVE  /\ Rebuilt(c, list) \in Routing
         /\ Merge(c.backends, list) # <<>> => Rebuilt(c, list) = Built(c, list)
<1> DEFINE k == Merge(c.backends, list)
<1>1. list \in Seq(Servers)
  BY ListingType
<1>2. CASE k = <<>>
  BY <1>2, Zenon DEF Rebuilt, CanBuild
<1>3. CASE k # <<>>
  <2>1. Firsts(c.backends \o Listed(list), Len(c.backends \o Listed(list)), k)
    BY <1>1, MergeIsSound, Zenon
  <2>2. k \in Seq(Entry)
    BY <2>1, Zenon DEF Firsts
  <2>3. \A i \in DOMAIN k : k[i].weight >= 0
    <3> HIDE DEF k
    <3>1. \A i \in DOMAIN k : k[i] \in Entry
      BY <2>2
    <3>2. \A e \in Entry : e.weight \in Nat
      BY DEF Entry
    <3>3. \A w \in Nat : w >= 0
      OBVIOUS
    <3>. QED
      BY <3>1, <3>2, <3>3, Zenon
  <2>4. Rebuilt(c, list) = Built(c, list)
    BY <1>3, <2>3, Zenon DEF Rebuilt, CanBuild, Built
  <2>5. Slots(c.strategy, k) \in Seq(Servers)
    BY <1>1, <1>3, BuiltPool, Zenon
  <2>6. [m \in Reloadable |-> c.number[m]] \in [Reloadable -> Int]
    <3>1. c.number \in [DOMAIN DefaultOf -> Int]
      BY DEF Config
    <3>2. Reloadable \subseteq DOMAIN DefaultOf
      BY DEF Reloadable, DefaultOf
    <3>. QED
      BY <3>1, <3>2, Zenon
  <2>7. Built(c, list) \in Routing
    BY <2>5, <2>6, Zenon DEF Built, Routing
  <2>. QED
    BY <2>4, <2>7
<1>. QED
  BY <1>2, <1>3

\* The zero values are a config and a generation.
LEMMA UnsetTypes ==
  Unset \in Config /\ NoRouting \in Routing
<1>1. [k \in DOMAIN DefaultOf |-> 0] \in [DOMAIN DefaultOf -> Int]
  OBVIOUS
<1>2. Unset \in Config
  <2> DEFINE number == [k \in DOMAIN DefaultOf |-> 0]
  <2>1. <<>> \in Seq([url : Servers \cup {"", "other"}, weight : Int])
    BY NoElements, Zenon
  <2>2. {} \in SUBSET (Exporters \cup {"other"}) /\ 0 \in Int
    OBVIOUS
  <2>. QED
    BY <1>1, <2>1, <2>2, Zenon DEF Unset, Config
<1>3. [k \in Reloadable |-> 0] \in [Reloadable -> Int]
  OBVIOUS
<1>4. NoRouting \in Routing
  <2>1. <<>> \in Seq(Servers)
    BY NoElements, Zenon
  <2>. QED
    BY <1>3, <2>1, Zenon DEF NoRouting, Routing
<1>. QED
  BY <1>2, <1>4

\* Every start, reload and discovery rebuilds.
LEMMA SettledInvariant ==
  Spec => []Settled
<1>1. Init => Settled
  BY UnsetTypes, Zenon DEF Init, Settled
<1>2. Settled /\ [Next]_vars => Settled'
  <2> SUFFICES ASSUME Settled, [Next]_vars
               PROVE  Settled'
    OBVIOUS
  <2>1. CASE Start
    <3>1. snapshot' \in Effective /\ started' = snapshot' /\ running' = TRUE
          /\ found' \in Listings \cup {<<>>} /\ routing' = Rebuilt(snapshot', found')
      BY <2>1, Zenon DEF Start
    <3>2. snapshot' \in Config /\ snapshot'.strategy \in Strategies /\ snapshot'.backends \in Seq(Entry)
      BY <3>1, EffectiveType, Zenon
    <3>3. routing' \in Routing
          /\ (Merge(snapshot'.backends, found') # <<>> => routing' = Built(snapshot', found'))
      BY <3>1, <3>2, RebuiltInForce, Zenon DEF Settled
    <3>. QED
      BY <3>1, <3>2, <3>3, Zenon DEF Settled, Built
  <2>2. CASE Reload
    <3>1. snapshot' \in Effective /\ running' = running /\ running /\ started' = started
          /\ found' = found /\ routing' = Rebuilt(snapshot', found)
      BY <2>2, Zenon DEF Reload
    <3>2. snapshot' \in Config /\ snapshot'.strategy \in Strategies /\ snapshot'.backends \in Seq(Entry)
      BY <3>1, EffectiveType, Zenon
    <3>3. routing' \in Routing
          /\ (Merge(snapshot'.backends, found) # <<>> => routing' = Built(snapshot', found))
      BY <3>1, <3>2, RebuiltInForce, Zenon DEF Settled
    <3>. QED
      BY <3>1, <3>2, <3>3, Zenon DEF Settled, Built
  <2>3. CASE OnDiscovery
    <3>1. snapshot' = snapshot /\ running' = running /\ running /\ started' = started
          /\ found' \in Listings \cup {<<>>} /\ routing' = Rebuilt(snapshot, found')
      BY <2>3, Zenon DEF OnDiscovery
    <3>2. snapshot \in Config /\ snapshot.strategy \in Strategies /\ snapshot.backends \in Seq(Entry)
      BY <3>1, Zenon DEF Settled
    <3>3. routing' \in Routing
          /\ (Merge(snapshot.backends, found') # <<>> => routing' = Built(snapshot, found'))
      BY <3>1, <3>2, RebuiltInForce, Zenon DEF Settled
    <3>. QED
      BY <3>1, <3>2, <3>3, Zenon DEF Settled, Built
  <2>4. CASE Stop
    BY <2>4, UnsetTypes, Zenon DEF Stop, Settled
  <2>5. CASE UNCHANGED vars
    BY <2>5, Zenon DEF vars, Settled, Built
  <2>. QED
    BY <2>1, <2>2, <2>3, <2>4, <2>5 DEF Next
<1>. QED
  BY <1>1, <1>2, PTL DEF Spec

\* Snapshot, listing and generation have their types; above all the slots hold servers
\* only, never an entry without a URL (cli/engine.go mergeEntries).
THEOREM TypeCorrect ==
  Spec => []TypeOK
<1>1. Settled => TypeOK
  BY Zenon DEF Settled, TypeOK
<1>. QED
  BY <1>1, SettledInvariant, PTL

\* An accepted config is in force, as far as a rebuild carries it: rebuild
\* (cli/engine.go:254) never keeps an older generation because balancer.New refuses
\* what Validate let pass, however reloads and discovery follow one another, and the
\* generation has the strategy and the Reloadable numbers of the config and exactly
\* the servers of both.
THEOREM ConfigTakesEffect ==
  Spec => []AcceptedInForce
<1>1. Settled => AcceptedInForce
  <2> SUFFICES ASSUME Settled, running, Merge(snapshot.backends, found) # <<>>
               PROVE  /\ routing.strategy = snapshot.strategy
                      /\ \A k \in Reloadable : routing.number[k] = snapshot.number[k]
                      /\ Range(routing.slots) = {b.url : b \in Range(snapshot.backends)} \cup Range(found)
    BY Zenon DEF AcceptedInForce
  <2>1. snapshot.backends \in Seq(Entry) /\ routing = Built(snapshot, found)
    BY Zenon DEF Settled
  <2>2. found \in Seq(Servers)
    BY ListingType, Zenon DEF Settled
  <2>3. /\ routing.strategy = snapshot.strategy
        /\ \A k \in Reloadable : routing.number[k] = snapshot.number[k]
        /\ routing.slots = Slots(snapshot.strategy, Merge(snapshot.backends, found))
    BY <2>1, Zenon DEF Built
  <2>. QED
    BY <2>1, <2>2, <2>3, BuiltPool
<1>. QED
  BY <1>1, SettledInvariant, PTL

\* In every generation a server has as many turns as the first entry that names it
\* says, also when it is named again or discovered as well (cli/engine.go mergeEntries,
\* internal/balancer/balancer.go NewWeightedRoundRobin).
THEOREM SharesAreFair ==
  Spec => []FairShares
<1>1. Settled => FairShares
  <2> SUFFICES ASSUME Settled, Merge(snapshot.backends, found) # <<>>, NEW s \in Range(routing.slots)
               PROVE  TurnsIn(routing.slots, s)
                        = IF routing.strategy = "weighted_round_robin" /\ FirstWeight(snapshot.backends, s) > 1
                            THEN FirstWeight(snapshot.backends, s) ELSE 1
    BY Zenon DEF FairShares
  <2>1. running
    <3>1. ASSUME ~ running
          PROVE  FALSE
      <4>1. routing.slots = <<>>
        <5>1. routing = NoRouting
          BY <3>1, Zenon DEF Settled
        <5>. QED
          BY <5>1 DEF NoRouting
      <4>2. Range(<<>>) = {}
        BY DEF Range
      <4>. QED
        BY <4>1, <4>2, Zenon
    <3>. QED
      BY <3>1
  <2>2. snapshot.backends \in Seq(Entry) /\ routing = Built(snapshot, found)
    BY <2>1, Zenon DEF Settled
  <2>3. found \in Seq(Servers)
    BY ListingType, Zenon DEF Settled
  <2>4. /\ routing.strategy = snapshot.strategy
        /\ routing.slots = Slots(snapshot.strategy, Merge(snapshot.backends, found))
    BY <2>2, Zenon DEF Built
  <2>5. s \in Range(Slots(snapshot.strategy, Merge(snapshot.backends, found)))
    BY <2>4, Zenon
  <2>6. TurnsIn(Slots(snapshot.strategy, Merge(snapshot.backends, found)), s)
          = IF snapshot.strategy = "weighted_round_robin" /\ FirstWeight(snapshot.backends, s) > 1
              THEN FirstWeight(snapshot.backends, s) ELSE 1
    BY <2>2, <2>3, <2>5, PoolShares
  <2>. QED
    BY <2>4, <2>6, Zenon
<1>. QED
  BY <1>1, SettledInvariant, PTL

----------------------------------------------------------------------------
\* The file.

\* Reading documents (ConfigFile) implements Settings: every start and reload from a
\* document is one from the config that Load makes of it (internal/config/config.go).
THEOREM FileImplementsSettings ==
  FileSpec => Spec
<1>1. FileInit => Init
  BY DEF FileInit
<1>2. [FileNext]_fileVars => [Next]_vars
  BY Zenon DEF FileNext, ReadBy, fileVars, Next
<1>. QED
  BY <1>1, <1>2, PTL DEF FileSpec, Spec

\* The config that a document comes to.
OfDoc(d, h) == Defaults(ApplyEnvOverrides(Load(d)), h)
Holds(c, d) == d \in Docs /\ Accepts(d) /\ \E h \in Hostname : c = OfDoc(d, h)

\* A running process runs on the document it has read last, and since its start on the
\* one it read then.
FromFile ==
  running => Holds(snapshot, doc) /\ Holds(started, first)

\* Nothing but a start or a reload changes the config, and they change it to the file's.
LEMMA FromFileInvariant ==
  FileSpec => []FromFile
<1>1. FileInit => FromFile
  BY Zenon DEF FileInit, Init, FromFile
<1>2. FromFile /\ [FileNext]_fileVars => FromFile'
  <2> SUFFICES ASSUME FromFile, [FileNext]_fileVars
               PROVE  FromFile'
    OBVIOUS
  <2>0. ASSUME NEW d \in Acceptable, NEW h \in Hostname,
               snapshot' = Defaults(ApplyEnvOverrides(Load(d)), h)
        PROVE  Holds(snapshot', d)
    BY <2>0, Zenon DEF Acceptable, Holds, OfDoc
  <2>1. ASSUME NEW d \in Acceptable, ReadBy(Start, d), first' = d
        PROVE  FromFile'
    <3>1. Holds(snapshot', d) /\ doc' = d
      BY <2>0, <2>1, Zenon DEF ReadBy
    <3>2. started' = snapshot'
      BY <2>1, Zenon DEF ReadBy, Start
    <3>3. Holds(snapshot', doc') /\ Holds(started', first')
      BY <2>1, <3>1, <3>2, Zenon
    <3>. QED
      BY <3>3, Zenon DEF FromFile, Holds, Accepts, OfDoc, Load
  <2>2. ASSUME NEW d \in Acceptable, ReadBy(Reload, d), UNCHANGED first
        PROVE  FromFile'
    <3>1. Holds(snapshot', d) /\ doc' = d
      BY <2>0, <2>2, Zenon DEF ReadBy
    <3>2. Holds(started, first) /\ started' = started
      BY <2>2, Zenon DEF ReadBy, Reload, FromFile
    <3>3. Holds(snapshot', doc') /\ Holds(started', first')
      BY <2>2, <3>1, <3>2, Zenon
    <3>. QED
      BY <3>3, Zenon DEF FromFile, Holds, Accepts, OfDoc, Load
  <2>3. CASE OnDiscovery /\ UNCHANGED <<doc, first>>
    BY <2>3, Zenon DEF OnDiscovery, FromFile, Holds
  <2>4. CASE Stop /\ doc' = Null /\ first' = Null
    BY <2>4, Zenon DEF Stop, FromFile
  <2>5. CASE UNCHANGED fileVars
    BY <2>5, Zenon DEF fileVars, vars, FromFile, Holds
  <2>. QED
    BY <2>1, <2>2, <2>3, <2>4, <2>5, Zenon DEF FileNext
<1>. QED
  BY <1>1, <1>2, PTL DEF FileSpec

\* The process has read one of the documents, and has forgotten it when it ends.
THEOREM FileTypeCorrect ==
  FileSpec => []FileTypeOK
<1> DEFINE DocType == /\ doc \in IF running THEN Docs ELSE {Null}
                      /\ first \in IF running THEN Docs ELSE {Null}
<1>1. FileInit => DocType
  BY Zenon DEF FileInit, Init
<1>2. DocType /\ [FileNext]_fileVars => DocType'
  <2> SUFFICES ASSUME DocType, [FileNext]_fileVars
               PROVE  DocType'
    OBVIOUS
  <2>1. ASSUME NEW d \in Acceptable, ReadBy(Start, d), first' = d
        PROVE  DocType'
    <3>1. doc' = d /\ running' /\ d \in Docs
      BY <2>1, Zenon DEF ReadBy, Start, Acceptable
    <3>. QED
      BY <2>1, <3>1, Zenon
  <2>2. ASSUME NEW d \in Acceptable, ReadBy(Reload, d), UNCHANGED first
        PROVE  DocType'
    <3>1. doc' = d /\ running /\ running' = running /\ d \in Docs
      BY <2>2, Zenon DEF ReadBy, Reload, Acceptable
    <3>. QED
      BY <2>2, <3>1, Zenon
  <2>3. CASE OnDiscovery /\ UNCHANGED <<doc, first>>
    BY <2>3, Zenon DEF OnDiscovery
  <2>4. CASE Stop /\ doc' = Null /\ first' = Null
    BY <2>4, Zenon DEF Stop
  <2>5. CASE UNCHANGED fileVars
    BY <2>5, Zenon DEF fileVars, vars
  <2>. QED
    BY <2>1, <2>2, <2>3, <2>4, <2>5, Zenon DEF FileNext
<1>3. TypeOK /\ DocType => FileTypeOK
  BY Zenon DEF FileTypeOK
<1>. QED
  BY <1>1, <1>2, <1>3, FileImplementsSettings, TypeCorrect, PTL DEF FileSpec

\* What Validate and Defaults do to what the document says.
LEMMA OfDocFields ==
  ASSUME NEW d \in Docs, Accepts(d), NEW h \in Hostname
  PROVE  /\ Load(d) \in Config /\ ApplyEnvOverrides(Load(d)) \in Config
         /\ OfDoc(d, h).backends = Load(d).backends
         /\ OfDoc(d, h).strategy = Text(Load(d).strategy, "round_robin")
         /\ \A k \in DOMAIN DefaultOf : OfDoc(d, h).number[k] = Positive(Load(d).number[k], DefaultOf[k])
         /\ Load(d).strategy # "other"
         /\ \A i \in DOMAIN Load(d).backends : Load(d).backends[i].url \in Servers
<1> DEFINE c == Load(d)
           o == ApplyEnvOverrides(c)
<1>1. c \in Config
  BY SettingsAssumption, DocsAssumption, Zenon DEF Accepts
<1>2. Validate(o)
  BY Zenon DEF Accepts
<1>3. OfDoc(d, h) = Defaults(o, h)
  BY Zenon DEF OfDoc
<1> HIDE DEF c
<1>4. o \in Config
  BY <1>1, Overridden
<1>5. o.backends = c.backends /\ o.strategy = c.strategy /\ o.number = c.number
  <2>1. CASE EnvPort = <<>>
    BY <2>1, Zenon DEF ApplyEnvOverrides
  <2>2. CASE EnvPort # <<>>
    BY <1>1, <2>2, Zenon DEF ApplyEnvOverrides, Config
  <2>. QED
    BY <2>1, <2>2
<1> HIDE DEF o
<1>6. /\ Defaults(o, h).backends = o.backends
      /\ Defaults(o, h).strategy = Text(o.strategy, "round_robin")
      /\ Defaults(o, h).number = [k \in DOMAIN DefaultOf |-> Positive(o.number[k], DefaultOf[k])]
  BY <1>4, Zenon DEF Defaults, Config
<1>7. o.strategy # "other" /\ \A i \in DOMAIN o.backends : o.backends[i].url \in Servers
  BY <1>2, Zenon DEF Validate, ValidBackend
<1>8. \A k \in DOMAIN DefaultOf : OfDoc(d, h).number[k] = Positive(c.number[k], DefaultOf[k])
  BY <1>3, <1>5, <1>6, Zenon
<1>. QED
  BY <1>1, <1>3, <1>4, <1>5, <1>6, <1>7, <1>8, Zenon DEF c, o

\* What Load takes from the document.
LEMMA LoadFields ==
  ASSUME NEW d
  PROVE  /\ \A k \in DOMAIN DefaultOf : Load(d).number[k] = AsNumber(Find(d, NumberPath[k]))
         /\ Load(d).strategy = AsText(Find(d, <<"balancer", "strategy">>), Strategies \cup {""})
         /\ DOMAIN Load(d).backends = DOMAIN Elements(d, <<"backends">>)
         /\ \A i \in DOMAIN Elements(d, <<"backends">>) :
              Load(d).backends[i].url = AsText(Child(Elements(d, <<"backends">>)[i], "url"), Servers \cup {""})
BY Zenon DEF Load

\* Validate lets a document through only if every server it names is one.
LEMMA ServersAsWritten ==
  ASSUME NEW d \in Docs, Accepts(d)
  PROVE  {b.url : b \in Range(Load(d).backends)}
           = {Child(e, "url")[2] : e \in Range(Elements(d, <<"backends">>))}
<1> DEFINE bs == Load(d).backends
           es == Elements(d, <<"backends">>)
<1>1. DOMAIN bs = DOMAIN es
  BY LoadFields, Zenon
<1>2. ASSUME NEW i \in DOMAIN es
      PROVE  bs[i].url = Child(es[i], "url")[2]
  <2> DEFINE v == Child(es[i], "url")
  <2>1. bs[i].url \in Servers
    BY <1>1, OfDocFields, Zenon DEF Hostname
  <2>2. bs[i].url = AsText(v, Servers \cup {""})
    BY LoadFields, Zenon
  <2> HIDE DEF v
  <2>3. "" \notin Servers /\ "other" \notin Servers
    BY SettingsAssumption, Zenon
  <2>4. AsText(v, Servers \cup {""}) \in {"", v[2], "other"}
    BY Zenon DEF AsText
  <2>. QED
    BY <2>1, <2>2, <2>3, <2>4, Zenon DEF v
<1> HIDE DEF bs, es
<1>3. {b.url : b \in Range(bs)} = {Child(e, "url")[2] : e \in Range(es)}
  <2>1. {b.url : b \in Range(bs)} = {bs[i].url : i \in DOMAIN bs}
    BY Zenon DEF Range
  <2>2. {Child(e, "url")[2] : e \in Range(es)} = {Child(es[i], "url")[2] : i \in DOMAIN es}
    BY Zenon DEF Range
  <2>3. {bs[i].url : i \in DOMAIN bs} = {Child(es[i], "url")[2] : i \in DOMAIN es}
    BY <1>1, <1>2, Zenon
  <2>. QED
    BY <2>1, <2>2, <2>3, Zenon
<1>. QED
  BY <1>3 DEF bs, es

\* Defaults leaves a positive number as it is written.
LEMMA NumbersAsWritten ==
  ASSUME NEW c, NEW d, Holds(c, d)
  PROVE  \A k \in DOMAIN DefaultOf : Heeded(d, k, c.number[k])
<1> SUFFICES ASSUME NEW k \in DOMAIN DefaultOf,
                    Find(d, NumberPath[k])[1] = "int", Find(d, NumberPath[k])[2] >= 1
             PROVE  c.number[k] = Find(d, NumberPath[k])[2]
  BY Zenon DEF Heeded
<1> DEFINE v == Find(d, NumberPath[k])
<1>1. PICK h \in Hostname : d \in Docs /\ Accepts(d) /\ c = OfDoc(d, h)
  BY Zenon DEF Holds
<1>2. Load(d) \in Config /\ c.number[k] = Positive(Load(d).number[k], DefaultOf[k])
  BY <1>1, OfDocFields, Zenon
<1>3. Load(d).number[k] = AsNumber(v)
  BY LoadFields, Zenon
<1>4. Load(d).number[k] \in Int
  <2>1. Load(d).number \in [DOMAIN DefaultOf -> Int]
    BY <1>2, Zenon DEF Config
  <2>. QED
    BY <2>1, Zenon
<1> HIDE DEF v
<1>5. AsNumber(v) = v[2]
  <2>1. "int" # "half"
    OBVIOUS
  <2>. QED
    BY <2>1, Zenon DEF AsNumber, v
<1>6. \A n \in Int : n >= 1 => ~ n <= 0
  OBVIOUS
<1>7. Positive(v[2], DefaultOf[k]) = v[2]
  BY <1>3, <1>4, <1>5, <1>6, Zenon DEF Positive, v
<1>. QED
  BY <1>2, <1>3, <1>5, <1>7, Zenon DEF v

\* What the file says is what runs: the strategy, with what discovery found the servers,
\* and every positive number, from the document read last or, where a rebuild does not
\* carry it over, from the one read at start (internal/config/config.go Load, Validate,
\* Defaults, cli/engine.go rebuild and cli/main.go startCommand).
THEOREM FileTakesEffect ==
  FileSpec => []WrittenInForce
<1>1. FromFile /\ Settled /\ AcceptedInForce => WrittenInForce
  <2> SUFFICES ASSUME FromFile, Settled, AcceptedInForce, running
               PROVE  WrittenInForce
    BY Zenon DEF WrittenInForce
  <2> DEFINE d == doc
             c == Load(d)
             servers == {Child(e, "url")[2] : e \in Range(Elements(d, <<"backends">>))}
             strategy == Find(d, <<"balancer", "strategy">>)
  <2>0. Reloadable \subseteq DOMAIN DefaultOf /\ AtStart \subseteq DOMAIN DefaultOf
    BY DEF Reloadable, AtStart, DefaultOf
  <2>1. PICK h \in Hostname : d \in Docs /\ Accepts(d) /\ snapshot = OfDoc(d, h)
    BY Zenon DEF FromFile, Holds
  <2>2. c \in Config /\ snapshot.backends = c.backends /\ c.strategy # "other"
        /\ snapshot.strategy = Text(c.strategy, "round_robin")
    BY <2>1, OfDocFields, Zenon
  <2>3. /\ \A k \in AtStart : Heeded(first, k, started.number[k])
        /\ \A k \in Reloadable : Heeded(doc, k, snapshot.number[k])
    BY <2>0, NumbersAsWritten, Zenon DEF FromFile
  <2>4. ASSUME servers \cup Range(found) # {}
        PROVE  /\ Range(routing.slots) = servers \cup Range(found)
               /\ strategy # Null => strategy[1] = "string" /\ strategy[2] \in {"", routing.strategy}
               /\ \A k \in Reloadable : Heeded(doc, k, routing.number[k])
    <3>1. {b.url : b \in Range(snapshot.backends)} = servers
      BY <2>1, <2>2, ServersAsWritten, Zenon
    <3>2. \A s : Range(s) = Range(s)
      BY Zenon DEF Range
    <3>3. found \in Seq(Servers) /\ snapshot.backends \in Seq(Entry)
      BY ListingType, Zenon DEF Settled
    <3>4. Merge(snapshot.backends, found) # <<>>
      BY <2>4, <3>1, <3>2, <3>3, SomeServer, Zenon
    <3>5. routing.strategy = snapshot.strategy /\ Range(routing.slots) = servers \cup Range(found)
      BY <3>1, <3>4, Zenon DEF AcceptedInForce
    <3>6. c.strategy = AsText(strategy, Strategies \cup {""})
      BY LoadFields, Zenon
    <3> HIDE DEF strategy, c
    <3>7. ASSUME strategy # Null
          PROVE  strategy[1] = "string" /\ c.strategy = strategy[2]
      BY <2>2, <3>6, <3>7, Zenon DEF AsText
    <3>8. ASSUME strategy # Null
          PROVE  strategy[2] \in {"", routing.strategy}
      BY <2>2, <3>5, <3>7, <3>8, Zenon DEF Text
    <3>9. \A k \in Reloadable : Heeded(doc, k, routing.number[k])
      BY <2>3, <3>4, Zenon DEF AcceptedInForce
    <3>. QED
      BY <3>2, <3>5, <3>7, <3>8, <3>9, Zenon
  <2>. QED
    BY <2>3, <2>4, Zenon DEF WrittenInForce
<1>. QED
  BY <1>1, FromFileInvariant, FileImplementsSettings, SettledInvariant, ConfigTakesEffect, PTL

----------------------------------------------------------------------------
\* Walks over trees.

\* What is right below a level of a walk: of the validator, of the document, of the schema.
Below(walk, level) ==
  CASE walk = "calls"  -> UNION {Calls(c) : c \in level}
    [] walk = "nodes"  -> UNION {Inside(c) : c \in level}
    [] walk = "places" -> UNION {Parts(c) : c \in level}

\* f[n] is what the walk meets n steps below its start.
Walks(walk, start, f) ==
  f = [n \in Nat |-> IF n = 0 THEN {start} ELSE Below(walk, f[n - 1])]

\* Every walk has its levels.  (As Iteration, but no set holds all of a walk.)
LEMMA WalkExists ==
  ASSUME NEW walk, NEW start
  PROVE  \E f : Walks(walk, start, f)
<1> DEFINE To(n, g) == g = [i \in 0 .. n |-> IF i = 0 THEN {start} ELSE Below(walk, g[i - 1])]
           Some == {n \in Nat : \E g : To(n, g)}
           Same == {i \in Nat : \A m, n \in Nat : \A g, k :
                                   To(m, g) /\ To(n, k) /\ i <= m /\ i <= n => g[i] = k[i]}
           Pick(n) == CHOOSE g : To(n, g)
           f == [n \in Nat |-> Pick(n)[n]]
<1>0. \A n \in Nat : \A g : To(n, g) => g[0] = {start} /\ \A i \in 1 .. n : g[i] = Below(walk, g[i - 1])
  <2> SUFFICES ASSUME NEW n \in Nat, NEW g, To(n, g)
               PROVE  g[0] = {start} /\ \A i \in 1 .. n : g[i] = Below(walk, g[i - 1])
    BY Zenon
  <2>1. \A i \in 0 .. n : g[i] = IF i = 0 THEN {start} ELSE Below(walk, g[i - 1])
    BY Zenon
  <2> HIDE DEF To
  <2>2. 0 \in 0 .. n /\ \A i \in 1 .. n : i \in 0 .. n /\ i # 0
    OBVIOUS
  <2>. QED
    BY <2>1, <2>2
<1>1. Nat \subseteq Some
  <2>1. 0 \in Some
    <3> DEFINE g == [i \in 0 .. 0 |-> {start}]
    <3>1. \A i \in 0 .. 0 : i = 0
      OBVIOUS
    <3>2. g = [i \in 0 .. 0 |-> IF i = 0 THEN {start} ELSE Below(walk, g[i - 1])]
      BY <3>1, Zenon
    <3>. QED
      BY <3>2, Zenon
  <2>2. ASSUME NEW n \in Nat, n \in Some
        PROVE  n + 1 \in Some
    <3>1. PICK g : To(n, g)
      BY <2>2
    <3> DEFINE k == [i \in 0 .. n + 1 |-> IF i <= n THEN g[i] ELSE Below(walk, g[n])]
    <3>2. g[0] = {start} /\ \A i \in 1 .. n : g[i] = Below(walk, g[i - 1])
      BY <1>0, <3>1, Zenon
    <3> HIDE DEF To
    <3>3. ASSUME NEW i \in 0 .. n + 1
          PROVE  k[i] = IF i = 0 THEN {start} ELSE Below(walk, k[i - 1])
      <4>1. CASE i = 0
        BY <3>2, <4>1
      <4>2. CASE i \in 1 .. n
        <5>1. k[i] = g[i] /\ k[i - 1] = g[i - 1] /\ i # 0
          BY <4>2
        <5>. QED
          BY <3>2, <4>2, <5>1
      <4>3. CASE i = n + 1
        <5>1. k[i] = Below(walk, g[n]) /\ k[i - 1] = g[n] /\ i # 0
          BY <4>3
        <5>. QED
          BY <4>3, <5>1
      <4>. QED
        BY <4>1, <4>2, <4>3
    <3>4. k = [i \in 0 .. n + 1 |-> k[i]]
      OBVIOUS
    <3> HIDE DEF k
    <3>5. To(n + 1, k)
      BY <3>3, <3>4, Zenon DEF To
    <3>6. n + 1 \in Nat
      OBVIOUS
    <3>. QED
      BY <3>5, <3>6
  <2> HIDE DEF Some
  <2>. QED
    BY <2>1, <2>2, Induction
<1>2. Nat \subseteq Same
  <2> HIDE DEF To
  <2>1. 0 \in Same
    BY <1>0, SMTT(30)
  <2>2. ASSUME NEW i \in Nat, i \in Same
        PROVE  i + 1 \in Same
    <3> SUFFICES ASSUME NEW m \in Nat, NEW n \in Nat, NEW g, NEW k, To(m, g), To(n, k),
                        i + 1 <= m, i + 1 <= n
                 PROVE  g[i + 1] = k[i + 1]
      OBVIOUS
    <3>1. g[i] = k[i]
      BY <2>2
    <3>2. i + 1 \in 1 .. m /\ i + 1 \in 1 .. n /\ (i + 1) - 1 = i
      OBVIOUS
    <3>3. g[i + 1] = Below(walk, g[i]) /\ k[i + 1] = Below(walk, k[i])
      BY <1>0, <3>2
    <3>. QED
      BY <3>1, <3>3
  <2> HIDE DEF Same
  <2>. QED
    BY <2>1, <2>2, Induction
<1>3. \A n \in Nat : To(n, Pick(n))
  BY <1>1, Zenon
<1> HIDE DEF To, Pick
<1>4. ASSUME NEW n \in Nat
      PROVE  f[n] = IF n = 0 THEN {start} ELSE Below(walk, f[n - 1])
  <2>1. CASE n = 0
    BY <1>0, <1>3, <2>1
  <2>2. CASE n # 0
    <3>1. n - 1 \in Nat /\ n - 1 <= n /\ n \in 1 .. n
      BY <2>2
    <3>2. Pick(n)[n - 1] = Pick(n - 1)[n - 1]
      BY <1>2, <1>3, <3>1
    <3>3. Pick(n)[n] = Below(walk, Pick(n)[n - 1])
      BY <1>0, <1>3, <3>1
    <3>. QED
      BY <2>2, <3>1, <3>2, <3>3
  <2>. QED
    BY <2>1, <2>2
<1>5. f = [n \in Nat |-> f[n]]
  OBVIOUS
<1> HIDE DEF f
<1>6. Walks(walk, start, f)
  BY <1>4, <1>5, Zenon DEF Walks
<1>. QED
  BY <1>6

\* The levels of a walk.
Levels(walk, start, f) == f[0] = {start} /\ \A n \in Nat : f[n + 1] = Below(walk, f[n])

\* A walk by its levels.
LEMMA WalkUnfolds ==
  ASSUME NEW walk, NEW start, NEW f, Walks(walk, start, f)
  PROVE  Levels(walk, start, f)
<1>1. \A n \in Nat : f[n] = IF n = 0 THEN {start} ELSE Below(walk, f[n - 1])
  BY Zenon DEF Walks
<1>2. 0 \in Nat /\ \A n \in Nat : n + 1 \in Nat /\ n + 1 # 0 /\ (n + 1) - 1 = n
  OBVIOUS
<1>3. f[0] = {start} /\ \A n \in Nat : f[n + 1] = Below(walk, f[n])
  BY <1>1, <1>2
<1>. QED
  BY <1>3, Zenon DEF Levels

\* The calls of the validator.
LEMMA CallLevels ==
  ASSUME NEW start
  PROVE  \E f : /\ Levels("calls", start, f)
                /\ Everything(start, Calls) = UNION {f[n] : n \in 0 .. MaxDepth}
<1> DEFINE f == CHOOSE level : level =
                  [n \in Nat |-> IF n = 0 THEN {start} ELSE UNION {Calls(c) : c \in level[n - 1]}]
<1>1. \A x : Below("calls", x) = UNION {Calls(c) : c \in x}
  BY Zenon DEF Below
<1>2. PICK g : Walks("calls", start, g)
  BY WalkExists, Zenon
<1>3. g = [n \in Nat |-> IF n = 0 THEN {start} ELSE UNION {Calls(c) : c \in g[n - 1]}]
  BY <1>1, <1>2, Zenon DEF Walks
<1>4. f = [n \in Nat |-> IF n = 0 THEN {start} ELSE UNION {Calls(c) : c \in f[n - 1]}]
  BY <1>3, Zenon
<1>5. Everything(start, Calls) = UNION {f[n] : n \in 0 .. MaxDepth}
  BY Zenon DEF Everything
<1> HIDE DEF f
<1>6. Walks("calls", start, f)
  BY <1>1, <1>4, Zenon DEF Walks
<1>7. Levels("calls", start, f)
  BY <1>6, WalkUnfolds, Zenon
<1>. QED
  BY <1>5, <1>7, Zenon

\* The nodes of a document.
LEMMA NodeLevels ==
  ASSUME NEW start
  PROVE  \E f : /\ Levels("nodes", start, f)
                /\ Everything(start, Inside) = UNION {f[n] : n \in 0 .. MaxDepth}
<1> DEFINE f == CHOOSE level : level =
                  [n \in Nat |-> IF n = 0 THEN {start} ELSE UNION {Inside(c) : c \in level[n - 1]}]
<1>1. \A x : Below("nodes", x) = UNION {Inside(c) : c \in x}
  BY Zenon DEF Below
<1>2. PICK g : Walks("nodes", start, g)
  BY WalkExists, Zenon
<1>3. g = [n \in Nat |-> IF n = 0 THEN {start} ELSE UNION {Inside(c) : c \in g[n - 1]}]
  BY <1>1, <1>2, Zenon DEF Walks
<1>4. f = [n \in Nat |-> IF n = 0 THEN {start} ELSE UNION {Inside(c) : c \in f[n - 1]}]
  BY <1>3, Zenon
<1>5. Everything(start, Inside) = UNION {f[n] : n \in 0 .. MaxDepth}
  BY Zenon DEF Everything
<1> HIDE DEF f
<1>6. Walks("nodes", start, f)
  BY <1>1, <1>4, Zenon DEF Walks
<1>7. Levels("nodes", start, f)
  BY <1>6, WalkUnfolds, Zenon
<1>. QED
  BY <1>5, <1>7, Zenon

\* The places of a schema.
LEMMA PlaceLevels ==
  ASSUME NEW start
  PROVE  \E f : /\ Levels("places", start, f)
                /\ Everything(start, Parts) = UNION {f[n] : n \in 0 .. MaxDepth}
<1> DEFINE f == CHOOSE level : level =
                  [n \in Nat |-> IF n = 0 THEN {start} ELSE UNION {Parts(c) : c \in level[n - 1]}]
<1>1. \A x : Below("places", x) = UNION {Parts(c) : c \in x}
  BY Zenon DEF Below
<1>2. PICK g : Walks("places", start, g)
  BY WalkExists, Zenon
<1>3. g = [n \in Nat |-> IF n = 0 THEN {start} ELSE UNION {Parts(c) : c \in g[n - 1]}]
  BY <1>1, <1>2, Zenon DEF Walks
<1>4. f = [n \in Nat |-> IF n = 0 THEN {start} ELSE UNION {Parts(c) : c \in f[n - 1]}]
  BY <1>3, Zenon
<1>5. Everything(start, Parts) = UNION {f[n] : n \in 0 .. MaxDepth}
  BY Zenon DEF Everything
<1> HIDE DEF f
<1>6. Walks("places", start, f)
  BY <1>1, <1>4, Zenon DEF Walks
<1>7. Levels("places", start, f)
  BY <1>6, WalkUnfolds, Zenon
<1>. QED
  BY <1>5, <1>7, Zenon

\* f has the levels of the calls, g those of the nodes, h those of the places.
CallsAt(d, schema, f) ==
  /\ f[0] = {<<<<>>, d, schema>>}
  /\ \A n \in Nat : \A c : c \in f[n + 1] <=> \E b \in f[n] : c \in Calls(b)
NodesAt(d, schema, g) ==
  /\ g[0] = {<<<<>>, d, schema>>}
  /\ \A n \in Nat : \A c : c \in g[n + 1] <=> \E b \in g[n] : c \in Inside(b)
PlacesAt(schema, h) ==
  /\ h[0] = {<<<<>>, schema>>}
  /\ \A n \in Nat : \A c : c \in h[n + 1] <=> \E b \in h[n] : c \in Parts(b)

\* The calls that validateNode makes, level by level.
LEMMA CallsInLevels ==
  ASSUME NEW d, NEW schema
  PROVE  \E f : /\ CallsAt(d, schema, f)
                /\ \A c : c \in Everything(<<<<>>, d, schema>>, Calls)
                            <=> \E n \in 0 .. MaxDepth : c \in f[n]
<1>1. PICK f : /\ Levels("calls", <<<<>>, d, schema>>, f)
              /\ Everything(<<<<>>, d, schema>>, Calls) = UNION {f[n] : n \in 0 .. MaxDepth}
  BY CallLevels, Zenon
<1>2. \A x : Below("calls", x) = UNION {Calls(c) : c \in x}
  BY Zenon DEF Below
<1>3. CallsAt(d, schema, f)
  <2>1. f[0] = {<<<<>>, d, schema>>} /\ \A n \in Nat : f[n + 1] = UNION {Calls(c) : c \in f[n]}
    BY <1>1, <1>2, Zenon DEF Levels
  <2>2. \A n \in Nat : \A c : c \in f[n + 1] <=> \E b \in f[n] : c \in Calls(b)
    <3> SUFFICES ASSUME NEW n \in Nat, NEW c
                 PROVE  c \in f[n + 1] <=> \E b \in f[n] : c \in Calls(b)
      OBVIOUS
    <3>1. f[n + 1] = UNION {Calls(b) : b \in f[n]}
      BY <2>1, Zenon
    <3>. QED
      BY <3>1, Zenon
  <2>. QED
    BY <2>1, <2>2, Zenon DEF CallsAt
<1>4. \A c : c \in Everything(<<<<>>, d, schema>>, Calls) <=> \E n \in 0 .. MaxDepth : c \in f[n]
  BY <1>1, Zenon
<1>. QED
  BY <1>3, <1>4, Zenon

\* The nodes of a document, level by level.
LEMMA NodesInLevels ==
  ASSUME NEW d, NEW schema
  PROVE  \E g : /\ NodesAt(d, schema, g)
                /\ \A c : c \in Nodes(d, schema) <=> \E n \in 0 .. MaxDepth : c \in g[n]
<1>1. PICK g : /\ Levels("nodes", <<<<>>, d, schema>>, g)
              /\ Nodes(d, schema) = UNION {g[n] : n \in 0 .. MaxDepth}
  BY NodeLevels, Zenon DEF Nodes
<1>2. \A x : Below("nodes", x) = UNION {Inside(c) : c \in x}
  BY Zenon DEF Below
<1>3. NodesAt(d, schema, g)
  <2>1. g[0] = {<<<<>>, d, schema>>} /\ \A n \in Nat : g[n + 1] = UNION {Inside(c) : c \in g[n]}
    BY <1>1, <1>2, Zenon DEF Levels
  <2>2. \A n \in Nat : \A c : c \in g[n + 1] <=> \E b \in g[n] : c \in Inside(b)
    <3> SUFFICES ASSUME NEW n \in Nat, NEW c
                 PROVE  c \in g[n + 1] <=> \E b \in g[n] : c \in Inside(b)
      OBVIOUS
    <3>1. g[n + 1] = UNION {Inside(b) : b \in g[n]}
      BY <2>1, Zenon
    <3>. QED
      BY <3>1, Zenon
  <2>. QED
    BY <2>1, <2>2, Zenon DEF NodesAt
<1>4. \A c : c \in Nodes(d, schema) <=> \E n \in 0 .. MaxDepth : c \in g[n]
  BY <1>1, Zenon
<1>. QED
  BY <1>3, <1>4, Zenon

\* The places of a schema, level by level.
LEMMA PlacesInLevels ==
  ASSUME NEW schema
  PROVE  \E h : /\ PlacesAt(schema, h)
                /\ \A c : c \in Places(schema) <=> \E n \in 0 .. MaxDepth : c \in h[n]
<1>1. PICK h : /\ Levels("places", <<<<>>, schema>>, h)
              /\ Places(schema) = UNION {h[n] : n \in 0 .. MaxDepth}
  BY PlaceLevels, Zenon DEF Places
<1>2. \A x : Below("places", x) = UNION {Parts(c) : c \in x}
  BY Zenon DEF Below
<1>3. PlacesAt(schema, h)
  <2>1. h[0] = {<<<<>>, schema>>} /\ \A n \in Nat : h[n + 1] = UNION {Parts(c) : c \in h[n]}
    BY <1>1, <1>2, Zenon DEF Levels
  <2>2. \A n \in Nat : \A c : c \in h[n + 1] <=> \E b \in h[n] : c \in Parts(b)
    <3> SUFFICES ASSUME NEW n \in Nat, NEW c
                 PROVE  c \in h[n + 1] <=> \E b \in h[n] : c \in Parts(b)
      OBVIOUS
    <3>1. h[n + 1] = UNION {Parts(b) : b \in h[n]}
      BY <2>1, Zenon
    <3>. QED
      BY <3>1, Zenon
  <2>. QED
    BY <2>1, <2>2, Zenon DEF PlacesAt
<1>4. \A c : c \in Places(schema) <=> \E n \in 0 .. MaxDepth : c \in h[n]
  BY <1>1, Zenon
<1>. QED
  BY <1>3, <1>4, Zenon

----------------------------------------------------------------------------
\* The calls and the nodes.

\* A node right below another: one step further.
LEMMA InsideIs ==
  ASSUME NEW b, NEW c
  PROVE  c \in Inside(b) <=>
           \E k \in Steps(b[2]) : c = <<Append(b[1], k), b[2][2][k[2]], Under(b[3], k)>>
BY Zenon DEF Inside

\* A sequence and one more element: what it was, and its beginnings.
LEMMA Appended ==
  ASSUME NEW S, NEW p \in Seq(S), NEW k \in S
  PROVE  /\ Append(p, k) \in Seq(S) /\ Len(Append(p, k)) = Len(p) + 1
         /\ \A m \in 0 .. Len(p) : SubSeq(Append(p, k), 1, m) = SubSeq(p, 1, m)
<1>1. Append(p, k) \in Seq(S) /\ Len(Append(p, k)) = Len(p) + 1
  BY OneMoreElement
<1>2. ASSUME NEW m \in 0 .. Len(p)
      PROVE  SubSeq(Append(p, k), 1, m) = SubSeq(p, 1, m)
  BY <1>1
<1>. QED
  BY <1>1, <1>2

\* Equal sequences have equal beginnings and ends.
LEMMA AppendOnce ==
  ASSUME NEW S, NEW p \in Seq(S), NEW q \in Seq(S), NEW k \in S, NEW m \in S,
         Append(p, k) = Append(q, m)
  PROVE  p = q /\ k = m
<1>1. Len(Append(p, k)) = Len(p) + 1 /\ Len(Append(q, m)) = Len(q) + 1
  BY OneMoreElement
<1>2. Len(p) = Len(q)
  BY <1>1
<1>3. k = m
  <2>1. Append(p, k)[Len(p) + 1] = k /\ Append(q, m)[Len(q) + 1] = m
    BY OneMoreElement
  <2>. QED
    BY <1>2, <2>1
<1>4. p = q
  <2>1. \A i \in 1 .. Len(p) : p[i] = Append(p, k)[i] /\ q[i] = Append(q, m)[i]
    BY <1>2, OneMoreElement
  <2>2. \A i \in 1 .. Len(p) : p[i] = q[i]
    BY <2>1
  <2>. QED
    BY <1>2, <2>2, SameElements
<1>. QED
  BY <1>3, <1>4

\* All steps in a document.
StepsIn(g) == UNION {UNION {Steps(c[2]) : c \in g[n]} : n \in Nat}

\* Steps from a node are steps of the document.
LEMMA StepOfDocument ==
  ASSUME NEW g, NEW n \in Nat, NEW b \in g[n], NEW k \in Steps(b[2])
  PROVE  k \in StepsIn(g)
<1>1. k \in UNION {Steps(c[2]) : c \in g[n]}
  BY Zenon
<1>. QED
  BY <1>1, Zenon DEF StepsIn

\* The nodes at depth n have paths of n steps.
PathsOfLength(g, n) == \A c \in g[n] : c[1] \in Seq(StepsIn(g)) /\ Len(c[1]) = n

\* So it is at every depth.
LEMMA PathLengths ==
  ASSUME NEW d, NEW schema, NEW g, NodesAt(d, schema, g)
  PROVE  \A n \in Nat : PathsOfLength(g, n)
<1> DEFINE S == StepsIn(g)
           T == {n \in Nat : PathsOfLength(g, n)}
<1>1. 0 \in T
  <2>1. \A c \in g[0] : c[1] = <<>>
    BY DEF NodesAt
  <2>2. <<>> \in Seq(StepsIn(g)) /\ Len(<<>>) = 0
    OBVIOUS
  <2>3. PathsOfLength(g, 0)
    BY <2>1, <2>2, Zenon DEF PathsOfLength
  <2>. QED
    BY <2>3
<1>2. ASSUME NEW n \in Nat, n \in T
      PROVE  n + 1 \in T
  <2>1. PathsOfLength(g, n)
    BY <1>2
  <2>2. ASSUME NEW c \in g[n + 1]
        PROVE  c[1] \in Seq(StepsIn(g)) /\ Len(c[1]) = n + 1
    <3>1. PICK b \in g[n] : c \in Inside(b)
      BY Zenon DEF NodesAt
    <3>2. PICK k \in Steps(b[2]) : c = <<Append(b[1], k), b[2][2][k[2]], Under(b[3], k)>>
      BY <3>1, InsideIs, Zenon
    <3>3. k \in StepsIn(g)
      BY StepOfDocument, Zenon
    <3>4. b[1] \in Seq(StepsIn(g)) /\ Len(b[1]) = n
      BY <2>1, Zenon DEF PathsOfLength
    <3>5. c[1] = Append(b[1], k)
      BY <3>2
    <3>6. Append(b[1], k) \in Seq(StepsIn(g)) /\ Len(Append(b[1], k)) = Len(b[1]) + 1
      BY <3>3, <3>4, Appended, Zenon
    <3>. QED
      BY <3>4, <3>5, <3>6, Zenon
  <2>3. PathsOfLength(g, n + 1)
    BY <2>2, Zenon DEF PathsOfLength
  <2>. QED
    BY <2>3
<1>3. Nat \subseteq T
  <2> HIDE DEF T
  <2>. QED
    BY <1>1, <1>2, Induction
<1>. QED
  BY <1>3

\* No two nodes at depth n have the same path.
OnePerPath(g, n) == \A a, b \in g[n] : a[1] = b[1] => a = b

\* So it is at every depth: a path leads to one node.
LEMMA PathsLead ==
  ASSUME NEW d, NEW schema, NEW g, NodesAt(d, schema, g)
  PROVE  \A n \in Nat : OnePerPath(g, n)
<1> DEFINE T == {n \in Nat : OnePerPath(g, n)}
<1>1. 0 \in T
  BY DEF NodesAt, OnePerPath
<1>2. ASSUME NEW n \in Nat, n \in T
      PROVE  n + 1 \in T
  <2>1. OnePerPath(g, n)
    BY <1>2
  <2>2. ASSUME NEW a \in g[n + 1], NEW b \in g[n + 1], a[1] = b[1]
        PROVE  a = b
    <3>1. PICK x \in g[n] : a \in Inside(x)
      BY Zenon DEF NodesAt
    <3>2. PICK k \in Steps(x[2]) : a = <<Append(x[1], k), x[2][2][k[2]], Under(x[3], k)>>
      BY <3>1, InsideIs, Zenon
    <3>3. PICK y \in g[n] : b \in Inside(y)
      BY Zenon DEF NodesAt
    <3>4. PICK m \in Steps(y[2]) : b = <<Append(y[1], m), y[2][2][m[2]], Under(y[3], m)>>
      BY <3>3, InsideIs, Zenon
    <3>5. k \in StepsIn(g) /\ m \in StepsIn(g)
      BY StepOfDocument, Zenon
    <3>6. x[1] \in Seq(StepsIn(g)) /\ y[1] \in Seq(StepsIn(g))
      BY PathLengths, Zenon DEF PathsOfLength
    <3>7. Append(x[1], k) = Append(y[1], m)
      BY <2>2, <3>2, <3>4
    <3>8. x[1] = y[1] /\ k = m
      BY <3>5, <3>6, <3>7, AppendOnce, SMTT(30)
    <3>9. x = y
      BY <2>1, <3>8, Zenon DEF OnePerPath
    <3>. QED
      BY <3>2, <3>4, <3>8, <3>9, Zenon
  <2>3. OnePerPath(g, n + 1)
    BY <2>2, Zenon DEF OnePerPath
  <2>. QED
    BY <2>3
<1>3. Nat \subseteq T
  <2> HIDE DEF T
  <2>. QED
    BY <1>1, <1>2, Induction
<1>. QED
  BY <1>3

\* Above c, which is at depth n, a value is of the wrong type or outside its enum.
RefusedAbove(g, n, c) ==
  \E m \in 0 .. n - 1 : \E a \in g[m] : Refused(a[2], a[3]) /\ a[1] = SubSeq(c[1], 1, m)

\* Above a node are the node right above it and what is above that one.
LEMMA OneStepDown ==
  ASSUME NEW d, NEW schema, NEW g, NodesAt(d, schema, g),
         NEW n \in Nat, NEW b \in g[n], NEW c \in Inside(b)
  PROVE  RefusedAbove(g, n + 1, c) <=> RefusedAbove(g, n, b) \/ Refused(b[2], b[3])
<1>1. PICK k \in Steps(b[2]) : c = <<Append(b[1], k), b[2][2][k[2]], Under(b[3], k)>>
  BY InsideIs, Zenon
<1>2. k \in StepsIn(g)
  BY StepOfDocument, Zenon
<1>3. b[1] \in Seq(StepsIn(g)) /\ Len(b[1]) = n
  BY PathLengths, Zenon DEF PathsOfLength
<1>4. c[1] = Append(b[1], k)
  BY <1>1
<1>5. \A m \in 0 .. n : SubSeq(c[1], 1, m) = SubSeq(b[1], 1, m)
  BY <1>2, <1>3, <1>4, Appended
<1>6. SubSeq(b[1], 1, n) = b[1]
  BY <1>3
<1>7. ASSUME RefusedAbove(g, n + 1, c)
      PROVE  RefusedAbove(g, n, b) \/ Refused(b[2], b[3])
  <2>1. PICK m \in 0 .. (n + 1) - 1 : \E a \in g[m] : Refused(a[2], a[3]) /\ a[1] = SubSeq(c[1], 1, m)
    BY <1>7, Zenon DEF RefusedAbove
  <2>2. PICK a \in g[m] : Refused(a[2], a[3]) /\ a[1] = SubSeq(c[1], 1, m)
    BY <2>1, Zenon
  <2>3. a[1] = SubSeq(b[1], 1, m)
    BY <1>5, <2>2
  <2>4. CASE m = n
    <3>1. a \in g[n] /\ a[1] = b[1]
      BY <1>6, <2>3, <2>4
    <3>2. a = b
      BY <3>1, PathsLead, Zenon DEF OnePerPath
    <3>. QED
      BY <2>2, <3>2, Zenon
  <2>5. CASE m # n
    <3>1. m \in 0 .. n - 1
      BY <2>5
    <3>. QED
      BY <2>2, <2>3, <3>1, Zenon DEF RefusedAbove
  <2>. QED
    BY <2>4, <2>5, Zenon
<1>8. ASSUME RefusedAbove(g, n, b)
      PROVE  RefusedAbove(g, n + 1, c)
  <2>1. PICK m \in 0 .. n - 1 : \E a \in g[m] : Refused(a[2], a[3]) /\ a[1] = SubSeq(b[1], 1, m)
    BY <1>8, Zenon DEF RefusedAbove
  <2>2. PICK a \in g[m] : Refused(a[2], a[3]) /\ a[1] = SubSeq(b[1], 1, m)
    BY <2>1, Zenon
  <2>3. m \in 0 .. n /\ m \in 0 .. (n + 1) - 1
    OBVIOUS
  <2>4. a[1] = SubSeq(c[1], 1, m)
    BY <1>5, <2>2, <2>3, Zenon
  <2>. QED
    BY <2>2, <2>3, <2>4, Zenon DEF RefusedAbove
<1>9. ASSUME Refused(b[2], b[3])
      PROVE  RefusedAbove(g, n + 1, c)
  <2>1. n \in 0 .. n /\ n \in 0 .. (n + 1) - 1
    OBVIOUS
  <2>2. b[1] = SubSeq(c[1], 1, n)
    BY <1>5, <1>6, <2>1, Zenon
  <2>. QED
    BY <1>9, <2>1, <2>2, Zenon DEF RefusedAbove
<1>. QED
  BY <1>7, <1>8, <1>9, Zenon

\* Where a schema says nothing, it says nothing of what is below.
LEMMA NothingSaid ==
  ASSUME NEW k
  PROVE  Under(Anything, k) = Anything
<1>1. ~Has(Anything, "properties") /\ ~Has(Anything, "items")
  BY DEF Has, Anything
<1>. QED
  BY <1>1, Zenon DEF Under, Named

\* What is right below a value: what validateNode looks at, and what the schema says
\* nothing of.
LEMMA MembersAreInside ==
  ASSUME NEW b
  PROVE  /\ \A c \in Members(b) : c \in Inside(b)
         /\ \A c \in Inside(b) : c \in Members(b) \/ c[3] = Anything
<1>1. \A k : Field(k)[1] = "field" /\ Field(k)[2] = k /\ Item(k)[1] = "item" /\ Item(k)[2] = k
  BY DEF Field, Item
<1>2. CASE b[2][1] = "object"
  <2>1. Members(b) = {<<Append(b[1], Field(k)), b[2][2][k], b[3].properties[k]>> :
                        k \in Named(b[3]) \cap DOMAIN b[2][2]}
    BY <1>2, Zenon DEF Members
  <2>2. Steps(b[2]) = {Field(k) : k \in DOMAIN b[2][2]}
    BY <1>2, Zenon DEF Steps
  <2>3. \A k : k \in Named(b[3]) => Under(b[3], Field(k)) = b[3].properties[k]
    BY <1>1, Zenon DEF Under
  <2>4. \A k : k \notin Named(b[3]) => Under(b[3], Field(k)) = Anything
    <3>1. "field" # "item"
      OBVIOUS
    <3>. QED
      BY <1>1, <3>1, Zenon DEF Under
  <2>5. ASSUME NEW c \in Members(b)
        PROVE  c \in Inside(b)
    <3>1. PICK k \in Named(b[3]) \cap DOMAIN b[2][2] :
              c = <<Append(b[1], Field(k)), b[2][2][k], b[3].properties[k]>>
      BY <2>1, Zenon
    <3>2. Field(k) \in Steps(b[2])
      BY <2>2, Zenon
    <3>3. c = <<Append(b[1], Field(k)), b[2][2][Field(k)[2]], Under(b[3], Field(k))>>
      BY <1>1, <2>3, <3>1, Zenon
    <3>. QED
      BY <3>2, <3>3, InsideIs, Zenon
  <2>6. ASSUME NEW c \in Inside(b)
        PROVE  c \in Members(b) \/ c[3] = Anything
    <3>1. PICK s \in Steps(b[2]) : c = <<Append(b[1], s), b[2][2][s[2]], Under(b[3], s)>>
      BY InsideIs, Zenon
    <3>2. PICK k \in DOMAIN b[2][2] : s = Field(k)
      BY <2>2, Zenon
    <3>3. c = <<Append(b[1], Field(k)), b[2][2][k], Under(b[3], Field(k))>>
      BY <1>1, <3>1, <3>2, Zenon
    <3>4. CASE k \in Named(b[3])
      BY <2>1, <2>3, <3>3, <3>4, Zenon
    <3>5. CASE k \notin Named(b[3])
      <4>1. c[3] = Under(b[3], Field(k))
        BY <3>3
      <4>. QED
        BY <2>4, <3>5, <4>1, Zenon
    <3>. QED
      BY <3>4, <3>5, Zenon
  <2>. QED
    BY <2>5, <2>6, Zenon
<1>3. CASE b[2][1] = "array"
  <2>0. b[2][1] # "object" /\ "item" # "field"
    BY <1>3
  <2>1. Steps(b[2]) = {Item(i) : i \in DOMAIN b[2][2]}
    BY <1>3, <2>0, Zenon DEF Steps
  <2>2. CASE Has(b[3], "items")
    <3>1. Members(b) = {<<Append(b[1], Item(i)), b[2][2][i], b[3].items>> : i \in DOMAIN b[2][2]}
      BY <1>3, <2>0, <2>2, Zenon DEF Members
    <3>2. \A i : Under(b[3], Item(i)) = b[3].items
      BY <1>1, <2>0, <2>2, Zenon DEF Under
    <3>3. ASSUME NEW c \in Members(b)
          PROVE  c \in Inside(b)
      <4>1. PICK i \in DOMAIN b[2][2] : c = <<Append(b[1], Item(i)), b[2][2][i], b[3].items>>
        BY <3>1, Zenon
      <4>2. Item(i) \in Steps(b[2])
        BY <2>1, Zenon
      <4>3. c = <<Append(b[1], Item(i)), b[2][2][Item(i)[2]], Under(b[3], Item(i))>>
        BY <1>1, <3>2, <4>1, Zenon
      <4>. QED
        BY <4>2, <4>3, InsideIs, Zenon
    <3>4. ASSUME NEW c \in Inside(b)
          PROVE  c \in Members(b)
      <4>1. PICK s \in Steps(b[2]) : c = <<Append(b[1], s), b[2][2][s[2]], Under(b[3], s)>>
        BY InsideIs, Zenon
      <4>2. PICK i \in DOMAIN b[2][2] : s = Item(i)
        BY <2>1, Zenon
      <4>3. c = <<Append(b[1], Item(i)), b[2][2][i], b[3].items>>
        BY <1>1, <3>2, <4>1, <4>2, Zenon
      <4>. QED
        BY <3>1, <4>3, Zenon
    <3>. QED
      BY <3>3, <3>4, Zenon
  <2>3. CASE ~Has(b[3], "items")
    <3>1. Members(b) = {}
      BY <2>0, <2>3, Zenon DEF Members
    <3>2. \A i : Under(b[3], Item(i)) = Anything
      BY <1>1, <2>0, <2>3, Zenon DEF Under
    <3>3. ASSUME NEW c \in Inside(b)
          PROVE  c[3] = Anything
      <4>1. PICK s \in Steps(b[2]) : c = <<Append(b[1], s), b[2][2][s[2]], Under(b[3], s)>>
        BY InsideIs, Zenon
      <4>2. PICK i \in DOMAIN b[2][2] : s = Item(i)
        BY <2>1, Zenon
      <4>3. c[3] = Under(b[3], s)
        BY <4>1
      <4>. QED
        BY <3>2, <4>2, <4>3, Zenon
    <3>. QED
      BY <3>1, <3>3, Zenon
  <2>. QED
    BY <2>2, <2>3, Zenon
<1>4. CASE b[2][1] # "object" /\ b[2][1] # "array"
  <2>1. Members(b) = {} /\ Steps(b[2]) = {}
    BY <1>4, Zenon DEF Members, Steps
  <2>. QED
    BY <2>1, InsideIs, Zenon
<1>. QED
  BY <1>2, <1>3, <1>4, Zenon

\* At depth n the calls are the nodes of which something is said and above which
\* nothing is refused.
Agree(f, g, n) ==
  /\ \A c \in f[n] : c \in g[n] /\ ~RefusedAbove(g, n, c)
  /\ \A c \in g[n] : c \in f[n] \/ c[3] = Anything \/ RefusedAbove(g, n, c)

\* So it is at every depth: validateNode calls itself on the fields that the schema
\* names and on the items, unless it has returned early.
LEMMA Agreement ==
  ASSUME NEW d, NEW schema, NEW f, NEW g,
         CallsAt(d, schema, f), NodesAt(d, schema, g)
  PROVE  \A n \in Nat : Agree(f, g, n)
<1> DEFINE T == {n \in Nat : Agree(f, g, n)}
<1>1. 0 \in T
  <2>1. f[0] = g[0]
    BY Zenon DEF CallsAt, NodesAt
  <2>2. 0 .. 0 - 1 = {}
    OBVIOUS
  <2>3. Agree(f, g, 0)
    BY <2>1, <2>2, Zenon DEF Agree, RefusedAbove
  <2>. QED
    BY <2>3
<1>2. ASSUME NEW n \in Nat, n \in T
      PROVE  n + 1 \in T
  <2>1. Agree(f, g, n)
    BY <1>2
  <2>2. ASSUME NEW c \in f[n + 1]
        PROVE  c \in g[n + 1] /\ ~RefusedAbove(g, n + 1, c)
    <3>1. PICK b \in f[n] : c \in Calls(b)
      BY Zenon DEF CallsAt
    <3>2. ~Refused(b[2], b[3]) /\ c \in Members(b)
      BY <3>1, Zenon DEF Calls
    <3>3. c \in Inside(b)
      BY <3>2, MembersAreInside, Zenon
    <3>4. b \in g[n] /\ ~RefusedAbove(g, n, b)
      BY <2>1, Zenon DEF Agree
    <3>5. c \in g[n + 1]
      BY <3>3, <3>4, Zenon DEF NodesAt
    <3>6. ~RefusedAbove(g, n + 1, c)
      BY <3>2, <3>3, <3>4, OneStepDown, Zenon
    <3>. QED
      BY <3>5, <3>6
  <2>3. ASSUME NEW c \in g[n + 1]
        PROVE  c \in f[n + 1] \/ c[3] = Anything \/ RefusedAbove(g, n + 1, c)
    <3>1. PICK b \in g[n] : c \in Inside(b)
      BY Zenon DEF NodesAt
    <3>2. RefusedAbove(g, n + 1, c) <=> RefusedAbove(g, n, b) \/ Refused(b[2], b[3])
      BY <3>1, OneStepDown, Zenon
    <3>3. CASE b \in f[n]
      <4>1. CASE Refused(b[2], b[3])
        BY <3>2, <4>1, Zenon
      <4>2. CASE ~Refused(b[2], b[3])
        <5>1. c \in Members(b) \/ c[3] = Anything
          BY <3>1, MembersAreInside, Zenon
        <5>2. Calls(b) = Members(b)
          BY <4>2, Zenon DEF Calls
        <5>. QED
          BY <3>3, <5>1, <5>2, Zenon DEF CallsAt
      <4>. QED
        BY <4>1, <4>2, Zenon
    <3>4. CASE b[3] = Anything
      <4>1. PICK k \in Steps(b[2]) : c = <<Append(b[1], k), b[2][2][k[2]], Under(b[3], k)>>
        BY <3>1, InsideIs, Zenon
      <4>2. c[3] = Under(b[3], k)
        BY <4>1
      <4>. QED
        BY <3>4, <4>2, NothingSaid, Zenon
    <3>5. CASE RefusedAbove(g, n, b)
      BY <3>2, <3>5, Zenon
    <3>. QED
      BY <2>1, <3>3, <3>4, <3>5, Zenon DEF Agree
  <2>4. Agree(f, g, n + 1)
    BY <2>2, <2>3, Zenon DEF Agree
  <2>. QED
    BY <2>4
<1>3. Nat \subseteq T
  <2> HIDE DEF T
  <2>. QED
    BY <1>1, <1>2, Induction
<1>. QED
  BY <1>3

\* The two rules whose breach ends a call.
LEMMA RefusedIs ==
  ASSUME NEW v, NEW s
  PROVE  Refused(v, s) <=> \E r \in TypeRules : Broken(v, s, r) # {}
<1>1. Broken(v, s, "type") = {k \in {{}} : Has(s, "type") /\ ~typeMatches(s.type, v)}
  BY DEF Broken
<1>2. Broken(v, s, "enum") = {k \in {{}} : /\ Has(s, "enum") /\ ~enumContains(s.enum, v)
                                           /\ Has(s, "type") => typeMatches(s.type, v)}
  BY DEF Broken
<1>3. Broken(v, s, "type") # {} <=> Has(s, "type") /\ ~typeMatches(s.type, v)
  BY <1>1, Zenon
<1>4. Broken(v, s, "enum") # {} <=> /\ Has(s, "enum") /\ ~enumContains(s.enum, v)
                                    /\ Has(s, "type") => typeMatches(s.type, v)
  BY <1>2, Zenon
<1>5. (\E r \in TypeRules : Broken(v, s, r) # {})
        <=> Broken(v, s, "type") # {} \/ Broken(v, s, "enum") # {}
  BY Zenon DEF TypeRules
<1>. QED
  BY <1>3, <1>4, <1>5, Zenon DEF Refused

\* What makes a rule moot for a node at depth n.
LEMMA MootIs ==
  ASSUME MaxDepth \in Nat, NEW d, NEW schema, NEW g, NodesAt(d, schema, g),
         NEW nodes, \A a : a \in nodes <=> \E m \in 0 .. MaxDepth : a \in g[m],
         NEW n \in 0 .. MaxDepth, NEW c \in g[n], NEW rule
  PROVE  Moot(nodes, c, rule)
           <=> RefusedAbove(g, n, c) \/ (rule \notin TypeRules /\ Refused(c[2], c[3]))
<1>0. n \in Nat /\ c[1] \in Seq(StepsIn(g)) /\ Len(c[1]) = n
  <2>1. n \in Nat
    OBVIOUS
  <2>. QED
    BY <2>1, PathLengths, Zenon DEF PathsOfLength
<1>1. SubSeq(c[1], 1, n) = c[1]
  BY <1>0
<1>2. ASSUME Moot(nodes, c, rule)
      PROVE  RefusedAbove(g, n, c) \/ (rule \notin TypeRules /\ Refused(c[2], c[3]))
  <2>1. PICK a \in nodes : /\ \E r \in TypeRules : Broken(a[2], a[3], r) # {}
                           /\ Leads(a[1], c[1]) /\ (rule \in TypeRules => a[1] # c[1])
    BY <1>2, Zenon DEF Moot
  <2>2. Refused(a[2], a[3])
    BY <2>1, RefusedIs, Zenon
  <2>3. PICK m \in 0 .. MaxDepth : a \in g[m]
    BY Zenon
  <2>4. m \in Nat
    BY <2>3
  <2>5. a[1] \in Seq(StepsIn(g)) /\ Len(a[1]) = m
    BY <2>3, <2>4, PathLengths, Zenon DEF PathsOfLength
  <2>6. Len(a[1]) <= Len(c[1]) /\ SubSeq(c[1], 1, Len(a[1])) = a[1]
    BY <2>1, Zenon DEF Leads
  <2>8. m <= n /\ a[1] = SubSeq(c[1], 1, m)
    BY <1>0, <2>5, <2>6, Zenon
  <2>9. CASE m = n
    <3>1. a[1] = c[1]
      BY <1>1, <2>8, <2>9, Zenon
    <3>2. a \in g[n]
      BY <2>3, <2>9, Zenon
    <3>3. a = c
      BY <1>0, <3>1, <3>2, PathsLead, ZenonT(30) DEF OnePerPath
    <3>. QED
      BY <2>1, <2>2, <3>1, <3>3, Zenon
  <2>10. CASE m # n
    <3>1. m \in 0 .. n - 1
      BY <1>0, <2>4, <2>8, <2>10
    <3>. QED
      BY <2>2, <2>3, <2>8, <3>1, Zenon DEF RefusedAbove
  <2>. QED
    BY <2>9, <2>10, Zenon
<1>3. ASSUME RefusedAbove(g, n, c)
      PROVE  Moot(nodes, c, rule)
  <2>1. PICK m \in 0 .. n - 1 : \E a \in g[m] : Refused(a[2], a[3]) /\ a[1] = SubSeq(c[1], 1, m)
    BY <1>3, Zenon DEF RefusedAbove
  <2>2. PICK a \in g[m] : Refused(a[2], a[3]) /\ a[1] = SubSeq(c[1], 1, m)
    BY <2>1, Zenon
  <2>3. m \in 0 .. MaxDepth /\ m \in Nat /\ m < n
    BY <1>0
  <2>4. a \in nodes
    BY <2>2, <2>3, Zenon
  <2>5. a[1] \in Seq(StepsIn(g)) /\ Len(a[1]) = m
    BY <2>2, <2>3, PathLengths, Zenon DEF PathsOfLength
  <2>7. Len(a[1]) <= Len(c[1])
    BY <1>0, <2>3, <2>5
  <2>8. Leads(a[1], c[1])
    BY <2>2, <2>5, <2>7, Zenon DEF Leads
  <2>9. a[1] # c[1]
    BY <1>0, <2>3, <2>5
  <2>10. \E r \in TypeRules : Broken(a[2], a[3], r) # {}
    BY <2>2, RefusedIs, Zenon
  <2>. QED
    BY <2>4, <2>8, <2>9, <2>10, Zenon DEF Moot
<1>4. ASSUME rule \notin TypeRules, Refused(c[2], c[3])
      PROVE  Moot(nodes, c, rule)
  <2>1. c \in nodes
    BY Zenon
  <2>2. Leads(c[1], c[1])
    <3>1. Len(c[1]) <= Len(c[1])
      BY <1>0
    <3>. QED
      BY <1>0, <1>1, <3>1, Zenon DEF Leads
  <2>3. \E r \in TypeRules : Broken(c[2], c[3], r) # {}
    BY <1>4, RefusedIs, Zenon
  <2>. QED
    BY <1>4, <2>1, <2>2, <2>3, Zenon DEF Moot
<1>. QED
  BY <1>2, <1>3, <1>4, Zenon

----------------------------------------------------------------------------
\* The code's tests and the rules.

\* A schema that says nothing is not broken.
LEMMA NothingToBreak ==
  ASSUME NEW v, NEW r \in Rules
  PROVE  Broken(v, Anything, r) = {}
<1>1. \A w \in {"type", "enum", "minimum", "maximum", "required", "additionalProperties"} :
        ~Has(Anything, w)
  BY DEF Has, Anything
<1>. QED
  BY <1>1 DEF Broken, Rules, TypeRules

\* The lower bound: the code's test and the rule.
LEMMA MinimumIs ==
  ASSUME NEW v, NEW s, WellFormed(v, s)
  PROVE  (numeric(v) /\ Has(s, "minimum") /\ TooSmall(v, s.minimum))
           <=> (/\ Has(s, "minimum") /\ numeric(v)
                /\ v[2] < s.minimum /\ ~(v[1] # "half" /\ v[2] = 0))
<1> SUFFICES ASSUME numeric(v)
             PROVE  v \notin {<<"int", 0>>, <<"float", 0>>} <=> ~(v[1] # "half" /\ v[2] = 0)
  BY Zenon DEF TooSmall
<1>1. v = <<v[1], v[2]>>
  BY DEF WellFormed
<1>2. v[1] \in {"int", "float", "half"}
  BY DEF numeric
<1>3. CASE v[1] = "half"
  <2>1. v # <<"int", 0>> /\ v # <<"float", 0>>
    BY <1>3
  <2>. QED
    BY <1>3, <2>1
<1>4. CASE v[1] = "int"
  <2>1. v = <<"int", 0>> <=> v[2] = 0
    BY <1>1, <1>4
  <2>2. v # <<"float", 0>>
    BY <1>4
  <2>. QED
    BY <1>4, <2>1, <2>2
<1>5. CASE v[1] = "float"
  <2>1. v = <<"float", 0>> <=> v[2] = 0
    BY <1>1, <1>5
  <2>2. v # <<"int", 0>>
    BY <1>5
  <2>. QED
    BY <1>5, <2>1, <2>2
<1>. QED
  BY <1>2, <1>3, <1>4, <1>5, Zenon

\* The upper bound: the code's test and the rule.
LEMMA MaximumIs ==
  ASSUME NEW v, NEW s, WellFormed(v, s)
  PROVE  (numeric(v) /\ Has(s, "maximum") /\ TooLarge(v, s.maximum))
           <=> (/\ Has(s, "maximum") /\ numeric(v)
                /\ 2 * v[2] + (IF v[1] = "half" THEN 1 ELSE 0) > 2 * s.maximum)
<1> SUFFICES ASSUME numeric(v), Has(s, "maximum")
             PROVE  (v[2] > s.maximum \/ (v[1] = "half" /\ v[2] = s.maximum))
                      <=> 2 * v[2] + (IF v[1] = "half" THEN 1 ELSE 0) > 2 * s.maximum
  BY Zenon DEF TooLarge
<1>1. v[2] \in Int
  BY DEF WellFormed
<1>2. s.maximum \in Int
  <2>1. s["maximum"] \in Int
    BY Zenon DEF WellFormed
  <2>. QED
    BY <2>1
<1>3. \A x, y \in Int : (x > y <=> 2 * x + 0 > 2 * y) /\ (x > y \/ x = y <=> 2 * x + 1 > 2 * y)
  OBVIOUS
<1>4. CASE v[1] = "half"
  BY <1>1, <1>2, <1>3, <1>4
<1>5. CASE v[1] # "half"
  BY <1>1, <1>2, <1>3, <1>5
<1>. QED
  BY <1>4, <1>5

\* The unknown keys, which the code gathers in a list and reports together.
LEMMA UnknownIs ==
  ASSUME NEW v, NEW s
  PROVE  LET unknown == IF v[1] = "object" THEN DOMAIN v[2] \ Named(s) ELSE {}
         IN  \A keys : keys \in Broken(v, s, "unknown")
               <=> /\ Has(s, "additionalProperties") /\ ~s.additionalProperties /\ unknown # {}
                   /\ keys = unknown
<1> DEFINE unknown == IF v[1] = "object" THEN DOMAIN v[2] \ Named(s) ELSE {}
           known == Has(s, "additionalProperties") /\ ~s.additionalProperties
<1>1. Broken(v, s, "unknown") = IF known /\ v[1] = "object"
                                  THEN {{k \in DOMAIN v[2] : k \notin Named(s)}} \ {{}} ELSE {}
  BY DEF Broken
<1>2. {k \in DOMAIN v[2] : k \notin Named(s)} = DOMAIN v[2] \ Named(s)
  BY Zenon
<1>3. CASE v[1] = "object"
  <2>1. unknown = DOMAIN v[2] \ Named(s)
    BY <1>3
  <2>2. Broken(v, s, "unknown") = IF known THEN {unknown} \ {{}} ELSE {}
    BY <1>1, <1>2, <1>3, <2>1, Zenon
  <2>3. \A keys : keys \in {unknown} \ {{}} <=> unknown # {} /\ keys = unknown
    <3> HIDE DEF unknown
    <3>. QED
      BY Zenon
  <2>4. \A keys : keys \in Broken(v, s, "unknown") <=> known /\ unknown # {} /\ keys = unknown
    <3> HIDE DEF unknown, known
    <3>. QED
      BY <2>2, <2>3, Zenon
  <2>. QED
    BY <2>4, Zenon
<1>4. CASE v[1] # "object"
  BY <1>1, <1>4, Zenon
<1>. QED
  BY <1>3, <1>4, Zenon

\* What a call finds, by the rules.
LEMMA OwnProblemsAre ==
  ASSUME NEW p, NEW v, NEW s, WellFormed(v, s), NEW x
  PROVE  x \in OwnProblems(p, v, s)
           <=> \E r \in Rules : \E keys \in Broken(v, s, r) :
                 (r \in TypeRules \/ ~Refused(v, s)) /\ x = <<p, r, keys>>
<1> DEFINE isObj == v[1] = "object"
           unknown == IF isObj THEN DOMAIN v[2] \ Named(s) ELSE {}
           badType == Has(s, "type") /\ ~typeMatches(s.type, v)
           badEnum == Has(s, "enum") /\ ~enumContains(s.enum, v)
           small == numeric(v) /\ Has(s, "minimum") /\ TooSmall(v, s.minimum)
           large == numeric(v) /\ Has(s, "maximum") /\ TooLarge(v, s.maximum)
           asked == isObj /\ Has(s, "required")
           extra == Has(s, "additionalProperties") /\ ~s.additionalProperties /\ unknown # {}
           By(r) == \E keys \in Broken(v, s, r) : x = <<p, r, keys>>
<1>1. \A keys : keys \in Broken(v, s, "type") <=> badType /\ keys = {}
  <2>1. Broken(v, s, "type") = {k \in {{}} : badType}
    BY DEF Broken
  <2>. QED
    BY <2>1, Zenon
<1>2. \A keys : keys \in Broken(v, s, "enum") <=> badEnum /\ ~badType /\ keys = {}
  <2>1. Broken(v, s, "enum") =
          {k \in {{}} : badEnum /\ (Has(s, "type") => typeMatches(s.type, v))}
    BY DEF Broken
  <2>. QED
    BY <2>1, Zenon
<1>3. \A keys : keys \in Broken(v, s, "minimum") <=> small /\ keys = {}
  <2>1. Broken(v, s, "minimum") =
          {k \in {{}} : /\ Has(s, "minimum") /\ numeric(v)
                        /\ v[2] < s.minimum /\ ~(v[1] # "half" /\ v[2] = 0)}
    BY DEF Broken
  <2>. QED
    BY <2>1, MinimumIs, Zenon
<1>4. \A keys : keys \in Broken(v, s, "maximum") <=> large /\ keys = {}
  <2>1. Broken(v, s, "maximum") =
          {k \in {{}} : /\ Has(s, "maximum") /\ numeric(v)
                        /\ 2 * v[2] + (IF v[1] = "half" THEN 1 ELSE 0) > 2 * s.maximum}
    BY DEF Broken
  <2>. QED
    BY <2>1, MaximumIs, Zenon
<1>5. \A keys : keys \in Broken(v, s, "required")
                  <=> asked /\ \E k \in s.required \ DOMAIN v[2] : keys = {k}
  <2>1. Broken(v, s, "required") = IF Has(s, "required") /\ v[1] = "object"
                                     THEN {{k} : k \in s.required \ DOMAIN v[2]} ELSE {}
    BY DEF Broken
  <2>. QED
    BY <2>1, Zenon
<1>6. \A keys : keys \in Broken(v, s, "unknown") <=> extra /\ keys = unknown
  BY UnknownIs, Zenon
<1>7. Refused(v, s) <=> badType \/ badEnum
  BY Zenon DEF Refused
<1>8. OwnProblems(p, v, s) =
        IF badType THEN {<<p, "type", {}>>}
        ELSE IF badEnum THEN {<<p, "enum", {}>>}
        ELSE UNION {IF small THEN {<<p, "minimum", {}>>} ELSE {},
                    IF large THEN {<<p, "maximum", {}>>} ELSE {},
                    IF asked THEN {<<p, "required", {k}>> : k \in s.required \ DOMAIN v[2]} ELSE {},
                    IF extra THEN {<<p, "unknown", unknown>>} ELSE {}}
  BY Zenon DEF OwnProblems
<1>9. (\E r \in Rules : \E keys \in Broken(v, s, r) :
         (r \in TypeRules \/ ~Refused(v, s)) /\ x = <<p, r, keys>>)
        <=> \/ By("type") \/ By("enum")
            \/ ~Refused(v, s) /\ (By("minimum") \/ By("maximum") \/ By("required") \/ By("unknown"))
  <2>1. \A r : r \in Rules <=> r \in TypeRules \/ r \in {"minimum", "maximum", "required", "unknown"}
    BY DEF Rules
  <2>2. \A r \in {"minimum", "maximum", "required", "unknown"} : r \notin TypeRules
    BY DEF TypeRules
  <2>3. \A r : r \in TypeRules <=> r = "type" \/ r = "enum"
    BY DEF TypeRules
  <2>4. (\E r \in Rules : \E keys \in Broken(v, s, r) :
           (r \in TypeRules \/ ~Refused(v, s)) /\ x = <<p, r, keys>>)
          <=> \E r \in Rules : (r \in TypeRules \/ ~Refused(v, s)) /\ By(r)
    BY Zenon
  <2> HIDE DEF By
  <2>. QED
    BY <2>1, <2>2, <2>3, <2>4, Zenon
<1>10. /\ By("type") <=> badType /\ x = <<p, "type", {}>>
       /\ By("enum") <=> badEnum /\ ~badType /\ x = <<p, "enum", {}>>
       /\ By("minimum") <=> small /\ x = <<p, "minimum", {}>>
       /\ By("maximum") <=> large /\ x = <<p, "maximum", {}>>
       /\ By("required") <=> asked /\ \E k \in s.required \ DOMAIN v[2] : x = <<p, "required", {k}>>
       /\ By("unknown") <=> extra /\ x = <<p, "unknown", unknown>>
  <2> HIDE DEF badType, badEnum, small, large, asked, extra, unknown
  <2>. QED
    BY <1>1, <1>2, <1>3, <1>4, <1>5, <1>6, Zenon
<1>11. x \in OwnProblems(p, v, s)
         <=> \/ badType /\ x = <<p, "type", {}>>
             \/ ~badType /\ badEnum /\ x = <<p, "enum", {}>>
             \/ /\ ~badType /\ ~badEnum
                /\ \/ small /\ x = <<p, "minimum", {}>>
                   \/ large /\ x = <<p, "maximum", {}>>
                   \/ asked /\ \E k \in s.required \ DOMAIN v[2] : x = <<p, "required", {k}>>
                   \/ extra /\ x = <<p, "unknown", unknown>>
  <2> HIDE DEF badType, badEnum, small, large, asked, extra, unknown
  <2> DEFINE A == IF small THEN {<<p, "minimum", {}>>} ELSE {}
             B == IF large THEN {<<p, "maximum", {}>>} ELSE {}
             C == IF asked THEN {<<p, "required", {k}>> : k \in s.required \ DOMAIN v[2]} ELSE {}
             D == IF extra THEN {<<p, "unknown", unknown>>} ELSE {}
  <2>1. /\ x \in A <=> small /\ x = <<p, "minimum", {}>>
        /\ x \in B <=> large /\ x = <<p, "maximum", {}>>
        /\ x \in C <=> asked /\ \E k \in s.required \ DOMAIN v[2] : x = <<p, "required", {k}>>
        /\ x \in D <=> extra /\ x = <<p, "unknown", unknown>>
    <3>1. x \in A <=> small /\ x = <<p, "minimum", {}>>
      BY Zenon
    <3>2. x \in B <=> large /\ x = <<p, "maximum", {}>>
      BY Zenon
    <3>3. x \in C <=> asked /\ \E k \in s.required \ DOMAIN v[2] : x = <<p, "required", {k}>>
      BY Zenon
    <3>4. x \in D <=> extra /\ x = <<p, "unknown", unknown>>
      BY Zenon
    <3> HIDE DEF A, B, C, D
    <3>. QED
      BY <3>1, <3>2, <3>3, <3>4, Zenon
  <2>2. OwnProblems(p, v, s) = IF badType THEN {<<p, "type", {}>>}
                               ELSE IF badEnum THEN {<<p, "enum", {}>>}
                               ELSE UNION {A, B, C, D}
    BY <1>8, Zenon
  <2> HIDE DEF A, B, C, D
  <2>3. x \in UNION {A, B, C, D} <=> x \in A \/ x \in B \/ x \in C \/ x \in D
    BY Zenon
  <2>4. CASE badType
    BY <2>2, <2>4, Zenon
  <2>5. CASE ~badType /\ badEnum
    BY <2>2, <2>5, Zenon
  <2>6. CASE ~badType /\ ~badEnum
    <3>1. OwnProblems(p, v, s) = UNION {A, B, C, D}
      BY <2>2, <2>6, Zenon
    <3>. QED
      BY <2>1, <2>3, <2>6, <3>1, Zenon
  <2>. QED
    BY <2>4, <2>5, <2>6, Zenon
<1> HIDE DEF badType, badEnum, small, large, asked, extra, unknown, By
<1>. QED
  BY <1>7, <1>9, <1>10, <1>11, Zenon

\* A document whose values are tagged values, whatever the schema says of them.
AllWellFormed(d, schema) == \A c \in Nodes(d, schema) : WellFormed(c[2], c[3])

\* The recursion of validateNode finds exactly the violations of the schema in the
\* document, at every path, for every document and every schema
\* (internal/config/schema.go validateNode).
THEOREM ValidatorIsExact ==
  ASSUME MaxDepth \in Nat, NEW d, NEW schema, AllWellFormed(d, schema)
  PROVE  validateNode(d, schema) = Violations(d, schema)
<1>1. PICK f : /\ CallsAt(d, schema, f)
              /\ \A c : c \in Everything(<<<<>>, d, schema>>, Calls)
                          <=> \E n \in 0 .. MaxDepth : c \in f[n]
  BY CallsInLevels, Zenon
<1>2. PICK g : /\ NodesAt(d, schema, g)
              /\ \A c : c \in Nodes(d, schema) <=> \E n \in 0 .. MaxDepth : c \in g[n]
  BY NodesInLevels, Zenon
<1> DEFINE nodes == Nodes(d, schema)
<1>3. \A n \in 0 .. MaxDepth : Agree(f, g, n)
  <2>1. \A n \in 0 .. MaxDepth : n \in Nat
    OBVIOUS
  <2>. QED
    BY <1>1, <1>2, <2>1, Agreement, Zenon
<1>4. \A n \in 0 .. MaxDepth : \A c \in g[n] : \A rule :
        Moot(nodes, c, rule) <=> RefusedAbove(g, n, c) \/ (rule \notin TypeRules /\ Refused(c[2], c[3]))
  <2> SUFFICES ASSUME NEW n \in 0 .. MaxDepth, NEW c \in g[n], NEW rule
               PROVE  Moot(nodes, c, rule) <=>
                        RefusedAbove(g, n, c) \/ (rule \notin TypeRules /\ Refused(c[2], c[3]))
    BY Zenon
  <2> HIDE DEF nodes
  <2>1. \A a : a \in nodes <=> \E m \in 0 .. MaxDepth : a \in g[m]
    BY <1>2, Zenon DEF nodes
  <2>. QED
    BY <1>2, <2>1, MootIs, Zenon
<1>5. ASSUME NEW x
      PROVE  x \in Violations(d, schema)
               <=> \E c \in nodes : \E r \in Rules : \E keys \in Broken(c[2], c[3], r) :
                     ~Moot(nodes, c, r) /\ x = <<c[1], r, keys>>
  <2>1. Violations(d, schema) =
          UNION {{<<q[1][1], q[2], keys>> : keys \in Broken(q[1][2], q[1][3], q[2])} :
                   q \in {q \in nodes \X Rules : ~Moot(nodes, q[1], q[2])}}
    BY Zenon DEF Violations
  <2> HIDE DEF nodes
  <2>2. x \in Violations(d, schema)
          <=> \E q \in nodes \X Rules : /\ ~Moot(nodes, q[1], q[2])
                                        /\ \E keys \in Broken(q[1][2], q[1][3], q[2]) :
                                             x = <<q[1][1], q[2], keys>>
    <3> DEFINE Q == {q \in nodes \X Rules : ~Moot(nodes, q[1], q[2])}
               F(q) == {<<q[1][1], q[2], keys>> : keys \in Broken(q[1][2], q[1][3], q[2])}
    <3>1. \A q : q \in Q <=> q \in nodes \X Rules /\ ~Moot(nodes, q[1], q[2])
      BY Zenon
    <3>2. Violations(d, schema) = UNION {F(q) : q \in Q}
      BY <2>1, Zenon
    <3>3. \A q : x \in F(q) <=> \E keys \in Broken(q[1][2], q[1][3], q[2]) : x = <<q[1][1], q[2], keys>>
      BY Zenon
    <3> HIDE DEF Q, F
    <3>4. x \in Violations(d, schema)
            <=> \E q \in Q : \E keys \in Broken(q[1][2], q[1][3], q[2]) : x = <<q[1][1], q[2], keys>>
      <4>1. x \in Violations(d, schema) <=> \E q \in Q : x \in F(q)
        BY <3>2, Zenon
      <4>. QED
        BY <3>3, <4>1, Zenon
    <3>. QED
      BY <3>1, <3>4, Zenon
  <2>3. ASSUME NEW q \in nodes \X Rules
        PROVE  q[1] \in nodes /\ q[2] \in Rules
    OBVIOUS
  <2>4. ASSUME NEW c \in nodes, NEW r \in Rules
        PROVE  <<c, r>> \in nodes \X Rules /\ <<c, r>>[1] = c /\ <<c, r>>[2] = r
    OBVIOUS
  <2>5. ASSUME x \in Violations(d, schema)
        PROVE  \E c \in nodes : \E r \in Rules : \E keys \in Broken(c[2], c[3], r) :
                 ~Moot(nodes, c, r) /\ x = <<c[1], r, keys>>
    BY <2>2, <2>3, <2>5, Zenon
  <2>6. ASSUME NEW c \in nodes, NEW r \in Rules, NEW keys \in Broken(c[2], c[3], r),
               ~Moot(nodes, c, r), x = <<c[1], r, keys>>
        PROVE  x \in Violations(d, schema)
    <3>1. PICK q \in nodes \X Rules : q[1] = c /\ q[2] = r
      <4>1. <<c, r>> \in nodes \X Rules /\ <<c, r>>[1] = c /\ <<c, r>>[2] = r
        BY <2>4
      <4>. QED
        BY <4>1
    <3>2. keys \in Broken(q[1][2], q[1][3], q[2]) /\ x = <<q[1][1], q[2], keys>>
      BY <2>6, <3>1, Zenon
    <3>3. ~Moot(nodes, q[1], q[2])
      BY <2>6, <3>1, Zenon
    <3>. QED
      BY <2>2, <3>2, <3>3, Zenon
  <2>. QED
    BY <2>5, <2>6, Zenon
<1>6. ASSUME NEW x
      PROVE  x \in validateNode(d, schema)
               <=> \E n \in 0 .. MaxDepth : \E c \in f[n] : x \in OwnProblems(c[1], c[2], c[3])
  <2>1. x \in validateNode(d, schema)
          <=> \E c \in Everything(<<<<>>, d, schema>>, Calls) : x \in OwnProblems(c[1], c[2], c[3])
    BY Zenon DEF validateNode
  <2>. QED
    BY <1>1, <2>1, Zenon
<1>7. \A n \in 0 .. MaxDepth : \A c \in g[n] : c \in nodes /\ WellFormed(c[2], c[3])
  BY <1>2, Zenon DEF AllWellFormed
<1> HIDE DEF nodes
<1>8. ASSUME NEW x, x \in validateNode(d, schema)
      PROVE  x \in Violations(d, schema)
  <2>1. PICK n \in 0 .. MaxDepth : \E c \in f[n] : x \in OwnProblems(c[1], c[2], c[3])
    BY <1>6, <1>8, Zenon
  <2>2. PICK c \in f[n] : x \in OwnProblems(c[1], c[2], c[3])
    BY <2>1, Zenon
  <2>3. c \in g[n] /\ ~RefusedAbove(g, n, c)
    BY <1>3, Zenon DEF Agree
  <2>4. c \in nodes /\ WellFormed(c[2], c[3])
    BY <1>7, <2>3, Zenon
  <2>5. PICK r \in Rules : \E keys \in Broken(c[2], c[3], r) :
          (r \in TypeRules \/ ~Refused(c[2], c[3])) /\ x = <<c[1], r, keys>>
    <3>1. x \in OwnProblems(c[1], c[2], c[3])
            <=> \E r \in Rules : \E keys \in Broken(c[2], c[3], r) :
                  (r \in TypeRules \/ ~Refused(c[2], c[3])) /\ x = <<c[1], r, keys>>
      BY <2>4, OwnProblemsAre
    <3>. QED
      BY <2>2, <3>1, Zenon
  <2>6. ~Moot(nodes, c, r)
    BY <1>4, <2>3, <2>5, Zenon
  <2>. QED
    BY <1>5, <2>4, <2>5, <2>6, Zenon
<1>9. ASSUME NEW x, x \in Violations(d, schema)
      PROVE  x \in validateNode(d, schema)
  <2>1. PICK c \in nodes : \E r \in Rules : \E keys \in Broken(c[2], c[3], r) :
          ~Moot(nodes, c, r) /\ x = <<c[1], r, keys>>
    BY <1>5, <1>9, Zenon
  <2>2. PICK r \in Rules : \E keys \in Broken(c[2], c[3], r) :
          ~Moot(nodes, c, r) /\ x = <<c[1], r, keys>>
    BY <2>1, Zenon
  <2>3. PICK keys \in Broken(c[2], c[3], r) : ~Moot(nodes, c, r) /\ x = <<c[1], r, keys>>
    BY <2>2, Zenon
  <2>4. PICK n \in 0 .. MaxDepth : c \in g[n]
    BY <1>2, Zenon DEF nodes
  <2>5. ~RefusedAbove(g, n, c) /\ (r \in TypeRules \/ ~Refused(c[2], c[3]))
    BY <1>4, <2>3, <2>4, Zenon
  <2>6. c[3] # Anything
    BY <2>3, NothingToBreak, Zenon
  <2>7. c \in f[n]
    BY <1>3, <2>4, <2>5, <2>6, Zenon DEF Agree
  <2>8. WellFormed(c[2], c[3])
    BY <1>7, <2>4, Zenon
  <2>9. x \in OwnProblems(c[1], c[2], c[3])
    BY <2>3, <2>5, <2>8, OwnProblemsAre, Zenon
  <2>. QED
    BY <1>6, <2>7, <2>9, Zenon
<1>. QED
  BY <1>8, <1>9, Zenon

----------------------------------------------------------------------------
\* The nodes of a valid document and the places of the schema.

\* A path and one more step, with any item standing for all.
LEMMA GenericStep ==
  ASSUME NEW S, NEW p \in Seq(S), NEW k \in S
  PROVE  /\ Generic(Append(p, k)) = Append(Generic(p), IF k[1] = "item" THEN AnyItem ELSE k)
         /\ Len(Generic(p)) \in Nat
         /\ \A m \in 0 .. Len(Generic(p)) : SubSeq(Generic(Append(p, k)), 1, m) = SubSeq(Generic(p), 1, m)
         /\ Len(Generic(Append(p, k))) = Len(Generic(p)) + 1
<1> DEFINE one(x) == IF x[1] = "item" THEN AnyItem ELSE x
           T == {one(x) : x \in S}
<1>1. Generic(Append(p, k)) = [i \in DOMAIN Append(p, k) |-> one(Append(p, k)[i])]
  BY Zenon DEF Generic
<1>2. Generic(p) = [i \in DOMAIN p |-> one(p[i])]
  BY Zenon DEF Generic
<1>3. \A x \in S : one(x) \in T
  BY Zenon
<1> HIDE DEF one, T
<1>4. DOMAIN p = 1 .. Len(p) /\ DOMAIN Append(p, k) = 1 .. Len(p) + 1 /\ Len(p) \in Nat
  BY OneMoreElement
<1>5. Generic(p) \in Seq(T) /\ Len(Generic(p)) = Len(p)
  BY <1>2, <1>3, <1>4
<1>6. \A i \in 1 .. Len(p) : Append(p, k)[i] = p[i]
  BY <1>4
<1>7. Append(p, k)[Len(p) + 1] = k
  BY <1>4
<1>8. one(k) \in T
  BY <1>3, Zenon
<1>9. /\ Append(Generic(p), one(k)) \in Seq(T)
      /\ Len(Append(Generic(p), one(k))) = Len(p) + 1
      /\ \A i \in 1 .. Len(p) : Append(Generic(p), one(k))[i] = Generic(p)[i]
      /\ Append(Generic(p), one(k))[Len(p) + 1] = one(k)
  BY <1>5, <1>8, OneMoreElement
<1>10. Generic(Append(p, k)) = Append(Generic(p), one(k))
  <2>1. Append(p, k) \in Seq(S) /\ Len(Append(p, k)) = Len(p) + 1
    BY OneMoreElement
  <2>2. Generic(Append(p, k)) \in Seq(T) /\ Len(Generic(Append(p, k))) = Len(p) + 1
    BY <1>1, <1>3, <2>1
  <2>3. ASSUME NEW i \in 1 .. Len(p) + 1
        PROVE  Generic(Append(p, k))[i] = Append(Generic(p), one(k))[i]
    <3>1. Generic(Append(p, k))[i] = one(Append(p, k)[i])
      BY <1>1, <1>4
    <3>2. CASE i = Len(p) + 1
      BY <1>7, <1>9, <3>1, <3>2
    <3>3. CASE i # Len(p) + 1
      <4>1. i \in 1 .. Len(p)
        BY <1>4, <3>3
      <4>2. Generic(p)[i] = one(p[i])
        BY <1>2, <1>4, <4>1
      <4>. QED
        BY <1>6, <1>9, <3>1, <4>1, <4>2, Zenon
    <3>. QED
      BY <3>2, <3>3, Zenon
  <2>. QED
    BY <1>9, <2>2, <2>3, SameElements
<1>11. \A m \in 0 .. Len(Generic(p)) : SubSeq(Append(Generic(p), one(k)), 1, m) = SubSeq(Generic(p), 1, m)
  BY <1>5, <1>8, Appended, Zenon
<1>. QED
  BY <1>4, <1>5, <1>9, <1>10, <1>11, Zenon DEF one

\* What is below a place in a map is in the map.
LEMMA StaysInMap ==
  ASSUME NEW S, NEW p \in Seq(S), NEW k \in S, InMap(Generic(p))
  PROVE  InMap(Generic(Append(p, k)))
<1> DEFINE q == Generic(p)
           r == Generic(Append(p, k))
<1>1. PICK m \in Maps : Len(Fields(m)) <= Len(q) /\ SubSeq(q, 1, Len(Fields(m))) = Fields(m)
  BY Zenon DEF InMap, Leads
<1>2. Len(Fields(m)) = 2
  <2>1. m = <<"loki", "labels">>
    BY DEF Maps
  <2>2. Fields(m) = <<Field("loki"), Field("labels")>>
    BY <2>1 DEF Fields
  <2>. QED
    BY <2>2
<1>3. /\ Len(q) \in Nat /\ Len(r) = Len(q) + 1
      /\ \A i \in 0 .. Len(q) : SubSeq(r, 1, i) = SubSeq(q, 1, i)
  BY GenericStep, Zenon
<1> HIDE DEF q, r
<1>4. 2 \in 0 .. Len(q) /\ 2 <= Len(r)
  BY <1>1, <1>2, <1>3
<1>5. SubSeq(r, 1, 2) = Fields(m)
  BY <1>1, <1>2, <1>3, <1>4, Zenon
<1>6. Leads(Fields(m), r)
  BY <1>2, <1>4, <1>5, Zenon DEF Leads
<1>. QED
  BY <1>6, Zenon DEF InMap, r

\* A call that finds nothing lets the value have its type, and knows all its keys.
LEMMA NothingFound ==
  ASSUME NEW p, NEW v, NEW s, OwnProblems(p, v, s) = {}
  PROVE  /\ ~Refused(v, s)
         /\ Has(s, "additionalProperties") /\ ~s.additionalProperties /\ v[1] = "object"
              => DOMAIN v[2] \subseteq Named(s)
<1>1. ~Refused(v, s)
  BY Zenon DEF OwnProblems, Refused
<1>2. ASSUME Has(s, "additionalProperties"), ~s.additionalProperties, v[1] = "object",
             NEW k \in DOMAIN v[2], k \notin Named(s)
      PROVE  FALSE
  <2> DEFINE unknown == IF v[1] = "object" THEN DOMAIN v[2] \ Named(s) ELSE {}
  <2>1. unknown # {}
    BY <1>2, Zenon
  <2>2. ~(Has(s, "type") /\ ~typeMatches(s.type, v)) /\ ~(Has(s, "enum") /\ ~enumContains(s.enum, v))
    BY <1>1, Zenon DEF Refused
  <2>3. <<p, "unknown", unknown>> \in OwnProblems(p, v, s)
    <3> DEFINE A == IF numeric(v) /\ Has(s, "minimum") /\ TooSmall(v, s.minimum)
                      THEN {<<p, "minimum", {}>>} ELSE {}
               B == IF numeric(v) /\ Has(s, "maximum") /\ TooLarge(v, s.maximum)
                      THEN {<<p, "maximum", {}>>} ELSE {}
               C == IF v[1] = "object" /\ Has(s, "required")
                      THEN {<<p, "required", {q}>> : q \in s.required \ DOMAIN v[2]} ELSE {}
               D == IF Has(s, "additionalProperties") /\ ~s.additionalProperties /\ unknown # {}
                      THEN {<<p, "unknown", unknown>>} ELSE {}
    <3>1. OwnProblems(p, v, s) = UNION {A, B, C, D}
      BY <2>2, Zenon DEF OwnProblems
    <3>2. <<p, "unknown", unknown>> \in D
      BY <1>2, <2>1, Zenon
    <3> HIDE DEF A, B, C, D, unknown
    <3>. QED
      BY <3>1, <3>2, Zenon
  <2>. QED
    BY <2>3, Zenon
<1>. QED
  BY <1>1, <1>2, Zenon

\* In a closed schema a value that has steps has the one type that has them.
LEMMA ClosedFits ==
  ASSUME NEW v, NEW s, Closed(s), ~Refused(v, s), v[1] \in {"object", "array"}
  PROVE  s.type = v[1]
<1>1. typeMatches(s.type, v)
  BY Zenon DEF Closed, Refused
<1>2. s.type \in {"object", "array", "string", "boolean", "integer", "number", "null"}
  BY Zenon DEF Closed
<1>. QED
  BY <1>1, <1>2 DEF typeMatches, numeric

\* Every node at depth n that is not in a map is the value of a call and at a place of
\* the schema.
Covered(f, g, h, n) ==
  \A c \in g[n] : InMap(Generic(c[1])) \/ (c \in f[n] /\ <<Generic(c[1]), c[3]>> \in h[n])

\* So it is at every depth, when no call finds anything and the schema is closed at
\* every place but the maps.
LEMMA AllCovered ==
  ASSUME NEW d, NEW schema, NEW f, NEW g, NEW h,
         CallsAt(d, schema, f), NodesAt(d, schema, g), PlacesAt(schema, h), MaxDepth \in Nat,
         \A n \in 0 .. MaxDepth : \A c \in f[n] : OwnProblems(c[1], c[2], c[3]) = {},
         \A n \in 0 .. MaxDepth : \A c \in h[n] : Closed(c[2]) \/ InMap(c[1])
  PROVE  \A n \in 0 .. MaxDepth : Covered(f, g, h, n)
<1> DEFINE T == {n \in Nat : n <= MaxDepth => Covered(f, g, h, n)}
<1>1. 0 \in T
  <2>1. g[0] = {<<<<>>, d, schema>>} /\ f[0] = {<<<<>>, d, schema>>} /\ h[0] = {<<<<>>, schema>>}
    BY Zenon DEF CallsAt, NodesAt, PlacesAt
  <2>2. Generic(<<>>) = <<>>
    BY DEF Generic
  <2>3. Covered(f, g, h, 0)
    BY <2>1, <2>2 DEF Covered
  <2>. QED
    BY <2>3
<1>2. ASSUME NEW n \in Nat, n \in T
      PROVE  n + 1 \in T
  <2> SUFFICES ASSUME n + 1 <= MaxDepth
               PROVE  Covered(f, g, h, n + 1)
    OBVIOUS
  <2>1. Covered(f, g, h, n) /\ n \in 0 .. MaxDepth
    BY <1>2
  <2>2. ASSUME NEW c \in g[n + 1]
        PROVE  InMap(Generic(c[1])) \/ (c \in f[n + 1] /\ <<Generic(c[1]), c[3]>> \in h[n + 1])
    <3>1. PICK b \in g[n] : c \in Inside(b)
      BY Zenon DEF NodesAt
    <3>2. PICK k \in Steps(b[2]) : c = <<Append(b[1], k), b[2][2][k[2]], Under(b[3], k)>>
      BY <3>1, InsideIs, Zenon
    <3>3. c[1] = Append(b[1], k) /\ c[3] = Under(b[3], k)
      BY <3>2
    <3>4. b[1] \in Seq(StepsIn(g)) /\ k \in StepsIn(g)
      BY PathLengths, StepOfDocument, Zenon DEF PathsOfLength
    <3>5. InMap(Generic(b[1])) => InMap(Generic(c[1]))
      BY <3>3, <3>4, StaysInMap, Zenon
    <3> SUFFICES ASSUME ~InMap(Generic(b[1]))
                 PROVE  c \in f[n + 1] /\ <<Generic(c[1]), c[3]>> \in h[n + 1]
      BY <3>5, Zenon
    <3>6. b \in f[n] /\ <<Generic(b[1]), b[3]>> \in h[n]
      BY <2>1, Zenon DEF Covered
    <3>7. OwnProblems(b[1], b[2], b[3]) = {}
      BY <2>1, <3>6, Zenon
    <3>8. Closed(b[3])
      <4> DEFINE place == <<Generic(b[1]), b[3]>>
      <4>1. place[1] = Generic(b[1]) /\ place[2] = b[3]
        OBVIOUS
      <4>2. Closed(place[2]) \/ InMap(place[1])
        BY <2>1, <3>6, Zenon
      <4> HIDE DEF place
      <4>. QED
        BY <4>1, <4>2, Zenon
    <3>9. ~Refused(b[2], b[3])
      BY <3>7, NothingFound, Zenon
    <3>10. Generic(c[1]) = Append(Generic(b[1]), IF k[1] = "item" THEN AnyItem ELSE k)
      <4>1. Generic(Append(b[1], k)) = Append(Generic(b[1]), IF k[1] = "item" THEN AnyItem ELSE k)
        BY <3>4, GenericStep, Zenon
      <4>. QED
        BY <3>3, <4>1, Zenon
    <3>11. Calls(b) = Members(b)
      BY <3>9, Zenon DEF Calls
    <3>12. <<Generic(b[1]), b[3]>>[1] = Generic(b[1]) /\ <<Generic(b[1]), b[3]>>[2] = b[3]
      OBVIOUS
    <3>13. c \in Members(b) /\ <<Generic(c[1]), c[3]>> \in Parts(<<Generic(b[1]), b[3]>>)
      <4>1. CASE b[2][1] = "object"
        <5>1. PICK key \in DOMAIN b[2][2] : k = Field(key)
          BY <4>1, Zenon DEF Steps
        <5>2. k[1] = "field" /\ k[2] = key /\ k[1] # "item"
          BY <5>1 DEF Field
        <5>3. b[3].type = "object"
          <6>1. b[2][1] \in {"object", "array"}
            BY <4>1, Zenon
          <6>. QED
            BY <3>8, <3>9, <4>1, <6>1, ClosedFits, Zenon
        <5>4. key \in Named(b[3])
          <6>1. Has(b[3], "additionalProperties") /\ ~b[3].additionalProperties
            BY <3>8, <5>3, Zenon DEF Closed
          <6>. QED
            BY <3>7, <4>1, <6>1, NothingFound, Zenon
        <5>5. Under(b[3], k) = b[3].properties[key]
          BY <5>2, <5>4, Zenon DEF Under
        <5>6. c = <<Append(b[1], Field(key)), b[2][2][key], b[3].properties[key]>>
          BY <3>2, <5>1, <5>2, <5>5, Zenon
        <5>7. c \in Members(b)
          BY <4>1, <5>4, <5>6, Zenon DEF Members
        <5>8. <<Generic(c[1]), c[3]>> = <<Append(Generic(b[1]), Field(key)), b[3].properties[key]>>
          BY <3>3, <3>10, <5>1, <5>2, <5>5, Zenon
        <5>9. <<Append(Generic(b[1]), Field(key)), b[3].properties[key]>> \in Parts(<<Generic(b[1]), b[3]>>)
          BY <3>12, <5>4, Zenon DEF Parts
        <5>. QED
          BY <5>7, <5>8, <5>9, Zenon
      <4>2. CASE b[2][1] = "array"
        <5>0. b[2][1] # "object" /\ "item" # "field"
          BY <4>2
        <5>1. PICK i \in DOMAIN b[2][2] : k = Item(i)
          BY <4>2, <5>0, Zenon DEF Steps
        <5>2. k[1] = "item" /\ k[2] = i
          BY <5>1 DEF Item
        <5>3. b[3].type = "array"
          <6>1. b[2][1] \in {"object", "array"}
            BY <4>2, Zenon
          <6>. QED
            BY <3>8, <3>9, <4>2, <6>1, ClosedFits, Zenon
        <5>4. Has(b[3], "items")
          BY <3>8, <5>3, Zenon DEF Closed
        <5>5. Under(b[3], k) = b[3].items
          BY <5>0, <5>2, <5>4, Zenon DEF Under
        <5>6. c = <<Append(b[1], Item(i)), b[2][2][i], b[3].items>>
          BY <3>2, <5>1, <5>2, <5>5, Zenon
        <5>7. c \in Members(b)
          BY <4>2, <5>0, <5>4, <5>6, Zenon DEF Members
        <5>8. <<Generic(c[1]), c[3]>> = <<Append(Generic(b[1]), AnyItem), b[3].items>>
          BY <3>3, <3>10, <5>2, <5>5, Zenon
        <5>9. <<Append(Generic(b[1]), AnyItem), b[3].items>> \in Parts(<<Generic(b[1]), b[3]>>)
          BY <3>12, <5>4, Zenon DEF Parts, Has
        <5>. QED
          BY <5>7, <5>8, <5>9, Zenon
      <4>3. b[2][1] = "object" \/ b[2][1] = "array"
        BY Zenon DEF Steps
      <4>. QED
        BY <4>1, <4>2, <4>3, Zenon
    <3>14. c \in f[n + 1]
      BY <3>6, <3>11, <3>13, Zenon DEF CallsAt
    <3>15. <<Generic(c[1]), c[3]>> \in h[n + 1]
      BY <3>6, <3>13, Zenon DEF PlacesAt
    <3>. QED
      BY <3>14, <3>15, Zenon
  <2>. QED
    BY <2>2, Zenon DEF Covered
<1>3. Nat \subseteq T
  <2> HIDE DEF T
  <2>. QED
    BY <1>1, <1>2, Induction
<1>. QED
  BY <1>3

----------------------------------------------------------------------------
\* What validate says.

\* What a command has said of a file is what it says of it.
VerdictOf ==
  \/ verdict = NoVerdict
  \/ \E d \in Docs : verdict = [by |-> "check", of |-> d, ok |-> Accepts(d), problems |-> {}]
  \/ \E d \in Docs : verdict = [by |-> "validate", of |-> d, ok |-> Accepts(d) /\ Problems(d) = {},
                                problems |-> IF Accepts(d) THEN Problems(d) ELSE {}]

\* So it is in every reachable state.
LEMMA VerdictInvariant == CommandsSpec => []VerdictOf
<1>1. CommandsInit => VerdictOf
  BY Zenon DEF CommandsInit, VerdictOf
<1>2. VerdictOf /\ [CommandsNext]_allVars => VerdictOf'
  <2> SUFFICES ASSUME VerdictOf, [CommandsNext]_allVars
               PROVE  VerdictOf'
    OBVIOUS
  <2>1. ASSUME NEW d \in Docs, Check(d)
        PROVE  VerdictOf'
    BY <2>1, Zenon DEF Check, VerdictOf
  <2>2. ASSUME NEW d \in Docs, ValidateFile(d)
        PROVE  VerdictOf'
    BY <2>2, Zenon DEF ValidateFile, VerdictOf
  <2>3. CASE verdict' = NoVerdict
    BY <2>3, Zenon DEF VerdictOf
  <2>4. CASE UNCHANGED verdict
    BY <2>4, Zenon DEF VerdictOf
  <2>5. CASE UNCHANGED allVars
    BY <2>4, <2>5, Zenon DEF allVars
  <2>. QED
    BY <2>1, <2>2, <2>3, <2>4, <2>5, Zenon DEF CommandsNext
<1>. QED
  BY <1>1, <1>2, PTL DEF CommandsSpec

\* A verdict of validate, taken apart.
LEMMA Validated ==
  ASSUME VerdictOf, verdict.by = "validate"
  PROVE  /\ verdict.of \in Docs
         /\ verdict.ok <=> Accepts(verdict.of) /\ Problems(verdict.of) = {}
         /\ Accepts(verdict.of) => verdict.problems = Problems(verdict.of)
<1>1. NoVerdict.by = "nobody"
  BY DEF NoVerdict
<1>2. verdict # NoVerdict
  BY <1>1
<1>3. \A d : verdict # [by |-> "check", of |-> d, ok |-> Accepts(d), problems |-> {}]
  OBVIOUS
<1>4. PICK d \in Docs : verdict = [by |-> "validate", of |-> d, ok |-> Accepts(d) /\ Problems(d) = {},
                                   problems |-> IF Accepts(d) THEN Problems(d) ELSE {}]
  BY <1>2, <1>3, Zenon DEF VerdictOf
<1>5. verdict.of = d
  BY <1>4
<1>6. verdict.ok = (Accepts(d) /\ Problems(d) = {})
  BY <1>4
<1>7. verdict.problems = IF Accepts(d) THEN Problems(d) ELSE {}
  BY <1>4
<1>. QED
  BY <1>5, <1>6, <1>7, Zenon

\* validate reports every violation of the schema in the file and nothing else
\* (internal/config/schema.go validateNode, cli/main.go validateCommand).
THEOREM ReportsEveryViolation == CommandsSpec => []ReportsEverything
<1>1. VerdictOf => ReportsEverything
  <2> SUFFICES ASSUME VerdictOf, verdict.by = "validate", Accepts(verdict.of)
               PROVE  verdict.problems = Violations(verdict.of, TheSchema)
    BY Zenon DEF ReportsEverything
  <2>1. verdict.of \in Docs /\ verdict.problems = Problems(verdict.of)
    BY Validated, Zenon
  <2>2. MaxDepth \in Nat /\ AllWellFormed(verdict.of, TheSchema)
    BY <2>1, CommandsAssumption, Zenon DEF AllWellFormed
  <2>3. validateNode(verdict.of, TheSchema) = Violations(verdict.of, TheSchema)
    BY <2>2, ValidatorIsExact, Zenon
  <2>. QED
    BY <2>1, <2>3, Zenon DEF Problems
<1>. QED
  BY <1>1, VerdictInvariant, PTL

\* A file without problems has only keys that Load looks at, when the schema lists
\* nothing else and leaves nothing open but a map.
LEMMA NothingUnread ==
  ASSUME OnlyKeysRead(TheSchema), NEW d, Problems(d) = {}
  PROVE  \A c \in Nodes(d, TheSchema) : IsRead(Generic(c[1]))
<1>1. PICK f : /\ CallsAt(d, TheSchema, f)
              /\ \A c : c \in Everything(<<<<>>, d, TheSchema>>, Calls)
                          <=> \E n \in 0 .. MaxDepth : c \in f[n]
  BY CallsInLevels, Zenon
<1>2. PICK g : /\ NodesAt(d, TheSchema, g)
              /\ \A c : c \in Nodes(d, TheSchema) <=> \E n \in 0 .. MaxDepth : c \in g[n]
  BY NodesInLevels, Zenon
<1>3. PICK h : /\ PlacesAt(TheSchema, h)
              /\ \A c : c \in Places(TheSchema) <=> \E n \in 0 .. MaxDepth : c \in h[n]
  BY PlacesInLevels, Zenon
<1>4. \A n \in 0 .. MaxDepth : \A c \in f[n] : OwnProblems(c[1], c[2], c[3]) = {}
  <2> SUFFICES ASSUME NEW n \in 0 .. MaxDepth, NEW c \in f[n], NEW x \in OwnProblems(c[1], c[2], c[3])
               PROVE  FALSE
    BY Zenon
  <2>1. c \in Everything(<<<<>>, d, TheSchema>>, Calls)
    BY <1>1, Zenon
  <2>2. x \in validateNode(d, TheSchema)
    BY <2>1, Zenon DEF validateNode
  <2>. QED
    BY <2>2, Zenon DEF Problems
<1>5. \A n \in 0 .. MaxDepth : \A c \in h[n] : IsRead(c[1]) /\ (Closed(c[2]) \/ InMap(c[1]))
  BY <1>3, Zenon DEF OnlyKeysRead
<1>6. \A n \in 0 .. MaxDepth : Covered(f, g, h, n)
  <2>1. MaxDepth \in Nat
    BY CommandsAssumption, Zenon
  <2>2. \A n \in 0 .. MaxDepth : \A c \in h[n] : Closed(c[2]) \/ InMap(c[1])
    BY <1>5, Zenon
  <2>. QED
    BY <1>1, <1>2, <1>3, <1>4, <2>1, <2>2, AllCovered, Zenon
<1>. SUFFICES ASSUME NEW c \in Nodes(d, TheSchema)
              PROVE  IsRead(Generic(c[1]))
  BY Zenon
<1>7. PICK n \in 0 .. MaxDepth : c \in g[n]
  BY <1>2, Zenon
<1>8. InMap(Generic(c[1])) \/ <<Generic(c[1]), c[3]>> \in h[n]
  BY <1>6, <1>7, Zenon DEF Covered
<1>9. <<Generic(c[1]), c[3]>>[1] = Generic(c[1])
  OBVIOUS
<1>. QED
  BY <1>5, <1>8, <1>9, Zenon DEF IsRead

\* A file that validate calls valid has no key that Load passes over, for every schema
\* that lists only what Load reads and leaves nothing open but the map that Load reads
\* whole, as the shipped one does (schema/haribon-config.schema.json with loki.labels,
\* internal/config/schema.go validateNode).
THEOREM ValidFilesHaveNoTypos ==
  ASSUME OnlyKeysRead(TheSchema)
  PROVE  CommandsSpec => []NoTypos
<1>1. VerdictOf => NoTypos
  <2> SUFFICES ASSUME VerdictOf, verdict.by = "validate", verdict.ok
               PROVE  \A c \in Nodes(verdict.of, TheSchema) : IsRead(Generic(c[1]))
    BY Zenon DEF NoTypos
  <2>1. Problems(verdict.of) = {}
    BY Validated, Zenon
  <2>. QED
    BY <2>1, NothingUnread, Zenon
<1>. QED
  BY <1>1, VerdictInvariant, PTL
=============================================================================
