--------------------------- MODULE SequenceLemmas ---------------------------
(***************************************************************************)
(* Facts about numbers and sequences, and about where the text of a path   *)
(* leads, that the proofs of several components need.  What would be shown *)
(* by induction goes by the least number that is not in a set.             *)
(***************************************************************************)
EXTENDS PathNames, SequenceTheorems, FiniteSetTheorems,
        WellFoundedInduction, TLAPS

\* A set of numbers has a least one.
LEMMA Least ==
  ASSUME NEW T, T \subseteq Nat, T # {}
  PROVE  \E x \in T : \A y \in T : x <= y
<1> DEFINE R == OpToRel(<, Nat)
<1>1. IsWellFoundedOn(R, Nat)
  BY NatLessThanWellFounded
<1>2. \A x, y \in Nat : x < y => <<x, y>> \in R
  BY DEF OpToRel
<1> HIDE DEF R
<1>3. PICK x \in T : \A y \in T : <<y, x>> \notin R
  BY <1>1, WFMin
<1>4. ASSUME NEW y \in T
      PROVE  x <= y
  <2>1. x \in Nat /\ y \in Nat
    OBVIOUS
  <2>2. ~(y < x)
    BY <1>2, <1>3, <2>1
  <2> QED
    BY <2>1, <2>2
<1> QED
  BY <1>4

\* What holds of 0 and is handed on from number to number holds up to n.
LEMMA Climb ==
  ASSUME NEW n \in Nat, NEW T, 0 \in T, \A i \in 1..n : i - 1 \in T => i \in T
  PROVE  \A i \in 0..n : i \in T
<1> DEFINE U == {i \in 0..n : i \notin T}
<1>1. ASSUME U # {} PROVE FALSE
  <2>1. U \subseteq Nat
    OBVIOUS
  <2> HIDE DEF U
  <2>2. PICK u \in U : \A y \in U : u <= y
    BY <1>1, <2>1, Least
  <2>3. u \in 0..n /\ u \notin T
    BY DEF U
  <2>4. u # 0
    BY <2>3
  <2>5. u \in 1..n /\ u - 1 \in 0..n /\ ~(u <= u - 1)
    BY <2>3, <2>4
  <2>6. u - 1 \in T
    <3>1. u - 1 \notin U
      BY <2>2, <2>5
    <3> QED
      BY <2>5, <3>1 DEF U
  <2> QED
    BY <2>3, <2>5, <2>6
<1> QED
  BY <1>1

\* f[i] is the first i of the n sequences, put together.
PutTogether(f, seqs, n) ==
  /\ f[0] = <<>>
  /\ \A i \in 1..n : f[i] = f[i - 1] \o seqs[i]

\* Any sequences can be put together.
LEMMA Joins ==
  ASSUME NEW S, NEW n \in Nat, NEW seqs \in [1..n -> Seq(S)]
  PROVE  \E f \in [0..n -> Seq(S)] : PutTogether(f, seqs, n)
<1> DEFINE T == {m \in Nat : \E f \in [0..m -> Seq(S)] : PutTogether(f, seqs, m)}
<1>1. 0 \in T
  <2> DEFINE f == [i \in 0..0 |-> <<>>]
  <2>1. f \in [0..0 -> Seq(S)] /\ PutTogether(f, seqs, 0)
    BY DEF PutTogether
  <2> QED
    BY <2>1
<1>2. ASSUME NEW m \in 1..n, m - 1 \in T PROVE m \in T
  <2>1. PICK f \in [0..(m - 1) -> Seq(S)] : PutTogether(f, seqs, m - 1)
    BY <1>2
  <2> DEFINE joined == f[m - 1] \o seqs[m]
             h == [i \in 0..m |-> IF i = m THEN joined ELSE f[i]]
  <2>2. m \in Nat /\ joined \in Seq(S)
    <3>1. m \in Nat /\ m - 1 \in 0..(m - 1)
      OBVIOUS
    <3>2. f[m - 1] \in Seq(S) /\ seqs[m] \in Seq(S)
      BY <3>1
    <3> QED
      BY <3>1, <3>2
  <2>3. f[m - 1] \o seqs[m] = joined
    OBVIOUS
  <2> HIDE DEF joined
  <2>4. h \in [0..m -> Seq(S)]
    BY <2>2
  <2>5. h[m] = joined /\ \A i \in 0..(m - 1) : h[i] = f[i]
    BY <2>2
  <2> HIDE DEF h
  <2>6. ASSUME NEW i \in 1..m PROVE h[i] = h[i - 1] \o seqs[i]
    <3>1. CASE i = m
      <4>1. i - 1 \in 0..(m - 1)
        BY <2>2, <3>1
      <4> QED
        BY <2>3, <2>5, <3>1, <4>1
    <3>2. CASE i # m
      <4>1. i \in 1..(m - 1) /\ i \in 0..(m - 1) /\ i - 1 \in 0..(m - 1)
        BY <2>2, <3>2
      <4> QED
        BY <2>1, <2>5, <4>1 DEF PutTogether
    <3> QED
      BY <3>1, <3>2
  <2>7. h[0] = <<>>
    BY <2>1, <2>2, <2>5, SMTT(60) DEF PutTogether
  <2>8. PutTogether(h, seqs, m)
    BY <2>6, <2>7 DEF PutTogether
  <2> QED
    BY <2>2, <2>4, <2>8
<1> HIDE DEF T
<1>3. \A m \in 0..n : m \in T
  BY <1>1, <1>2, Climb
<1>4. n \in T
  BY <1>3
<1> QED
  BY <1>4 DEF T

\* FlattenSeq puts them all together.
LEMMA FlattenIs ==
  ASSUME NEW S, NEW n \in Nat, NEW seqs \in [1..n -> Seq(S)],
         NEW f \in [0..n -> Seq(S)], PutTogether(f, seqs, n)
  PROVE  FlattenSeq(seqs) = f[n]
<1> DEFINE body(g) == [i \in 1..n |-> IF i = 1 THEN seqs[i] ELSE g[i - 1] \o seqs[i]]
           flat == CHOOSE g : g = body(g)
           h == [i \in 1..n |-> f[i]]
<1>1. /\ f[0] = <<>>
      /\ \A i \in 1..n : f[i] = f[i - 1] \o seqs[i] /\ seqs[i] \in Seq(S)
  BY DEF PutTogether
<1>2. \A s \in Seq(S) : <<>> \o s = s
  OBVIOUS
<1>3. n > 0 => f[1] = seqs[1]
  <2>1. ASSUME n > 0 PROVE f[1] = seqs[1]
    <3>1. 1 \in 1..n /\ 1 - 1 = 0
      BY <2>1
    <3> QED
      BY <1>1, <1>2, <3>1
  <2> QED
    BY <2>1
<1>4. ASSUME NEW i \in 1..n
      PROVE  h[i] = IF i = 1 THEN seqs[i] ELSE h[i - 1] \o seqs[i]
  <2>1. CASE i = 1
    BY <1>3, <2>1
  <2>2. CASE i # 1
    <3>1. i - 1 \in 1..n
      BY <2>2
    <3>2. h[i - 1] = f[i - 1] /\ h[i] = f[i]
      BY <3>1
    <3> HIDE DEF h
    <3> QED
      BY <1>1, <2>2, <3>2
  <2> QED
    BY <2>1, <2>2
<1>5. h = body(h)
  BY <1>4
<1> HIDE DEF h
<1>6. flat = body(flat)
  BY <1>5
<1>7. FlattenSeq(seqs) = IF n = 0 THEN seqs ELSE flat[n]
  <2>1. Len(seqs) = n
    OBVIOUS
  <2> QED
    BY <2>1 DEF FlattenSeq
<1> HIDE DEF flat
<1>8. \A i \in 1..n : flat[i] = IF i = 1 THEN seqs[i] ELSE flat[i - 1] \o seqs[i]
  BY <1>6
<1> DEFINE T == {i \in Nat : i \in 1..n => flat[i] = f[i]}
<1>9. ASSUME NEW i \in 1..n, i - 1 \in T PROVE i \in T
  <2>1. CASE i = 1
    BY <1>3, <1>8, <2>1
  <2>2. CASE i # 1
    <3>1. i - 1 \in 1..n
      BY <2>2
    <3>2. flat[i] = flat[i - 1] \o seqs[i]
      BY <1>8, <2>2
    <3>3. flat[i - 1] = f[i - 1]
      BY <1>9, <3>1
    <3>4. f[i] = f[i - 1] \o seqs[i]
      BY DEF PutTogether
    <3>5. flat[i] = f[i]
      BY <3>2, <3>3, <3>4
    <3> QED
      BY <3>5
  <2> QED
    BY <2>1, <2>2
<1>10. 0 \in T
  OBVIOUS
<1> HIDE DEF T
<1>11. \A i \in 0..n : i \in T
  BY <1>9, <1>10, Climb
<1>12. CASE n = 0
  <2>1. seqs = <<>>
    BY <1>12
  <2> QED
    BY <1>1, <1>7, <1>12, <2>1
<1>13. CASE n # 0
  <2>1. n \in 1..n /\ n \in T
    BY <1>11, <1>13
  <2> QED
    BY <1>7, <1>13, <2>1 DEF T
<1> QED
  BY <1>12, <1>13

\* What is put together begins with what was put together before.
LEMMA Begins ==
  ASSUME NEW S, NEW n \in Nat, NEW seqs \in [1..n -> Seq(S)],
         NEW f \in [0..n -> Seq(S)], PutTogether(f, seqs, n), NEW m \in 0..n
  PROVE  /\ Len(f[m]) <= Len(f[n])
         /\ \A i \in 1..Len(f[m]) : f[n][i] = f[m][i]
<1> DEFINE Longer(s, t) == Len(s) <= Len(t) /\ \A i \in 1..Len(s) : t[i] = s[i]
           T == {k \in Nat : k < m \/ Longer(f[m], f[k])}
<1>1. /\ \A s, t \in Seq(S) : Longer(s, s \o t)
      /\ \A s, t, u \in Seq(S) : Longer(s, t) /\ Longer(t, u) => Longer(s, u)
      /\ \A s \in Seq(S) : Longer(s, s)
  <2>1. \A s, t \in Seq(S) : Longer(s, s \o t)
    OBVIOUS
  <2>2. \A s, t, u \in Seq(S) : Longer(s, t) /\ Longer(t, u) => Longer(s, u)
    OBVIOUS
  <2> QED
    BY <2>1, <2>2
<1> HIDE DEF Longer
<1>2. ASSUME NEW k \in 1..n, k - 1 \in T PROVE k \in T
  <2>1. k \in Nat /\ k \in 0..n /\ k - 1 \in 0..n
    OBVIOUS
  <2>2. /\ f[k] = f[k - 1] \o seqs[k] /\ seqs[k] \in Seq(S)
        /\ f[k] \in Seq(S) /\ f[k - 1] \in Seq(S) /\ f[m] \in Seq(S)
    BY <2>1 DEF PutTogether
  <2>3. Longer(f[k - 1], f[k])
    BY <1>1, <2>2
  <2>4. CASE k - 1 >= m
    <3>1. Longer(f[m], f[k - 1])
      BY <1>2, <2>1, <2>4
    <3>2. Longer(f[m], f[k])
      BY <1>1, <2>2, <2>3, <3>1
    <3> QED
      BY <2>1, <3>2
  <2>5. CASE k = m
    BY <1>1, <2>1, <2>2, <2>5
  <2>6. CASE k < m
    BY <2>1, <2>6
  <2> QED
    BY <2>1, <2>4, <2>5, <2>6
<1>3. 0 \in T
  <2>1. m = 0 => Longer(f[m], f[0])
    BY <1>1
  <2> QED
    BY <2>1
<1> HIDE DEF T
<1>4. \A k \in 0..n : k \in T
  BY <1>2, <1>3, Climb
<1>5. n \in T
  BY <1>4
<1>6. Longer(f[m], f[n])
  BY <1>5 DEF T
<1> QED
  BY <1>6 DEF Longer

\* The end of a sequence is a suffix.
LEMMA EndIsSuffix ==
  ASSUME NEW S, NEW s \in Seq(S), NEW t \in Seq(S)
  PROVE  IsSuffix(t, s \o t)
<1> DEFINE w == s \o t
           a == Reverse(t)
           b == Reverse(w)
           m == Len(t)
           n == Len(w)
<1>1. /\ w \in Seq(S) /\ n = Len(s) + m /\ m \in Nat /\ n \in Nat /\ m <= n /\ Len(s) \in Nat
      /\ \A i \in 1..m : w[Len(s) + i] = t[i]
  OBVIOUS
<1>2. a = [i \in 1..m |-> t[(m - i) + 1]] /\ b = [i \in 1..n |-> w[(n - i) + 1]]
  BY DEF Reverse
<1> HIDE DEF w, n
<1>3. a \in [1..m -> S] /\ b \in [1..n -> S]
  <2>1. ASSUME NEW i \in 1..m PROVE t[(m - i) + 1] \in S
    <3>1. (m - i) + 1 \in 1..m
      BY <1>1
    <3> QED
      BY <3>1
  <2>2. ASSUME NEW i \in 1..n PROVE w[(n - i) + 1] \in S
    <3>1. (n - i) + 1 \in 1..n
      BY <1>1
    <3>2. \A j \in 1..n : w[j] \in S
      BY <1>1 DEF n
    <3> QED
      BY <3>1, <3>2
  <2> QED
    BY <1>2, <2>1, <2>2
<1>4. ASSUME NEW i \in 1..m PROVE a[i] = b[i]
  <2>1. (m - i) + 1 \in 1..m /\ (n - i) + 1 = Len(s) + ((m - i) + 1) /\ i \in 1..n
    BY <1>1
  <2>2. w[Len(s) + ((m - i) + 1)] = t[(m - i) + 1]
    BY <1>1, <2>1
  <2> QED
    BY <1>2, <2>1, <2>2
<1> HIDE DEF a, b, m
<1>5. a \in Seq(S) /\ Len(a) = m /\ b \in Seq(S) /\ Len(b) = n
  <2>1. \A k \in Nat : \A x \in [1..k -> S] : x \in Seq(S) /\ Len(x) = k
    BY SeqDef
  <2>2. m \in Nat /\ n \in Nat
    BY <1>1
  <2> QED
    BY <1>3, <2>1, <2>2
<1>6. SubSeq(a, 1, m) = [i \in 1..m |-> a[i]] /\ SubSeq(b, 1, m) = [i \in 1..m |-> b[i]]
  <2>1. \A x \in Seq(S) : \A l \in 0..Len(x) : SubSeq(x, 1, l) = [i \in 1..l |-> x[i]]
    OBVIOUS
  <2>2. m \in 0..Len(a) /\ m \in 0..Len(b)
    BY <1>1, <1>5
  <2> QED
    BY <1>5, <2>1, <2>2
<1>7. SubSeq(a, 1, m) = SubSeq(b, 1, m)
  BY <1>4, <1>6
<1>8. IsPrefix(a, b)
  BY <1>1, <1>5, <1>7 DEF IsPrefix
<1> QED
  BY <1>8 DEF IsSuffix, a, b, w

\* Two sequences put together.
LEMMA Concat ==
  ASSUME NEW S, NEW s \in Seq(S), NEW t \in Seq(S)
  PROVE  /\ s \o t \in Seq(S)
         /\ Len(s \o t) = Len(s) + Len(t)
         /\ \A i \in 1..Len(s) : (s \o t)[i] = s[i]
         /\ \A i \in 1..Len(t) : (s \o t)[Len(s) + i] = t[i]
OBVIOUS

-----------------------------------------------------------------------------
(* Where the text of a path leads *)

\* f[i] is what i steps make of r.
Repeated(f, step, r, n) ==
  f[0] = r /\ \A i \in 1..n : f[i] = step[<<f[i - 1], i>>]

\* A step can be repeated.
LEMMA Repeats ==
  ASSUME NEW S, NEW n \in Nat, NEW r \in S, NEW step \in [S \X (1..n) -> S]
  PROVE  \E f \in [0..n -> S] : Repeated(f, step, r, n)
<1> DEFINE T == {m \in 0..n : \E f \in [0..m -> S] : Repeated(f, step, r, m)}
<1>1. 0 \in T
  <2> DEFINE f == [i \in 0..0 |-> r]
  <2>1. f \in [0..0 -> S] /\ Repeated(f, step, r, 0) /\ 0 \in 0..n
    BY DEF Repeated
  <2> QED
    BY <2>1
<1>2. ASSUME NEW m \in 1..n, m - 1 \in T PROVE m \in T
  <2>1. PICK f \in [0..(m - 1) -> S] : Repeated(f, step, r, m - 1)
    BY <1>2
  <2> DEFINE last == step[<<f[m - 1], m>>]
             h == [i \in 0..m |-> IF i = m THEN last ELSE f[i]]
  <2>2. m - 1 \in 0..(m - 1) /\ m \in 0..n /\ f[m - 1] \in S
    OBVIOUS
  <2>3. last \in S
    BY <2>2
  <2>4. step[<<f[m - 1], m>>] = last
    OBVIOUS
  <2> HIDE DEF last
  <2>5. h \in [0..m -> S]
    BY <2>3
  <2>6. h[m] = last /\ \A i \in 0..(m - 1) : h[i] = f[i]
    BY <2>2
  <2> HIDE DEF h
  <2>7. ASSUME NEW i \in 1..m PROVE h[i] = step[<<h[i - 1], i>>]
    <3>1. CASE i = m
      BY <2>2, <2>4, <2>6, <3>1
    <3>2. CASE i # m
      <4>1. i \in 1..(m - 1) /\ i \in 0..(m - 1) /\ i - 1 \in 0..(m - 1)
        BY <3>2
      <4> QED
        BY <2>1, <2>6, <4>1 DEF Repeated
    <3> QED
      BY <3>1, <3>2
  <2>8. h[0] = r
    <3>1. 0 \in 0..(m - 1)
      OBVIOUS
    <3> QED
      BY <2>1, <2>6, <3>1 DEF Repeated
  <2>9. Repeated(h, step, r, m)
    BY <2>7, <2>8 DEF Repeated
  <2> QED
    BY <2>2, <2>5, <2>9
<1> HIDE DEF T
<1>3. n \in T
  <2>1. \A m \in 0..n : m \in T
    BY <1>1, <1>2, Climb
  <2> QED
    BY <2>1
<1> QED
  BY <1>3 DEF T

-----------------------------------------------------------------------------
(* Where a text leads *)

\* A directory, and any place on the way to a component; the components of a text
\* with characters of C.
In(X) == [done |-> X, cur |-> <<>>]
Comps(C) == Seq(Seq(C))
Places(C) == [done : Comps(C), cur : Seq(C)]

\* A place right behind a slash.
LEMMA InIs ==
  ASSUME NEW C, NEW X \in Comps(C)
  PROVE  In(X) \in Places(C) /\ In(X).done = X /\ In(X).cur = <<>> /\ Root = In(<<>>)
BY DEF In, Places, Root

\* Entering a component, or following a character, leads from place to place.
LEMMA EnterType ==
  ASSUME NEW C, NEW X \in Comps(C), NEW c \in Seq(C)
  PROVE  EnterComponent(X, c) \in Comps(C)
<1>1. X # <<>> => Front(X) \in Comps(C)
  <2> SUFFICES ASSUME X # <<>> PROVE Front(X) \in Comps(C)
    OBVIOUS
  <2>1. Len(X) - 1 \in Int /\ \A i \in 1..(Len(X) - 1) : X[i] \in Seq(C)
    BY DEF Comps
  <2> QED
    BY <2>1, SubSeqProperties DEF Front, Comps
<1>2. Append(X, c) \in Comps(C)
  BY DEF Comps
<1>3. CASE c \in {<<>>, <<".">>}
  BY <1>3 DEF EnterComponent
<1>4. CASE c \notin {<<>>, <<".">>} /\ c = <<".", ".">>
  BY <1>1, <1>4 DEF EnterComponent
<1>5. CASE c \notin {<<>>, <<".">>} /\ c # <<".", ".">>
  BY <1>2, <1>5 DEF EnterComponent
<1> QED
  BY <1>3, <1>4, <1>5

LEMMA FollowType ==
  ASSUME NEW C, NEW r \in Places(C), NEW ch \in C
  PROVE  FollowChar(r, ch) \in Places(C)
<1>1. r.done \in Comps(C) /\ r.cur \in Seq(C) /\ r = [done |-> r.done, cur |-> r.cur]
  BY DEF Places
<1>2. EnterComponent(r.done, r.cur) \in Comps(C)
  BY <1>1, EnterType
<1>3. Append(r.cur, ch) \in Seq(C)
  BY <1>1
<1> QED
  BY <1>1, <1>2, <1>3 DEF FollowChar, Places

\* The places on the way, one after each character.
Way(f, r, text) ==
  f[0] = r /\ \A i \in 1..Len(text) : f[i] = FollowChar(f[i - 1], text[i])

\* There is a way along every text, and it ends where LeadsTo says.
LEMMA WayExists ==
  ASSUME NEW C, NEW r \in Places(C), NEW text \in Seq(C)
  PROVE  \E f \in [0..Len(text) -> Places(C)] : Way(f, r, text)
<1> DEFINE n == Len(text)
           step == [p \in Places(C) \X (1..n) |-> FollowChar(p[1], text[p[2]])]
<1>1. n \in Nat
  OBVIOUS
<1>2. step \in [Places(C) \X (1..n) -> Places(C)]
  BY FollowType
<1>3. \A q \in Places(C), i \in 1..n : step[<<q, i>>] = FollowChar(q, text[i])
  OBVIOUS
<1> HIDE DEF step, n
<1>4. PICK f \in [0..n -> Places(C)] : Repeated(f, step, r, n)
  BY <1>1, <1>2, Repeats
<1>5. ASSUME NEW i \in 1..n PROVE f[i] = FollowChar(f[i - 1], text[i])
  <2>1. i - 1 \in 0..n
    BY <1>1
  <2> QED
    BY <1>3, <1>4, <2>1 DEF Repeated
<1> QED
  BY <1>4, <1>5 DEF Repeated, Way, n

\* There is one way only, and LeadsTo is its end.
LEMMA WayIs ==
  ASSUME NEW C, NEW r \in Places(C), NEW text \in Seq(C), NEW f, Way(f, r, text)
  PROVE  LeadsTo(r, text) = f[Len(text)]
<1> DEFINE n == Len(text)
           body(at) == [i \in 0..n |-> IF i = 0 THEN r ELSE FollowChar(at[i - 1], text[i])]
           at == CHOOSE g : g = body(g)
<1>1. n \in Nat
  OBVIOUS
<1>2. LeadsTo(r, text) = at[n]
  BY DEF LeadsTo
<1>3. \E g : g = body(g)
  <2>1. PICK g \in [0..n -> Places(C)] : Way(g, r, text)
    BY WayExists
  <2>2. ASSUME NEW i \in 0..n
        PROVE  g[i] = IF i = 0 THEN r ELSE FollowChar(g[i - 1], text[i])
    <3>1. CASE i = 0
      BY <2>1, <3>1 DEF Way
    <3>2. CASE i # 0
      <4>1. i \in 1..n
        BY <3>2
      <4> QED
        BY <2>1, <3>2, <4>1 DEF Way
    <3> QED
      BY <3>1, <3>2
  <2>3. g = body(g)
    BY <2>1, <2>2
  <2> QED
    BY <2>3
<1>4. at = body(at)
  BY <1>3
<1> HIDE DEF at
<1>5. \A i \in 0..n : at[i] = IF i = 0 THEN r ELSE FollowChar(at[i - 1], text[i])
  BY <1>4
<1> HIDE DEF n
<1> DEFINE T == {i \in 0..n : at[i] = f[i]}
<1>6. 0 \in T
  BY <1>1, <1>5 DEF Way
<1>7. ASSUME NEW i \in 1..n, i - 1 \in T PROVE i \in T
  <2>1. i \in 0..n /\ i # 0 /\ i \in 1..Len(text)
    BY <1>1 DEF n
  <2>2. at[i] = FollowChar(at[i - 1], text[i])
    BY <1>5, <2>1
  <2>3. f[i] = FollowChar(f[i - 1], text[i])
    BY <2>1 DEF Way
  <2>4. at[i - 1] = f[i - 1]
    BY <1>7
  <2> QED
    BY <2>1, <2>2, <2>3, <2>4
<1> HIDE DEF T
<1>8. n \in T
  <2>1. \A i \in 0..n : i \in T
    BY <1>1, <1>6, <1>7, Climb
  <2> QED
    BY <1>1, <2>1
<1> QED
  BY <1>2, <1>8 DEF T, n

\* A text leads from place to place.
LEMMA LeadsToType ==
  ASSUME NEW C, NEW r \in Places(C), NEW text \in Seq(C)
  PROVE  LeadsTo(r, text) \in Places(C)
<1>1. PICK f \in [0..Len(text) -> Places(C)] : Way(f, r, text)
  BY WayExists
<1>2. Len(text) \in 0..Len(text)
  OBVIOUS
<1> QED
  BY <1>1, <1>2, WayIs

\* An empty text leads nowhere, a character does what FollowChar says, and a text
\* is followed by parts.
LEMMA LeadsToNone ==
  ASSUME NEW C, NEW r \in Places(C)
  PROVE  LeadsTo(r, <<>>) = r
<1>1. <<>> \in Seq(C) /\ Len(<<>>) = 0
  OBVIOUS
<1>2. Way([i \in 0..0 |-> r], r, <<>>)
  BY <1>1 DEF Way
<1>3. LeadsTo(r, <<>>) = [i \in 0..0 |-> r][Len(<<>>)]
  BY <1>1, <1>2, WayIs
<1> QED
  BY <1>1, <1>3

\* A character leads where FollowChar says.
LEMMA LeadsToOne ==
  ASSUME NEW C, NEW r \in Places(C), NEW ch \in C
  PROVE  LeadsTo(r, <<ch>>) = FollowChar(r, ch)
<1> DEFINE f == [i \in 0..1 |-> IF i = 0 THEN r ELSE FollowChar(r, ch)]
<1>1. <<ch>> \in Seq(C) /\ Len(<<ch>>) = 1 /\ <<ch>>[1] = ch
  OBVIOUS
<1>2. f[0] = r /\ f[1] = FollowChar(r, ch)
  OBVIOUS
<1> HIDE DEF f
<1>3. Way(f, r, <<ch>>)
  <2>1. ASSUME NEW i \in 1..1 PROVE f[i] = FollowChar(f[i - 1], <<ch>>[i])
    <3>1. i = 1 /\ i - 1 = 0
      OBVIOUS
    <3> QED
      BY <1>1, <1>2, <3>1
  <2> QED
    BY <1>1, <1>2, <2>1 DEF Way
<1>4. LeadsTo(r, <<ch>>) = f[Len(<<ch>>)]
  BY <1>1, <1>3, WayIs
<1> QED
  BY <1>1, <1>2, <1>4

\* Two texts, one after the other, lead where the second leads from the first.
LEMMA LeadsToParts ==
  ASSUME NEW C, NEW r \in Places(C), NEW s \in Seq(C), NEW t \in Seq(C)
  PROVE  LeadsTo(r, s \o t) = LeadsTo(LeadsTo(r, s), t)
<1> DEFINE q == LeadsTo(r, s) n == Len(s) m == Len(t) w == s \o t
<1>1. /\ n \in Nat /\ m \in Nat /\ w \in Seq(C) /\ Len(w) = n + m
      /\ \A i \in 1..n : w[i] = s[i]
      /\ \A i \in 1..m : w[n + i] = t[i]
  BY ConcatProperties
<1>2. q \in Places(C)
  BY LeadsToType
<1>3. PICK f \in [0..n -> Places(C)] : Way(f, r, s)
  BY WayExists
<1>4. PICK g \in [0..m -> Places(C)] : Way(g, q, t)
  BY <1>2, WayExists
<1>5. f[n] = q /\ g[m] = LeadsTo(q, t)
  BY <1>2, <1>3, <1>4, WayIs
<1> HIDE DEF q, w
<1> DEFINE h == [i \in 0..(n + m) |-> IF i <= n THEN f[i] ELSE g[i - n]]
<1>6. /\ \A i \in 0..n : h[i] = f[i]
      /\ \A i \in 0..m : h[n + i] = g[i]
  <2>1. ASSUME NEW i \in 0..n PROVE h[i] = f[i]
    <3>1. i \in 0..(n + m) /\ i <= n
      BY <1>1
    <3> QED
      BY <3>1
  <2>2. ASSUME NEW i \in 0..m PROVE h[n + i] = g[i]
    <3>1. n + i \in 0..(n + m) /\ (n + i) - n = i /\ (n + i <= n => i = 0 /\ n + i = n)
      BY <1>1
    <3>2. g[0] = q
      BY <1>4 DEF Way
    <3> QED
      BY <1>5, <3>1, <3>2
  <2> QED
    BY <2>1, <2>2
<1> HIDE DEF h
<1>7. Way(h, r, w)
  <2>1. ASSUME NEW i \in 1..(n + m) PROVE h[i] = FollowChar(h[i - 1], w[i])
    <3>1. CASE i <= n
      <4>1. i \in 1..n /\ i \in 0..n /\ i - 1 \in 0..n
        BY <1>1, <3>1
      <4>2. f[i] = FollowChar(f[i - 1], s[i])
        BY <1>3, <4>1 DEF Way
      <4> QED
        BY <1>1, <1>6, <4>1, <4>2
    <3>2. CASE i > n
      <4>1. PICK j \in Int : j = i - n
        <5>1. i \in Int /\ n \in Int
          BY <1>1
        <5> HIDE DEF n
        <5> QED
          BY <5>1
      <4>2. j \in 1..m /\ j \in 0..m /\ j - 1 \in 0..m /\ n + j = i /\ n + (j - 1) = i - 1
        BY <1>1, <3>2, <4>1
      <4>3. g[j] = FollowChar(g[j - 1], t[j])
        BY <1>4, <4>2 DEF Way
      <4>4. h[i] = g[j] /\ h[i - 1] = g[j - 1] /\ w[i] = t[j]
        BY <1>1, <1>6, <4>2
      <4> QED
        BY <4>3, <4>4
    <3> QED
      BY <1>1, <3>1, <3>2
  <2>2. h[0] = r
    <3>1. 0 \in 0..n
      BY <1>1
    <3> QED
      BY <1>3, <1>6, <3>1 DEF Way
  <2> QED
    BY <1>1, <2>1, <2>2 DEF Way
<1>8. LeadsTo(r, w) = h[n + m]
  BY <1>1, <1>7, WayIs, ZenonT(60)
<1>9. h[n + m] = g[m]
  <2>1. m \in 0..m
    BY <1>1
  <2> QED
    BY <1>6, <2>1
<1> QED
  BY <1>5, <1>8, <1>9 DEF q, w

\* A text with one character more.
LEMMA LeadsToChar ==
  ASSUME NEW C, NEW r \in Places(C), NEW s \in Seq(C), NEW ch \in C
  PROVE  LeadsTo(r, s \o <<ch>>) = FollowChar(LeadsTo(r, s), ch)
<1>1. PICK t \in Seq(C) : t = <<ch>>
  <2>1. <<ch>> \in Seq(C)
    OBVIOUS
  <2> QED
    BY <2>1
<1>2. LeadsTo(r, s) \in Places(C)
  BY LeadsToType
<1>3. LeadsTo(r, s \o <<ch>>) = LeadsTo(LeadsTo(r, s), <<ch>>)
  <2>1. LeadsTo(r, s \o t) = LeadsTo(LeadsTo(r, s), t)
    BY LeadsToParts
  <2> QED
    BY <1>1, <2>1
<1>4. LeadsTo(LeadsTo(r, s), <<ch>>) = FollowChar(LeadsTo(r, s), ch)
  BY <1>2, LeadsToOne, Zenon
<1> QED
  BY <1>3, <1>4

\* Characters that are no slashes are gathered, and a slash ends the component.
LEMMA PlainLeads ==
  ASSUME NEW C, NEW X \in Comps(C), NEW c \in Seq(C), \A i \in 1..Len(c) : c[i] # "/"
  PROVE  LeadsTo(In(X), c) = [done |-> X, cur |-> c]
<1> DEFINE n == Len(c)
           f == [i \in 0..n |-> [done |-> X, cur |-> SubSeq(c, 1, i)]]
<1>1. n \in Nat
  OBVIOUS
<1>2. \A i \in 0..n : f[i] = [done |-> X, cur |-> SubSeq(c, 1, i)]
  OBVIOUS
<1> HIDE DEF f
<1>3. f[0] = In(X)
  <2>1. 0 \in 0..n /\ SubSeq(c, 1, 0) = <<>>
    BY <1>1, SubSeqEmpty
  <2> QED
    BY <1>2, <2>1 DEF In
<1>4. ASSUME NEW i \in 1..n PROVE f[i] = FollowChar(f[i - 1], c[i])
  <2>1. i \in 0..n /\ i - 1 \in 0..n /\ 1 \in 1..n /\ i \in 1..Len(c)
    BY <1>1
  <2>2. SubSeq(c, 1, i) = SubSeq(c, 1, i - 1) \o <<c[i]>>
    BY <2>1, SubSeqRecursiveSecond
  <2>3. SubSeq(c, 1, i - 1) \in Seq(C) /\ c[i] \in C
    BY <2>1
  <2>4. Append(SubSeq(c, 1, i - 1), c[i]) = SubSeq(c, 1, i)
    BY <2>2, <2>3, AppendIsConcat
  <2>5. c[i] # "/"
    BY <2>1
  <2>6. \A s : FollowChar([done |-> X, cur |-> s], c[i]) = [done |-> X, cur |-> Append(s, c[i])]
    BY <2>5 DEF FollowChar
  <2>7. f[i - 1] = [done |-> X, cur |-> SubSeq(c, 1, i - 1)]
    BY <1>2, <2>1
  <2>8. f[i] = [done |-> X, cur |-> SubSeq(c, 1, i)]
    BY <1>2, <2>1
  <2> QED
    BY <2>4, <2>6, <2>7, <2>8
<1>5. Way(f, In(X), c)
  BY <1>3, <1>4 DEF Way
<1>6. LeadsTo(In(X), c) = f[n]
  BY <1>5, InIs, WayIs
<1>7. n \in 0..n /\ SubSeq(c, 1, n) = c
  BY <1>1, SubSeqFull
<1> QED
  BY <1>2, <1>6, <1>7

\* A component with its slash.
LEMMA SlashLeads ==
  ASSUME NEW C, "/" \in C, NEW X \in Comps(C), NEW c \in Seq(C), \A i \in 1..Len(c) : c[i] # "/"
  PROVE  LeadsTo(In(X), c \o <<"/">>) = In(EnterComponent(X, c))
<1>1. In(X) \in Places(C)
  BY InIs
<1>2. LeadsTo(In(X), c \o <<"/">>) = FollowChar(LeadsTo(In(X), c), "/")
  BY <1>1, LeadsToChar, Zenon
<1>3. LeadsTo(In(X), c) = [done |-> X, cur |-> c]
  BY PlainLeads
<1> QED
  BY <1>2, <1>3 DEF FollowChar, In

\* Behind a slash is a directory.
LEMMA SlashEnds ==
  ASSUME NEW C, "/" \in C, NEW r \in Places(C), NEW s \in Seq(C)
  PROVE  \E X \in Comps(C) : LeadsTo(r, s \o <<"/">>) = In(X)
<1>1. LeadsTo(r, s) \in Places(C)
  BY LeadsToType
<1>2. LeadsTo(r, s \o <<"/">>) = FollowChar(LeadsTo(r, s), "/")
  BY LeadsToChar, Zenon
<1>3. FollowChar(LeadsTo(r, s), "/") \in Places(C)
  BY <1>1, FollowType
<1>4. FollowChar(LeadsTo(r, s), "/").cur = <<>>
  BY DEF FollowChar
<1> QED
  BY <1>2, <1>3, <1>4 DEF Places, In

\* Up from a directory, n times.
UpFrom(X, n) == SubSeq(X, 1, IF n <= Len(X) THEN Len(X) - n ELSE 0)

\* Going up a number of components, one at a time.
LEMMA UpIs ==
  ASSUME NEW C, NEW X \in Comps(C), NEW n \in Nat
  PROVE  /\ UpFrom(X, n) \in Comps(C)
         /\ UpFrom(X, 0) = X
         /\ EnterComponent(UpFrom(X, n), <<".", ".">>) = UpFrom(X, n + 1)
         /\ UpFrom(X, n) = <<>> <=> Len(X) <= n
<1>1. Len(X) \in Nat /\ \A i \in 1..Len(X) : X[i] \in Seq(C)
  BY DEF Comps
<1> DEFINE l == IF n <= Len(X) THEN Len(X) - n ELSE 0
<1>2. l \in 0..Len(X) /\ l \in Int
  BY <1>1
<1>3. UpFrom(X, n) = SubSeq(X, 1, l)
  BY DEF UpFrom
<1>4. UpFrom(X, n) \in Comps(C) /\ Len(UpFrom(X, n)) = l
  <2>1. SubSeq(X, 1, l) \in Seq(Seq(C)) /\ Len(SubSeq(X, 1, l)) = l
    <3>1. \A i \in 1..l : X[i] \in Seq(C)
      BY <1>1, <1>2
    <3>2. l - 1 + 1 = l /\ (l < 1 => l = 0)
      BY <1>2
    <3> HIDE DEF l
    <3>3. /\ SubSeq(X, 1, l) \in Seq(Seq(C))
          /\ Len(SubSeq(X, 1, l)) = IF 1 <= l THEN l - 1 + 1 ELSE 0
      BY <1>2, <3>1, SubSeqProperties
    <3> QED
      BY <1>2, <3>2, <3>3
  <2> QED
    BY <1>3, <2>1 DEF Comps
<1>5. UpFrom(X, 0) = X
  <2>1. 0 <= Len(X) /\ Len(X) - 0 = Len(X)
    BY <1>1
  <2> QED
    BY <2>1, SubSeqFull DEF UpFrom, Comps
<1>6. UpFrom(X, n) = <<>> <=> Len(X) <= n
  <2>1. UpFrom(X, n) = <<>> <=> l = 0
    <3> HIDE DEF l
    <3> QED
      BY <1>2, <1>4, EmptySeq DEF Comps
  <2> QED
    BY <1>1, <2>1
<1>7. EnterComponent(UpFrom(X, n), <<".", ".">>) = UpFrom(X, n + 1)
  <2> DEFINE Y == UpFrom(X, n)
  <2>1. <<".", ".">> \notin {<<>>, <<".">>}
    OBVIOUS
  <2>2. EnterComponent(Y, <<".", ".">>) = IF Y = <<>> THEN Y ELSE Front(Y)
    BY <2>1 DEF EnterComponent
  <2>3. CASE Len(X) <= n
    <3>1. Y = <<>>
      BY <1>6, <2>3
    <3>2. UpFrom(X, n + 1) = SubSeq(X, 1, 0)
      <4>1. n + 1 <= Len(X) <=> FALSE
        BY <1>1, <2>3
      <4> QED
        BY <4>1 DEF UpFrom
    <3>3. SubSeq(X, 1, 0) = <<>>
      BY SubSeqEmpty
    <3> QED
      BY <2>2, <3>1, <3>2, <3>3
  <2>4. CASE Len(X) > n
    <3>1. Y # <<>>
      BY <1>1, <1>6, <2>4
    <3>2. /\ l = Len(X) - n /\ l >= 1 /\ n + 1 <= Len(X) /\ Len(X) - (n + 1) = l - 1
      BY <1>1, <2>4
    <3> HIDE DEF l
    <3>3. Front(Y) = SubSeq(SubSeq(X, 1, l), 1, l - 1)
      BY <1>3, <1>4 DEF Front
    <3>4. UpFrom(X, n + 1) = SubSeq(X, 1, l - 1)
      BY <3>2 DEF UpFrom
    <3>5. SubSeq(SubSeq(X, 1, l), 1, l - 1) = SubSeq(X, 1, l - 1)
      <4>1. CASE l = 1
        BY <4>1, SubSeqEmpty
      <4>2. CASE l # 1
        <5>1. 1 \in 1..Len(X) /\ l \in 1..Len(X) /\ 1 \in 1..(l - 1 + 1) /\ l - 1 \in 1..(l - 1 + 1)
              /\ 1 + 1 - 1 = 1 /\ 1 + (l - 1) - 1 = l - 1
          BY <1>1, <1>2, <3>2, <4>2
        <5> QED
          BY <5>1, SubSeqOfSubSeq DEF Comps
      <4> QED
        BY <4>1, <4>2
    <3> QED
      BY <2>2, <3>1, <3>3, <3>4, <3>5
  <2> QED
    BY <1>1, <2>3, <2>4
<1> QED
  BY <1>4, <1>5, <1>6, <1>7

LEMMA UpAgain ==
  ASSUME NEW C, NEW X \in Comps(C), NEW n \in Nat
  PROVE  EnterComponent(UpFrom(X, n), <<".", ".">>) = UpFrom(X, n + 1)
BY UpIs

\* What was entered last is left first.
LEMMA LeaveEntered ==
  ASSUME NEW C, NEW Y \in Comps(C), NEW c \in Seq(C)
  PROVE  EnterComponent(Append(Y, c), <<".", ".">>) = Y
<1>1. Append(Y, c) # <<>> /\ Len(Append(Y, c)) = Len(Y) + 1 /\ Len(Y) \in Nat
      /\ Append(Y, c) = Y \o <<c>>
  BY AppendProperties, AppendIsConcat DEF Comps
<1>2. Front(Append(Y, c)) = Y
  <2>1. Front(Append(Y, c)) = SubSeq(Append(Y, c), 1, Len(Y))
    BY <1>1 DEF Front
  <2>2. SubSeq(Append(Y, c), 1, Len(Y)) = Y
    BY <1>1 DEF Comps
  <2> QED
    BY <2>1, <2>2
<1>3. <<".", ".">> \notin {<<>>, <<".">>}
  OBVIOUS
<1> QED
  BY <1>1, <1>2, <1>3 DEF EnterComponent

\* One component more is gone.
LEMMA UpOne ==
  ASSUME NEW C, NEW X \in Comps(C), NEW n \in Nat, NEW Y \in Comps(C), NEW c \in Seq(C),
         UpFrom(X, n) = Append(Y, c)
  PROVE  UpFrom(X, n + 1) = Y
<1>1. EnterComponent(UpFrom(X, n), <<".", ".">>) = UpFrom(X, n + 1)
  BY UpAgain
<1>2. EnterComponent(Append(Y, c), <<".", ".">>) = Y
  BY LeaveEntered
<1> QED
  BY <1>1, <1>2

\* The slashes from position k of the text on, but for the one at its end.
SlashesFrom(dir, k) == Cardinality({j \in k..(Len(dir) - 1) : dir[j] = "/"})

\* The count, from one position to the next.
LEMMA SlashCount ==
  ASSUME NEW C, NEW dir \in Seq(C), NEW k \in 1..Len(dir)
  PROVE  /\ SlashesFrom(dir, k) \in Nat
         /\ k = Len(dir) => SlashesFrom(dir, k) = 0
         /\ k < Len(dir) => SlashesFrom(dir, k) =
              SlashesFrom(dir, k + 1) + (IF dir[k] = "/" THEN 1 ELSE 0)
<1> DEFINE S(i) == {j \in i..(Len(dir) - 1) : dir[j] = "/"}
<1>1. Len(dir) \in Nat /\ k \in Nat /\ Len(dir) - 1 \in Int
  OBVIOUS
<1>2. ASSUME NEW i \in Int PROVE IsFiniteSet(S(i))
  <2>1. IsFiniteSet(i..(Len(dir) - 1))
    BY <1>1, FS_Interval
  <2>2. S(i) \subseteq i..(Len(dir) - 1)
    OBVIOUS
  <2> QED
    BY <2>1, <2>2, FS_Subset
<1>3. SlashesFrom(dir, k) \in Nat /\ SlashesFrom(dir, k) = Cardinality(S(k))
  BY <1>1, <1>2, FS_CardinalityType DEF SlashesFrom
<1>4. ASSUME k = Len(dir) PROVE SlashesFrom(dir, k) = 0
  <2>1. S(k) = {}
    BY <1>1, <1>4
  <2> QED
    BY <1>3, <2>1, FS_EmptySet
<1>5. ASSUME k < Len(dir)
      PROVE  SlashesFrom(dir, k) = SlashesFrom(dir, k + 1) + (IF dir[k] = "/" THEN 1 ELSE 0)
  <2>1. SlashesFrom(dir, k + 1) = Cardinality(S(k + 1)) /\ IsFiniteSet(S(k + 1))
        /\ SlashesFrom(dir, k + 1) \in Nat
    <3>1. k + 1 \in Int
      BY <1>1
    <3> QED
      BY <1>2, <3>1, FS_CardinalityType DEF SlashesFrom
  <2>2. CASE dir[k] = "/"
    <3>1. S(k) = S(k + 1) \cup {k} /\ k \notin S(k + 1)
      BY <1>1, <1>5, <2>2
    <3> HIDE DEF S
    <3>2. Cardinality(S(k + 1) \cup {k}) = Cardinality(S(k + 1)) + 1
      BY <2>1, <3>1, FS_AddElement
    <3> QED
      BY <1>3, <2>1, <2>2, <3>1, <3>2
  <2>3. CASE dir[k] # "/"
    <3>1. S(k) = S(k + 1)
      BY <1>1, <1>5, <2>3
    <3> HIDE DEF S
    <3> QED
      BY <1>3, <2>1, <2>3, <3>1
  <2> QED
    BY <2>2, <2>3
<1> QED
  BY <1>3, <1>4, <1>5

\* From one slash of it to the next a component is entered.
LEMMA DirComponent ==
  ASSUME NEW C, "/" \in C, NEW dir \in Seq(C), DirText(dir),
         NEW k \in 1..Len(dir), NEW l \in 1..Len(dir), k < l,
         dir[k] = "/", dir[l] = "/", \A i \in (k + 1)..(l - 1) : dir[i] # "/",
         NEW X \in Comps(C), LeadsTo(Root, SubSeq(dir, 1, k)) = In(X)
  PROVE  \E c \in Seq(C) : LeadsTo(Root, SubSeq(dir, 1, l)) = In(Append(X, c))
<1> DEFINE c == SubSeq(dir, k + 1, l - 1)
           n == Len(dir)
           s == SubSeq(dir, 1, k)
<1>1. n \in Nat /\ k \in Nat /\ l \in Nat /\ k + 1 <= l /\ \A i \in 1..n : dir[i] \in C
  OBVIOUS
<1>2. /\ c \in Seq(C) /\ Len(c) = l - k - 1
      /\ \A i \in 1..(l - k - 1) : c[i] = dir[k + i]
  <2>1. k + 1 \in Int /\ l - 1 \in Int /\ \A i \in (k + 1)..(l - 1) : dir[i] \in C
    BY <1>1
  <2>2. /\ c \in Seq(C)
        /\ Len(c) = IF k + 1 <= l - 1 THEN (l - 1) - (k + 1) + 1 ELSE 0
        /\ \A i \in 1..((l - 1) - (k + 1) + 1) : c[i] = dir[k + 1 + i - 1]
    BY <2>1, SubSeqProperties
  <2>3. (l - 1) - (k + 1) + 1 = l - k - 1 /\ (~(k + 1 <= l - 1) => l - k - 1 = 0)
    BY <1>1
  <2>4. \A i \in 1..(l - k - 1) : k + 1 + i - 1 = k + i
    BY <1>1
  <2> HIDE DEF c
  <2> QED
    BY <2>2, <2>3, <2>4
<1>3. s \in Seq(C)
  BY <1>1
<1>4. SubSeq(dir, 1, l) = s \o (c \o <<"/">>)
  <2>1. SubSeq(dir, 1, l) = SubSeq(dir, 1, l - 1) \o <<dir[l]>>
    <3>1. 1 \in 1..n /\ l \in 1..n
      BY <1>1
    <3> QED
      BY <3>1, SubSeqRecursiveSecond
  <2>2. SubSeq(dir, 1, l - 1) = s \o c
    <3>1. 1 \in 1..(n + 1) /\ k \in (1 - 1)..n /\ l - 1 \in k..n
      BY <1>1
    <3> QED
      BY <3>1, ConcatAdjacentSubSeq
  <2>3. PICK t \in Seq(C) : t = <<"/">>
    <3>1. <<"/">> \in Seq(C)
      OBVIOUS
    <3> QED
      BY <3>1
  <2> HIDE DEF s, c
  <2>4. (s \o c) \o t = s \o (c \o t)
    <3>1. s \in Seq(C) /\ c \in Seq(C)
      BY <1>2, <1>3
    <3>2. \A x, y, z \in Seq(C) : (x \o y) \o z = x \o (y \o z)
      BY SMTT(60)
    <3> QED
      BY <3>1, <3>2
  <2> QED
    BY <2>1, <2>2, <2>3, <2>4
<1> HIDE DEF s, c, n
<1>5. c \o <<"/">> \in Seq(C)
  BY <1>2
<1>6. Root \in Places(C)
  <2>1. <<>> \in Comps(C)
    BY DEF Comps
  <2> QED
    BY <2>1, InIs
<1>7. LeadsTo(Root, SubSeq(dir, 1, l)) = LeadsTo(In(X), c \o <<"/">>)
  <2>1. PICK t \in Seq(C) : t = c \o <<"/">>
    BY <1>5
  <2>2. LeadsTo(Root, s \o t) = LeadsTo(LeadsTo(Root, s), t)
    BY <1>3, <1>6, LeadsToParts
  <2> QED
    BY <1>4, <2>1, <2>2 DEF s
<1>8. \A i \in 1..Len(c) : c[i] # "/"
  <2>1. ASSUME NEW i \in 1..(l - k - 1) PROVE c[i] # "/"
    <3>1. k + i \in (k + 1)..(l - 1)
      BY <1>1
    <3> QED
      BY <1>2, <3>1
  <2> QED
    BY <1>2, <2>1
<1>9. LeadsTo(In(X), c \o <<"/">>) = In(EnterComponent(X, c))
  BY <1>2, <1>8, SlashLeads, Zenon
<1>10. c # <<>> /\ c # <<".">> /\ c # <<".", ".">>
  <2>1. /\ k \in 1..(Len(dir) - 1) /\ dir[k + 1] # "/"
        /\ ~(dir[k + 1] = "." /\ dir[k + 2] = "/")
        /\ ~(dir[k + 1] = "." /\ dir[k + 2] = "." /\ dir[k + 3] = "/")
    <3>1. k \in 1..(Len(dir) - 1)
      BY <1>1 DEF n
    <3> QED
      BY <3>1 DEF DirText
  <2>2. ASSUME c = <<>> PROVE FALSE
    <3>1. l - k - 1 = 0
      BY <1>2, <2>2
    <3>2. l = k + 1
      BY <1>1, <3>1
    <3> QED
      BY <2>1, <3>2
  <2>3. ASSUME c = <<".">> PROVE FALSE
    <3>1. Len(c) = 1 /\ c[1] = "."
      BY <2>3
    <3>2. l - k - 1 = 1
      BY <1>2, <3>1
    <3>3. l = k + 2 /\ 1 \in 1..(l - k - 1)
      BY <1>1, <3>2
    <3>4. dir[k + 1] = "."
      BY <1>2, <3>1, <3>3
    <3> QED
      BY <2>1, <3>3, <3>4
  <2>4. ASSUME c = <<".", ".">> PROVE FALSE
    <3>1. Len(c) = 2 /\ c[1] = "." /\ c[2] = "."
      BY <2>4
    <3>2. l - k - 1 = 2
      BY <1>2, <3>1
    <3>3. l = k + 3 /\ 1 \in 1..(l - k - 1) /\ 2 \in 1..(l - k - 1)
      BY <1>1, <3>2
    <3>4. dir[k + 1] = "." /\ dir[k + 2] = "."
      BY <1>2, <3>1, <3>3
    <3> QED
      BY <2>1, <3>3, <3>4
  <2> QED
    BY <2>2, <2>3, <2>4
<1>11. EnterComponent(X, c) = Append(X, c)
  BY <1>10 DEF EnterComponent
<1> QED
  BY <1>2, <1>7, <1>9, <1>11

\* The root is a place.
LEMMA RootIs ==
  ASSUME NEW C
  PROVE  Root \in Places(C) /\ Root = In(<<>>) /\ <<>> \in Comps(C)
<1>1. <<>> \in Comps(C)
  BY DEF Comps
<1> QED
  BY <1>1, InIs

\* Up to any of its slashes, the text of a directory leads to a directory.
LEMMA DirLeads ==
  ASSUME NEW C, "/" \in C, NEW dir \in Seq(C), DirText(dir), NEW k \in 1..Len(dir), dir[k] = "/"
  PROVE  \E X \in Comps(C) : LeadsTo(Root, SubSeq(dir, 1, k)) = In(X)
<1>1. SubSeq(dir, 1, k) = SubSeq(dir, 1, k - 1) \o <<"/">>
  <2>1. 1 \in 1..Len(dir) /\ k \in 1..Len(dir)
    OBVIOUS
  <2> QED
    BY <2>1, SubSeqRecursiveSecond
<1>2. PICK s \in Seq(C) : s = SubSeq(dir, 1, k - 1)
  <2>1. SubSeq(dir, 1, k - 1) \in Seq(C)
    OBVIOUS
  <2> QED
    BY <2>1
<1>3. \E X \in Comps(C) : LeadsTo(Root, s \o <<"/">>) = In(X)
  BY RootIs, SlashEnds
<1> QED
  BY <1>1, <1>2, <1>3

\* The first slash of it names the root.
LEMMA DirBegins ==
  ASSUME NEW C, "/" \in C, NEW dir \in Seq(C), DirText(dir)
  PROVE  LeadsTo(Root, SubSeq(dir, 1, 1)) = In(<<>>)
<1>1. 1 \in 1..Len(dir) /\ dir[1] = "/"
  BY DEF DirText
<1>2. SubSeq(dir, 1, 1) = <<dir[1]>>
  <2>1. SubSeq(dir, 1, 1) = SubSeq(dir, 1, 1 - 1) \o <<dir[1]>>
    BY <1>1, SubSeqRecursiveSecond
  <2>2. SubSeq(dir, 1, 1 - 1) = <<>>
    BY SubSeqEmpty
  <2>3. <<>> \o <<dir[1]>> = <<dir[1]>>
    OBVIOUS
  <2> QED
    BY <2>1, <2>2, <2>3
<1>3. LeadsTo(Root, <<"/">>) = FollowChar(Root, "/")
  BY RootIs, LeadsToOne
<1>4. FollowChar(Root, "/") = In(<<>>)
  BY DEF FollowChar, Root, EnterComponent, In
<1> QED
  BY <1>1, <1>2, <1>3, <1>4

\* D is the directory that the whole text names; the text up to the next slash from
\* position k on names the one above it by as many slashes as there are from k on.
Above(dir, D, k) ==
  \A l \in k..Len(dir) :
    dir[l] = "/" /\ (\A i \in k..(l - 1) : dir[i] # "/")
    => LeadsTo(Root, SubSeq(dir, 1, l)) = In(UpFrom(D, SlashesFrom(dir, k)))

\* Where the slash at a position leads follows from where the next one does.
LEMMA AboveStep ==
  ASSUME NEW C, "/" \in C, NEW dir \in Seq(C), DirText(dir),
         NEW D \in Comps(C), NEW k \in 1..(Len(dir) - 1), Above(dir, D, k + 1)
  PROVE  Above(dir, D, k)
<1> DEFINE n == Len(dir)
           u == SlashesFrom(dir, k + 1)
<1>1. n \in Nat /\ k \in Nat /\ k < n /\ k + 1 \in 1..n /\ k \in 1..n /\ n \in 1..n
  OBVIOUS
<1>2. u \in Nat /\ SlashesFrom(dir, k) = u + (IF dir[k] = "/" THEN 1 ELSE 0)
  BY <1>1, SlashCount
<1> HIDE DEF u
<1> SUFFICES ASSUME NEW l \in k..n, dir[l] = "/", \A i \in k..(l - 1) : dir[i] # "/"
             PROVE  LeadsTo(Root, SubSeq(dir, 1, l)) = In(UpFrom(D, SlashesFrom(dir, k)))
  BY DEF Above
<1>3. CASE dir[k] # "/"
  <2>1. l # k
    BY <1>3
  <2>2. l \in (k + 1)..n /\ \A i \in (k + 1)..(l - 1) : i \in k..(l - 1)
    BY <1>1, <2>1
  <2>3. LeadsTo(Root, SubSeq(dir, 1, l)) = In(UpFrom(D, u))
    BY <2>2 DEF Above, u
  <2> QED
    BY <1>2, <1>3, <2>3
<1>4. CASE dir[k] = "/"
  <2>1. l = k
    BY <1>1, <1>4
  <2> DEFINE T == {i \in (k + 1)..n : dir[i] = "/"}
  <2>2. n \in T
    BY <1>1 DEF DirText
  <2>3. T \subseteq Nat
    BY <1>1
  <2> HIDE DEF T
  <2>4. PICK m \in T : \A i \in T : m <= i
    BY <2>2, <2>3, Least
  <2>5. m \in (k + 1)..n /\ dir[m] = "/" /\ m \in 1..n /\ k < m
    BY <1>1, <2>4 DEF T
  <2>6. ASSUME NEW i \in (k + 1)..(m - 1) PROVE dir[i] # "/"
    <3>1. i \in (k + 1)..n /\ ~(m <= i)
      BY <1>1, <2>5
    <3> QED
      BY <2>4, <3>1 DEF T
  <2>7. LeadsTo(Root, SubSeq(dir, 1, m)) = In(UpFrom(D, u))
    BY <2>5, <2>6 DEF Above, u
  <2>8. PICK X \in Comps(C) : LeadsTo(Root, SubSeq(dir, 1, k)) = In(X)
    BY <1>1, <1>4, DirLeads
  <2>9. PICK c \in Seq(C) : LeadsTo(Root, SubSeq(dir, 1, m)) = In(Append(X, c))
    BY <1>1, <1>4, <2>5, <2>6, <2>8, DirComponent
  <2>10. UpFrom(D, u) = Append(X, c)
    <3>1. In(UpFrom(D, u)).done = In(Append(X, c)).done
      BY <2>7, <2>9
    <3> QED
      BY <3>1 DEF In
  <2>11. UpFrom(D, u + 1) = X
    BY <1>2, <2>10, UpOne
  <2> QED
    BY <1>2, <1>4, <2>1, <2>8, <2>11
<1> QED
  BY <1>3, <1>4

\* Each slash of the text leads as many components up as there are slashes behind it.
LEMMA AboveAll ==
  ASSUME NEW C, "/" \in C, NEW dir \in Seq(C), DirText(dir)
  PROVE  \E D \in Comps(C) :
           /\ LeadsTo(Root, dir) = In(D)
           /\ \A k \in 1..Len(dir) : Above(dir, D, k)
<1>0. PICK n \in Nat : n = Len(dir)
  OBVIOUS
<1>1. n \in Nat /\ n \in 1..n /\ dir[n] = "/" /\ SubSeq(dir, 1, n) = dir
  BY <1>0, SubSeqFull DEF DirText
<1>2. PICK D \in Comps(C) : LeadsTo(Root, SubSeq(dir, 1, n)) = In(D)
  BY <1>0, <1>1, DirLeads
<1>3. Above(dir, D, n)
  <2>1. SlashesFrom(dir, n) = 0 /\ UpFrom(D, 0) = D
    <3>1. 0 \in Nat
      OBVIOUS
    <3> QED
      BY <1>0, <1>1, <3>1, SlashCount, UpIs
  <2>2. \A l \in n..n : l = n
    BY <1>1
  <2> QED
    BY <1>0, <1>2, <2>1, <2>2 DEF Above
<1> DEFINE T == {i \in 0..(n - 1) : Above(dir, D, n - i)}
<1>4. 0 \in T
  BY <1>1, <1>3
<1>5. ASSUME NEW i \in 1..(n - 1), i - 1 \in T PROVE i \in T
  <2>1. PICK k \in Int : k = n - i
    <3>1. n - i \in Int
      BY <1>1
    <3> QED
      BY <3>1
  <2>2. k \in 1..(n - 1) /\ n - (i - 1) = k + 1 /\ i \in 0..(n - 1)
    BY <1>1, <2>1
  <2>3. Above(dir, D, k + 1)
    BY <1>5, <2>2
  <2>4. Above(dir, D, k)
    BY <1>0, <2>2, <2>3, AboveStep
  <2> QED
    BY <2>1, <2>2, <2>4
<1> HIDE DEF T
<1>6. \A i \in 0..(n - 1) : i \in T
  <2>1. n - 1 \in Nat
    BY <1>1
  <2> QED
    BY <1>4, <1>5, <2>1, Climb
<1>7. ASSUME NEW k \in 1..n PROVE Above(dir, D, k)
  <2>1. PICK i \in Int : i = n - k
    <3>1. n - k \in Int
      BY <1>1
    <3> QED
      BY <3>1
  <2>2. i \in 0..(n - 1) /\ n - i = k
    BY <1>1, <2>1
  <2>3. i \in T
    BY <1>6, <2>2
  <2> QED
    BY <2>2, <2>3 DEF T
<1> QED
  BY <1>0, <1>1, <1>2, <1>7

\* What is left of the text when the last n of its components are taken away: up to
\* the slash that has n slashes from it on, or the first one where there are not as
\* many (whether the search for them looks at the first one or not).
Cut(dir, n, e) ==
  \/ e \in 1..(Len(dir) - 1) /\ dir[e] = "/" /\ SlashesFrom(dir, e) = n
  \/ e = 1 /\ \A k \in 2..(Len(dir) - 1) : dir[k] = "/" => SlashesFrom(dir, k) # n

\* The text that is left when n components are cut leads n components up.
LEMMA CutLeads ==
  ASSUME NEW C, "/" \in C, NEW dir \in Seq(C), DirText(dir), NEW D \in Comps(C),
         \A k \in 1..Len(dir) : Above(dir, D, k),
         NEW n \in Nat \ {0}, NEW e, Cut(dir, n, e)
  PROVE  LeadsTo(Root, SubSeq(dir, 1, e)) = In(UpFrom(D, n))
<1>0. PICK l \in Nat : l = Len(dir)
  OBVIOUS
<1>1. l \in Nat /\ l \in 1..l /\ 1 \in 1..l /\ dir[1] = "/" /\ n \in Nat /\ n >= 1
  BY <1>0 DEF DirText
<1>2. ASSUME NEW k \in 1..l, dir[k] = "/"
      PROVE  LeadsTo(Root, SubSeq(dir, 1, k)) = In(UpFrom(D, SlashesFrom(dir, k)))
  <2>1. k \in k..l /\ \A i \in k..(k - 1) : FALSE
    BY <1>1
  <2> QED
    BY <1>0, <1>2, <2>1 DEF Above
<1>3. CASE e \in 1..(l - 1) /\ dir[e] = "/" /\ SlashesFrom(dir, e) = n
  <2>1. e \in 1..l
    BY <1>1, <1>3
  <2> QED
    BY <1>2, <1>3, <2>1
<1>4. CASE e = 1 /\ \A k \in 2..(l - 1) : dir[k] = "/" => SlashesFrom(dir, k) # n
  <2>1. \A k \in 1..l : SlashesFrom(dir, k) \in Nat
    BY <1>0, SlashCount
  <2>2. SlashesFrom(dir, 1) <= n
    <3>1. CASE l = 1
      <4>1. SlashesFrom(dir, l) = 0
        BY <1>0, <1>1, SlashCount
      <4> QED
        BY <1>1, <3>1, <4>1
    <3>2. CASE l # 1
      <4> DEFINE T == {i \in 0..(l - 2) : SlashesFrom(dir, l - i) < n}
      <4>1. 0 \in T
        BY <1>1, <3>2, <1>0, SlashCount
      <4>2. ASSUME NEW i \in 1..(l - 2), i - 1 \in T PROVE i \in T
        <5>1. PICK k \in Int : k = l - i
          <6>1. l - i \in Int
            BY <1>1
          <6> QED
            BY <6>1
        <5>2. k \in 2..(l - 1) /\ k \in 1..l /\ k + 1 \in 1..l /\ l - (i - 1) = k + 1 /\ i \in 0..(l - 2)
              /\ k < l
          BY <1>1, <5>1
        <5>3. SlashesFrom(dir, k + 1) < n
          BY <4>2, <5>2
        <5>4. SlashesFrom(dir, k) = SlashesFrom(dir, k + 1) + (IF dir[k] = "/" THEN 1 ELSE 0)
          BY <5>2, <1>0, SlashCount
        <5>5. SlashesFrom(dir, k) < n
          <6>1. PICK x \in Nat : x = SlashesFrom(dir, k + 1)
            BY <2>1, <5>2
          <6>2. CASE dir[k] = "/"
            <7>1. SlashesFrom(dir, k) = x + 1 /\ x < n
              BY <5>3, <5>4, <6>1, <6>2
            <7>2. x + 1 # n
              BY <1>4, <5>2, <6>2, <7>1
            <7> QED
              BY <1>1, <7>1, <7>2
          <6>3. CASE dir[k] # "/"
            BY <5>3, <5>4, <6>1, <6>3
          <6> QED
            BY <6>2, <6>3
        <5> QED
          BY <5>1, <5>2, <5>5
      <4> HIDE DEF T
      <4>3. l - 2 \in Nat /\ l - 2 \in 0..(l - 2) /\ l - (l - 2) = 2
        BY <1>1, <3>2
      <4>4. l - 2 \in T
        <5>1. \A i \in 0..(l - 2) : i \in T
          BY <4>1, <4>2, <4>3, Climb
        <5> QED
          BY <4>3, <5>1
      <4>5. SlashesFrom(dir, 2) < n
        BY <4>3, <4>4 DEF T
      <4>6. 2 \in 1..l /\ 1 < l /\ 1 + 1 = 2
        BY <1>1, <3>2
      <4>7. SlashesFrom(dir, 1) = SlashesFrom(dir, 1 + 1) + (IF dir[1] = "/" THEN 1 ELSE 0)
        BY <1>1, <4>6, <1>0, SlashCount
      <4>8. SlashesFrom(dir, 2) \in Nat
        BY <2>1, <4>6
      <4> QED
        BY <1>1, <4>5, <4>6, <4>7, <4>8
    <3> QED
      BY <3>1, <3>2
  <2>3. In(UpFrom(D, SlashesFrom(dir, 1))) = In(<<>>)
    BY <1>1, <1>2, DirBegins
  <2>4. UpFrom(D, SlashesFrom(dir, 1)) = <<>>
    BY <2>3 DEF In
  <2>5. Len(D) <= SlashesFrom(dir, 1)
    BY <1>1, <2>1, <2>4, UpIs
  <2>6. Len(D) <= n
    <3>1. Len(D) \in Nat
      BY DEF Comps
    <3> QED
      BY <1>1, <2>1, <2>2, <2>5, <3>1
  <2>7. UpFrom(D, n) = <<>>
    BY <1>1, <2>6, UpIs
  <2> QED
    BY <1>4, <2>7, DirBegins
<1> QED
  BY <1>0, <1>3, <1>4 DEF Cut

-----------------------------------------------------------------------------
(* Parts of a text *)

\* One sequence more, put together.
LEMMA FlattenAppend ==
  ASSUME NEW S, NEW seqs \in Seq(Seq(S)), NEW e \in Seq(S)
  PROVE  /\ FlattenSeq(seqs) \in Seq(S)
         /\ FlattenSeq(Append(seqs, e)) = FlattenSeq(seqs) \o e
<1> DEFINE w == Append(seqs, e)
<1>0. PICK n \in Nat : n = Len(seqs)
  OBVIOUS
<1>1. /\ w \in Seq(Seq(S)) /\ Len(w) = n + 1 /\ w[n + 1] = e
      /\ \A i \in 1..n : w[i] = seqs[i]
  BY <1>0, AppendProperties
<1>2. /\ n + 1 \in Nat /\ seqs \in [1..n -> Seq(S)]
      /\ w \in [1..(n + 1) -> Seq(S)]
  <2>1. \A k \in Nat : \A x \in Seq(Seq(S)) : Len(x) = k => x \in [1..k -> Seq(S)]
    OBVIOUS
  <2> HIDE DEF w
  <2>2. n + 1 \in Nat
    OBVIOUS
  <2> QED
    BY <1>0, <1>1, <2>1, <2>2
<1> HIDE DEF w
<1>3. PICK f \in [0..(n + 1) -> Seq(S)] : PutTogether(f, w, n + 1)
  BY <1>2, Joins
<1> DEFINE g == [i \in 0..n |-> f[i]]
<1>4. g \in [0..n -> Seq(S)] /\ \A i \in 0..n : g[i] = f[i]
  OBVIOUS
<1> HIDE DEF g
<1>5. PutTogether(g, seqs, n)
  <2>1. ASSUME NEW i \in 1..n PROVE g[i] = g[i - 1] \o seqs[i]
    <3>1. i \in 0..n /\ i - 1 \in 0..n /\ i \in 1..(n + 1)
      OBVIOUS
    <3>2. f[i] = f[i - 1] \o w[i]
      BY <1>3, <3>1 DEF PutTogether
    <3> QED
      BY <1>1, <1>4, <3>1, <3>2
  <2>2. g[0] = <<>>
    <3>1. 0 \in 0..n
      OBVIOUS
    <3> QED
      BY <1>3, <1>4, <3>1 DEF PutTogether
  <2> QED
    BY <2>1, <2>2 DEF PutTogether
<1>6. FlattenSeq(seqs) = g[n]
  BY <1>2, <1>4, <1>5, FlattenIs
<1>7. FlattenSeq(w) = f[n + 1]
  BY <1>2, <1>3, FlattenIs
<1>8. f[n + 1] = f[n] \o e
  <2>1. n + 1 \in 1..(n + 1) /\ (n + 1) - 1 = n
    OBVIOUS
  <2> QED
    BY <1>1, <1>3, <2>1 DEF PutTogether
<1>9. n \in 0..n
  OBVIOUS
<1> QED
  BY <1>4, <1>6, <1>7, <1>8, <1>9 DEF w

\* A piece of a sequence.
LEMMA Piece ==
  ASSUME NEW C, NEW s \in Seq(C), NEW i \in 0..Len(s), NEW j \in i..Len(s)
  PROVE  /\ SubSeq(s, i + 1, j) \in Seq(C)
         /\ Len(SubSeq(s, i + 1, j)) = j - i
         /\ \A k \in 1..(j - i) : SubSeq(s, i + 1, j)[k] = s[i + k]
         /\ SubSeq(s, 1, j) = SubSeq(s, 1, i) \o SubSeq(s, i + 1, j)
<1>0. PICK n \in Nat : n = Len(s)
  OBVIOUS
<1>1. i \in Nat /\ j \in Nat /\ i <= j /\ j <= n
  BY <1>0
<1>2. SubSeq(s, 1, j) = SubSeq(s, 1, i) \o SubSeq(s, i + 1, j)
  <2>1. 1 \in 1..(n + 1) /\ i \in (1 - 1)..n /\ j \in i..n
    BY <1>1
  <2> QED
    BY <1>0, <2>1, ConcatAdjacentSubSeq
<1>3. /\ SubSeq(s, i + 1, j) \in Seq(C)
      /\ Len(SubSeq(s, i + 1, j)) = IF i + 1 <= j THEN j - (i + 1) + 1 ELSE 0
      /\ \A k \in 1..(j - (i + 1) + 1) : SubSeq(s, i + 1, j)[k] = s[i + 1 + k - 1]
  <2>1. i + 1 \in Int /\ j \in Int /\ \A k \in (i + 1)..j : s[k] \in C
    BY <1>0, <1>1
  <2> QED
    BY <2>1, SubSeqProperties
<1>4. /\ j - (i + 1) + 1 = j - i /\ (~(i + 1 <= j) => j - i = 0)
      /\ \A k \in 1..(j - i) : i + 1 + k - 1 = i + k
  BY <1>1
<1> QED
  BY <1>2, <1>3, <1>4

\* A rest of a rest.
LEMMA PieceOfRest ==
  ASSUME NEW C, NEW s \in Seq(C), NEW i \in 0..Len(s), NEW k \in 0..(Len(s) - i)
  PROVE  SubSeq(SubSeq(s, i + 1, Len(s)), k + 1, Len(SubSeq(s, i + 1, Len(s))))
           = SubSeq(s, i + k + 1, Len(s))
<1>0. PICK n \in Nat : n = Len(s)
  OBVIOUS
<1>1. PICK t \in Seq(C) : t = SubSeq(s, i + 1, n)
  <2>1. n \in i..Len(s)
    BY <1>0
  <2> QED
    BY <1>0, <2>1, Piece
<1>2. Len(t) = n - i /\ \A l \in 1..(n - i) : t[l] = s[i + l]
  <2>1. n \in i..Len(s)
    BY <1>0
  <2> QED
    BY <1>0, <1>1, <2>1, Piece
<1>3. PICK u \in Seq(C) : u = SubSeq(t, k + 1, n - i)
  <2>1. k \in 0..Len(t) /\ n - i \in k..Len(t)
    BY <1>0, <1>2
  <2> QED
    BY <2>1, Piece
<1>4. Len(u) = (n - i) - k /\ \A l \in 1..((n - i) - k) : u[l] = t[k + l]
  <2>1. k \in 0..Len(t) /\ n - i \in k..Len(t)
    BY <1>0, <1>2
  <2> QED
    BY <1>3, <2>1, Piece
<1>5. PICK v \in Seq(C) : v = SubSeq(s, i + k + 1, n)
  <2>1. i + k \in 0..Len(s) /\ n \in (i + k)..Len(s)
    BY <1>0
  <2> QED
    BY <2>1, Piece
<1>6. Len(v) = n - (i + k) /\ \A l \in 1..(n - (i + k)) : v[l] = s[(i + k) + l]
  <2>1. i + k \in 0..Len(s) /\ n \in (i + k)..Len(s)
    BY <1>0
  <2> QED
    BY <1>5, <2>1, Piece
<1>7. u = v
  <2>1. Len(u) = Len(v)
    BY <1>0, <1>4, <1>6
  <2>2. ASSUME NEW l \in 1..Len(u) PROVE u[l] = v[l]
    <3>1. /\ l \in 1..((n - i) - k) /\ l \in 1..(n - (i + k)) /\ k + l \in 1..(n - i)
          /\ i + (k + l) = (i + k) + l
      BY <1>0, <1>4, <2>2
    <3> QED
      BY <1>2, <1>4, <1>6, <3>1
  <2> QED
    BY <2>1, <2>2, SeqEqual
<1> QED
  BY <1>0, <1>1, <1>2, <1>3, <1>5, <1>7

\* A sequence begins with two elements.
LEMMA BeginsWithTwo ==
  ASSUME NEW C, NEW s \in Seq(C), NEW x, NEW y
  PROVE  IsPrefix(<<x, y>>, s) <=> Len(s) >= 2 /\ s[1] = x /\ s[2] = y
<1>0. PICK n \in Nat : n = Len(s)
  OBVIOUS
<1>1. PICK p \in Seq({x, y}) : p = <<x, y>>
  <2>1. <<x, y>> \in Seq({x, y})
    OBVIOUS
  <2> QED
    BY <2>1
<1>2. Len(p) = 2 /\ p[1] = x /\ p[2] = y
  BY <1>1
<1>3. SubSeq(p, 1, 2) = p
  BY <1>2, SubSeqFull
<1>4. ASSUME n >= 2 PROVE SubSeq(s, 1, 2) = p <=> s[1] = x /\ s[2] = y
  <2>0. 0 \in 0..Len(s) /\ 2 \in 0..Len(s) /\ 0 + 1 = 1
    BY <1>0, <1>4
  <2>1. PICK t \in Seq(C) : t = SubSeq(s, 1, 2)
    <3>1. SubSeq(s, 0 + 1, 2) \in Seq(C)
      BY <2>0, Piece
    <3> QED
      BY <2>0, <3>1
  <2>2. Len(t) = 2 /\ t[1] = s[1] /\ t[2] = s[2]
    <3>1. 1 \in Int /\ 2 \in Int /\ \A i \in 1..2 : s[i] \in C
      BY <1>0, <1>4
    <3>2. Len(t) = 2 /\ \A i \in 1..(2 - 1 + 1) : t[i] = s[1 + i - 1]
      BY <2>1, <3>1, SubSeqProperties
    <3>3. 1 \in 1..(2 - 1 + 1) /\ 2 \in 1..(2 - 1 + 1) /\ 1 + 1 - 1 = 1 /\ 1 + 2 - 1 = 2
      OBVIOUS
    <3> QED
      BY <3>2, <3>3
  <2>3. ASSUME s[1] = x, s[2] = y PROVE t = p
    <3>1. \A i \in 1..Len(t) : t[i] = p[i]
      BY <1>2, <2>2, <2>3
    <3> QED
      BY <1>2, <2>2, <3>1, SeqEqual
  <2> QED
    BY <1>2, <2>1, <2>2, <2>3
<1>5. IsPrefix(p, s) <=> 2 <= n /\ SubSeq(p, 1, 2) = SubSeq(s, 1, 2)
  BY <1>0, <1>2 DEF IsPrefix
<1> QED
  BY <1>0, <1>1, <1>3, <1>4, <1>5

\* A sequence without its last element.
LEMMA WithoutLast ==
  ASSUME NEW S, NEW s \in Seq(S), s # <<>>
  PROVE  /\ Front(s) \in Seq(S) /\ s[Len(s)] \in S
         /\ s = Append(Front(s), s[Len(s)]) /\ s = Front(s) \o <<s[Len(s)]>>
         /\ Len(Front(s)) = Len(s) - 1
         /\ \A i \in 1..(Len(s) - 1) : Front(s)[i] = s[i]
<1>1. PICK n \in Nat : n = Len(s)
  OBVIOUS
<1>2. n >= 1
  BY <1>1, EmptySeq
<1>3. 0 \in 0..Len(s) /\ n - 1 \in 0..Len(s) /\ 0 + 1 = 1 /\ (n - 1) - 0 = n - 1 /\ n \in 1..n
      /\ 1 \in 1..n
  BY <1>1, <1>2
<1>4. /\ SubSeq(s, 0 + 1, n - 1) \in Seq(S) /\ Len(SubSeq(s, 0 + 1, n - 1)) = (n - 1) - 0
      /\ \A i \in 1..((n - 1) - 0) : SubSeq(s, 0 + 1, n - 1)[i] = s[0 + i]
  BY <1>3, Piece
<1>5. Front(s) \in Seq(S) /\ Len(Front(s)) = n - 1 /\ \A i \in 1..(n - 1) : Front(s)[i] = s[i]
  BY <1>1, <1>3, <1>4 DEF Front
<1>6. s = Front(s) \o <<s[n]>>
  <2>1. SubSeq(s, 1, n) = SubSeq(s, 1, n - 1) \o <<s[n]>>
    BY <1>1, <1>3, SubSeqRecursiveSecond
  <2>2. SubSeq(s, 1, n) = s
    BY <1>1, SubSeqFull
  <2> QED
    BY <1>1, <2>1, <2>2 DEF Front
<1>7. s[n] \in S
  BY <1>1, <1>3
<1>8. Append(Front(s), s[n]) = Front(s) \o <<s[n]>>
  BY <1>5, <1>7, AppendIsConcat
<1> QED
  BY <1>1, <1>5, <1>6, <1>7, <1>8

\* Three texts.
LEMMA ThreeParts ==
  ASSUME NEW C, NEW x \in Seq(C), NEW y \in Seq(C), NEW z \in Seq(C)
  PROVE  (x \o y) \o z = x \o (y \o z) /\ x \o y \in Seq(C)
OBVIOUS

\* The same, of parts that have names.
LEMMA Regroup ==
  ASSUME NEW C, NEW x \in Seq(C), NEW y \in Seq(C), NEW z \in Seq(C),
         NEW u, u = x \o y, NEW w, w = y \o z
  PROVE  u \o z = x \o w
BY SMTT(60)

\* A text that ends with a slash leads to a directory.
LEMMA DoneLeads ==
  ASSUME NEW C, "/" \in C, NEW X \in Comps(C), NEW s \in Seq(C),
         s = <<>> \/ s[Len(s)] = "/"
  PROVE  \E Y \in Comps(C) : LeadsTo(In(X), s) = In(Y)
<1>1. In(X) \in Places(C)
  BY InIs
<1>2. CASE s = <<>>
  BY <1>1, <1>2, LeadsToNone
<1>3. CASE s # <<>>
  <2>1. PICK f \in Seq(C) : s = f \o <<"/">>
    BY <1>3, WithoutLast
  <2> QED
    BY <1>1, <2>1, SlashEnds
<1> QED
  BY <1>2, <1>3

\* Three texts, one after the other.
LEMMA LeadsToThree ==
  ASSUME NEW C, NEW r \in Places(C), NEW x \in Seq(C), NEW y \in Seq(C), NEW z \in Seq(C)
  PROVE  LeadsTo(r, (x \o y) \o z) = LeadsTo(LeadsTo(r, x), y \o z)
<1>1. PICK w \in Seq(C) : w = y \o z /\ (x \o y) \o z = x \o w
  <2>1. y \o z \in Seq(C) /\ (x \o y) \o z = x \o (y \o z)
    BY ThreeParts, SMTT(60)
  <2> QED
    BY <2>1, Zenon
<1>2. LeadsTo(r, x \o w) = LeadsTo(LeadsTo(r, x), w)
  BY LeadsToParts
<1> QED
  BY <1>1, <1>2, Zenon

\* What stands before the rest of the text of a directory stands before any text.
LEMMA BeginsText ==
  ASSUME NEW C, NEW dir \in Seq(C), NEW e \in 1..Len(dir), dir[1] = "/", NEW l \in Seq(C)
  PROVE  IsPrefix(<<"/">>, SubSeq(dir, 1, e) \o l)
<1>1. PICK d \in Seq(C) : d = SubSeq(dir, 1, e) /\ Len(d) >= 1 /\ d[1] = "/"
  <2>1. 0 \in 0..Len(dir) /\ e \in 0..Len(dir) /\ 0 + 1 = 1 /\ e - 0 = e /\ 1 \in 1..e /\ e >= 1
    OBVIOUS
  <2>2. /\ SubSeq(dir, 1, e) \in Seq(C) /\ Len(SubSeq(dir, 1, e)) = e
        /\ \A k \in 1..e : SubSeq(dir, 1, e)[k] = dir[0 + k]
    BY <2>1, Piece
  <2>3. SubSeq(dir, 1, e)[1] = dir[1]
    BY <2>1, <2>2, Zenon
  <2> QED
    BY <2>1, <2>2, <2>3
<1>2. PICK w \in Seq(C) : w = d \o l /\ Len(w) >= 1 /\ w[1] = "/"
  <2>1. d \o l \in Seq(C) /\ Len(d \o l) = Len(d) + Len(l)
        /\ \A i \in 1..Len(d) : (d \o l)[i] = d[i]
    BY Concat
  <2>2. 1 \in 1..Len(d)
    BY <1>1
  <2>3. (d \o l)[1] = "/" /\ Len(d \o l) >= 1
    BY <1>1, <2>1, <2>2
  <2> QED
    BY <2>1, <2>3
<1>3. IsPrefix(<<"/">>, w)
  <2>1. <<"/">> \in Seq(C \union {"/"}) /\ w \in Seq(C \union {"/"})
    OBVIOUS
  <2>2. Len(<<"/">>) <= Len(w) /\ <<"/">> = SubSeq(w, 1, Len(<<"/">>))
    BY <1>2
  <2> QED
    BY <2>2 DEF IsPrefix
<1> QED
  BY <1>1, <1>2, <1>3
=============================================================================
