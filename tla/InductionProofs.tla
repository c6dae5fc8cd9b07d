-------------------------- MODULE InductionProofs ---------------------------
(***************************************************************************)
(* Induction over numbers, in forms without a parameter that is an         *)
(* operator, and what it shows of the recursive functions of Subsequences: *)
(* they are well defined, and what they make of a concatenation.           *)
(***************************************************************************)
EXTENDS Subsequences, SequenceTheorems, WellFoundedInduction, TLAPS

Less == {p \in Nat \X Nat : p[1] < p[2]}

(* The order of the numbers has no infinite descent.                       *)
LEMMA LessWellFounded == IsWellFoundedOn(Less, Nat)
BY NatLessThanWellFounded DEF OpToRel, Less

(* A set of numbers has a least one.                                       *)
LEMMA LeastNumber ==
  ASSUME NEW T \in SUBSET Nat, T # {}
  PROVE  \E x \in T : \A y \in T : x <= y
<1>1. PICK x \in T : \A y \in T : <<y, x>> \notin Less
  BY LessWellFounded, WFMin
<1>2. \A y \in T : ~(y < x)
  BY <1>1 DEF Less
<1> QED BY <1>1, <1>2

(* Induction over the numbers up to n, for the set of those that have a    *)
(* property.                                                               *)
LEMMA UpTo ==
  ASSUME NEW n \in Nat, NEW P, 0 \in P, \A i \in 0 .. n : (i < n /\ i \in P) => i + 1 \in P
  PROVE  \A i \in 0 .. n : i \in P
<1> DEFINE Bad == {i \in 0 .. n : i \notin P}
<1> SUFFICES ASSUME Bad # {} PROVE FALSE
  OBVIOUS
<1>1. Bad \in SUBSET Nat
  OBVIOUS
<1>2. PICK x \in Bad : \A y \in Bad : x <= y
  BY <1>1, LeastNumber
<1>3. x \in 0 .. n /\ x # 0 /\ x \notin P
  OBVIOUS
<1>4. x - 1 \in 0 .. n /\ x - 1 < n /\ (x - 1) + 1 = x /\ ~(x <= x - 1)
  BY <1>3
<1>5. x - 1 \in P
  BY <1>2, <1>4
<1> QED BY <1>3, <1>4, <1>5

(* A recursion that stays inside a set has a solution up to every n.       *)
Recursion(n, V, b, step) == n \in Nat /\ b \in V /\ step \in [Nat -> [V -> V]]

Solves(F, n, V, b, step) ==
  /\ F \in [0 .. n -> V] /\ F[0] = b
  /\ \A i \in 0 .. n : i < n => F[i + 1] = step[i][F[i]]

(* Such a recursion has a solution: the least length without one is        *)
(* neither zero nor a successor.                                           *)
LEMMA RecursionSolved ==
  ASSUME NEW n, NEW V, NEW b, NEW step, Recursion(n, V, b, step)
  PROVE  \E F : Solves(F, n, V, b, step)
<1>0. n \in Nat /\ b \in V /\ step \in [Nat -> [V -> V]]
  BY DEF Recursion
<1> DEFINE Upto(k, F) == F[0] = b /\ \A i \in 0 .. k : i < k => F[i + 1] = step[i][F[i]]
           Good == {k \in Nat : \E F \in [0 .. k -> V] : Upto(k, F)}
<1>1. 0 \in Good
  <2> DEFINE G == [i \in 0 .. 0 |-> b]
  <2>1. G \in [0 .. 0 -> V]
    BY <1>0
  <2>2. Upto(0, G)
    OBVIOUS
  <2> QED BY <2>1, <2>2
<1>2. ASSUME NEW k \in 0 .. n, k < n, k \in Good PROVE k + 1 \in Good
  <2>1. PICK F \in [0 .. k -> V] : Upto(k, F)
    BY <1>2
  <2> DEFINE v == step[k][F[k]]
             G == [i \in 0 .. k + 1 |-> IF i = k + 1 THEN v ELSE F[i]]
  <2>2. v \in V
    BY <1>0
  <2> HIDE DEF v
  <2>3. G \in [0 .. k + 1 -> V]
    BY <1>0, <2>2
  <2>4. G[0] = b
    BY <2>1
  <2>5. ASSUME NEW i \in 0 .. k + 1, i < k + 1 PROVE G[i + 1] = step[i][G[i]]
    <3>1. CASE i = k
      <4>1. G[i + 1] = v /\ G[i] = F[k]
        BY <1>0, <3>1
      <4> QED BY <4>1, <3>1 DEF v
    <3>2. CASE i < k
      <4>1. G[i + 1] = F[i + 1] /\ G[i] = F[i] /\ i \in 0 .. k
        BY <1>0, <3>2
      <4> QED BY <4>1, <3>2, <2>1
    <3> QED BY <1>0, <2>5, <3>1, <3>2
  <2>6. Upto(k + 1, G)
    BY <2>4, <2>5
  <2> HIDE DEF Upto, G
  <2> QED BY <1>0, <2>3, <2>6
<1>3. \A k \in 0 .. n : k \in Good
  <2> HIDE DEF Good
  <2> QED BY <1>0, <1>1, <1>2, UpTo
<1>4. n \in Good
  BY <1>0, <1>3
<1> QED BY <1>4 DEF Solves

-----------------------------------------------------------------------------
(* Images.                                                                 *)

(* The values of m are in V.                                               *)
Maps(m, V) == \A e \in DOMAIN m : m[e] \in V

(* F maps the lengths up to n to the images of the prefixes of s.          *)
Prefixes(s, m, n, F) ==
  /\ F[0] = << >>
  /\ \A i \in 0 .. n : i < n => F[i + 1] = Longer(F[i], s[i + 1], m)

(* Such a function exists for every sequence.                              *)
LEMMA PrefixesExist ==
  ASSUME NEW E, NEW V, NEW s \in Seq(E), NEW m, Maps(m, V)
  PROVE  \E F \in [0 .. Len(s) -> Seq(V)] : Prefixes(s, m, Len(s), F)
<1> DEFINE step == [i \in Nat |-> [v \in Seq(V) |-> Longer(v, s[i + 1], m)]]
<1>0. Len(s) \in Nat /\ << >> \in Seq(V)
  OBVIOUS
<1>1. step \in [Nat -> [Seq(V) -> Seq(V)]]
  BY DEF Longer, Maps
<1>2. \A i \in Nat : \A v \in Seq(V) : step[i][v] = Longer(v, s[i + 1], m)
  OBVIOUS
<1> HIDE DEF step
<1>a. PICK F : Solves(F, Len(s), Seq(V), << >>, step)
  BY <1>0, <1>1, RecursionSolved DEF Recursion
<1>3. /\ F \in [0 .. Len(s) -> Seq(V)] /\ F[0] = << >>
      /\ \A i \in 0 .. Len(s) : i < Len(s) => F[i + 1] = step[i][F[i]]
  BY <1>a DEF Solves
<1>4. ASSUME NEW i \in 0 .. Len(s), i < Len(s) PROVE F[i + 1] = Longer(F[i], s[i + 1], m)
  <2>1. i \in Nat /\ F[i] \in Seq(V)
    BY <1>0, <1>3
  <2> QED BY <1>2, <1>3, <1>4, <2>1
<1> QED BY <1>3, <1>4 DEF Prefixes

(* The recursion in Images is well defined.                                *)
LEMMA ImagesPrefixes ==
  ASSUME NEW E, NEW V, NEW s \in Seq(E), NEW m, Maps(m, V)
  PROVE  \E F \in [0 .. Len(s) -> Seq(V)] :
            Prefixes(s, m, Len(s), F) /\ Images(s, m) = F[Len(s)]
<1> DEFINE Rec(F) == F = [i \in 0 .. Len(s) |->
                            IF i = 0 THEN << >> ELSE Longer(F[i - 1], s[i], m)]
           H == CHOOSE F : Rec(F)
<1>0. Len(s) \in Nat
  OBVIOUS
<1>1. PICK F \in [0 .. Len(s) -> Seq(V)] : Prefixes(s, m, Len(s), F)
  BY PrefixesExist
<1>2. Rec(F)
  <2>1. ASSUME NEW i \in 0 .. Len(s)
        PROVE  F[i] = IF i = 0 THEN << >> ELSE Longer(F[i - 1], s[i], m)
    <3>1. CASE i # 0
      <4>1. i - 1 \in 0 .. Len(s) /\ i - 1 < Len(s) /\ (i - 1) + 1 = i
        BY <3>1, <1>0
      <4>2. F[(i - 1) + 1] = Longer(F[i - 1], s[(i - 1) + 1], m)
        BY <4>1, <1>1 DEF Prefixes
      <4> QED BY <3>1, <4>1, <4>2
    <3> QED BY <3>1, <1>1 DEF Prefixes
  <2> QED BY <2>1
<1>3. Rec(H)
  BY <1>2
<1>4. Images(s, m) = H[Len(s)]
  BY DEF Images
<1> HIDE DEF H
<1>5. \A i \in 0 .. Len(s) : H[i] = IF i = 0 THEN << >> ELSE Longer(H[i - 1], s[i], m)
  BY <1>3
<1>6. \A i \in 0 .. Len(s) : H[i] = F[i]
  <2> DEFINE Same == {i \in Nat : H[i] = F[i]}
  <2>1. 0 \in Same
    BY <1>0, <1>1, <1>5 DEF Prefixes
  <2>2. ASSUME NEW i \in 0 .. Len(s), i < Len(s), i \in Same PROVE i + 1 \in Same
    <3>1. i + 1 \in 0 .. Len(s) /\ i + 1 # 0 /\ (i + 1) - 1 = i /\ i + 1 \in Nat
      BY <1>0, <2>2
    <3>2. H[i + 1] = Longer(H[i], s[i + 1], m)
      BY <3>1, <1>5
    <3>3. F[i + 1] = Longer(F[i], s[i + 1], m)
      BY <1>1, <2>2 DEF Prefixes
    <3> QED BY <2>2, <3>1, <3>2, <3>3
  <2>3. \A i \in 0 .. Len(s) : i \in Same
    <3> HIDE DEF Same
    <3> QED BY <1>0, <2>1, <2>2, UpTo
  <2> QED BY <2>3
<1>7. Len(s) \in 0 .. Len(s)
  BY <1>0
<1>8. Images(s, m) = F[Len(s)]
  BY <1>4, <1>6, <1>7
<1> QED BY <1>1, <1>8

(* The images of a sequence are a sequence of values.                      *)
LEMMA ImagesType ==
  ASSUME NEW E, NEW V, NEW s \in Seq(E), NEW m, Maps(m, V)
  PROVE  Images(s, m) \in Seq(V)
<1>1. PICK F \in [0 .. Len(s) -> Seq(V)] :
         Prefixes(s, m, Len(s), F) /\ Images(s, m) = F[Len(s)]
  BY ImagesPrefixes
<1>2. Len(s) \in 0 .. Len(s)
  OBVIOUS
<1> QED BY <1>1, <1>2

Joins(s, t, m) == Images(s \o t, m) = Images(s, m) \o Images(t, m)

(* The images of two parts follow each other.                              *)
LEMMA ImagesConcat ==
  ASSUME NEW E, NEW V, NEW s \in Seq(E), NEW t \in Seq(E),
         NEW m, Maps(m, V)
  PROVE  Joins(s, t, m)
<1>c. ASSUME NEW x \in Seq(V), NEW y \in Seq(V), NEW v \in V
      PROVE  Append(x \o y, v) = x \o Append(y, v)
  <2>1. <<v>> \in Seq(V) /\ x \o y \in Seq(V)
    OBVIOUS
  <2>2. Append(x \o y, v) = (x \o y) \o <<v>> /\ Append(y, v) = y \o <<v>>
    BY <2>1, AppendIsConcat
  <2>3. (x \o y) \o <<v>> = x \o (y \o <<v>>)
    BY <2>1, ConcatAssociative, SMTT(30)
  <2> QED BY <2>2, <2>3
<1>l. Len(s) \in Nat /\ Len(t) \in Nat /\ s \o t \in Seq(E)
  OBVIOUS
<1>0. PICK a \in Nat, b \in Nat, u \in Seq(E) : a = Len(s) /\ b = Len(t) /\ u = s \o t
  BY ONLY <1>l, Zenon
<1>1. PICK F \in [0 .. a -> Seq(V)] : Prefixes(s, m, a, F) /\ Images(s, m) = F[a]
  BY <1>0, ImagesPrefixes
<1>2. PICK G \in [0 .. b -> Seq(V)] : Prefixes(t, m, b, G) /\ Images(t, m) = G[b]
  BY <1>0, ImagesPrefixes
<1>a. /\ Len(u) = a + b
      /\ \A i \in 1 .. a : u[i] = s[i]
      /\ \A i \in 1 .. b : u[a + i] = t[i]
  BY <1>0
<1>b. PICK H \in [0 .. Len(u) -> Seq(V)] :
         Prefixes(u, m, Len(u), H) /\ Images(u, m) = H[Len(u)]
  BY ImagesPrefixes
<1>3. H \in [0 .. a + b -> Seq(V)] /\ Prefixes(u, m, a + b, H) /\ Images(u, m) = H[a + b]
  BY <1>a, <1>b
<1>4. \A i \in 0 .. a : H[i] = F[i]
  <2> DEFINE Same == {i \in Nat : H[i] = F[i]}
  <2>1. 0 \in Same
    BY <1>1, <1>3 DEF Prefixes
  <2>2. ASSUME NEW i \in 0 .. a, i < a, i \in Same PROVE i + 1 \in Same
    <3>1. i \in 0 .. a + b /\ i < a + b /\ i + 1 \in 1 .. a /\ i + 1 \in Nat
      BY <2>2
    <3>2. H[i + 1] = Longer(H[i], u[i + 1], m) /\ F[i + 1] = Longer(F[i], s[i + 1], m)
      BY <2>2, <3>1, <1>1, <1>3 DEF Prefixes
    <3> QED BY <2>2, <3>1, <3>2, <1>a
  <2>3. \A i \in 0 .. a : i \in Same
    <3> HIDE DEF Same
    <3> QED BY <2>1, <2>2, UpTo
  <2> QED BY <2>3
<1>5. \A i \in 0 .. b : H[a + i] = F[a] \o G[i]
  <2> DEFINE Same == {i \in Nat : H[a + i] = F[a] \o G[i]}
  <2>f. F[a] \in Seq(V)
    OBVIOUS
  <2>1. 0 \in Same
    <3>1. H[a + 0] = F[a]
      BY <1>4
    <3>2. F[a] \o << >> = F[a]
      BY <2>f
    <3> QED BY <3>1, <3>2, <1>2 DEF Prefixes
  <2>2. ASSUME NEW i \in 0 .. b, i < b, i \in Same PROVE i + 1 \in Same
    <3>1. /\ a + i \in 0 .. a + b /\ a + i < a + b /\ i + 1 \in 1 .. b /\ i + 1 \in Nat
          /\ (a + i) + 1 = a + (i + 1)
      BY <2>2
    <3>2. H[a + (i + 1)] = Longer(H[a + i], u[a + (i + 1)], m)
      BY <3>1, <1>3 DEF Prefixes
    <3>3. u[a + (i + 1)] = t[i + 1]
      BY <3>1, <1>a
    <3>4. G[i + 1] = Longer(G[i], t[i + 1], m) /\ G[i] \in Seq(V)
      BY <2>2, <1>2 DEF Prefixes
    <3>5. Longer(F[a] \o G[i], t[i + 1], m) = F[a] \o Longer(G[i], t[i + 1], m)
      <4>1. CASE t[i + 1] \in DOMAIN m
        <5>1. m[t[i + 1]] \in V
          BY <4>1 DEF Maps
        <5>2. Append(F[a] \o G[i], m[t[i + 1]]) = F[a] \o Append(G[i], m[t[i + 1]])
          BY <5>1, <2>f, <3>4, <1>c
        <5> QED BY <4>1, <5>2 DEF Longer
      <4> QED BY <4>1 DEF Longer
    <3>6. H[a + i] = F[a] \o G[i]
      BY <2>2
    <3> QED BY <3>1, <3>2, <3>3, <3>4, <3>5, <3>6
  <2>3. \A i \in 0 .. b : i \in Same
    <3> HIDE DEF Same
    <3> QED BY <2>1, <2>2, UpTo
  <2> QED BY <2>3
<1>6. H[a + b] = F[a] \o G[b]
  BY <1>5
<1> QED BY <1>0, <1>1, <1>2, <1>3, <1>6 DEF Joins

(* Elements outside of the domain leave nothing.                           *)
LEMMA ImagesNone ==
  ASSUME NEW E, NEW V, NEW s \in Seq(E), NEW m, Maps(m, V),
         \A i \in 1 .. Len(s) : s[i] \notin DOMAIN m
  PROVE  Images(s, m) = << >>
<1>0. PICK a \in Nat : a = Len(s)
  OBVIOUS
<1>1. PICK F \in [0 .. a -> Seq(V)] : Prefixes(s, m, a, F) /\ Images(s, m) = F[a]
  BY <1>0, ImagesPrefixes
<1> DEFINE None == {i \in Nat : F[i] = << >>}
<1>2. 0 \in None
  BY <1>1 DEF Prefixes
<1>3. ASSUME NEW i \in 0 .. a, i < a, i \in None PROVE i + 1 \in None
  <2>1. i + 1 \in 1 .. Len(s) /\ i + 1 \in Nat
    BY <1>0, <1>3
  <2>2. F[i + 1] = Longer(F[i], s[i + 1], m)
    BY <1>1, <1>3 DEF Prefixes
  <2>3. F[i + 1] = F[i]
    BY <2>1, <2>2 DEF Longer
  <2> QED BY <1>3, <2>1, <2>3
<1>4. \A i \in 0 .. a : i \in None
  <2> HIDE DEF None
  <2> QED BY <1>2, <1>3, UpTo
<1>5. F[a] = << >>
  BY <1>4
<1> QED BY <1>1, <1>5

(* One element of the domain stands for its value.                         *)
LEMMA ImagesOne ==
  ASSUME NEW E, NEW V, NEW e \in E, NEW m, Maps(m, V), e \in DOMAIN m
  PROVE  Images(<<e>>, m) = <<m[e]>>
<1>a. <<e>> \in Seq(E) /\ Len(<<e>>) = 1 /\ <<e>>[1] = e
  OBVIOUS
<1>0. PICK s \in Seq(E) : s = <<e>> /\ Len(s) = 1 /\ s[1] = e
  BY ONLY <1>a, Zenon
<1>1. PICK F \in [0 .. Len(s) -> Seq(V)] :
         Prefixes(s, m, Len(s), F) /\ Images(s, m) = F[Len(s)]
  BY ImagesPrefixes
<1>2. F[0 + 1] = Longer(F[0], s[0 + 1], m) /\ F[0] = << >>
  BY <1>0, <1>1 DEF Prefixes
<1>3. F[1] = Append(<< >>, m[e])
  BY <1>0, <1>2 DEF Longer
<1> QED BY <1>0, <1>1, <1>3

(* The first n elements and the others.                                    *)
Parts(s, n, x, y) ==
  /\ x = SubSeq(s, 1, n) /\ y = SubSeq(s, n + 1, Len(s)) /\ s = x \o y
  /\ Len(x) = n /\ Len(y) = Len(s) - n
  /\ \A i \in 1 .. n : x[i] = s[i]
  /\ \A i \in 1 .. Len(s) - n : y[i] = s[n + i]

(* A sequence is one part after the other.                                 *)
LEMMA Split ==
  ASSUME NEW E, NEW s \in Seq(E), NEW n \in 0 .. Len(s)
  PROVE  \E x \in Seq(E), y \in Seq(E) : Parts(s, n, x, y)
<1>1. /\ SubSeq(s, 1, n) \in Seq(E) /\ Len(SubSeq(s, 1, n)) = n
      /\ \A i \in 1 .. n : SubSeq(s, 1, n)[i] = s[i]
  OBVIOUS
<1>2. /\ SubSeq(s, n + 1, Len(s)) \in Seq(E) /\ Len(SubSeq(s, n + 1, Len(s))) = Len(s) - n
      /\ \A i \in 1 .. Len(s) - n : SubSeq(s, n + 1, Len(s))[i] = s[n + i]
  OBVIOUS
<1>3. PICK x \in Seq(E), y \in Seq(E) : x = SubSeq(s, 1, n) /\ y = SubSeq(s, n + 1, Len(s))
  BY ONLY <1>1, <1>2, Zenon
<1>4. /\ Len(x) = n /\ Len(y) = Len(s) - n /\ Len(s) \in Nat
      /\ \A i \in 1 .. n : x[i] = s[i]
      /\ \A i \in 1 .. Len(s) - n : y[i] = s[n + i]
  BY <1>1, <1>2, <1>3
<1>5. x \o y \in Seq(E)
  OBVIOUS
<1>6. PICK z \in Seq(E) : z = x \o y
  BY ONLY <1>5, Zenon
<1>7. /\ Len(z) = Len(s) /\ \A i \in 1 .. n : z[i] = x[i]
      /\ \A i \in 1 .. Len(s) - n : z[n + i] = y[i]
  BY <1>4, <1>6
<1>8. ASSUME NEW i \in 1 .. Len(s) PROVE z[i] = s[i]
  <2>1. CASE i <= n
    BY <1>4, <1>7, <2>1
  <2>2. CASE i > n
    <3>1. i - n \in 1 .. Len(s) - n /\ n + (i - n) = i
      BY <1>4, <2>2
    <3>2. PICK j \in 1 .. Len(s) - n : i = n + j
      BY <3>1
    <3>3. z[n + j] = s[n + j]
      BY <1>4, <1>7
    <3> QED BY <3>2, <3>3
  <2> QED BY <1>4, <2>1, <2>2
<1>9. z = s
  BY <1>7, <1>8, SeqEqual
<1>10. Parts(s, n, x, y)
  BY <1>3, <1>4, <1>6, <1>9 DEF Parts
<1> QED BY <1>10

(* The parts of a concatenation.                                           *)
LEMMA PrefixOfConcat ==
  ASSUME NEW E, NEW p \in Seq(E), NEW q \in Seq(E)
  PROVE  Len(p) \in 0 .. Len(p \o q) /\ p = SubSeq(p \o q, 1, Len(p))
<1>0. p \o q \in Seq(E) /\ Len(p) \in Nat /\ Len(q) \in Nat
  OBVIOUS
<1>1. PICK s \in Seq(E) : s = p \o q
  BY ONLY <1>0, Zenon
<1>2. Len(s) = Len(p) + Len(q) /\ \A i \in 1 .. Len(p) : s[i] = p[i]
  BY <1>1
<1>3. PICK n \in 0 .. Len(s) : n = Len(p)
  <2>1. Len(p) \in 0 .. Len(s)
    BY <1>0, <1>2
  <2> QED BY <2>1
<1>4. PICK x \in Seq(E), y \in Seq(E) : Parts(s, n, x, y)
  BY Split
<1>5. x = SubSeq(s, 1, n) /\ Len(x) = n /\ \A i \in 1 .. n : x[i] = s[i]
  BY <1>4 DEF Parts
<1>6. x = p
  BY <1>2, <1>3, <1>5, SeqEqual
<1>7. Len(p) \in 0 .. Len(s) /\ p = SubSeq(s, 1, Len(p))
  BY <1>3, <1>5, <1>6
<1> QED BY <1>1, <1>7

(* What follows the first part is the other.                               *)
LEMMA SuffixOfConcat ==
  ASSUME NEW E, NEW p \in Seq(E), NEW q \in Seq(E)
  PROVE  q = SubSeq(p \o q, Len(p) + 1, Len(p \o q))
<1>0. p \o q \in Seq(E) /\ Len(p) \in Nat /\ Len(q) \in Nat
  OBVIOUS
<1>1. PICK s \in Seq(E) : s = p \o q
  BY ONLY <1>0, Zenon
<1>2. Len(s) = Len(p) + Len(q) /\ \A i \in 1 .. Len(q) : s[Len(p) + i] = q[i]
  BY <1>1
<1>3. PICK n \in 0 .. Len(s) : n = Len(p)
  <2>1. Len(p) \in 0 .. Len(s)
    BY <1>0, <1>2
  <2> QED BY <2>1
<1>4. PICK x \in Seq(E), y \in Seq(E) : Parts(s, n, x, y)
  BY Split
<1>5. /\ y = SubSeq(s, n + 1, Len(s)) /\ Len(y) = Len(s) - n
      /\ \A i \in 1 .. Len(s) - n : y[i] = s[n + i]
  BY <1>4 DEF Parts
<1>6. Len(s) - n = Len(q)
  BY <1>0, <1>2, <1>3
<1>7. \A i \in 1 .. Len(q) : y[i] = q[i]
  BY <1>2, <1>3, <1>5, <1>6
<1>8. y = q
  BY <1>5, <1>6, <1>7, SeqEqual
<1> QED BY <1>1, <1>3, <1>5, <1>8

-----------------------------------------------------------------------------
(* Total.                                                                  *)

(* The recursion in Total is well defined: F sums up the prefixes of s.    *)
LEMMA TotalPrefixes ==
  ASSUME NEW E, NEW s \in Seq(E), NEW w \in [E -> Int]
  PROVE  \E F \in [0 .. Len(s) -> Int] :
            /\ F[0] = 0 /\ \A i \in 0 .. Len(s) : i < Len(s) => F[i + 1] = F[i] + w[s[i + 1]]
            /\ Total(s, w) = F[Len(s)]
<1> DEFINE step == [i \in Nat |-> [v \in Int |-> IF i < Len(s) THEN v + w[s[i + 1]] ELSE 0]]
           Rec(F) == F = [i \in 0 .. Len(s) |-> IF i = 0 THEN 0 ELSE F[i - 1] + w[s[i]]]
           H == CHOOSE F : Rec(F)
<1>0. Len(s) \in Nat /\ 0 \in Int
  OBVIOUS
<1>1. step \in [Nat -> [Int -> Int]]
  <2>1. \A i \in Nat : i < Len(s) => i + 1 \in 1 .. Len(s)
    BY <1>0
  <2>2. \A i \in Nat : i < Len(s) => w[s[i + 1]] \in Int
    BY <2>1, ElementOfSeq
  <2> QED BY <2>2
<1>2. \A i \in Nat : \A v \in Int : i < Len(s) => step[i][v] = v + w[s[i + 1]]
  OBVIOUS
<1> HIDE DEF step
<1>a. PICK F : Solves(F, Len(s), Int, 0, step)
  BY <1>0, <1>1, RecursionSolved DEF Recursion
<1>3. /\ F \in [0 .. Len(s) -> Int] /\ F[0] = 0
      /\ \A i \in 0 .. Len(s) : i < Len(s) => F[i + 1] = step[i][F[i]]
  BY <1>a DEF Solves
<1>4. ASSUME NEW i \in 0 .. Len(s), i < Len(s) PROVE F[i + 1] = F[i] + w[s[i + 1]]
  <2>1. i \in Nat /\ F[i] \in Int
    BY <1>0, <1>3
  <2> QED BY <1>2, <1>3, <1>4, <2>1
<1>5. Rec(F)
  <2>1. ASSUME NEW i \in 0 .. Len(s) PROVE F[i] = IF i = 0 THEN 0 ELSE F[i - 1] + w[s[i]]
    <3>1. CASE i # 0
      <4>1. i - 1 \in 0 .. Len(s) /\ i - 1 < Len(s) /\ (i - 1) + 1 = i
        BY <3>1, <1>0
      <4>2. F[(i - 1) + 1] = F[i - 1] + w[s[(i - 1) + 1]]
        BY <4>1, <1>4
      <4> QED BY <3>1, <4>1, <4>2
    <3> QED BY <3>1, <1>3
  <2> QED BY <1>3, <2>1
<1>6. Rec(H)
  BY <1>5
<1>7. Total(s, w) = H[Len(s)]
  BY DEF Total
<1> HIDE DEF H
<1>8. \A i \in 0 .. Len(s) : H[i] = IF i = 0 THEN 0 ELSE H[i - 1] + w[s[i]]
  BY <1>6
<1>9. \A i \in 0 .. Len(s) : H[i] = F[i]
  <2> DEFINE Same == {i \in Nat : H[i] = F[i]}
  <2>1. 0 \in Same
    BY <1>0, <1>3, <1>8
  <2>2. ASSUME NEW i \in 0 .. Len(s), i < Len(s), i \in Same PROVE i + 1 \in Same
    <3>1. i + 1 \in 0 .. Len(s) /\ i + 1 # 0 /\ (i + 1) - 1 = i /\ i + 1 \in Nat
      BY <1>0, <2>2
    <3>2. H[i + 1] = H[i] + w[s[i + 1]]
      BY <3>1, <1>8
    <3>3. F[i + 1] = F[i] + w[s[i + 1]]
      BY <1>4, <2>2
    <3> QED BY <2>2, <3>1, <3>2, <3>3
  <2>3. \A i \in 0 .. Len(s) : i \in Same
    <3> HIDE DEF Same
    <3> QED BY <1>0, <2>1, <2>2, UpTo
  <2> QED BY <2>3
<1>10. Len(s) \in 0 .. Len(s)
  BY <1>0
<1>11. Total(s, w) = F[Len(s)]
  BY <1>7, <1>9, <1>10
<1> QED BY <1>3, <1>4, <1>11

(* The empty sequence weighs nothing.                                      *)
LEMMA TotalEmpty ==
  ASSUME NEW E, NEW w \in [E -> Int]
  PROVE  Total(<< >>, w) = 0
<1>1. << >> \in Seq(E) /\ Len(<< >>) = 0
  OBVIOUS
<1>2. PICK s \in Seq(E) : s = << >> /\ Len(s) = 0
  BY ONLY <1>1, Zenon
<1>3. PICK F \in [0 .. Len(s) -> Int] :
         /\ F[0] = 0 /\ \A i \in 0 .. Len(s) : i < Len(s) => F[i + 1] = F[i] + w[s[i + 1]]
         /\ Total(s, w) = F[Len(s)]
  BY TotalPrefixes
<1> QED BY <1>2, <1>3

(* One element weighs its weight.                                          *)
LEMMA TotalOne ==
  ASSUME NEW E, NEW e \in E, NEW w \in [E -> Int]
  PROVE  Total(<<e>>, w) = w[e]
<1>a. <<e>> \in Seq(E) /\ Len(<<e>>) = 1 /\ <<e>>[1] = e
  OBVIOUS
<1>0. PICK s \in Seq(E) : s = <<e>> /\ Len(s) = 1 /\ s[1] = e
  BY ONLY <1>a, Zenon
<1>1. PICK F \in [0 .. Len(s) -> Int] :
         /\ F[0] = 0 /\ \A i \in 0 .. Len(s) : i < Len(s) => F[i + 1] = F[i] + w[s[i + 1]]
         /\ Total(s, w) = F[Len(s)]
  BY TotalPrefixes
<1>2. F[0 + 1] = F[0] + w[s[0 + 1]]
  BY <1>0, <1>1
<1>3. F[1] = w[e] /\ w[e] \in Int
  BY <1>0, <1>1, <1>2
<1> QED BY <1>0, <1>1, <1>3

(* Totals of parts add up.                                                 *)
LEMMA TotalConcat ==
  ASSUME NEW E, NEW s \in Seq(E), NEW t \in Seq(E), NEW w \in [E -> Int]
  PROVE  /\ Total(s, w) \in Int /\ Total(t, w) \in Int
         /\ Total(s \o t, w) = Total(s, w) + Total(t, w)
<1>l. Len(s) \in Nat /\ Len(t) \in Nat /\ s \o t \in Seq(E)
  OBVIOUS
<1>0. PICK a \in Nat, b \in Nat, u \in Seq(E) : a = Len(s) /\ b = Len(t) /\ u = s \o t
  BY ONLY <1>l, Zenon
<1>a. /\ Len(u) = a + b
      /\ \A i \in 1 .. a : u[i] = s[i]
      /\ \A i \in 1 .. b : u[a + i] = t[i]
  BY <1>0
<1>1. PICK F \in [0 .. Len(s) -> Int] :
         /\ F[0] = 0 /\ \A i \in 0 .. Len(s) : i < Len(s) => F[i + 1] = F[i] + w[s[i + 1]]
         /\ Total(s, w) = F[Len(s)]
  BY TotalPrefixes
<1>2. PICK G \in [0 .. Len(t) -> Int] :
         /\ G[0] = 0 /\ \A i \in 0 .. Len(t) : i < Len(t) => G[i + 1] = G[i] + w[t[i + 1]]
         /\ Total(t, w) = G[Len(t)]
  BY TotalPrefixes
<1>3. PICK H \in [0 .. Len(u) -> Int] :
         /\ H[0] = 0 /\ \A i \in 0 .. Len(u) : i < Len(u) => H[i + 1] = H[i] + w[u[i + 1]]
         /\ Total(u, w) = H[Len(u)]
  BY TotalPrefixes
<1>4. \A i \in 0 .. a : H[i] = F[i]
  <2> DEFINE Same == {i \in Nat : H[i] = F[i]}
  <2>1. 0 \in Same
    BY <1>1, <1>3
  <2>2. ASSUME NEW i \in 0 .. a, i < a, i \in Same PROVE i + 1 \in Same
    <3>1. /\ i \in 0 .. Len(u) /\ i < Len(u) /\ i \in 0 .. Len(s) /\ i < Len(s)
          /\ i + 1 \in 1 .. a /\ i + 1 \in Nat
      BY <2>2, <1>0, <1>a
    <3>2. H[i + 1] = H[i] + w[u[i + 1]] /\ F[i + 1] = F[i] + w[s[i + 1]]
      BY <3>1, <1>1, <1>3
    <3> QED BY <2>2, <3>1, <3>2, <1>a
  <2>3. \A i \in 0 .. a : i \in Same
    <3> HIDE DEF Same
    <3> QED BY <2>1, <2>2, UpTo
  <2> QED BY <2>3
<1>f. F[a] \in Int /\ G[b] \in Int
  <2>1. a \in 0 .. Len(s) /\ b \in 0 .. Len(t)
    BY <1>0
  <2> QED BY <2>1
<1>5. \A i \in 0 .. b : H[a + i] = F[a] + G[i]
  <2> DEFINE Same == {i \in Nat : H[a + i] = F[a] + G[i]}
  <2>f. F[a] \in Int
    BY <1>f
  <2>1. 0 \in Same
    <3>1. H[a + 0] = F[a]
      BY <1>4
    <3> QED BY <2>f, <3>1, <1>2
  <2>2. ASSUME NEW i \in 0 .. b, i < b, i \in Same PROVE i + 1 \in Same
    <3>1. /\ a + i \in 0 .. Len(u) /\ a + i < Len(u) /\ i + 1 \in 1 .. b /\ i + 1 \in Nat
          /\ i \in 0 .. Len(t) /\ i < Len(t)
          /\ (a + i) + 1 = a + (i + 1)
      BY <2>2, <1>0, <1>a
    <3>2. H[a + (i + 1)] = H[a + i] + w[u[a + (i + 1)]]
      BY <3>1, <1>3
    <3>3. u[a + (i + 1)] = t[i + 1] /\ w[t[i + 1]] \in Int
      <4>1. t[i + 1] \in E
        BY <3>1, <1>0, ElementOfSeq
      <4> QED BY <3>1, <1>a, <4>1
    <3>4. G[i + 1] = G[i] + w[t[i + 1]] /\ G[i] \in Int
      BY <3>1, <1>2
    <3>5. H[a + i] = F[a] + G[i]
      BY <2>2
    <3>6. \A f, g, v \in Int : (f + g) + v = f + (g + v)
      OBVIOUS
    <3>7. H[a + (i + 1)] = F[a] + G[i + 1]
      BY <2>f, <3>2, <3>3, <3>4, <3>5, <3>6
    <3> QED BY <3>1, <3>7
  <2>3. \A i \in 0 .. b : i \in Same
    <3> HIDE DEF Same
    <3> QED BY <2>1, <2>2, UpTo
  <2> QED BY <2>3
<1>6. H[a + b] = F[a] + G[b] /\ F[a] \in Int /\ G[b] \in Int
  BY <1>f, <1>5
<1> QED BY <1>0, <1>a, <1>1, <1>2, <1>3, <1>6
=============================================================================
