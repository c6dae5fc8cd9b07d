-------------------------- MODULE RingBufferProofs --------------------------
(***************************************************************************)
(* The ring of Ring_Buffer.c is a bounded double-ended queue, for every    *)
(* length and every set of elements.  The lemmas say what each change of   *)
(* the array and its two indexes does to the sequence of active elements.  *)
(***************************************************************************)
EXTENDS RingBuffer, SequenceTheorems, TLAPS

(* What a slot of the array may hold: rb_pop and the zeroed array bring 0. *)
Elements == Values \cup {0}

(* Masking keeps an index that is off by at most one length in the array.  *)
LEMMA MaskedInSlots ==
  ASSUME NEW i \in -Length .. 2 * Length - 1
  PROVE  Masked(i) \in Slots
BY RingAssumption DEF Masked, Slots

(* The active elements form a sequence, as long as rb_length says.         *)
IsContents(b, s, e) ==
  /\ Masked(e - s) \in 0 .. Length - 1
  /\ ContentsOf(b, s, e) \in Seq(Elements)
  /\ Len(ContentsOf(b, s, e)) = Masked(e - s)
  /\ \A i \in 1 .. Masked(e - s) : ContentsOf(b, s, e)[i] = b[Masked(s + i - 1)]

(* Whatever the indexes are, ContentsOf is what IsContents says.           *)
LEMMA ContentsSequence ==
  ASSUME NEW b \in [Slots -> Elements], NEW s \in Slots, NEW e \in Slots
  PROVE  IsContents(b, s, e)
<1> DEFINE n == Masked(e - s)
           C == ContentsOf(b, s, e)
<1>1. n \in 0 .. Length - 1
  BY RingAssumption DEF Masked, Slots
<1>2. \A i \in 1 .. n : Masked(s + i - 1) \in Slots
  BY <1>1, RingAssumption DEF Masked, Slots
<1>3. C = [i \in 1 .. n |-> b[Masked(s + i - 1)]]
  BY DEF ContentsOf
<1> HIDE DEF n, C
<1>4. \A i \in 1 .. n : b[Masked(s + i - 1)] \in Elements
  BY <1>2
<1>5. C \in [1 .. n -> Elements]
  BY <1>3, <1>4
<1>6. C \in Seq(Elements)
  BY <1>5, <1>1, RingAssumption, SeqDef
<1>7. Len(C) = n
  <2>1. n \in Nat /\ Len(C) \in Nat
    BY <1>1, <1>6, RingAssumption, LenProperties
  <2>2. 1 .. Len(C) = 1 .. n
    BY <1>5, <1>6, LenProperties
  <2> QED BY <2>1, <2>2
<1>8. \A i \in 1 .. n : C[i] = b[Masked(s + i - 1)]
  BY <1>3
<1> QED BY <1>1, <1>6, <1>7, <1>8 DEF n, C, IsContents

(* What a prefix of a sequence is.                                         *)
LEMMA PrefixProperties ==
  ASSUME NEW V, NEW C \in Seq(V), NEW n \in 0 .. Len(C)
  PROVE  /\ SubSeq(C, 1, n) \in Seq(V)
         /\ Len(SubSeq(C, 1, n)) = n
         /\ \A i \in 1 .. n : SubSeq(C, 1, n)[i] = C[i]
<1>1. n \in Int /\ \A i \in 1 .. n : C[i] \in V
  BY LenProperties, ElementOfSeq
<1> QED BY <1>1, SubSeqProperties

(* rb_push_back: one element more at the end; the first goes when full.    *)
PushesBack(b, s, e, v) ==
  LET C == ContentsOf(b, s, e)
      e2 == Masked(e + 1)
      s2 == IF e2 = s THEN Masked(s + 1) ELSE s
  IN  ContentsOf([b EXCEPT ![e] = v], s2, e2) =
        Append(IF Len(C) = Length - 1 THEN Tail(C) ELSE C, v)

(* The index arithmetic of rb_push_back does that, wherever the ring is.   *)
LEMMA PushBackContents ==
  ASSUME NEW b \in [Slots -> Elements], NEW s \in Slots, NEW e \in Slots, NEW v \in Elements
  PROVE  PushesBack(b, s, e, v)
<1> DEFINE C == ContentsOf(b, s, e)
           e2 == Masked(e + 1)
           s2 == IF e2 = s THEN Masked(s + 1) ELSE s
           b2 == [b EXCEPT ![e] = v]
           D == ContentsOf(b2, s2, e2)
           K == IF Len(C) = Length - 1 THEN Tail(C) ELSE C
<1>1. e2 \in Slots /\ s2 \in Slots
  BY RingAssumption DEF Masked, Slots
<1>2. b2 \in [Slots -> Elements]
  OBVIOUS
<1>3. /\ Masked(e - s) \in 0 .. Length - 1 /\ C \in Seq(Elements) /\ Len(C) = Masked(e - s)
      /\ \A i \in 1 .. Masked(e - s) : C[i] = b[Masked(s + i - 1)]
  BY ContentsSequence DEF IsContents
<1>4. /\ Masked(e2 - s2) \in 0 .. Length - 1 /\ D \in Seq(Elements) /\ Len(D) = Masked(e2 - s2)
      /\ \A i \in 1 .. Masked(e2 - s2) : D[i] = b2[Masked(s2 + i - 1)]
  <2>1. IsContents(b2, s2, e2)
    <3> HIDE DEF b2, s2, e2
    <3> QED BY <1>1, <1>2, ContentsSequence
  <2> HIDE DEF b2, s2, e2
  <2> QED BY <2>1 DEF IsContents
<1> HIDE DEF C, D, b2
<1>5. CASE Masked(e - s) = Length - 1
  <2>1. C # << >>
    BY <1>3, <1>5, RingAssumption, EmptySeq
  <2>2. /\ K = Tail(C) /\ K \in Seq(Elements) /\ Len(K) = Length - 2
        /\ \A i \in 1 .. Length - 2 : K[i] = C[i + 1]
    <3>1. K = Tail(C)
      BY <1>3, <1>5
    <3>2. /\ Tail(C) \in Seq(Elements) /\ Len(Tail(C)) = Len(C) - 1
          /\ \A i \in 1 .. Len(Tail(C)) : Tail(C)[i] = C[i + 1]
      BY <1>3, <2>1, HeadTailProperties
    <3>3. Len(Tail(C)) = Length - 2
      BY <1>3, <1>5, <3>2, RingAssumption
    <3> HIDE DEF K
    <3> QED BY <3>1, <3>2, <3>3
  <2>3. e2 = s /\ s2 = Masked(s + 1)
    BY <1>5, RingAssumption DEF Masked, Slots
  <2>4. Masked(e2 - s2) = Length - 1
    BY <2>3, RingAssumption DEF Masked, Slots
  <2> HIDE DEF K
  <2>5. /\ Append(K, v) \in Seq(Elements) /\ Len(Append(K, v)) = Length - 1
        /\ \A i \in 1 .. Length - 2 : Append(K, v)[i] = C[i + 1]
        /\ Append(K, v)[Length - 1] = v
    BY <2>2, AppendProperties, RingAssumption
  <2>6. \A i \in 1 .. Length - 2 : D[i] = C[i + 1]
    <3> SUFFICES ASSUME NEW i \in 1 .. Length - 2 PROVE D[i] = C[i + 1]
      OBVIOUS
    <3>1. /\ Masked(s2 + i - 1) = Masked(s + (i + 1) - 1)
          /\ Masked(s + i) \in Slots /\ Masked(s + i) # e
      BY <1>5, <2>3, RingAssumption DEF Masked, Slots
    <3>2. D[i] = b2[Masked(s + i)]
      BY <1>4, <2>4, <3>1, RingAssumption
    <3>3. C[i + 1] = b[Masked(s + i)]
      BY <1>3, <1>5, RingAssumption
    <3> QED BY <3>1, <3>2, <3>3 DEF b2
  <2>7. D[Length - 1] = v
    <3>1. Masked(s2 + (Length - 1) - 1) = e
      BY <1>5, <2>3, RingAssumption DEF Masked, Slots
    <3> QED BY <3>1, <1>4, <2>4, RingAssumption DEF b2
  <2>8. \A i \in 1 .. Len(D) : D[i] = Append(K, v)[i]
    <3>1. Len(D) = Length - 1 /\ \A i \in 1 .. Len(D) : i \in 1 .. Length - 2 \/ i = Length - 1
      BY <1>4, <2>4, RingAssumption
    <3> HIDE DEF D
    <3> QED BY <2>5, <2>6, <2>7, <3>1
  <2>9. D = Append(K, v)
    BY <1>4, <2>4, <2>5, <2>8, SeqEqual
  <2> QED BY <2>9 DEF D, K, b2, C, PushesBack
<1>6. CASE Masked(e - s) # Length - 1
  <2>1. K = C
    BY <1>3, <1>6
  <2>2. s2 = s /\ Masked(e2 - s2) = Masked(e - s) + 1
    BY <1>6, RingAssumption DEF Masked, Slots
  <2> HIDE DEF K
  <2>3. /\ Append(C, v) \in Seq(Elements) /\ Len(Append(C, v)) = Masked(e - s) + 1
        /\ \A i \in 1 .. Masked(e - s) : Append(C, v)[i] = C[i]
        /\ Append(C, v)[Masked(e - s) + 1] = v
    BY <1>3, AppendProperties
  <2>4. \A i \in 1 .. Masked(e - s) : D[i] = C[i]
    <3> SUFFICES ASSUME NEW i \in 1 .. Masked(e - s) PROVE D[i] = C[i]
      OBVIOUS
    <3>1. Masked(s + i - 1) \in Slots /\ Masked(s + i - 1) # e
      BY <1>3, <1>6, RingAssumption DEF Masked, Slots
    <3>2. D[i] = b2[Masked(s + i - 1)]
      BY <1>3, <1>4, <2>2, RingAssumption
    <3>3. C[i] = b[Masked(s + i - 1)]
      BY <1>3
    <3> QED BY <3>1, <3>2, <3>3 DEF b2
  <2>5. D[Masked(e - s) + 1] = v
    <3>1. Masked(s + (Masked(e - s) + 1) - 1) = e
      BY RingAssumption DEF Masked, Slots
    <3> QED BY <3>1, <1>3, <1>4, <2>2, RingAssumption DEF b2
  <2>6. \A i \in 1 .. Len(D) : D[i] = Append(C, v)[i]
    BY <1>3, <1>4, <2>2, <2>3, <2>4, <2>5, RingAssumption
  <2>7. D = Append(C, v)
    BY <1>4, <2>2, <2>3, <2>6, SeqEqual
  <2> QED BY <2>7, <2>1 DEF D, K, b2, C, PushesBack
<1> QED BY <1>5, <1>6

(* rb_push_front: one element more at the front; the last goes when full.  *)
PushesFront(b, s, e, v) ==
  LET C == ContentsOf(b, s, e)
      s2 == Masked(s - 1)
      e2 == IF s2 = e THEN Masked(e - 1) ELSE e
  IN  ContentsOf([b EXCEPT ![s2] = v], s2, e2) =
        <<v>> \o (IF Len(C) = Length - 1 THEN SubSeq(C, 1, (Length - 1) - 1) ELSE C)

(* The index arithmetic of rb_push_front does that, wherever the ring is.  *)
LEMMA PushFrontContents ==
  ASSUME NEW b \in [Slots -> Elements], NEW s \in Slots, NEW e \in Slots, NEW v \in Elements
  PROVE  PushesFront(b, s, e, v)
<1> DEFINE C == ContentsOf(b, s, e)
           s2 == Masked(s - 1)
           e2 == IF s2 = e THEN Masked(e - 1) ELSE e
           b2 == [b EXCEPT ![s2] = v]
           D == ContentsOf(b2, s2, e2)
           K == IF Len(C) = Length - 1 THEN SubSeq(C, 1, (Length - 1) - 1) ELSE C
           m == IF Masked(e - s) = Length - 1 THEN Length - 2 ELSE Masked(e - s)
<1>1. e2 \in Slots /\ s2 \in Slots /\ s2 # e2
  BY RingAssumption DEF Masked, Slots
<1>2. b2 \in [Slots -> Elements]
  OBVIOUS
<1>3. /\ Masked(e - s) \in 0 .. Length - 1 /\ C \in Seq(Elements) /\ Len(C) = Masked(e - s)
      /\ \A i \in 1 .. Masked(e - s) : C[i] = b[Masked(s + i - 1)]
  BY ContentsSequence DEF IsContents
<1>4. /\ D \in Seq(Elements) /\ Len(D) = Masked(e2 - s2)
      /\ \A i \in 1 .. Masked(e2 - s2) : D[i] = b2[Masked(s2 + i - 1)]
  <2>1. IsContents(b2, s2, e2)
    <3> HIDE DEF b2, s2, e2
    <3> QED BY <1>1, <1>2, ContentsSequence
  <2> HIDE DEF b2, s2, e2
  <2> QED BY <2>1 DEF IsContents
<1> HIDE DEF C, D, b2
<1>5. m \in 0 .. Length - 2 /\ m <= Len(C) /\ Masked(e2 - s2) = m + 1
  BY <1>3, RingAssumption DEF Masked, Slots
<1>6. K \in Seq(Elements) /\ Len(K) = m /\ \A i \in 1 .. m : K[i] = C[i]
  <2>1. CASE Masked(e - s) = Length - 1
    <3>3. /\ SubSeq(C, 1, Length - 2) \in Seq(Elements)
          /\ Len(SubSeq(C, 1, Length - 2)) = Length - 2
          /\ \A i \in 1 .. Length - 2 : SubSeq(C, 1, Length - 2)[i] = C[i]
      <4>1. Length - 2 \in 0 .. Len(C)
        BY <1>3, <2>1, RingAssumption
      <4> QED BY <1>3, <4>1, PrefixProperties
    <3>4. K = SubSeq(C, 1, Length - 2) /\ m = Length - 2
      BY <1>3, <2>1, RingAssumption
    <3> HIDE DEF K, m
    <3> QED BY <3>3, <3>4, RingAssumption
  <2>2. CASE Masked(e - s) # Length - 1
    BY <1>3, <2>2
  <2> QED BY <2>1, <2>2
<1>7. \A i \in 1 .. m : Masked(s2 + (i + 1) - 1) = Masked(s + i - 1)
                       /\ Masked(s + i - 1) \in Slots /\ Masked(s + i - 1) # s2
  BY <1>3, RingAssumption DEF Masked, Slots
<1>8. Masked(s2 + 1 - 1) = s2
  BY <1>1, RingAssumption DEF Masked, Slots
<1> HIDE DEF K, m, s2, e2
<1>9. \A i \in 1 .. m : D[i + 1] = C[i]
  <2> SUFFICES ASSUME NEW i \in 1 .. m PROVE D[i + 1] = C[i]
    OBVIOUS
  <2>1. D[i + 1] = b2[Masked(s + i - 1)]
    BY <1>4, <1>5, <1>7, RingAssumption
  <2>2. C[i] = b[Masked(s + i - 1)]
    BY <1>3, <1>5, RingAssumption
  <2> QED BY <2>1, <2>2, <1>7 DEF b2
<1>10. D[1] = v
  <2>1. D[1] = b2[s2]
    BY <1>4, <1>5, <1>8, RingAssumption
  <2> QED BY <2>1, <1>1 DEF b2
<1>11. /\ <<v>> \o K \in Seq(Elements) /\ Len(<<v>> \o K) = m + 1
       /\ (<<v>> \o K)[1] = v
       /\ \A i \in 1 .. m : (<<v>> \o K)[i + 1] = K[i]
  <2>1. <<v>> \in Seq(Elements) /\ Len(<<v>>) = 1 /\ <<v>>[1] = v
    OBVIOUS
  <2>2. /\ <<v>> \o K \in Seq(Elements)
        /\ Len(<<v>> \o K) = 1 + m
        /\ \A i \in 1 .. 1 + m : (<<v>> \o K)[i] = IF i <= 1 THEN <<v>>[i] ELSE K[i - 1]
    BY <2>1, <1>6, ConcatProperties
  <2> QED BY <2>1, <2>2, <1>5, RingAssumption
<1>12. \A i \in 1 .. Len(D) : D[i] = (<<v>> \o K)[i]
  <2> SUFFICES ASSUME NEW i \in 1 .. m + 1 PROVE D[i] = (<<v>> \o K)[i]
    BY <1>4, <1>5
  <2>1. CASE i = 1
    BY <2>1, <1>10, <1>11
  <2>2. CASE i # 1
    <3>1. i - 1 \in 1 .. m /\ (i - 1) + 1 = i
      BY <2>2, <1>5, RingAssumption
    <3> QED BY <3>1, <1>6, <1>9, <1>11
  <2> QED BY <2>1, <2>2
<1>13. D = <<v>> \o K
  BY <1>4, <1>5, <1>11, <1>12, SeqEqual
<1> QED BY <1>13 DEF D, K, b2, C, s2, e2, PushesFront

(* rb_pop_back: the last element goes.                                     *)
LEMMA PopBackContents ==
  ASSUME NEW b \in [Slots -> Elements], NEW s \in Slots, NEW e \in Slots, s # e
  PROVE  LET C == ContentsOf(b, s, e)
         IN  /\ C # << >>
             /\ ContentsOf(b, s, Masked(e - 1)) = SubSeq(C, 1, Len(C) - 1)
             /\ b[Masked(e - 1)] = C[Len(C)]
<1> DEFINE C == ContentsOf(b, s, e)
           e2 == Masked(e - 1)
           D == ContentsOf(b, s, e2)
           n == Masked(e - s)
<1>1. e2 \in Slots
  BY RingAssumption DEF Masked, Slots
<1>2. /\ n \in 0 .. Length - 1 /\ C \in Seq(Elements) /\ Len(C) = n
      /\ \A i \in 1 .. n : C[i] = b[Masked(s + i - 1)]
  BY ContentsSequence DEF IsContents
<1>3. /\ D \in Seq(Elements) /\ Len(D) = Masked(e2 - s)
      /\ \A i \in 1 .. Masked(e2 - s) : D[i] = b[Masked(s + i - 1)]
  <2>1. IsContents(b, s, e2)
    <3> HIDE DEF e2
    <3> QED BY <1>1, ContentsSequence
  <2> HIDE DEF e2
  <2> QED BY <2>1 DEF IsContents
<1> HIDE DEF C, D
<1>4. n >= 1 /\ Masked(e2 - s) = n - 1 /\ Masked(s + n - 1) = e2
  BY RingAssumption DEF Masked, Slots
<1> HIDE DEF n, e2
<1>5. n \in Nat /\ n - 1 \in 0 .. Len(C)
  BY <1>2, <1>4, RingAssumption
<1>6. C # << >> /\ C[n] = b[e2]
  BY <1>2, <1>4, <1>5, EmptySeq
<1>8. /\ SubSeq(C, 1, n - 1) \in Seq(Elements)
      /\ Len(SubSeq(C, 1, n - 1)) = n - 1
      /\ \A i \in 1 .. n - 1 : SubSeq(C, 1, n - 1)[i] = C[i]
  BY <1>2, <1>5, PrefixProperties
<1>9. \A i \in 1 .. Len(D) : D[i] = SubSeq(C, 1, n - 1)[i]
  BY <1>2, <1>3, <1>4, <1>5, <1>8
<1>11. D = SubSeq(C, 1, n - 1)
  BY <1>3, <1>4, <1>8, <1>9, SeqEqual
<1> QED BY <1>2, <1>6, <1>11 DEF D, C, e2

(* rb_pop_front: the first element goes.                                   *)
LEMMA PopFrontContents ==
  ASSUME NEW b \in [Slots -> Elements], NEW s \in Slots, NEW e \in Slots, s # e
  PROVE  LET C == ContentsOf(b, s, e)
         IN  /\ C # << >>
             /\ ContentsOf(b, Masked(s + 1), e) = Tail(C)
             /\ b[Masked(Masked(s + 1) - 1)] = Head(C)
<1> DEFINE C == ContentsOf(b, s, e)
           s2 == Masked(s + 1)
           D == ContentsOf(b, s2, e)
           n == Masked(e - s)
<1>1. s2 \in Slots
  BY RingAssumption DEF Masked, Slots
<1>2. /\ n \in 0 .. Length - 1 /\ C \in Seq(Elements) /\ Len(C) = n
      /\ \A i \in 1 .. n : C[i] = b[Masked(s + i - 1)]
  BY ContentsSequence DEF IsContents
<1>3. /\ D \in Seq(Elements) /\ Len(D) = Masked(e - s2)
      /\ \A i \in 1 .. Masked(e - s2) : D[i] = b[Masked(s2 + i - 1)]
  <2>1. IsContents(b, s2, e)
    <3> HIDE DEF s2
    <3> QED BY <1>1, ContentsSequence
  <2> HIDE DEF s2
  <2> QED BY <2>1 DEF IsContents
<1> HIDE DEF C, D
<1>4. /\ n >= 1 /\ Masked(e - s2) = n - 1
      /\ Masked(s2 - 1) = s /\ Masked(s + 1 - 1) = s
  BY RingAssumption DEF Masked, Slots
<1>5. \A i \in 1 .. n - 1 : Masked(s2 + i - 1) = Masked(s + (i + 1) - 1)
  BY RingAssumption DEF Masked, Slots
<1> HIDE DEF n, s2
<1>6. n \in Nat
  BY <1>2, RingAssumption
<1>7. C # << >> /\ C[1] = b[s]
  BY <1>2, <1>4, <1>6, EmptySeq
<1>8. /\ Tail(C) \in Seq(Elements) /\ Len(Tail(C)) = n - 1
      /\ \A i \in 1 .. n - 1 : Tail(C)[i] = C[i + 1]
  BY <1>2, <1>7, HeadTailProperties
<1>9. \A i \in 1 .. Len(D) : D[i] = Tail(C)[i]
  <2> SUFFICES ASSUME NEW i \in 1 .. n - 1 PROVE D[i] = Tail(C)[i]
    BY <1>3, <1>4
  <2>1. i + 1 \in 1 .. n
    BY <1>6
  <2>2. C[i + 1] = b[Masked(s + (i + 1) - 1)]
    BY <1>2, <2>1
  <2>3. D[i] = b[Masked(s + (i + 1) - 1)]
    BY <1>3, <1>4, <1>5
  <2> QED BY <2>2, <2>3, <1>8
<1>10. D = Tail(C)
  BY <1>3, <1>4, <1>8, <1>9, SeqEqual
<1>11. Head(C) = C[1]
  BY <1>2, <1>7
<1> QED BY <1>4, <1>7, <1>10, <1>11 DEF D, C, s2

(* rb_set inside the active length replaces one element.                   *)
Replaces(b, s, e, v, k) ==
  /\ k + 1 \in 1 .. Len(ContentsOf(b, s, e))
  /\ ContentsOf([b EXCEPT ![Masked(s + k)] = v], s, e) =
        [ContentsOf(b, s, e) EXCEPT ![k + 1] = v]

(* Two active elements never share a slot, so only one changes.            *)
LEMMA SetContents ==
  ASSUME NEW b \in [Slots -> Elements], NEW s \in Slots, NEW e \in Slots,
         NEW v \in Elements, NEW k \in Nat, k < Masked(e - s)
  PROVE  Replaces(b, s, e, v, k)
<1> DEFINE C == ContentsOf(b, s, e)
           b2 == [b EXCEPT ![Masked(s + k)] = v]
           D == ContentsOf(b2, s, e)
           n == Masked(e - s)
<1>1. b2 \in [Slots -> Elements]
  OBVIOUS
<1>2. /\ n \in 0 .. Length - 1 /\ C \in Seq(Elements) /\ Len(C) = n
      /\ \A i \in 1 .. n : C[i] = b[Masked(s + i - 1)]
  BY ContentsSequence DEF IsContents
<1>3. /\ D \in Seq(Elements) /\ Len(D) = n
      /\ \A i \in 1 .. n : D[i] = b2[Masked(s + i - 1)]
  <2>1. IsContents(b2, s, e)
    <3> HIDE DEF b2
    <3> QED BY <1>1, ContentsSequence
  <2> HIDE DEF b2
  <2> QED BY <2>1 DEF IsContents
<1> HIDE DEF C, D
<1> HIDE DEF n
<1>5. k + 1 \in 1 .. Len(C)
  BY <1>2, RingAssumption DEF n
<1>6. /\ [C EXCEPT ![k + 1] = v] \in Seq(Elements)
      /\ Len([C EXCEPT ![k + 1] = v]) = n
      /\ \A i \in 1 .. n : [C EXCEPT ![k + 1] = v][i] = IF i = k + 1 THEN v ELSE C[i]
  BY <1>2, <1>5, ExceptSeq
<1>7. \A i \in 1 .. n : D[i] = IF i = k + 1 THEN v ELSE C[i]
  <2> SUFFICES ASSUME NEW i \in 1 .. n PROVE D[i] = IF i = k + 1 THEN v ELSE C[i]
    OBVIOUS
  <2> DEFINE j == Masked(s + i - 1)
             l == Masked(s + k)
  <2>1. b2 = [b EXCEPT ![l] = v]
    OBVIOUS
  <2> HIDE DEF b2
  <2>2. j \in Slots /\ (j = l <=> i = k + 1)
    BY <1>2, RingAssumption DEF Masked, Slots, n
  <2>3. C[i] = b[j]
    BY <1>2
  <2>4. D[i] = b2[j]
    BY <1>3
  <2> HIDE DEF j, l
  <2>5. b2[j] = IF j = l THEN v ELSE b[j]
    BY <2>1, <2>2
  <2> QED BY <2>2, <2>3, <2>4, <2>5
<1>8. D = [C EXCEPT ![k + 1] = v]
  BY <1>3, <1>6, <1>7, SeqEqual
<1> QED BY <1>5, <1>8 DEF D, C, b2, Replaces

-----------------------------------------------------------------------------
(* Every step keeps the array, the indexes and the pending rb_set typed.   *)
LEMMA RingTypeStep ==
  ASSUME RingTypeOK, [Next]_ringVars
  PROVE  RingTypeOK'
<1> USE RingAssumption DEF RingTypeOK, Elements
<1>1. CASE UNCHANGED ringVars
  BY <1>1 DEF ringVars
<1>2. ASSUME NEW v \in Values, rb_push_back(v), UNCHANGED setting
      PROVE  RingTypeOK'
  BY <1>2, MaskedInSlots DEF rb_push_back, Masked, Slots
<1>3. ASSUME NEW v \in Values, rb_push_front(v), UNCHANGED setting
      PROVE  RingTypeOK'
  BY <1>3, MaskedInSlots DEF rb_push_front, Masked, Slots
<1>4. CASE rb_pop_back /\ UNCHANGED setting
  <2>1. end_index' \in Slots
    BY <1>4 DEF rb_pop_back, Masked, Slots
  <2>2. returned' \in Elements
    BY <1>4, <2>1 DEF rb_pop_back
  <2> QED BY <1>4, <2>1, <2>2 DEF rb_pop_back
<1>5. CASE rb_pop_front /\ UNCHANGED setting
  <2>1. start_index' \in Slots /\ Masked(start_index' - 1) \in Slots
    BY <1>5 DEF rb_pop_front, Masked, Slots
  <2>2. returned' \in Elements
    BY <1>5, <2>1 DEF rb_pop_front
  <2> QED BY <1>5, <2>1, <2>2 DEF rb_pop_front
<1>6. ASSUME NEW i \in 0 .. rb_length - 1, rb_get(i), UNCHANGED setting
      PROVE  RingTypeOK'
  <2>1. Masked(start_index + i) \in Slots /\ i \in Slots
    BY DEF rb_length, Masked, Slots
  <2> QED BY <1>6, <2>1 DEF rb_get
<1>7. CASE rb_initialize
  BY <1>7 DEF rb_initialize, Slots
<1>8. ASSUME NEW i \in SetIndexes, NEW v \in Values, rb_set(i, v)
      PROVE  RingTypeOK'
  <2>1. buffer' \in [Slots -> Elements]
    BY <1>8 DEF rb_set
  <2>2. setting' \in {<< >>} \cup (SetIndexes \X Values)
    BY <1>8 DEF rb_set
  <2> QED BY <1>8, <2>1, <2>2 DEF rb_set
<1>9. CASE rb_set_Loop
  <2>1. setting \in SetIndexes \X Values /\ setting[2] \in Values
    BY <1>9 DEF rb_set_Loop
  <2>2. CASE rb_push_back(setting[2]) /\ UNCHANGED setting
    BY <2>1, <2>2, <1>2
  <2>3. CASE setting' = << >> /\ UNCHANGED <<buffer, start_index, end_index, called, returned>>
    BY <2>3
  <2> QED BY <1>9, <2>2, <2>3 DEF rb_set_Loop
<1> QED BY <1>1, <1>2, <1>3, <1>4, <1>5, <1>6, <1>7, <1>8, <1>9 DEF Next, Call

(* A step of the ring is a step of the bounded queue, or changes nothing   *)
(* the queue shows.                                                        *)
LEMMA RingStepRefines ==
  ASSUME RingTypeOK, [Next]_ringVars
  PROVE  [Deque!Next]_(Deque!dequeVars)
<1> DEFINE C == Contents
<1>1. /\ buffer \in [Slots -> Elements] /\ start_index \in Slots /\ end_index \in Slots
      /\ returned \in Elements
  BY DEF RingTypeOK, Elements
<1>2. /\ rb_length \in 0 .. Length - 1 /\ C \in Seq(Elements) /\ Len(C) = rb_length
      /\ \A i \in 1 .. rb_length : C[i] = buffer[Masked(start_index + i - 1)]
  <2>1. IsContents(buffer, start_index, end_index)
    <3> QED BY <1>1, ContentsSequence
  <2> QED BY <2>1 DEF IsContents, Contents, rb_length
<1>3. CASE UNCHANGED ringVars
  BY <1>3 DEF ringVars, Deque!dequeVars, Contents, ContentsOf
<1>4. ASSUME NEW v \in Values, rb_push_back(v)
      PROVE  Deque!Next
  <2>1. C' = Append(IF Len(C) = Length - 1 THEN Tail(C) ELSE C, v)
    <3> DEFINE e2 == Masked(end_index + 1)
               s2 == IF e2 = start_index THEN Masked(start_index + 1) ELSE start_index
    <3>1. C' = ContentsOf([buffer EXCEPT ![end_index] = v], s2, e2)
      BY <1>4 DEF rb_push_back, Contents
    <3>2. v \in Elements
      BY DEF Elements
    <3>3. ContentsOf([buffer EXCEPT ![end_index] = v], s2, e2) =
            Append(IF Len(C) = Length - 1 THEN Tail(C) ELSE C, v)
      <4>1. PushesBack(buffer, start_index, end_index, v)
        BY <1>1, <3>2, PushBackContents
      <4> QED BY <4>1, Zenon DEF PushesBack, Contents
    <3> QED BY <3>1, <3>3
  <2> QED BY <2>1, <1>4 DEF rb_push_back, Deque!Next, Deque!PushBack
<1>5. ASSUME NEW v \in Values, rb_push_front(v)
      PROVE  Deque!Next
  <2>1. C' = <<v>> \o (IF Len(C) = Length - 1 THEN SubSeq(C, 1, (Length - 1) - 1) ELSE C)
    <3> DEFINE s2 == Masked(start_index - 1)
               e2 == IF s2 = end_index THEN Masked(end_index - 1) ELSE end_index
    <3>1. C' = ContentsOf([buffer EXCEPT ![s2] = v], s2, e2)
      BY <1>5 DEF rb_push_front, Contents
    <3>2. v \in Elements
      BY DEF Elements
    <3>3. ContentsOf([buffer EXCEPT ![s2] = v], s2, e2) =
            <<v>> \o (IF Len(C) = Length - 1 THEN SubSeq(C, 1, (Length - 1) - 1) ELSE C)
      <4>1. PushesFront(buffer, start_index, end_index, v)
        BY <1>1, <3>2, PushFrontContents
      <4> QED BY <4>1, Zenon DEF PushesFront, Contents
    <3> QED BY <3>1, <3>3
  <2> QED BY <2>1, <1>5 DEF rb_push_front, Deque!Next, Deque!PushFront
<1>6. CASE rb_pop_back
  <2>1. CASE start_index # end_index
    <3>1. /\ C # << >> /\ called' = <<"pop_back">>
          /\ C' = SubSeq(C, 1, Len(C) - 1) /\ returned' = C[Len(C)]
      BY <1>1, <1>6, <2>1, PopBackContents DEF rb_pop_back, Contents
    <3> QED BY <3>1 DEF Deque!Next, Deque!PopBack
  <2>2. CASE start_index = end_index
    <3>1. C = << >>
      <4>1. rb_length = 0
        BY <1>1, <2>2, RingAssumption DEF rb_length, Masked, Slots
      <4> HIDE DEF C
      <4> QED BY <1>2, <4>1, EmptySeq
    <3>2. C' = C /\ returned' = 0 /\ called' = <<"pop_back">>
      BY <1>6, <2>2 DEF rb_pop_back, Contents
    <3> QED BY <3>1, <3>2 DEF Deque!Next, Deque!PopEmpty
  <2> QED BY <2>1, <2>2
<1>7. CASE rb_pop_front
  <2>1. CASE start_index # end_index
    <3>1. /\ C # << >> /\ called' = <<"pop_front">>
          /\ C' = Tail(C) /\ returned' = Head(C)
      BY <1>1, <1>7, <2>1, PopFrontContents DEF rb_pop_front, Contents
    <3> QED BY <3>1 DEF Deque!Next, Deque!PopFront
  <2>2. CASE start_index = end_index
    <3>1. C = << >>
      <4>1. rb_length = 0
        BY <1>1, <2>2, RingAssumption DEF rb_length, Masked, Slots
      <4> HIDE DEF C
      <4> QED BY <1>2, <4>1, EmptySeq
    <3>2. C' = C /\ returned' = 0 /\ called' = <<"pop_front">>
      BY <1>7, <2>2 DEF rb_pop_front, Contents
    <3> QED BY <3>1, <3>2 DEF Deque!Next, Deque!PopEmpty
  <2> QED BY <2>1, <2>2
<1>8. ASSUME NEW i \in 0 .. rb_length - 1, rb_get(i)
      PROVE  Deque!Next
  <2>1. i + 1 \in 1 .. Len(C) /\ i \in 0 .. (Length - 1) - 1
    BY <1>2, RingAssumption
  <2>2. C[i + 1] = buffer[Masked(start_index + i)]
    <3>1. start_index + (i + 1) - 1 = start_index + i
      BY <1>1, RingAssumption DEF Slots
    <3> QED BY <1>2, <2>1, <3>1
  <2>3. C' = C /\ returned' = C[i + 1] /\ called' = <<"get", i>>
    BY <1>8, <2>2 DEF rb_get, Contents
  <2> QED BY <2>1, <2>3 DEF Deque!Next, Deque!Get
<1>9. CASE rb_initialize
  <2>1. C' = << >>
    BY <1>9, RingAssumption DEF rb_initialize, Contents, ContentsOf, Masked
  <2> QED BY <1>9, <2>1 DEF rb_initialize, Deque!Next, Deque!Clear
<1>10. ASSUME NEW i \in SetIndexes, NEW v \in Values, rb_set(i, v)
       PROVE  Deque!Next
  <2>1. i \in Nat /\ rb_length \in Int
    BY <1>2, RingAssumption
  <2>2. CASE i < rb_length
    <3>1. i + 1 \in 1 .. Len(C) /\ C' = [C EXCEPT ![i + 1] = v]
      <4>1. C' = ContentsOf([buffer EXCEPT ![Masked(start_index + i)] = v],
                            start_index, end_index)
        BY <1>10, <2>2 DEF rb_set, Contents
      <4>2. v \in Elements /\ i < Masked(end_index - start_index)
        BY <2>2 DEF rb_length, Elements
      <4>3. /\ i + 1 \in 1 .. Len(C)
            /\ ContentsOf([buffer EXCEPT ![Masked(start_index + i)] = v],
                          start_index, end_index) = [C EXCEPT ![i + 1] = v]
        <5>1. Replaces(buffer, start_index, end_index, v, i)
          BY <1>1, <2>1, <4>2, SetContents
        <5> QED BY <5>1, Zenon DEF Replaces, Contents
      <4> QED BY <4>1, <4>3
    <3>2. UNCHANGED returned /\ called' = <<"set", i, v>>
      BY <1>10 DEF rb_set
    <3> QED BY <3>1, <3>2 DEF Deque!Next, Deque!Set
  <2>3. CASE ~(i < rb_length)
    <3>1. C' = C /\ UNCHANGED returned /\ called' = <<"set", i, v>>
      BY <1>10, <2>3 DEF rb_set, Contents
    <3>2. i >= Len(C)
      BY <1>2, <2>1, <2>3
    <3> QED BY <3>1, <3>2 DEF Deque!Next, Deque!SetBeyond
  <2> QED BY <2>2, <2>3
<1>11. CASE rb_set_Loop
  <2>1. setting[2] \in Values
    BY <1>11 DEF rb_set_Loop, RingTypeOK
  <2>2. CASE rb_push_back(setting[2])
    BY <2>1, <2>2, <1>4
  <2>3. CASE UNCHANGED <<buffer, start_index, end_index, called, returned>>
    BY <2>3 DEF Deque!dequeVars, Contents
  <2> QED BY <1>11, <2>2, <2>3 DEF rb_set_Loop
<1> QED BY <1>3, <1>4, <1>5, <1>6, <1>7, <1>8, <1>9, <1>10, <1>11 DEF Next, Call

(* Ring_Buffer.c keeps its array, indexes and results typed.               *)
THEOREM RingTypeCorrect == Spec => []RingTypeOK
<1>1. Init => RingTypeOK
  BY RingAssumption DEF Init, RingTypeOK, Slots
<1>2. RingTypeOK /\ [Next]_ringVars => RingTypeOK'
  BY RingTypeStep
<1> QED BY <1>1, <1>2, PTL DEF Spec

(* Ring_Buffer.c implements the bounded double-ended queue that its header *)
(* describes, for every array length of at least two.                      *)
THEOREM RingImplementsDeque == Spec => ImplementsDeque
<1>1. Init => Deque!Init
  BY RingAssumption DEF Init, Deque!Init, Contents, ContentsOf, Masked
<1>2. RingTypeOK /\ [Next]_ringVars => [Deque!Next]_(Deque!dequeVars)
  BY RingStepRefines
<1> QED BY <1>1, <1>2, RingTypeCorrect, PTL DEF Spec, ImplementsDeque, Deque!Spec

=============================================================================
