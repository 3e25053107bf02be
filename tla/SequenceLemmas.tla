--------------------------- MODULE SequenceLemmas ---------------------------
(* What erasing from, inserting into and rewriting a vector does to it: the *)
(* facts about std::vector's erase() and insert() the proofs rest on.       *)
EXTENDS Integers, Sequences, SequencesExt, SequenceTheorems, TLAPS

\* erase(begin() + n - 1): one element fewer, those after it move down by one.
LEMMA RemoveAtProps ==
  ASSUME NEW S, NEW s \in Seq(S), NEW n \in 1 .. Len(s)
  PROVE  /\ RemoveAt(s, n) \in Seq(S)
         /\ Len(RemoveAt(s, n)) = Len(s) - 1
         /\ \A j \in 1 .. Len(s) - 1 :
              RemoveAt(s, n)[j] = IF j < n THEN s[j] ELSE s[j + 1]
<1> DEFINE a == SubSeq(s, 1, n - 1)
           b == SubSeq(s, n + 1, Len(s))
<1>0. Len(s) \in Nat /\ n \in Nat
  BY LenProperties
<1>1. /\ a \in Seq(S) /\ Len(a) = n - 1
      /\ \A j \in 1 .. n - 1 : a[j] = s[j]
  BY <1>0, SubSeqProperties
<1>2. /\ b \in Seq(S) /\ Len(b) = Len(s) - n
      /\ \A j \in 1 .. Len(s) - n : b[j] = s[n + j]
  BY <1>0, SubSeqProperties
<1>4. RemoveAt(s, n) = a \o b
  BY DEF RemoveAt, a, b
<1> HIDE DEF a, b
<1>3. /\ a \o b \in Seq(S) /\ Len(a \o b) = Len(a) + Len(b)
      /\ \A j \in 1 .. Len(a) + Len(b) :
           (a \o b)[j] = IF j <= Len(a) THEN a[j] ELSE b[j - Len(a)]
  BY <1>1, <1>2, ConcatProperties
<1>5. ASSUME NEW j \in 1 .. Len(s) - 1
      PROVE  RemoveAt(s, n)[j] = IF j < n THEN s[j] ELSE s[j + 1]
  <2>1. RemoveAt(s, n)[j] = IF j <= n - 1 THEN a[j] ELSE b[j - (n - 1)]
    BY <1>0, <1>1, <1>2, <1>3, <1>4
  <2>2. CASE j < n
    BY <1>0, <1>1, <2>1, <2>2
  <2>3. CASE ~(j < n)
    <3>1. j - (n - 1) \in 1 .. Len(s) - n
      BY <1>0, <2>3
    <3>2. b[j - (n - 1)] = s[n + (j - (n - 1))]
      BY <1>2, <3>1
    <3> QED BY <1>0, <2>1, <2>3, <3>2
  <2> QED BY <2>2, <2>3
<1>6. Len(RemoveAt(s, n)) = Len(s) - 1
  <2>1. Len(a) = n - 1 /\ Len(b) = Len(s) - n
    BY <1>1, <1>2
  <2>2. Len(RemoveAt(s, n)) = Len(a) + Len(b)
    BY <1>3, <1>4
  <2> QED BY <1>0, <2>1, <2>2
<1> QED BY <1>3, <1>4, <1>5, <1>6

\* insert(begin() + n - 1, e): the elements from position n move up by one.
LEMMA InsertAtProps ==
  ASSUME NEW S, NEW s \in Seq(S), NEW n \in 1 .. Len(s) + 1, NEW e \in S
  PROVE  /\ InsertAt(s, n, e) \in Seq(S)
         /\ Len(InsertAt(s, n, e)) = Len(s) + 1
         /\ \A j \in 1 .. Len(s) + 1 :
              InsertAt(s, n, e)[j] =
                IF j < n THEN s[j] ELSE IF j = n THEN e ELSE s[j - 1]
<1> DEFINE a == SubSeq(s, 1, n - 1)
           m == << e >>
           b == SubSeq(s, n, Len(s))
<1>0. Len(s) \in Nat /\ n \in Nat
  BY LenProperties
<1>1. /\ a \in Seq(S) /\ Len(a) = n - 1
      /\ \A j \in 1 .. n - 1 : a[j] = s[j]
  BY <1>0, SubSeqProperties
<1>2. /\ b \in Seq(S) /\ Len(b) = Len(s) - n + 1
      /\ \A j \in 1 .. Len(s) - n + 1 : b[j] = s[n + j - 1]
  BY <1>0, SubSeqProperties
<1>3. m \in Seq(S) /\ Len(m) = 1 /\ m[1] = e
  OBVIOUS
<1>4. InsertAt(s, n, e) = (a \o m) \o b
  BY DEF InsertAt, a, b, m
<1> HIDE DEF a, b, m
<1> DEFINE am == a \o m
<1>5. /\ am \in Seq(S) /\ Len(am) = n
      /\ \A j \in 1 .. n : am[j] = IF j <= n - 1 THEN s[j] ELSE e
  <2>1. /\ am \in Seq(S) /\ Len(am) = Len(a) + Len(m)
        /\ \A j \in 1 .. Len(a) + Len(m) :
             am[j] = IF j <= Len(a) THEN a[j] ELSE m[j - Len(a)]
    BY <1>1, <1>3, ConcatProperties
  <2>2. Len(a) + Len(m) = n
    BY <1>0, <1>1, <1>3
  <2>3. ASSUME NEW j \in 1 .. n
        PROVE  am[j] = IF j <= n - 1 THEN s[j] ELSE e
    <3>1. am[j] = IF j <= n - 1 THEN a[j] ELSE m[j - (n - 1)]
      BY <1>1, <2>1, <2>2
    <3>2. CASE j <= n - 1
      BY <1>0, <1>1, <3>1, <3>2
    <3>3. CASE ~(j <= n - 1)
      <4>1. j - (n - 1) = 1
        BY <1>0, <3>3
      <4> QED BY <1>3, <3>1, <3>3, <4>1
    <3> QED BY <3>2, <3>3
  <2> QED BY <2>1, <2>2, <2>3
<1> HIDE DEF am
<1>6. /\ am \o b \in Seq(S) /\ Len(am \o b) = Len(am) + Len(b)
      /\ \A j \in 1 .. Len(am) + Len(b) :
           (am \o b)[j] = IF j <= Len(am) THEN am[j] ELSE b[j - Len(am)]
  BY <1>2, <1>5, ConcatProperties
<1>7. Len(am) + Len(b) = Len(s) + 1
  BY <1>0, <1>2, <1>5
<1>8. InsertAt(s, n, e) = am \o b
  BY <1>4 DEF am
<1>9. ASSUME NEW j \in 1 .. Len(s) + 1
      PROVE  InsertAt(s, n, e)[j] =
               IF j < n THEN s[j] ELSE IF j = n THEN e ELSE s[j - 1]
  <2>1. InsertAt(s, n, e)[j] = IF j <= n THEN am[j] ELSE b[j - n]
    BY <1>5, <1>6, <1>7, <1>8
  <2>2. CASE j <= n
    <3>1. j \in 1 .. n
      BY <1>0, <2>2
    <3>2. am[j] = IF j <= n - 1 THEN s[j] ELSE e
      BY <1>5, <3>1
    <3> QED BY <1>0, <2>1, <2>2, <3>2
  <2>3. CASE ~(j <= n)
    <3>1. j - n \in 1 .. Len(s) - n + 1
      BY <1>0, <2>3
    <3>2. b[j - n] = s[n + (j - n) - 1]
      BY <1>2, <3>1
    <3> QED BY <1>0, <2>1, <2>3, <3>2
  <2> QED BY <2>2, <2>3
<1> QED BY <1>6, <1>7, <1>8, <1>9

\* push_back.
LEMMA AppendProps ==
  ASSUME NEW S, NEW s \in Seq(S), NEW e \in S
  PROVE  /\ Append(s, e) \in Seq(S)
         /\ Len(Append(s, e)) = Len(s) + 1
         /\ \A j \in 1 .. Len(s) : Append(s, e)[j] = s[j]
         /\ Append(s, e)[Len(s) + 1] = e
OBVIOUS

\* A vector rewritten in place, element by element, is a vector of that length.
LEMMA SeqOfLength ==
  ASSUME NEW S, NEW n \in Nat, NEW f \in [1 .. n -> S]
  PROVE  f \in Seq(S) /\ Len(f) = n
<1>1. f \in Seq(S)
  BY SeqDef
<1>2. DOMAIN f = 1 .. n /\ DOMAIN f = 1 .. Len(f) /\ Len(f) \in Nat
  BY <1>1, LenProperties
<1> QED BY <1>1, <1>2
=============================================================================
