------------------------------ MODULE SiteProofs ------------------------------
(***************************************************************************)
(* Of main() as a whole, for every configuration file, every number of     *)
(* browsers and every bound: no address is bound twice, every entry of     *)
(* the table has a polled socket that serves it, and a browser keeps its   *)
(* session.                                                                *)
(*                                                                         *)
(* Two functions over sequences are recursive: the marks of                *)
(* hanldVirtualHost and FlattenSeq.  That they are what their definitions  *)
(* say is proved from the least number for which there is no such          *)
(* function.                                                               *)
(***************************************************************************)
EXTENDS Site, SequenceTheorems, FunctionTheorems, FiniteSetTheorems, WellFoundedInduction, TLAPS

-----------------------------------------------------------------------------
(***************************************************************************)
(* Recursion over the places of a sequence                                 *)
(***************************************************************************)

\* Of numbers there is a least.
LEMMA Least ==
  ASSUME NEW T, T \subseteq Nat, T # {}
  PROVE  \E m \in T : \A k \in T : m <= k
<1>1. PICK m \in T : \A k \in T : <<k, m>> \notin OpToRel(<, Nat)
  BY WFMin, NatLessThanWellFounded, Zenon
<1>2. ASSUME NEW k \in T PROVE m <= k
  <2>1. m \in Nat /\ k \in Nat
    OBVIOUS
  <2>2. ASSUME k < m PROVE <<k, m>> \in OpToRel(<, Nat)
    BY <2>1, <2>2 DEF OpToRel
  <2>3. ~(k < m)
    BY <1>1, <2>2
  <2> QED BY <2>1, <2>3
<1> QED BY <1>2

LEMMA MinIs ==
  ASSUME NEW T, T \subseteq Nat, T # {}
  PROVE  Min(T) \in T /\ \A k \in T : Min(T) <= k
<1>1. PICK m \in T : \A k \in T : m <= k
  BY Least
<1> QED BY <1>1 DEF Min
LEMMA Greatest ==
  ASSUME NEW n \in Nat, NEW T, T \subseteq 0 .. n, T # {}
  PROVE  \E m \in T : \A k \in T : k <= m
<1> DEFINE U == {n - k : k \in T}
<1>1. U \subseteq Nat /\ U # {}
  <2>1. \A k \in T : n - k \in Nat
    OBVIOUS
  <2> QED BY <2>1
<1>2. PICK u \in U : \A k \in U : u <= k
  <2> HIDE DEF U
  <2> QED BY <1>1, Least
<1>3. PICK m \in T : u = n - m
  BY <1>2
<1>4. ASSUME NEW k \in T PROVE k <= m
  <2>1. n - k \in U
    OBVIOUS
  <2>2. n - m <= n - k /\ m \in 0 .. n /\ k \in 0 .. n
    BY <1>2, <1>3, <2>1
  <2> QED BY <2>2
<1> QED BY <1>4

\* A set of numbers with 0 and with the successor of each of its members, up to
\* n, has n.
LEMMA UpTo ==
  ASSUME NEW n \in Nat, NEW G, 0 \in G,
         \A m \in Nat : m < n /\ m \in G => m + 1 \in G
  PROVE  n \in G
<1> SUFFICES ASSUME n \notin G PROVE FALSE
  OBVIOUS
<1> DEFINE T == {m \in 0 .. n : m \notin G}
<1>1. T \subseteq Nat /\ T # {}
  OBVIOUS
<1>2. PICK m \in T : \A k \in T : m <= k
  <2> HIDE DEF T
  <2> QED BY <1>1, Least
<1>3. m \in Nat /\ m # 0 /\ m - 1 \in Nat /\ m - 1 < m /\ m <= n
  OBVIOUS
<1>4. m - 1 \notin T
  <2> HIDE DEF T
  <2> QED BY <1>2, <1>3
<1>5. m - 1 \in G
  BY <1>3, <1>4
<1>6. m - 1 + 1 \in G /\ m - 1 + 1 = m
  BY <1>3, <1>5
<1> QED BY <1>6

\* The marks of hanldVirtualHost: there is a function that marks an entry when
\* an earlier one, equal to it, is not marked.
Marks(f, t, n) ==
  f = [k \in 1 .. n |-> \E i \in 1 .. (k - 1) : ~f[i] /\ Same(t[i], t[k])]

\* Such a function exists for any table: the marks of hanldVirtualHost are defined.
LEMMA MarksExist ==
  ASSUME NEW t, NEW n \in Nat
  PROVE  \E f : Marks(f, t, n)
<1> DEFINE G == {m \in Nat : \E f : Marks(f, t, m)}
<1>1. 0 \in G
  <2>1. Marks(<<>>, t, 0)
    BY DEF Marks
  <2> QED BY <2>1
<1>2. ASSUME NEW m \in Nat, m \in G PROVE m + 1 \in G
  <2>1. PICK f : Marks(f, t, m)
    BY <1>2
  <2> DEFINE Marked(k) == \E i \in 1 .. (k - 1) : ~f[i] /\ Same(t[i], t[k])
             g == [k \in 1 .. m + 1 |-> Marked(k)]
  <2>2. \A k \in 1 .. m : f[k] = Marked(k)
    BY <2>1 DEF Marks
  <2>3. \A k \in 1 .. m : g[k] = f[k]
    <3>1. 1 .. m \subseteq 1 .. m + 1
      OBVIOUS
    <3> HIDE DEF Marked
    <3> QED BY <2>2, <3>1
  <2>4. ASSUME NEW k \in 1 .. m + 1
        PROVE  g[k] = \E i \in 1 .. (k - 1) : ~g[i] /\ Same(t[i], t[k])
    <3>1. \A i \in 1 .. (k - 1) : g[i] = f[i]
      <4>1. 1 .. (k - 1) \subseteq 1 .. m
        OBVIOUS
      <4> HIDE DEF g
      <4> QED BY <2>3, <4>1
    <3>2. g[k] = Marked(k)
      OBVIOUS
    <3> HIDE DEF g
    <3> QED BY <3>1, <3>2
  <2>5. Marks(g, t, m + 1)
    BY <2>4 DEF Marks
  <2> QED BY <2>5
<1>3. n \in G
  <2> HIDE DEF G
  <2> QED BY <1>1, <1>2, UpTo
<1> QED BY <1>3

\* Of two entries with sockets of their own the later is not equal to the
\* earlier, and one without is equal to an earlier one that has its own.
Separate(t) == \A i, k \in DOMAIN t : i < k /\ ~t[i].bound /\ ~t[k].bound => ~Same(t[i], t[k])
Covered(t) ==
  \A k \in DOMAIN t : t[k].bound => \E i \in DOMAIN t : i < k /\ ~t[i].bound /\ Same(t[i], t[k])

Fields == {"ip", "port", "name", "block", "bound", "fd"}
Entries(t) ==
  \E n \in Nat : /\ DOMAIN t = 1 .. n /\ t = [k \in 1 .. n |-> t[k]]
                 /\ \A k \in 1 .. n : DOMAIN t[k] = Fields
\* u is t but for the marks and the descriptors.
Alike(e, f) == e.ip = f.ip /\ e.port = f.port /\ e.name = f.name /\ e.block = f.block
AllAlike(u, t) == DOMAIN u = DOMAIN t /\ \A k \in DOMAIN t : Alike(u[k], t[k])
NoFds(t) == \A k \in DOMAIN t : t[k].fd = NoFd

\* hanldVirtualHost keeps the entries and marks those that are equal to another.
LEMMA Marked ==
  ASSUME NEW t, Entries(t), NoFds(t)
  PROVE  LET u == WithVirtualHosts(t)
         IN Entries(u) /\ Separate(u) /\ Covered(u) /\ AllAlike(u, t) /\ NoFds(u)
<1>1. PICK n \in Nat : DOMAIN t = 1 .. n /\ \A k \in 1 .. n : DOMAIN t[k] = Fields
  BY DEF Entries
<1> DEFINE marks == CHOOSE f : Marks(f, t, n)
           new == [k \in 1 .. n |-> [t[k] EXCEPT !.bound = marks[k]]]
<1>2. Marks(marks, t, n)
  BY MarksExist, Zenon
<1>3. WithVirtualHosts(t) = new
  BY <1>1 DEF WithVirtualHosts, Marks
<1> HIDE DEF marks
<1>4. ASSUME NEW k \in 1 .. n
      PROVE  /\ DOMAIN new[k] = Fields
             /\ Alike(new[k], t[k]) /\ new[k].fd = t[k].fd
             /\ new[k].bound = marks[k]
  BY <1>1 DEF Fields, Alike
<1>5. ASSUME NEW k \in 1 .. n
      PROVE  marks[k] = \E i \in 1 .. (k - 1) : ~marks[i] /\ Same(t[i], t[k])
  BY <1>2 DEF Marks
<1>6. ASSUME NEW i \in 1 .. n, NEW k \in 1 .. n, i < k, ~marks[i], ~marks[k]
      PROVE  ~Same(t[i], t[k])
  <2>1. i \in 1 .. (k - 1)
    BY <1>6
  <2> QED BY <1>5, <1>6, <2>1
<1>7. DOMAIN new = 1 .. n /\ new = [k \in 1 .. n |-> new[k]]
  OBVIOUS
<1> HIDE DEF new
<1>8. Entries(new)
  BY <1>4, <1>7 DEF Entries
<1>9. ASSUME NEW i \in 1 .. n, NEW k \in 1 .. n
      PROVE  Same(new[i], new[k]) <=> Same(t[i], t[k])
  BY <1>4 DEF Same, Alike
<1>10. Separate(new)
  BY <1>4, <1>6, <1>7, <1>9 DEF Separate
<1>11. Covered(new)
  <2> SUFFICES ASSUME NEW k \in 1 .. n, new[k].bound
               PROVE  \E i \in 1 .. n : i < k /\ ~new[i].bound /\ Same(new[i], new[k])
    BY <1>7 DEF Covered
  <2>1. PICK i \in 1 .. (k - 1) : ~marks[i] /\ Same(t[i], t[k])
    BY <1>4, <1>5
  <2>2. i \in 1 .. n /\ i < k
    OBVIOUS
  <2> QED BY <1>4, <1>9, <2>1, <2>2
<1>12. AllAlike(new, t) /\ NoFds(new)
  BY <1>1, <1>4, <1>7 DEF AllAlike, NoFds
<1> QED BY <1>3, <1>8, <1>10, <1>11, <1>12

\* FlattenSeq puts together what its argument holds, and nothing else.
Joins(f, seqs, n) ==
  f = [i \in 1 .. n |-> IF i = 1 THEN seqs[i] ELSE f[i - 1] \o seqs[i]]

\* The partial results of FlattenSeq exist, and are sequences of the same elements.
LEMMA JoinsExist ==
  ASSUME NEW S, NEW seqs, NEW n \in Nat, \A i \in 1 .. n : seqs[i] \in Seq(S)
  PROVE  \E f \in [1 .. n -> Seq(S)] : Joins(f, seqs, n)
<1> DEFINE G == {m \in Nat : m <= n => \E f \in [1 .. m -> Seq(S)] : Joins(f, seqs, m)}
<1>1. 0 \in G
  <2>1. <<>> \in [1 .. 0 -> Seq(S)] /\ Joins(<<>>, seqs, 0)
    BY DEF Joins
  <2> QED BY <2>1
<1>2. ASSUME NEW m \in Nat, m < n, m \in G PROVE m + 1 \in G
  <2>1. PICK f \in [1 .. m -> Seq(S)] : Joins(f, seqs, m)
    BY <1>2
  <2> DEFINE Next_(k) == IF k = 1 THEN seqs[k] ELSE f[k - 1] \o seqs[k]
             g == [k \in 1 .. m + 1 |-> Next_(k)]
  <2>2. \A k \in 1 .. m : f[k] = Next_(k)
    BY <2>1 DEF Joins
  <2>3. \A k \in 1 .. m : g[k] = f[k]
    <3>1. 1 .. m \subseteq 1 .. m + 1
      OBVIOUS
    <3> HIDE DEF Next_
    <3> QED BY <2>2, <3>1
  <2>4. ASSUME NEW k \in 1 .. m + 1
        PROVE  /\ g[k] \in Seq(S)
               /\ g[k] = IF k = 1 THEN seqs[k] ELSE g[k - 1] \o seqs[k]
    <3>1. g[k] = Next_(k) /\ seqs[k] \in Seq(S)
      BY <1>2
    <3>2. k # 1 => k - 1 \in 1 .. m
      OBVIOUS
    <3> HIDE DEF g
    <3>3. CASE k = 1
      BY <3>1, <3>3
    <3>4. CASE k # 1
      <4>1. g[k - 1] = f[k - 1] /\ f[k - 1] \in Seq(S)
        BY <2>1, <2>3, <3>2, <3>4
      <4>2. f[k - 1] \o seqs[k] \in Seq(S)
        BY <3>1, <4>1, ConcatProperties
      <4> QED BY <3>1, <3>4, <4>1, <4>2
    <3> QED BY <3>3, <3>4
  <2>5. g \in [1 .. m + 1 -> Seq(S)]
    BY <2>4
  <2>6. Joins(g, seqs, m + 1)
    BY <2>4 DEF Joins
  <2> HIDE DEF g
  <2> QED BY <2>5, <2>6
<1>3. n \in G
  <2> HIDE DEF G
  <2> QED BY <1>1, <1>2, UpTo
<1> QED BY <1>3

\* FlattenSeq is the last of its partial results.
LEMMA FlattenIs ==
  ASSUME NEW S, NEW seqs \in Seq(Seq(S)), Len(seqs) # 0
  PROVE  \E f \in [1 .. Len(seqs) -> Seq(S)] : Joins(f, seqs, Len(seqs)) /\ FlattenSeq(seqs) = f[Len(seqs)]
<1> DEFINE n == Len(seqs)
           flatten == CHOOSE f : Joins(f, seqs, n)
<1>1. n \in Nat /\ \A i \in 1 .. n : seqs[i] \in Seq(S)
  BY LenProperties, ElementOfSeq
<1>2. Joins(flatten, seqs, n)
  BY <1>1, JoinsExist, Zenon
<1>3. FlattenSeq(seqs) = flatten[n]
  BY DEF FlattenSeq, Joins
<1> HIDE DEF flatten
<1>4. ASSUME NEW m \in Nat, m < n, m = 0 \/ flatten[m] \in Seq(S)
      PROVE  flatten[m + 1] \in Seq(S)
  <2>1. m + 1 \in 1 .. n /\ seqs[m + 1] \in Seq(S)
    BY <1>1, <1>4
  <2>2. flatten[m + 1] = IF m = 0 THEN seqs[m + 1] ELSE flatten[m] \o seqs[m + 1]
    <3>1. m + 1 - 1 = m /\ (m + 1 = 1 <=> m = 0)
      OBVIOUS
    <3>2. \A i \in 1 .. n : flatten[i] = IF i = 1 THEN seqs[i] ELSE flatten[i - 1] \o seqs[i]
      BY <1>2, Zenon DEF Joins
    <3> HIDE DEF n
    <3> QED BY <2>1, <3>1, <3>2
  <2>3. m # 0 => flatten[m] \o seqs[m + 1] \in Seq(S)
    BY <1>4, <2>1, ConcatProperties
  <2> QED BY <2>1, <2>2, <2>3
<1>5. ASSUME NEW k \in 1 .. n PROVE flatten[k] \in Seq(S)
  <2> DEFINE G == {j \in Nat : j <= n => j = 0 \/ flatten[j] \in Seq(S)}
  <2>1. 0 \in G
    OBVIOUS
  <2>2. ASSUME NEW m \in Nat, m < k, m \in G PROVE m + 1 \in G
    <3>1. m < n /\ (m = 0 \/ flatten[m] \in Seq(S))
      BY <1>1, <2>2
    <3>2. flatten[m + 1] \in Seq(S)
      BY <1>4, <3>1
    <3> QED BY <3>2
  <2>3. k \in Nat
    BY <1>1
  <2>4. k \in G
    <3> HIDE DEF G
    <3> QED BY <2>1, <2>2, <2>3, UpTo
  <2> QED BY <1>1, <2>4
<1>6. flatten \in [1 .. n -> Seq(S)]
  <2>1. DOMAIN flatten = 1 .. n /\ flatten = [i \in 1 .. n |-> flatten[i]]
    BY <1>2 DEF Joins
  <2> QED BY <1>5, <2>1
<1> QED BY <1>2, <1>3, <1>6

\* Each partial result is the one before it and one more sequence.
LEMMA JoinedStep ==
  ASSUME NEW seqs, NEW n \in Nat, NEW f, Joins(f, seqs, n), NEW m \in Nat, m < n
  PROVE  f[m + 1] = IF m = 0 THEN seqs[m + 1] ELSE f[m] \o seqs[m + 1]
<1>1. PICK j : j = m + 1
  OBVIOUS
<1>2. j - 1 = m /\ (j = 1 <=> m = 0) /\ j \in 1 .. n
  BY <1>1
<1>3. \A i \in 1 .. n : f[i] = IF i = 1 THEN seqs[i] ELSE f[i - 1] \o seqs[i]
  BY Zenon DEF Joins
<1>4. f[j] = IF j = 1 THEN seqs[j] ELSE f[j - 1] \o seqs[j]
  BY <1>2, <1>3, Zenon
<1> QED BY <1>1, <1>2, <1>4, Zenon

\* FlattenSeq of sequences over a set is one of them.
LEMMA Flattened ==
  ASSUME NEW S, NEW seqs \in Seq(Seq(S))
  PROVE  FlattenSeq(seqs) \in Seq(S)
<1>1. CASE Len(seqs) = 0
  <2>1. seqs = <<>>
    BY <1>1, EmptySeq
  <2> QED BY <1>1, <2>1 DEF FlattenSeq
<1>2. CASE Len(seqs) # 0
  <2>1. PICK f \in [1 .. Len(seqs) -> Seq(S)] : FlattenSeq(seqs) = f[Len(seqs)]
    BY <1>2, FlattenIs
  <2>2. Len(seqs) \in Nat
    BY LenProperties
  <2>3. Len(seqs) \in 1 .. Len(seqs)
    BY <1>2, <2>2
  <2> QED BY <2>1, <2>3, Zenon
<1> QED BY <1>1, <1>2

\* The places of a sequence put behind another.
LEMMA Behindhand ==
  ASSUME NEW S, NEW s \in Seq(S), NEW t \in Seq(S)
  PROVE  /\ s \o t \in Seq(S) /\ DOMAIN s = 1 .. Len(s) /\ DOMAIN t = 1 .. Len(t)
         /\ Len(s) \in Nat /\ Len(t) \in Nat /\ DOMAIN (s \o t) = 1 .. Len(s) + Len(t)
         /\ \A k \in DOMAIN s : k \in DOMAIN (s \o t) /\ (s \o t)[k] = s[k]
         /\ \A k \in DOMAIN t : Len(s) + k \in DOMAIN (s \o t) /\ (s \o t)[Len(s) + k] = t[k]
         /\ \A k \in DOMAIN (s \o t) : k \in DOMAIN s \/ \E i \in DOMAIN t : k = Len(s) + i
<1>1. Len(s) \in Nat /\ Len(t) \in Nat /\ DOMAIN s = 1 .. Len(s) /\ DOMAIN t = 1 .. Len(t)
  BY LenProperties
<1>2. s \o t \in Seq(S) /\ Len(s \o t) = Len(s) + Len(t)
  BY ConcatProperties
<1>3. DOMAIN (s \o t) = 1 .. Len(s) + Len(t)
  BY <1>2, LenProperties
<1>4. \A k \in 1 .. Len(s) + Len(t) : (s \o t)[k] = IF k <= Len(s) THEN s[k] ELSE t[k - Len(s)]
  BY ConcatProperties
<1>5. ASSUME NEW k \in DOMAIN t
      PROVE  Len(s) + k \in DOMAIN (s \o t) /\ (s \o t)[Len(s) + k] = t[k]
  <2>1. Len(s) + k \in 1 .. Len(s) + Len(t) /\ ~(Len(s) + k <= Len(s)) /\ Len(s) + k - Len(s) = k
    BY <1>1
  <2> QED BY <1>3, <1>4, <2>1
<1>6. ASSUME NEW k \in DOMAIN (s \o t)
      PROVE  k \in DOMAIN s \/ \E i \in DOMAIN t : k = Len(s) + i
  <2>1. k \in DOMAIN s \/ (k - Len(s) \in DOMAIN t /\ k = Len(s) + (k - Len(s)))
    BY <1>1, <1>3
  <2> QED BY <2>1
<1>7. ASSUME NEW k \in DOMAIN s
      PROVE  k \in DOMAIN (s \o t) /\ (s \o t)[k] = s[k]
  <2>1. k \in 1 .. Len(s) + Len(t) /\ k <= Len(s)
    BY <1>1
  <2> QED BY <1>3, <1>4, <2>1
<1> QED BY <1>1, <1>2, <1>3, <1>5, <1>6, <1>7

\* What a sequence holds it still holds when another is put behind or before it.
Held(x, s) == \E k \in DOMAIN s : s[k] = x
LEMMA HeldInBoth ==
  ASSUME NEW S, NEW s \in Seq(S), NEW t \in Seq(S), NEW x, Held(x, s) \/ Held(x, t)
  PROVE  Held(x, s \o t)
<1>1. CASE Held(x, s)
  <2>1. PICK k \in DOMAIN s : s[k] = x
    BY <1>1 DEF Held
  <2>2. k \in DOMAIN (s \o t) /\ (s \o t)[k] = s[k]
    BY <2>1, Behindhand
  <2> QED BY <2>1, <2>2, Zenon DEF Held
<1>2. CASE Held(x, t)
  <2>1. PICK k \in DOMAIN t : t[k] = x
    BY <1>2 DEF Held
  <2>2. Len(s) + k \in DOMAIN (s \o t) /\ (s \o t)[Len(s) + k] = t[k]
    BY <2>1, Behindhand
  <2> QED BY <2>1, <2>2, Zenon DEF Held
<1> QED BY <1>1, <1>2

\* FlattenSeq leaves nothing out.
LEMMA FlattenHas ==
  ASSUME NEW S, NEW seqs \in Seq(Seq(S)), NEW b \in DOMAIN seqs, NEW x, Held(x, seqs[b])
  PROVE  Held(x, FlattenSeq(seqs))
<1>1. PICK n : n = Len(seqs) /\ DOMAIN seqs = 1 .. n /\ n \in Nat /\ n # 0 /\ b \in 1 .. n
  <2>1. DOMAIN seqs = 1 .. Len(seqs) /\ Len(seqs) \in Nat
    BY LenProperties
  <2>2. b \in 1 .. Len(seqs) /\ Len(seqs) # 0
    BY <2>1
  <2> QED BY <2>1, <2>2
<1>2. PICK f \in [1 .. n -> Seq(S)] : Joins(f, seqs, n) /\ FlattenSeq(seqs) = f[n]
  BY <1>1, FlattenIs
<1> DEFINE G == {m \in Nat : b <= m /\ m <= n => Held(x, f[m])}
<1>3. 0 \in G
  BY <1>1
<1>4. ASSUME NEW m \in Nat, m < n, m \in G PROVE m + 1 \in G
  <2>1. f[m + 1] = IF m = 0 THEN seqs[m + 1] ELSE f[m] \o seqs[m + 1]
    <3>1. m \in Nat /\ m < n /\ n \in Nat /\ Joins(f, seqs, n)
      BY <1>1, <1>2, <1>4
    <3> QED BY <3>1, JoinedStep, Zenon
  <2>2. seqs[m + 1] \in Seq(S) /\ (m # 0 => f[m] \in Seq(S))
    BY <1>1, <1>2, <1>4, ElementOfSeq
  <2> SUFFICES ASSUME b <= m + 1 PROVE Held(x, f[m + 1])
    BY <1>4
  <2>3. b = m + 1 \/ (b <= m /\ m # 0 /\ Held(x, f[m]))
    BY <1>1, <1>4
  <2>4. CASE m = 0
    BY <2>1, <2>3, <2>4
  <2>5. CASE m # 0
    <3>1. Held(x, f[m]) \/ Held(x, seqs[m + 1])
      BY <2>3
    <3>2. Held(x, f[m] \o seqs[m + 1])
      BY <2>2, <2>5, <3>1, HeldInBoth
    <3> QED BY <2>1, <2>5, <3>2
  <2> QED BY <2>4, <2>5
<1>5. n \in G
  <2> HIDE DEF G
  <2> QED BY <1>1, <1>3, <1>4, UpTo
<1> QED BY <1>1, <1>2, <1>5

\* Where the elements of the b-th sequence have the block b, those of FlattenSeq come
\* in the order of their blocks.
Rising(t) == \A i, k \in DOMAIN t : i <= k => t[i].block <= t[k].block
Upto(t, n) == \A k \in DOMAIN t : t[k].block \in Nat /\ t[k].block <= n
LEMMA RisingJoined ==
  ASSUME NEW S, NEW s \in Seq(S), NEW t \in Seq(S), NEW n \in Nat,
         Rising(s), Upto(s, n), \A k \in DOMAIN t : t[k].block = n + 1
  PROVE  Rising(s \o t) /\ Upto(s \o t, n + 1)
<1> DEFINE u == s \o t
<1>1. ASSUME NEW k \in DOMAIN u
      PROVE  \/ k \in DOMAIN s /\ u[k] = s[k] /\ u[k].block \in Nat /\ u[k].block <= n
             \/ k > Len(s) /\ u[k].block = n + 1
  <2>1. CASE k \in DOMAIN s
    <3>1. u[k] = s[k]
      BY <2>1, Behindhand
    <3> HIDE DEF u
    <3> QED BY <2>1, <3>1 DEF Upto
  <2>2. CASE k \notin DOMAIN s
    <3>1. PICK i \in DOMAIN t : k = Len(s) + i
      BY <2>2, Behindhand
    <3>2. u[k] = t[i]
      BY <3>1, Behindhand
    <3>3. Len(s) \in Nat /\ i \in Nat \ {0}
      BY LenProperties
    <3> HIDE DEF u
    <3> QED BY <3>1, <3>2, <3>3
  <2> QED BY <2>1, <2>2
<1>2. /\ DOMAIN s = 1 .. Len(s) /\ Len(s) \in Nat
      /\ DOMAIN u = 1 .. Len(s) + Len(t) /\ Len(t) \in Nat
  BY Behindhand
<1> HIDE DEF u
<1>3. Upto(u, n + 1)
  BY <1>1 DEF Upto
<1>4. Rising(u)
  <2> SUFFICES ASSUME NEW i \in DOMAIN u, NEW k \in DOMAIN u, i <= k
               PROVE  u[i].block <= u[k].block
    BY DEF Rising
  <2>1. CASE k \in DOMAIN s /\ u[k] = s[k]
    <3>1. i \in DOMAIN s
      BY <1>2, <2>1
    <3>2. u[i] = s[i]
      BY <1>1, <1>2, <3>1
    <3> QED BY <2>1, <3>1, <3>2 DEF Rising
  <2>2. CASE u[k].block = n + 1
    <3>1. u[i].block \in Nat /\ u[i].block <= n + 1
      BY <1>1
    <3> QED BY <2>2, <3>1
  <2> QED BY <1>1, <2>1, <2>2
<1> QED BY <1>3, <1>4 DEF u

\* FlattenSeq keeps that order.
LEMMA FlattenRises ==
  ASSUME NEW S, NEW seqs \in Seq(Seq(S)),
         \A b \in DOMAIN seqs : \A i \in DOMAIN seqs[b] : seqs[b][i].block = b
  PROVE  Rising(FlattenSeq(seqs))
<1>1. PICK n : n = Len(seqs) /\ DOMAIN seqs = 1 .. n /\ n \in Nat
  BY LenProperties
<1>2. CASE n = 0
  <2>1. seqs = <<>>
    BY <1>1, <1>2, EmptySeq
  <2>2. FlattenSeq(seqs) = <<>>
    BY <1>1, <1>2, <2>1 DEF FlattenSeq
  <2> QED BY <2>2 DEF Rising
<1>3. CASE n # 0
  <2>1. PICK f \in [1 .. n -> Seq(S)] : Joins(f, seqs, n) /\ FlattenSeq(seqs) = f[n]
    BY <1>1, <1>3, FlattenIs
  <2> DEFINE G == {m \in Nat : m # 0 /\ m <= n => Rising(f[m]) /\ Upto(f[m], m)}
  <2>2. 0 \in G
    OBVIOUS
  <2>3. ASSUME NEW m \in Nat, m < n, m \in G PROVE m + 1 \in G
    <3>1. f[m + 1] = IF m = 0 THEN seqs[m + 1] ELSE f[m] \o seqs[m + 1]
      <4>1. m \in Nat /\ m < n /\ n \in Nat /\ Joins(f, seqs, n)
        BY <1>1, <2>1, <2>3
      <4> QED BY <4>1, JoinedStep, Zenon
    <3>2. /\ seqs[m + 1] \in Seq(S) /\ (m # 0 => f[m] \in Seq(S))
          /\ \A i \in DOMAIN seqs[m + 1] : seqs[m + 1][i].block = m + 1
      BY <1>1, <2>1, <2>3, ElementOfSeq
    <3>3. CASE m = 0
      <4>1. Rising(seqs[m + 1]) /\ Upto(seqs[m + 1], m + 1)
        BY <3>2 DEF Rising, Upto
      <4> QED BY <3>1, <3>3, <4>1
    <3>4. CASE m # 0
      <4>1. Rising(f[m]) /\ Upto(f[m], m)
        BY <1>1, <2>3, <3>4
      <4>2. Rising(f[m] \o seqs[m + 1]) /\ Upto(f[m] \o seqs[m + 1], m + 1)
        BY <3>2, <3>4, <4>1, RisingJoined
      <4>3. f[m + 1] = f[m] \o seqs[m + 1]
        BY <3>1, <3>4
      <4>4. Rising(f[m + 1]) /\ Upto(f[m + 1], m + 1)
        BY <4>2, <4>3, Zenon
      <4> QED BY <4>4
    <3> QED BY <3>3, <3>4
  <2>4. n \in G
    <3> HIDE DEF G
    <3> QED BY <1>1, <2>2, <2>3, UpTo
  <2> QED BY <1>1, <1>3, <2>1, <2>4
<1> QED BY <1>2, <1>3

\* push_back: what a longer sequence holds.
LEMMA Appended ==
  ASSUME NEW S, NEW s \in Seq(S), NEW e \in S, NEW b \in DOMAIN Append(s, e)
  PROVE  Append(s, e)[b] = e \/ (b \in DOMAIN s /\ Append(s, e)[b] = s[b])
<1>1. PICK n \in Nat : n = Len(s) /\ DOMAIN s = 1 .. n
  BY LenProperties
<1>2. /\ Append(s, e) \in Seq(S) /\ Len(Append(s, e)) = n + 1
      /\ Append(s, e)[n + 1] = e
      /\ \A i \in 1 .. n : Append(s, e)[i] = s[i]
  BY <1>1, AppendProperties
<1>3. b \in 1 .. n + 1
  BY <1>2, LenProperties
<1>4. b \in 1 .. n \/ b = n + 1
  BY <1>3
<1> QED BY <1>1, <1>2, <1>4

-----------------------------------------------------------------------------
(***************************************************************************)
(* The order of the pairs of a std::set                                    *)
(***************************************************************************)

\* Letter: what the addresses and ports of a listen directive are written with.
Letter == DOMAIN DigitValue \cup {".", "localhost"}

\* The letters have different ranks.
LEMMA DigitsAre ==
  /\ DOMAIN DigitValue = {"0", "1", "2", "3", "4", "5", "6", "7", "8", "9"}
  /\ \A v \in 0 .. 9 : DigitValue[Digits[v + 1]] = v
<1>1. DOMAIN Digits = 1 .. 10 /\ ToSet(Digits) = {"0", "1", "2", "3", "4", "5", "6", "7", "8", "9"}
  BY DEF Digits, ToSet
<1>2. ASSUME NEW v \in 0 .. 9 PROVE DigitValue[Digits[v + 1]] = v
  <2>1. \A u \in 0 .. 9 : Digits[u + 1] = Digits[v + 1] => u = v
    BY DEF Digits
  <2>2. Digits[v + 1] \in ToSet(Digits)
    BY <1>1 DEF ToSet
  <2>3. (CHOOSE u \in 0 .. 9 : Digits[u + 1] = Digits[v + 1]) = v
    BY <2>1
  <2> QED BY <2>2, <2>3 DEF DigitValue
<1> QED BY <1>1, <1>2 DEF DigitValue
LEMMA RankIs ==
  ASSUME NEW c \in Letter, NEW d \in Letter
  PROVE  Rank(c) \in Nat /\ (Rank(c) = Rank(d) => c = d)
<1>1. ASSUME NEW e \in Letter
      PROVE  \/ e \in DOMAIN DigitValue /\ \E v \in 0 .. 9 : e = Digits[v + 1] /\ Rank(e) = 1 + v
             \/ e = "." /\ Rank(e) = 0
             \/ e = "localhost" /\ Rank(e) = 11
  <2>1. CASE e \in DOMAIN DigitValue
    <3>1. PICK i \in 1 .. 10 : e = Digits[i]
      BY <2>1, DigitsAre DEF Digits
    <3>2. i - 1 \in 0 .. 9 /\ i - 1 + 1 = i
      OBVIOUS
    <3>3. DigitValue[e] = i - 1
      BY <3>1, <3>2, DigitsAre
    <3>4. e = Digits[i - 1 + 1] /\ Rank(e) = 1 + (i - 1)
      BY <2>1, <3>1, <3>2, <3>3 DEF Rank
    <3> QED BY <2>1, <3>2, <3>4
  <2>2. CASE e \notin DOMAIN DigitValue
    BY <2>2 DEF Letter, Rank
  <2> QED BY <2>1, <2>2
<1>2. Rank(c) \in Nat
  BY <1>1
<1>3. ASSUME Rank(c) = Rank(d) PROVE c = d
  BY <1>1, <1>3
<1> QED BY <1>2, <1>3

\* The order of std::string, letter by letter: where b goes on and a ends or is smaller.
LessAt(a, b, i) ==
  /\ i \in 1 .. Len(b) /\ i <= Len(a) + 1
  /\ \A j \in 1 .. i - 1 : a[j] = b[j]
  /\ i = Len(a) + 1 \/ Rank(a[i]) < Rank(b[i])
LEMMA LessIs ==
  ASSUME NEW a \in Seq(Letter), NEW b \in Seq(Letter)
  PROVE  Less(a, b) <=> \E i \in Nat : LessAt(a, b, i)
<1>1. Len(a) \in Nat /\ Len(b) \in Nat /\ DOMAIN b = 1 .. Len(b)
  BY LenProperties
<1>2. ASSUME NEW i \in 1 .. Len(b), i <= Len(a) + 1
      PROVE  SubSeq(a, 1, i - 1) = SubSeq(b, 1, i - 1) <=> \A j \in 1 .. i - 1 : a[j] = b[j]
  <2>1. /\ 1 \in Nat /\ i - 1 \in Nat /\ i - 1 <= Len(a) /\ i - 1 <= Len(b)
    BY <1>1, <1>2
  <2>2. \A j \in 1 .. i - 1 : SubSeq(a, 1, i - 1)[j] = a[j] /\ SubSeq(b, 1, i - 1)[j] = b[j]
    BY <1>1, <2>1, SMT
  <2>3. SubSeq(a, 1, i - 1) = [j \in 1 .. i - 1 |-> a[j]] /\ SubSeq(b, 1, i - 1) = [j \in 1 .. i - 1 |-> b[j]]
    BY <1>1, <2>1 DEF SubSeq
  <2> QED BY <2>2, <2>3
<1>3. ASSUME NEW i \in DOMAIN b, Len(a) >= i - 1, SubSeq(a, 1, i - 1) = SubSeq(b, 1, i - 1),
             Len(a) = i - 1 \/ Rank(a[i]) < Rank(b[i])
      PROVE  \E k \in Nat : LessAt(a, b, k)
  <2>1. i \in 1 .. Len(b) /\ i <= Len(a) + 1 /\ i \in Nat
    BY <1>1, <1>3
  <2>2. \A j \in 1 .. i - 1 : a[j] = b[j]
    BY <1>2, <1>3, <2>1
  <2>3. i = Len(a) + 1 \/ Rank(a[i]) < Rank(b[i])
    BY <1>1, <1>3, <2>1
  <2>4. LessAt(a, b, i)
    BY <2>1, <2>2, <2>3 DEF LessAt
  <2> QED BY <2>1, <2>4
<1>4. ASSUME NEW i \in Nat, LessAt(a, b, i)
      PROVE  Less(a, b)
  <2>1. i \in DOMAIN b /\ Len(a) >= i - 1 /\ (Len(a) = i - 1 \/ Rank(a[i]) < Rank(b[i]))
    BY <1>1, <1>4 DEF LessAt
  <2>2. SubSeq(a, 1, i - 1) = SubSeq(b, 1, i - 1)
    BY <1>2, <1>4 DEF LessAt
  <2> QED BY <2>1, <2>2 DEF Less
<1> QED BY <1>3, <1>4 DEF Less

\* No word comes before itself,
LEMMA LessIrreflexive ==
  ASSUME NEW a \in Seq(Letter)
  PROVE  ~Less(a, a)
<1>1. Len(a) \in Nat
  BY LenProperties
<1>2. ASSUME NEW i \in Nat, LessAt(a, a, i) PROVE FALSE
  <2>1. i \in 1 .. Len(a) /\ Rank(a[i]) < Rank(a[i])
    BY <1>1, <1>2 DEF LessAt
  <2>2. a[i] \in Letter
    BY <2>1, ElementOfSeq
  <2>3. Rank(a[i]) \in Nat
    BY <2>2, RankIs
  <2> QED BY <2>1, <2>3
<1> QED BY <1>2, LessIs

\* the order is transitive,
LEMMA LessTransitive ==
  ASSUME NEW a \in Seq(Letter), NEW b \in Seq(Letter), NEW c \in Seq(Letter),
         Less(a, b), Less(b, c)
  PROVE  Less(a, c)
<1>1. PICK i \in Nat : LessAt(a, b, i)
  BY LessIs
<1>2. PICK k \in Nat : LessAt(b, c, k)
  BY LessIs
<1>3. Len(a) \in Nat /\ Len(b) \in Nat /\ Len(c) \in Nat
  BY LenProperties
<1>4. /\ \A n \in 1 .. Len(a) : Rank(a[n]) \in Nat
      /\ \A n \in 1 .. Len(b) : Rank(b[n]) \in Nat
      /\ \A n \in 1 .. Len(c) : Rank(c[n]) \in Nat
  BY ElementOfSeq, RankIs
<1>5. CASE i < k
  <2>1. i \in 1 .. k - 1 /\ k <= Len(b) + 1 /\ \A j \in 1 .. k - 1 : b[j] = c[j]
    BY <1>1, <1>2, <1>5 DEF LessAt
  <2>2. i \in 1 .. Len(b) /\ i <= Len(a) + 1 /\ \A j \in 1 .. i - 1 : a[j] = b[j]
    BY <1>1 DEF LessAt
  <2>3. i \in 1 .. Len(c)
    BY <1>2, <1>3, <2>1 DEF LessAt
  <2>4. \A j \in 1 .. i - 1 : a[j] = c[j]
    BY <2>1, <2>2
  <2>5. i = Len(a) + 1 \/ Rank(a[i]) < Rank(c[i])
    BY <1>1, <2>1 DEF LessAt
  <2>6. LessAt(a, c, i)
    BY <2>2, <2>3, <2>4, <2>5 DEF LessAt
  <2> QED BY <2>6, LessIs
<1>6. CASE i = k
  <2>1. i \in 1 .. Len(b) /\ i <= Len(a) + 1 /\ \A j \in 1 .. i - 1 : a[j] = b[j]
    BY <1>1 DEF LessAt
  <2>2. i \in 1 .. Len(c) /\ \A j \in 1 .. i - 1 : b[j] = c[j]
    BY <1>2, <1>6 DEF LessAt
  <2>3. i = Len(a) + 1 \/ Rank(a[i]) < Rank(b[i])
    BY <1>1 DEF LessAt
  <2>4. Rank(b[i]) < Rank(c[i])
    BY <1>2, <1>3, <1>6, <2>1 DEF LessAt
  <2>5. i # Len(a) + 1 => i \in 1 .. Len(a)
    BY <1>3, <2>1
  <2>6. i = Len(a) + 1 \/ Rank(a[i]) < Rank(c[i])
    BY <1>4, <2>1, <2>2, <2>3, <2>4, <2>5
  <2>7. LessAt(a, c, i)
    BY <2>1, <2>2, <2>6 DEF LessAt
  <2> QED BY <2>7, LessIs
<1>7. CASE i > k
  BY <1>1, <1>2, <1>3, <1>7, LessIs DEF LessAt
<1> QED BY <1>5, <1>6, <1>7

\* and of two words one comes first.
LEMMA LessTotal ==
  ASSUME NEW a \in Seq(Letter), NEW b \in Seq(Letter), a # b
  PROVE  Less(a, b) \/ Less(b, a)
<1>1. Len(a) \in Nat /\ Len(b) \in Nat
  BY LenProperties
<1> DEFINE T == {i \in Nat \ {0} : i > Len(a) \/ i > Len(b) \/ a[i] # b[i]}
<1>2. PICK m \in T : \A k \in T : m <= k
  <2>1. Len(a) + 1 \in T
    BY <1>1
  <2>2. T \subseteq Nat /\ T # {}
    BY <2>1
  <2> HIDE DEF T
  <2> QED BY <2>2, Least
<1>3. m \in Nat \ {0} /\ \A j \in 1 .. m - 1 : j <= Len(a) /\ j <= Len(b) /\ a[j] = b[j]
  <2>1. ASSUME NEW j \in 1 .. m - 1 PROVE j \notin T
    BY <1>2
  <2> QED BY <1>1, <2>1
<1>4. m <= Len(a) + 1 /\ m <= Len(b) + 1
  <2>1. m = 1 \/ m - 1 \in 1 .. m - 1
    BY <1>3
  <2> QED BY <1>1, <1>3, <2>1
<1>5. CASE m > Len(a) /\ m > Len(b)
  <2>1. Len(a) = Len(b) /\ \A j \in 1 .. Len(a) : a[j] = b[j]
    BY <1>1, <1>3, <1>4, <1>5
  <2>2. a = b
    BY <2>1, SeqEqual
  <2> QED BY <2>2
<1>6. CASE m > Len(a) /\ m <= Len(b)
  <2>1. LessAt(a, b, m)
    BY <1>1, <1>3, <1>4, <1>6 DEF LessAt
  <2> QED BY <1>3, <2>1, LessIs
<1>7. CASE m <= Len(a) /\ m > Len(b)
  <2>1. LessAt(b, a, m)
    BY <1>1, <1>3, <1>4, <1>7 DEF LessAt
  <2> QED BY <1>3, <2>1, LessIs
<1>8. CASE m <= Len(a) /\ m <= Len(b)
  <2>1. a[m] # b[m] /\ m \in 1 .. Len(a) /\ m \in 1 .. Len(b)
    BY <1>1, <1>2, <1>3, <1>8
  <2>2. a[m] \in Letter /\ b[m] \in Letter
    BY <2>1, ElementOfSeq
  <2>3. Rank(a[m]) \in Nat /\ Rank(b[m]) \in Nat /\ Rank(a[m]) # Rank(b[m])
    BY <2>1, <2>2, RankIs
  <2>4. Rank(a[m]) < Rank(b[m]) \/ Rank(b[m]) < Rank(a[m])
    BY <2>3
  <2>5. LessAt(a, b, m) \/ LessAt(b, a, m)
    BY <1>3, <1>4, <2>1, <2>4 DEF LessAt
  <2> QED BY <1>3, <2>5, LessIs
<1> QED BY <1>1, <1>3, <1>5, <1>6, <1>7, <1>8

\* The order of the pairs of a std::set is as the one of its words.
Pair == Seq(Letter) \X Seq(Letter)
LEMMA PairOrder ==
  ASSUME NEW p \in Pair, NEW q \in Pair, NEW r \in Pair
  PROVE  /\ ~PairLess(p, p)
         /\ PairLess(p, q) /\ PairLess(q, r) => PairLess(p, r)
         /\ p # q => PairLess(p, q) \/ PairLess(q, p)
<1>1. /\ p = <<p[1], p[2]>> /\ p[1] \in Seq(Letter) /\ p[2] \in Seq(Letter)
      /\ q = <<q[1], q[2]>> /\ q[1] \in Seq(Letter) /\ q[2] \in Seq(Letter)
      /\ r = <<r[1], r[2]>> /\ r[1] \in Seq(Letter) /\ r[2] \in Seq(Letter)
  BY DEF Pair
<1>2. ~PairLess(p, p)
  BY <1>1, LessIrreflexive DEF PairLess
<1>3. ASSUME PairLess(p, q), PairLess(q, r) PROVE PairLess(p, r)
  <2>1. Less(p[1], q[1]) /\ Less(q[1], r[1]) => Less(p[1], r[1])
    BY <1>1, LessTransitive
  <2>2. Less(p[2], q[2]) /\ Less(q[2], r[2]) => Less(p[2], r[2])
    BY <1>1, LessTransitive
  <2> QED BY <1>3, <2>1, <2>2 DEF PairLess
<1>4. ASSUME p # q PROVE PairLess(p, q) \/ PairLess(q, p)
  <2>1. p[1] # q[1] => Less(p[1], q[1]) \/ Less(q[1], p[1])
    BY <1>1, LessTotal
  <2>2. p[2] # q[2] => Less(p[2], q[2]) \/ Less(q[2], p[2])
    BY <1>1, LessTotal
  <2>3. p[1] # q[1] \/ p[2] # q[2]
    BY <1>1, <1>4
  <2> QED BY <2>1, <2>2, <2>3 DEF PairLess
<1> QED BY <1>2, <1>3, <1>4

\* InOrder has the pairs of a finite set, each once.
LEMMA InOrderIs ==
  ASSUME NEW pairs, IsFiniteSet(pairs), pairs \subseteq Pair
  PROVE  /\ Cardinality(pairs) \in Nat
         /\ InOrder(pairs) \in [1 .. Cardinality(pairs) -> pairs]
         /\ \A p \in pairs : \E i \in 1 .. Cardinality(pairs) : InOrder(pairs)[i] = p
<1> DEFINE n == Cardinality(pairs)
           Below(p) == {q \in pairs : PairLess(q, p)}
           rank == [p \in pairs |-> Cardinality(Below(p))]
<1>1. n \in Nat
  BY FS_CardinalityType
<1>2. ASSUME NEW p \in pairs
      PROVE  /\ IsFiniteSet(Below(p)) /\ Cardinality(Below(p)) \in Nat
             /\ Cardinality(Below(p)) < n
  <2>1. Below(p) \subseteq pairs /\ p \notin Below(p)
    BY PairOrder
  <2> HIDE DEF Below
  <2>2. Below(p) \subseteq pairs \ {p}
    BY <2>1
  <2>3. IsFiniteSet(pairs \ {p}) /\ Cardinality(pairs \ {p}) = n - 1
    BY FS_RemoveElement
  <2>4. IsFiniteSet(Below(p)) /\ Cardinality(Below(p)) <= n - 1
    BY <2>2, <2>3, FS_Subset
  <2>5. Cardinality(Below(p)) \in Nat
    BY <2>4, FS_CardinalityType
  <2> HIDE DEF n
  <2> QED BY <1>1, <2>4, <2>5
<1>3. ASSUME NEW p \in pairs, NEW q \in pairs, PairLess(p, q)
      PROVE  Cardinality(Below(p)) < Cardinality(Below(q))
  <2>1. Below(p) \subseteq Below(q) /\ p \in Below(q) /\ p \notin Below(p)
    BY <1>3, PairOrder
  <2> HIDE DEF Below
  <2>2. Below(p) \subseteq Below(q) \ {p}
    BY <2>1
  <2>3. IsFiniteSet(Below(q) \ {p}) /\ Cardinality(Below(q) \ {p}) = Cardinality(Below(q)) - 1
    BY <1>2, <2>1, FS_RemoveElement
  <2>4. Cardinality(Below(p)) <= Cardinality(Below(q)) - 1
    BY <2>2, <2>3, FS_Subset
  <2> QED BY <1>2, <2>4
<1>4. ASSUME NEW p \in pairs, NEW q \in pairs, p # q
      PROVE  Cardinality(Below(p)) # Cardinality(Below(q))
  <2>1. PairLess(p, q) \/ PairLess(q, p)
    BY <1>4, PairOrder
  <2> HIDE DEF Below
  <2> QED BY <1>2, <1>3, <2>1
<1> HIDE DEF Below
<1>5. rank \in Injection(pairs, 0 .. n - 1)
  <2>1. rank \in [pairs -> 0 .. n - 1]
    <3>1. \A p \in pairs : Cardinality(Below(p)) \in 0 .. n - 1
      <4> HIDE DEF n
      <4> QED BY <1>1, <1>2
    <3> QED BY <3>1
  <2> QED BY <1>4, <2>1, Fun_IsInj
<1>6. rank \in Surjection(pairs, 0 .. n - 1)
  <2>1. IsFiniteSet(0 .. n - 1) /\ Cardinality(0 .. n - 1) = n
    BY <1>1, FS_Interval
  <2> HIDE DEF rank
  <2> QED BY <1>5, <2>1, FS_Injection
<1>7. ASSUME NEW i \in 1 .. n
      PROVE  \E p \in pairs : Cardinality(Below(p)) = i - 1
  <2>1. i - 1 \in 0 .. n - 1
    BY <1>1
  <2>2. PICK p \in pairs : rank[p] = i - 1
    BY <1>6, <2>1 DEF Surjection
  <2> QED BY <2>2
<1>8. InOrder(pairs) = [i \in 1 .. n |-> CHOOSE p \in pairs : Cardinality(Below(p)) = i - 1]
  BY DEF InOrder, Below
<1>9. ASSUME NEW i \in 1 .. n
      PROVE  InOrder(pairs)[i] \in pairs /\ Cardinality(Below(InOrder(pairs)[i])) = i - 1
  BY <1>7, <1>8
<1>10. InOrder(pairs) \in [1 .. n -> pairs]
  BY <1>8, <1>9
<1>11. ASSUME NEW p \in pairs PROVE \E i \in 1 .. n : InOrder(pairs)[i] = p
  <2>1. PICK i : i = Cardinality(Below(p)) + 1
    OBVIOUS
  <2>2. i \in 1 .. n /\ i - 1 = Cardinality(Below(p))
    BY <1>1, <1>2, <2>1
  <2>3. InOrder(pairs)[i] = p
    BY <1>4, <1>9, <2>2
  <2> QED BY <2>2, <2>3
<1> QED BY <1>1, <1>10, <1>11

-----------------------------------------------------------------------------
(***************************************************************************)
(* The table of listen entries                                             *)
(***************************************************************************)

\* What the parser leaves: server blocks with finitely many addresses.
ServerOk(s) ==
  /\ {"listen", "name"} \subseteq DOMAIN s
  /\ IsFiniteSet(s.listen) /\ s.listen \subseteq Pair
  /\ s.name \in Seq(STRING)
Blocks(s) == (\E S : s \in Seq(S)) /\ \A b \in DOMAIN s : ServerOk(s[b])

\* An entry is one of its block, and each address of each block has one.
FromBlock(e) ==
  /\ e.block \in DOMAIN servers /\ e.name = servers[e.block].name
  /\ <<e.ip, e.port>> \in servers[e.block].listen
FromBlocks(t) == \A k \in DOMAIN t : FromBlock(t[k])
AllListed(t) ==
  \A b \in DOMAIN servers : \A pair \in servers[b].listen : \E k \in DOMAIN t :
    t[k].block = b /\ <<t[k].ip, t[k].port>> = pair

\* setTableOfListen makes an entry of each address of each block, in their order.
LEMMA TableEntries ==
  ASSUME Blocks(servers)
  PROVE  LET t == TableOfServers
         IN Entries(t) /\ NoFds(t) /\ FromBlocks(t) /\ AllListed(t) /\ Rising(t)
<1>1. PICK n \in Nat : DOMAIN servers = 1 .. n /\ \A b \in 1 .. n : ServerOk(servers[b])
  BY LenProperties DEF Blocks
<1> DEFINE pairs(b) == InOrder(servers[b].listen)
           row(b) == [i \in DOMAIN pairs(b) |-> Entry(b, pairs(b)[i])]
           rows == [b \in DOMAIN servers |-> row(b)]
           all == {Entry(b, p) : b \in 1 .. n, p \in Pair}
           S == {e \in all : DOMAIN e = Fields /\ e.fd = NoFd /\ FromBlock(e)}
<1>2. ASSUME NEW b \in 1 .. n, NEW p \in servers[b].listen
      PROVE  Entry(b, p) \in S /\ Entry(b, p).block = b /\ <<Entry(b, p).ip, Entry(b, p).port>> = p
  <2>1. p \in Pair
    BY <1>1 DEF ServerOk
  <2>2. p = <<p[1], p[2]>>
    BY <2>1 DEF Pair
  <2>3. DOMAIN Entry(b, p) = Fields /\ Entry(b, p).fd = NoFd
    BY DEF Entry, Fields
  <2>4. /\ Entry(b, p).block = b /\ <<Entry(b, p).ip, Entry(b, p).port>> = p
        /\ Entry(b, p).name = servers[b].name
    BY <2>2 DEF Entry
  <2>5. FromBlock(Entry(b, p))
    BY <1>1, <2>4 DEF FromBlock
  <2> QED BY <2>1, <2>3, <2>4, <2>5
<1>3. ASSUME NEW b \in 1 .. n
      PROVE  \E m \in Nat : /\ pairs(b) \in [1 .. m -> servers[b].listen]
                            /\ \A p \in servers[b].listen : \E i \in 1 .. m : pairs(b)[i] = p
  BY <1>1, InOrderIs DEF ServerOk
<1> HIDE DEF pairs, S
<1>4. ASSUME NEW b \in 1 .. n
      PROVE  /\ row(b) \in Seq(S) /\ \A i \in DOMAIN row(b) : row(b)[i].block = b
             /\ \A p \in servers[b].listen : Held(Entry(b, p), row(b))
  <2>1. PICK m \in Nat : /\ pairs(b) \in [1 .. m -> servers[b].listen]
                         /\ \A p \in servers[b].listen : \E i \in 1 .. m : pairs(b)[i] = p
    BY <1>3
  <2>2. DOMAIN row(b) = 1 .. m /\ \A i \in 1 .. m : row(b)[i] = Entry(b, pairs(b)[i])
    BY <2>1
  <2>3. \A i \in 1 .. m : row(b)[i] \in S /\ row(b)[i].block = b
    BY <1>2, <2>1, <2>2
  <2>4. row(b) = [i \in 1 .. m |-> row(b)[i]]
    BY <2>2
  <2> HIDE DEF row
  <2>5. row(b) \in [1 .. m -> S]
    BY <2>3, <2>4
  <2>6. row(b) \in Seq(S)
    BY <2>5, SeqDef
  <2>7. ASSUME NEW p \in servers[b].listen PROVE Held(Entry(b, p), row(b))
    BY <2>1, <2>2 DEF Held
  <2> QED BY <2>2, <2>3, <2>6, <2>7
<1>5. /\ rows \in Seq(Seq(S)) /\ DOMAIN rows = 1 .. n
      /\ \A b \in 1 .. n : rows[b] = row(b)
  <2> HIDE DEF row
  <2>1. rows \in [1 .. n -> Seq(S)] /\ \A b \in 1 .. n : rows[b] = row(b)
    BY <1>1, <1>4
  <2> HIDE DEF rows
  <2> QED BY <2>1, SeqDef
<1>6. TableOfServers = FlattenSeq(rows)
  BY Zenon DEF TableOfServers, pairs
<1> HIDE DEF row, rows
<1>7. PICK t : t = FlattenSeq(rows)
  OBVIOUS
<1>8. t \in Seq(S)
  BY <1>5, <1>7, Flattened
<1>9. Entries(t) /\ NoFds(t) /\ FromBlocks(t)
  <2>1. Len(t) \in Nat /\ DOMAIN t = 1 .. Len(t)
    BY <1>8, LenProperties
  <2>2. \A k \in DOMAIN t : t[k] \in S
    BY <1>8, <2>1, ElementOfSeq
  <2>3. \A e \in S : DOMAIN e = Fields /\ e.fd = NoFd /\ FromBlock(e)
    BY DEF S
  <2>4. t = [k \in 1 .. Len(t) |-> t[k]]
    BY <1>8, SeqDef
  <2> QED BY <2>1, <2>2, <2>3, <2>4 DEF Entries, NoFds, FromBlocks
<1>10. AllListed(t)
  <2> SUFFICES ASSUME NEW b \in DOMAIN servers, NEW p \in servers[b].listen
               PROVE  \E k \in DOMAIN t : t[k].block = b /\ <<t[k].ip, t[k].port>> = p
    BY DEF AllListed
  <2>1. b \in DOMAIN rows /\ Held(Entry(b, p), rows[b])
    BY <1>1, <1>4, <1>5
  <2>2. Held(Entry(b, p), t)
    BY <1>5, <1>7, <2>1, FlattenHas
  <2> QED BY <1>1, <1>2, <2>2 DEF Held
<1>11. Rising(t)
  BY <1>4, <1>5, <1>7, FlattenRises
<1> QED BY <1>6, <1>7, <1>9, <1>10, <1>11

-----------------------------------------------------------------------------
(***************************************************************************)
(* What the parser leaves                                                  *)
(***************************************************************************)

\* Where the first of a letter is, and what is before and behind it.
LEMMA AroundIs ==
  ASSUME NEW w \in Seq(STRING), NEW c
  PROVE  Before(w, c) \in Seq(STRING) /\ Behind(w, c) \in Seq(STRING)
<1>1. PICK n \in Nat : n = Len(w) /\ DOMAIN w = 1 .. n
  BY LenProperties
<1> DEFINE I == {i \in 1 .. n : w[i] = c}
<1>2. PICK i : i = SelectInSeq(w, LAMBDA x : x = c)
  OBVIOUS
<1>3. i = IF I # {} THEN Min(I) ELSE 0
  BY <1>1, <1>2 DEF SelectInSeq
<1>4. i \in 0 .. n
  <2>1. I \subseteq Nat /\ I \subseteq 0 .. n
    OBVIOUS
  <2> HIDE DEF I
  <2>2. I # {} => Min(I) \in I
    BY <2>1, MinIs
  <2>3. 0 \in 0 .. n
    OBVIOUS
  <2> QED BY <1>3, <2>1, <2>2, <2>3
<1>5. \A k \in 1 .. n : w[k] \in STRING
  BY <1>1, ElementOfSeq
<1>6. SubSeq(w, 1, i - 1) \in Seq(STRING) /\ SubSeq(w, i + 1, n) \in Seq(STRING)
  <2>1. 1 .. (i - 1) \subseteq 1 .. n /\ (i + 1) .. n \subseteq 1 .. n
    BY <1>4
  <2>2. 1 \in Int /\ i - 1 \in Int /\ i + 1 \in Int /\ n \in Int
    BY <1>4
  <2> QED BY <1>5, <2>1, <2>2, SubSeqProperties
<1> QED BY <1>1, <1>2, <1>6 DEF Before, Behind

\* A word of letters.
LEMMA Spelled ==
  ASSUME NEW S, NEW w \in Seq(STRING), \A k \in DOMAIN w : w[k] \in S
  PROVE  w \in Seq(S)
<1>1. PICK n \in Nat : n = Len(w) /\ DOMAIN w = 1 .. n
  BY LenProperties
<1>2. w = [k \in 1 .. n |-> w[k]]
  BY <1>1, SeqDef
<1>3. w \in [1 .. n -> S]
  BY <1>1, <1>2
<1> QED BY <1>3, SeqDef

\* A valid port is of digits,
LEMMA PortLetters ==
  ASSUME NEW p \in Seq(STRING), ValidPort(p)
  PROVE  p \in Seq(Letter)
<1>1. \A k \in DOMAIN p : p[k] \in Letter
  <2>1. ToSet(p) \subseteq DOMAIN DigitValue
    BY DEF ValidPort
  <2> QED BY <2>1 DEF ToSet, Letter
<1> QED BY <1>1, Spelled

\* and a valid host of digits and dots: what is no dot is of one of the numbers.
LEMMA HostLetters ==
  ASSUME NEW h \in Seq(STRING), ValidHost(h)
  PROVE  h \in Seq(Letter)
<1>1. CASE h = <<"localhost">>
  <2>1. "localhost" \in Letter
    BY DEF Letter
  <2> QED BY <1>1, <2>1
<1>2. CASE h # <<"localhost">>
  <2>1. PICK n \in Nat : n = Len(h) /\ DOMAIN h = 1 .. n
    BY LenProperties
  <2> DEFINE Sep(i) == i = 0 \/ i = n + 1 \/ h[i] = "."
  <2>2. ASSUME NEW i \in 0 .. n, NEW j \in (i + 1) .. (n + 1), Sep(i), Sep(j),
               \A k \in (i + 1) .. (j - 1) : ~Sep(k)
        PROVE  IsNum(SubSeq(h, i + 1, j - 1))
    <3>1. i # n + 1 /\ j # 0 /\ \A k \in (i + 1) .. (j - 1) : h[k] # "."
      BY <2>2
    <3> QED BY <1>2, <2>1, <2>2, <3>1 DEF ValidHost
  <2>3. ASSUME NEW k \in 1 .. n, h[k] # "." PROVE h[k] \in Letter
    <3>1. PICK i \in {x \in 0 .. k : Sep(x)} : \A x \in {y \in 0 .. k : Sep(y)} : x <= i
      <4>1. 0 \in {x \in 0 .. k : Sep(x)}
        OBVIOUS
      <4>2. k \in Nat /\ {x \in 0 .. k : Sep(x)} \subseteq 0 .. k
        OBVIOUS
      <4> HIDE DEF Sep
      <4> QED BY <4>1, <4>2, Greatest
    <3>2. PICK j \in {x \in k .. n + 1 : Sep(x)} : \A x \in {y \in k .. n + 1 : Sep(y)} : j <= x
      <4>1. n + 1 \in {x \in k .. n + 1 : Sep(x)}
        OBVIOUS
      <4>2. {x \in k .. n + 1 : Sep(x)} \subseteq Nat
        OBVIOUS
      <4> HIDE DEF Sep
      <4> QED BY <4>1, <4>2, Least
    <3>3. ~Sep(k) /\ i < k /\ k < j
      BY <2>3, <3>1, <3>2
    <3> HIDE DEF Sep
    <3>4. i \in 0 .. n /\ j \in (i + 1) .. (n + 1) /\ Sep(i) /\ Sep(j)
      BY <3>1, <3>2, <3>3
    <3>5. ASSUME NEW x \in (i + 1) .. (j - 1) PROVE ~Sep(x)
      <4>1. CASE x <= k
        BY <3>1, <3>4, <4>1
      <4>2. CASE x > k
        BY <3>2, <3>4, <4>2
      <4> QED BY <3>4, <4>1, <4>2
    <3>6. IsNum(SubSeq(h, i + 1, j - 1))
      BY <2>2, <3>4, <3>5
    <3>7. /\ Len(SubSeq(h, i + 1, j - 1)) = j - i - 1
          /\ SubSeq(h, i + 1, j - 1)[k - i] = h[k]
      <4>1. \A x \in (i + 1) .. (j - 1) : h[x] \in STRING
        <5>1. \A x \in (i + 1) .. (j - 1) : x \in 1 .. n
          BY <3>4
        <5> QED BY <2>1, <5>1, ElementOfSeq
      <4>2. i + 1 \in Int /\ j - 1 \in Int /\ k - i \in 1 .. (j - 1) - (i + 1) + 1
        BY <3>3, <3>4
      <4>3. (i + 1) + (k - i) - 1 = k
        BY <3>4
      <4>4. /\ Len(SubSeq(h, i + 1, j - 1)) = (j - 1) - (i + 1) + 1
            /\ SubSeq(h, i + 1, j - 1)[k - i] = h[(i + 1) + (k - i) - 1]
        BY <3>3, <3>4, <4>1, <4>2, SubSeqProperties
      <4>5. (j - 1) - (i + 1) + 1 = j - i - 1
        BY <3>4
      <4> QED BY <4>3, <4>4, <4>5, Zenon
    <3>8. k - i \in DOMAIN SubSeq(h, i + 1, j - 1)
      <4>1. SubSeq(h, i + 1, j - 1) \in Seq(STRING)
        <5>1. \A x \in (i + 1) .. (j - 1) : h[x] \in STRING
          <6>1. \A x \in (i + 1) .. (j - 1) : x \in 1 .. n
            BY <3>4
          <6> QED BY <2>1, <6>1, ElementOfSeq
        <5>2. i + 1 \in Int /\ j - 1 \in Int
          BY <3>4
        <5> QED BY <5>1, <5>2, SubSeqProperties
      <4>2. k - i \in 1 .. j - i - 1
        BY <3>3, <3>4
      <4> QED BY <3>7, <4>1, <4>2, LenProperties
    <3> QED BY <3>6, <3>7, <3>8 DEF IsNum, ToSet, Letter
  <2>4. \A k \in DOMAIN h : h[k] \in Letter
    <3>1. "." \in Letter
      BY DEF Letter
    <3> QED BY <2>1, <2>3, <3>1
  <2> QED BY <2>4, Spelled
<1> QED BY <1>1, <1>2

\* Each number up to the size of a finite set of numbers is the place of one of them.
Place(T, i) == Cardinality({j \in T : j <= i})
LEMMA Places ==
  ASSUME NEW T, T \subseteq Nat, IsFiniteSet(T)
  PROVE  /\ Cardinality(T) \in Nat
         /\ \A k \in 1 .. Cardinality(T) : \E i \in T : Place(T, i) = k
<1> DEFINE n == Cardinality(T)
           UpThrough(i) == {j \in T : j <= i}
           place == [i \in T |-> Cardinality(UpThrough(i))]
<1>1. n \in Nat
  BY FS_CardinalityType
<1>2. ASSUME NEW i \in T
      PROVE  /\ IsFiniteSet(UpThrough(i)) /\ Cardinality(UpThrough(i)) \in 1 .. n
  <2>1. UpThrough(i) \subseteq T /\ i \in UpThrough(i)
    OBVIOUS
  <2> HIDE DEF UpThrough
  <2>2. IsFiniteSet(UpThrough(i)) /\ Cardinality(UpThrough(i)) <= n
    BY <2>1, FS_Subset
  <2>3. Cardinality(UpThrough(i)) \in Nat /\ Cardinality(UpThrough(i)) # 0
    BY <2>1, <2>2, FS_CardinalityType, FS_EmptySet
  <2> HIDE DEF n
  <2> QED BY <1>1, <2>2, <2>3
<1>3. ASSUME NEW i \in T, NEW j \in T, i < j
      PROVE  Cardinality(UpThrough(i)) < Cardinality(UpThrough(j))
  <2>0. i \in Nat /\ j \in Nat /\ \A x \in T : x \in Nat
    OBVIOUS
  <2>1. UpThrough(i) \subseteq UpThrough(j) \ {j} /\ j \in UpThrough(j)
    <3>1. ASSUME NEW x \in UpThrough(i) PROVE x \in UpThrough(j) /\ x # j
      <4>1. x \in T /\ x <= i
        OBVIOUS
      <4>2. x <= j /\ x # j
        BY <1>3, <2>0, <4>1
      <4> QED BY <4>1, <4>2
    <3>2. j \in UpThrough(j)
      BY <2>0
    <3> HIDE DEF UpThrough
    <3> QED BY <3>1, <3>2
  <2> HIDE DEF UpThrough
  <2>2. /\ IsFiniteSet(UpThrough(j) \ {j})
        /\ Cardinality(UpThrough(j) \ {j}) = Cardinality(UpThrough(j)) - 1
    BY <1>2, <2>1, FS_RemoveElement
  <2>3. Cardinality(UpThrough(i)) <= Cardinality(UpThrough(j)) - 1
    BY <2>1, <2>2, FS_Subset
  <2>4. Cardinality(UpThrough(i)) \in Nat /\ Cardinality(UpThrough(j)) \in Nat
    BY <1>2, FS_CardinalityType
  <2> QED BY <2>3, <2>4
<1>4. ASSUME NEW i \in T, NEW j \in T, i # j
      PROVE  Cardinality(UpThrough(i)) # Cardinality(UpThrough(j))
  <2>1. i < j \/ j < i
    BY <1>4
  <2>2. Cardinality(UpThrough(i)) \in Nat /\ Cardinality(UpThrough(j)) \in Nat
    BY <1>2, FS_CardinalityType
  <2> HIDE DEF UpThrough
  <2> QED BY <1>3, <2>1, <2>2
<1> HIDE DEF UpThrough
<1>5. place \in Injection(T, 1 .. n)
  <2>1. place \in [T -> 1 .. n]
    <3> HIDE DEF n
    <3> QED BY <1>2
  <2> QED BY <1>4, <2>1, Fun_IsInj
<1>6. place \in Surjection(T, 1 .. n)
  <2>1. IsFiniteSet(1 .. n) /\ Cardinality(1 .. n) = n
    BY <1>1, FS_Interval
  <2> HIDE DEF place
  <2> QED BY <1>5, <2>1, FS_Injection
<1>7. ASSUME NEW k \in 1 .. n
      PROVE  \E i \in T : Cardinality(UpThrough(i)) = k
  <2>1. PICK i \in T : place[i] = k
    BY <1>6 DEF Surjection
  <2> QED BY <2>1
<1>8. \A i \in T : Place(T, i) = Cardinality(UpThrough(i))
  BY DEF Place, UpThrough
<1> QED BY <1>1, <1>7, <1>8

\* The words of the tokens are those of the text.
Worded(t) == DOMAIN t \subseteq Nat /\ \A i \in DOMAIN t : t[i].word \in Seq(STRING)
LEMMA TokensWorded ==
  ASSUME NEW p \in Seq(Seq(STRING))
  PROVE  Worded(Tokenize(p))
<1> DEFINE S == {Token(w) : w \in Seq(STRING)} \cup {EOF}
           kept == {i \in DOMAIN p : ~InComment(p, i) /\ p[i] \notin Blank}
           place == [i \in kept |-> Cardinality({j \in kept : j <= i})]
           made == [k \in 1 .. Cardinality(kept) |-> Token(p[CHOOSE i \in kept : place[i] = k])]
<1>1. \A e \in S : e.word \in Seq(STRING)
  <2>1. \A w \in Seq(STRING) : Token(w).word = w
    BY DEF Token
  <2>2. EOF.word = <<>> /\ <<>> \in Seq(STRING)
    BY DEF EOF
  <2> QED BY <2>1, <2>2
<1>2. PICK n \in Nat : n = Len(p) /\ DOMAIN p = 1 .. n
  BY LenProperties
<1>3. kept \subseteq Nat /\ IsFiniteSet(kept) /\ kept \subseteq DOMAIN p
  <2>1. kept \subseteq 1 .. n
    BY <1>2
  <2>2. IsFiniteSet(1 .. n)
    BY FS_Interval
  <2> HIDE DEF kept
  <2>3. IsFiniteSet(kept)
    BY <2>1, <2>2, FS_Subset
  <2>4. 1 .. n \subseteq Nat
    OBVIOUS
  <2> QED BY <1>2, <2>1, <2>3, <2>4
<1>4. Tokenize(p) = Append(made, EOF)
  BY Zenon DEF Tokenize
<1>5. EOF \in S
  OBVIOUS
<1>6. \A i \in DOMAIN p : Token(p[i]) \in S
  BY ElementOfSeq
<1> HIDE DEF S, kept
<1>7. Cardinality(kept) \in Nat
  BY <1>3, Places
<1>8. ASSUME NEW k \in 1 .. Cardinality(kept) PROVE made[k] \in S
  <2>1. \E i \in kept : place[i] = k
    BY <1>3, Places DEF Place
  <2> DEFINE i == CHOOSE i \in kept : place[i] = k
  <2>2. i \in kept
    <3> HIDE DEF place
    <3> QED BY <2>1
  <2>3. made[k] = Token(p[i])
    OBVIOUS
  <2> HIDE DEF i, made
  <2> QED BY <1>3, <1>6, <2>2, <2>3
<1>9. made \in Seq(S)
  <2>1. made \in [1 .. Cardinality(kept) -> S]
    <3>1. DOMAIN made = 1 .. Cardinality(kept) /\ made = [k \in DOMAIN made |-> made[k]]
      OBVIOUS
    <3> HIDE DEF made
    <3> QED BY <1>8, <3>1
  <2> HIDE DEF made
  <2> QED BY <1>7, <2>1, SeqDef
<1> HIDE DEF made
<1>10. Tokenize(p) \in Seq(S)
  BY <1>4, <1>5, <1>9, AppendProperties
<1>11. /\ DOMAIN Tokenize(p) = 1 .. Len(Tokenize(p)) /\ Len(Tokenize(p)) \in Nat
       /\ \A i \in DOMAIN Tokenize(p) : Tokenize(p)[i] \in S
  BY <1>10, LenProperties, ElementOfSeq
<1> QED BY <1>1, <1>11 DEF Worded

\* The argument of a directive that takes one word is a word.
LEMMA WordArgument ==
  ASSUME Worded(tokens), index \in Nat, NEW d \in {"listen", "server_name"},
         \A k \in DOMAIN Shape[d] : Is(index + k, Shape[d][k])
  PROVE  Args(d)[1] \in Seq(STRING)
<1>1. Shape[d] = <<"STR">> /\ Len(Shape[d]) = 1 /\ DOMAIN Shape[d] = {1}
  BY DEF Shape
<1>2. index + 1 \in DOMAIN tokens
  BY <1>1 DEF Is
<1>3. ArgsEnd(d) = index + 1 + 1
  BY <1>1 DEF ArgsEnd
<1>4. ArgsEnd(d) - index - 1 = 1
  BY <1>3
<1>5. Args(d)[1] = tokens[index + 1].word
  BY <1>4 DEF Args
<1> QED BY <1>2, <1>5 DEF Worded

\* A directive keeps the block well formed.
LEMMA WithOk ==
  ASSUME NEW s, ServerOk(s), NEW d \in InServer, NEW a, Legal(s, d, a),
         d \in {"listen", "server_name"} => a[1] \in Seq(STRING)
  PROVE  ServerOk(With(s, d, a))
<1>1. CASE d = "listen"
  <2> DEFINE pair == <<Before(a[1], ":"), Behind(a[1], ":")>>
  <2>1. pair \in Pair
    <3>1. ValidHost(Before(a[1], ":")) /\ ValidPort(Behind(a[1], ":")) /\ a[1] \in Seq(STRING)
      BY <1>1 DEF Legal
    <3>2. Before(a[1], ":") \in Seq(Letter) /\ Behind(a[1], ":") \in Seq(Letter)
      BY <3>1, AroundIs, HostLetters, PortLetters
    <3> QED BY <3>2 DEF Pair
  <2> HIDE DEF pair
  <2>2. IsFiniteSet({pair}) /\ IsFiniteSet({})
    BY FS_Singleton, FS_EmptySet
  <2>3. IsFiniteSet(s.listen \cup {pair}) /\ IsFiniteSet({} \cup {pair})
    BY <2>2, FS_Union DEF ServerOk
  <2>4. With(s, d, a) = WithListen(s, a[1])
    BY <1>1 DEF With
  <2>5. /\ DOMAIN WithListen(s, a[1]) = DOMAIN s
        /\ WithListen(s, a[1]).listen = (IF s.listenSet THEN s.listen ELSE {}) \cup {pair}
        /\ WithListen(s, a[1]).name = s.name
    BY DEF WithListen, ServerOk, pair
  <2> QED BY <2>1, <2>3, <2>4, <2>5 DEF ServerOk
<1>2. CASE d = "server_name"
  <2>1. With(s, d, a) = [s EXCEPT !.name = IF @ = <<>> THEN a[1] ELSE @]
    BY <1>2 DEF With
  <2>2. /\ DOMAIN With(s, d, a) = DOMAIN s /\ With(s, d, a).listen = s.listen
        /\ With(s, d, a).name \in {a[1], s.name}
    BY <2>1 DEF ServerOk
  <2> QED BY <1>2, <2>2 DEF ServerOk
<1>3. CASE d \notin {"listen", "server_name"}
  <2>1. /\ DOMAIN With(s, d, a) = DOMAIN s
        /\ With(s, d, a).listen = s.listen /\ With(s, d, a).name = s.name
    BY <1>3 DEF With, InServer, ServerOk
  <2> QED BY <2>1 DEF ServerOk
<1> QED BY <1>1, <1>2, <1>3

\* The parser's index is a number, and its blocks are well formed.
ConfigInv ==
  /\ Worded(tokens) /\ index \in Nat
  /\ ServerOk(serv) /\ Blocks(servers)

LEMMA NewServerOk == ServerOk(NewServer)
<1>1. "0" \in Letter /\ "8" \in Letter /\ "." \in Letter
  BY DigitsAre DEF Letter
<1>2. DefaultListen \in Pair
  <2>1. AnyAddress \in Seq(Letter)
    BY <1>1 DEF AnyAddress
  <2>2. <<"8", "0", "8", "0">> \in Seq(Letter)
    BY <1>1
  <2> QED BY <2>1, <2>2 DEF DefaultListen, Pair
<1>3. /\ {"listen", "name"} \subseteq DOMAIN NewServer /\ NewServer.listen = {DefaultListen}
      /\ NewServer.name = <<>> /\ <<>> \in Seq(STRING)
  BY DEF NewServer
<1> QED BY <1>2, <1>3, FS_Singleton DEF ServerOk

LEMMA ConfigInitially == ConfigInit => ConfigInv
<1> SUFFICES ASSUME ConfigInit PROVE ConfigInv
  OBVIOUS
<1>1. Worded(tokens)
  BY TokensWorded, TextAssumption DEF ConfigInit
<1>2. Blocks(servers)
  <2>1. <<>> \in Seq({}) /\ DOMAIN <<>> = {}
    OBVIOUS
  <2> QED BY <2>1 DEF ConfigInit, Blocks
<1>3. index \in Nat /\ ServerOk(serv)
  BY NewServerOk DEF ConfigInit
<1> QED BY <1>1, <1>2, <1>3 DEF ConfigInv

\* Every step of the parser keeps that.
LEMMA ConfigStep ==
  ASSUME ConfigInv, ConfigNext
  PROVE  ConfigInv'
<1>1. /\ Worded(tokens) /\ index \in Nat /\ ServerOk(serv) /\ Blocks(servers)
      /\ index + 1 \in Nat /\ index + 2 \in Nat /\ index + 3 \in Nat
  BY DEF ConfigInv
<1>2. CASE OpenServer
  BY <1>1, <1>2, NewServerOk DEF OpenServer, ConfigInv
<1>3. CASE OpenLocation
  BY <1>1, <1>3 DEF OpenLocation, ConfigInv
<1>4. ASSUME NEW s, NEW d, NEW known, Readable(s, d, known)
      PROVE  ArgsEnd(d) + 1 \in Nat
  <2>1. ArgsEnd(d) \in DOMAIN tokens
    BY <1>4 DEF Readable, Is
  <2> QED BY <1>1, <2>1 DEF Worded
<1>5. CASE parseServerDir
  <2>1. Readable(serv, Directive, InServer)
    BY <1>5 DEF parseServerDir, AtServerDir
  <2>2. Directive \in InServer /\ Legal(serv, Directive, Args(Directive))
    BY <2>1 DEF Readable
  <2>3. Directive \in {"listen", "server_name"} => Args(Directive)[1] \in Seq(STRING)
    <3>1. Directive \in {"listen", "server_name"} => Directive \in DOMAIN Shape
      BY DEF Shape
    <3> QED BY <1>1, <2>1, <3>1, WordArgument DEF Readable
  <2>4. ServerOk(With(serv, Directive, Args(Directive)))
    BY <1>1, <2>2, <2>3, WithOk
  <2>5. ArgsEnd(Directive) + 1 \in Nat
    BY <1>4, <2>1
  <2> QED BY <1>1, <1>5, <2>4, <2>5 DEF parseServerDir, ConfigInv
<1>6. CASE parseLocationDir
  <2>1. ArgsEnd(Directive) + 1 \in Nat
    BY <1>4, <1>6 DEF parseLocationDir, AtLocationDir
  <2> QED BY <1>1, <1>6, <2>1 DEF parseLocationDir, ConfigInv
<1>7. CASE CloseLocation
  <2>1. /\ DOMAIN serv' = DOMAIN serv /\ serv'.listen = serv.listen /\ serv'.name = serv.name
    BY <1>1, <1>7 DEF CloseLocation, ServerOk
  <2>2. ServerOk(serv')
    BY <1>1, <2>1 DEF ServerOk
  <2> QED BY <1>1, <1>7, <2>2 DEF CloseLocation, ConfigInv
<1>8. CASE CloseServer
  <2>1. PICK S : servers \in Seq(S)
    BY <1>1 DEF Blocks
  <2>2. PICK new : new = MapLocationsRoot(serv)
    OBVIOUS
  <2>3. DOMAIN new = DOMAIN serv /\ new.listen = serv.listen /\ new.name = serv.name
    BY <1>1, <2>2 DEF ServerOk, MapLocationsRoot
  <2>4. ServerOk(new)
    BY <1>1, <2>3 DEF ServerOk
  <2>5. servers' = Append(servers, new)
    BY <1>8, <2>2 DEF CloseServer
  <2>6. Blocks(servers')
    <3>1. servers \in Seq(S \cup {new})
      BY <2>1, SeqMonotonic
    <3>2. Append(servers, new) \in Seq(S \cup {new})
      BY <3>1, AppendProperties
    <3>3. ASSUME NEW b \in DOMAIN Append(servers, new)
          PROVE  ServerOk(Append(servers, new)[b])
      <4>1. \/ Append(servers, new)[b] = new
            \/ b \in DOMAIN servers /\ Append(servers, new)[b] = servers[b]
        BY <3>1, <3>3, Appended
      <4>2. \A k \in DOMAIN servers : ServerOk(servers[k])
        BY <1>1 DEF Blocks
      <4> QED BY <2>4, <4>1, <4>2
    <3> QED BY <2>5, <3>2, <3>3 DEF Blocks
  <2> QED BY <1>1, <1>8, <2>6 DEF CloseServer, ConfigInv
<1>9. CASE UNCHANGED <<tokens, index, serv, servers>>
  BY <1>1, <1>9 DEF ConfigInv
<1> QED
  BY <1>2, <1>3, <1>5, <1>6, <1>7, <1>8, <1>9 DEF ConfigNext, EndOfFile, ReadBeyond, Refuse, Stop

-----------------------------------------------------------------------------
(***************************************************************************)
(* The table and the sockets                                               *)
(***************************************************************************)

\* The entries that have a socket of their own.
Passed(i) == ~table[i].bound /\ (stage = "init" => i < counter)
\* Each socket is that of an entry,
Owned ==
  \A fd \in DOMAIN sockets :
    /\ fd # NoFd /\ {"ip", "port"} \subseteq DOMAIN sockets[fd]
    /\ \E i \in DOMAIN table : /\ Passed(i)
                               /\ sockets[fd].ip = table[i].ip /\ sockets[fd].port = table[i].port
\* each entry has it, and so have those that are equal to it,
OwnFd(i) ==
  /\ table[i].fd \in DOMAIN sockets
  /\ sockets[table[i].fd].ip = table[i].ip /\ sockets[table[i].fd].port = table[i].port
Shared ==
  \A i \in DOMAIN table : Passed(i) =>
    /\ OwnFd(i)
    /\ \A k \in DOMAIN table : table[k].bound /\ Same(table[k], table[i]) => table[k].fd = table[i].fd
\* and none has one with another port.
Fits ==
  \A k \in DOMAIN table :
    table[k].fd = NoFd \/ (table[k].fd \in DOMAIN sockets /\ sockets[table[k].fd].port = table[k].port)
Polled == \A i \in DOMAIN table : ~table[i].bound => Held(table[i].fd, polled)

Tabled ==
  /\ Entries(table) /\ Separate(table) /\ Covered(table)
  /\ Rising(table) /\ FromBlocks(table) /\ AllListed(table)
ListenInv ==
  /\ counter \in Nat
  /\ stage = "config" => sockets = <<>>
  /\ stage # "config" => result = "done"
  /\ stage = "init" => \E S : sockets \in Seq(S)
  /\ stage \in {"init", "listen", "running"} => Tabled /\ Owned /\ Shared /\ Fits
  /\ stage = "running" => Polled
BindInv == ConfigInv /\ ListenInv

\* Entries of a port are equal if their addresses are, or are those of the loopback
\* and of every address (TableOfListen::operator==).
LEMMA SameMeans ==
  ASSUME NEW x, NEW y
  PROVE  Same(x, y) <=> /\ x.port = y.port
                        /\ x.ip = y.ip \/ {x.ip, y.ip} \subseteq Local \cup {AnyAddress}
<1>1. AnyAddress \notin Local
  <2>1. AnyAddress[1] # Loopback[1] /\ AnyAddress[1] # LocalHost[1]
    BY DEF AnyAddress, Loopback, LocalHost
  <2> QED BY <2>1 DEF Local
<1> QED BY <1>1 DEF Same

\* Entries that are equal to one are equal to each other.
LEMMA SameIs ==
  ASSUME NEW a, NEW b, NEW c
  PROVE  /\ Same(a, a) /\ (Same(a, b) => Same(b, a))
         /\ Same(a, b) /\ Same(a, c) => Same(b, c)
BY SameMeans

\* What the marks and the descriptors do not change.
LEMMA AlikeTables ==
  ASSUME NEW t, NEW u, AllAlike(u, t)
  PROVE  /\ Rising(t) => Rising(u)
         /\ FromBlocks(t) => FromBlocks(u)
         /\ AllListed(t) => AllListed(u)
         /\ \A i, k \in DOMAIN t : Same(u[i], u[k]) <=> Same(t[i], t[k])
<1>1. Rising(t) => Rising(u)
  BY DEF AllAlike, Alike, Rising
<1>2. FromBlocks(t) => FromBlocks(u)
  BY DEF AllAlike, Alike, FromBlocks, FromBlock
<1>3. AllListed(t) => AllListed(u)
  BY DEF AllAlike, Alike, AllListed
<1>4. \A i, k \in DOMAIN t : Same(u[i], u[k]) <=> Same(t[i], t[k])
  BY DEF AllAlike, Alike, Same
<1> QED BY <1>1, <1>2, <1>3, <1>4

\* main() makes the table.
LEMMA MakeTableStep ==
  ASSUME BindInv, MakeTable, servers' = servers, result' = result
  PROVE  ListenInv'
<1>1. Blocks(servers) /\ sockets = <<>> /\ result = "done"
  BY DEF BindInv, ConfigInv, ListenInv, MakeTable
<1>2. PICK t : t = TableOfServers
  OBVIOUS
<1>3. table' = WithVirtualHosts(t) /\ stage' = "init" /\ counter' = 1 /\ sockets' = sockets
  BY <1>2 DEF MakeTable
<1>4. Entries(t) /\ NoFds(t) /\ FromBlocks(t) /\ AllListed(t) /\ Rising(t)
  BY <1>1, <1>2, TableEntries
<1>5. /\ Entries(table') /\ Separate(table') /\ Covered(table') /\ AllAlike(table', t)
      /\ NoFds(table')
  BY <1>3, <1>4, Marked
<1>6. Rising(table') /\ FromBlocks(table') /\ AllListed(table')
  BY <1>4, <1>5, AlikeTables
<1>7. Tabled'
  <2>1. FromBlocks(table)' /\ AllListed(table)'
    BY <1>6 DEF FromBlocks, FromBlock, AllListed
  <2> QED BY <1>5, <1>6, <2>1 DEF Tabled
<1>8. DOMAIN sockets' = {} /\ sockets' \in Seq({})
  BY <1>1, <1>3
<1>9. Owned' /\ Fits'
  BY <1>5, <1>8 DEF Owned, Fits, NoFds
<1>10. Shared'
  <2>1. \A i \in DOMAIN table' : i \in Nat \ {0}
    BY <1>5 DEF Entries
  <2>2. \A i \in DOMAIN table' : ~Passed(i)'
    BY <1>3, <2>1 DEF Passed
  <2> QED BY <2>2 DEF Shared
<1> QED BY <1>1, <1>3, <1>7, <1>8, <1>9, <1>10 DEF ListenInv

\* A step that changes no entry, no address of a socket and not which are passed.
LEMMA QuietListen ==
  ASSUME Tabled, Owned, Shared, Fits, servers' = servers, table' = table,
         DOMAIN sockets' = DOMAIN sockets,
         \A fd \in DOMAIN sockets :
           /\ DOMAIN sockets'[fd] = DOMAIN sockets[fd]
           /\ sockets'[fd].ip = sockets[fd].ip /\ sockets'[fd].port = sockets[fd].port,
         \A i \in DOMAIN table : Passed(i)' <=> Passed(i)
  PROVE  Tabled' /\ Owned' /\ Shared' /\ Fits'
<1>1. Tabled'
  BY DEF Tabled, FromBlocks, FromBlock, AllListed
<1>2. Owned'
  BY DEF Owned
<1>3. Shared'
  <2>1. \A i \in DOMAIN table : OwnFd(i) => OwnFd(i)'
    BY DEF OwnFd
  <2> QED BY <2>1 DEF Shared
<1>4. Fits'
  BY DEF Fits
<1> QED BY <1>1, <1>2, <1>3, <1>4

\* Sharing a descriptor changes nothing of an entry that decides who is bound.
LEMMA BindStep ==
  ASSUME BindInv, BindSocket, servers' = servers, result' = result
  PROVE  ListenInv'
<1>1. /\ counter \in Nat /\ counter \in DOMAIN table /\ ~table[counter].bound /\ stage = "init"
      /\ Tabled /\ Owned /\ Shared /\ Fits /\ result = "done"
  BY DEF BindInv, ListenInv, BindSocket, AtEntry
<1>2. PICK S : sockets \in Seq(S)
  BY <1>1 DEF BindInv, ListenInv
<1>3. PICK n \in Nat : DOMAIN table = 1 .. n /\ \A k \in 1 .. n : DOMAIN table[k] = Fields
  BY <1>1 DEF Tabled, Entries
<1>4. PICK new : new = [ip |-> table[counter].ip, port |-> table[counter].port, state |-> "bound"]
  OBVIOUS
<1>5. PICK fd \in Nat : fd = Len(sockets) + 1 /\ fd # NoFd
  BY <1>2, LenProperties DEF NoFd
<1>6. /\ sockets' = Append(sockets, new) /\ counter' = counter + 1 /\ stage' = stage
      /\ table' = [k \in DOMAIN table |->
                    IF SharesFd(k) THEN [table[k] EXCEPT !.fd = fd] ELSE table[k]]
  BY <1>4, <1>5 DEF BindSocket, NewFd
<1>7. /\ new.ip = table[counter].ip /\ new.port = table[counter].port
      /\ {"ip", "port"} \subseteq DOMAIN new
  BY <1>4
<1>8. /\ sockets' \in Seq(S \cup {new}) /\ fd \in DOMAIN sockets' /\ sockets'[fd] = new
      /\ \A x \in DOMAIN sockets : x \in DOMAIN sockets' /\ sockets'[x] = sockets[x]
      /\ \A x \in DOMAIN sockets' : x = fd \/ x \in DOMAIN sockets
  <2>1. sockets \in Seq(S \cup {new}) /\ new \in S \cup {new}
    BY <1>2, SeqMonotonic
  <2>2. PICK m \in Nat : m = Len(sockets) /\ DOMAIN sockets = 1 .. m
    BY <1>2, LenProperties
  <2>3. /\ sockets' \in Seq(S \cup {new}) /\ Len(sockets') = m + 1 /\ sockets'[m + 1] = new
        /\ \A i \in 1 .. m : sockets'[i] = sockets[i]
    BY <1>6, <2>1, <2>2, AppendProperties
  <2>4. DOMAIN sockets' = 1 .. m + 1 /\ fd = m + 1
    BY <1>5, <2>2, <2>3, LenProperties
  <2> QED BY <2>2, <2>3, <2>4
<1>9. ASSUME NEW k \in 1 .. n
      PROVE  /\ DOMAIN table'[k] = Fields /\ table'[k].bound = table[k].bound
             /\ Alike(table'[k], table[k])
             /\ SharesFd(k) => table'[k].fd = fd
             /\ ~SharesFd(k) => table'[k].fd = table[k].fd
  <2>1. /\ SharesFd(k) => table'[k] = [table[k] EXCEPT !.fd = fd]
        /\ ~SharesFd(k) => table'[k] = table[k]
    BY <1>3, <1>6
  <2> QED BY <1>3, <2>1 DEF Fields, Alike
<1>10. DOMAIN table' = 1 .. n /\ AllAlike(table', table)
  BY <1>3, <1>6, <1>9 DEF AllAlike
<1>11. \A i, k \in 1 .. n : Same(table'[i], table'[k]) <=> Same(table[i], table[k])
  BY <1>3, <1>10, AlikeTables
<1>12. Tabled'
  <2>1. Entries(table')
    <3>1. table' = [k \in 1 .. n |-> table'[k]]
      BY <1>3, <1>6
    <3> QED BY <1>9, <1>10, <3>1 DEF Entries
  <2>2. Separate(table') /\ Covered(table')
    <3>1. Separate(table) /\ Covered(table)
      BY <1>1 DEF Tabled
    <3>2. Separate(table')
      BY <1>3, <1>9, <1>10, <1>11, <3>1 DEF Separate
    <3>3. Covered(table')
      BY <1>3, <1>9, <1>10, <1>11, <3>1 DEF Covered
    <3> QED BY <3>2, <3>3
  <2>3. Rising(table') /\ FromBlocks(table') /\ AllListed(table')
    BY <1>1, <1>10, AlikeTables DEF Tabled
  <2>4. FromBlocks(table)' /\ AllListed(table)'
    BY <2>3 DEF FromBlocks, FromBlock, AllListed
  <2> QED BY <2>1, <2>2, <2>3, <2>4 DEF Tabled
<1>13. \A i \in 1 .. n : Passed(i)' <=> Passed(i) \/ i = counter
  <2>1. \A i \in 1 .. n : i < counter + 1 <=> i < counter \/ i = counter
    BY <1>1
  <2>2. \A i \in 1 .. n : Passed(i)' <=> ~table[i].bound /\ i < counter + 1
    BY <1>1, <1>6, <1>9 DEF Passed
  <2> QED BY <1>1, <2>1, <2>2 DEF Passed
<1>14. Owned'
  <2> SUFFICES ASSUME NEW x \in DOMAIN sockets'
               PROVE  /\ x # NoFd /\ {"ip", "port"} \subseteq DOMAIN sockets'[x]
                      /\ \E i \in 1 .. n : /\ Passed(i)'
                                           /\ sockets'[x].ip = table'[i].ip
                                           /\ sockets'[x].port = table'[i].port
    BY <1>10 DEF Owned
  <2>1. CASE x = fd
    BY <1>1, <1>3, <1>5, <1>7, <1>8, <1>9, <1>13, <2>1 DEF Alike
  <2>2. CASE x \in DOMAIN sockets
    <3>1. /\ x # NoFd /\ {"ip", "port"} \subseteq DOMAIN sockets[x]
          /\ \E i \in 1 .. n : /\ Passed(i)
                               /\ sockets[x].ip = table[i].ip /\ sockets[x].port = table[i].port
      BY <1>1, <1>3, <2>2 DEF Owned
    <3> QED BY <1>8, <1>9, <1>13, <2>2, <3>1 DEF Alike
  <2> QED BY <1>8, <2>1, <2>2
<1>15. Shared'
  <2> SUFFICES ASSUME NEW i \in 1 .. n, Passed(i)'
               PROVE  /\ OwnFd(i)'
                      /\ \A k \in 1 .. n : table'[k].bound /\ Same(table'[k], table'[i]) =>
                           table'[k].fd = table'[i].fd
    BY <1>10 DEF Shared
  <2>1. CASE i = counter
    <3>1. SharesFd(i) /\ table'[i].fd = fd
      BY <1>9, <2>1 DEF SharesFd
    <3>2. OwnFd(i)'
      BY <1>7, <1>8, <1>9, <2>1, <3>1 DEF OwnFd, Alike
    <3>3. ASSUME NEW k \in 1 .. n, table'[k].bound, Same(table'[k], table'[i])
          PROVE  table'[k].fd = fd
      <4>1. SharesFd(k)
        BY <1>9, <1>11, <2>1, <3>3 DEF SharesFd
      <4> QED BY <1>9, <4>1
    <3> QED BY <3>1, <3>2, <3>3
  <2>2. CASE i # counter
    <3>1. Passed(i) /\ ~table[i].bound /\ i < counter
      BY <1>1, <1>13, <2>2 DEF Passed
    <3>2. ~SharesFd(i) /\ table'[i].fd = table[i].fd
      BY <1>9, <2>2, <3>1 DEF SharesFd
    <3>3. /\ OwnFd(i)
          /\ \A k \in 1 .. n : table[k].bound /\ Same(table[k], table[i]) => table[k].fd = table[i].fd
      BY <1>1, <1>3, <3>1 DEF Shared
    <3>4. OwnFd(i)'
      BY <1>8, <1>9, <3>2, <3>3 DEF OwnFd, Alike
    <3>5. ASSUME NEW k \in 1 .. n, table'[k].bound, Same(table'[k], table'[i])
          PROVE  table'[k].fd = table[i].fd
      <4>1. table[k].bound /\ Same(table[k], table[i]) /\ table[k].fd = table[i].fd
        BY <1>9, <1>11, <3>3, <3>5
      <4>2. ~Same(table[i], table[counter])
        BY <1>1, <1>3, <3>1 DEF Tabled, Separate
      <4>3. ~Same(table[k], table[counter])
        BY <4>1, <4>2, SameIs
      <4>4. ~SharesFd(k)
        BY <1>1, <4>1, <4>3 DEF SharesFd
      <4> QED BY <1>9, <4>1, <4>4
    <3> QED BY <3>2, <3>4, <3>5
  <2> QED BY <2>1, <2>2
<1>16. Fits'
  <2> SUFFICES ASSUME NEW k \in 1 .. n
               PROVE  table'[k].fd = NoFd \/ (/\ table'[k].fd \in DOMAIN sockets'
                                             /\ sockets'[table'[k].fd].port = table'[k].port)
    BY <1>10 DEF Fits
  <2>1. CASE SharesFd(k)
    <3>1. table[k].port = table[counter].port
      BY <2>1 DEF SharesFd, Same
    <3> QED BY <1>7, <1>8, <1>9, <2>1, <3>1 DEF Alike
  <2>2. CASE ~SharesFd(k)
    <3>1. table[k].fd = NoFd \/ (/\ table[k].fd \in DOMAIN sockets
                                 /\ sockets[table[k].fd].port = table[k].port)
      BY <1>1, <1>3 DEF Fits
    <3> QED BY <1>8, <1>9, <2>2, <3>1 DEF Alike
  <2> QED BY <2>1, <2>2
<1> QED BY <1>1, <1>6, <1>8, <1>12, <1>14, <1>15, <1>16 DEF ListenInv

\* setListenEvent leaves no socket out.
LEMMA AllPolled ==
  ASSUME Tabled, NEW i \in DOMAIN table, ~table[i].bound
  PROVE  Held(table[i].fd, OwnFds)
<1>1. PICK n \in Nat : DOMAIN table = 1 .. n
  BY DEF Tabled, Entries
<1> DEFINE S == {table[k].fd : k \in 1 .. n}
           own(k) == IF table[k].bound THEN <<>> ELSE <<table[k].fd>>
           fds == [k \in DOMAIN table |-> own(k)]
<1>2. ASSUME NEW k \in 1 .. n PROVE own(k) \in Seq(S)
  <2>1. table[k].fd \in S
    OBVIOUS
  <2> HIDE DEF S
  <2>2. <<>> \in Seq(S) /\ <<table[k].fd>> \in Seq(S)
    BY <2>1
  <2> QED BY <2>2
<1>3. OwnFds = FlattenSeq(fds)
  BY Zenon DEF OwnFds
<1>4. i \in DOMAIN fds /\ fds[i] = <<table[i].fd>>
  OBVIOUS
<1>5. Held(table[i].fd, fds[i])
  <2>1. 1 \in DOMAIN <<table[i].fd>> /\ <<table[i].fd>>[1] = table[i].fd
    OBVIOUS
  <2> QED BY <1>4, <2>1 DEF Held
<1>6. fds \in Seq(Seq(S))
  <2> HIDE DEF own, S
  <2>1. fds \in [1 .. n -> Seq(S)]
    BY <1>1, <1>2
  <2> HIDE DEF fds
  <2> QED BY <2>1, SeqDef
<1> HIDE DEF fds, S
<1> QED BY <1>3, <1>4, <1>5, <1>6, FlattenHas

\* Every step of the setup keeps the invariant of the table and the sockets.
LEMMA ListenStep ==
  ASSUME BindInv, ListenNext, servers' = servers, result' = result
  PROVE  ListenInv'
<1>1. CASE MakeTable
  BY <1>1, MakeTableStep
<1>2. CASE BindSocket
  BY <1>2, BindStep
<1>3. CASE SetupFails
  <2>1. stage' = "stopped" /\ counter' = counter /\ stage = "init"
    BY <1>3 DEF SetupFails, AtEntry
  <2> QED BY <2>1 DEF BindInv, ListenInv
<1> SUFFICES ASSUME Skip \/ ListenSocket \/ ListenFails \/ EndOfTable PROVE ListenInv'
  BY <1>1, <1>2, <1>3 DEF ListenNext
<1>4. /\ stage \in {"init", "listen"} /\ counter \in Nat /\ result = "done"
      /\ Tabled /\ Owned /\ Shared /\ Fits
      /\ stage = "init" => \E S : sockets \in Seq(S)
  <2>1. stage \in {"init", "listen"}
    BY DEF Skip, ListenSocket, ListenFails, EndOfTable, AtEntry
  <2> QED BY <2>1 DEF BindInv, ListenInv
<1>5. PICK n \in Nat : DOMAIN table = 1 .. n /\ Len(table) = n
  <2>1. PICK n \in Nat : DOMAIN table = 1 .. n /\ table = [k \in 1 .. n |-> table[k]]
    BY <1>4 DEF Tabled, Entries
  <2> DEFINE S == {table[k] : k \in 1 .. n}
  <2>2. table \in [1 .. n -> S]
    BY <2>1
  <2> HIDE DEF S
  <2>3. table \in Seq(S)
    BY <2>2, SeqDef
  <2>4. Len(table) \in Nat /\ DOMAIN table = 1 .. Len(table)
    BY <2>3, LenProperties
  <2> QED BY <2>1, <2>4
<1>6. ASSUME NEW new \in {"listening", "closed"}, NEW fds, fds \subseteq DOMAIN sockets,
             sockets' = [fd \in DOMAIN sockets |->
                          IF fd \in fds THEN [sockets[fd] EXCEPT !.state = new] ELSE sockets[fd]]
      PROVE  /\ DOMAIN sockets' = DOMAIN sockets
             /\ \A fd \in DOMAIN sockets :
                  /\ DOMAIN sockets'[fd] = DOMAIN sockets[fd]
                  /\ sockets'[fd].ip = sockets[fd].ip /\ sockets'[fd].port = sockets[fd].port
  <2>1. ASSUME NEW fd \in DOMAIN sockets
        PROVE  /\ DOMAIN sockets'[fd] = DOMAIN sockets[fd]
               /\ sockets'[fd].ip = sockets[fd].ip /\ sockets'[fd].port = sockets[fd].port
    <3>1. {"ip", "port"} \subseteq DOMAIN sockets[fd]
      BY <1>4 DEF Owned
    <3>2. sockets'[fd] \in {sockets[fd], [sockets[fd] EXCEPT !.state = new]}
      BY <1>6
    <3> QED BY <3>1, <3>2
  <2> QED BY <1>6, <2>1
<1>7. CASE Skip
  <2>1. /\ counter' = counter + 1 /\ stage' = stage /\ table' = table /\ sockets' = sockets
        /\ table[counter].bound
    BY <1>7 DEF Skip
  <2>2. \A i \in DOMAIN table : Passed(i)' <=> Passed(i)
    BY <1>4, <1>5, <2>1 DEF Passed
  <2>3. Tabled' /\ Owned' /\ Shared' /\ Fits'
    BY <1>4, <2>1, <2>2, QuietListen
  <2> QED BY <1>4, <2>1, <2>3 DEF ListenInv
<1>8. CASE ListenSocket
  <2>1. /\ stage = "listen" /\ stage' = stage /\ table' = table /\ counter' = counter + 1
        /\ counter \in DOMAIN table /\ ~table[counter].bound
        /\ sockets' = [sockets EXCEPT ![table[counter].fd].state = "listening"]
    BY <1>8 DEF ListenSocket, AtEntry
  <2>2. PICK fd \in DOMAIN sockets : fd = table[counter].fd
    BY <1>4, <2>1 DEF Shared, Passed, OwnFd
  <2>3. sockets' = [x \in DOMAIN sockets |->
                     IF x \in {fd} THEN [sockets[x] EXCEPT !.state = "listening"] ELSE sockets[x]]
    BY <2>1, <2>2
  <2>4. \A i \in DOMAIN table : Passed(i)' <=> Passed(i)
    BY <2>1 DEF Passed
  <2>5. Tabled' /\ Owned' /\ Shared' /\ Fits'
    BY <1>4, <1>6, <2>1, <2>3, <2>4, QuietListen
  <2> QED BY <1>4, <2>1, <2>5 DEF ListenInv
<1>9. CASE ListenFails
  <2>1. /\ stage = "listen" /\ stage' = stage /\ table' = table /\ counter' = counter + 1
        /\ sockets' = [fd \in DOMAIN sockets |-> [sockets[fd] EXCEPT !.state = "closed"]]
    BY <1>9 DEF ListenFails, AtEntry
  <2>2. sockets' = [x \in DOMAIN sockets |->
          IF x \in DOMAIN sockets THEN [sockets[x] EXCEPT !.state = "closed"] ELSE sockets[x]]
    BY <2>1
  <2>3. \A i \in DOMAIN table : Passed(i)' <=> Passed(i)
    BY <2>1 DEF Passed
  <2>4. Tabled' /\ Owned' /\ Shared' /\ Fits'
    BY <1>4, <1>6, <2>1, <2>2, <2>3, QuietListen
  <2> QED BY <1>4, <2>1, <2>4 DEF ListenInv
<1>10. CASE EndOfTable
  <2>1. /\ counter = n + 1 /\ table' = table /\ sockets' = sockets /\ counter' \in Nat
        /\ \/ stage' = "listen"
           \/ stage' = "running" /\ polled' = OwnFds
    BY <1>4, <1>5, <1>10 DEF EndOfTable
  <2>2. \A i \in DOMAIN table : Passed(i)' <=> Passed(i)
    BY <1>5, <2>1 DEF Passed
  <2>3. Tabled' /\ Owned' /\ Shared' /\ Fits'
    BY <1>4, <2>1, <2>2, QuietListen
  <2>4. stage' = "running" => Polled'
    <3>1. \A i \in DOMAIN table : ~table[i].bound => Held(table[i].fd, OwnFds)
      BY <1>4, AllPolled
    <3> QED BY <2>1, <3>1 DEF Polled
  <2> QED BY <1>4, <2>1, <2>3, <2>4 DEF ListenInv
<1> QED BY <1>7, <1>8, <1>9, <1>10

\* Before the file is read there is no socket.
LEMMA BindInit == SiteInit => BindInv
<1> SUFFICES ASSUME SiteInit PROVE BindInv
  OBVIOUS
<1>1. ConfigInv
  BY ConfigInitially DEF SiteInit
<1>2. ListenInv
  BY DEF SiteInit, ListenInit, ListenInv
<1> QED BY <1>1, <1>2 DEF BindInv

\* The invariant is kept by all of main().
LEMMA BindNext == BindInv /\ [SiteNext]_siteVars => BindInv'
<1> SUFFICES ASSUME BindInv, [SiteNext]_siteVars PROVE BindInv'
  OBVIOUS
<1>1. CASE ConfigNext /\ UNCHANGED listenVars
  <2>1. result = "reading"
    BY <1>1 DEF ConfigNext, OpenServer, OpenLocation, parseServerDir, parseLocationDir,
                CloseLocation, CloseServer, EndOfFile, ReadBeyond, Refuse, Reading
  <2>2. stage = "config" /\ sockets = <<>> /\ counter \in Nat
    BY <2>1 DEF BindInv, ListenInv
  <2>3. stage' = "config" /\ sockets' = <<>> /\ counter' \in Nat
    BY <1>1, <2>2 DEF listenVars
  <2>4. ListenInv'
    BY <2>3 DEF ListenInv
  <2> QED BY <1>1, <2>4, ConfigStep DEF BindInv
<1>2. CASE ListenNext /\ UNCHANGED configVars
  <2>1. ListenInv'
    BY <1>2, ListenStep DEF configVars
  <2> QED BY <1>2, <2>1 DEF BindInv, ConfigInv, configVars
<1>3. CASE UNCHANGED <<configVars, listenVars>>
  <2>1. /\ servers' = servers /\ result' = result /\ stage' = stage /\ table' = table
        /\ counter' = counter /\ sockets' = sockets /\ polled' = polled
    BY <1>3 DEF configVars, listenVars
  <2>2. ASSUME Tabled, Owned, Shared, Fits PROVE Tabled' /\ Owned' /\ Shared' /\ Fits'
    <3>1. \A i \in DOMAIN table : Passed(i)' <=> Passed(i)
      BY <2>1 DEF Passed
    <3> QED BY <2>1, <2>2, <3>1, QuietListen
  <2>3. Polled => Polled'
    BY <2>1 DEF Polled
  <2>4. ListenInv'
    BY <2>1, <2>2, <2>3 DEF BindInv, ListenInv
  <2> QED BY <1>3, <2>4 DEF BindInv, ConfigInv, configVars
<1> QED BY <1>1, <1>2, <1>3 DEF SiteNext, siteVars

-----------------------------------------------------------------------------
(***************************************************************************)
(* No address is bound twice                                               *)
(***************************************************************************)

\* Addresses the kernel takes for one are equal to hanldVirtualHost.
LEMMA SameAddress ==
  ASSUME NEW a, NEW b, a.port = b.port, Address(a.ip) = Address(b.ip)
  PROVE  Same(a, b)
BY DEF Same, Address, Local

\* The marks leave no two sockets for one address.
LEMMA MarksSuffice ==
  ASSUME BindInv
  PROVE  BoundOnce
<1> SUFFICES ASSUME AtEntry("init"), ~table[counter].bound, Taken(table[counter]) PROVE FALSE
  BY DEF BoundOnce
<1>1. Separate(table) /\ Owned /\ counter \in DOMAIN table /\ stage = "init"
  BY DEF BindInv, ListenInv, Tabled, AtEntry
<1>2. PICK fd \in DOMAIN sockets :
        sockets[fd].port = table[counter].port /\ Address(sockets[fd].ip) = Address(table[counter].ip)
  BY DEF Taken
<1>3. PICK i \in DOMAIN table :
        /\ i < counter /\ ~table[i].bound
        /\ sockets[fd].ip = table[i].ip /\ sockets[fd].port = table[i].port
  BY <1>1 DEF Owned, Passed
<1>4. Same(table[i], table[counter])
  BY <1>2, <1>3, SameAddress
<1> QED BY <1>1, <1>3, <1>4 DEF Separate

\* No socket is bound to an address and port that another of the server has,
\* whatever blocks, addresses and ports the file names, where none is written
\* with zeros in front: hanldVirtualHost marks every entry that would need a
\* second one.
THEOREM BindsOnce == Spec => []BoundOnce
<1>1. BindInv => BoundOnce
  BY MarksSuffice
<1> QED BY <1>1, BindInit, BindNext, PTL DEF Spec

-----------------------------------------------------------------------------
(***************************************************************************)
(* Every entry is served                                                   *)
(***************************************************************************)

\* What holds once the server runs.
Ready == Tabled /\ Owned /\ Shared /\ Fits /\ Polled /\ Blocks(servers) /\ Running /\ AllListen
\* The entry whose socket is that of entry k.
OwnerOf(i, k) ==
  /\ i \in DOMAIN table /\ ~table[i].bound /\ Passed(i) /\ Same(table[i], table[k])
  /\ i = k \/ i < k
  /\ OwnFd(i) /\ table[k].fd = table[i].fd

LEMMA HasOwner ==
  ASSUME Ready, NEW k \in DOMAIN table
  PROVE  \E i \in DOMAIN table : OwnerOf(i, k)
<1>1. PICK i \in DOMAIN table : /\ ~table[i].bound /\ Same(table[i], table[k])
                                /\ i = k \/ (i < k /\ table[k].bound)
  BY SameIs DEF Ready, Tabled, Covered
<1>2. Passed(i)
  BY <1>1 DEF Passed, Ready, Running
<1>3. /\ OwnFd(i)
      /\ \A x \in DOMAIN table : table[x].bound /\ Same(table[x], table[i]) => table[x].fd = table[i].fd
  BY <1>2 DEF Ready, Shared
<1>4. table[k].fd = table[i].fd
  BY <1>1, <1>3, SameIs
<1> QED BY <1>1, <1>2, <1>3, <1>4 DEF OwnerOf

\* Two sockets are not equal: of an address of the loopback and of every address
\* there is one on a port.
LEMMA OneSocket ==
  ASSUME Ready, NEW k \in DOMAIN table, NEW i, OwnerOf(i, k),
         NEW fd \in DOMAIN sockets, sockets[fd].port = table[k].port
  PROVE  \E j \in DOMAIN table :
           /\ sockets[fd].ip = table[j].ip /\ table[j].port = table[k].port
           /\ Same(table[j], table[i]) => sockets[fd].ip = table[i].ip
<1>1. PICK j \in DOMAIN table : /\ Passed(j) /\ sockets[fd].ip = table[j].ip
                                /\ sockets[fd].port = table[j].port
  BY DEF Ready, Owned
<1>2. PICK n \in Nat : DOMAIN table = 1 .. n
  BY DEF Ready, Tabled, Entries
<1>3. ~table[i].bound /\ ~table[j].bound /\ i \in DOMAIN table /\ Separate(table)
  BY <1>1 DEF OwnerOf, Passed, Ready, Tabled
<1>4. ASSUME Same(table[j], table[i]) PROVE i = j
  <2>1. Same(table[i], table[j])
    BY <1>4, SameIs
  <2>2. ~(i < j) /\ ~(j < i)
    BY <1>3, <1>4, <2>1 DEF Separate
  <2>3. i \in Nat /\ j \in Nat
    BY <1>2, <1>3
  <2> QED BY <2>2, <2>3
<1> QED BY <1>1, <1>4

\* A client that comes in at an address an entry covers reaches its socket.
LEMMA Reaches ==
  ASSUME Ready, NEW k \in DOMAIN table, NEW i, OwnerOf(i, k),
         NEW a \in HostAddresses, Covers(table[k].ip, a), ~Narrowed(k, a)
  PROVE  table[i].fd \in Reached(a, table[k].port)
<1>1. /\ i \in DOMAIN table /\ Same(table[i], table[k]) /\ (i = k \/ i < k)
      /\ OwnFd(i) /\ table[i].port = table[k].port
  BY DEF OwnerOf, Same
<1>2. PICK fd \in DOMAIN sockets : /\ fd = table[i].fd /\ sockets[fd].ip = table[i].ip
                                   /\ sockets[fd].port = table[k].port
  BY <1>1 DEF OwnFd
<1>3. sockets[fd].state = "listening"
  BY DEF Ready, AllListen
<1>4. a # AnyAddress /\ a # LocalHost /\ AnyAddress \notin Local
  <2>1. AnyAddress[1] # Loopback[1] /\ AnyAddress[1] # LocalHost[1]
    BY DEF AnyAddress, Loopback, LocalHost
  <2> QED BY <2>1, HostAssumption DEF Local
<1>5. \A ip : ip \in Local <=> Address(ip) = Loopback
  BY DEF Address, Local
<1>6. CASE Address(table[i].ip) = a
  BY <1>2, <1>3, <1>6 DEF Reached, Listening, Covers
<1>7. CASE Address(table[i].ip) # a
  <2>1. table[i].ip = AnyAddress
    <3>1. CASE table[i].ip = table[k].ip
      BY <1>7, <3>1 DEF Covers
    <3>2. CASE table[i].ip # table[k].ip
      <4>1. i < k /\ {table[i].ip, table[k].ip} \subseteq Local \cup {AnyAddress}
        BY <1>1, <3>2, SameMeans
      <4>2. ASSUME table[i].ip \in Local PROVE FALSE
        <5>1. a # Loopback
          BY <1>5, <1>7, <4>2
        <5>2. table[k].ip = AnyAddress
          BY <1>5, <4>1, <5>1 DEF Covers
        <5>3. PICK n \in Nat : DOMAIN table = 1 .. n
          BY DEF Ready, Tabled, Entries
        <5>4. i \in 1 .. (k - 1)
          BY <1>1, <4>1, <5>3
        <5> QED BY <1>1, <4>2, <5>1, <5>2, <5>4 DEF Narrowed
      <4> QED BY <4>1, <4>2
    <3> QED BY <3>1, <3>2
  <2>2. ASSUME NEW x \in DOMAIN sockets, Listening(x, a, table[k].port), Address(sockets[x].ip) = a
        PROVE  FALSE
    <3>1. sockets[x].port = table[k].port
      BY <2>2 DEF Listening
    <3>2. PICK j \in DOMAIN table :
            /\ sockets[x].ip = table[j].ip /\ table[j].port = table[k].port
            /\ Same(table[j], table[i]) => sockets[x].ip = table[i].ip
      BY <3>1, OneSocket
    <3>3. sockets[x].ip # table[i].ip
      BY <1>7, <2>2
    <3>4. table[j].ip \notin Local
      BY <1>1, <2>1, <3>2, <3>3 DEF Same
    <3>5. table[j].ip = a /\ a # Loopback
      BY <1>5, <2>2, <3>2, <3>4 DEF Address, Local
    <3>6. table[k].ip # AnyAddress
      BY <3>2, <3>5 DEF Narrowed
    <3>7. table[k].ip \in Local
      BY <1>1, <2>1, <3>6, SameMeans
    <3> QED BY <1>5, <3>5, <3>6, <3>7 DEF Covers
  <2>3. Listening(fd, a, table[k].port)
    BY <1>2, <1>3, <2>1 DEF Listening, Covers
  <2> QED BY <1>2, <2>2, <2>3 DEF Reached
<1> QED BY <1>6, <1>7

\* Two hosts with one port that are written alike have one name.
Host(name, port) == name \o <<":">> \o port
LEMMA NameOf ==
  ASSUME NEW S, NEW u, NEW v, NEW p, {u, v, p} \subseteq Seq(S), ":" \in S, Host(u, p) = Host(v, p)
  PROVE  u = v
<1>1. PICK q : q = <<":">>
  OBVIOUS
<1>2. q \in Seq(S)
  BY <1>1
<1>3. u \o q \in Seq(S) /\ v \o q \in Seq(S) /\ (u \o q) \o p = (v \o q) \o p
  BY <1>1, <1>2, ConcatProperties DEF Host
<1>4. u \o q = v \o q
  BY <1>3, ConcatSimplifications
<1> QED BY <1>2, <1>4, ConcatSimplifications

\* Among the entries of the socket the first with the name and port of the Host
\* header is of the first block with that name.
LEMMA Answers ==
  ASSUME Ready, NEW k \in DOMAIN table, NEW fd \in DOMAIN sockets, table[k].fd = fd,
         sockets[fd].port = table[k].port
  PROVE  LET b == getSrvBlock(detectServerBlock(fd), table[k].name \o <<":">> \o table[k].port)
         IN servers[b].name = table[k].name /\ b <= table[k].block
<1> DEFINE host == table[k].name \o <<":">> \o table[k].port
           hints == detectServerBlock(fd)
           named == {x \in hints : table[x].name \o <<":">> \o table[x].port = host}
<1>1. PICK n \in Nat : DOMAIN table = 1 .. n
  BY DEF Ready, Tabled, Entries
<1>2. k \in named /\ named \subseteq Nat
  <2>1. k \in hints /\ hints \subseteq Nat
    BY <1>1 DEF detectServerBlock
  <2> HIDE DEF hints
  <2> QED BY <2>1
<1>3. PICK m \in named : m = Min(named) /\ m <= k
  <2> HIDE DEF named
  <2> QED BY <1>2, MinIs
<1>4. getSrvBlock(hints, host) = table[m].block
  BY <1>2, <1>3 DEF getSrvBlock
<1>5. m \in DOMAIN table /\ table[m].fd = fd
  BY <1>3 DEF detectServerBlock
<1>6. table[m].name \o <<":">> \o table[m].port = table[k].name \o <<":">> \o table[k].port
  BY <1>3
<1> HIDE DEF named, hints, host
<1>7. table[m].port = table[k].port
  <2>1. fd # NoFd
    BY DEF Ready, Owned
  <2> QED BY <1>5, <2>1 DEF Ready, Fits
<1>8. ASSUME NEW x \in DOMAIN table
      PROVE  /\ table[x].name \in Seq(STRING) /\ table[x].port \in Seq(Letter)
             /\ servers[table[x].block].name = table[x].name
  <2>1. FromBlock(table[x])
    BY DEF Ready, Tabled, FromBlocks
  <2>2. ServerOk(servers[table[x].block])
    BY <2>1 DEF Ready, Blocks, FromBlock
  <2> QED BY <2>1, <2>2 DEF FromBlock, ServerOk, Pair
<1>9. table[m].name = table[k].name
  <2> DEFINE S == STRING \cup Letter \cup {":"}
  <2>1. /\ table[m].name \in Seq(S) /\ table[k].name \in Seq(S) /\ table[k].port \in Seq(S)
    BY <1>5, <1>8, SeqMonotonic
  <2>2. ":" \in S
    OBVIOUS
  <2>3. Host(table[m].name, table[k].port) = Host(table[k].name, table[k].port)
    BY <1>6, <1>7 DEF Host
  <2> HIDE DEF S
  <2> QED BY <2>1, <2>2, <2>3, NameOf
<1>10. table[m].block <= table[k].block
  BY <1>3, <1>5 DEF Ready, Tabled, Rising
<1> QED BY <1>4, <1>5, <1>8, <1>9, <1>10 DEF hints, host

\* What holds while the server runs is enough.
LEMMA ServedAll ==
  ASSUME BindInv
  PROVE  EntriesServed
<1> SUFFICES ASSUME Running, AllListen
             PROVE  /\ Listed
                    /\ \A k \in DOMAIN table : \A a \in HostAddresses :
                         Covers(table[k].ip, a) /\ ~Narrowed(k, a) => Served(k, a)
  BY DEF EntriesServed
<1>1. Ready
  BY DEF Ready, BindInv, ListenInv, ConfigInv, Running
<1>2. Listed
  BY <1>1 DEF Ready, Tabled, AllListed, Listed
<1>3. ASSUME NEW k \in DOMAIN table, NEW a \in HostAddresses,
             Covers(table[k].ip, a), ~Narrowed(k, a)
      PROVE  Served(k, a)
  <2>1. PICK i \in DOMAIN table : OwnerOf(i, k)
    BY <1>1, HasOwner
  <2>2. PICK fd : fd = table[i].fd
    OBVIOUS
  <2>3. fd \in Reached(a, table[k].port)
    BY <1>1, <1>3, <2>1, <2>2, Reaches
  <2>4. /\ fd \in DOMAIN sockets /\ table[k].fd = fd /\ sockets[fd].port = table[k].port
        /\ ~table[i].bound
    BY <2>1, <2>2 DEF OwnerOf, OwnFd, Same
  <2>5. fd \in ToSet(polled)
    BY <1>1, <2>2, <2>4 DEF Ready, Polled, Held, ToSet
  <2>6. k \in detectServerBlock(fd)
    BY <2>4 DEF detectServerBlock
  <2>7. LET b == getSrvBlock(detectServerBlock(fd), table[k].name \o <<":">> \o table[k].port)
        IN servers[b].name = table[k].name /\ b <= table[k].block
    BY <1>1, <2>4, Answers
  <2> QED BY <2>3, <2>5, <2>6, <2>7 DEF Served
<1> QED BY <1>2, <1>3

\* Once the server runs, and unless a listen() failed, every listen directive of
\* every block has an entry, and every entry can be reached at each address it
\* covers and is answered for by the first block of its name: whatever the file
\* says, where no address is written with zeros in front.
THEOREM EntriesAreServed == Spec => []EntriesServed
<1>1. BindInv => EntriesServed
  BY ServedAll
<1> QED BY <1>1, BindInit, BindNext, PTL DEF Spec

-----------------------------------------------------------------------------
(***************************************************************************)
(* A browser keeps its session                                             *)
(***************************************************************************)

\* The entry findSessionIfExist finds for an id.
IsFirst(t, id, i) ==
  /\ i \in DOMAIN t /\ t[i].id = id
  /\ \A k \in DOMAIN t : t[k].id = id => i <= k
FirstOf(t, id) == SelectInSeq(t, LAMBDA s : s.id = id)

\* findSessionIfExist returns the first entry with the id, or none.
LEMMA FindsFirst ==
  ASSUME NEW S, NEW t \in Seq(S), NEW id
  PROVE  \/ FirstOf(t, id) = 0 /\ \A k \in DOMAIN t : t[k].id # id
         \/ IsFirst(t, id, FirstOf(t, id))
<1>1. PICK n \in Nat : n = Len(t) /\ DOMAIN t = 1 .. n
  BY LenProperties
<1> DEFINE I == {i \in 1 .. n : t[i].id = id}
<1>2. FirstOf(t, id) = IF I # {} THEN Min(I) ELSE 0
  BY <1>1 DEF FirstOf, SelectInSeq
<1>3. CASE I = {}
  BY <1>1, <1>2, <1>3
<1>4. CASE I # {}
  <2>1. I \subseteq Nat
    OBVIOUS
  <2>2. Min(I) \in I /\ \A k \in I : Min(I) <= k
    <3> HIDE DEF I
    <3> QED BY <1>4, <2>1, MinIs
  <2> QED BY <1>1, <1>2, <1>4, <2>2 DEF IsFirst
<1> QED BY <1>3, <1>4

SessionCookie == [id : Int, counter : Nat]
Session == [id : Nat, logCounter : Nat]
Asked == {"login", "page", "script"}
ConnState == Asked \cup {"closed", "open", "answer", "output"}
SessionType ==
  /\ second \in Nat /\ restarted \in Nat /\ restarted <= second
  /\ sessionTable \in Seq(Session)
  /\ jar \in [Browser -> SessionCookie]
  /\ conn \in [Connection -> [state : ConnState, cookie : SessionCookie, header : SessionCookie]]

\* A cookie of this life of the server: the entry found for its id has counted
\* at least as far.
Recorded(t, cookie) ==
  \E i \in DOMAIN t : IsFirst(t, cookie.id, i) /\ t[i].logCounter >= cookie.counter
Valid(cookie) == cookie # NoCookie /\ cookie.id >= restarted

\* Every id was given out since the start, and every cookie at or before now.
IdsInTime ==
  /\ \A i \in DOMAIN sessionTable : sessionTable[i].id \in restarted .. second
  /\ \A b \in Browser : jar[b].id <= second
  /\ \A c \in Connection : conn[c].header.id <= second
CookiesRecorded ==
  /\ \A b \in Browser : Valid(jar[b]) => Recorded(sessionTable, jar[b])
  /\ \A c \in Connection : conn[c].header # NoCookie =>
       conn[c].header.id >= restarted /\ Recorded(sessionTable, conn[c].header)
\* What is under way on the only connection of a browser is not older than what
\* the browser has.
UnderWay ==
  \A c \in Connection : Single(Owner[c]) =>
    /\ conn[c].state \in Asked => conn[c].cookie = jar[Owner[c]]
    /\ conn[c].header # NoCookie /\ Valid(jar[Owner[c]]) =>
         conn[c].header.id = jar[Owner[c]].id /\ conn[c].header.counter >= jar[Owner[c]].counter
SessionInv == SessionType /\ IdsInTime /\ CookiesRecorded /\ UnderWay

Bumped(t, i, u) == u = [t EXCEPT ![i].logCounter = @ + 1]
\* One more login of a session: the entry counts, the others stay what they were.
LEMMA Counted ==
  ASSUME NEW t \in Seq(Session), NEW i \in DOMAIN t,
         NEW u, Bumped(t, i, u)
  PROVE  /\ u \in Seq(Session) /\ DOMAIN u = DOMAIN t
         /\ \A k \in DOMAIN t : u[k].id = t[k].id /\ u[k].logCounter >= t[k].logCounter
         /\ u[i].logCounter = t[i].logCounter + 1
<1>1. PICK n \in Nat : n = Len(t) /\ DOMAIN t = 1 .. n /\ \A k \in 1 .. n : t[k] \in Session
  BY LenProperties, ElementOfSeq
<1>2. ASSUME NEW k \in 1 .. n
      PROVE  u[k] = IF k = i THEN [id |-> t[k].id, logCounter |-> t[k].logCounter + 1] ELSE t[k]
  BY <1>1 DEF Session, Bumped
<1>3. ASSUME NEW k \in 1 .. n
      PROVE  u[k] \in Session /\ u[k].id = t[k].id /\ u[k].logCounter >= t[k].logCounter
  <2>1. t[k] \in Session /\ t[k].id \in Nat /\ t[k].logCounter \in Nat
    BY <1>1 DEF Session
  <2>2. CASE k = i
    <3>1. u[k] = [id |-> t[k].id, logCounter |-> t[k].logCounter + 1]
      BY <1>2, <2>2
    <3> QED BY <2>1, <3>1 DEF Session
  <2>3. CASE k # i
    <3>1. u[k] = t[k]
      BY <1>2, <2>3
    <3> QED BY <2>1, <3>1
  <2> QED BY <2>2, <2>3
<1>4. u \in [1 .. n -> Session]
  <2>1. DOMAIN u = 1 .. n /\ u = [k \in 1 .. n |-> u[k]]
    BY <1>1 DEF Bumped
  <2> QED BY <1>3, <2>1
<1> QED BY <1>1, <1>2, <1>3, <1>4, SeqDef

\* A new session goes behind the others.
LEMMA Pushed ==
  ASSUME NEW t \in Seq(Session), NEW e \in Session
  PROVE  /\ Append(t, e) \in Seq(Session)
         /\ DOMAIN t \subseteq DOMAIN Append(t, e)
         /\ \A k \in DOMAIN t : Append(t, e)[k] = t[k]
         /\ \E k \in DOMAIN Append(t, e) : Append(t, e)[k] = e
         /\ \A k \in DOMAIN Append(t, e) : k \notin DOMAIN t =>
              Append(t, e)[k] = e /\ \A j \in DOMAIN t : j < k
<1>1. PICK n \in Nat : n = Len(t) /\ DOMAIN t = 1 .. n
  BY LenProperties
<1>2. /\ Append(t, e) \in Seq(Session) /\ Len(Append(t, e)) = n + 1
      /\ Append(t, e)[n + 1] = e
      /\ \A i \in 1 .. n : Append(t, e)[i] = t[i]
  BY <1>1, AppendProperties
<1>3. DOMAIN Append(t, e) = 1 .. n + 1
  BY <1>2, LenProperties
<1> QED BY <1>1, <1>2, <1>3

\* Either way no entry found before is lost, nor one that comes before it new.
LEMMA StillRecorded ==
  ASSUME NEW t \in Seq(Session), NEW u \in Seq(Session), NEW cookie \in SessionCookie,
         DOMAIN t \subseteq DOMAIN u,
         \A k \in DOMAIN t : u[k].id = t[k].id /\ u[k].logCounter >= t[k].logCounter,
         \A k \in DOMAIN u \ DOMAIN t : \A j \in DOMAIN t : j < k,
         Recorded(t, cookie)
  PROVE  Recorded(u, cookie)
<1>1. PICK i \in DOMAIN t : IsFirst(t, cookie.id, i) /\ t[i].logCounter >= cookie.counter
  BY DEF Recorded
<1>2. /\ DOMAIN t \subseteq Nat /\ DOMAIN u \subseteq Nat
      /\ \A k \in DOMAIN t : t[k] \in Session
      /\ \A k \in DOMAIN u : u[k] \in Session
  BY LenProperties, ElementOfSeq
<1>3. IsFirst(u, cookie.id, i)
  BY <1>1, <1>2 DEF IsFirst
<1>4. u[i].logCounter >= cookie.counter
  BY <1>1, <1>2 DEF Session, SessionCookie
<1> QED BY <1>1, <1>3, <1>4 DEF Recorded

LoggedIn(cookie, u, h) ==
  u = userLoginHandl(cookie).table /\ h = userLoginHandl(cookie).header
\* What a login does to the table and what it tells the browser.
LEMMA Login ==
  ASSUME SessionInv, NEW cookie \in SessionCookie,
         NEW u, NEW h, LoggedIn(cookie, u, h)
  PROVE  /\ u \in Seq(Session) /\ h \in SessionCookie
         /\ \A k \in DOMAIN u : u[k].id \in restarted .. second
         /\ \A x \in SessionCookie : Recorded(sessionTable, x) => Recorded(u, x)
         /\ h.id \in restarted .. second /\ Recorded(u, h)
         /\ Recorded(sessionTable, cookie) => h.id = cookie.id /\ h.counter >= cookie.counter
<1> DEFINE t == sessionTable
           i == findSession(cookie.id)
<1>1. t \in Seq(Session) /\ restarted \in Nat /\ second \in Nat /\ restarted <= second
  BY DEF SessionInv, SessionType
<1>2. \/ i = 0 /\ \A k \in DOMAIN t : t[k].id # cookie.id
      \/ IsFirst(t, cookie.id, i)
  <2>1. i = FirstOf(t, cookie.id)
    BY DEF findSession, FirstOf
  <2> HIDE DEF t, i
  <2> QED BY <1>1, <2>1, FindsFirst
<1>3. DOMAIN t \subseteq Nat \ {0} /\ \A k \in DOMAIN t : t[k] \in Session /\ t[k].id \in restarted .. second
  BY <1>1, LenProperties, ElementOfSeq DEF SessionInv, IdsInTime
<1>4. CASE i # 0
  <2> DEFINE v == [t EXCEPT ![i].logCounter = @ + 1]
  <2>1. IsFirst(t, cookie.id, i) /\ i \in DOMAIN t
    BY <1>2, <1>4 DEF IsFirst
  <2>2. u = v /\ h = [id |-> cookie.id, counter |-> v[i].logCounter]
    BY <1>4 DEF LoggedIn, userLoginHandl
  <2>3. /\ u \in Seq(Session) /\ DOMAIN u = DOMAIN t
        /\ \A k \in DOMAIN t : u[k].id = t[k].id /\ u[k].logCounter >= t[k].logCounter
        /\ u[i].logCounter = t[i].logCounter + 1
    <3>1. Bumped(t, i, u)
      BY <2>2 DEF Bumped
    <3> HIDE DEF t, i
    <3> QED BY <1>1, <2>1, <3>1, Counted
  <2>4. h.id = cookie.id /\ h.counter = u[i].logCounter
    BY <2>2
  <2> HIDE DEF t, i, v
  <2>5. u[i] \in Session /\ u[i].id = cookie.id
    BY <2>1, <2>3, ElementOfSeq, LenProperties DEF IsFirst
  <2>6. h \in SessionCookie
    BY <2>2, <2>5 DEF SessionCookie, Session
  <2>7. \A x \in SessionCookie : Recorded(t, x) => Recorded(u, x)
    BY <1>1, <2>3, StillRecorded
  <2>8. IsFirst(u, h.id, i)
    BY <2>1, <2>3, <2>4 DEF IsFirst
  <2>9. Recorded(u, h)
    BY <2>1, <2>3, <2>4, <2>5, <2>8 DEF Recorded, Session
  <2>10. Recorded(t, cookie) => h.counter >= cookie.counter
    <3>1. ASSUME NEW k \in DOMAIN t, IsFirst(t, cookie.id, k), t[k].logCounter >= cookie.counter
          PROVE  h.counter >= cookie.counter
      <4>1. k = i
        BY <1>3, <2>1, <3>1 DEF IsFirst
      <4>2. t[i].logCounter \in Nat /\ cookie.counter \in Nat
        BY <1>3, <2>1 DEF Session, SessionCookie
      <4> QED BY <2>3, <2>4, <3>1, <4>1, <4>2
    <3> QED BY <3>1 DEF Recorded
  <2>11. \A k \in DOMAIN u : u[k].id \in restarted .. second
    BY <1>3, <2>3
  <2> QED BY <1>3, <2>1, <2>3, <2>4, <2>5, <2>6, <2>7, <2>9, <2>10, <2>11 DEF t
<1>5. CASE i = 0
  <2> DEFINE e == [id |-> second, logCounter |-> 1]
             v == Append(t, e)
             first == FirstOf(v, second)
  <2>1. u = v /\ h = [id |-> second, counter |-> v[first].logCounter]
    BY <1>5 DEF LoggedIn, userLoginHandl, createNewSession, generateSessionId, FirstOf
  <2>2. e \in Session
    BY <1>1 DEF Session
  <2>3. \A k \in DOMAIN t : t[k].id # cookie.id
    BY <1>2, <1>3, <1>5 DEF IsFirst
  <2> HIDE DEF t, i
  <2>4. /\ v \in Seq(Session)
        /\ DOMAIN t \subseteq DOMAIN v
        /\ \A k \in DOMAIN t : v[k] = t[k]
        /\ \E k \in DOMAIN v : v[k] = e
        /\ \A k \in DOMAIN v : k \notin DOMAIN t => v[k] = e /\ \A j \in DOMAIN t : j < k
    <3> HIDE DEF e
    <3> QED BY <1>1, <2>2, Pushed
  <2> HIDE DEF v
  <2>5. IsFirst(v, second, first)
    BY <2>4, FindsFirst
  <2>6. DOMAIN v \subseteq Nat /\ \A k \in DOMAIN v : v[k] \in Session
    BY <2>4, LenProperties, ElementOfSeq
  <2>7. first \in DOMAIN v /\ v[first] \in Session
    BY <2>5, <2>6 DEF IsFirst
  <2> HIDE DEF first
  <2>8. h \in SessionCookie /\ h.id = second /\ h.counter = v[first].logCounter
    BY <1>1, <2>1, <2>7 DEF SessionCookie, Session
  <2>9. Recorded(v, h)
    BY <2>5, <2>7, <2>8 DEF Recorded, Session
  <2>10. \A x \in SessionCookie : Recorded(t, x) => Recorded(v, x)
    <3>1. \A k \in DOMAIN t : v[k].id = t[k].id /\ v[k].logCounter >= t[k].logCounter
      BY <1>3, <2>4 DEF Session
    <3> QED BY <1>1, <2>4, <3>1, StillRecorded
  <2>11. \A k \in DOMAIN v : v[k].id \in restarted .. second
    BY <1>1, <1>3, <2>4
  <2>12. ~Recorded(t, cookie)
    BY <2>3 DEF Recorded, IsFirst
  <2> QED BY <1>1, <2>1, <2>4, <2>8, <2>9, <2>10, <2>11, <2>12 DEF t
<1> QED BY <1>4, <1>5

\* What a step on one connection may do: what is under way is what the browser
\* has, and what was sent to it is recorded and not older.
OnlyChange(c, st, ck, h) ==
  /\ conn' \in [Connection -> [state : ConnState, cookie : SessionCookie, header : SessionCookie]]
  /\ conn'[c].state = st /\ conn'[c].cookie = ck /\ conn'[c].header = h
  /\ \A d \in Connection \ {c} : conn'[d] = conn[d]

\* The forms in which the actions write it.
Writes(c, st, ck, h) ==
  \/ conn' = [conn EXCEPT ![c] = [state |-> st, cookie |-> ck, header |-> h]]
  \/ ck = conn[c].cookie /\ h = conn[c].header /\ conn' = [conn EXCEPT ![c].state = st]
  \/ h = conn[c].header /\ conn' = [conn EXCEPT ![c].state = st, ![c].cookie = ck]
  \/ ck = conn[c].cookie /\ conn' = [conn EXCEPT ![c].state = st, ![c].header = h]
  \/ conn' = [conn EXCEPT ![c].state = st, ![c].cookie = ck, ![c].header = h]

\* Each form changes one connection, to what it says.
LEMMA Changes ==
  ASSUME SessionType, NEW c \in Connection, NEW st \in ConnState, NEW ck \in SessionCookie,
         NEW h \in SessionCookie, Writes(c, st, ck, h)
  PROVE  OnlyChange(c, st, ck, h)
<1> DEFINE Conn == [state : ConnState, cookie : SessionCookie, header : SessionCookie]
<1>1. conn \in [Connection -> Conn]
  BY DEF SessionType
<1>2. DOMAIN conn' = Connection /\ \A d \in Connection \ {c} : conn'[d] = conn[d]
  BY <1>1 DEF Writes
<1>3. conn'[c] = [state |-> st, cookie |-> ck, header |-> h]
  BY <1>1 DEF Writes
<1>4. conn'[c] \in Conn /\ conn'[c].state = st /\ conn'[c].cookie = ck /\ conn'[c].header = h
  BY <1>3
<1>5. conn' = [d \in Connection |-> conn'[d]]
  BY <1>1 DEF Writes
<1>6. \A d \in Connection : conn'[d] \in Conn
  BY <1>1, <1>2, <1>4
<1>7. conn' \in [Connection -> Conn]
  <2> HIDE DEF Conn
  <2> QED BY <1>5, <1>6
<1> QED BY <1>2, <1>4, <1>7 DEF OnlyChange

\* The invariant after a step on one connection that leaves table and jars.
LEMMA Quietly ==
  ASSUME SessionInv, NEW c \in Connection, NEW st, NEW ck, NEW h,
         OnlyChange(c, st, ck, h),
         st \in Asked => ck = jar[Owner[c]],
         h \in {NoCookie, conn[c].header},
         UNCHANGED <<second, sessionTable, jar, restarted>>
  PROVE  SessionInv'
<1>1. SessionType'
  BY DEF SessionInv, SessionType, OnlyChange
<1>2. \A d \in Connection : conn'[d].header \in {NoCookie, conn[d].header}
  BY DEF OnlyChange
<1>3. IdsInTime'
  BY <1>2 DEF SessionInv, SessionType, IdsInTime, NoCookie
<1>4. CookiesRecorded'
  BY <1>2 DEF SessionInv, CookiesRecorded, Valid
<1>5. UnderWay'
  <2>1. ASSUME NEW d \in Connection, Single(Owner[d])
        PROVE  /\ conn'[d].state \in Asked => conn'[d].cookie = jar[Owner[d]]
               /\ conn'[d].header # NoCookie /\ Valid(jar[Owner[d]]) =>
                    /\ conn'[d].header.id = jar[Owner[d]].id
                    /\ conn'[d].header.counter >= jar[Owner[d]].counter
    BY <1>2, <2>1 DEF SessionInv, UnderWay, OnlyChange
  <2> QED BY <2>1 DEF UnderWay, Valid, Single
<1> QED BY <1>1, <1>3, <1>4, <1>5 DEF SessionInv

\* No cookie and a closed connection are values of their kinds.
LEMMA NothingYet ==
  /\ NoCookie \in SessionCookie /\ NoCookie.id = -1
  /\ Closed \in [state : ConnState, cookie : SessionCookie, header : SessionCookie]
  /\ Closed.header = NoCookie /\ Closed.state = "closed"
<1>1. NoCookie \in SessionCookie /\ NoCookie.id = -1
  BY DEF NoCookie, SessionCookie
<1>2. Closed = [state |-> "closed", cookie |-> NoCookie, header |-> NoCookie]
  BY DEF Closed
<1> HIDE DEF NoCookie
<1>3. Closed \in [state : ConnState, cookie : SessionCookie, header : SessionCookie]
  BY <1>1, <1>2 DEF ConnState
<1>4. Closed.header = NoCookie /\ Closed.state = "closed"
  BY <1>2
<1> QED BY <1>1, <1>3, <1>4

\* Before the first connection no browser has a cookie.
LEMMA SessionsInitially == SessionsInit => SessionInv
<1> SUFFICES ASSUME SessionsInit PROVE SessionInv
  OBVIOUS
<1>2. SessionType
  BY NothingYet, OwnerAssumption DEF SessionsInit, SessionType
<1>3. IdsInTime
  BY NothingYet DEF SessionsInit, IdsInTime
<1>4. CookiesRecorded
  BY NothingYet DEF SessionsInit, CookiesRecorded, Valid
<1>5. UnderWay
  BY NothingYet, OwnerAssumption DEF SessionsInit, UnderWay, Asked, Valid
<1> QED BY <1>2, <1>3, <1>4, <1>5 DEF SessionInv

\* The clock goes on: the ids given out stay in the past.
LEMMA TickStep ==
  ASSUME SessionInv, Tick
  PROVE  SessionInv'
<1>1. second' = second + 1 /\ UNCHANGED <<sessionTable, jar, conn, requests, restarted>>
  BY DEF Tick
<1>2. SessionType'
  BY <1>1 DEF SessionInv, SessionType
<1>3. IdsInTime'
  BY <1>1, OwnerAssumption DEF SessionInv, SessionType, IdsInTime, SessionCookie
<1> QED BY <1>1, <1>2, <1>3 DEF SessionInv, CookiesRecorded, UnderWay, Valid

\* After a restart, in a later second, no cookie is valid and nothing is under way.
LEMMA RestartStep ==
  ASSUME SessionInv, Restart
  PROVE  SessionInv'
<1>1. /\ second' = second + 1 /\ restarted' = second + 1 /\ sessionTable' = <<>>
      /\ conn' = [c \in Connection |-> Closed] /\ jar' = jar
  BY DEF Restart
<1>3. SessionType'
  BY <1>1, NothingYet DEF SessionInv, SessionType
<1>4. \A b \in Browser : jar[b].id \in Int /\ jar[b].id <= second /\ second \in Nat
  BY DEF SessionInv, SessionType, IdsInTime, SessionCookie
<1>5. IdsInTime'
  BY <1>1, <1>4, NothingYet, OwnerAssumption DEF IdsInTime, SessionInv, SessionType
<1>6. \A b \in Browser : ~Valid(jar[b])'
  BY <1>1, <1>4 DEF Valid
<1>7. CookiesRecorded'
  BY <1>1, NothingYet, <1>6 DEF CookiesRecorded, Valid
<1>8. UnderWay'
  BY <1>1, NothingYet DEF UnderWay, Asked
<1> QED BY <1>3, <1>5, <1>7, <1>8 DEF SessionInv

\* Connect, Disconnect, Ask and AnswerPage: they leave the table and the jars.
LEMMA QuietStep ==
  ASSUME SessionInv, NEW c \in Connection,
         \/ Connect(c) \/ Disconnect(c) \/ AnswerPage(c)
         \/ \E kind \in Asked : Ask(c, kind)
  PROVE  SessionInv' /\ UNCHANGED jar
<1>1. /\ SessionType /\ conn[c].cookie \in SessionCookie /\ conn[c].header \in SessionCookie
      /\ conn[c].state \in ConnState /\ jar[Owner[c]] \in SessionCookie
  BY OwnerAssumption DEF SessionInv, SessionType
<1>2. CASE Connect(c)
  <2>1. OnlyChange(c, "open", conn[c].cookie, conn[c].header)
    <3>1. Writes(c, "open", conn[c].cookie, conn[c].header)
      BY <1>2 DEF Connect, Writes
    <3> QED BY <1>1, <3>1, Changes DEF ConnState
  <2>2. UNCHANGED <<second, sessionTable, jar, restarted>>
    BY <1>2 DEF Connect
  <2> QED BY <2>1, <2>2, Quietly DEF Asked
<1>3. CASE Disconnect(c)
  <2>1. OnlyChange(c, "closed", NoCookie, NoCookie)
    <3>1. Writes(c, "closed", NoCookie, NoCookie)
      BY <1>3 DEF Disconnect, Closed, Writes
    <3> QED BY <1>1, <3>1, Changes, NothingYet DEF ConnState
  <2>2. UNCHANGED <<second, sessionTable, jar, restarted>>
    BY <1>3 DEF Disconnect
  <2> QED BY <2>1, <2>2, Quietly DEF Asked
<1>4. CASE AnswerPage(c)
  <2>1. PICK st \in {"answer", "output"} : conn' = [conn EXCEPT ![c].state = st]
    BY <1>4 DEF AnswerPage
  <2>2. OnlyChange(c, st, conn[c].cookie, conn[c].header)
    <3>1. Writes(c, st, conn[c].cookie, conn[c].header)
      BY <2>1 DEF Writes
    <3> QED BY <1>1, <3>1, Changes DEF ConnState
  <2>3. UNCHANGED <<second, sessionTable, jar, restarted>>
    BY <1>4 DEF AnswerPage
  <2> QED BY <2>1, <2>2, <2>3, Quietly DEF Asked
<1>5. ASSUME NEW kind \in Asked, Ask(c, kind)
      PROVE  SessionInv' /\ UNCHANGED jar
  <2>1. OnlyChange(c, kind, jar[Owner[c]], conn[c].header)
    <3>1. Writes(c, kind, jar[Owner[c]], conn[c].header)
      BY <1>5 DEF Ask, Writes
    <3> QED BY <1>1, <3>1, Changes DEF Asked, ConnState
  <2>2. UNCHANGED <<second, sessionTable, jar, restarted>>
    BY <1>5 DEF Ask
  <2> QED BY <2>1, <2>2, Quietly
<1> QED BY <1>2, <1>3, <1>4, <1>5

\* A login answered: the header is recorded, and not older than the cookie it answers.
LEMMA LoginStep ==
  ASSUME SessionInv, NEW c \in Connection, AnswerLogin(c)
  PROVE  SessionInv' /\ UNCHANGED jar
<1>1. /\ SessionType /\ conn[c].cookie \in SessionCookie /\ conn[c].header \in SessionCookie
      /\ conn[c].state \in ConnState /\ jar[Owner[c]] \in SessionCookie /\ Owner[c] \in Browser
  BY OwnerAssumption DEF SessionInv, SessionType
<1> DEFINE ck == conn[c].cookie
<1>2. PICK u, h : u = userLoginHandl(ck).table /\ h = userLoginHandl(ck).header
  OBVIOUS
<1>3. /\ sessionTable' = u /\ conn' = [conn EXCEPT ![c].state = "answer", ![c].header = h]
      /\ UNCHANGED <<second, jar, requests, restarted>>
      /\ conn[c].state = "login"
  BY <1>2 DEF AnswerLogin
<1>4. /\ u \in Seq(Session) /\ h \in SessionCookie
      /\ \A k \in DOMAIN u : u[k].id \in restarted .. second
      /\ \A x \in SessionCookie : Recorded(sessionTable, x) => Recorded(u, x)
      /\ h.id \in restarted .. second /\ Recorded(u, h)
      /\ Recorded(sessionTable, ck) => h.id = ck.id /\ h.counter >= ck.counter
  <2>1. LoggedIn(ck, u, h)
    BY <1>2 DEF LoggedIn
  <2> QED BY <1>1, <2>1, Login
<1>5. OnlyChange(c, "answer", ck, h)
  <2>1. Writes(c, "answer", ck, h)
    BY <1>2, <1>3 DEF Writes
  <2> QED BY <1>1, <1>4, <2>1, Changes DEF ConnState
<1>6. SessionType'
  BY <1>3, <1>4, <1>5 DEF SessionInv, SessionType, OnlyChange
<1>7. IdsInTime'
  BY <1>3, <1>4, <1>5 DEF SessionInv, SessionType, IdsInTime, OnlyChange
<1>8. CookiesRecorded'
  <2>1. ASSUME NEW b \in Browser, Valid(jar[b]) PROVE Recorded(u, jar[b])
    BY <1>4, <2>1 DEF SessionInv, SessionType, CookiesRecorded
  <2>2. ASSUME NEW d \in Connection, conn'[d].header # NoCookie
        PROVE  conn'[d].header.id >= restarted /\ Recorded(u, conn'[d].header)
    <3>1. CASE d = c
      BY <1>4, <1>5, <3>1 DEF OnlyChange, SessionInv, SessionType
    <3>2. CASE d # c
      <4>1. conn'[d] = conn[d] /\ conn[d].header \in SessionCookie
        BY <1>1, <1>5, <3>2 DEF OnlyChange, SessionType
      <4> QED BY <1>4, <2>2, <4>1 DEF SessionInv, CookiesRecorded
    <3> QED BY <3>1, <3>2
  <2> QED BY <1>3, <2>1, <2>2 DEF CookiesRecorded, Valid
<1>9. UnderWay'
  <2>1. ASSUME NEW d \in Connection, Single(Owner[d])
        PROVE  /\ conn'[d].state \in Asked => conn'[d].cookie = jar[Owner[d]]
               /\ conn'[d].header # NoCookie /\ Valid(jar[Owner[d]]) =>
                    /\ conn'[d].header.id = jar[Owner[d]].id
                    /\ conn'[d].header.counter >= jar[Owner[d]].counter
    <3>1. CASE d = c
      <4>1. ck = jar[Owner[c]]
        BY <1>2, <1>3, <2>1, <3>1 DEF SessionInv, UnderWay, Asked
      <4>2. Valid(jar[Owner[c]]) => Recorded(sessionTable, ck)
        BY <1>1, <4>1 DEF SessionInv, CookiesRecorded
      <4>3. conn'[c].state = "answer" /\ conn'[c].header = h
        BY <1>5 DEF OnlyChange
      <4> QED BY <1>4, <3>1, <4>1, <4>2, <4>3 DEF Asked
    <3>2. CASE d # c
      BY <1>5, <2>1, <3>2 DEF SessionInv, UnderWay, OnlyChange
    <3> QED BY <3>1, <3>2
  <2> QED BY <1>3, <2>1 DEF UnderWay, Valid, Single
<1> QED BY <1>3, <1>6, <1>7, <1>8, <1>9 DEF SessionInv

\* What a browser may be told in a step: the session it has, and no less.
NotBack ==
  \A b \in Browser : Single(b) /\ jar[b] # NoCookie /\ jar[b].id >= restarted =>
    jar'[b].id = jar[b].id /\ jar'[b].counter >= jar[b].counter

\* An answer read: the browser gets what was recorded, its own session or a new one.
LEMMA ReceiveStep ==
  ASSUME SessionInv, NEW c \in Connection, Receive(c)
  PROVE  SessionInv' /\ NotBack
<1>1. /\ SessionType /\ conn[c].cookie \in SessionCookie /\ conn[c].header \in SessionCookie
      /\ conn[c].state \in ConnState /\ Owner[c] \in Browser
      /\ \A b \in Browser : jar[b] \in SessionCookie
      /\ \A b \in Browser : jar[b].counter \in Nat
  BY OwnerAssumption DEF SessionInv, SessionType, SessionCookie
<1>2. PICK b \in Browser, kept \in {NoCookie, conn[c].header}, h \in SessionCookie :
        /\ b = Owner[c] /\ h = conn[c].header
        /\ conn' = [conn EXCEPT ![c].state = "open", ![c].cookie = NoCookie, ![c].header = kept]
        /\ jar' = [jar EXCEPT ![b] = IF h = NoCookie THEN @ ELSE h]
        /\ UNCHANGED <<second, sessionTable, requests, restarted>>
  BY <1>1 DEF Receive
<1>3. OnlyChange(c, "open", NoCookie, kept)
  <2>1. Writes(c, "open", NoCookie, kept)
    BY <1>2 DEF Writes
  <2> QED BY <1>1, <1>2, <2>1, Changes, NothingYet DEF ConnState
<1>4. /\ jar' \in [Browser -> SessionCookie]
      /\ jar'[b] = IF h = NoCookie THEN jar[b] ELSE h
      /\ \A a \in Browser \ {b} : jar'[a] = jar[a]
  BY <1>1, <1>2 DEF SessionType
<1>5. SessionType'
  BY <1>2, <1>3, <1>4 DEF SessionInv, SessionType, OnlyChange
<1>6. \A d \in Connection : conn'[d].header \in {NoCookie, conn[d].header}
  BY <1>2, <1>3 DEF OnlyChange
<1>7. IdsInTime'
  BY <1>1, <1>2, <1>4, <1>6, NothingYet DEF SessionInv, SessionType, IdsInTime
<1>8. CookiesRecorded'
  <2>1. \A a \in Browser : Valid(jar'[a]) => Recorded(sessionTable, jar'[a])
    BY <1>2, <1>4 DEF SessionInv, CookiesRecorded
  <2>2. \A d \in Connection : conn'[d].header # NoCookie =>
          conn'[d].header.id >= restarted /\ Recorded(sessionTable, conn'[d].header)
    BY <1>6 DEF SessionInv, CookiesRecorded
  <2> QED BY <1>2, <2>1, <2>2 DEF CookiesRecorded, Valid
<1>9. UnderWay'
  <2>1. ASSUME NEW d \in Connection, Single(Owner[d])
        PROVE  /\ conn'[d].state \in Asked => conn'[d].cookie = jar'[Owner[d]]
               /\ conn'[d].header # NoCookie /\ Valid(jar'[Owner[d]]) =>
                    /\ conn'[d].header.id = jar'[Owner[d]].id
                    /\ conn'[d].header.counter >= jar'[Owner[d]].counter
    <3>1. CASE d = c
      <4>1. conn'[c].state = "open" /\ conn'[c].header = kept
        BY <1>3 DEF OnlyChange
      <4>2. CASE kept = NoCookie
        BY <3>1, <4>1, <4>2 DEF Asked
      <4>3. CASE kept # NoCookie
        <5>1. kept = h /\ jar'[Owner[d]] = h /\ h.counter \in Nat
          BY <1>2, <1>4, <3>1, <4>3 DEF SessionCookie
        <5> QED BY <3>1, <4>1, <5>1 DEF Asked
      <4> QED BY <4>2, <4>3
    <3>2. CASE d # c
      <4>1. Owner[d] \in Browser \ {b} /\ conn'[d] = conn[d]
        BY <1>2, <1>3, <2>1, <3>2, OwnerAssumption DEF Single, OnlyChange
      <4>2. jar'[Owner[d]] = jar[Owner[d]]
        BY <1>4, <4>1
      <4> QED BY <2>1, <4>1, <4>2 DEF SessionInv, UnderWay
    <3> QED BY <3>1, <3>2
  <2> QED BY <1>2, <2>1 DEF UnderWay, Valid, Single
<1>10. NotBack
  <2>1. ASSUME NEW a \in Browser, Single(a), Valid(jar[a])
        PROVE  jar'[a].id = jar[a].id /\ jar'[a].counter >= jar[a].counter
    <3>1. CASE jar'[a] = jar[a]
      BY <1>1, <3>1
    <3>2. CASE jar'[a] # jar[a]
      <4>1. a = Owner[c] /\ jar'[a] = conn[c].header /\ conn[c].header # NoCookie
        BY <1>2, <1>4, <3>2
      <4> QED BY <2>1, <4>1 DEF SessionInv, UnderWay
    <3> QED BY <3>1, <3>2
  <2> QED BY <2>1 DEF NotBack, Valid
<1> QED BY <1>5, <1>7, <1>8, <1>9, <1>10 DEF SessionInv

\* Every step of the sessions keeps the invariant and takes no browser back.
LEMMA SessionsStep ==
  ASSUME SessionInv, SessionsNext
  PROVE  SessionInv' /\ NotBack
<1>1. UNCHANGED jar => NotBack
  BY DEF NotBack, SessionInv, SessionType, SessionCookie
<1>2. CASE Tick
  BY <1>1, <1>2, TickStep DEF Tick
<1>3. CASE Restart
  BY <1>1, <1>3, RestartStep DEF Restart
<1>4. ASSUME NEW c \in Connection,
             \/ Connect(c) \/ Disconnect(c) \/ AnswerLogin(c) \/ AnswerPage(c) \/ Receive(c)
             \/ \E kind \in Asked : Ask(c, kind)
      PROVE  SessionInv' /\ NotBack
  BY <1>1, <1>4, QuietStep, LoginStep, ReceiveStep
<1> QED BY <1>2, <1>3, <1>4 DEF SessionsNext, Asked

\* And so does every step of main().
LEMMA SiteStep == SessionInv /\ [SiteNext]_siteVars => SessionInv' /\ [NotBack]_sessionVars
<1> SUFFICES ASSUME SessionInv, [SiteNext]_siteVars PROVE SessionInv' /\ [NotBack]_sessionVars
  OBVIOUS
<1>1. CASE SessionsNext
  BY <1>1, SessionsStep
<1>2. CASE UNCHANGED sessionVars
  BY <1>2 DEF sessionVars, SessionInv, SessionType, IdsInTime, CookiesRecorded, UnderWay, Valid
<1> QED BY <1>1, <1>2 DEF SiteNext, siteVars

\* A browser with one connection keeps the session it was given as long as the
\* server runs, and its counter never goes back: of any number of browsers, in
\* any order of logins, lost answers and restarts.
THEOREM SessionKept == Spec => KeepsSession
<1>1. SiteInit => SessionInv
  BY SessionsInitially DEF SiteInit
<1>2. [][NotBack]_sessionVars => KeepsSession
  BY DEF NotBack, KeepsSession
<1> QED BY <1>1, <1>2, SiteStep, PTL DEF Spec
====
