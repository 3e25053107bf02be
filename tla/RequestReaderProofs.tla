------------------------- MODULE RequestReaderProofs -------------------------
(***************************************************************************)
(* What RequestReader promises for every set of requests and every limit:  *)
(* IInv is inductive.  The proof follows requestHandler(): Settles is what *)
(* handlerReturn() is called with, Done what it leaves, Body what readBody *)
(* is called with, and Waits what a body that is not complete leaves.      *)
(* Each is about an outcome s and the bytes `rest` not received yet.       *)
(***************************************************************************)
EXTENDS RequestReader, HandlerProofs, SequenceTheorems, WellFoundedInduction

-----------------------------------------------------------------------------
(* Sequences of items                                                       *)

\* A sequence and the two parts it is cut into.
LEMMA Split ==
  ASSUME NEW S, NEW s \in Seq(S), NEW n \in 0 .. Len(s)
  PROVE  LET a == SubSeq(s, 1, n)
             b == SubSeq(s, n + 1, Len(s))
         IN /\ a \in Seq(S) /\ Len(a) = n /\ \A k \in 1 .. n : a[k] = s[k]
            /\ b \in Seq(S) /\ Len(b) = Len(s) - n /\ \A k \in 1 .. Len(s) - n : b[k] = s[n + k]
            /\ a \o b = s
<1>1. Len(s) \in Nat /\ \A k \in 1 .. Len(s) : s[k] \in S
  BY LenProperties, ElementOfSeq
<1> DEFINE a == SubSeq(s, 1, n)
           b == SubSeq(s, n + 1, Len(s))
<1>2. a \in Seq(S) /\ Len(a) = n /\ \A k \in 1 .. n : a[k] = s[k]
  <2>1. \A k \in 1 .. n : s[k] \in S
    BY <1>1
  <2>2. /\ a \in Seq(S) /\ Len(a) = IF 1 <= n THEN n - 1 + 1 ELSE 0
        /\ \A k \in 1 .. n - 1 + 1 : a[k] = s[1 + k - 1]
    BY <1>1, <2>1, SubSeqProperties
  <2> HIDE DEF a
  <2> QED BY <1>1, <2>2
<1>3. b \in Seq(S) /\ Len(b) = Len(s) - n /\ \A k \in 1 .. Len(s) - n : b[k] = s[n + k]
  <2>1. \A k \in n + 1 .. Len(s) : s[k] \in S
    BY <1>1
  <2>2. /\ b \in Seq(S) /\ Len(b) = IF n + 1 <= Len(s) THEN Len(s) - (n + 1) + 1 ELSE 0
        /\ \A k \in 1 .. Len(s) - (n + 1) + 1 : b[k] = s[n + 1 + k - 1]
    BY <1>1, <2>1, SubSeqProperties
  <2> HIDE DEF b
  <2> QED BY <1>1, <2>2
<1>4. a \o b = s
  <2> HIDE DEF a, b
  <2>1. /\ a \o b \in Seq(S) /\ Len(a \o b) = Len(a) + Len(b)
        /\ \A k \in 1 .. Len(a) + Len(b) : (a \o b)[k] = IF k <= Len(a) THEN a[k] ELSE b[k - Len(a)]
    BY <1>2, <1>3, ConcatProperties
  <2>2. Len(a \o b) = Len(s)
    BY <1>1, <1>2, <1>3, <2>1
  <2>3. ASSUME NEW k \in 1 .. Len(a \o b) PROVE (a \o b)[k] = s[k]
    <3>1. CASE k <= n
      BY <1>1, <1>2, <1>3, <2>1, <2>2, <3>1
    <3>2. CASE k > n
      <4>1. k - n \in 1 .. Len(s) - n /\ n + (k - n) = k
        BY <1>1, <2>2, <3>2
      <4>2. b[k - n] = s[n + (k - n)]
        BY <1>3, <4>1
      <4> QED BY <1>1, <1>2, <1>3, <2>1, <2>2, <3>2, <4>1, <4>2
    <3> QED BY <1>1, <2>2, <3>1, <3>2
  <2> QED BY <2>1, <2>2, <2>3, SeqEqual
<1> QED BY <1>2, <1>3, <1>4

\* Parts put together.
LEMMA Joined ==
  ASSUME NEW S, NEW a, NEW b, NEW c, a \in Seq(S), b \in Seq(S), c \in Seq(S)
  PROVE  a \o (b \o c) = (a \o b) \o c
BY ConcatAssociative, SMTT(30)

\* Where the second of two sequences is found in the first and the second.
LEMMA Behind ==
  ASSUME NEW S, NEW a \in Seq(S), NEW b \in Seq(S)
  PROVE  /\ a \o b \in Seq(S) /\ Len(a) \in Nat /\ Len(b) \in Nat
         /\ DOMAIN a = 1 .. Len(a) /\ DOMAIN b = 1 .. Len(b)
         /\ DOMAIN (a \o b) = 1 .. Len(a) + Len(b)
         /\ \A k \in DOMAIN a : k \in DOMAIN (a \o b) /\ (a \o b)[k] = a[k]
         /\ \A k \in DOMAIN b : Len(a) + k \in DOMAIN (a \o b) /\ (a \o b)[Len(a) + k] = b[k]
         /\ \A k \in DOMAIN (a \o b) :
              k \in DOMAIN a \/ \E j \in DOMAIN b : k = Len(a) + j
<1>1. Len(a) \in Nat /\ Len(b) \in Nat /\ DOMAIN a = 1 .. Len(a) /\ DOMAIN b = 1 .. Len(b)
  BY LenProperties
<1>2. /\ a \o b \in Seq(S) /\ Len(a \o b) = Len(a) + Len(b)
      /\ \A k \in 1 .. Len(a) + Len(b) : (a \o b)[k] = IF k <= Len(a) THEN a[k] ELSE b[k - Len(a)]
  BY ConcatProperties
<1>3. DOMAIN (a \o b) = 1 .. Len(a) + Len(b)
  BY <1>2, LenProperties
<1> DEFINE c == a \o b
<1> HIDE DEF c
<1>4. ASSUME NEW k \in DOMAIN a PROVE k \in DOMAIN c /\ c[k] = a[k]
  BY <1>1, <1>2, <1>3, <1>4 DEF c
<1>5. ASSUME NEW k \in DOMAIN b PROVE Len(a) + k \in DOMAIN c /\ c[Len(a) + k] = b[k]
  <2>1. Len(a) + k \in 1 .. Len(a) + Len(b) /\ ~(Len(a) + k <= Len(a)) /\ Len(a) + k - Len(a) = k
    BY <1>1, <1>5
  <2> QED BY <1>2, <1>3, <2>1 DEF c
<1>6. ASSUME NEW k \in DOMAIN c
      PROVE  k \in DOMAIN a \/ \E j \in DOMAIN b : k = Len(a) + j
  <2>1. k \in 1 .. Len(a) + Len(b)
    BY <1>3, <1>6 DEF c
  <2>2. CASE k > Len(a)
    <3>1. k - Len(a) \in DOMAIN b /\ k = Len(a) + (k - Len(a))
      BY <1>1, <2>1, <2>2
    <3> QED BY <3>1
  <2> QED BY <1>1, <2>1, <2>2
<1> QED BY <1>1, <1>2, <1>3, <1>4, <1>5, <1>6 DEF c

\* Two sequences that are put together, cut up again.
LEMMA Rejoined ==
  ASSUME NEW S, NEW a \in Seq(S), NEW b \in Seq(S), NEW c, c = a \o b
  PROVE  Len(a) \in 0 .. Len(c) /\ SubSeq(c, 1, Len(a)) = a /\ SubSeq(c, Len(a) + 1, Len(c)) = b
<1>1. /\ c \in Seq(S) /\ Len(a) \in Nat /\ Len(b) \in Nat /\ Len(c) = Len(a) + Len(b)
      /\ \A k \in 1 .. Len(a) + Len(b) : c[k] = IF k <= Len(a) THEN a[k] ELSE b[k - Len(a)]
  BY ConcatProperties, LenProperties
<1>2. PICK n : n = Len(a)
  OBVIOUS
<1>3. n \in 0 .. Len(c) /\ n \in Nat
  BY <1>1, <1>2
<1>4. PICK d : d = SubSeq(c, 1, n)
  OBVIOUS
<1>5. PICK e : e = SubSeq(c, n + 1, Len(c))
  OBVIOUS
<1>6. /\ d \in Seq(S) /\ Len(d) = n /\ \A k \in 1 .. n : d[k] = c[k]
      /\ e \in Seq(S) /\ Len(e) = Len(c) - n /\ \A k \in 1 .. Len(c) - n : e[k] = c[n + k]
  <2>1. c \in Seq(S) /\ n \in 0 .. Len(c)
    BY <1>1, <1>3
  <2>2. d \in Seq(S) /\ Len(d) = n /\ \A k \in 1 .. n : d[k] = c[k]
    BY <1>4, <2>1, Split
  <2>3. e \in Seq(S) /\ Len(e) = Len(c) - n /\ \A k \in 1 .. Len(c) - n : e[k] = c[n + k]
    BY <1>5, <2>1, Split
  <2> QED BY <2>2, <2>3
<1>7. d = a
  <2>1. \A k \in 1 .. Len(a) : d[k] = a[k]
    BY <1>1, <1>2, <1>6
  <2> QED BY <1>2, <1>6, <2>1, SeqEqual
<1>8. e = b
  <2>1. Len(e) = Len(b)
    BY <1>1, <1>2, <1>6
  <2>2. ASSUME NEW k \in 1 .. Len(e) PROVE e[k] = b[k]
    <3>1. k \in 1 .. Len(c) - n /\ n + k \in 1 .. Len(a) + Len(b) /\ ~(n + k <= Len(a)) /\ (n + k) - Len(a) = k
      BY <1>1, <1>2, <2>1
    <3>2. e[k] = c[n + k]
      BY <1>6, <3>1
    <3>3. c[n + k] = b[(n + k) - Len(a)]
      BY <1>1, <3>1
    <3> QED BY <3>1, <3>2, <3>3
  <2> QED BY <1>6, <2>1, <2>2, SeqEqual
<1> QED BY <1>2, <1>3, <1>4, <1>5, <1>7, <1>8

\* What is said of a sequence of items holds of the part that is left.
LEMMA Later ==
  ASSUME NEW a \in Seq(Item), NEW b \in Seq(Item), NEW n
  PROVE  /\ Heads(a \o b, n) => Heads(b, n)
         /\ Bytes(a \o b, n) => Bytes(b, n)
         /\ Numbered(n, a \o b) => Numbered(n, a)
<1> DEFINE c == a \o b
<1>1. /\ Len(a) \in Nat /\ DOMAIN b = 1 .. Len(b) /\ Len(b) \in Nat
      /\ \A k \in DOMAIN a : k \in DOMAIN c /\ c[k] = a[k]
      /\ \A k \in DOMAIN b : Len(a) + k \in DOMAIN c /\ c[Len(a) + k] = b[k]
  BY Behind
<1> HIDE DEF c
<1>2. ASSUME Heads(c, n) PROVE Heads(b, n)
  <2>1. ASSUME NEW k \in DOMAIN b, IsEnd(b[k]) PROVE n < b[k].req /\ b[k].req <= Len(sent)
    BY <1>1, <1>2, <2>1 DEF Heads
  <2>2. ASSUME NEW j \in DOMAIN b, NEW k \in DOMAIN b, j < k, IsEnd(b[j]), IsEnd(b[k])
        PROVE  b[j].req < b[k].req
    <3>1. Len(a) + j < Len(a) + k
      BY <1>1, <2>2
    <3> QED BY <1>1, <1>2, <2>2, <3>1 DEF Heads
  <2> QED BY <2>1, <2>2 DEF Heads
<1>3. Bytes(c, n) => Bytes(b, n)
  BY <1>1 DEF Bytes
<1>4. Numbered(n, c) => Numbered(n, a)
  BY <1>1 DEF Numbered
<1> QED BY <1>2, <1>3, <1>4 DEF c

\* Bytes that are a body.
Spells(n, items, size) == Numbered(n, items) /\ Len(items) = size
\* Bytes that are stored are no longer to come.
LEMMA Moved ==
  ASSUME NEW d \in Seq(Item), NEW w \in Seq(Item), NEW a \in Seq(Item), NEW b \in Seq(Item),
         NEW n \in Nat
  PROVE  /\ d \o a \in Seq(Item) /\ b \o w \in Seq(Item)
         /\ (a \o b) \o w = a \o (b \o w)
         /\ \A m : Spells(n, d \o ((a \o b) \o w), m) => Spells(n, (d \o a) \o (b \o w), m)
         /\ \A m : Spells(n, d \o ((a \o b) \o w), m) => Numbered(n, d \o a)
<1>1. d \o a \in Seq(Item) /\ b \o w \in Seq(Item)
  BY ConcatProperties
<1>2. (a \o b) \o w = a \o (b \o w)
  BY Joined, SMTT(60)
<1>3. PICK e : e = b \o w
  OBVIOUS
<1>4. e \in Seq(Item)
  BY <1>1, <1>3
<1>5. d \o (a \o e) = (d \o a) \o e
  BY <1>4, Joined, SMTT(60)
<1>6. Numbered(n, (d \o a) \o e) => Numbered(n, d \o a)
  BY <1>1, <1>4, Later
<1>7. PICK f : f = d \o ((a \o b) \o w)
  OBVIOUS
<1>8. f = (d \o a) \o e
  BY <1>2, <1>3, <1>5, <1>7
<1>9. ASSUME NEW m, Spells(n, f, m) PROVE Spells(n, (d \o a) \o (b \o w), m) /\ Numbered(n, d \o a)
  BY <1>3, <1>6, <1>8, <1>9 DEF Spells
<1> QED BY <1>1, <1>2, <1>7, <1>9

\* A message on its way.
LEMMA MessageIs ==
  ASSUME NEW n \in Nat \ {0}, NEW r, r.size \in Nat
  PROVE  LET m == Message(n, r)
         IN /\ m \in Seq(Item) /\ Len(m) = 2 + r.size /\ m # << >>
            /\ m[1] = HeadStart(n) /\ m[2] = HeadEnd(n)
            /\ \A k \in DOMAIN m : k > 2 => m[k] = BodyByte(n, k - 2)
            /\ \A k \in DOMAIN m : m[k].req = n /\ (IsEnd(m[k]) <=> k = 2)
<1> DEFINE h == <<HeadStart(n), HeadEnd(n)>>
           b == [k \in 1 .. r.size |-> BodyByte(n, k)]
           m == h \o b
<1>1. HeadStart(n) \in Item /\ HeadEnd(n) \in Item /\ \A k \in 1 .. r.size : BodyByte(n, k) \in Item
  BY DEF HeadStart, HeadEnd, BodyByte, Item
<1>2. h \in Seq(Item) /\ Len(h) = 2 /\ h[1] = HeadStart(n) /\ h[2] = HeadEnd(n)
  BY <1>1
<1>3. b \in [1 .. r.size -> Item]
  BY <1>1
<1>4. b \in Seq(Item)
  BY <1>3, SeqDef
<1>5. Len(b) = r.size /\ DOMAIN b = 1 .. r.size
  <2>1. DOMAIN b = 1 .. r.size /\ DOMAIN b = 1 .. Len(b) /\ Len(b) \in Nat
    BY <1>4, LenProperties
  <2> QED BY <2>1
<1>6. \A k \in 1 .. r.size : b[k] = BodyByte(n, k)
  OBVIOUS
<1> HIDE DEF h, b
<1>7. /\ m \in Seq(Item) /\ Len(m) = 2 + r.size /\ DOMAIN m = 1 .. 2 + r.size
      /\ \A k \in 1 .. 2 + r.size : m[k] = IF k <= 2 THEN h[k] ELSE b[k - 2]
  <2>1. /\ m \in Seq(Item) /\ Len(m) = Len(h) + Len(b)
        /\ \A k \in 1 .. Len(h) + Len(b) : m[k] = IF k <= Len(h) THEN h[k] ELSE b[k - Len(h)]
    BY <1>2, <1>4, ConcatProperties
  <2>2. DOMAIN m = 1 .. Len(m)
    BY <2>1, LenProperties
  <2> HIDE DEF m
  <2> QED BY <1>2, <1>5, <2>1, <2>2
<1> HIDE DEF m
<1>8. m[1] = HeadStart(n) /\ m[2] = HeadEnd(n) /\ m # << >>
  BY <1>2, <1>7
<1>9. ASSUME NEW k \in DOMAIN m, k > 2 PROVE m[k] = BodyByte(n, k - 2)
  <2>1. k - 2 \in 1 .. r.size
    BY <1>7, <1>9
  <2> QED BY <1>6, <1>7, <1>9, <2>1
<1>10. ASSUME NEW k \in DOMAIN m PROVE m[k].req = n /\ (IsEnd(m[k]) <=> k = 2)
  <2>1. k = 1 \/ k = 2 \/ k > 2
    BY <1>7, <1>10
  <2>2. CASE k = 1
    BY <1>8, <2>2 DEF HeadStart, IsEnd
  <2>3. CASE k = 2
    BY <1>8, <2>3 DEF HeadEnd, IsEnd
  <2>4. CASE k > 2
    BY <1>9, <2>4 DEF BodyByte, IsEnd
  <2> QED BY <2>1, <2>2, <2>3, <2>4
<1> QED BY <1>7, <1>8, <1>9, <1>10 DEF m, h, b, Message

-----------------------------------------------------------------------------
(* What is true of an outcome on its way through requestHandler()           *)

Outcome(s) ==
  /\ s = [c |-> s.c, disk |-> s.disk, opened |-> s.opened, history |-> s.history,
          done |-> s.done, script |-> s.script]
  /\ s.c \in ClientForm /\ Files(s.disk) /\ s.opened \subseteq Nat /\ s.history \subseteq Events
  /\ s.done \in BOOLEAN /\ s.script \in BOOLEAN

Quiet(h) == "pipelined" \notin h
IsNamed(r) == r.named \/ r.multipart \/ r.te = "chunked"

\* The upload that the client holds is that of the request, in one way only.
Holds(c) ==
  LET r == c.request
  IN /\ c.uploadFd \in {NoFile, c.number} /\ c.uploadedFiles \subseteq {c.number}
     /\ c.uploadFd # NoFile =>
          /\ c.uploadedFiles = {} /\ r.target.store
          /\ r.te = "chunked" \/ ~r.multipart
          /\ IsNamed(r) => c.uploadPath = c.number
     /\ c.uploadedFiles # {} => r.target.store /\ r.te # "chunked" /\ r.multipart

\* A request line that is not the client's own makes another request of it; so it
\* does if bytes are left that an earlier one should have had.
Relined(q, r, m, e) == r = [q EXCEPT !.method = m, !.lineError = e]
Asked(h, n, r) == r = sent[n] \/ ("early" \in h /\ Relined(sent[n], r, "none", 501))

\* Before the first upload nothing is counted.
First(s) == Pristine(s.history) /\ FirstUpload(s.c.number)
Begun(s) ==
  /\ Pristine(s.history) =>
       /\ s.c.request.target.redirect # 201
       /\ Uploads(s.c.request) /\ s.c.request.multipart => s.c.request.size > 0
  /\ First(s) =>
       /\ s.c.res.status # 201 /\ "spoiled" \notin s.history
       /\ Uploads(s.c.request) \/ Untouched(s.c)

\* The request is a new one, and only its file is new.
Base(s) ==
  /\ Outcome(s)
  /\ last.number < s.c.number /\ s.c.number \in 1 .. Len(sent)
  /\ DOMAIN s.disk \subseteq 1 .. s.c.number /\ DOMAIN s.disk \subseteq DOMAIN disk \cup {s.c.number}
  /\ history \subseteq s.history
  /\ KnownRedirects => Known(s.c.request) /\ Blank(s.c.res)
  /\ Unspoiled(s.history) => s.opened = {s.c.uploadFd} \ {NoFile}
Core(s) ==
  /\ Base(s)
  /\ Stores(s.c, DOMAIN s.disk)
  /\ Unspoiled(s.history) => Holds(s.c)
  /\ Begun(s)

\* No stored byte is another request's; those to come, w, go on where they end.
Unmixed(s) ==
  Unspoiled(s.history) /\ Quiet(s.history) => \A n \in DOMAIN s.disk : Numbered(n, s.disk[n])
Continued(s, w) ==
  Unspoiled(s.history) /\ Quiet(s.history) /\ s.c.request.target.store =>
    Spells(s.c.number, Stored(s.disk, s.c.number) \o w, s.c.request.size)

\* w, all that is to come, is the end of the last message that was sent.
Placed(s, w) ==
  /\ Heads(w, s.c.number)
  /\ Quiet(s.history) =>
       /\ s.c.number = Len(sent) /\ answered = s.c.number - 1
       /\ Asked(s.history, s.c.number, s.c.request)
       /\ Bytes(w, s.c.number)

Script(s) ==
  s.c.request.method = "POST" /\ s.c.res.status = 0 =>
    s.c.body \in s.c.request.length .. MaxScriptBody

\* handlerReturn() is called on it.
Settles(s, rest) ==
  /\ Core(s) /\ Unmixed(s) /\ Placed(s, rest)
  /\ ~Feeding(s.c.chunked) /\ ~Feeding(s.c.multipart)
\* The first upload is on disk.
Whole(s) ==
  First(s) /\ Uploads(s.c.request) =>
    s.c.number \in DOMAIN s.disk /\ s.disk[s.c.number] = Content(s.c.number)
Fed(s) ==
  /\ s.c.request.target.kind = "script" /\ ~s.c.request.target.store => Script(s)
  /\ s.c.res.status = 0 => Whole(s)

\* It was answered.
Gone(s) ==
  Uploads(s.c.request) /\ s.c.res.status # 201 /\ IsNamed(s.c.request) =>
    "not removed" \in s.history \/ s.c.number \notin DOMAIN s.disk
\* If nothing was uploaded nothing is counted; what was created is on disk.
Created(o) ==
  /\ ~o.script /\ ~o.c.res.stream /\ o.c.res.body = << >>
  /\ o.c.number \in DOMAIN o.disk /\ o.disk[o.c.number] = Content(o.c.number)
Finished(o) ==
  Pristine(o.history) =>
    /\ FirstUpload(o.c.number + 1) => Untouched(o.c) /\ "spoiled" \notin o.history
    /\ FirstUpload(o.c.number) /\ o.c.res.status = 201 => Created(o)
Done(o, rest) ==
  /\ Base(o) /\ Unmixed(o) /\ Placed(o, rest)
  /\ o.done /\ ~InBody(o.c) /\ o.c.leftover = << >> /\ ReadsNothing(o.c)
  /\ Unspoiled(o.history) =>
       /\ NoUpload(o.c) \/ (~o.script /\ ~o.c.res.stream /\ o.c.res.body = << >>)
       /\ Gone(o)
  /\ o.script => Script(o)
  /\ Finished(o)

\* It waits for more of the body.
Tallies(o) ==
  First(o) /\ o.c.request.target.store => Counts(o.c, Len(Stored(o.disk, o.c.number)))
Waits(o, rest) ==
  LET w == o.c.leftover \o rest
  IN /\ Core(o) /\ Unmixed(o) /\ Placed(o, w) /\ Continued(o, w)
     /\ ~o.done /\ InBody(o.c) /\ Reads(o.c)
     /\ Unspoiled(o.history) => Owns(o.c, DOMAIN o.disk)
     /\ Tallies(o)
Results(o, rest) == Done(o, rest) \/ Waits(o, rest)

-----------------------------------------------------------------------------
(* The answer: handlerReturn()                                              *)

\* What the clean-up of postHandler() may change, and what it leaves.
Torn(s, t) ==
  /\ Outcome(t) /\ t.done = s.done /\ t.script = s.script
  /\ t.c = [s.c EXCEPT !.uploadFd = t.c.uploadFd, !.uploadedFiles = t.c.uploadedFiles]
  /\ DOMAIN t.disk \subseteq DOMAIN s.disk /\ \A n \in DOMAIN t.disk : t.disk[n] = s.disk[n]
  /\ s.history \subseteq t.history
  /\ Unspoiled(t.history) => t.opened = {t.c.uploadFd} \ {NoFile}

\* remove() of some files.
LEMMA WithoutIs ==
  ASSUME NEW d, Files(d), NEW files
  PROVE  /\ Files(Without(d, files)) /\ DOMAIN Without(d, files) = DOMAIN d \ files
         /\ \A n \in DOMAIN d \ files : Without(d, files)[n] = d[n]
BY DEF Files, Without

\* The clean-up closes and removes the upload, if the system lets it.
LEMMA CleanUpIs ==
  ASSUME NEW s, Core(s), NEW removed \in BOOLEAN
  PROVE  LET t == CleanUp(s, removed)
         IN /\ Torn(s, t)
            /\ Unspoiled(t.history) =>
                 /\ NoUpload(t.c)
                 /\ IsNamed(s.c.request) =>
                      "not removed" \in t.history \/ s.c.number \notin DOMAIN t.disk
<1>1. /\ s = [c |-> s.c, disk |-> s.disk, opened |-> s.opened, history |-> s.history,
              done |-> s.done, script |-> s.script]
      /\ s.c \in ClientForm /\ Files(s.disk) /\ s.opened \subseteq Nat /\ s.history \subseteq Events
      /\ s.done \in BOOLEAN /\ s.script \in BOOLEAN
      /\ Unspoiled(s.history) => s.opened = {s.c.uploadFd} \ {NoFile} /\ Holds(s.c)
      /\ s.c.number \in DOMAIN s.disk => s.c.uploadFd = s.c.number \/ s.c.number \in s.c.uploadedFiles
  BY DEF Core, Base, Outcome, Stores
<1>2. CASE s.c.uploadedFiles # {}
  <2>1. PICK d : d = Without(s.disk, s.c.uploadedFiles)
    OBVIOUS
  <2>2. PICK t : t = [s EXCEPT !.c.uploadedFiles = {}, !.disk = d]
    OBVIOUS
  <2>3. CleanUp(s, removed) = t
    BY <1>2, <2>1, <2>2 DEF CleanUp
  <2>4. /\ t = [c |-> t.c, disk |-> d, opened |-> s.opened, history |-> s.history,
                done |-> s.done, script |-> s.script]
        /\ t.c = [s.c EXCEPT !.uploadedFiles = {}]
    BY <1>1, <2>2
  <2>5. /\ t.c \in ClientForm /\ t.c.uploadFd = s.c.uploadFd /\ t.c.uploadedFiles = {}
        /\ t.c = [s.c EXCEPT !.uploadFd = t.c.uploadFd, !.uploadedFiles = t.c.uploadedFiles]
    BY <1>1, <2>4 DEF ClientForm
  <2>6. Files(d) /\ DOMAIN d = DOMAIN s.disk \ s.c.uploadedFiles /\ \A n \in DOMAIN d : d[n] = s.disk[n]
    <3>1. /\ Files(Without(s.disk, s.c.uploadedFiles))
          /\ DOMAIN Without(s.disk, s.c.uploadedFiles) = DOMAIN s.disk \ s.c.uploadedFiles
          /\ \A n \in DOMAIN s.disk \ s.c.uploadedFiles : Without(s.disk, s.c.uploadedFiles)[n] = s.disk[n]
      BY <1>1, WithoutIs, Zenon
    <3> QED BY <2>1, <3>1
  <2>7. Torn(s, t)
    BY <1>1, <2>4, <2>5, <2>6 DEF Torn, Outcome
  <2>8. ASSUME Unspoiled(t.history)
        PROVE  NoUpload(t.c) /\ s.c.number \notin DOMAIN t.disk
    BY <1>1, <1>2, <2>4, <2>5, <2>6, <2>8 DEF Holds, NoUpload
  <2> QED BY <2>3, <2>7, <2>8
<1>3. CASE s.c.uploadedFiles = {} /\ s.c.uploadFd = NoFile
  <2>1. CleanUp(s, removed) = s
    BY <1>3 DEF CleanUp
  <2>2. s.c = [s.c EXCEPT !.uploadFd = s.c.uploadFd, !.uploadedFiles = s.c.uploadedFiles]
    BY <1>1 DEF ClientForm
  <2>3. Torn(s, s)
    BY <1>1, <2>2 DEF Torn, Outcome
  <2>4. s.c.number \notin DOMAIN s.disk
    BY <1>1, <1>3 DEF NoFile, Core, Base
  <2> QED BY <1>3, <2>1, <2>3, <2>4 DEF NoUpload
<1>4. CASE s.c.uploadedFiles = {} /\ s.c.uploadFd # NoFile
  <2>1. PICK d : d = IF removed THEN Without(s.disk, {s.c.uploadPath}) ELSE s.disk
    OBVIOUS
  <2>2. PICK h : h = IF removed THEN s.history ELSE s.history \cup {"not removed"}
    OBVIOUS
  <2>3. PICK t : t = [s EXCEPT !.c.uploadFd = NoFile, !.opened = @ \ {s.c.uploadFd},
                               !.disk = d, !.history = h]
    OBVIOUS
  <2>4. CleanUp(s, removed) = t
    BY <1>1, <1>4, <2>1, <2>2, <2>3 DEF CleanUp
  <2>5. /\ t = [c |-> t.c, disk |-> d, opened |-> s.opened \ {s.c.uploadFd}, history |-> h,
                done |-> s.done, script |-> s.script]
        /\ t.c = [s.c EXCEPT !.uploadFd = NoFile]
    BY <1>1, <2>3
  <2>6. /\ t.c \in ClientForm /\ t.c.uploadFd = NoFile /\ t.c.uploadedFiles = {}
        /\ t.c = [s.c EXCEPT !.uploadFd = t.c.uploadFd, !.uploadedFiles = t.c.uploadedFiles]
    <3>1. 0 \in Nat
      OBVIOUS
    <3> QED BY <1>1, <1>4, <2>5, <3>1 DEF ClientForm, NoFile
  <2>7. /\ Files(d) /\ DOMAIN d \subseteq DOMAIN s.disk /\ \A n \in DOMAIN d : d[n] = s.disk[n]
        /\ removed => s.c.uploadPath \notin DOMAIN d
    <3>1. PICK files : files = {s.c.uploadPath}
      OBVIOUS
    <3>2. /\ Files(Without(s.disk, files)) /\ DOMAIN Without(s.disk, files) = DOMAIN s.disk \ files
          /\ \A n \in DOMAIN s.disk \ files : Without(s.disk, files)[n] = s.disk[n]
      BY <1>1, WithoutIs, Zenon
    <3>3. CASE removed
      <4>1. d = Without(s.disk, files)
        BY <2>1, <3>1, <3>3
      <4> QED BY <3>1, <3>2, <4>1
    <3>4. CASE ~removed
      BY <1>1, <2>1, <3>4
    <3> QED BY <3>3, <3>4
  <2>8. h \subseteq Events /\ s.history \subseteq h /\ (~removed => "not removed" \in h)
    BY <1>1, <2>2 DEF Events
  <2>9. Unspoiled(h) => Unspoiled(s.history)
    BY <2>8 DEF Unspoiled
  <2>12. t.opened = s.opened \ {s.c.uploadFd} /\ t.history = h /\ t.disk = d
    BY <2>5
  <2>13. Unspoiled(t.history) => t.opened = {t.c.uploadFd} \ {NoFile}
    BY <1>1, <2>6, <2>9, <2>12
  <2>14. Outcome(t)
    <3>1. t.opened \subseteq Nat /\ t.history \subseteq Events /\ Files(t.disk)
      BY <1>1, <2>7, <2>8, <2>12
    <3>2. t.done = s.done /\ t.script = s.script
      BY <2>5
    <3>3. t = [c |-> t.c, disk |-> t.disk, opened |-> t.opened, history |-> t.history,
               done |-> t.done, script |-> t.script]
      BY <2>5
    <3> QED BY <1>1, <2>6, <3>1, <3>2, <3>3 DEF Outcome
  <2>10. Torn(s, t)
    <3>1. t.done = s.done /\ t.script = s.script
      BY <2>5
    <3> QED BY <2>6, <2>7, <2>8, <2>12, <2>13, <2>14, <3>1 DEF Torn
  <2>11. ASSUME Unspoiled(t.history), IsNamed(s.c.request)
         PROVE  "not removed" \in t.history \/ s.c.number \notin DOMAIN t.disk
    <3>1. s.c.uploadPath = s.c.number
      BY <1>1, <1>4, <2>9, <2>11, <2>12 DEF Holds
    <3> QED BY <2>7, <2>8, <2>12, <3>1
  <2> QED BY <2>4, <2>6, <2>10, <2>11 DEF NoUpload
<1> QED BY <1>2, <1>3, <1>4

\* An upload that postHandler() does not see stays.
LEMMA SpoiledIs ==
  ASSUME NEW s, Core(s)
  PROVE  LET t == Spoiled(s)
         IN /\ Torn(s, t) /\ t.c = s.c /\ t.disk = s.disk
            /\ Unspoiled(t.history) => InPostHandler(s) \/ NoUpload(s.c)
<1>1. /\ s = [c |-> s.c, disk |-> s.disk, opened |-> s.opened, history |-> s.history,
              done |-> s.done, script |-> s.script]
      /\ s.c \in ClientForm /\ Files(s.disk) /\ s.opened \subseteq Nat /\ s.history \subseteq Events
      /\ s.done \in BOOLEAN /\ s.script \in BOOLEAN
      /\ Unspoiled(s.history) => s.opened = {s.c.uploadFd} \ {NoFile}
  BY DEF Core, Base, Outcome
<1>2. s.c = [s.c EXCEPT !.uploadFd = s.c.uploadFd, !.uploadedFiles = s.c.uploadedFiles]
  BY <1>1 DEF ClientForm
<1>3. CASE (s.c.uploadFd # NoFile \/ s.c.uploadedFiles # {}) /\ ~InPostHandler(s)
  <2>1. PICK t : t = [s EXCEPT !.history = @ \cup {"spoiled"}]
    OBVIOUS
  <2>2. Spoiled(s) = t
    BY <1>3, <2>1 DEF Spoiled
  <2>3. t = [c |-> s.c, disk |-> s.disk, opened |-> s.opened, history |-> s.history \cup {"spoiled"},
             done |-> s.done, script |-> s.script]
    BY <1>1, <2>1
  <2>4. t.history \subseteq Events /\ s.history \subseteq t.history /\ ~Unspoiled(t.history)
    BY <1>1, <2>3 DEF Events, Unspoiled
  <2>5. t = [c |-> t.c, disk |-> t.disk, opened |-> t.opened, history |-> t.history,
             done |-> t.done, script |-> t.script]
    BY <2>3
  <2>6. /\ t.c = s.c /\ t.disk = s.disk /\ t.opened = s.opened
        /\ t.done = s.done /\ t.script = s.script
    BY <2>3
  <2>7. Outcome(t)
    BY <1>1, <2>4, <2>5, <2>6 DEF Outcome
  <2>8. Torn(s, t)
    BY <1>2, <2>4, <2>6, <2>7 DEF Torn
  <2> QED BY <2>2, <2>4, <2>6, <2>8
<1>4. CASE ~((s.c.uploadFd # NoFile \/ s.c.uploadedFiles # {}) /\ ~InPostHandler(s))
  <2>1. Spoiled(s) = s
    BY <1>4 DEF Spoiled
  <2>2. Torn(s, s)
    BY <1>1, <1>2 DEF Torn, Outcome
  <2> QED BY <1>4, <2>1, <2>2 DEF NoUpload
<1> QED BY <1>3, <1>4

\* What a request says, for every request there may be.
LEMMA RequestIs ==
  ASSUME NEW r \in SomeRequest
  PROVE  /\ r.target \in Target /\ r.lineError \in Nat /\ r.lineError \in StatusEntries \cup {0}
         /\ r.lineError = 0 => r.method \in Methods
         /\ r.length \in Int /\ r.size \in Nat /\ r.bad \in Nat
         /\ r.te \in {"no", "chunked", "other"}
         /\ r.multipart \in BOOLEAN /\ r.named \in BOOLEAN /\ r.complete \in BOOLEAN
         /\ r.length # None => r.length \in Nat
         /\ r.target.store \in BOOLEAN
BY DEF SomeRequest, RequestForm, Form, StatusEntries, None, Target

\* The first upload is the next request's, or an earlier one's.
LEMMA FirstIs ==
  ASSUME NEW n \in Nat \ {0}
  PROVE  FirstUpload(n + 1) <=> FirstUpload(n) /\ ~Uploads(sent[n])
<1>1. 1 .. n + 1 - 1 = 1 .. n - 1 \cup {n}
  OBVIOUS
<1> QED BY <1>1 DEF FirstUpload

\* A POST is what the client sent.
LEMMA PostIs ==
  ASSUME NEW r \in SomeRequest, r.method = "POST", NEW h, NEW n, Asked(h, n, r)
  PROVE  r = sent[n]
<1>1. ASSUME Relined(sent[n], r, "none", 501) PROVE FALSE
  BY <1>1 DEF Relined, SomeRequest, RequestForm, Form
<1> QED BY <1>1 DEF Asked

\* An upload is what the client sent.
LEMMA UploadIs ==
  ASSUME NEW s, NEW w, Core(s), Placed(s, w), Pristine(s.history), Uploads(s.c.request)
  PROVE  /\ s.c.request = sent[s.c.number]
         /\ s.c.request.multipart => s.c.request.size > 0
         /\ First(s) => Unspoiled(s.history) /\ Quiet(s.history)
<1>1. Quiet(s.history) /\ KnownRedirects /\ Begun(s)
  BY DEF Pristine, Quiet, Core
<1>2. s.c.request = sent[s.c.number]
  <2>1. Asked(s.history, s.c.number, s.c.request)
    BY <1>1 DEF Placed
  <2>2. s.c.request.method = "POST" /\ s.c.request \in SomeRequest
    BY DEF Uploads, Core, Base, Outcome, ClientForm
  <2> QED BY <2>1, <2>2, PostIs
<1>3. First(s) => Unspoiled(s.history)
  BY <1>1 DEF Begun, Unspoiled
<1> QED BY <1>1, <1>2, <1>3 DEF Begun

\* Without an upload there is nothing to clean up.
LEMMA NothingToClean ==
  ASSUME NEW s, NEW removed, NoUpload(s.c)
  PROVE  CleanUp(s, removed) = s /\ Spoiled(s) = s
BY DEF NoUpload, CleanUp, Spoiled

\* handlerReturn(): nothing of the request stays in the client, but the upload that
\* was answered 201 and a file that could not be removed.
LEMMA AnsweredIs ==
  ASSUME NEW s, NEW rest, Settles(s, rest), Fed(s), NEW removed \in BOOLEAN
  PROVE  Done(Answered(s, removed), rest)
<1> DEFINE r == s.c.request
           a == processClientRequest(r.method, r.lineError, r.target, s.c.body, MaxBodySize, s.c.res, removed)
           cleaned == InPostHandler(s) /\ s.c.res.status # 0
<1>1. PICK t : t = IF cleaned THEN CleanUp(s, removed) ELSE Spoiled(s)
  OBVIOUS
<1>2. PICK res : res = a.res
  OBVIOUS
<1>3. PICK script : script = a.script
  OBVIOUS
<1>4. PICK o : o = [t EXCEPT !.c.res = res, !.script = script, !.done = TRUE,
                             !.c.state = "PARSING_HEADERS", !.c.leftover = << >>,
                             !.c.expected = 0, !.c.isChunked = FALSE]
  OBVIOUS
<1>5. Answered(s, removed) = o
  BY <1>1, <1>2, <1>3, <1>4 DEF Answered
<1>6. Core(s) /\ Outcome(s) /\ s.c \in ClientForm /\ r \in SomeRequest /\ s.c.body \in Nat /\ s.c.res \in ResponseForm
  BY DEF Settles, Core, Base, Outcome, ClientForm
<1>7. /\ r.target \in Target /\ r.lineError \in Nat /\ r.lineError \in StatusEntries \cup {0}
      /\ r.lineError = 0 => r.method \in Methods
      /\ MaxBodySize \in Nat
  BY <1>6, RequestIs, BoundAssumption
<1>8. /\ script \in BOOLEAN /\ res \in ResponseForm /\ (script => res = s.c.res)
      /\ KnownRedirects => Known(r) /\ Blank(s.c.res) /\ Blank(res)
  <2>1. /\ a.script \in BOOLEAN /\ a.res \in ResponseForm /\ (a.script => a.res = s.c.res)
        /\ {r.lineError, r.target.redirect} \subseteq StatusEntries \cup {0} =>
             (Blank(s.c.res) => Blank(a.res))
    BY <1>6, <1>7, RequestDecides, ZenonT(60)
  <2>2. KnownRedirects => Known(r) /\ Blank(s.c.res)
    BY <1>6 DEF Core, Base
  <2> HIDE DEF a
  <2> QED BY <1>2, <1>3, <1>7, <2>1, <2>2 DEF Known
<1>9. /\ InPostHandler(s) /\ r.target.store /\ s.c.res.status = 0 =>
           ~script /\ res = [s.c.res EXCEPT !.status = 201]
      /\ r.method = "POST" /\ script => s.c.res.status = 0 /\ ~r.target.store /\ r.target.kind = "script"
  <2>1. ASSUME r.method = "POST"
        PROVE  /\ r.lineError = 0 /\ Refusal(r.target, s.c.body, MaxBodySize) = 0
                    /\ r.target.store /\ s.c.res.status = 0 =>
                    ~a.script /\ a.res = [s.c.res EXCEPT !.status = 201]
               /\ a.script => s.c.res.status = 0 /\ ~r.target.store /\ r.target.kind = "script"
    BY <1>6, <1>7, <2>1, PostAnswers
  <2> HIDE DEF a
  <2> QED BY <1>2, <1>3, <2>1 DEF InPostHandler, RefusedBy
<1>23. ASSUME Begun(s), Pristine(s.history), s.c.res.status # 201, res.status = 201
       PROVE  InPostHandler(s) /\ r.target.store /\ s.c.res.status = 0
  <2>1. NoneCreated(r.lineError, r.target, s.c.res)
    <3>1. r.target.redirect # 201
      BY <1>23 DEF Begun
    <3>2. r.lineError # 201
      BY <1>6 DEF SomeRequest, RequestForm, Form
    <3> QED BY <1>23, <3>1, <3>2 DEF NoneCreated
  <2>2. /\ s.c.body \in Nat /\ s.c.res \in ResponseForm
        /\ Creates(r.method, r.lineError, r.target, s.c.body, MaxBodySize, s.c.res, removed)
        /\ r.target \in Target /\ r.lineError \in Nat /\ MaxBodySize \in Nat
    BY <1>2, <1>6, <1>7, <1>23 DEF Creates
  <2>4. r.lineError = 0 => r.method \in Methods
    BY <1>7
  <2>3. Creatable(r.method, r.lineError, r.target, s.c.body, MaxBodySize, s.c.res)
    BY <2>1, <2>2, <2>4, CreatedIs, ZenonT(60)
  <2> QED BY <2>3 DEF Creatable, InPostHandler, RefusedBy
<1>10. /\ Torn(s, t)
       /\ Unspoiled(t.history) =>
            \/ NoUpload(t.c)
            \/ InPostHandler(s) /\ s.c.res.status = 0 /\ r.target.store
       /\ Unspoiled(t.history) /\ IsNamed(r) =>
            \/ "not removed" \in t.history \/ s.c.number \notin DOMAIN t.disk
            \/ InPostHandler(s) /\ s.c.res.status = 0
  <2>1. CASE cleaned
    BY <1>1, <1>6, <2>1, CleanUpIs
  <2>2. CASE ~cleaned
    <3>1. t = Spoiled(s)
      BY <1>1, <2>2
    <3>2. /\ Torn(s, t) /\ t.c = s.c /\ t.disk = s.disk
          /\ Unspoiled(t.history) => InPostHandler(s) \/ NoUpload(s.c)
      BY <1>6, <3>1, SpoiledIs
    <3>3. Unspoiled(t.history) => Unspoiled(s.history)
      BY <3>2 DEF Torn, Unspoiled
    <3>4. Unspoiled(t.history) /\ ~NoUpload(s.c) => r.target.store
      BY <1>6, <3>3 DEF Core, Holds, NoUpload
    <3>5. NoUpload(s.c) => s.c.number \notin DOMAIN s.disk
      BY <1>6 DEF Core, Base, Stores, NoUpload, NoFile
    <3> QED BY <2>2, <3>2, <3>4, <3>5
  <2> QED BY <2>1, <2>2
<1> HIDE DEF a, cleaned
<1>11. /\ t = [c |-> t.c, disk |-> t.disk, opened |-> t.opened, history |-> t.history,
               done |-> t.done, script |-> t.script]
       /\ t.c \in ClientForm
       /\ t.c.number = s.c.number /\ t.c.request = r /\ t.c.body = s.c.body
       /\ t.c.chunked = s.c.chunked /\ t.c.multipart = s.c.multipart
       /\ t.c.uploadedBytes = s.c.uploadedBytes
       /\ s.history \subseteq t.history
       /\ DOMAIN t.disk \subseteq DOMAIN s.disk /\ \A n \in DOMAIN t.disk : t.disk[n] = s.disk[n]
  BY <1>6, <1>10 DEF Torn, Outcome, ClientForm
<1>12. /\ o = [c |-> o.c, disk |-> t.disk, opened |-> t.opened, history |-> t.history,
               done |-> TRUE, script |-> script]
       /\ o.c = [t.c EXCEPT !.res = res, !.state = "PARSING_HEADERS", !.leftover = << >>,
                            !.expected = 0, !.isChunked = FALSE]
  BY <1>4, <1>11
<1>13. /\ o.c \in ClientForm
       /\ o.c.number = s.c.number /\ o.c.request = r /\ o.c.body = s.c.body
       /\ o.c.chunked = s.c.chunked /\ o.c.multipart = s.c.multipart
       /\ o.c.res = res /\ o.c.state = "PARSING_HEADERS" /\ o.c.leftover = << >>
       /\ ~o.c.isChunked /\ o.c.uploadedBytes = s.c.uploadedBytes
       /\ o.c.uploadFd = t.c.uploadFd /\ o.c.uploadedFiles = t.c.uploadedFiles
  <2>1. << >> \in Seq(Item) /\ 0 \in Nat
    OBVIOUS
  <2> QED BY <1>8, <1>11, <1>12, <2>1, ZenonT(60) DEF ClientForm
<1>14. /\ o.disk = t.disk /\ o.opened = t.opened /\ o.history = t.history
       /\ o.done = TRUE /\ o.script = script
  BY <1>12
<1>15. Unspoiled(o.history) => Unspoiled(s.history) /\ Unspoiled(t.history)
  BY <1>11, <1>14 DEF Unspoiled
<1>16. Quiet(o.history) => Quiet(s.history)
  BY <1>11, <1>14 DEF Quiet
<1>17. Base(o)
  <2>1. Outcome(o)
    BY <1>8, <1>10, <1>12, <1>13, <1>14 DEF Torn, Outcome
  <2>2. /\ last.number < s.c.number /\ s.c.number \in 1 .. Len(sent)
        /\ DOMAIN s.disk \subseteq 1 .. s.c.number /\ DOMAIN s.disk \subseteq DOMAIN disk \cup {s.c.number}
        /\ history \subseteq s.history
    BY <1>6 DEF Core, Base
  <2>3. Unspoiled(o.history) => o.opened = {o.c.uploadFd} \ {NoFile}
    BY <1>10, <1>13, <1>14, <1>15 DEF Torn
  <2> QED BY <1>8, <1>11, <1>13, <1>14, <2>1, <2>2, <2>3 DEF Base
<1>18. Unmixed(o) /\ Placed(o, rest)
  BY <1>11, <1>13, <1>14, <1>15, <1>16 DEF Settles, Unmixed, Placed, Asked
<1>19. o.done /\ ~InBody(o.c) /\ o.c.leftover = << >> /\ ReadsNothing(o.c)
  BY <1>13, <1>14 DEF InBody, ReadsNothing, Settles
<1>20. ASSUME Unspoiled(o.history)
       PROVE  NoUpload(o.c) \/ (~o.script /\ ~o.c.res.stream /\ o.c.res.body = << >>)
  <2>1. ASSUME InPostHandler(s), s.c.res.status = 0, r.target.store
        PROVE  ~o.script /\ ~o.c.res.stream /\ o.c.res.body = << >>
    <3>1. s.c.res.body = << >> /\ ~s.c.res.stream
      BY <1>8, <1>20, <2>1 DEF Unspoiled, Blank
    <3> QED BY <1>6, <1>9, <1>13, <1>14, <2>1, <3>1 DEF ResponseForm
  <2> QED BY <1>10, <1>13, <1>14, <1>15, <1>20, <2>1 DEF NoUpload
<1>21. ASSUME Unspoiled(o.history)
       PROVE  Gone(o)
  <2>1. ASSUME InPostHandler(s), s.c.res.status = 0, r.target.store
        PROVE  o.c.res.status = 201
    BY <1>6, <1>9, <1>13, <2>1 DEF ResponseForm
  <2> QED BY <1>10, <1>13, <1>14, <1>15, <1>21, <2>1 DEF Gone, Uploads
<1>22. o.script => Script(o)
  BY <1>8, <1>9, <1>13, <1>14 DEF Fed, Script
<1>24. ASSUME Pristine(o.history)
       PROVE  Pristine(s.history) /\ Begun(s) /\ Placed(s, rest)
  BY <1>6, <1>11, <1>14, <1>24 DEF Pristine, Settles, Core
<1>25. ASSUME Pristine(o.history), FirstUpload(o.c.number + 1)
       PROVE  Untouched(o.c) /\ "spoiled" \notin o.history
  <2>1. s.c.number \in Nat \ {0} /\ o.c.number = s.c.number
    BY <1>6, <1>13 DEF Core, Base
  <2>2. FirstUpload(s.c.number) /\ ~Uploads(sent[s.c.number])
    BY <1>25, <2>1, FirstIs
  <2>3. First(s) /\ ~Uploads(r)
    BY <1>6, <1>24, <1>25, <2>2, UploadIs DEF First
  <2>4. Untouched(s.c) /\ "spoiled" \notin s.history
    BY <1>24, <1>25, <2>3 DEF Begun
  <2>5. t = s
    <3>1. CleanUp(s, removed) = s /\ Spoiled(s) = s
      BY <2>4, NothingToClean DEF Untouched
    <3> QED BY <1>1, <3>1
  <2>6. res.status # 201
    <3>1. r.method # "POST" \/ ~r.target.store
      BY <2>3 DEF Uploads
    <3> QED BY <1>23, <1>24, <1>25, <2>4, <3>1 DEF Untouched, InPostHandler
  <2> QED BY <1>13, <1>14, <2>4, <2>5, <2>6 DEF Untouched, NoUpload
<1>26. ASSUME Pristine(o.history), FirstUpload(o.c.number), o.c.res.status = 201
       PROVE  Created(o)
  <2>1. First(s) /\ s.c.res.status # 201
    BY <1>13, <1>24, <1>26 DEF First, Begun
  <2>2. InPostHandler(s) /\ r.target.store /\ s.c.res.status = 0
    BY <1>13, <1>23, <1>24, <1>26, <2>1
  <2>3. t = s
    BY <1>1, <2>2 DEF cleaned, Spoiled
  <2>4. s.c.number \in DOMAIN s.disk /\ s.disk[s.c.number] = Content(s.c.number)
    BY <2>1, <2>2 DEF Fed, Whole, Uploads, InPostHandler
  <2>5. ~o.script /\ ~o.c.res.stream /\ o.c.res.body = << >>
    <3>1. s.c.res.body = << >> /\ ~s.c.res.stream
      BY <1>8, <1>26, <2>2 DEF Pristine, Blank
    <3> QED BY <1>6, <1>9, <1>13, <1>14, <2>2, <3>1 DEF ResponseForm
  <2> QED BY <1>13, <1>14, <2>3, <2>4, <2>5 DEF Created
<1>27. Finished(o)
  BY <1>25, <1>26 DEF Finished
<1> QED BY <1>5, <1>17, <1>18, <1>19, <1>20, <1>21, <1>22, <1>27 DEF Done

\* handlerReturn(), whatever remove() does.
LEMMA ReturnIs ==
  ASSUME NEW s, NEW rest, Settles(s, rest), Fed(s), NEW o \in handlerReturn(s)
  PROVE  Done(o, rest)
<1>1. PICK removed \in BOOLEAN : o = Answered(s, removed)
  BY DEF handlerReturn
<1> QED BY <1>1, AnsweredIs

\* What a client is with another response, and with none of its request.
LEMMA WithResponse ==
  ASSUME NEW c \in ClientForm, NEW res \in ResponseForm, NEW d, d = [c EXCEPT !.res = res]
  PROVE  /\ d \in ClientForm /\ d.res = res
         /\ d.number = c.number /\ d.request = c.request
         /\ d.chunked = c.chunked /\ d.multipart = c.multipart
         /\ d.uploadFd = c.uploadFd /\ d.uploadedFiles = c.uploadedFiles
         /\ d.uploadPath = c.uploadPath /\ d.uploadedBytes = c.uploadedBytes
<1>1. d \in ClientForm
  BY DEF ClientForm
<1> QED BY <1>1 DEF ClientForm
LEMMA Emptied ==
  ASSUME NEW c \in ClientForm, NEW res \in ResponseForm, NEW r \in SomeRequest, NEW n \in Nat,
         NEW d, d = [c EXCEPT !.res = res, !.request = r, !.body = n]
  PROVE  d \in ClientForm
BY DEF ClientForm

\* The same with a status that is set before.
LEMMA RefuseIs ==
  ASSUME NEW s, NEW rest, Settles(s, rest), NEW code \in StatusEntries, code # 201,
         NEW o \in Refuse(s, code)
  PROVE  Done(o, rest)
<1>1. PICK res : res = [s.c.res EXCEPT !.status = code]
  OBVIOUS
<1>2. PICK t : t = [s EXCEPT !.c.res = res]
  OBVIOUS
<1>3. Core(s) /\ Outcome(s) /\ s.c \in ClientForm /\ s.c.res \in ResponseForm
  BY DEF Settles, Core, Base, Outcome, ClientForm
<1>4. setStatus(s.c.res, code) = res
  BY <1>1 DEF setStatus
<1>5. o \in handlerReturn(t)
  BY <1>2, <1>3, <1>4 DEF Refuse, Outcome, ClientForm
<1>6. res \in ResponseForm /\ res.status = code /\ code # 0 /\ Blank(res)
  <2>1. code # 0
    BY DEF StatusEntries
  <2>2. res \in ResponseForm /\ res.status = code
    BY <1>1, <1>3 DEF ResponseForm
  <2> QED BY <2>1, <2>2 DEF Blank
<1>7. /\ t = [c |-> t.c, disk |-> s.disk, opened |-> s.opened, history |-> s.history,
              done |-> s.done, script |-> s.script]
      /\ t.c = [s.c EXCEPT !.res = res]
  BY <1>2, <1>3 DEF Outcome
<1>8. /\ t.disk = s.disk /\ t.opened = s.opened /\ t.history = s.history
      /\ t.done = s.done /\ t.script = s.script
  BY <1>7
<1>9. /\ t.c \in ClientForm /\ t.c.res = res
      /\ t.c.number = s.c.number /\ t.c.request = s.c.request
      /\ t.c.chunked = s.c.chunked /\ t.c.multipart = s.c.multipart
      /\ t.c.uploadFd = s.c.uploadFd /\ t.c.uploadedFiles = s.c.uploadedFiles
      /\ t.c.uploadPath = s.c.uploadPath /\ t.c.uploadedBytes = s.c.uploadedBytes
  BY <1>3, <1>6, <1>7, WithResponse
<1>10. Outcome(t)
  BY <1>3, <1>7, <1>8, <1>9 DEF Outcome
<1>11. Core(t)
  <2>1. Base(t)
    BY <1>3, <1>6, <1>8, <1>9, <1>10 DEF Core, Base
  <2>2. Unspoiled(s.history) => Holds(t.c)
    BY <1>3, <1>9 DEF Core, Holds
  <2>3. Stores(t.c, DOMAIN t.disk)
    BY <1>3, <1>8, <1>9 DEF Core, Stores
  <2>4. Begun(t)
    <3>1. Begun(s)
      BY <1>3 DEF Core
    <3> QED BY <1>6, <1>8, <1>9, <3>1 DEF Begun, First, Untouched, NoUpload
  <2> QED BY <1>8, <2>1, <2>2, <2>3, <2>4 DEF Core
<1>12. Unmixed(t) /\ Placed(t, rest) /\ ~Feeding(t.c.chunked) /\ ~Feeding(t.c.multipart)
  BY <1>8, <1>9 DEF Settles, Unmixed, Placed
<1>13. Settles(t, rest) /\ Fed(t)
  BY <1>6, <1>9, <1>11, <1>12 DEF Settles, Fed, Script
<1> QED BY <1>5, <1>13, ReturnIs

-----------------------------------------------------------------------------
(* A body: readBody()                                                       *)

\* What was counted of the first upload, if anything was, is on disk.
Ready(s) ==
  First(s) /\ Uploads(s.c.request) =>
    LET n == Len(Stored(s.disk, s.c.number))
        Fits(parser) == IF parser.active THEN Feeds(parser) /\ parser.fed = n ELSE n = 0
    IN IF s.c.isChunked THEN Fits(s.c.chunked)
       ELSE IF s.c.request.multipart
         THEN Fits(s.c.multipart) /\ (s.c.multipart.active => s.c.multipart.limit = s.c.expected)
       ELSE s.c.uploadedBytes = n

\* What it is called with.  A parser that is in use was begun for this request,
\* and has a file; what is stored of it came this way.
Body(s, rest) ==
  LET r == s.c.request
      w == s.c.leftover \o rest
  IN /\ Core(s) /\ Unmixed(s) /\ Placed(s, w) /\ Continued(s, w)
     /\ ~s.done /\ InBody(s.c) /\ FramingError(r) = 0 /\ Ready(s)
     /\ s.c.isChunked <=> r.te = "chunked"
     /\ r.length # None => s.c.expected = r.length
     /\ Feeding(s.c.chunked) => r.method = "POST" /\ r.target.store /\ s.c.isChunked
     /\ Feeding(s.c.multipart) => r.method = "POST" /\ r.target.store /\ ~s.c.isChunked /\ r.multipart
     /\ Unspoiled(s.history) /\ Feeding(s.c.chunked) => s.c.uploadFd # NoFile
     /\ Unspoiled(s.history) /\ s.c.uploadFd # NoFile => s.c.number \in DOMAIN s.disk
     /\ Unspoiled(s.history) /\ r.target.store /\ s.c.number \in DOMAIN s.disk =>
          \/ Feeding(s.c.chunked)
          \/ ~s.c.isChunked /\ (r.multipart \/ s.c.uploadFd # NoFile)

\* What is read is no more part of what is to come.
LEMMA BodySettles ==
  ASSUME NEW rest \in Seq(Item), NEW s, Body(s, rest),
         ~Feeding(s.c.chunked), ~Feeding(s.c.multipart)
  PROVE  Settles(s, rest)
<1>1. s.c.leftover \in Seq(Item)
  BY DEF Body, Core, Base, Outcome, ClientForm
<1>2. Placed(s, rest)
  BY <1>1, Later DEF Body, Placed
<1> QED BY <1>2 DEF Body, Settles

\* An outcome for the same request, with another file of it.
Near(s, t) ==
  /\ Outcome(t) /\ t.done = s.done /\ s.history \subseteq t.history
  /\ t.c.number = s.c.number /\ t.c.request = s.c.request /\ t.c.res = s.c.res
  /\ "spoiled" \in t.history => "spoiled" \in s.history
  /\ Uploads(s.c.request) \/ (Untouched(s.c) => Untouched(t.c))
\* Such an outcome is as good as the one before, if the new bytes continue the file.
LEMMA NearIs ==
  ASSUME NEW s, NEW t, Core(s), Unmixed(s), Near(s, t),
         DOMAIN t.disk \subseteq DOMAIN s.disk \cup {s.c.number},
         Stores(t.c, DOMAIN t.disk),
         Unspoiled(t.history) =>
           /\ t.opened = {t.c.uploadFd} \ {NoFile} /\ Holds(t.c)
           /\ \A k \in DOMAIN t.disk : k # s.c.number => t.disk[k] = s.disk[k],
         Unspoiled(t.history) /\ Quiet(t.history) /\ s.c.number \in DOMAIN t.disk =>
           Numbered(s.c.number, t.disk[s.c.number])
  PROVE  Core(t) /\ Unmixed(t) /\ \A w : Placed(s, w) => Placed(t, w)
<1>1. /\ Unspoiled(t.history) => Unspoiled(s.history)
      /\ Quiet(t.history) => Quiet(s.history)
  BY DEF Near, Unspoiled, Quiet
<1>2. Base(t)
  <2>1. s.c.number \in 1 .. s.c.number
    BY DEF Core, Base
  <2> QED BY <2>1 DEF Core, Base, Near
<1>3. Core(t)
  <2>1. Begun(s)
    BY DEF Core
  <2>2. Begun(t)
    BY <2>1 DEF Begun, First, Pristine, Near
  <2> QED BY <1>2, <2>2 DEF Core
<1>4. Unmixed(t)
  <2> SUFFICES ASSUME Unspoiled(t.history), Quiet(t.history), NEW n \in DOMAIN t.disk
               PROVE  Numbered(n, t.disk[n])
    BY DEF Unmixed
  <2>1. CASE n = s.c.number
    BY <2>1
  <2>2. CASE n # s.c.number
    BY <1>1, <2>2 DEF Unmixed
  <2> QED BY <2>1, <2>2
<1>5. ASSUME NEW w, Placed(s, w) PROVE Placed(t, w)
  BY <1>1, <1>5 DEF Placed, Near, Asked
<1> QED BY <1>3, <1>4, <1>5

\* The same file, and nothing but the bookkeeping of the body changed.
Alike(s, t) ==
  /\ Near(s, t) /\ t.disk = s.disk /\ t.opened = s.opened
  /\ t.c.uploadFd = s.c.uploadFd /\ t.c.uploadedFiles = s.c.uploadedFiles
  /\ s.c.uploadFd # NoFile /\ IsNamed(s.c.request) => t.c.uploadPath \in {s.c.uploadPath, s.c.number}
\* It has all that the one before had.
LEMMA AlikeIs ==
  ASSUME NEW s, NEW t, Core(s), Unmixed(s), Alike(s, t)
  PROVE  /\ Core(t) /\ Unmixed(t)
         /\ \A w : Placed(s, w) => Placed(t, w)
         /\ \A w : Continued(s, w) => Continued(t, w)
<1>1. /\ Unspoiled(t.history) => Unspoiled(s.history)
      /\ Quiet(t.history) => Quiet(s.history)
  BY DEF Alike, Near, Unspoiled, Quiet
<1>2. Stores(t.c, DOMAIN t.disk)
  BY DEF Alike, Near, Stores, Core
<1>3. Unspoiled(t.history) => t.opened = {t.c.uploadFd} \ {NoFile}
  BY <1>1 DEF Alike, Core, Base
<1>4. Unspoiled(t.history) => Holds(t.c)
  BY <1>1 DEF Alike, Near, Core, Holds
<1>5. Unspoiled(t.history) /\ Quiet(t.history) /\ s.c.number \in DOMAIN t.disk =>
        Numbered(s.c.number, t.disk[s.c.number])
  BY <1>1 DEF Alike, Unmixed
<1>6. Core(t) /\ Unmixed(t) /\ \A w : Placed(s, w) => Placed(t, w)
  BY <1>2, <1>3, <1>4, <1>5, NearIs DEF Alike
<1>7. \A w : Continued(s, w) => Continued(t, w)
  BY <1>1 DEF Alike, Near, Continued
<1> QED BY <1>6, <1>7

\* A script's body: it is complete, or it waits, or it is too long.
LEMMA ScriptBodyIs ==
  ASSUME NEW rest \in Seq(Item), NEW s, Body(s, rest),
         s.c.request.method = "POST", ~s.c.request.target.store,
         s.c.request.target.kind = "script", NEW o \in ScriptBody(s)
  PROVE  Results(o, rest)
<1> DEFINE size == s.c.body + Len(s.c.leftover)
<1>1. PICK t : t = [s EXCEPT !.c.body = size, !.c.leftover = << >>]
  OBVIOUS
<1>2. PICK u : u = [t EXCEPT !.c.conn = "CLOSED"]
  OBVIOUS
<1>3. Core(s) /\ Unmixed(s) /\ Outcome(s) /\ s.c \in ClientForm /\ s.c.leftover \in Seq(Item)
  BY DEF Body, Core, Base, Outcome, ClientForm
<1>4. size \in Nat
  BY <1>3, LenProperties DEF ClientForm
<1>17. ScriptBody(s) = IF t.c.body > MaxScriptBody THEN Refuse(u, 413)
                       ELSE IF t.c.body >= t.c.expected THEN handlerReturn(t)
                       ELSE {t}
  BY <1>1, <1>2 DEF ScriptBody
<1> HIDE DEF size
<1>6. /\ t = [c |-> t.c, disk |-> s.disk, opened |-> s.opened, history |-> s.history,
              done |-> s.done, script |-> s.script]
      /\ t.c = [s.c EXCEPT !.body = size, !.leftover = << >>]
      /\ u = [c |-> u.c, disk |-> s.disk, opened |-> s.opened, history |-> s.history,
              done |-> s.done, script |-> s.script]
      /\ u.c = [t.c EXCEPT !.conn = "CLOSED"]
  BY <1>1, <1>2, <1>3 DEF Outcome
<1>7. t.c \in ClientForm /\ u.c \in ClientForm
  <2>1. << >> \in Seq(Item)
    OBVIOUS
  <2>2. t.c \in ClientForm
    BY <1>3, <1>4, <1>6, <2>1, ZenonT(60) DEF ClientForm
  <2> QED BY <1>6, <2>2 DEF ClientForm
<1>5. \/ o \in Refuse(u, 413)
      \/ t.c.body <= MaxScriptBody /\ t.c.body >= t.c.expected /\ o \in handlerReturn(t)
      \/ o = t
  <2>1. MaxScriptBody \in Nat /\ t.c.body \in Nat
    BY <1>7, BoundAssumption DEF ClientForm
  <2> QED BY <1>17, <2>1
<1>8. /\ t.c.number = s.c.number /\ t.c.request = s.c.request /\ t.c.res = s.c.res
      /\ t.c.chunked = s.c.chunked /\ t.c.multipart = s.c.multipart
      /\ t.c.uploadFd = s.c.uploadFd /\ t.c.uploadedFiles = s.c.uploadedFiles
      /\ t.c.uploadPath = s.c.uploadPath /\ t.c.expected = s.c.expected /\ t.c.body = size
      /\ t.c.leftover = << >> /\ t.c.state = s.c.state /\ t.c.isChunked = s.c.isChunked
      /\ t.c.uploadedBytes = s.c.uploadedBytes
  BY <1>3, <1>6 DEF ClientForm
<1>9. /\ u.c.number = s.c.number /\ u.c.request = s.c.request /\ u.c.res = s.c.res
      /\ u.c.chunked = s.c.chunked /\ u.c.multipart = s.c.multipart
      /\ u.c.uploadFd = s.c.uploadFd /\ u.c.uploadedFiles = s.c.uploadedFiles
      /\ u.c.uploadPath = s.c.uploadPath /\ u.c.uploadedBytes = s.c.uploadedBytes
  BY <1>6, <1>7, <1>8 DEF ClientForm
<1>10. Alike(s, t) /\ Alike(s, u)
  <2>1. Outcome(t) /\ Outcome(u)
    BY <1>3, <1>6, <1>7 DEF Outcome
  <2>2. t.disk = s.disk /\ t.opened = s.opened /\ t.history = s.history /\ t.done = s.done
    BY <1>6
  <2>3. u.disk = s.disk /\ u.opened = s.opened /\ u.history = s.history /\ u.done = s.done
    BY <1>6
  <2>4. (Untouched(s.c) => Untouched(t.c)) /\ (Untouched(s.c) => Untouched(u.c))
    BY <1>8, <1>9 DEF Untouched, NoUpload
  <2> QED BY <1>8, <1>9, <2>1, <2>2, <2>3, <2>4 DEF Alike, Near
<1>11. ~Feeding(s.c.chunked) /\ ~Feeding(s.c.multipart)
  BY DEF Body
<1>12. Settles(s, rest)
  BY <1>11, BodySettles
<1>13. Settles(t, rest) /\ Settles(u, rest)
  BY <1>3, <1>8, <1>9, <1>10, <1>11, <1>12, AlikeIs DEF Settles
<1>14. CASE o \in Refuse(u, 413)
  BY <1>13, <1>14, RefuseIs DEF Results, StatusEntries
<1>15. CASE t.c.body <= MaxScriptBody /\ t.c.body >= t.c.expected /\ o \in handlerReturn(t)
  <2>1. s.c.request \in SomeRequest /\ s.c.request.length \in Int
    BY <1>3, RequestIs DEF ClientForm
  <2>2. t.c.expected >= s.c.request.length \/ s.c.request.length = -1
    BY <1>8, <2>1 DEF Body, None
  <2>5. MaxScriptBody \in Nat /\ t.c.body \in Nat /\ t.c.expected \in Nat
    BY <1>7, BoundAssumption DEF ClientForm
  <2>3. t.c.body \in s.c.request.length .. MaxScriptBody
    BY <1>15, <2>1, <2>2, <2>5
  <2>4. Fed(t)
    BY <1>8, <2>3 DEF Fed, Script, Whole, Uploads
  <2> QED BY <1>13, <1>15, <2>4, ReturnIs DEF Results
<1>16. CASE o = t
  <2>1. t.c.leftover \o rest = rest
    BY <1>8, ConcatEmptySeq
  <2>2. Core(t) /\ Unmixed(t) /\ Placed(t, rest)
    BY <1>13 DEF Settles
  <2>3. Continued(t, rest)
    BY <1>8 DEF Continued
  <2>4. ~t.done /\ InBody(t.c)
    BY <1>6, <1>8 DEF Body, InBody
  <2>5. Reads(t.c)
    BY <1>8, <1>11 DEF Body, Reads
  <2>6. Unspoiled(t.history) => Owns(t.c, DOMAIN t.disk)
    BY <1>8, <2>2 DEF Core, Holds, Owns
  <2>8. Tallies(t)
    BY <1>8 DEF Tallies
  <2>7. Waits(t, rest)
    BY <2>1, <2>2, <2>3, <2>4, <2>5, <2>6, <2>8 DEF Waits
  <2> QED BY <1>16, <2>7 DEF Results
<1> QED BY <1>5, <1>14, <1>15, <1>16

\* A body that waits may as well be answered.
LEMMA WaitsSettles ==
  ASSUME NEW rest \in Seq(Item), NEW s, Waits(s, rest), s.c.request.target.store,
         ~Feeding(s.c.chunked), ~Feeding(s.c.multipart)
  PROVE  Settles(s, rest) /\ (Whole(s) => Fed(s))
<1>1. s.c.leftover \in Seq(Item)
  BY DEF Waits, Core, Base, Outcome, ClientForm
<1>2. Placed(s, rest)
  BY <1>1, Later DEF Waits, Placed
<1> QED BY <1>2 DEF Waits, Settles, Fed

\* What is stored of a request.
LEMMA StoredIs ==
  ASSUME NEW d, Files(d), NEW n
  PROVE  Stored(d, n) \in Seq(Item) /\ Len(Stored(d, n)) \in Nat
<1>1. << >> \in Seq(Item)
  OBVIOUS
<1>2. Stored(d, n) \in Seq(Item)
  BY <1>1 DEF Stored, Files
<1> QED BY <1>2, LenProperties

\* With what is to come it is the body.
LEMMA RoomIs ==
  ASSUME NEW s, NEW l \in Seq(Item), NEW rest \in Seq(Item), Core(s), Continued(s, l \o rest),
         Unspoiled(s.history), Quiet(s.history), s.c.request.target.store
  PROVE  Len(Stored(s.disk, s.c.number)) + Len(l) <= s.c.request.size
<1>1. PICK f : f = Stored(s.disk, s.c.number)
  OBVIOUS
<1>2. f \in Seq(Item) /\ Len(f) \in Nat
  BY <1>1, StoredIs DEF Core, Base, Outcome
<1>3. PICK w : w = l \o rest
  OBVIOUS
<1>4. w \in Seq(Item) /\ Len(w) = Len(l) + Len(rest) /\ Len(l) \in Nat /\ Len(rest) \in Nat
  BY <1>3, ConcatProperties, LenProperties
<1>5. Len(f \o w) = Len(f) + Len(w)
  BY <1>2, <1>4, ConcatProperties
<1>6. Len(f \o w) = s.c.request.size
  BY <1>1, <1>3 DEF Continued, Spells
<1> QED BY <1>1, <1>2, <1>4, <1>5, <1>6

\* A body is complete when as many bytes are stored as it has.
LEMMA WholeIs ==
  ASSUME NEW s, NEW w \in Seq(Item), NEW v, Core(s), Placed(s, v), Continued(s, w),
         First(s) /\ Uploads(s.c.request) =>
           /\ s.c.number \in DOMAIN s.disk
           /\ BodyLength(s.c.request) = Len(Stored(s.disk, s.c.number))
  PROVE  Whole(s)
<1> SUFFICES ASSUME First(s), Uploads(s.c.request)
             PROVE  s.c.number \in DOMAIN s.disk /\ s.disk[s.c.number] = Content(s.c.number)
  BY DEF Whole
<1>1. PICK n : n = s.c.number
  OBVIOUS
<1>2. PICK f : f = s.disk[n]
  OBVIOUS
<1>3. n \in DOMAIN s.disk /\ f \in Seq(Item) /\ Stored(s.disk, n) = f
  BY <1>1, <1>2 DEF Core, Base, Outcome, Files, Stored
<1>4. s.c.request = sent[n] /\ Unspoiled(s.history) /\ Quiet(s.history)
  BY <1>1, UploadIs DEF First
<1>5. Numbered(n, f)
  <2>1. Numbered(n, f \o w)
    BY <1>1, <1>3, <1>4 DEF Continued, Uploads, Spells
  <2> QED BY <1>3, <2>1, Later
<1>6. DOMAIN f = 1 .. Len(f) /\ f = [k \in DOMAIN f |-> f[k]]
  BY <1>3, LenProperties
<1>7. BodyLength(sent[n]) = Len(f)
  BY <1>1, <1>3, <1>4
<1>8. f = [k \in 1 .. Len(f) |-> BodyByte(n, k)]
  BY <1>5, <1>6 DEF Numbered
<1> QED BY <1>1, <1>2, <1>3, <1>7, <1>8 DEF Content

\* The length of a body whose headers agree.
LEMMA LengthIs ==
  ASSUME NEW r \in SomeRequest, FramingError(r) = 0, r.method = "POST"
  PROVE  /\ r.te = "chunked" => BodyLength(r) = r.size
         /\ r.te # "chunked" =>
              /\ r.length \in Nat \ {0} /\ BodyLength(r) = IF r.length <= r.size THEN r.length ELSE r.size
<1>1. r.size \in Nat /\ r.te \in {"no", "chunked", "other"} /\ (r.length # None => r.length \in Nat)
  BY RequestIs
<1>2. r.te # "other" /\ (r.te = "no" => r.length # None) /\ (r.te # "no" => r.length = None) /\ r.length # 0
  BY DEF FramingError
<1> QED BY <1>1, <1>2 DEF BodyLength, MinOf

\* The file system may fail.
LEMMA DiskFailedIs ==
  ASSUME NEW rest, NEW s, Settles(s, rest)
  PROVE  Settles(DiskFailed(s), rest)
<1>1. PICK t : t = DiskFailed(s)
  OBVIOUS
<1>2. Core(s) /\ Unmixed(s) /\ Outcome(s)
  BY DEF Settles, Core, Base
<1>3. t = [c |-> s.c, disk |-> s.disk, opened |-> s.opened,
           history |-> s.history \cup {"disk failed"}, done |-> s.done, script |-> s.script]
  BY <1>1, <1>2 DEF DiskFailed, Outcome
<1>4. t.history \subseteq Events
  BY <1>2, <1>3 DEF Outcome, Events
<1>5. Alike(s, t)
  <2>1. "spoiled" \in t.history => "spoiled" \in s.history
    BY <1>3
  <2> QED BY <1>2, <1>3, <1>4, <2>1 DEF Alike, Near, Outcome
<1>6. t.c = s.c
  BY <1>3
<1>7. Settles(t, rest)
  BY <1>2, <1>5, <1>6, AlikeIs DEF Settles
<1> QED BY <1>1, <1>7

\* Whether a single file is complete.
LEMMA CountedIs ==
  ASSUME NEW rest \in Seq(Item), NEW s, Waits(s, rest), s.c.request.target.store,
         ~s.c.isChunked, ~s.c.request.multipart, NEW o \in Counted(s)
  PROVE  Results(o, rest)
<1>1. Settles(s, rest) /\ (Whole(s) => Fed(s))
  BY WaitsSettles DEF Waits, Reads
<1>2. /\ Core(s) /\ Continued(s, s.c.leftover \o rest) /\ s.c.leftover \in Seq(Item)
      /\ s.c.request \in SomeRequest /\ s.c.uploadedBytes \in Nat /\ s.c.expected \in Nat
      /\ Files(s.disk) /\ Placed(s, s.c.leftover \o rest)
  BY DEF Waits, Core, Base, Outcome, ClientForm
<1>3. \/ o \in Refuse(s, 400) \/ o = s
      \/ o \in handlerReturn(s) /\ s.c.uploadedBytes = s.c.expected
  BY <1>2 DEF Counted
<1>4. 400 \in StatusEntries
  BY DEF StatusEntries
<1>5. ASSUME s.c.uploadedBytes = s.c.expected PROVE Whole(s)
  <2>1. PICK w : w = s.c.leftover \o rest
    OBVIOUS
  <2>2. w \in Seq(Item) /\ Continued(s, w) /\ Placed(s, w)
    BY <1>2, <2>1, ConcatProperties
  <2>3. ASSUME First(s), Uploads(s.c.request)
        PROVE  /\ s.c.number \in DOMAIN s.disk
               /\ BodyLength(s.c.request) = Len(Stored(s.disk, s.c.number))
    <3>1. PICK f : f = Stored(s.disk, s.c.number)
      OBVIOUS
    <3>2. Len(f) = s.c.expected
      BY <1>5, <2>3, <3>1 DEF Waits, Tallies, Counts
    <3>3. /\ s.c.request.method = "POST" /\ s.c.request.te # "chunked" /\ FramingError(s.c.request) = 0
          /\ s.c.request.length # None => s.c.expected = s.c.request.length
      BY DEF Waits, Reads
    <3>4. /\ s.c.request.length \in Nat \ {0} /\ s.c.request.size \in Nat
          /\ BodyLength(s.c.request) = IF s.c.request.length <= s.c.request.size
                                         THEN s.c.request.length ELSE s.c.request.size
      BY <1>2, <3>3, LengthIs, RequestIs
    <3>5. Len(f) = s.c.request.length
      BY <3>2, <3>3, <3>4 DEF None
    <3>6. Len(f) + Len(s.c.leftover) <= s.c.request.size
      <4>1. Unspoiled(s.history) /\ Quiet(s.history)
        BY <1>2, <2>3, UploadIs DEF First
      <4> QED BY <1>2, <3>1, <4>1, RoomIs
    <3>7. Len(s.c.leftover) \in Nat
      BY <1>2, LenProperties
    <3>8. s.c.number \in DOMAIN s.disk
      <4>1. f # << >>
        BY <3>4, <3>5
      <4> QED BY <3>1, <4>1 DEF Stored
    <3> QED BY <3>1, <3>4, <3>5, <3>6, <3>7, <3>8
  <2> QED BY <1>2, <2>2, <2>3, WholeIs
<1> QED BY <1>1, <1>3, <1>4, <1>5, RefuseIs, ReturnIs DEF Results

\* Bytes that are added to a file.
LEMMA StoreIs ==
  ASSUME NEW d, Files(d), NEW n, NEW items \in Seq(Item)
  PROVE  LET e == [d EXCEPT ![n] = @ \o items]
         IN /\ Files(e) /\ DOMAIN e = DOMAIN d
            /\ \A k \in DOMAIN d : k # n => e[k] = d[k]
            /\ n \in DOMAIN d => d[n] \in Seq(Item) /\ e[n] = d[n] \o items
<1>1. d \in [DOMAIN d -> Seq(Item)] /\ DOMAIN d \subseteq Nat
  BY DEF Files
<1>2. CASE n \in DOMAIN d
  <2>1. PICK v : v = d[n] \o items
    OBVIOUS
  <2>2. d[n] \in Seq(Item) /\ v \in Seq(Item)
    BY <1>1, <1>2, <2>1, ConcatProperties
  <2> QED BY <1>1, <1>2, <2>1, <2>2 DEF Files
<1>3. CASE n \notin DOMAIN d
  BY <1>1, <1>3 DEF Files
<1> QED BY <1>2, <1>3

\* write() takes the first n bytes that were received.
Takes(s, n, t) ==
  t = [Store(s, s.c.uploadFd, SubSeq(s.c.leftover, 1, n)) EXCEPT
         !.c.uploadedBytes = @ + n, !.c.leftover = SubSeq(@, n + 1, Len(s.c.leftover)),
         !.history = IF n < Len(s.c.leftover) THEN @ \cup {"disk failed"} ELSE @]
\* The bytes it took continue the file; the others are behind them, not yet stored.
LEMMA TakesIs ==
  ASSUME NEW rest \in Seq(Item), NEW s, Waits(s, rest), s.c.request.target.store,
         ~s.c.isChunked, ~s.c.request.multipart, NEW n \in 0 .. Len(s.c.leftover),
         NEW t, Takes(s, n, t)
  PROVE  Waits(t, rest) /\ t.c.request = s.c.request /\ t.c.isChunked = s.c.isChunked
<1>1. /\ Core(s) /\ Unmixed(s) /\ Outcome(s) /\ s.c \in ClientForm /\ s.c.leftover \in Seq(Item)
      /\ s.c.uploadedBytes \in Nat /\ Files(s.disk)
  BY DEF Waits, Core, Base, Outcome, ClientForm
<1>2. PICK l : l = s.c.leftover
  OBVIOUS
<1>3. PICK a : a = SubSeq(l, 1, n)
  OBVIOUS
<1>4. PICK b : b = SubSeq(l, n + 1, Len(l))
  OBVIOUS
<1>5. n \in 0 .. Len(l) /\ l \in Seq(Item) /\ a \in Seq(Item) /\ b \in Seq(Item)
  BY <1>1, <1>2, <1>3, <1>4, Split
<1>23. a \o b = l
  BY <1>1, <1>2, <1>3, <1>4, Split
<1>24. PICK m : m = s.c.uploadedBytes + n
  OBVIOUS
<1>6. PICK d : d = [s.disk EXCEPT ![s.c.uploadFd] = @ \o a]
  OBVIOUS
<1>7. PICK h : h = IF n < Len(l) THEN s.history \cup {"disk failed"} ELSE s.history
  OBVIOUS
<1>8. t = [s EXCEPT !.c.uploadedBytes = m, !.c.leftover = b, !.disk = d, !.history = h]
  <2>1. PICK e : e = [s EXCEPT !.disk = d]
    OBVIOUS
  <2>2. Store(s, s.c.uploadFd, SubSeq(s.c.leftover, 1, n)) = e
    <3>1. Store(s, s.c.uploadFd, a) = e
      BY <1>6, <2>1 DEF Store
    <3> QED BY <1>2, <1>3, <3>1
  <2>3. e = [c |-> s.c, disk |-> d, opened |-> s.opened, history |-> s.history,
             done |-> s.done, script |-> s.script]
    BY <1>1, <2>1 DEF Outcome
  <2>4. t = [e EXCEPT !.c.uploadedBytes = @ + n, !.c.leftover = SubSeq(@, n + 1, Len(l)),
                      !.history = IF n < Len(l) THEN @ \cup {"disk failed"} ELSE @]
    BY <1>2, <2>2 DEF Takes
  <2>5. t = [e EXCEPT !.c.uploadedBytes = m, !.c.leftover = b, !.history = h]
    BY <1>1, <1>2, <1>4, <1>7, <1>24, <2>3, <2>4 DEF ClientForm
  <2> QED BY <1>1, <2>1, <2>3, <2>5 DEF Outcome
<1>9. /\ t = [c |-> t.c, disk |-> d, opened |-> s.opened, history |-> h,
              done |-> s.done, script |-> s.script]
      /\ t.c = [s.c EXCEPT !.uploadedBytes = m, !.leftover = b]
  BY <1>1, <1>8 DEF Outcome, ClientForm
<1>10. /\ t.c \in ClientForm /\ t.c.leftover = b
       /\ t.c.number = s.c.number /\ t.c.request = s.c.request /\ t.c.res = s.c.res
       /\ t.c.chunked = s.c.chunked /\ t.c.multipart = s.c.multipart
       /\ t.c.uploadFd = s.c.uploadFd /\ t.c.uploadedFiles = s.c.uploadedFiles
       /\ t.c.uploadPath = s.c.uploadPath /\ t.c.expected = s.c.expected
       /\ t.c.state = s.c.state /\ t.c.isChunked = s.c.isChunked /\ t.c.uploadedBytes = m
  <2>1. m \in Nat
    BY <1>1, <1>5, <1>24
  <2>2. b \in Seq(Item) /\ s.c \in ClientForm /\ t.c = [s.c EXCEPT !.uploadedBytes = m, !.leftover = b]
    BY <1>1, <1>5, <1>9
  <2>3. t.c \in ClientForm
    BY <2>1, <2>2 DEF ClientForm
  <2> QED BY <2>2, <2>3 DEF ClientForm
<1>11. /\ Files(d) /\ DOMAIN d = DOMAIN s.disk
       /\ \A k \in DOMAIN s.disk : k # s.c.uploadFd => d[k] = s.disk[k]
       /\ s.c.uploadFd \in DOMAIN s.disk =>
            s.disk[s.c.uploadFd] \in Seq(Item) /\ d[s.c.uploadFd] = s.disk[s.c.uploadFd] \o a
  BY <1>1, <1>5, <1>6, StoreIs
<1>12. s.history \subseteq h /\ h \subseteq Events /\ ("spoiled" \in h => "spoiled" \in s.history)
  BY <1>1, <1>7 DEF Outcome, Events
<1>13. /\ t.disk = d /\ t.opened = s.opened /\ t.history = h
       /\ t.done = s.done /\ t.script = s.script
  BY <1>9
<1>14. /\ Unspoiled(t.history) => Unspoiled(s.history)
       /\ Quiet(t.history) => Quiet(s.history)
  BY <1>12, <1>13 DEF Unspoiled, Quiet
<1>15. Near(s, t)
  <2>1. Outcome(t)
    BY <1>1, <1>9, <1>10, <1>11, <1>12, <1>13 DEF Outcome
  <2>2. Uploads(s.c.request)
    BY DEF Waits, Reads, Uploads
  <2> QED BY <1>10, <1>12, <1>13, <2>1, <2>2 DEF Near
<1>16. Unspoiled(t.history) => s.c.uploadFd = s.c.number /\ s.c.number \in DOMAIN s.disk
  BY <1>14 DEF Waits, Owns
<1>17. Unspoiled(t.history) /\ Quiet(t.history) =>
         /\ Numbered(s.c.number, d[s.c.number])
         /\ Spells(s.c.number, d[s.c.number] \o (b \o rest), s.c.request.size)
  <2> SUFFICES ASSUME Unspoiled(t.history), Quiet(t.history)
               PROVE  /\ Numbered(s.c.number, d[s.c.number])
                      /\ Spells(s.c.number, d[s.c.number] \o (b \o rest), s.c.request.size)
    OBVIOUS
  <2>1. PICK f : f = s.disk[s.c.number]
    OBVIOUS
  <2>2. f \in Seq(Item) /\ d[s.c.number] = f \o a
    BY <1>11, <1>16, <2>1
  <2>3. Spells(s.c.number, f \o (l \o rest), s.c.request.size)
    BY <1>2, <1>14, <1>16, <2>1 DEF Waits, Continued, Stored
  <2>4. /\ Numbered(s.c.number, f \o a)
        /\ Spells(s.c.number, (f \o a) \o (b \o rest), s.c.request.size)
    <3>1. Spells(s.c.number, f \o ((a \o b) \o rest), s.c.request.size)
      BY <1>23, <2>3
    <3>2. a \in Seq(Item) /\ b \in Seq(Item) /\ f \in Seq(Item) /\ s.c.number \in Nat
      BY <1>1, <1>5, <2>2 DEF ClientForm
    <3> QED BY <3>1, <3>2, Moved
  <2> QED BY <2>2, <2>4
<1>18. Core(t) /\ Unmixed(t) /\ \A w : Placed(s, w) => Placed(t, w)
  <2>1. Stores(t.c, DOMAIN t.disk)
    BY <1>1, <1>10, <1>11, <1>13 DEF Stores, Core
  <2>2. Unspoiled(t.history) => t.opened = {t.c.uploadFd} \ {NoFile} /\ Holds(t.c)
    BY <1>1, <1>10, <1>13, <1>14 DEF Core, Base, Holds
  <2>3. Unspoiled(t.history) => \A k \in DOMAIN t.disk : k # s.c.number => t.disk[k] = s.disk[k]
    BY <1>11, <1>13, <1>16
  <2>4. Unspoiled(t.history) /\ Quiet(t.history) /\ s.c.number \in DOMAIN t.disk =>
          Numbered(s.c.number, t.disk[s.c.number])
    BY <1>13, <1>17
  <2>5. DOMAIN t.disk \subseteq DOMAIN s.disk \cup {s.c.number}
    BY <1>11, <1>13
  <2>6. Unspoiled(t.history) =>
          /\ t.opened = {t.c.uploadFd} \ {NoFile} /\ Holds(t.c)
          /\ \A k \in DOMAIN t.disk : k # s.c.number => t.disk[k] = s.disk[k]
    BY <2>2, <2>3
  <2> QED BY <1>1, <1>15, <2>1, <2>4, <2>5, <2>6, NearIs, Zenon
<1>19. Placed(t, b \o rest)
  <2>1. Placed(s, l \o rest)
    BY <1>2 DEF Waits
  <2>2. l \o rest = a \o (b \o rest) /\ b \o rest \in Seq(Item)
    <3>1. << >> \in Seq(Item)
      OBVIOUS
    <3>2. l \o rest = a \o (b \o rest)
      <4>1. a \in Seq(Item) /\ b \in Seq(Item)
        BY <1>5
      <4>2. (a \o b) \o rest = a \o (b \o rest)
        BY <4>1, Joined, SMTT(60)
      <4> QED BY <1>23, <4>2
    <3>3. b \o rest \in Seq(Item)
      BY <1>5, ConcatProperties
    <3> QED BY <3>2, <3>3
  <2>3. PICK w : w = b \o rest
    OBVIOUS
  <2>4. Placed(s, w)
    BY <1>5, <2>1, <2>2, <2>3, Later DEF Placed
  <2> QED BY <1>18, <2>3, <2>4
<1>20. Continued(t, b \o rest)
  <2>1. Unspoiled(t.history) => Stored(d, s.c.number) = d[s.c.number]
    BY <1>11, <1>16 DEF Stored
  <2>2. PICK w : w = b \o rest
    OBVIOUS
  <2>3. Unspoiled(t.history) /\ Quiet(t.history) =>
          Spells(s.c.number, Stored(d, s.c.number) \o w, s.c.request.size)
    BY <1>17, <2>1, <2>2
  <2>4. Continued(t, w)
    BY <1>10, <1>13, <2>3 DEF Continued
  <2> QED BY <2>2, <2>4
<1>21. ~t.done /\ InBody(t.c) /\ Reads(t.c)
  BY <1>10, <1>13 DEF Waits, InBody, Reads
<1>22. Unspoiled(t.history) => Owns(t.c, DOMAIN t.disk)
  BY <1>10, <1>11, <1>13, <1>14 DEF Waits, Owns
<1>25. Tallies(t)
  <2> SUFFICES ASSUME First(t) PROVE Counts(t.c, Len(Stored(t.disk, t.c.number)))
    BY DEF Tallies
  <2>1. First(s) /\ Unspoiled(t.history) /\ t.c.res.status # 201
    <3>1. Begun(t) /\ First(s)
      BY <1>10, <1>12, <1>13, <1>18 DEF Core, First, Pristine
    <3> QED BY <3>1 DEF Begun, First, Pristine, Unspoiled
  <2>2. PICK f : f = s.disk[s.c.number]
    OBVIOUS
  <2>3. /\ Stored(s.disk, s.c.number) = f /\ f \in Seq(Item) /\ Stored(t.disk, t.c.number) = f \o a
        /\ s.c.number \in DOMAIN s.disk
    <3>1. s.c.uploadFd = s.c.number /\ s.c.number \in DOMAIN s.disk
      BY <1>16, <2>1
    <3>2. f \in Seq(Item) /\ t.disk[s.c.number] = f \o a /\ s.c.number \in DOMAIN t.disk
      BY <1>11, <1>13, <2>2, <3>1
    <3> QED BY <1>10, <2>2, <3>1, <3>2 DEF Stored
  <2>4. s.c.uploadedBytes = Len(f)
    BY <2>1, <2>3 DEF Waits, Tallies, Counts
  <2>5. Len(a) = n /\ Len(f \o a) = Len(f) + Len(a)
    <3>1. Len(a) = n
      BY <1>3, <1>5, Split
    <3> QED BY <1>5, <2>3, <3>1, ConcatProperties
  <2> QED BY <1>10, <1>24, <2>1, <2>3, <2>4, <2>5 DEF Counts
<1> QED BY <1>10, <1>18, <1>19, <1>20, <1>21, <1>22, <1>25 DEF Waits

\* The path the upload has after its first write.
Pathed(s, t) ==
  t = [s EXCEPT !.c.uploadPath = IF s.c.request.named THEN s.c.number ELSE NoFile]
Repathed(s, t) ==
  /\ Outcome(t) /\ t.disk = s.disk /\ t.opened = s.opened /\ t.history = s.history
  /\ t.done = s.done /\ t.script = s.script
  /\ t.c.number = s.c.number /\ t.c.request = s.c.request /\ t.c.res = s.c.res
  /\ t.c.chunked = s.c.chunked /\ t.c.multipart = s.c.multipart
  /\ t.c.uploadFd = s.c.uploadFd /\ t.c.uploadedFiles = s.c.uploadedFiles
  /\ t.c.expected = s.c.expected /\ t.c.leftover = s.c.leftover
  /\ t.c.state = s.c.state /\ t.c.isChunked = s.c.isChunked /\ t.c.uploadedBytes = s.c.uploadedBytes
  /\ s.c.request.named => t.c.uploadPath = s.c.number
\* Nothing but the path is another one.
LEMMA PathedIs ==
  ASSUME NEW s, NEW t, Outcome(s), Pathed(s, t)
  PROVE  Repathed(s, t)
<1>1. /\ s = [c |-> s.c, disk |-> s.disk, opened |-> s.opened, history |-> s.history,
              done |-> s.done, script |-> s.script]
      /\ s.c \in ClientForm
  BY DEF Outcome
<1>2. /\ t = [c |-> t.c, disk |-> s.disk, opened |-> s.opened, history |-> s.history,
              done |-> s.done, script |-> s.script]
      /\ t.c = [s.c EXCEPT !.uploadPath = IF s.c.request.named THEN s.c.number ELSE NoFile]
  BY <1>1 DEF Pathed
<1>3. /\ t.disk = s.disk /\ t.opened = s.opened /\ t.history = s.history
      /\ t.done = s.done /\ t.script = s.script
  BY <1>2
<1>4. (IF s.c.request.named THEN s.c.number ELSE NoFile) \in Nat
  BY <1>1 DEF ClientForm, NoFile
<1>5. t.c \in ClientForm
  BY <1>1, <1>2, <1>4 DEF ClientForm
<1>6. Outcome(t)
  BY <1>2, <1>3, <1>5 DEF Outcome
<1> QED BY <1>1, <1>2, <1>3, <1>6 DEF ClientForm, Repathed

\* write() of what was received: all of it, some of it, or nothing and 500.
LEMMA WrittenIs ==
  ASSUME NEW rest \in Seq(Item), NEW s, NEW t, Outcome(s), Pathed(s, t), Waits(t, rest),
         s.c.request.target.store, ~s.c.isChunked, ~s.c.request.multipart, NEW o \in Written(s)
  PROVE  Results(o, rest)
<1>1. /\ t.c.request = s.c.request /\ t.c.leftover = s.c.leftover /\ t.c.isChunked = s.c.isChunked
      /\ s.c.leftover \in Seq(Item)
  <2>1. s.c.leftover \in Seq(Item)
    BY DEF Outcome, ClientForm
  <2>2. Repathed(s, t)
    BY PathedIs
  <2> QED BY <2>1, <2>2 DEF Repathed
<1>2. PICK size \in Nat : size = Len(s.c.leftover)
  BY <1>1, LenProperties
<1>3. \/ \E n \in MinOf(1, size) .. size : \E u : Takes(t, n, u) /\ o \in Counted(u)
      \/ o \in Refuse(DiskFailed(t), 500)
  <2> DEFINE m == Len(s.c.leftover)
             p == [s EXCEPT !.c.uploadPath = IF s.c.request.named THEN s.c.number ELSE NoFile]
             u(n) == [Store(p, p.c.uploadFd, SubSeq(p.c.leftover, 1, n)) EXCEPT
                        !.c.uploadedBytes = @ + n, !.c.leftover = SubSeq(@, n + 1, m),
                        !.history = IF n < m THEN @ \cup {"disk failed"} ELSE @]
  <2>1. o \in Refuse(DiskFailed(p), 500) \cup UNION {Counted(u(n)) : n \in MinOf(1, m) .. m}
    BY Zenon DEF Written
  <2>2. p = t /\ m = size
    BY <1>2 DEF Pathed
  <2>3. m = Len(t.c.leftover)
    BY <1>1
  <2> HIDE DEF p, m
  <2>4. \A n : Takes(p, n, u(n))
    BY <2>2, <2>3, Zenon DEF Takes
  <2> HIDE DEF u
  <2> QED BY <2>1, <2>2, <2>4
<1>4. CASE \E n \in MinOf(1, size) .. size : \E u : Takes(t, n, u) /\ o \in Counted(u)
  <2>1. PICK n \in MinOf(1, size) .. size : \E u : Takes(t, n, u) /\ o \in Counted(u)
    BY <1>4
  <2>2. PICK u : Takes(t, n, u) /\ o \in Counted(u)
    BY <2>1
  <2>3. n \in 0 .. Len(t.c.leftover)
    BY <1>1, <1>2 DEF MinOf
  <2>4. Waits(u, rest)
    BY <1>1, <2>2, <2>3, TakesIs
  <2>5. u.c.request = t.c.request /\ u.c.isChunked = t.c.isChunked
    BY <1>1, <2>2, <2>3, TakesIs
  <2> QED BY <1>1, <2>2, <2>4, <2>5, CountedIs
<1>5. CASE o \in Refuse(DiskFailed(t), 500)
  <2>1. Settles(DiskFailed(t), rest)
    BY <1>1, WaitsSettles, DiskFailedIs DEF Waits, Reads
  <2> QED BY <1>5, <2>1, RefuseIs DEF Results, StatusEntries
<1> QED BY <1>3, <1>4, <1>5

\* open() of the file of the request.
Opened(s, t) ==
  LET n == s.c.number
      d == [k \in DOMAIN s.disk \cup {n} |-> IF k = n THEN << >> ELSE s.disk[k]]
  IN /\ Outcome(t)
     /\ t = [c |-> t.c, disk |-> d, opened |-> s.opened \cup {n}, history |-> s.history,
             done |-> s.done, script |-> s.script]
     /\ t.c = [s.c EXCEPT !.uploadFd = n]
\* OpenUpload() opens an empty file and makes it the client's.
LEMMA OpenUploadIs ==
  ASSUME NEW s, Outcome(s)
  PROVE  Opened(s, OpenUpload(s))
<1>1. /\ s = [c |-> s.c, disk |-> s.disk, opened |-> s.opened, history |-> s.history,
              done |-> s.done, script |-> s.script]
      /\ s.c \in ClientForm /\ Files(s.disk) /\ s.opened \subseteq Nat /\ s.history \subseteq Events
      /\ s.done \in BOOLEAN /\ s.script \in BOOLEAN /\ s.c.number \in Nat
  BY DEF Outcome, ClientForm
<1>2. PICK n : n = s.c.number
  OBVIOUS
<1>3. PICK d : d = [k \in DOMAIN s.disk \cup {n} |-> IF k = n THEN << >> ELSE s.disk[k]]
  OBVIOUS
<1>4. PICK t : t = [s EXCEPT !.c.uploadFd = n, !.opened = @ \cup {n}, !.disk = d]
  OBVIOUS
<1>5. OpenUpload(s) = t
  BY <1>2, <1>3, <1>4 DEF OpenUpload
<1>6. Files(d)
  <2>1. \A k \in DOMAIN s.disk : s.disk[k] \in Seq(Item)
    BY <1>1 DEF Files
  <2>2. << >> \in Seq(Item)
    OBVIOUS
  <2> QED BY <1>1, <1>2, <1>3, <2>1, <2>2 DEF Files
<1>7. /\ t = [c |-> t.c, disk |-> d, opened |-> s.opened \cup {n}, history |-> s.history,
              done |-> s.done, script |-> s.script]
      /\ t.c = [s.c EXCEPT !.uploadFd = n]
  BY <1>1, <1>4
<1>8. /\ t.disk = d /\ t.opened = s.opened \cup {n} /\ t.history = s.history
      /\ t.done = s.done /\ t.script = s.script
  BY <1>7
<1>9. t.c \in ClientForm
  BY <1>1, <1>2, <1>7 DEF ClientForm
<1>10. Outcome(t)
  BY <1>1, <1>2, <1>6, <1>7, <1>8, <1>9 DEF Outcome
<1> QED BY <1>2, <1>3, <1>5, <1>7, <1>10 DEF Opened

\* A new file, where the client had none of this request.
Opens(s, t) ==
  /\ Near(s, t) /\ t.script = s.script /\ t.history = s.history
  /\ t.c = [s.c EXCEPT !.uploadFd = s.c.number]
  /\ t.c.uploadFd = s.c.number /\ s.c.number \in DOMAIN t.disk
  /\ Core(t) /\ Unmixed(t)
  /\ \A w : Placed(s, w) => Placed(t, w)
  /\ \A w : Continued(s, w) => Continued(t, w)
  /\ Unspoiled(s.history) => Stored(t.disk, s.c.number) = Stored(s.disk, s.c.number)
\* What was stored for other requests is not touched.
LEMMA OpensIs ==
  ASSUME NEW s, Core(s), Unmixed(s), Uploads(s.c.request),
         Unspoiled(s.history) =>
           /\ s.c.uploadFd = NoFile /\ s.c.number \notin DOMAIN s.disk
           /\ s.c.request.target.store /\ (s.c.request.te = "chunked" \/ ~s.c.request.multipart)
           /\ IsNamed(s.c.request) => s.c.uploadPath = s.c.number
  PROVE  Opens(s, OpenUpload(s))
<1>1. Outcome(s) /\ s.c \in ClientForm /\ s.c.number \in Nat /\ s.c.number # NoFile
  BY DEF Core, Base, Outcome, ClientForm, NoFile
<1>2. PICK n : n = s.c.number
  OBVIOUS
<1>3. PICK d : d = [k \in DOMAIN s.disk \cup {n} |-> IF k = n THEN << >> ELSE s.disk[k]]
  OBVIOUS
<1>5. PICK t : t = OpenUpload(s)
  OBVIOUS
<1>4. Opened(s, t)
  BY <1>1, <1>5, OpenUploadIs
<1>6. /\ DOMAIN d = DOMAIN s.disk \cup {n} /\ d[n] = << >>
      /\ \A k \in DOMAIN s.disk : k # n => d[k] = s.disk[k]
  BY <1>3
<1>7. /\ Outcome(t)
      /\ t = [c |-> t.c, disk |-> d, opened |-> s.opened \cup {n}, history |-> s.history,
              done |-> s.done, script |-> s.script]
      /\ t.c = [s.c EXCEPT !.uploadFd = n]
  BY <1>2, <1>3, <1>4 DEF Opened
<1>8. /\ t.disk = d /\ t.opened = s.opened \cup {n} /\ t.history = s.history
      /\ t.done = s.done /\ t.script = s.script
  BY <1>7
<1>9. /\ t.c.uploadFd = n
      /\ t.c.number = n /\ t.c.request = s.c.request /\ t.c.res = s.c.res
      /\ t.c.uploadedFiles = s.c.uploadedFiles /\ t.c.uploadPath = s.c.uploadPath
  BY <1>1, <1>2, <1>7 DEF ClientForm
<1>10. Near(s, t)
  BY <1>2, <1>7, <1>8, <1>9 DEF Near
<1>11. Unspoiled(t.history) =>
         /\ t.opened = {t.c.uploadFd} \ {NoFile} /\ Holds(t.c)
         /\ \A k \in DOMAIN t.disk : k # s.c.number => t.disk[k] = s.disk[k]
  <2> SUFFICES ASSUME Unspoiled(s.history)
               PROVE  /\ t.opened = {t.c.uploadFd} \ {NoFile} /\ Holds(t.c)
                      /\ \A k \in DOMAIN t.disk : k # s.c.number => t.disk[k] = s.disk[k]
    BY <1>8
  <2>1. t.opened = {t.c.uploadFd} \ {NoFile}
    BY <1>1, <1>2, <1>8, <1>9 DEF Core, Base
  <2>2. Holds(t.c)
    BY <1>2, <1>9 DEF Core, Holds
  <2>3. \A k \in DOMAIN t.disk : k # s.c.number => t.disk[k] = s.disk[k]
    BY <1>2, <1>6, <1>8
  <2> QED BY <2>1, <2>2, <2>3
<1>12. Numbered(s.c.number, t.disk[s.c.number])
  BY <1>2, <1>6, <1>8 DEF Numbered
<1>13. Core(t) /\ Unmixed(t) /\ \A w : Placed(s, w) => Placed(t, w)
  <2>1. Stores(t.c, DOMAIN t.disk)
    BY <1>9 DEF Stores
  <2>2. DOMAIN t.disk \subseteq DOMAIN s.disk \cup {s.c.number}
    BY <1>2, <1>6, <1>8
  <2> QED BY <1>10, <1>11, <1>12, <2>1, <2>2, NearIs
<1>15. Unspoiled(t.history) => Stored(t.disk, n) = Stored(s.disk, n)
  BY <1>2, <1>6, <1>8 DEF Stored
<1>14. \A w : Continued(s, w) => Continued(t, w)
  BY <1>2, <1>8, <1>9, <1>15 DEF Continued
<1> QED BY <1>2, <1>5, <1>6, <1>7, <1>8, <1>9, <1>10, <1>13, <1>14, <1>15 DEF Opens

\* The order in which two fields are set.
LEMMA Commutes ==
  ASSUME NEW c, NEW path, NEW n
  PROVE  [[c EXCEPT !.uploadPath = path] EXCEPT !.uploadFd = n]
           = [[c EXCEPT !.uploadFd = n] EXCEPT !.uploadPath = path]
BY Zenon

\* An outcome with another client.
MadeOf(s, c, d, e, h, f, g) ==
  s = [c |-> c, disk |-> d, opened |-> e, history |-> h, done |-> f, script |-> g]
\* Nothing else of the outcome is another one.
LEMMA ClientSet ==
  ASSUME NEW s, NEW a, NEW d, NEW e, NEW h, NEW f, NEW g, NEW b, MadeOf(s, a, d, e, h, f, g)
  PROVE  MadeOf([s EXCEPT !.c = b], b, d, e, h, f, g)
BY DEF MadeOf

\* A body that is stored as it comes.
LEMMA SingleFileIs ==
  ASSUME NEW rest \in Seq(Item), NEW s, Body(s, rest),
         s.c.request.method = "POST", s.c.request.target.store,
         ~s.c.isChunked, ~s.c.request.multipart, NEW o \in SingleFile(s)
  PROVE  Results(o, rest)
<1>1. /\ Core(s) /\ Unmixed(s) /\ Outcome(s) /\ s.c \in ClientForm
      /\ ~Feeding(s.c.chunked) /\ ~Feeding(s.c.multipart) /\ s.c.request.te # "chunked"
  <2>1. Outcome(s) /\ s.c \in ClientForm
    BY DEF Body, Core, Base, Outcome
  <2> QED BY <2>1 DEF Body, ClientForm
<1>2. IsNamed(s.c.request) <=> s.c.request.named
  BY <1>1 DEF IsNamed
<1>3. PICK t : Pathed(s, t)
  BY DEF Pathed
<1>4. Repathed(s, t)
  BY <1>1, <1>3, PathedIs
<1>5. ASSUME NEW u, Core(u), Unmixed(u), Placed(u, s.c.leftover \o rest), Continued(u, s.c.leftover \o rest),
             Near(s, u), u.history = s.history, u.c.leftover = s.c.leftover, u.c.expected = s.c.expected,
             u.c.state = s.c.state, u.c.isChunked = s.c.isChunked,
             u.c.chunked = s.c.chunked, u.c.multipart = s.c.multipart,
             s.c.request.named => u.c.uploadPath = s.c.number,
             Unspoiled(s.history) => u.c.uploadFd # NoFile /\ s.c.number \in DOMAIN u.disk,
             u.c.uploadedBytes = s.c.uploadedBytes,
             Unspoiled(s.history) => Stored(u.disk, s.c.number) = Stored(s.disk, s.c.number)
      PROVE  Waits(u, rest)
  <2>1. Reads(u.c)
    BY <1>1, <1>5 DEF Body, Near, Reads
  <2>2. Unspoiled(s.history) => Owns(u.c, DOMAIN u.disk)
    BY <1>1, <1>2, <1>5 DEF Core, Holds, Near, Owns
  <2>3. ~u.done /\ InBody(u.c)
    BY <1>5 DEF Body, Near, InBody
  <2>4. ASSUME First(u) PROVE Counts(u.c, Len(Stored(u.disk, u.c.number)))
    <3>1. First(s) /\ Unspoiled(s.history)
      BY <1>1, <1>5, <2>4 DEF Core, Begun, First, Near, Pristine, Unspoiled
    <3>2. s.c.uploadedBytes = Len(Stored(s.disk, s.c.number)) /\ u.c.res.status # 201
      BY <1>1, <1>5, <3>1 DEF Body, Ready, Uploads, Core, Begun, Near
    <3> QED BY <1>5, <3>1, <3>2 DEF Near, Counts
  <2> QED BY <1>5, <2>1, <2>2, <2>3, <2>4 DEF Waits, Tallies
<1>6. CASE s.c.uploadFd # NoFile
  <2>1. o \in Written(s)
    BY <1>6 DEF SingleFile
  <2>2. Alike(s, t)
    BY <1>2, <1>4 DEF Repathed, Alike, Near, Uploads
  <2>3. /\ Core(t) /\ Unmixed(t) /\ Placed(t, s.c.leftover \o rest)
        /\ Continued(t, s.c.leftover \o rest) /\ Near(s, t)
    BY <1>1, <2>2, AlikeIs DEF Body, Alike
  <2>4. Unspoiled(s.history) => t.c.uploadFd # NoFile /\ s.c.number \in DOMAIN t.disk
    BY <1>4, <1>6 DEF Body, Repathed
  <2>5. Waits(t, rest)
    BY <1>4, <1>5, <2>3, <2>4 DEF Repathed
  <2> QED BY <1>1, <1>3, <2>1, <2>5, WrittenIs
<1>7. CASE s.c.uploadFd = NoFile
  <2>1. o \in Written(OpenUpload(s)) \/ o \in Refuse(DiskFailed(s), 500)
    BY <1>7 DEF SingleFile
  <2>2. CASE o \in Refuse(DiskFailed(s), 500)
    <3>1. Settles(DiskFailed(s), rest)
      BY <1>1, BodySettles, DiskFailedIs
    <3> QED BY <2>2, <3>1, RefuseIs DEF Results, StatusEntries
  <2>3. CASE o \in Written(OpenUpload(s))
    <3>1. Alike(s, t)
      BY <1>4, <1>7 DEF Repathed, Alike, Near, Uploads
    <3>2. /\ Core(t) /\ Unmixed(t) /\ Placed(t, s.c.leftover \o rest)
          /\ Continued(t, s.c.leftover \o rest) /\ Near(s, t)
      BY <1>1, <3>1, AlikeIs DEF Body, Alike
    <3>3. PICK u : u = OpenUpload(t)
      OBVIOUS
    <3>4. Opens(t, u)
      <4>1. Unspoiled(t.history) =>
              /\ t.c.uploadFd = NoFile /\ t.c.number \notin DOMAIN t.disk
              /\ t.c.request.target.store /\ (t.c.request.te = "chunked" \/ ~t.c.request.multipart)
              /\ IsNamed(t.c.request) => t.c.uploadPath = t.c.number
        BY <1>1, <1>2, <1>4, <1>7 DEF Body, Repathed
      <4>2. Uploads(t.c.request)
        BY <1>4 DEF Repathed, Uploads
      <4> QED BY <3>2, <3>3, <4>1, <4>2, OpensIs
    <3>5. PICK v : v = OpenUpload(s)
      OBVIOUS
    <3>9. Opened(s, v) /\ Opened(t, u)
      BY <1>1, <1>4, <3>3, <3>5, OpenUploadIs DEF Repathed
    <3>10. PICK path : path = IF s.c.request.named THEN s.c.number ELSE NoFile
      OBVIOUS
    <3>11. t.c = [s.c EXCEPT !.uploadPath = path] /\ t.c.number = s.c.number
      BY <1>1, <1>3, <1>4, <3>10 DEF Pathed, Outcome, Repathed
    <3>8. /\ v.c = [s.c EXCEPT !.uploadFd = s.c.number]
          /\ v.c.request = s.c.request /\ v.c.isChunked = s.c.isChunked /\ v.c.number = s.c.number
      BY <1>1, <3>9 DEF Opened, ClientForm
    <3>12. u.c = [t.c EXCEPT !.uploadFd = s.c.number]
      BY <3>9, <3>11 DEF Opened
    <3>13. u.c = [v.c EXCEPT !.uploadPath = path]
      <4>1. u.c = [[s.c EXCEPT !.uploadPath = path] EXCEPT !.uploadFd = s.c.number]
        BY <3>11, <3>12, Zenon
      <4>2. u.c = [[s.c EXCEPT !.uploadFd = s.c.number] EXCEPT !.uploadPath = path]
        BY <4>1, Commutes, Zenon
      <4> QED BY <3>8, <4>2, Zenon
    <3>6. Outcome(v) /\ Pathed(v, u)
      <4>1. PICK x : x = [v EXCEPT !.c.uploadPath = path]
        OBVIOUS
      <4>2. Pathed(v, x)
        BY <3>8, <3>10, <4>1 DEF Pathed
      <4>3. PICK d : d = [k \in DOMAIN s.disk \cup {s.c.number} |->
                            IF k = s.c.number THEN << >> ELSE s.disk[k]]
        OBVIOUS
      <4>4. v = [c |-> v.c, disk |-> d, opened |-> s.opened \cup {s.c.number}, history |-> s.history,
                 done |-> s.done, script |-> s.script]
        BY <3>9, <4>3 DEF Opened
      <4>5. x = [c |-> u.c, disk |-> d, opened |-> s.opened \cup {s.c.number}, history |-> s.history,
                 done |-> s.done, script |-> s.script]
        <5>1. x = [v EXCEPT !.c = u.c]
          BY <3>13, <4>1, Zenon
        <5>2. MadeOf(v, v.c, d, s.opened \cup {s.c.number}, s.history, s.done, s.script)
          BY <4>4, Zenon DEF MadeOf
        <5>3. MadeOf(x, u.c, d, s.opened \cup {s.c.number}, s.history, s.done, s.script)
          BY <5>1, <5>2, ClientSet, Zenon
        <5> QED BY <5>3, Zenon DEF MadeOf
      <4>6. u = [c |-> u.c, disk |-> d, opened |-> s.opened \cup {s.c.number}, history |-> s.history,
                 done |-> s.done, script |-> s.script]
        BY <1>4, <3>9, <3>11, <4>3 DEF Opened, Repathed
      <4> QED BY <3>9, <4>2, <4>5, <4>6 DEF Opened
    <3>7. Waits(u, rest)
      <4>1. /\ u.c.leftover = s.c.leftover /\ u.c.expected = s.c.expected
            /\ u.c.state = s.c.state /\ u.c.isChunked = s.c.isChunked
            /\ u.c.chunked = s.c.chunked /\ u.c.multipart = s.c.multipart
            /\ u.c.uploadPath = t.c.uploadPath /\ u.c.uploadFd = s.c.number
            /\ u.c.uploadedBytes = s.c.uploadedBytes
        BY <1>1, <3>11, <3>12 DEF ClientForm
      <4>2. /\ Core(u) /\ Unmixed(u) /\ Placed(u, s.c.leftover \o rest)
            /\ Continued(u, s.c.leftover \o rest) /\ Near(t, u)
            /\ u.history = t.history /\ t.c.number \in DOMAIN u.disk
        BY <3>2, <3>4 DEF Opens
      <4>3. Near(s, u) /\ u.history = s.history
        BY <1>4, <4>2 DEF Near, Repathed, Uploads
      <4>5. Unspoiled(s.history) => Stored(u.disk, s.c.number) = Stored(s.disk, s.c.number)
        BY <1>4, <3>4 DEF Opens, Repathed
      <4>4. u.c.uploadFd # NoFile
        BY <4>1 DEF NoFile, Body, Core, Base
      <4> QED BY <1>4, <1>5, <3>11, <4>1, <4>2, <4>3, <4>4, <4>5 DEF Repathed
    <3> QED BY <1>1, <2>3, <3>5, <3>6, <3>7, <3>8, WrittenIs
  <2> QED BY <2>1, <2>2, <2>3
<1> QED BY <1>6, <1>7

-----------------------------------------------------------------------------
(* The body parsers                                                         *)

\* A sequence and where it is cut.
CutUp(l, a, b) == a \in Seq(Item) /\ b \in Seq(Item) /\ a \o b = l

\* What a parser takes of the bytes it is given: as many as its body still has.
LEMMA TakenIs ==
  ASSUME NEW l \in Seq(Item), NEW room \in Int
  PROVE  \E b : /\ CutUp(l, SubSeq(l, 1, MinOf(Len(l), room)), b)
                /\ Len(l) <= room => b = << >>
<1>1. PICK m \in Nat : m = Len(l)
  BY LenProperties
<1>2. PICK n \in 0 .. m : n = IF room < 0 THEN 0 ELSE MinOf(m, room)
  BY <1>1 DEF MinOf
<1>3. SubSeq(l, 1, MinOf(m, room)) = SubSeq(l, 1, n)
  <2>1. CASE room < 0
    <3>1. n = 0 /\ MinOf(m, room) < 1
      BY <1>1, <1>2, <2>1 DEF MinOf
    <3>2. SubSeq(l, 1, MinOf(m, room)) = << >> /\ SubSeq(l, 1, 0) = << >>
      <4>1. MinOf(m, room) \in Int /\ MinOf(m, room) < 1
        BY <3>1 DEF MinOf
      <4> QED BY <4>1, SubSeqEmpty
    <3> QED BY <3>1, <3>2
  <2>2. CASE ~(room < 0)
    BY <1>2, <2>2
  <2> QED BY <2>1, <2>2
<1>4. PICK b : b = SubSeq(l, n + 1, m)
  OBVIOUS
<1>5. CutUp(l, SubSeq(l, 1, n), b)
  BY <1>1, <1>4, Split DEF CutUp
<1>6. ASSUME m <= room PROVE b = << >>
  <2>1. n = m
    BY <1>1, <1>2, <1>6 DEF MinOf
  <2> QED BY <1>1, <1>4, <2>1
<1> QED BY <1>1, <1>3, <1>5, <1>6

\* What a parser answers, and what it is afterwards.
LEMMA VerdictIs ==
  ASSUME NEW r \in SomeRequest, NEW p \in ParserForm
  PROVE  LET v == Verdict(r, p)
         IN /\ v \in {"ERROR", "MAXERROR", "COMPLETE", "NEED_MORE"}
            /\ v = "NEED_MORE" => Feeds(p) /\ p.fed < r.size
            /\ v = "COMPLETE" /\ Feeds(p) => r.size <= p.fed /\ p.fed <= p.limit
            /\ \A w \in {"ERROR", "MAXERROR", "COMPLETE", "NEED_MORE"} :
                 /\ Settled(p, w) \in ParserForm
                 /\ Settled(p, w).fed = p.fed /\ Settled(p, w).limit = p.limit
                 /\ Feeding(Settled(p, w)) <=> p.active /\ w = "NEED_MORE"
<1>1. p.fed \in Nat /\ p.limit \in Nat /\ r.size \in Nat /\ p.state \in {"feeding", "done", "failed"}
  BY RequestIs DEF ParserForm
<1>2. ASSUME NEW w \in {"ERROR", "MAXERROR", "COMPLETE", "NEED_MORE"}
      PROVE  /\ Settled(p, w) \in ParserForm
             /\ Settled(p, w).fed = p.fed /\ Settled(p, w).limit = p.limit
             /\ Feeding(Settled(p, w)) <=> p.active /\ w = "NEED_MORE"
  <2>1. CASE w = "NEED_MORE"
    BY <2>1 DEF Settled, ParserForm, Feeding, Feeds
  <2>2. CASE w = "COMPLETE"
    BY <2>2 DEF Settled, ParserForm, Feeding, Feeds
  <2>3. CASE w \in {"ERROR", "MAXERROR"}
    BY <2>3 DEF Settled, ParserForm, Feeding, Feeds
  <2> QED BY <2>1, <2>2, <2>3
<1>3. Verdict(r, p) \in {"ERROR", "MAXERROR", "COMPLETE", "NEED_MORE"}
  BY DEF Verdict
<1>4. Verdict(r, p) = "NEED_MORE" => Feeds(p) /\ p.fed < r.size
  BY <1>1 DEF Verdict, Feeds
<1>5. Verdict(r, p) = "COMPLETE" /\ Feeds(p) => r.size <= p.fed /\ p.fed <= p.limit
  BY <1>1 DEF Verdict, Feeds
<1> QED BY <1>2, <1>3, <1>4, <1>5

\* What follows the answer.
LEMMA ConcludedIs ==
  ASSUME NEW s, NEW v \in {"ERROR", "MAXERROR", "COMPLETE", "NEED_MORE"}, NEW o \in Concluded(s, v)
  PROVE  \/ v = "NEED_MORE" /\ o = s
         \/ v = "COMPLETE" /\ o \in handlerReturn(s)
         \/ v # "NEED_MORE" /\ (o \in Refuse(s, 400) \/ o \in Refuse(s, 413))
BY DEF Concluded

\* The file of the request with some more bytes, a.
More(s, t, a) ==
  /\ Near(s, t) /\ t.history = s.history
  /\ DOMAIN t.disk \subseteq DOMAIN s.disk \cup {s.c.number}
  /\ Stores(t.c, DOMAIN t.disk)
  /\ Unspoiled(s.history) =>
       /\ t.opened = {t.c.uploadFd} \ {NoFile} /\ Holds(t.c)
       /\ \A k \in DOMAIN t.disk : k # s.c.number => t.disk[k] = s.disk[k]
       /\ s.c.number \in DOMAIN t.disk /\ t.disk[s.c.number] = Stored(s.disk, s.c.number) \o a
\* The bytes taken go to the file and the others are to come.
LEMMA MoreIs ==
  ASSUME NEW rest \in Seq(Item), NEW l, NEW a, NEW b, CutUp(l, a, b), NEW s, NEW t,
         Core(s), Unmixed(s), Placed(s, l \o rest), Continued(s, l \o rest),
         s.c.request.target.store, More(s, t, a)
  PROVE  /\ Core(t) /\ Unmixed(t) /\ Placed(t, rest)
         /\ b = << >> => Continued(t, rest)
<1>1. a \in Seq(Item) /\ b \in Seq(Item) /\ l \in Seq(Item) /\ s.c.number \in Nat
  <2>1. a \in Seq(Item) /\ b \in Seq(Item) /\ a \o b \in Seq(Item)
    BY ConcatProperties DEF CutUp
  <2> QED BY <2>1 DEF CutUp, Core, Base, Outcome, ClientForm
<1>2. l \o rest \in Seq(Item) /\ b \o rest \in Seq(Item)
  BY <1>1, ConcatProperties
<1>3. PICK f : f = Stored(s.disk, s.c.number)
  OBVIOUS
<1>4. f \in Seq(Item)
  <2>1. << >> \in Seq(Item) /\ Files(s.disk)
    BY DEF Core, Base, Outcome
  <2> QED BY <1>3, <2>1 DEF Stored, Files
<1>5. Unspoiled(s.history) /\ Quiet(s.history) =>
        /\ Numbered(s.c.number, f \o a)
        /\ Spells(s.c.number, (f \o a) \o (b \o rest), s.c.request.size)
  <2> SUFFICES ASSUME Unspoiled(s.history), Quiet(s.history)
               PROVE  /\ Numbered(s.c.number, f \o a)
                      /\ Spells(s.c.number, (f \o a) \o (b \o rest), s.c.request.size)
    OBVIOUS
  <2>1. Spells(s.c.number, f \o (l \o rest), s.c.request.size)
    BY <1>3 DEF Continued
  <2>2. Spells(s.c.number, f \o ((a \o b) \o rest), s.c.request.size)
    BY <2>1, Zenon DEF CutUp
  <2> QED BY <1>1, <1>4, <2>2, Moved
<1>6. Core(t) /\ Unmixed(t) /\ \A w : Placed(s, w) => Placed(t, w)
  <2>1. Unspoiled(t.history) =>
           /\ t.opened = {t.c.uploadFd} \ {NoFile} /\ Holds(t.c)
           /\ \A k \in DOMAIN t.disk : k # s.c.number => t.disk[k] = s.disk[k]
    BY DEF More
  <2>2. Unspoiled(t.history) /\ Quiet(t.history) /\ s.c.number \in DOMAIN t.disk =>
           Numbered(s.c.number, t.disk[s.c.number])
    BY <1>3, <1>5 DEF More
  <2>3. /\ Near(s, t) /\ Stores(t.c, DOMAIN t.disk)
        /\ DOMAIN t.disk \subseteq DOMAIN s.disk \cup {s.c.number}
    BY DEF More
  <2> QED BY <2>1, <2>2, <2>3, NearIs, Zenon
<1>7. Placed(t, rest)
  <2>1. Placed(s, rest)
    BY <1>1, Later DEF Placed
  <2> QED BY <1>6, <2>1
<1>8. ASSUME b = << >> PROVE Continued(t, rest)
  <2>1. b \o rest = rest
    BY <1>8, ConcatEmptySeq
  <2>2. Unspoiled(s.history) /\ Quiet(s.history) =>
          Spells(s.c.number, (f \o a) \o rest, s.c.request.size)
    BY <1>5, <2>1
  <2>3. PICK g : g = f \o a
    OBVIOUS
  <2>4. t.history = s.history /\ t.c.number = s.c.number /\ t.c.request = s.c.request
    BY DEF More, Near
  <2>5. Unspoiled(s.history) => Stored(t.disk, s.c.number) = g
    BY <1>3, <2>3 DEF More, Stored
  <2> QED BY <2>2, <2>3, <2>4, <2>5 DEF Continued
<1> QED BY <1>6, <1>7, <1>8

\* With the bytes of l fed bytes are counted; b is left of them only if the body is full.
Fills(s, l, b, fed) ==
  /\ fed = Len(Stored(s.disk, s.c.number)) + Len(l)
  /\ fed <= s.c.request.size => b = << >>
Filled(s, t, b, fed) ==
  /\ b = << >> /\ fed <= s.c.request.size
  /\ s.c.number \in DOMAIN t.disk /\ fed = Len(Stored(t.disk, s.c.number))
\* Of the first upload all bytes are taken, so as many are stored as were counted.
LEMMA GrownIs ==
  ASSUME NEW rest \in Seq(Item), NEW l, NEW a, NEW b, CutUp(l, a, b), NEW s, NEW t,
         Core(s), Continued(s, l \o rest), s.c.request.target.store, More(s, t, a), First(s),
         NEW fed, Fills(s, l, b, fed)
  PROVE  Filled(s, t, b, fed)
<1>9. /\ fed = Len(Stored(s.disk, s.c.number)) + Len(l)
      /\ fed <= s.c.request.size => b = << >>
  BY DEF Fills
<1>1. Unspoiled(s.history) /\ Quiet(s.history)
  BY DEF Core, Begun, First, Pristine, Unspoiled, Quiet
<1>2. PICK f : f = Stored(s.disk, s.c.number)
  OBVIOUS
<1>3. f \in Seq(Item) /\ Len(f) \in Nat
  BY <1>2, StoredIs DEF Core, Base, Outcome
<1>4. a \in Seq(Item) /\ b \in Seq(Item) /\ a \o b = l /\ l \in Seq(Item)
  <2>1. a \in Seq(Item) /\ b \in Seq(Item) /\ a \o b = l
    BY DEF CutUp
  <2> QED BY <2>1, ConcatProperties
<1>5. fed <= s.c.request.size /\ b = << >>
  <2>1. Len(f) + Len(l) <= s.c.request.size
    BY <1>1, <1>2, <1>4, RoomIs
  <2> QED BY <1>2, <1>9, <2>1
<1>6. a = l
  BY <1>4, <1>5, ConcatEmptySeq
<1>7. s.c.number \in DOMAIN t.disk /\ Stored(t.disk, s.c.number) = f \o l
  BY <1>1, <1>2, <1>6 DEF More, Stored
<1>8. Len(f \o l) = Len(f) + Len(l)
  BY <1>3, <1>4, ConcatProperties
<1> QED BY <1>2, <1>5, <1>7, <1>8, <1>9 DEF Filled

\* What feed() changes of the client besides the parser.
Reparsed(s, t) ==
  /\ t.c.number = s.c.number /\ t.c.request = s.c.request /\ t.c.res = s.c.res
  /\ t.c.uploadFd = s.c.uploadFd /\ t.c.uploadPath = s.c.uploadPath
  /\ t.c.expected = s.c.expected /\ t.c.state = s.c.state /\ t.c.isChunked = s.c.isChunked
  /\ t.c.leftover = << >>
  /\ Outcome(t) /\ t.opened = s.opened /\ t.history = s.history
  /\ t.done = s.done /\ t.script = s.script

\* feed() of the chunked parser, which is `parser` afterwards.
ChunkedFed(s, t, parser) ==
  t = [(IF Feeds(s.c.chunked) THEN Store(s, s.c.uploadFd, Taken(s, s.c.chunked)) ELSE s) EXCEPT
         !.c.chunked = parser, !.c.leftover = << >>]
\* Only the file grows, and by what was taken.
LEMMA ChunkedFedIs ==
  ASSUME NEW s, NEW t, NEW parser \in ParserForm, Outcome(s), ChunkedFed(s, t, parser)
  PROVE  /\ Reparsed(s, t) /\ t.c.chunked = parser /\ t.c.multipart = s.c.multipart
         /\ t.c.uploadedFiles = s.c.uploadedFiles
         /\ Feeds(s.c.chunked) => t.disk = [s.disk EXCEPT ![s.c.uploadFd] = @ \o Taken(s, s.c.chunked)]
         /\ ~Feeds(s.c.chunked) => t.disk = s.disk
<1>1. /\ s = [c |-> s.c, disk |-> s.disk, opened |-> s.opened, history |-> s.history,
              done |-> s.done, script |-> s.script]
      /\ s.c \in ClientForm /\ Files(s.disk) /\ s.opened \subseteq Nat /\ s.history \subseteq Events
      /\ s.done \in BOOLEAN /\ s.script \in BOOLEAN
  BY DEF Outcome
<1>2. PICK a : a = Taken(s, s.c.chunked)
  OBVIOUS
<1>3. a \in Seq(Item)
  <2>1. s.c.leftover \in Seq(Item) /\ s.c.request.size - s.c.chunked.fed \in Int
    <3>1. s.c.request.size \in Nat /\ s.c.chunked.fed \in Nat
      BY <1>1, RequestIs DEF ClientForm, ParserForm
    <3> QED BY <1>1, <3>1 DEF ClientForm
  <2> QED BY <1>2, <2>1, TakenIs DEF CutUp, Taken
<1>4. PICK d : d = IF Feeds(s.c.chunked) THEN [s.disk EXCEPT ![s.c.uploadFd] = @ \o a] ELSE s.disk
  OBVIOUS
<1>5. Files(d)
  BY <1>1, <1>3, <1>4, StoreIs
<1>6. t = [s EXCEPT !.disk = d, !.c.chunked = parser, !.c.leftover = << >>]
  <2>1. CASE Feeds(s.c.chunked)
    <3>1. PICK e : e = [s EXCEPT !.disk = d]
      OBVIOUS
    <3>2. Store(s, s.c.uploadFd, a) = e
      BY <1>4, <2>1, <3>1 DEF Store
    <3>3. t = [e EXCEPT !.c.chunked = parser, !.c.leftover = << >>]
      BY <1>2, <2>1, <3>2 DEF ChunkedFed
    <3> QED BY <1>1, <3>1, <3>3
  <2>2. CASE ~Feeds(s.c.chunked)
    <3>1. t = [s EXCEPT !.c.chunked = parser, !.c.leftover = << >>] /\ d = s.disk
      BY <1>4, <2>2 DEF ChunkedFed
    <3> QED BY <1>1, <3>1
  <2> QED BY <2>1, <2>2
<1>7. /\ t = [c |-> t.c, disk |-> d, opened |-> s.opened, history |-> s.history,
              done |-> s.done, script |-> s.script]
      /\ t.c = [s.c EXCEPT !.chunked = parser, !.leftover = << >>]
  BY <1>1, <1>6
<1>8. /\ t.disk = d /\ t.opened = s.opened /\ t.history = s.history
      /\ t.done = s.done /\ t.script = s.script
  BY <1>7
<1>9. t.c \in ClientForm
  <2>1. << >> \in Seq(Item)
    OBVIOUS
  <2> QED BY <1>1, <1>7, <2>1 DEF ClientForm
<1>10. Outcome(t)
  BY <1>1, <1>5, <1>7, <1>8, <1>9 DEF Outcome
<1>11. /\ t.c.number = s.c.number /\ t.c.request = s.c.request /\ t.c.res = s.c.res
       /\ t.c.uploadFd = s.c.uploadFd /\ t.c.uploadPath = s.c.uploadPath
       /\ t.c.expected = s.c.expected /\ t.c.state = s.c.state /\ t.c.isChunked = s.c.isChunked
       /\ t.c.leftover = << >> /\ t.c.chunked = parser /\ t.c.multipart = s.c.multipart
       /\ t.c.uploadedFiles = s.c.uploadedFiles
  BY <1>1, <1>7 DEF ClientForm
<1> QED BY <1>2, <1>4, <1>8, <1>10, <1>11 DEF Reparsed

\* What the chunked parser is fed with.
ChunkedReady(s, rest) ==
  LET r == s.c.request
      w == s.c.leftover \o rest
  IN /\ Core(s) /\ Unmixed(s) /\ Placed(s, w) /\ Continued(s, w)
     /\ ~s.done /\ InBody(s.c)
     /\ r.method = "POST" /\ r.target.store /\ s.c.isChunked /\ r.te = "chunked"
     /\ r.length # None => s.c.expected = r.length
     /\ s.c.chunked.active /\ ~Feeding(s.c.multipart)
     /\ Unspoiled(s.history) /\ Feeding(s.c.chunked) =>
          s.c.uploadFd # NoFile /\ s.c.number \in DOMAIN s.disk
     /\ FramingError(r) = 0
     /\ First(s) => Feeds(s.c.chunked) /\ s.c.chunked.fed = Len(Stored(s.disk, s.c.number))
\* After a verdict the request is answered; without one the body goes on.
LEMMA ChunkedAfterIs ==
  ASSUME NEW rest \in Seq(Item), NEW s, ChunkedReady(s, rest),
         NEW p, p = [s.c.chunked EXCEPT !.fed = @ + Len(s.c.leftover)],
         NEW w \in {"ERROR", "MAXERROR", "COMPLETE", "NEED_MORE"},
         NEW t, ChunkedFed(s, t, Settled(p, w))
  PROVE  /\ w # "NEED_MORE" => Settles(t, rest)
         /\ w = "NEED_MORE" /\ Feeds(p) /\ p.fed < s.c.request.size => Waits(t, rest)
         /\ w = "COMPLETE" /\ (Feeds(p) => s.c.request.size <= p.fed) => Whole(t)
<1>1. /\ Core(s) /\ Unmixed(s) /\ Outcome(s) /\ s.c \in ClientForm /\ s.c.leftover \in Seq(Item)
      /\ s.c.request \in SomeRequest /\ s.c.chunked \in ParserForm
      /\ Placed(s, s.c.leftover \o rest) /\ Continued(s, s.c.leftover \o rest)
      /\ s.c.request.target.store /\ s.c.number # NoFile /\ Files(s.disk)
  <2>1. /\ Core(s) /\ Unmixed(s) /\ s.c.request.target.store
        /\ Placed(s, s.c.leftover \o rest) /\ Continued(s, s.c.leftover \o rest)
    BY DEF ChunkedReady
  <2>2. Outcome(s) /\ s.c.number # NoFile
    BY <2>1 DEF Core, Base, NoFile
  <2>3. s.c \in ClientForm /\ Files(s.disk)
    BY <2>2 DEF Outcome
  <2>4. s.c.leftover \in Seq(Item) /\ s.c.request \in SomeRequest /\ s.c.chunked \in ParserForm
    BY <2>3 DEF ClientForm
  <2> QED BY <2>1, <2>2, <2>3, <2>4
<1>2. /\ p \in ParserForm /\ p.active /\ (Feeds(p) <=> Feeds(s.c.chunked))
      /\ p.fed = s.c.chunked.fed + Len(s.c.leftover) /\ Len(s.c.leftover) \in Nat
  <2>1. Len(s.c.leftover) \in Nat /\ s.c.chunked.active
    BY <1>1, LenProperties DEF ChunkedReady
  <2> QED BY <1>1, <2>1, SMTT(30) DEF ParserForm, Feeds
<1>3. /\ Settled(p, w) \in ParserForm /\ (Feeding(Settled(p, w)) <=> w = "NEED_MORE")
      /\ Settled(p, w).fed = p.fed
  BY <1>1, <1>2, VerdictIs
<1>4. /\ Reparsed(s, t) /\ t.c.chunked = Settled(p, w) /\ t.c.multipart = s.c.multipart
      /\ t.c.uploadedFiles = s.c.uploadedFiles
      /\ Feeds(s.c.chunked) => t.disk = [s.disk EXCEPT ![s.c.uploadFd] = @ \o Taken(s, s.c.chunked)]
      /\ ~Feeds(s.c.chunked) => t.disk = s.disk
  BY <1>1, <1>3, ChunkedFedIs
<1>5. Near(s, t)
  BY <1>4 DEF Reparsed, Near, ChunkedReady, Uploads
<1>8. First(t) => First(s)
  BY <1>5 DEF Near, First, Pristine
<1>6. CASE Feeds(p)
  <2>1. PICK a : a = Taken(s, s.c.chunked)
    OBVIOUS
  <2>2. PICK b : CutUp(s.c.leftover, a, b) /\ (p.fed <= s.c.request.size => b = << >>)
    <3>1. s.c.request.size \in Nat /\ s.c.chunked.fed \in Nat
      BY <1>1, RequestIs DEF ParserForm
    <3>2. PICK room \in Int : room = s.c.request.size - s.c.chunked.fed
      BY <3>1
    <3>3. \E b : /\ CutUp(s.c.leftover, SubSeq(s.c.leftover, 1, MinOf(Len(s.c.leftover), room)), b)
                 /\ Len(s.c.leftover) <= room => b = << >>
      BY <1>1, TakenIs
    <3>4. a = SubSeq(s.c.leftover, 1, MinOf(Len(s.c.leftover), room))
      BY <2>1, <3>2 DEF Taken
    <3>5. p.fed <= s.c.request.size => Len(s.c.leftover) <= room
      BY <1>2, <3>1, <3>2, SMTT(30)
    <3> QED BY <3>3, <3>4, <3>5
  <2>3. a \in Seq(Item)
    BY <2>2 DEF CutUp
  <2>4. /\ Files(t.disk) /\ DOMAIN t.disk = DOMAIN s.disk
        /\ \A k \in DOMAIN s.disk : k # s.c.uploadFd => t.disk[k] = s.disk[k]
        /\ s.c.uploadFd \in DOMAIN s.disk => t.disk[s.c.uploadFd] = s.disk[s.c.uploadFd] \o a
    <3>1. t.disk = [s.disk EXCEPT ![s.c.uploadFd] = @ \o a]
      BY <1>2, <1>4, <1>6, <2>1
    <3>2. PICK d : d = [s.disk EXCEPT ![s.c.uploadFd] = @ \o a]
      OBVIOUS
    <3>3. /\ Files(d) /\ DOMAIN d = DOMAIN s.disk
          /\ \A k \in DOMAIN s.disk : k # s.c.uploadFd => d[k] = s.disk[k]
          /\ s.c.uploadFd \in DOMAIN s.disk => d[s.c.uploadFd] = s.disk[s.c.uploadFd] \o a
      BY <1>1, <2>3, <3>2, StoreIs
    <3> QED BY <3>1, <3>2, <3>3
  <2>5. Unspoiled(s.history) => s.c.uploadFd = s.c.number /\ s.c.number \in DOMAIN s.disk
    BY <1>2, <1>6 DEF ChunkedReady, Core, Holds, Feeding
  <2>6. More(s, t, a)
    <3>1. Stores(t.c, DOMAIN t.disk)
      BY <1>1, <1>4, <2>4 DEF Core, Stores, Reparsed
    <3>2. Unspoiled(s.history) => t.opened = {t.c.uploadFd} \ {NoFile} /\ Holds(t.c)
      BY <1>1, <1>4 DEF Core, Base, Holds, Reparsed
    <3>3. Unspoiled(s.history) =>
            /\ \A k \in DOMAIN t.disk : k # s.c.number => t.disk[k] = s.disk[k]
            /\ s.c.number \in DOMAIN t.disk
            /\ t.disk[s.c.number] = Stored(s.disk, s.c.number) \o a
      BY <2>4, <2>5 DEF Stored
    <3>4. t.history = s.history /\ DOMAIN t.disk \subseteq DOMAIN s.disk \cup {s.c.number}
      BY <1>4, <2>4 DEF Reparsed
    <3> QED BY <1>5, <3>1, <3>2, <3>3, <3>4 DEF More
  <2>7. Core(t) /\ Unmixed(t) /\ Placed(t, rest) /\ (b = << >> => Continued(t, rest))
    BY <1>1, <2>2, <2>6, MoreIs
  <2>8. w # "NEED_MORE" => Settles(t, rest)
    BY <1>3, <1>4, <2>7 DEF Settles, ChunkedReady
  <2>10. ASSUME First(t)
         PROVE  /\ b = << >> /\ p.fed <= s.c.request.size
                /\ s.c.number \in DOMAIN t.disk /\ p.fed = Len(Stored(t.disk, s.c.number))
    <3>1. PICK fed : fed = p.fed
      OBVIOUS
    <3>2. First(s) /\ fed = Len(Stored(s.disk, s.c.number)) + Len(s.c.leftover)
      BY <1>2, <1>8, <2>10, <3>1 DEF ChunkedReady
    <3>3. fed <= s.c.request.size => b = << >>
      BY <2>2, <3>1
    <3>4. CutUp(s.c.leftover, a, b)
      BY <2>2
    <3>6. Fills(s, s.c.leftover, b, fed)
      BY <3>2, <3>3 DEF Fills
    <3>5. Filled(s, t, b, fed)
      BY <1>1, <2>6, <3>2, <3>4, <3>6, GrownIs, Zenon
    <3> QED BY <3>1, <3>5 DEF Filled
  <2>11. ASSUME w = "COMPLETE", s.c.request.size <= p.fed PROVE Whole(t)
    <3> SUFFICES ASSUME First(t) PROVE Whole(t)
      BY DEF Whole
    <3>1. BodyLength(s.c.request) = s.c.request.size /\ s.c.request.size \in Nat
      BY <1>1, LengthIs, RequestIs DEF ChunkedReady
    <3>2. Continued(t, rest)
      BY <2>7, <2>10
    <3>3. /\ t.c.number \in DOMAIN t.disk
          /\ BodyLength(t.c.request) = Len(Stored(t.disk, t.c.number))
      BY <1>2, <1>4, <2>10, <2>11, <3>1 DEF Reparsed, ParserForm
    <3> QED BY <2>7, <3>2, <3>3, WholeIs
  <2>9. ASSUME w = "NEED_MORE", p.fed < s.c.request.size PROVE Waits(t, rest)
    <3>1. t.c.leftover \o rest = rest
      BY <1>4, ConcatEmptySeq DEF Reparsed
    <3>2. Continued(t, rest)
      <4>1. s.c.request.size \in Nat /\ p.fed \in Nat
        BY <1>1, <1>2, RequestIs DEF ParserForm
      <4> QED BY <2>2, <2>7, <2>9, <4>1
    <3>3. ~t.done /\ InBody(t.c)
      BY <1>4 DEF Reparsed, ChunkedReady, InBody
    <3>4. Reads(t.c)
      BY <1>3, <1>4, <2>9 DEF Reparsed, ChunkedReady, Reads
    <3>5. Unspoiled(t.history) => Owns(t.c, DOMAIN t.disk)
      BY <1>1, <1>4, <2>4, <2>5, <2>7 DEF Reparsed, ChunkedReady, Core, Holds, Owns, IsNamed
    <3>6. ASSUME First(t) PROVE Counts(t.c, Len(Stored(t.disk, t.c.number)))
      <4>1. t.c.res.status # 201
        BY <2>7, <3>6 DEF Core, Begun
      <4>2. t.c.isChunked /\ t.c.chunked.fed = p.fed /\ t.c.number = s.c.number
        BY <1>3, <1>4 DEF Reparsed, ChunkedReady
      <4> QED BY <2>10, <3>6, <4>1, <4>2 DEF Counts
    <3> QED BY <2>7, <3>1, <3>2, <3>3, <3>4, <3>5, <3>6 DEF Waits, Tallies
  <2> QED BY <1>6, <2>8, <2>9, <2>11
<1>7. CASE ~Feeds(p)
  <2>1. Alike(s, t)
    BY <1>2, <1>4, <1>5, <1>7 DEF Alike, Reparsed
  <2>2. Placed(s, rest)
    BY <1>1, Later DEF Placed
  <2>3. Core(t) /\ Unmixed(t) /\ Placed(t, rest)
    BY <1>1, <2>1, <2>2, AlikeIs
  <2>4. w # "NEED_MORE" => Settles(t, rest)
    BY <1>3, <1>4, <2>3 DEF Settles, ChunkedReady
  <2>5. Whole(t)
    BY <1>2, <1>7, <1>8 DEF Whole, ChunkedReady
  <2> QED BY <1>7, <2>4, <2>5
<1> QED BY <1>6, <1>7

\* What handlerReturn() and Waits make of a fed parser.
LEMMA FedConcludes ==
  ASSUME NEW rest, NEW s, NEW v \in {"ERROR", "MAXERROR", "COMPLETE", "NEED_MORE"},
         s.c.request.target.store, v # "NEED_MORE" => Settles(s, rest),
         v = "COMPLETE" => Whole(s), v = "NEED_MORE" => Waits(s, rest), NEW o \in Concluded(s, v)
  PROVE  Results(o, rest)
<1>1. CASE v = "NEED_MORE" /\ o = s
  BY <1>1 DEF Results
<1>2. CASE v # "NEED_MORE"
  <2>1. Settles(s, rest) /\ (v = "COMPLETE" => Fed(s))
    BY <1>2 DEF Fed
  <2>2. 400 \in StatusEntries /\ 413 \in StatusEntries
    BY DEF StatusEntries
  <2>3. (v = "COMPLETE" /\ o \in handlerReturn(s)) \/ o \in Refuse(s, 400) \/ o \in Refuse(s, 413)
    BY <1>2, ConcludedIs
  <2> QED BY <2>1, <2>2, <2>3, ReturnIs, RefuseIs DEF Results
<1> QED BY <1>1, <1>2, ConcludedIs

\* A chunked body, whatever feed() answers.
LEMMA ChunkedIs ==
  ASSUME NEW rest \in Seq(Item), NEW s, ChunkedReady(s, rest), NEW o \in Chunked(s)
  PROVE  Results(o, rest)
<1>1. PICK p : p = [s.c.chunked EXCEPT !.fed = @ + Len(s.c.leftover)]
  OBVIOUS
<1>2. PICK v : v = Verdict(s.c.request, p)
  OBVIOUS
<1>3. /\ s.c.request \in SomeRequest /\ p \in ParserForm /\ (Feeds(p) <=> Feeds(s.c.chunked))
      /\ s.c.request.target.store /\ Outcome(s)
  <2>1. s.c \in ClientForm /\ Outcome(s)
    BY DEF ChunkedReady, Core, Base, Outcome
  <2>2. Len(s.c.leftover) \in Nat /\ s.c.chunked \in ParserForm /\ s.c.request \in SomeRequest
    BY <2>1, LenProperties DEF ClientForm
  <2> QED BY <1>1, <2>1, <2>2 DEF ParserForm, Feeds, ChunkedReady
<1>4. /\ v \in {"ERROR", "MAXERROR", "COMPLETE", "NEED_MORE"}
      /\ v = "NEED_MORE" => Feeds(p) /\ p.fed < s.c.request.size
      /\ v = "COMPLETE" /\ Feeds(p) => s.c.request.size <= p.fed
  BY <1>2, <1>3, VerdictIs
<1>5. PICK t : ChunkedFed(s, t, Settled(p, v))
  BY DEF ChunkedFed
<1>6. PICK u : ChunkedFed(s, u, Settled(p, "ERROR"))
  BY DEF ChunkedFed
<1>7. o \in Concluded(t, v) \/ o \in Refuse(DiskFailed(u), 400)
  BY <1>1, <1>2, <1>3, <1>5, <1>6 DEF Chunked, ChunkedFed
<1>8. t.c.request = s.c.request /\ u.c.request = s.c.request
  <2>1. Settled(p, v) \in ParserForm /\ Settled(p, "ERROR") \in ParserForm
    BY <1>3, <1>4, VerdictIs
  <2>2. Reparsed(s, t)
    BY <1>3, <1>5, <2>1, ChunkedFedIs
  <2>3. Reparsed(s, u)
    BY <1>3, <1>6, <2>1, ChunkedFedIs
  <2> QED BY <2>2, <2>3 DEF Reparsed
<1>9. CASE o \in Concluded(t, v)
  <2>1. /\ v # "NEED_MORE" => Settles(t, rest)
        /\ v = "NEED_MORE" => Waits(t, rest)
        /\ v = "COMPLETE" => Whole(t)
    BY <1>1, <1>4, <1>5, ChunkedAfterIs
  <2> QED BY <1>3, <1>4, <1>8, <1>9, <2>1, FedConcludes
<1>10. CASE o \in Refuse(DiskFailed(u), 400)
  <2>1. Settles(DiskFailed(u), rest)
    BY <1>1, <1>6, ChunkedAfterIs, DiskFailedIs
  <2> QED BY <1>10, <2>1, RefuseIs DEF Results, StatusEntries
<1> QED BY <1>7, <1>9, <1>10

\* A field of the client takes another value.
LEMMA FieldSet ==
  ASSUME NEW c \in ClientForm
  PROVE  /\ \A n \in Nat : [c EXCEPT !.uploadPath = n] \in ClientForm
         /\ \A p \in ParserForm : [c EXCEPT !.chunked = p] \in ClientForm
         /\ \A p \in ParserForm : [c EXCEPT !.multipart = p] \in ClientForm
BY DEF ClientForm

\* readBody() of a chunked body: the parser in use goes on, or a new one is made.
LEMMA ChunkedBodyIs ==
  ASSUME NEW rest \in Seq(Item), NEW s, Body(s, rest),
         s.c.request.method = "POST", s.c.request.target.store, s.c.isChunked,
         NEW o \in ChunkedBody(s)
  PROVE  Results(o, rest)
<1>1. /\ Core(s) /\ Unmixed(s) /\ Outcome(s) /\ s.c \in ClientForm
      /\ ~Feeding(s.c.multipart) /\ s.c.request.te = "chunked"
  <2>1. Outcome(s) /\ s.c \in ClientForm
    BY DEF Body, Core, Base, Outcome
  <2> QED BY <2>1 DEF Body, ClientForm
<1>2. CASE s.c.chunked.active
  <2>1. ChunkedReady(s, rest)
    BY <1>1, <1>2 DEF Body, ChunkedReady, Ready, Uploads
  <2>2. o \in Chunked(s)
    BY <1>2, Zenon DEF ChunkedBody
  <2> QED BY <2>1, <2>2, ChunkedIs
<1>3. CASE ~s.c.chunked.active
  <2>1. PICK t : t = [s EXCEPT !.c.uploadPath = s.c.number]
    OBVIOUS
  <2>2. PICK u : u = OpenUpload(t)
    OBVIOUS
  <2>3. PICK parser : parser = [NewParser EXCEPT !.active = TRUE, !.limit = MaxBodySize]
    OBVIOUS
  <2>4. PICK v : v = [u EXCEPT !.c.chunked = parser]
    OBVIOUS
  <2>5. o \in Refuse(DiskFailed(t), 500) \/ o \in Chunked(v)
    BY <1>3, <2>1, <2>2, <2>3, <2>4 DEF ChunkedBody
  <2>6. /\ t = [c |-> t.c, disk |-> s.disk, opened |-> s.opened, history |-> s.history,
                done |-> s.done, script |-> s.script]
        /\ t.c = [s.c EXCEPT !.uploadPath = s.c.number]
    BY <1>1, <2>1 DEF Outcome
  <2>7. /\ t.disk = s.disk /\ t.opened = s.opened /\ t.history = s.history
        /\ t.done = s.done /\ t.script = s.script
    BY <2>6
  <2>8. /\ t.c \in ClientForm /\ t.c.uploadPath = s.c.number
        /\ t.c.number = s.c.number /\ t.c.request = s.c.request /\ t.c.res = s.c.res
        /\ t.c.uploadFd = s.c.uploadFd /\ t.c.uploadedFiles = s.c.uploadedFiles
        /\ t.c.expected = s.c.expected /\ t.c.state = s.c.state /\ t.c.isChunked = s.c.isChunked
        /\ t.c.chunked = s.c.chunked /\ t.c.multipart = s.c.multipart
        /\ t.c.leftover = s.c.leftover
    <3>1. t.c = [s.c EXCEPT !.uploadPath = s.c.number] /\ s.c \in ClientForm
      BY <1>1, <2>6
    <3>2. s.c.number \in Nat
      BY <3>1 DEF ClientForm
    <3>3. t.c \in ClientForm
      BY <3>1, <3>2, FieldSet
    <3> QED BY <3>1, <3>3 DEF ClientForm
  <2>9. Alike(s, t)
    <3>1. Outcome(t)
      BY <1>1, <2>6, <2>7, <2>8 DEF Outcome
    <3> QED BY <2>7, <2>8, <3>1 DEF Alike, Near, Uploads
  <2>10. /\ Core(t) /\ Unmixed(t) /\ \A w : Placed(s, w) => Placed(t, w)
         /\ \A w : Continued(s, w) => Continued(t, w)
    BY <1>1, <2>9, AlikeIs
  <2>11. CASE o \in Refuse(DiskFailed(t), 500)
    <3>1. Settles(s, rest)
      BY <1>1, <1>3, BodySettles DEF Feeding
    <3>2. Settles(t, rest)
      BY <2>8, <2>10, <3>1 DEF Settles
    <3>3. Settles(DiskFailed(t), rest)
      BY <3>2, DiskFailedIs
    <3> QED BY <2>11, <3>3, RefuseIs DEF Results, StatusEntries
  <2>12. CASE o \in Chunked(v)
    <3>1. Unspoiled(t.history) =>
            /\ t.c.uploadFd = NoFile /\ t.c.number \notin DOMAIN t.disk
            /\ t.c.request.target.store /\ (t.c.request.te = "chunked" \/ ~t.c.request.multipart)
            /\ IsNamed(t.c.request) => t.c.uploadPath = t.c.number
      BY <1>1, <1>3, <2>7, <2>8 DEF Body, Feeding
    <3>16. Uploads(t.c.request)
      BY <2>8 DEF Uploads
    <3>2. Opens(t, u)
      BY <2>2, <2>10, <3>1, <3>16, OpensIs
    <3>3. /\ Near(t, u) /\ u.c = [t.c EXCEPT !.uploadFd = t.c.number]
          /\ u.script = t.script /\ u.history = t.history
          /\ u.c.uploadFd = t.c.number /\ t.c.number \in DOMAIN u.disk
          /\ Core(u) /\ Unmixed(u)
          /\ \A w : Placed(t, w) => Placed(u, w)
          /\ \A w : Continued(t, w) => Continued(u, w)
      BY <3>2 DEF Opens
    <3>4. Outcome(u) /\ u.done = t.done
      BY <3>3 DEF Near
    <3>5. /\ u.c.number = s.c.number /\ u.c.request = s.c.request /\ u.c.res = s.c.res
          /\ u.c.uploadedFiles = s.c.uploadedFiles /\ u.c.uploadPath = s.c.number
          /\ u.c.expected = s.c.expected /\ u.c.state = s.c.state /\ u.c.isChunked = s.c.isChunked
          /\ u.c.multipart = s.c.multipart /\ u.c.leftover = s.c.leftover
      BY <2>8, <3>3, ZenonT(60) DEF ClientForm
    <3>6. parser \in ParserForm /\ parser.active /\ Feeds(parser) /\ parser.fed = 0
      BY <2>3, BoundAssumption DEF NewParser, ParserForm, Feeds
    <3>7. u.c \in ClientForm
      BY <3>4 DEF Outcome
    <3>8. /\ v = [c |-> v.c, disk |-> u.disk, opened |-> u.opened, history |-> u.history,
                  done |-> u.done, script |-> u.script]
          /\ v.c = [u.c EXCEPT !.chunked = parser]
      BY <2>4, <3>4 DEF Outcome
    <3>9. /\ v.disk = u.disk /\ v.opened = u.opened /\ v.history = u.history
          /\ v.done = u.done /\ v.script = u.script
      BY <3>8
    <3>10. /\ v.c \in ClientForm /\ v.c.chunked = parser
           /\ v.c.number = u.c.number /\ v.c.request = u.c.request /\ v.c.res = u.c.res
           /\ v.c.uploadFd = u.c.uploadFd /\ v.c.uploadedFiles = u.c.uploadedFiles
           /\ v.c.uploadPath = u.c.uploadPath
           /\ v.c.expected = u.c.expected /\ v.c.state = u.c.state /\ v.c.isChunked = u.c.isChunked
           /\ v.c.multipart = u.c.multipart /\ v.c.leftover = u.c.leftover
      <4>1. v.c = [u.c EXCEPT !.chunked = parser] /\ parser \in ParserForm
        BY <3>6, <3>8
      <4>2. v.c \in ClientForm
        BY <3>7, <4>1, FieldSet
      <4> QED BY <3>7, <4>1, <4>2 DEF ClientForm
    <3>11. Alike(u, v)
      <4>1. Outcome(v)
        BY <3>4, <3>8, <3>9, <3>10 DEF Outcome
      <4> QED BY <3>5, <3>9, <3>10, <4>1 DEF Alike, Near, Uploads
    <3>12. /\ Core(v) /\ Unmixed(v) /\ \A w : Placed(u, w) => Placed(v, w)
           /\ \A w : Continued(u, w) => Continued(v, w)
      BY <3>3, <3>11, AlikeIs
    <3>13. /\ Placed(v, s.c.leftover \o rest) /\ Continued(v, s.c.leftover \o rest)
      <4>1. Placed(s, s.c.leftover \o rest) /\ Continued(s, s.c.leftover \o rest)
        BY DEF Body
      <4> QED BY <2>10, <3>3, <3>12, <4>1
    <3>14. v.c.uploadFd # NoFile /\ v.c.number \in DOMAIN v.disk
      BY <2>8, <3>3, <3>9, <3>10 DEF Core, Base, NoFile
    <3>17. First(v) => v.c.chunked.fed = Len(Stored(v.disk, v.c.number))
      <4> SUFFICES ASSUME First(v) PROVE v.c.chunked.fed = Len(Stored(v.disk, v.c.number))
        OBVIOUS
      <4>1. First(s) /\ Unspoiled(s.history)
        BY <2>7, <3>3, <3>5, <3>9, <3>10, <3>12 DEF Core, Begun, First, Pristine, Unspoiled
      <4>2. 0 = Len(Stored(s.disk, s.c.number))
        BY <1>3, <4>1 DEF Body, Ready, Uploads
      <4>3. Stored(v.disk, v.c.number) = Stored(s.disk, s.c.number)
        BY <2>7, <2>8, <3>2, <3>5, <3>9, <3>10, <4>1 DEF Opens
      <4> QED BY <3>6, <3>10, <4>2, <4>3
    <3>15. ChunkedReady(v, rest)
      BY <1>1, <2>7, <3>4, <3>5, <3>6, <3>9, <3>10, <3>12, <3>13, <3>14, <3>17
         DEF Body, ChunkedReady, InBody
    <3> QED BY <2>12, <3>15, ChunkedIs
  <2> QED BY <2>5, <2>11, <2>12
<1> QED BY <1>2, <1>3

\* feed() of the multipart parser, which is `parser` afterwards.
Parts(s) == Feeds(s.c.multipart) /\ s.c.leftover # << >>
MultipartFed(s, t, parser) ==
  t = [(IF Parts(s) THEN Part(s) ELSE s) EXCEPT !.c.multipart = parser, !.c.leftover = << >>]

\* The part that some bytes are added to.
Parted(s, t) ==
  LET n == s.c.number
  IN /\ Outcome(t) /\ t.opened = s.opened /\ t.history = s.history
     /\ t.done = s.done /\ t.script = s.script
     /\ t.c = [s.c EXCEPT !.uploadedFiles = s.c.uploadedFiles \cup {n}]
     /\ DOMAIN t.disk = DOMAIN s.disk \cup {n}
     /\ t.disk[n] = Stored(s.disk, n) \o Taken(s, s.c.multipart)
     /\ \A k \in DOMAIN s.disk : k # n => t.disk[k] = s.disk[k]
\* Part() puts the bytes taken behind those of the request's file.
LEMMA PartIs ==
  ASSUME NEW s, Outcome(s)
  PROVE  Parted(s, Part(s))
<1>1. /\ s = [c |-> s.c, disk |-> s.disk, opened |-> s.opened, history |-> s.history,
              done |-> s.done, script |-> s.script]
      /\ s.c \in ClientForm /\ Files(s.disk) /\ s.opened \subseteq Nat /\ s.history \subseteq Events
      /\ s.done \in BOOLEAN /\ s.script \in BOOLEAN
  BY DEF Outcome
<1>2. PICK a : a = Taken(s, s.c.multipart)
  OBVIOUS
<1>3. a \in Seq(Item)
  <2>1. s.c.leftover \in Seq(Item) /\ s.c.request.size - s.c.multipart.fed \in Int
    <3>1. s.c.request.size \in Nat /\ s.c.multipart.fed \in Nat
      BY <1>1, RequestIs DEF ClientForm, ParserForm
    <3> QED BY <1>1, <3>1 DEF ClientForm
  <2> QED BY <1>2, <2>1, TakenIs DEF CutUp, Taken
<1>4. PICK n : n = s.c.number
  OBVIOUS
<1>5. PICK f : f = Stored(s.disk, n) \o a
  OBVIOUS
<1>6. PICK d : d = [k \in DOMAIN s.disk \cup {n} |-> IF k = n THEN f ELSE s.disk[k]]
  OBVIOUS
<1>7. n \in Nat /\ f \in Seq(Item)
  <2>1. Stored(s.disk, n) \in Seq(Item)
    <3>1. << >> \in Seq(Item)
      OBVIOUS
    <3> QED BY <1>1, <3>1 DEF Stored, Files
  <2> QED BY <1>1, <1>3, <1>4, <1>5, <2>1, ConcatProperties DEF ClientForm
<1>8. Files(d)
  <2>1. \A k \in DOMAIN s.disk : s.disk[k] \in Seq(Item)
    BY <1>1 DEF Files
  <2> QED BY <1>1, <1>6, <1>7, <2>1 DEF Files
<1>9. PICK t : t = [s EXCEPT !.c.uploadedFiles = @ \cup {n}, !.disk = d]
  OBVIOUS
<1>10. Part(s) = t
  <2>1. (IF n \in DOMAIN s.disk THEN s.disk[n] ELSE << >>) \o a = f
    BY <1>5 DEF Stored
  <2> QED BY <1>2, <1>4, <1>6, <1>9, <2>1 DEF Part
<1>11. /\ t = [c |-> t.c, disk |-> d, opened |-> s.opened, history |-> s.history,
               done |-> s.done, script |-> s.script]
       /\ t.c = [s.c EXCEPT !.uploadedFiles = s.c.uploadedFiles \cup {n}]
  BY <1>1, <1>9
<1>12. /\ t.disk = d /\ t.opened = s.opened /\ t.history = s.history
       /\ t.done = s.done /\ t.script = s.script
  BY <1>11
<1>13. t.c \in ClientForm
  <2>1. PICK files : files = s.c.uploadedFiles \cup {n}
    OBVIOUS
  <2>2. files \in SUBSET Nat
    BY <1>1, <1>7, <2>1 DEF ClientForm
  <2>3. t.c = [s.c EXCEPT !.uploadedFiles = files]
    BY <1>11, <2>1
  <2> QED BY <1>1, <2>2, <2>3 DEF ClientForm
<1>14. Outcome(t)
  BY <1>1, <1>8, <1>11, <1>12, <1>13 DEF Outcome
<1>15. /\ DOMAIN d = DOMAIN s.disk \cup {n} /\ d[n] = f
       /\ \A k \in DOMAIN s.disk : k # n => d[k] = s.disk[k]
  BY <1>6
<1> QED BY <1>2, <1>4, <1>5, <1>10, <1>11, <1>12, <1>14, <1>15 DEF Parted

\* feed() of the multipart parser, which is `parser` afterwards.
LEMMA MultipartFedIs ==
  ASSUME NEW s, NEW t, NEW parser \in ParserForm, Outcome(s), MultipartFed(s, t, parser)
  PROVE  LET n == s.c.number
         IN /\ Reparsed(s, t) /\ t.c.multipart = parser /\ t.c.chunked = s.c.chunked
            /\ Parts(s) =>
                 /\ t.c.uploadedFiles = s.c.uploadedFiles \cup {n}
                 /\ DOMAIN t.disk = DOMAIN s.disk \cup {n}
                 /\ t.disk[n] = Stored(s.disk, n) \o Taken(s, s.c.multipart)
                 /\ \A k \in DOMAIN s.disk : k # n => t.disk[k] = s.disk[k]
            /\ ~Parts(s) => t.c.uploadedFiles = s.c.uploadedFiles /\ t.disk = s.disk
<1>1. PICK e : e = IF Parts(s) THEN Part(s) ELSE s
  OBVIOUS
<1>2. /\ Outcome(e) /\ e.opened = s.opened /\ e.history = s.history
      /\ e.done = s.done /\ e.script = s.script
      /\ e.c.number = s.c.number /\ e.c.request = s.c.request /\ e.c.res = s.c.res
      /\ e.c.uploadFd = s.c.uploadFd /\ e.c.uploadPath = s.c.uploadPath
      /\ e.c.expected = s.c.expected /\ e.c.state = s.c.state /\ e.c.isChunked = s.c.isChunked
      /\ e.c.chunked = s.c.chunked
      /\ Parts(s) => e.c.uploadedFiles = s.c.uploadedFiles \cup {s.c.number} /\ Parted(s, e)
      /\ ~Parts(s) => e.c.uploadedFiles = s.c.uploadedFiles /\ e.disk = s.disk
  <2>1. CASE Parts(s)
    <3>1. Parted(s, e)
      BY <1>1, <2>1, PartIs
    <3>2. s.c \in ClientForm /\ e.c = [s.c EXCEPT !.uploadedFiles = s.c.uploadedFiles \cup {s.c.number}]
      BY <3>1 DEF Outcome, Parted
    <3>3. /\ e.c.number = s.c.number /\ e.c.request = s.c.request /\ e.c.res = s.c.res
          /\ e.c.uploadFd = s.c.uploadFd /\ e.c.uploadPath = s.c.uploadPath
          /\ e.c.expected = s.c.expected /\ e.c.state = s.c.state /\ e.c.isChunked = s.c.isChunked
          /\ e.c.chunked = s.c.chunked
          /\ e.c.uploadedFiles = s.c.uploadedFiles \cup {s.c.number}
      BY <3>2 DEF ClientForm
    <3>4. /\ Outcome(e) /\ e.opened = s.opened /\ e.history = s.history
          /\ e.done = s.done /\ e.script = s.script
      BY <3>1 DEF Parted
    <3> QED BY <2>1, <3>1, <3>3, <3>4
  <2>2. CASE ~Parts(s)
    <3>1. e = s
      BY <1>1, <2>2
    <3> QED BY <2>2, <3>1
  <2> QED BY <2>1, <2>2
<1>3. /\ e = [c |-> e.c, disk |-> e.disk, opened |-> e.opened, history |-> e.history,
              done |-> e.done, script |-> e.script]
      /\ e.c \in ClientForm
  BY <1>2 DEF Outcome
<1>4. t = [e EXCEPT !.c.multipart = parser, !.c.leftover = << >>]
  BY <1>1, Zenon DEF MultipartFed
<1>5. /\ t = [c |-> t.c, disk |-> e.disk, opened |-> e.opened, history |-> e.history,
              done |-> e.done, script |-> e.script]
      /\ t.c = [e.c EXCEPT !.multipart = parser, !.leftover = << >>]
  BY <1>3, <1>4
<1>6. /\ t.disk = e.disk /\ t.opened = e.opened /\ t.history = e.history
      /\ t.done = e.done /\ t.script = e.script
  BY <1>5
<1>7. t.c \in ClientForm
  <2>1. << >> \in Seq(Item)
    OBVIOUS
  <2>2. t.c = [e.c EXCEPT !.multipart = parser, !.leftover = << >>]
    BY <1>5
  <2> QED BY <1>3, <2>1, <2>2 DEF ClientForm
<1>8. /\ t.c.number = e.c.number /\ t.c.request = e.c.request /\ t.c.res = e.c.res
      /\ t.c.uploadFd = e.c.uploadFd /\ t.c.uploadPath = e.c.uploadPath
      /\ t.c.expected = e.c.expected /\ t.c.state = e.c.state /\ t.c.isChunked = e.c.isChunked
      /\ t.c.leftover = << >> /\ t.c.multipart = parser /\ t.c.chunked = e.c.chunked
      /\ t.c.uploadedFiles = e.c.uploadedFiles
  <2>1. t.c = [e.c EXCEPT !.multipart = parser, !.leftover = << >>]
    BY <1>5
  <2> QED BY <1>3, <2>1 DEF ClientForm
<1>9. Outcome(t)
  BY <1>2, <1>3, <1>5, <1>6, <1>7 DEF Outcome
<1>10. Reparsed(s, t)
  BY <1>2, <1>6, <1>8, <1>9 DEF Reparsed
<1>11. ASSUME Parts(s)
       PROVE  /\ t.c.uploadedFiles = s.c.uploadedFiles \cup {s.c.number}
              /\ DOMAIN t.disk = DOMAIN s.disk \cup {s.c.number}
              /\ t.disk[s.c.number] = Stored(s.disk, s.c.number) \o Taken(s, s.c.multipart)
              /\ \A k \in DOMAIN s.disk : k # s.c.number => t.disk[k] = s.disk[k]
  BY <1>2, <1>6, <1>8, <1>11 DEF Parted
<1> QED BY <1>2, <1>6, <1>8, <1>10, <1>11

\* What the multipart parser is fed with.
MultipartReady(s, rest) ==
  LET r == s.c.request
      w == s.c.leftover \o rest
  IN /\ Core(s) /\ Unmixed(s) /\ Placed(s, w) /\ Continued(s, w)
     /\ ~s.done /\ InBody(s.c)
     /\ r.method = "POST" /\ r.target.store /\ ~s.c.isChunked /\ r.te # "chunked" /\ r.multipart
     /\ r.length # None => s.c.expected = r.length
     /\ s.c.multipart.active /\ ~Feeding(s.c.chunked)
     /\ FramingError(r) = 0
     /\ First(s) =>
          /\ Feeds(s.c.multipart) /\ s.c.multipart.fed = Len(Stored(s.disk, s.c.number))
          /\ s.c.multipart.limit = s.c.expected
\* After a verdict the request is answered; without one the body goes on.
LEMMA MultipartAfterIs ==
  ASSUME NEW rest \in Seq(Item), NEW s, MultipartReady(s, rest),
         NEW p, p = [s.c.multipart EXCEPT !.fed = @ + Len(s.c.leftover)],
         NEW w \in {"ERROR", "MAXERROR", "COMPLETE", "NEED_MORE"},
         NEW t, MultipartFed(s, t, Settled(p, w))
  PROVE  /\ w # "NEED_MORE" => Settles(t, rest)
         /\ w = "NEED_MORE" /\ Feeds(p) /\ p.fed < s.c.request.size => Waits(t, rest)
         /\ w = "COMPLETE" /\ (Feeds(p) => s.c.request.size <= p.fed /\ p.fed <= p.limit) => Whole(t)
<1>1. /\ Core(s) /\ Unmixed(s) /\ Outcome(s) /\ s.c \in ClientForm /\ s.c.leftover \in Seq(Item)
      /\ s.c.request \in SomeRequest /\ s.c.multipart \in ParserForm
      /\ Placed(s, s.c.leftover \o rest) /\ Continued(s, s.c.leftover \o rest)
      /\ s.c.request.target.store /\ s.c.number # NoFile
  <2>1. /\ Core(s) /\ Unmixed(s) /\ s.c.request.target.store
        /\ Placed(s, s.c.leftover \o rest) /\ Continued(s, s.c.leftover \o rest)
    BY DEF MultipartReady
  <2>2. Outcome(s) /\ s.c.number # NoFile
    BY <2>1 DEF Core, Base, NoFile
  <2>3. s.c \in ClientForm
    BY <2>2 DEF Outcome
  <2>4. s.c.leftover \in Seq(Item) /\ s.c.request \in SomeRequest /\ s.c.multipart \in ParserForm
    BY <2>3 DEF ClientForm
  <2> QED BY <2>1, <2>2, <2>3, <2>4
<1>2. /\ p \in ParserForm /\ p.active /\ (Feeds(p) <=> Feeds(s.c.multipart))
      /\ p.fed = s.c.multipart.fed + Len(s.c.leftover) /\ Len(s.c.leftover) \in Nat
      /\ p.limit = s.c.multipart.limit
  <2>1. Len(s.c.leftover) \in Nat /\ s.c.multipart.active
    BY <1>1, LenProperties DEF MultipartReady
  <2>2. PICK n \in Nat : n = Len(s.c.leftover)
    BY <2>1
  <2>3. p = [s.c.multipart EXCEPT !.fed = @ + n] /\ s.c.multipart \in ParserForm
    BY <1>1, <2>2
  <2>4. p \in ParserForm
    BY <2>3 DEF ParserForm
  <2> QED BY <2>1, <2>2, <2>3, <2>4 DEF ParserForm, Feeds
<1>3. /\ Settled(p, w) \in ParserForm /\ (Feeding(Settled(p, w)) <=> w = "NEED_MORE")
      /\ Settled(p, w).fed = p.fed /\ Settled(p, w).limit = p.limit
  <2>1. s.c.request \in SomeRequest /\ p \in ParserForm /\ p.active
    BY <1>1, <1>2
  <2>2. \A x \in {"ERROR", "MAXERROR", "COMPLETE", "NEED_MORE"} :
          /\ Settled(p, x) \in ParserForm
          /\ Settled(p, x).fed = p.fed /\ Settled(p, x).limit = p.limit
          /\ Feeding(Settled(p, x)) <=> p.active /\ x = "NEED_MORE"
    BY <2>1, VerdictIs
  <2> QED BY <2>1, <2>2
<1>4. /\ Reparsed(s, t) /\ t.c.multipart = Settled(p, w) /\ t.c.chunked = s.c.chunked
      /\ Parts(s) =>
           /\ t.c.uploadedFiles = s.c.uploadedFiles \cup {s.c.number}
           /\ DOMAIN t.disk = DOMAIN s.disk \cup {s.c.number}
           /\ t.disk[s.c.number] = Stored(s.disk, s.c.number) \o Taken(s, s.c.multipart)
           /\ \A k \in DOMAIN s.disk : k # s.c.number => t.disk[k] = s.disk[k]
      /\ ~Parts(s) => t.c.uploadedFiles = s.c.uploadedFiles /\ t.disk = s.disk
  BY <1>1, <1>3, MultipartFedIs
<1>5. Near(s, t)
  BY <1>4 DEF Reparsed, Near, MultipartReady, Uploads
<1>10. First(t) => First(s)
  BY <1>5 DEF Near, First, Pristine
<1>6. Unspoiled(s.history) => s.c.uploadFd = NoFile
  BY <1>1 DEF MultipartReady, Core, Holds
<1>7. ASSUME Core(t), Unmixed(t), Placed(t, rest),
             First(t) => Continued(t, rest) /\ p.fed = Len(Stored(t.disk, s.c.number))
      PROVE  /\ w # "NEED_MORE" => Settles(t, rest)
             /\ w = "NEED_MORE" /\ Continued(t, rest) => Waits(t, rest)
             /\ w = "COMPLETE" /\ (Feeds(p) => s.c.request.size <= p.fed /\ p.fed <= p.limit) => Whole(t)
  <2>1. w # "NEED_MORE" => Settles(t, rest)
    BY <1>3, <1>4, <1>7 DEF Settles, MultipartReady
  <2>2. ASSUME w = "NEED_MORE", Continued(t, rest) PROVE Waits(t, rest)
    <3>1. t.c.leftover \o rest = rest
      BY <1>4, ConcatEmptySeq DEF Reparsed
    <3>2. ~t.done /\ InBody(t.c)
      BY <1>4 DEF Reparsed, MultipartReady, InBody
    <3>3. Reads(t.c)
      BY <1>3, <1>4, <2>2 DEF Reparsed, MultipartReady, Reads
    <3>4. Unspoiled(t.history) => Owns(t.c, DOMAIN t.disk)
      BY <1>4, <1>6, <1>7 DEF Reparsed, MultipartReady, Core, Holds, Owns
    <3>5. ASSUME First(t) PROVE Counts(t.c, Len(Stored(t.disk, t.c.number)))
      <4>1. t.c.res.status # 201 /\ First(s)
        BY <1>7, <1>10, <3>5 DEF Core, Begun
      <4>2. /\ ~t.c.isChunked /\ t.c.request.multipart /\ t.c.number = s.c.number
            /\ t.c.multipart.fed = p.fed /\ t.c.multipart.limit = t.c.expected
        <5>1. /\ ~s.c.isChunked /\ s.c.request.multipart /\ s.c.multipart.limit = s.c.expected
          BY <4>1 DEF MultipartReady
        <5>2. /\ t.c.isChunked = s.c.isChunked /\ t.c.request = s.c.request
              /\ t.c.number = s.c.number /\ t.c.expected = s.c.expected
          BY <1>4 DEF Reparsed
        <5> QED BY <1>2, <1>3, <1>4, <5>1, <5>2
      <4> QED BY <1>7, <3>5, <4>1, <4>2 DEF Counts
    <3> QED BY <1>7, <2>2, <3>1, <3>2, <3>3, <3>4, <3>5 DEF Waits, Tallies
  <2>3. ASSUME w = "COMPLETE", Feeds(p) => s.c.request.size <= p.fed /\ p.fed <= p.limit
        PROVE  Whole(t)
    <3> SUFFICES ASSUME First(t) PROVE Whole(t)
      BY DEF Whole
    <3>1. First(s) /\ Feeds(p) /\ p.limit = s.c.expected
      BY <1>2, <1>10 DEF MultipartReady
    <3>2. /\ s.c.request.te # "chunked" /\ s.c.request.method = "POST" /\ FramingError(s.c.request) = 0
          /\ s.c.request.length # None => s.c.expected = s.c.request.length
      BY DEF MultipartReady
    <3>3. /\ s.c.request.length \in Nat \ {0} /\ s.c.request.size \in Nat
          /\ BodyLength(s.c.request) = IF s.c.request.length <= s.c.request.size
                                         THEN s.c.request.length ELSE s.c.request.size
      BY <1>1, <3>2, LengthIs, RequestIs
    <3>4. s.c.request.size <= p.fed /\ p.fed <= s.c.request.length
      BY <2>3, <3>1, <3>2, <3>3 DEF None
    <3>5. p.fed <= s.c.request.size /\ s.c.request.size > 0
      <4>1. Quiet(t.history) /\ Unspoiled(t.history)
        BY <1>7 DEF Core, Begun, First, Pristine, Unspoiled, Quiet
      <4>2. t.c.number = s.c.number /\ t.c.request = s.c.request
        BY <1>4 DEF Reparsed
      <4>3. << >> \in Seq(Item) /\ << >> \o rest = rest /\ Len(<< >>) = 0
        BY ConcatEmptySeq
      <4>4. Len(Stored(t.disk, t.c.number)) + 0 <= t.c.request.size
        BY <1>1, <1>7, <4>1, <4>2, <4>3, RoomIs
      <4>5. Uploads(t.c.request) /\ t.c.request.multipart
        BY <4>2 DEF MultipartReady, Uploads
      <4>6. t.c.request.size > 0
        BY <1>7, <4>5, UploadIs DEF First
      <4> QED BY <1>2, <1>7, <4>2, <4>4, <4>6 DEF ParserForm
    <3>6. PICK f : f = Stored(t.disk, s.c.number)
      OBVIOUS
    <3>7. Len(f) = s.c.request.size /\ s.c.request.size > 0 /\ BodyLength(s.c.request) = Len(f)
      BY <1>2, <1>7, <3>3, <3>4, <3>5, <3>6 DEF ParserForm
    <3>8. s.c.number \in DOMAIN t.disk
      <4>1. f # << >>
        BY <3>7
      <4> QED BY <3>6, <4>1 DEF Stored
    <3>9. t.c.number \in DOMAIN t.disk /\ BodyLength(t.c.request) = Len(Stored(t.disk, t.c.number))
      BY <1>4, <3>6, <3>7, <3>8 DEF Reparsed
    <3> QED BY <1>7, <3>9, WholeIs
  <2> QED BY <2>1, <2>2, <2>3
<1>8. CASE Parts(s)
  <2>1. PICK a : a = Taken(s, s.c.multipart)
    OBVIOUS
  <2>2. PICK b : CutUp(s.c.leftover, a, b) /\ (p.fed <= s.c.request.size => b = << >>)
    <3>1. s.c.request.size \in Nat /\ s.c.multipart.fed \in Nat
      BY <1>1, RequestIs DEF ParserForm
    <3>2. PICK room \in Int : room = s.c.request.size - s.c.multipart.fed
      BY <3>1
    <3>3. \E b : /\ CutUp(s.c.leftover, SubSeq(s.c.leftover, 1, MinOf(Len(s.c.leftover), room)), b)
                 /\ Len(s.c.leftover) <= room => b = << >>
      BY <1>1, TakenIs
    <3>4. a = SubSeq(s.c.leftover, 1, MinOf(Len(s.c.leftover), room))
      BY <2>1, <3>2 DEF Taken
    <3>5. p.fed <= s.c.request.size => Len(s.c.leftover) <= room
      BY <1>2, <3>1, <3>2, SMTT(30)
    <3> QED BY <3>3, <3>4, <3>5
  <2>3. More(s, t, a)
    <3>1. Stores(t.c, DOMAIN t.disk)
      BY <1>4, <1>8 DEF Stores, Reparsed
    <3>2. Unspoiled(s.history) => t.opened = {t.c.uploadFd} \ {NoFile}
      BY <1>1, <1>4 DEF Core, Base, Reparsed
    <3>3. Unspoiled(s.history) => Holds(t.c)
      BY <1>1, <1>4, <1>6, <1>8 DEF Core, Holds, Reparsed, MultipartReady
    <3>4. /\ \A k \in DOMAIN t.disk : k # s.c.number => t.disk[k] = s.disk[k]
          /\ s.c.number \in DOMAIN t.disk
          /\ t.disk[s.c.number] = Stored(s.disk, s.c.number) \o a
      BY <1>4, <1>8, <2>1
    <3>5. t.history = s.history /\ DOMAIN t.disk \subseteq DOMAIN s.disk \cup {s.c.number}
      BY <1>4, <1>8 DEF Reparsed
    <3> QED BY <1>5, <3>1, <3>2, <3>3, <3>4, <3>5 DEF More
  <2>4. Core(t) /\ Unmixed(t) /\ Placed(t, rest) /\ (b = << >> => Continued(t, rest))
    BY <1>1, <2>2, <2>3, MoreIs
  <2>5. ASSUME First(t)
        PROVE  Continued(t, rest) /\ p.fed = Len(Stored(t.disk, s.c.number))
    <3>1. PICK fed : fed = p.fed
      OBVIOUS
    <3>2. First(s) /\ fed = Len(Stored(s.disk, s.c.number)) + Len(s.c.leftover)
      BY <1>2, <1>10, <2>5, <3>1 DEF MultipartReady
    <3>3. fed <= s.c.request.size => b = << >>
      BY <2>2, <3>1
    <3>4. CutUp(s.c.leftover, a, b)
      BY <2>2
    <3>6. Fills(s, s.c.leftover, b, fed)
      BY <3>2, <3>3 DEF Fills
    <3>5. Filled(s, t, b, fed)
      BY <1>1, <2>3, <3>2, <3>4, <3>6, GrownIs, Zenon
    <3> QED BY <2>4, <3>1, <3>5 DEF Filled
  <2>6. p.fed < s.c.request.size => b = << >>
    <3>1. s.c.request.size \in Nat /\ p.fed \in Nat
      BY <1>1, <1>2, RequestIs DEF ParserForm
    <3> QED BY <2>2, <3>1
  <2> QED BY <1>7, <2>4, <2>5, <2>6
<1>9. CASE ~Parts(s)
  <2>1. Alike(s, t)
    BY <1>4, <1>5, <1>9 DEF Alike, Reparsed
  <2>2. Placed(s, rest)
    BY <1>1, Later DEF Placed
  <2>3. Core(t) /\ Unmixed(t) /\ Placed(t, rest) /\ \A v : Continued(s, v) => Continued(t, v)
    BY <1>1, <2>1, <2>2, AlikeIs
  <2>4. Feeds(p) => Continued(t, rest)
    <3>1. Feeds(p) => s.c.leftover \o rest = rest
      BY <1>2, <1>9, ConcatEmptySeq DEF Parts
    <3> QED BY <1>1, <2>3, <3>1
  <2>5. ASSUME First(t)
        PROVE  Continued(t, rest) /\ p.fed = Len(Stored(t.disk, s.c.number))
    <3>1. /\ First(s) /\ Feeds(p) /\ s.c.leftover = << >>
          /\ s.c.multipart.fed = Len(Stored(s.disk, s.c.number))
      BY <1>2, <1>9, <1>10, <2>5 DEF MultipartReady, Parts
    <3>2. p.fed = s.c.multipart.fed
      BY <1>1, <1>2, <3>1 DEF ParserForm
    <3> QED BY <1>4, <1>9, <2>4, <3>1, <3>2
  <2> QED BY <1>7, <2>3, <2>4, <2>5
<1> QED BY <1>8, <1>9

\* A multipart body, whatever feed() answers.
LEMMA MultipartIs ==
  ASSUME NEW rest \in Seq(Item), NEW s, MultipartReady(s, rest), NEW o \in Multipart(s)
  PROVE  Results(o, rest)
<1>1. PICK p : p = [s.c.multipart EXCEPT !.fed = @ + Len(s.c.leftover)]
  OBVIOUS
<1>2. PICK v : v = Verdict(s.c.request, p)
  OBVIOUS
<1>3. /\ s.c.request \in SomeRequest /\ p \in ParserForm /\ (Feeds(p) <=> Feeds(s.c.multipart))
      /\ s.c.request.target.store /\ Outcome(s)
  <2>1. s.c \in ClientForm /\ Outcome(s)
    BY DEF MultipartReady, Core, Base, Outcome
  <2>2. Len(s.c.leftover) \in Nat /\ s.c.multipart \in ParserForm /\ s.c.request \in SomeRequest
    BY <2>1, LenProperties DEF ClientForm
  <2> QED BY <1>1, <2>1, <2>2, SMTT(30) DEF ParserForm, Feeds, MultipartReady
<1>4. /\ v \in {"ERROR", "MAXERROR", "COMPLETE", "NEED_MORE"}
      /\ v = "NEED_MORE" => Feeds(p) /\ p.fed < s.c.request.size
      /\ v = "COMPLETE" /\ Feeds(p) => s.c.request.size <= p.fed /\ p.fed <= p.limit
  BY <1>2, <1>3, VerdictIs
<1>5. PICK t : MultipartFed(s, t, Settled(p, v))
  BY DEF MultipartFed
<1>6. PICK u : MultipartFed(s, u, Settled(p, "ERROR"))
  BY DEF MultipartFed
<1>7. o \in Concluded(t, v) \/ o \in Refuse(DiskFailed(u), 400)
  BY <1>1, <1>2, <1>3, <1>5, <1>6 DEF Multipart, MultipartFed, Parts
<1>8. t.c.request = s.c.request /\ u.c.request = s.c.request
  <2>1. Settled(p, v) \in ParserForm /\ Settled(p, "ERROR") \in ParserForm
    BY <1>3, <1>4, VerdictIs
  <2>2. Reparsed(s, t)
    BY <1>3, <1>5, <2>1, MultipartFedIs
  <2>3. Reparsed(s, u)
    BY <1>3, <1>6, <2>1, MultipartFedIs
  <2> QED BY <2>2, <2>3 DEF Reparsed
<1>9. CASE o \in Concluded(t, v)
  <2>1. /\ v # "NEED_MORE" => Settles(t, rest)
        /\ v = "NEED_MORE" => Waits(t, rest)
        /\ v = "COMPLETE" => Whole(t)
    BY <1>1, <1>4, <1>5, MultipartAfterIs
  <2> QED BY <1>3, <1>4, <1>8, <1>9, <2>1, FedConcludes
<1>10. CASE o \in Refuse(DiskFailed(u), 400)
  <2>1. Settles(DiskFailed(u), rest)
    BY <1>1, <1>6, MultipartAfterIs, DiskFailedIs
  <2> QED BY <1>10, <2>1, RefuseIs DEF Results, StatusEntries
<1> QED BY <1>7, <1>9, <1>10

\* readBody() of a multipart body: the parser in use goes on, or a new one is made.
LEMMA MultipartBodyIs ==
  ASSUME NEW rest \in Seq(Item), NEW s, Body(s, rest),
         s.c.request.method = "POST", s.c.request.target.store, ~s.c.isChunked,
         s.c.request.multipart, NEW o \in MultipartBody(s)
  PROVE  Results(o, rest)
<1>1. /\ Core(s) /\ Unmixed(s) /\ Outcome(s) /\ s.c \in ClientForm
      /\ ~Feeding(s.c.chunked) /\ s.c.request.te # "chunked"
  <2>1. Outcome(s) /\ s.c \in ClientForm
    BY DEF Body, Core, Base, Outcome
  <2> QED BY <2>1 DEF Body, ClientForm
<1>2. CASE s.c.multipart.active
  <2>1. MultipartReady(s, rest)
    BY <1>1, <1>2 DEF Body, MultipartReady, Ready, Uploads
  <2>2. o \in Multipart(s)
    BY <1>2, Zenon DEF MultipartBody
  <2> QED BY <2>1, <2>2, MultipartIs
<1>3. CASE ~s.c.multipart.active
  <2>1. PICK parser : parser = [NewParser EXCEPT !.active = TRUE, !.limit = s.c.expected]
    OBVIOUS
  <2>2. PICK t : t = [s EXCEPT !.c.multipart = parser]
    OBVIOUS
  <2>3. o \in Multipart(t)
    BY <1>3, <2>1, <2>2 DEF MultipartBody
  <2>4. /\ parser \in ParserForm /\ parser.active
        /\ Feeds(parser) /\ parser.fed = 0 /\ parser.limit = s.c.expected
    <3>1. s.c.expected \in Nat
      BY <1>1 DEF ClientForm
    <3> QED BY <2>1, <3>1 DEF NewParser, ParserForm, Feeds
  <2>5. /\ t = [c |-> t.c, disk |-> s.disk, opened |-> s.opened, history |-> s.history,
                done |-> s.done, script |-> s.script]
        /\ t.c = [s.c EXCEPT !.multipart = parser]
    BY <1>1, <2>2 DEF Outcome
  <2>6. /\ t.disk = s.disk /\ t.opened = s.opened /\ t.history = s.history
        /\ t.done = s.done /\ t.script = s.script
    BY <2>5
  <2>7. /\ t.c \in ClientForm /\ t.c.multipart = parser
        /\ t.c.number = s.c.number /\ t.c.request = s.c.request /\ t.c.res = s.c.res
        /\ t.c.uploadFd = s.c.uploadFd /\ t.c.uploadedFiles = s.c.uploadedFiles
        /\ t.c.uploadPath = s.c.uploadPath
        /\ t.c.expected = s.c.expected /\ t.c.state = s.c.state /\ t.c.isChunked = s.c.isChunked
        /\ t.c.chunked = s.c.chunked /\ t.c.leftover = s.c.leftover
    <3>1. t.c = [s.c EXCEPT !.multipart = parser] /\ s.c \in ClientForm
      BY <1>1, <2>5
    <3>2. t.c \in ClientForm
      BY <2>4, <3>1, FieldSet
    <3> QED BY <3>1, <3>2 DEF ClientForm
  <2>8. Alike(s, t)
    <3>1. Outcome(t)
      BY <1>1, <2>5, <2>6, <2>7 DEF Outcome
    <3> QED BY <2>6, <2>7, <3>1 DEF Alike, Near, Uploads
  <2>9. /\ Core(t) /\ Unmixed(t) /\ \A w : Placed(s, w) => Placed(t, w)
        /\ \A w : Continued(s, w) => Continued(t, w)
    BY <1>1, <2>8, AlikeIs
  <2>10. Placed(t, s.c.leftover \o rest) /\ Continued(t, s.c.leftover \o rest)
    BY <2>9 DEF Body
  <2>12. First(t) => t.c.multipart.fed = Len(Stored(t.disk, t.c.number))
    <3>1. First(t) => First(s)
      BY <2>6, <2>7 DEF First
    <3>2. First(s) => 0 = Len(Stored(s.disk, s.c.number))
      BY <1>1, <1>3 DEF Body, Ready, Uploads
    <3> QED BY <2>4, <2>6, <2>7, <3>1, <3>2
  <2>11. MultipartReady(t, rest)
    BY <1>1, <2>4, <2>6, <2>7, <2>9, <2>10, <2>12 DEF Body, MultipartReady, InBody
  <2> QED BY <2>3, <2>11, MultipartIs
<1> QED BY <1>2, <1>3

\* readBody()
LEMMA ReadBodyIs ==
  ASSUME NEW rest \in Seq(Item), NEW s, Body(s, rest), NEW o \in ReadBody(s)
  PROVE  Results(o, rest)
<1>1. CASE s.c.request.method = "POST" /\ s.c.request.target.store
  <2>1. s.c.isChunked => o \in ChunkedBody(s)
    BY <1>1 DEF ReadBody
  <2>2. ~s.c.isChunked /\ s.c.request.multipart => o \in MultipartBody(s)
    BY <1>1 DEF ReadBody
  <2>3. ~s.c.isChunked /\ ~s.c.request.multipart => o \in SingleFile(s)
    BY <1>1 DEF ReadBody
  <2> QED BY <1>1, <2>1, <2>2, <2>3, ChunkedBodyIs, MultipartBodyIs, SingleFileIs
<1>2. CASE s.c.request.method = "POST" /\ ~s.c.request.target.store /\ s.c.request.target.kind = "script"
  <2>1. o \in ScriptBody(s)
    BY <1>2 DEF ReadBody
  <2> QED BY <1>2, <2>1, ScriptBodyIs
<1>3. CASE s.c.request.method # "POST" \/ (~s.c.request.target.store /\ s.c.request.target.kind # "script")
  <2>1. o \in handlerReturn(s)
    BY <1>3 DEF ReadBody
  <2>2. Settles(s, rest)
    <3>1. ~Feeding(s.c.chunked) /\ ~Feeding(s.c.multipart)
      BY <1>3 DEF Body
    <3> QED BY <3>1, BodySettles
  <2>3. Fed(s)
    BY <1>3 DEF Fed, Script, Whole, Uploads
  <2> QED BY <2>1, <2>2, <2>3, ReturnIs DEF Results
<1> QED BY <1>1, <1>2, <1>3

-----------------------------------------------------------------------------
(* The head of a request                                                    *)

\* The first end of a head among the items is where EndOfHead is.
LEMMA FirstEnd ==
  ASSUME NEW l \in Seq(Item), \E k \in DOMAIN l : IsEnd(l[k])
  PROVE  LET n == EndOfHead(l)
         IN n \in 1 .. Len(l) /\ IsEnd(l[n]) /\ \A k \in 1 .. n - 1 : ~IsEnd(l[k])
<1>1. DOMAIN l = 1 .. Len(l) /\ Len(l) \in Nat
  BY LenProperties
<1>2. PICK ends : ends = {k \in DOMAIN l : IsEnd(l[k])}
  OBVIOUS
<1>3. ends \subseteq Nat /\ ends # {}
  BY <1>1, <1>2
<1>4. PICK n \in ends : \A k \in ends : <<k, n>> \notin OpToRel(<, Nat)
  BY <1>3, WFMin, NatLessThanWellFounded, Zenon
<1>5. \A k \in ends : ~(k < n)
  <2>1. ASSUME NEW k \in ends, k < n PROVE <<k, n>> \in OpToRel(<, Nat)
    BY <1>3, <2>1 DEF OpToRel
  <2> QED BY <1>4, <2>1
<1>6. n \in DOMAIN l /\ IsEnd(l[n]) /\ \A k \in 1 .. n - 1 : ~IsEnd(l[k])
  <2>1. n \in 1 .. Len(l) /\ IsEnd(l[n])
    BY <1>1, <1>2
  <2>2. ASSUME NEW k \in 1 .. n - 1 PROVE ~IsEnd(l[k])
    <3>1. k \in DOMAIN l /\ k < n
      BY <1>1, <2>1
    <3> QED BY <1>2, <1>5, <3>1
  <2> QED BY <1>1, <2>1, <2>2
<1>7. \E m \in DOMAIN l : IsEnd(l[m]) /\ \A k \in 1 .. m - 1 : ~IsEnd(l[k])
  BY <1>6
<1>8. PICK m : m = EndOfHead(l)
  OBVIOUS
<1>9. m \in DOMAIN l /\ IsEnd(l[m]) /\ \A k \in 1 .. m - 1 : ~IsEnd(l[k])
  BY <1>7, <1>8, Zenon DEF EndOfHead
<1> QED BY <1>1, <1>8, <1>9

\* The heads behind one that was read are later ones.
LEMMA HeadsAfter ==
  ASSUME NEW a \in Seq(Item), NEW b \in Seq(Item), NEW n, Heads(a \o b, n),
         NEW k \in DOMAIN a, IsEnd(a[k])
  PROVE  /\ n < a[k].req /\ a[k].req <= Len(sent)
         /\ k = Len(a) => Heads(b, a[k].req)
<1> DEFINE c == a \o b
<1>1. /\ Len(a) \in Nat /\ DOMAIN a = 1 .. Len(a) /\ DOMAIN b = 1 .. Len(b) /\ Len(b) \in Nat
      /\ \A j \in DOMAIN a : j \in DOMAIN c /\ c[j] = a[j]
      /\ \A j \in DOMAIN b : Len(a) + j \in DOMAIN c /\ c[Len(a) + j] = b[j]
  BY Behind
<1>2. Heads(c, n)
  OBVIOUS
<1> HIDE DEF c
<1>3. n < a[k].req /\ a[k].req <= Len(sent)
  BY <1>1, <1>2 DEF Heads
<1>4. ASSUME k = Len(a) PROVE Heads(b, a[k].req)
  <2>1. ASSUME NEW j \in DOMAIN b, IsEnd(b[j]) PROVE a[k].req < b[j].req /\ b[j].req <= Len(sent)
    <3>1. k < Len(a) + j /\ Len(a) + j \in DOMAIN c /\ k \in DOMAIN c
      BY <1>1, <1>4, <2>1
    <3> QED BY <1>1, <1>2, <2>1, <3>1 DEF Heads
  <2>2. ASSUME NEW i \in DOMAIN b, NEW j \in DOMAIN b, i < j, IsEnd(b[i]), IsEnd(b[j])
        PROVE  b[i].req < b[j].req
    <3>1. Len(a) + i < Len(a) + j
      BY <1>1, <2>2
    <3> QED BY <1>1, <1>2, <2>2, <3>1 DEF Heads
  <2> QED BY <2>1, <2>2 DEF Heads
<1> QED BY <1>3, <1>4

\* A message behind what is left of a body that was not read, and its head.
Trails(w, j, n, r) == Residue(SubSeq(w, 1, j)) /\ SubSeq(w, j + 1, Len(w)) = Message(n, r)
LEMMA TrailsIs ==
  ASSUME NEW w \in Seq(Item), NEW j \in 0 .. Len(w), NEW n \in Nat \ {0}, NEW r, r.size \in Nat,
         Trails(w, j, n, r)
  PROVE  /\ Len(w) = j + 2 + r.size /\ DOMAIN w = 1 .. Len(w)
         /\ w[j + 1] = HeadStart(n) /\ w[j + 2] = HeadEnd(n)
         /\ \A k \in 1 .. r.size : w[j + 2 + k] = BodyByte(n, k)
         /\ \A k \in DOMAIN w : IsEnd(w[k]) <=> k = j + 2
         /\ "early" \notin history => j = 0
<1> DEFINE a == SubSeq(w, 1, j)
           b == SubSeq(w, j + 1, Len(w))
<1>1. Len(w) \in Nat /\ DOMAIN w = 1 .. Len(w)
  BY LenProperties
<1>2. /\ a \in Seq(Item) /\ Len(a) = j /\ \A k \in 1 .. j : a[k] = w[k]
      /\ b \in Seq(Item) /\ Len(b) = Len(w) - j /\ \A k \in 1 .. Len(w) - j : b[k] = w[j + k]
  BY Split
<1>3. Residue(a) /\ b = Message(n, r)
  BY DEF Trails
<1> HIDE DEF a, b
<1>4. DOMAIN a = 1 .. j /\ DOMAIN b = 1 .. Len(w) - j
  BY <1>2, LenProperties
<1>5. /\ Len(b) = 2 + r.size /\ b[1] = HeadStart(n) /\ b[2] = HeadEnd(n)
      /\ \A k \in DOMAIN b : k > 2 => b[k] = BodyByte(n, k - 2)
      /\ \A k \in DOMAIN b : IsEnd(b[k]) <=> k = 2
  BY <1>3, MessageIs
<1>6. Len(w) = j + 2 + r.size /\ Len(w) - j = 2 + r.size
  BY <1>1, <1>2, <1>5
<1>7. w[j + 1] = HeadStart(n) /\ w[j + 2] = HeadEnd(n)
  BY <1>2, <1>5, <1>6
<1>8. ASSUME NEW k \in 1 .. r.size PROVE w[j + 2 + k] = BodyByte(n, k)
  <2>1. 2 + k \in 1 .. Len(w) - j /\ 2 + k > 2 /\ (2 + k) - 2 = k /\ j + (2 + k) = j + 2 + k
    BY <1>6
  <2>2. b[2 + k] = BodyByte(n, k)
    BY <1>4, <1>5, <2>1
  <2> QED BY <1>2, <2>1, <2>2
<1>9. ASSUME NEW k \in DOMAIN w PROVE IsEnd(w[k]) <=> k = j + 2
  <2>1. CASE k <= j
    <3>1. k \in DOMAIN a /\ a[k] = w[k]
      BY <1>1, <1>2, <1>4, <2>1
    <3>2. w[k].part = "body"
      BY <1>3, <3>1 DEF Residue
    <3> QED BY <2>1, <3>2 DEF IsEnd
  <2>2. CASE k > j
    <3>1. k - j \in DOMAIN b /\ j + (k - j) = k /\ (k - j = 2 <=> k = j + 2)
      <4>1. j \in Nat /\ Len(w) \in Nat /\ k \in 1 .. Len(w)
        BY LenProperties
      <4>2. k - j \in 1 .. Len(w) - j
        BY <2>2, <4>1
      <4>3. j + (k - j) = k /\ (k - j = 2 <=> k = j + 2)
        BY <4>1
      <4> QED BY <1>4, <4>2, <4>3
    <3>2. b[k - j] = w[k]
      BY <1>2, <1>4, <3>1
    <3> QED BY <1>5, <3>1, <3>2
  <2> QED BY <1>1, <2>1, <2>2
<1>10. "early" \notin history => j = 0
  <2>1. "early" \notin history => a = << >>
    BY <1>3 DEF Residue
  <2>2. Len(<< >>) = 0
    OBVIOUS
  <2> QED BY <1>2, <2>1, <2>2
<1> QED BY <1>1, <1>6, <1>7, <1>8, <1>9, <1>10

\* Where the parts of a sequence that is cut up are found in it.
LEMMA CutIs ==
  ASSUME NEW w, NEW a, NEW b, CutUp(w, a, b)
  PROVE  /\ Len(a) \in Nat /\ DOMAIN a = 1 .. Len(a) /\ DOMAIN b = 1 .. Len(b) /\ Len(b) \in Nat
         /\ DOMAIN w = 1 .. Len(a) + Len(b)
         /\ \A k \in DOMAIN a : k \in DOMAIN w /\ w[k] = a[k]
         /\ \A k \in DOMAIN b : Len(a) + k \in DOMAIN w /\ w[Len(a) + k] = b[k]
<1> DEFINE c == a \o b
<1>1. a \in Seq(Item) /\ b \in Seq(Item)
  BY DEF CutUp
<1>2. /\ Len(a) \in Nat /\ DOMAIN a = 1 .. Len(a) /\ DOMAIN b = 1 .. Len(b) /\ Len(b) \in Nat
      /\ \A k \in DOMAIN a : k \in DOMAIN c /\ c[k] = a[k]
      /\ \A k \in DOMAIN b : Len(a) + k \in DOMAIN c /\ c[Len(a) + k] = b[k]
  BY <1>1, Behind
<1>3. DOMAIN c = 1 .. Len(a) + Len(b)
  BY <1>1, Behind
<1>4. c = w
  BY Zenon DEF CutUp
<1> HIDE DEF c
<1> QED BY <1>2, <1>3, <1>4

\* What is behind the head of a message is its body.
LEMMA BehindHead ==
  ASSUME NEW w \in Seq(Item), NEW j \in 0 .. Len(w), NEW n \in Nat \ {0}, NEW r, r.size \in Nat,
         Trails(w, j, n, r), NEW a, NEW b, CutUp(w, a, b),
         Len(a) > 0, IsEnd(a[Len(a)])
  PROVE  /\ Len(a) = j + 2 /\ a[j + 1] = HeadStart(n) /\ a[j + 2].req = n
         /\ Bytes(b, n) /\ Spells(n, b, r.size)
         /\ "early" \notin history => j = 0
<1>1. a \in Seq(Item) /\ b \in Seq(Item) /\ a \o b = w
  BY DEF CutUp
<1>2. /\ Len(a) \in Nat /\ DOMAIN a = 1 .. Len(a) /\ DOMAIN b = 1 .. Len(b) /\ Len(b) \in Nat
      /\ DOMAIN w = 1 .. Len(a) + Len(b)
      /\ \A k \in DOMAIN a : k \in DOMAIN w /\ w[k] = a[k]
      /\ \A k \in DOMAIN b : Len(a) + k \in DOMAIN w /\ w[Len(a) + k] = b[k]
  BY CutIs
<1>3. /\ Len(w) = j + 2 + r.size /\ DOMAIN w = 1 .. Len(w)
      /\ w[j + 1] = HeadStart(n) /\ w[j + 2] = HeadEnd(n)
      /\ \A k \in 1 .. r.size : w[j + 2 + k] = BodyByte(n, k)
      /\ \A k \in DOMAIN w : IsEnd(w[k]) <=> k = j + 2
      /\ "early" \notin history => j = 0
  BY TrailsIs
<1>4. Len(a) = j + 2
  <2>1. Len(a) \in DOMAIN a
    BY <1>2
  <2> QED BY <1>2, <1>3, <2>1
<1>5. a[j + 1] = HeadStart(n) /\ a[j + 2].req = n
  <2>1. j + 1 \in DOMAIN a /\ j + 2 \in DOMAIN a
    BY <1>2, <1>4
  <2>2. a[j + 1] = w[j + 1] /\ a[j + 2] = w[j + 2]
    BY <1>2, <2>1
  <2>3. w[j + 1] = HeadStart(n) /\ w[j + 2] = HeadEnd(n)
    BY <1>3
  <2>4. HeadEnd(n).req = n
    BY DEF HeadEnd
  <2> QED BY <2>2, <2>3, <2>4
<1>6. Len(b) = r.size
  <2>1. Len(w) \in Nat
    BY LenProperties
  <2>2. Len(w) = Len(a) + Len(b)
    BY <1>1, ConcatProperties
  <2> QED BY <1>2, <1>3, <1>4, <2>1, <2>2
<1>7. ASSUME NEW k \in DOMAIN b PROVE b[k] = BodyByte(n, k)
  <2>1. k \in 1 .. r.size /\ w[Len(a) + k] = b[k]
    BY <1>2, <1>6
  <2> QED BY <1>3, <1>4, <2>1
<1> QED BY <1>3, <1>4, <1>5, <1>6, <1>7 DEF Bytes, Numbered, Spells, BodyByte

\* recv() has added to the leftover, which is l now; rest is not received yet.
Reading(l, rest) ==
  /\ IInv /\ phase = "reading"
  /\ l \in Seq(Item) /\ rest \in Seq(Item) /\ l \o rest = Wire

\* Request r is the one to read, and tail is to come after its head.
Headed(number, r, tail) ==
  /\ client.number < number /\ number \in 1 .. Len(sent) /\ r \in SomeRequest
  /\ KnownRedirects => Known(r)
  /\ tail \in Seq(Item) /\ Heads(tail, number)
  /\ Quiet(history) =>
       /\ number = Len(sent) /\ answered = number - 1 /\ Asked(history, number, r)
       /\ Bytes(tail, number) /\ Spells(number, tail, r.size)
  /\ Pristine(history) =>
       r.target.redirect # 201 /\ (Uploads(r) /\ r.multipart => r.size > 0)

\* The target of a request whose line is another one is the same, and so is its body.
LEMMA LineSet ==
  ASSUME NEW M, NEW L, NEW q \in Form(M, L), NEW m, NEW e, NEW r, Relined(q, r, m, e)
  PROVE  r \in Form({m}, {e}) /\ r.target = q.target /\ r.size = q.size /\ r.method = m
BY DEF Form, Relined

\* A request that was sent, or one with the same fields whose line is garbage.
LEMMA ParsedIs ==
  ASSUME NEW q \in Requests
  PROVE  /\ q \in SomeRequest
         /\ Uploads(q) /\ q.multipart => q.size > 0
         /\ \A r : Relined(q, r, "none", 501) =>
              r \in SomeRequest /\ r.target = q.target /\ r.size = q.size /\ ~Uploads(r)
<1>1. q \in RequestForm /\ (Uploads(q) /\ q.multipart => q.size > 0)
  BY RequestAssumption DEF Uploads
<1>2. ASSUME NEW r, Relined(q, r, "none", 501)
      PROVE  /\ r \in Form({"none"}, {501})
             /\ r.target = q.target /\ r.size = q.size /\ ~Uploads(r)
  <2>1. q \in Form(Methods, {0, 400, 414, 501, 505})
    BY <1>1 DEF RequestForm
  <2>2. r \in Form({"none"}, {501}) /\ r.target = q.target /\ r.size = q.size /\ r.method = "none"
    BY <1>2, <2>1, LineSet
  <2> QED BY <2>2 DEF Uploads
<1> QED BY <1>1, <1>2 DEF SomeRequest

\* The first head that is there is that of the request to read.
LEMMA HeadIs ==
  ASSUME NEW l, NEW rest, Reading(l, rest), ~InBody(client), \E k \in DOMAIN l : IsEnd(l[k])
  PROVE  LET n == EndOfHead(l)
         IN /\ n \in 1 .. Len(l)
            /\ Headed(l[n].req, Parsed(l), SubSeq(l, n + 1, Len(l)) \o rest)
<1>1. /\ l \in Seq(Item) /\ rest \in Seq(Item) /\ Heads(l \o rest, client.number)
      /\ sent \in Seq(Requests) /\ client.number \in Nat
  BY DEF Reading, IInv, TypeOK, Numbers, ClientForm
<1>2. PICK n : n = EndOfHead(l)
  OBVIOUS
<1>3. n \in 1 .. Len(l) /\ IsEnd(l[n]) /\ Len(l) \in Nat
  BY <1>1, <1>2, FirstEnd, LenProperties
<1>4. PICK a : a = SubSeq(l, 1, n)
  OBVIOUS
<1>5. PICK b : b = SubSeq(l, n + 1, Len(l))
  OBVIOUS
<1>6. /\ a \in Seq(Item) /\ Len(a) = n /\ \A k \in 1 .. n : a[k] = l[k]
      /\ b \in Seq(Item)
  BY <1>1, <1>3, <1>4, <1>5, Split
<1>7. CutUp(l, a, b)
  BY <1>1, <1>3, <1>4, <1>5, <1>6, Split DEF CutUp
<1>8. PICK tail : tail = b \o rest
  OBVIOUS
<1>9. tail \in Seq(Item) /\ a \o tail = l \o rest
  <2>1. (a \o b) \o rest = a \o (b \o rest)
    BY <1>1, <1>6, Joined, SMTT(60)
  <2>2. a \o b = l
    BY <1>7 DEF CutUp
  <2>3. b \o rest \in Seq(Item)
    BY <1>1, <1>6, ConcatProperties
  <2> QED BY <1>8, <2>1, <2>2, <2>3
<1>10. PICK number : number = l[n].req
  OBVIOUS
<1>11. a[n] = l[n] /\ n \in DOMAIN a /\ IsEnd(a[n])
  <2>1. DOMAIN a = 1 .. n
    BY <1>6, LenProperties
  <2> QED BY <1>3, <1>6, <2>1
<1>12. Heads(a \o tail, client.number)
  BY <1>1, <1>9, Zenon
<1>13. client.number < number /\ number <= Len(sent) /\ Heads(tail, number)
  BY <1>6, <1>9, <1>10, <1>11, <1>12, HeadsAfter
<1>14. number \in 1 .. Len(sent) /\ sent[number] \in Requests
  <2>1. number \in Nat /\ Len(sent) \in Nat
    <3>1. l[n] \in Item
      BY <1>1, <1>3, ElementOfSeq
    <3> QED BY <1>1, <1>10, <3>1, LenProperties DEF Item
  <2>2. number \in 1 .. Len(sent)
    BY <1>1, <1>13, <2>1
  <2> QED BY <1>1, <2>2, ElementOfSeq
<1>15. PICK r : r = Parsed(l)
  OBVIOUS
<1>16. /\ n = 2 /\ l[1] = HeadStart(number) => r = sent[number]
       /\ r = sent[number] \/ Relined(sent[number], r, "none", 501)
  BY <1>2, <1>10, <1>15 DEF Parsed, Relined
<1>17. /\ r \in SomeRequest /\ (KnownRedirects => Known(r)) /\ r.size = sent[number].size
       /\ Pristine(history) =>
            r.target.redirect # 201 /\ (Uploads(r) /\ r.multipart => r.size > 0)
  <2>1. PICK q \in Requests : q = sent[number]
    BY <1>14
  <2>2. /\ q \in SomeRequest
        /\ Uploads(q) /\ q.multipart => q.size > 0
        /\ \A x : Relined(q, x, "none", 501) =>
             x \in SomeRequest /\ x.target = q.target /\ x.size = q.size /\ ~Uploads(x)
    BY ParsedIs
  <2>3. r = q \/ Relined(q, r, "none", 501)
    BY <1>16, <2>1
  <2>4. /\ r \in SomeRequest /\ r.target = q.target /\ r.size = q.size
        /\ Uploads(r) /\ r.multipart => r.size > 0
    BY <2>2, <2>3
  <2> QED BY <2>1, <2>4 DEF KnownRedirects, Known, Pristine
<1>18. ASSUME Quiet(history)
       PROVE  /\ number = Len(sent) /\ answered = number - 1 /\ Asked(history, number, r)
              /\ Bytes(tail, number) /\ Spells(number, tail, r.size)
  <2>1. PICK last0 : last0 = Len(sent)
    OBVIOUS
  <2>2. PICK w : w = Wire
    OBVIOUS
  <2>3. w \in Seq(Item) /\ CutUp(w, a, tail) /\ DOMAIN w = 1 .. Len(w)
    <3>1. a \o tail = w /\ w \in Seq(Item)
      BY <1>1, <1>6, <1>9, <2>2, ConcatProperties DEF Reading
    <3> QED BY <1>6, <1>9, <3>1, LenProperties DEF CutUp
  <2>4. \/ Residue(w)
        \/ /\ last0 > 0 /\ answered = last0 - 1
           /\ \E j \in 0 .. Len(w) : Trails(w, j, last0, sent[last0])
    BY <1>18, <2>1, <2>2 DEF Reading, IInv, Aligned, Quiet, Trails
  <2>11. ~Residue(w)
    <3>1. n \in DOMAIN w /\ w[n] = a[n]
      BY <1>6, <1>9, <1>11, <2>3, Behind DEF CutUp
    <3> QED BY <1>11, <3>1 DEF Residue, IsEnd
  <2>5. last0 > 0 /\ answered = last0 - 1 /\ \E j \in 0 .. Len(w) : Trails(w, j, last0, sent[last0])
    BY <2>4, <2>11
  <2>12. PICK j \in 0 .. Len(w) : Trails(w, j, last0, sent[last0])
    BY <2>5
  <2>6. last0 \in Nat \ {0} /\ sent[last0].size \in Nat
    <3>1. last0 \in Nat /\ last0 \in 1 .. Len(sent)
      BY <1>1, <2>1, <2>5, LenProperties
    <3>2. sent[last0] \in SomeRequest
      BY <1>1, <3>1, ElementOfSeq, ParsedIs
    <3> QED BY <2>5, <3>1, <3>2, RequestIs
  <2>7. Len(a) > 0 /\ IsEnd(a[Len(a)])
    BY <1>3, <1>6, <1>11
  <2>8. /\ Len(a) = j + 2 /\ a[j + 1] = HeadStart(last0) /\ a[j + 2].req = last0
        /\ Bytes(tail, last0) /\ Spells(last0, tail, sent[last0].size)
        /\ "early" \notin history => j = 0
    BY <2>3, <2>6, <2>7, <2>12, BehindHead
  <2>9. number = last0
    BY <1>6, <1>10, <1>11, <2>8
  <2>10. ASSUME j = 0 PROVE n = 2 /\ l[1] = HeadStart(number)
    <3>1. n = 2 /\ a[1] = HeadStart(number)
      BY <1>6, <2>8, <2>9, <2>10
    <3> QED BY <1>6, <3>1
  <2>13. Asked(history, number, r)
    BY <1>16, <2>8, <2>10 DEF Asked
  <2> QED BY <1>17, <2>1, <2>5, <2>8, <2>9, <2>13
<1>19. Headed(number, r, tail)
  BY <1>9, <1>13, <1>14, <1>17, <1>18 DEF Headed
<1> QED BY <1>2, <1>3, <1>5, <1>8, <1>10, <1>15, <1>19

\* A client that has read the head of request r.
HeadRead(c, number, r) ==
  /\ c \in ClientForm /\ c.number = number /\ c.request = r
  /\ KnownRedirects => Blank(c.res)
  /\ c.uploadFd = client.uploadFd /\ c.uploadedFiles = client.uploadedFiles
  /\ c.uploadedBytes = client.uploadedBytes
  /\ c.chunked = client.chunked /\ c.multipart = client.multipart
  /\ client.res.status # 201 => c.res.status # 201
LeavesAs(s, c) ==
  /\ s = [c |-> c, disk |-> disk, opened |-> opened, history |-> history, done |-> FALSE, script |-> FALSE]
  /\ s.c = c /\ s.disk = disk /\ s.opened = opened /\ s.history = history /\ s.done = FALSE
  /\ s.script = FALSE

\* Nothing of the request before it is in its way.
LEMMA FreshIs ==
  ASSUME NEW l, NEW rest, Reading(l, rest), ~InBody(client),
         NEW number, NEW r, NEW tail, Headed(number, r, tail),
         NEW c, HeadRead(c, number, r), NEW s, LeavesAs(s, c)
  PROVE  /\ Core(s) /\ Unmixed(s) /\ Placed(s, tail) /\ Continued(s, tail)
         /\ ~Feeding(c.chunked) /\ ~Feeding(c.multipart)
         /\ number \notin DOMAIN disk /\ (Unspoiled(history) => c.uploadFd = NoFile)
         /\ First(s) => Untouched(c)
<1>1. /\ TypeOK /\ Numbers /\ ReadsNothing(client) /\ phase = "reading"
      /\ (Unspoiled(history) => NoUpload(client))
      /\ KnownRedirects => UploadClosed /\ NotMixed
      /\ Counting
  BY DEF Reading, IInv, Bodies, Uploading
<1>2. /\ Files(disk) /\ opened \subseteq Nat /\ history \subseteq Events
      /\ client.number \in Nat /\ last.number \in Nat /\ Len(sent) \in Nat
      /\ DOMAIN disk \subseteq 1 .. client.number /\ last.number <= client.number
  BY <1>1, LenProperties DEF TypeOK, Numbers, ClientForm
<1>3. /\ client.number < number /\ number \in 1 .. Len(sent) /\ r \in SomeRequest
      /\ KnownRedirects => Known(r)
      /\ Heads(tail, number)
      /\ Quiet(history) =>
           /\ number = Len(sent) /\ answered = number - 1 /\ Asked(history, number, r)
           /\ Bytes(tail, number) /\ Spells(number, tail, r.size)
      /\ Pristine(history) =>
           r.target.redirect # 201 /\ (Uploads(r) /\ r.multipart => r.size > 0)
      /\ tail \in Seq(Item)
  BY DEF Headed
<1>4. /\ c \in ClientForm /\ c.number = number /\ c.request = r
      /\ KnownRedirects => Blank(c.res)
      /\ c.uploadFd = client.uploadFd /\ c.uploadedFiles = client.uploadedFiles
      /\ c.uploadedBytes = client.uploadedBytes
      /\ c.chunked = client.chunked /\ c.multipart = client.multipart
      /\ client.res.status # 201 => c.res.status # 201
  BY DEF HeadRead
<1>5. /\ s.c = c /\ s.disk = disk /\ s.opened = opened /\ s.history = history
      /\ s.done = FALSE /\ s.script = FALSE
  BY DEF LeavesAs
<1>6. Outcome(s)
  <2>1. s = [c |-> s.c, disk |-> s.disk, opened |-> s.opened, history |-> s.history,
             done |-> s.done, script |-> s.script]
    BY DEF LeavesAs
  <2> QED BY <1>2, <1>4, <1>5, <2>1 DEF Outcome
<1>7. number \notin DOMAIN disk
  BY <1>2, <1>3
<1>8. Unspoiled(history) => c.uploadFd = NoFile /\ c.uploadedFiles = {} /\ opened = {}
  <2>1. Unspoiled(history) => opened = {client.uploadFd} \ {NoFile}
    BY <1>1 DEF UploadClosed, Unspoiled
  <2> QED BY <1>1, <1>4, <2>1 DEF NoUpload
<1>13. First(s) => Untouched(c) /\ "spoiled" \notin history
  <2> SUFFICES ASSUME First(s) PROVE Untouched(c) /\ "spoiled" \notin history
    OBVIOUS
  <2>1. Pristine(history) /\ FirstUpload(number)
    BY <1>4, <1>5 DEF First
  <2>2. FirstUpload(client.number + 1)
    <3> SUFFICES ASSUME NEW k \in 1 .. (client.number + 1) - 1 PROVE ~Uploads(sent[k])
      BY DEF FirstUpload
    <3>1. k \in 1 .. number - 1
      BY <1>2, <1>3
    <3> QED BY <2>1, <3>1 DEF FirstUpload
  <2>3. Untouched(client) /\ "spoiled" \notin history
    BY <1>1, <2>1, <2>2 DEF Counting
  <2> QED BY <1>4, <2>3 DEF Untouched, NoUpload
<1>9. Core(s)
  <2>4. Begun(s)
    BY <1>3, <1>4, <1>5, <1>13 DEF Begun, First, Untouched
  <2>1. Base(s)
    <3>1. DOMAIN disk \subseteq 1 .. number /\ last.number < number
      BY <1>2, <1>3
    <3>2. Unspoiled(s.history) => s.opened = {s.c.uploadFd} \ {NoFile}
      BY <1>4, <1>5, <1>8
    <3> QED BY <1>3, <1>4, <1>5, <1>6, <3>1, <3>2 DEF Base
  <2>2. Stores(s.c, DOMAIN s.disk)
    BY <1>4, <1>5, <1>7 DEF Stores
  <2>3. Unspoiled(s.history) => Holds(s.c)
    BY <1>5, <1>8 DEF Holds
  <2> QED BY <2>1, <2>2, <2>3, <2>4 DEF Core
<1>10. Unmixed(s)
  <2> SUFFICES ASSUME Unspoiled(history), Quiet(history), NEW k \in DOMAIN disk
               PROVE  Numbered(k, disk[k])
    BY <1>5 DEF Unmixed
  <2>1. history \cap {"spoiled", "pipelined"} = {} /\ KnownRedirects
    BY DEF Unspoiled, Quiet
  <2> QED BY <1>1, <2>1 DEF NotMixed, Numbered
<1>11. Placed(s, tail)
  BY <1>3, <1>4, <1>5 DEF Placed
<1>12. Continued(s, tail)
  <2>1. Stored(disk, number) = << >> /\ << >> \o tail = tail
    BY <1>3, <1>7, ConcatEmptySeq DEF Stored
  <2> QED BY <1>3, <1>4, <1>5, <2>1 DEF Continued
<1> QED BY <1>1, <1>4, <1>7, <1>8, <1>9, <1>10, <1>11, <1>12, <1>13 DEF ReadsNothing

\* A request that is refused before its body.
LEMMA FreshSettles ==
  ASSUME NEW l, NEW rest, Reading(l, rest), ~InBody(client),
         NEW number, NEW r, NEW b \in Seq(Item), Headed(number, r, b \o rest),
         NEW c, HeadRead(c, number, r), NEW s, LeavesAs(s, c)
  PROVE  Settles(s, rest)
<1>1. PICK tail : tail = b \o rest
  OBVIOUS
<1>2. Headed(number, r, tail)
  BY <1>1
<1>3. /\ Core(s) /\ Unmixed(s) /\ Placed(s, tail)
      /\ ~Feeding(c.chunked) /\ ~Feeding(c.multipart)
  BY <1>2, FreshIs
<1>4. rest \in Seq(Item) /\ s.c = c
  BY DEF Reading, LeavesAs
<1>5. Placed(s, rest)
  BY <1>1, <1>3, <1>4, Later DEF Placed
<1> QED BY <1>3, <1>4, <1>5 DEF Settles

\* The fields that requestHandler() sets while it reads a head.
LEMMA HeadSets ==
  ASSUME NEW s, NEW c, LeavesAs(s, c)
  PROVE  /\ \A r, n : LeavesAs([s EXCEPT !.c.request = r, !.c.number = n],
                               [c EXCEPT !.request = r, !.number = n])
         /\ \A res : LeavesAs([s EXCEPT !.c.res = res], [c EXCEPT !.res = res])
         /\ \A f, e : LeavesAs([s EXCEPT !.c.isChunked = f, !.c.expected = e],
                               [c EXCEPT !.isChunked = f, !.expected = e])
         /\ \A b : LeavesAs([s EXCEPT !.c.leftover = b, !.c.state = "PARSING_BODY"],
                            [c EXCEPT !.leftover = b, !.state = "PARSING_BODY"])
<1>1. s = [c |-> c, disk |-> disk, opened |-> opened, history |-> history,
           done |-> FALSE, script |-> FALSE]
  BY DEF LeavesAs
<1>2. ASSUME NEW r, NEW n
      PROVE  LeavesAs([s EXCEPT !.c.request = r, !.c.number = n],
                      [c EXCEPT !.request = r, !.number = n])
  <2>1. PICK d : d = [c EXCEPT !.request = r, !.number = n]
    OBVIOUS
  <2>2. PICK t : t = [s EXCEPT !.c.request = r, !.c.number = n]
    OBVIOUS
  <2>3. t = [c |-> d, disk |-> disk, opened |-> opened, history |-> history,
             done |-> FALSE, script |-> FALSE]
    BY <1>1, <2>1, <2>2
  <2>4. LeavesAs(t, d)
    BY <2>3 DEF LeavesAs
  <2> QED BY <2>1, <2>2, <2>4
<1>3. ASSUME NEW res
      PROVE  LeavesAs([s EXCEPT !.c.res = res],
                      [c EXCEPT !.res = res])
  <2>1. PICK d : d = [c EXCEPT !.res = res]
    OBVIOUS
  <2>2. PICK t : t = [s EXCEPT !.c.res = res]
    OBVIOUS
  <2>3. t = [c |-> d, disk |-> disk, opened |-> opened, history |-> history,
             done |-> FALSE, script |-> FALSE]
    BY <1>1, <2>1, <2>2
  <2>4. LeavesAs(t, d)
    BY <2>3 DEF LeavesAs
  <2> QED BY <2>1, <2>2, <2>4
<1>4. ASSUME NEW f, NEW e
      PROVE  LeavesAs([s EXCEPT !.c.isChunked = f, !.c.expected = e],
                      [c EXCEPT !.isChunked = f, !.expected = e])
  <2>1. PICK d : d = [c EXCEPT !.isChunked = f, !.expected = e]
    OBVIOUS
  <2>2. PICK t : t = [s EXCEPT !.c.isChunked = f, !.c.expected = e]
    OBVIOUS
  <2>3. t = [c |-> d, disk |-> disk, opened |-> opened, history |-> history,
             done |-> FALSE, script |-> FALSE]
    BY <1>1, <2>1, <2>2
  <2>4. LeavesAs(t, d)
    BY <2>3 DEF LeavesAs
  <2> QED BY <2>1, <2>2, <2>4
<1>5. ASSUME NEW b
      PROVE  LeavesAs([s EXCEPT !.c.leftover = b, !.c.state = "PARSING_BODY"],
                      [c EXCEPT !.leftover = b, !.state = "PARSING_BODY"])
  <2>1. PICK d : d = [c EXCEPT !.leftover = b, !.state = "PARSING_BODY"]
    OBVIOUS
  <2>2. PICK t : t = [s EXCEPT !.c.leftover = b, !.c.state = "PARSING_BODY"]
    OBVIOUS
  <2>3. t = [c |-> d, disk |-> disk, opened |-> opened, history |-> history,
             done |-> FALSE, script |-> FALSE]
    BY <1>1, <2>1, <2>2
  <2>4. LeavesAs(t, d)
    BY <2>3 DEF LeavesAs
  <2> QED BY <2>1, <2>2, <2>4
<1> QED BY <1>2, <1>3, <1>4, <1>5

\* What a client that has read a head goes on with.
LEMMA HeadReadIs ==
  ASSUME NEW c, NEW number, NEW r, HeadRead(c, number, r)
  PROVE  /\ \A res \in ResponseForm :
              Blank(res) /\ res.status # 201 => HeadRead([c EXCEPT !.res = res], number, r)
         /\ \A f \in BOOLEAN, e \in Nat : HeadRead([c EXCEPT !.isChunked = f, !.expected = e], number, r)
         /\ \A b \in Seq(Item) :
              HeadRead([c EXCEPT !.leftover = b, !.state = "PARSING_BODY"], number, r)
<1>1. /\ c \in ClientForm /\ c.number = number /\ c.request = r
      /\ KnownRedirects => Blank(c.res)
      /\ c.uploadFd = client.uploadFd /\ c.uploadedFiles = client.uploadedFiles
      /\ c.uploadedBytes = client.uploadedBytes
      /\ c.chunked = client.chunked /\ c.multipart = client.multipart
      /\ client.res.status # 201 => c.res.status # 201
  BY DEF HeadRead
<1>2. ASSUME NEW res \in ResponseForm, Blank(res) /\ res.status # 201
      PROVE  HeadRead([c EXCEPT !.res = res], number, r)
  <2>1. PICK d : d = [c EXCEPT !.res = res]
    OBVIOUS
  <2>2. d \in ClientForm
    BY <1>1, <2>1 DEF ClientForm
  <2>3. /\ d.number = c.number /\ d.request = c.request /\ d.res = res
        /\ d.uploadFd = c.uploadFd /\ d.uploadedFiles = c.uploadedFiles
        /\ d.uploadedBytes = c.uploadedBytes
        /\ d.chunked = c.chunked /\ d.multipart = c.multipart
    BY <1>1, <2>1 DEF ClientForm
  <2> QED BY <1>1, <1>2, <2>1, <2>2, <2>3 DEF HeadRead
<1>3. ASSUME NEW f \in BOOLEAN, NEW e \in Nat
      PROVE  HeadRead([c EXCEPT !.isChunked = f, !.expected = e], number, r)
  <2>1. PICK d : d = [c EXCEPT !.isChunked = f, !.expected = e]
    OBVIOUS
  <2>2. d \in ClientForm
    <3>1. c \in ClientForm
      BY <1>1
    <3> QED BY <2>1, <3>1 DEF ClientForm
  <2>3. /\ d.number = c.number /\ d.request = c.request /\ d.res = c.res
        /\ d.uploadFd = c.uploadFd /\ d.uploadedFiles = c.uploadedFiles
        /\ d.uploadedBytes = c.uploadedBytes
        /\ d.chunked = c.chunked /\ d.multipart = c.multipart
    BY <1>1, <2>1 DEF ClientForm
  <2> QED BY <1>1, <2>1, <2>2, <2>3 DEF HeadRead
<1>4. ASSUME NEW b \in Seq(Item)
      PROVE  HeadRead([c EXCEPT !.leftover = b, !.state = "PARSING_BODY"], number, r)
  <2>1. PICK d : d = [c EXCEPT !.leftover = b, !.state = "PARSING_BODY"]
    OBVIOUS
  <2>2. d \in ClientForm
    BY <1>1, <2>1 DEF ClientForm
  <2>3. /\ d.number = c.number /\ d.request = c.request /\ d.res = c.res
        /\ d.uploadFd = c.uploadFd /\ d.uploadedFiles = c.uploadedFiles
        /\ d.uploadedBytes = c.uploadedBytes
        /\ d.chunked = c.chunked /\ d.multipart = c.multipart
    BY <1>1, <2>1 DEF ClientForm
  <2> QED BY <1>1, <2>1, <2>2, <2>3 DEF HeadRead
<1> QED BY <1>2, <1>3, <1>4

\* What is read of the head of request r: with the page of a header that is missing
\* or empty, with the framing of its body, and with the bytes behind it.
LEMMA ReadHeadIs ==
  ASSUME NEW l, NEW rest, Reading(l, rest), ~InBody(client), \E k \in DOMAIN l : IsEnd(l[k]),
         NEW c, c = [client EXCEPT !.leftover = l], NEW s, LeavesAs(s, c), NEW o \in ReadHead(s)
  PROVE  Results(o, rest)
<1>1. /\ client \in ClientForm /\ l \in Seq(Item) /\ rest \in Seq(Item) /\ sent \in Seq(Requests)
      /\ KnownRedirects => Blank(client.res)
      /\ ~client.isChunked /\ s.c = c
  <2>1. KnownRedirects => Blank(client.res)
    BY DEF Reading, IInv, Clean, Blank
  <2> QED BY <2>1 DEF Reading, IInv, TypeOK, Bodies, ReadsNothing, LeavesAs
<1>2. /\ c \in ClientForm /\ c.leftover = l /\ c.isChunked = client.isChunked /\ c.res = client.res
      /\ c.uploadFd = client.uploadFd /\ c.uploadedFiles = client.uploadedFiles
      /\ c.uploadedBytes = client.uploadedBytes
      /\ c.chunked = client.chunked /\ c.multipart = client.multipart
  BY <1>1 DEF ClientForm
<1>3. PICK n : n = EndOfHead(l)
  OBVIOUS
<1>4. PICK number : number = l[n].req
  OBVIOUS
<1>5. PICK r : r = Parsed(l)
  OBVIOUS
<1>6. PICK b : b = SubSeq(l, n + 1, Len(l))
  OBVIOUS
<1>7. n \in 1 .. Len(l) /\ Headed(number, r, b \o rest)
  BY <1>3, <1>4, <1>5, <1>6, HeadIs
<1>8. b \in Seq(Item) /\ r \in SomeRequest /\ number \in Nat
  <2>1. Len(l) \in Nat /\ Len(sent) \in Nat
    BY <1>1, LenProperties
  <2>2. n \in 0 .. Len(l)
    BY <1>7, <2>1
  <2>3. b \in Seq(Item)
    BY <1>1, <1>6, <2>2, Split
  <2> QED BY <1>7, <2>1, <2>3 DEF Headed
<1>9. PICK c1 : c1 = [c EXCEPT !.request = r, !.number = number]
  OBVIOUS
<1>10. HeadRead(c1, number, r) /\ c1.leftover = l /\ ~c1.isChunked /\ c1.res = client.res
  <2>1. c1 \in ClientForm
    BY <1>2, <1>8, <1>9 DEF ClientForm
  <2>2. /\ c1.number = number /\ c1.request = r /\ c1.res = c.res /\ c1.leftover = l
        /\ c1.isChunked = c.isChunked
        /\ c1.uploadFd = c.uploadFd /\ c1.uploadedFiles = c.uploadedFiles
        /\ c1.uploadedBytes = c.uploadedBytes
        /\ c1.chunked = c.chunked /\ c1.multipart = c.multipart
    BY <1>2, <1>9 DEF ClientForm
  <2> QED BY <1>1, <1>2, <2>1, <2>2 DEF HeadRead
<1>11. PICK t : t = [s EXCEPT !.c.request = r, !.c.number = number]
  OBVIOUS
<1>12. LeavesAs(t, c1)
  <2>1. LeavesAs([s EXCEPT !.c.request = r, !.c.number = number],
                 [c EXCEPT !.request = r, !.number = number])
    BY HeadSets
  <2> QED BY <1>9, <1>11, <2>1
<1>13. PICK code : code = FramingError(r)
  OBVIOUS
<1>14. PICK e : e = [t EXCEPT !.c.res = Page(@, code)]
  OBVIOUS
<1>15. PICK u : u = IF r.complete THEN t ELSE [t EXCEPT !.c.res = Page(@, 400)]
  OBVIOUS
<1>16. PICK w : w = [u EXCEPT !.c.isChunked = IF r.te # "no" THEN r.te = "chunked" ELSE @,
                              !.c.expected = IF r.length # None THEN r.length ELSE 0]
  OBVIOUS
<1>17. PICK v : v = [w EXCEPT !.c.leftover = SubSeq(@, n + 1, Len(@)), !.c.state = "PARSING_BODY"]
  OBVIOUS
<1>18. \/ code # 0 /\ o \in handlerReturn(e)
       \/ o \in Refuse(w, 413) \/ o \in Refuse(w, 403)
       \/ code = 0 /\ o \in ReadBody(v)
  <2> DEFINE m == EndOfHead(s.c.leftover)
             q == Parsed(s.c.leftover)
             x1 == [s EXCEPT !.c.request = q, !.c.number = s.c.leftover[m].req]
             x2 == IF q.complete THEN x1 ELSE [x1 EXCEPT !.c.res = Page(@, 400)]
             x3 == [x2 EXCEPT !.c.isChunked = IF q.te # "no" THEN q.te = "chunked" ELSE @,
                              !.c.expected = IF q.length # None THEN q.length ELSE 0]
             x4 == [x3 EXCEPT !.c.leftover = SubSeq(@, m + 1, Len(@)), !.c.state = "PARSING_BODY"]
             x5 == [x1 EXCEPT !.c.res = Page(@, FramingError(q))]
  <2>1. ReadHead(s) =
          IF FramingError(q) # 0 THEN handlerReturn(x5)
          ELSE IF x3.c.expected > MaxBodySize THEN Refuse(x3, 413)
          ELSE IF q.method = "POST" /\ ~q.target.store /\ q.target.kind # "script" THEN Refuse(x3, 403)
          ELSE ReadBody(x4)
    BY Zenon DEF ReadHead
  <2>2. s.c.leftover = l
    BY <1>1, <1>2
  <2>3. m = n /\ q = r /\ x1 = t
    BY <1>3, <1>4, <1>5, <1>11, <2>2, Zenon
  <2> HIDE DEF m, q, x1
  <2>4. x2 = u /\ x5 = e
    BY <1>13, <1>14, <1>15, <2>3, Zenon
  <2> HIDE DEF x2, x5
  <2>5. x3 = w
    BY <1>16, <2>3, <2>4, Zenon
  <2> HIDE DEF x3
  <2>6. x4 = v
    BY <1>17, <2>3, <2>5, Zenon
  <2> HIDE DEF x4
  <2> QED BY <1>13, <2>1, <2>3, <2>4, <2>5, <2>6
<1>19. /\ Blank(Page(client.res, 400)) /\ Page(client.res, 400) \in ResponseForm
       /\ Page(client.res, 400).status = 400 /\ code # 201
       /\ code # 0 => /\ Page(client.res, code) \in ResponseForm /\ Blank(Page(client.res, code))
                      /\ Page(client.res, code).status = code
  <2>1. client.res \in ResponseForm /\ 400 \in Nat /\ 400 \in StatusEntries /\ 400 # 0
    BY <1>1 DEF ClientForm, StatusEntries
  <2>2. code # 201 /\ (code # 0 => code \in Nat /\ code \in StatusEntries)
    BY <1>13 DEF FramingError, StatusEntries
  <2> QED BY <2>1, <2>2, PageIs DEF Blank
<1>20. CASE code # 0 /\ o \in handlerReturn(e)
  <2>1. PICK res : res = Page(client.res, code)
    OBVIOUS
  <2>2. res \in ResponseForm /\ Blank(res) /\ res.status = code /\ res.status # 201
    BY <1>19, <1>20, <2>1
  <2>3. PICK ce : ce = [c1 EXCEPT !.res = res]
    OBVIOUS
  <2>4. HeadRead(ce, number, r)
    BY <1>10, <2>2, <2>3, HeadReadIs
  <2>5. e = [t EXCEPT !.c.res = res]
    BY <1>10, <1>12, <1>14, <2>1 DEF LeavesAs
  <2>6. LeavesAs(e, ce)
    BY <1>12, <2>3, <2>5, HeadSets
  <2>7. Settles(e, rest)
    BY <1>7, <1>8, <2>4, <2>6, FreshSettles
  <2>8. Fed(e)
    <3>1. e.c.res.status = code
      BY <1>10, <2>2, <2>3, <2>6 DEF LeavesAs, HeadRead, ClientForm
    <3> QED BY <1>20, <3>1 DEF Fed, Script, Whole
  <2> QED BY <1>20, <2>7, <2>8, ReturnIs DEF Results
<1>21. PICK c2 : c2 = IF r.complete THEN c1 ELSE [c1 EXCEPT !.res = Page(client.res, 400)]
  OBVIOUS
<1>22. /\ LeavesAs(u, c2) /\ HeadRead(c2, number, r) /\ c2.leftover = l /\ ~c2.isChunked
  <2>1. CASE r.complete
    BY <1>10, <1>12, <1>15, <1>21, <2>1
  <2>2. CASE ~r.complete
    <3>1. PICK res : res = Page(client.res, 400)
      OBVIOUS
    <3>2. c2 = [c1 EXCEPT !.res = res] /\ res \in ResponseForm /\ Blank(res) /\ res.status # 201
      BY <1>19, <1>21, <2>2, <3>1
    <3>3. u = [t EXCEPT !.c.res = res]
      BY <1>10, <1>12, <1>15, <2>2, <3>1 DEF LeavesAs
    <3>4. LeavesAs(u, c2)
      BY <1>12, <3>2, <3>3, HeadSets
    <3>5. HeadRead(c2, number, r)
      BY <1>10, <3>2, HeadReadIs
    <3>6. c2.leftover = c1.leftover /\ c2.isChunked = c1.isChunked
      BY <1>10, <3>2 DEF HeadRead, ClientForm
    <3> QED BY <1>10, <3>4, <3>5, <3>6
  <2> QED BY <2>1, <2>2
<1>23. PICK f : f = IF r.te # "no" THEN r.te = "chunked" ELSE c2.isChunked
  OBVIOUS
<1>24. PICK x : x = IF r.length # None THEN r.length ELSE 0
  OBVIOUS
<1>25. f \in BOOLEAN /\ x \in Nat /\ (f <=> r.te = "chunked")
  <2>1. r.length # None => r.length \in Nat
    BY <1>8, RequestIs
  <2>2. c2.isChunked \in BOOLEAN
    BY <1>22 DEF HeadRead, ClientForm
  <2> QED BY <1>22, <1>23, <1>24, <2>1, <2>2
<1>26. PICK c3 : c3 = [c2 EXCEPT !.isChunked = f, !.expected = x]
  OBVIOUS
<1>27. LeavesAs(w, c3) /\ HeadRead(c3, number, r) /\ c3.leftover = l /\ c3.isChunked = f /\ c3.expected = x
  <2>1. w = [u EXCEPT !.c.isChunked = f, !.c.expected = x]
    BY <1>16, <1>22, <1>23, <1>24 DEF LeavesAs
  <2>2. LeavesAs(w, c3)
    <3>1. LeavesAs([u EXCEPT !.c.isChunked = f, !.c.expected = x],
                   [c2 EXCEPT !.isChunked = f, !.expected = x])
      BY <1>22, HeadSets
    <3> QED BY <1>26, <2>1, <3>1
  <2>3. HeadRead(c3, number, r)
    BY <1>22, <1>25, <1>26, HeadReadIs
  <2>4. c2 \in ClientForm
    BY <1>22 DEF HeadRead
  <2>5. c3.leftover = c2.leftover /\ c3.isChunked = f /\ c3.expected = x
    BY <1>26, <2>4 DEF ClientForm
  <2> QED BY <1>22, <2>2, <2>3, <2>5
<1>28. CASE o \in Refuse(w, 413) \/ o \in Refuse(w, 403)
  <2>1. Settles(w, rest)
    BY <1>7, <1>8, <1>27, FreshSettles
  <2>2. 413 \in StatusEntries /\ 403 \in StatusEntries
    BY DEF StatusEntries
  <2> QED BY <1>28, <2>1, <2>2, RefuseIs DEF Results
<1>29. CASE code = 0 /\ o \in ReadBody(v)
  <2>1. PICK c4 : c4 = [c3 EXCEPT !.leftover = b, !.state = "PARSING_BODY"]
    OBVIOUS
  <2>2. v = [w EXCEPT !.c.leftover = b, !.c.state = "PARSING_BODY"]
    BY <1>6, <1>17, <1>27 DEF LeavesAs
  <2>3. LeavesAs(v, c4)
    <3>1. LeavesAs([w EXCEPT !.c.leftover = b, !.c.state = "PARSING_BODY"],
                   [c3 EXCEPT !.leftover = b, !.state = "PARSING_BODY"])
      BY <1>27, HeadSets
    <3> QED BY <2>1, <2>2, <3>1
  <2>4. HeadRead(c4, number, r)
    BY <1>8, <1>27, <2>1, HeadReadIs
  <2>5. /\ c4.leftover = b /\ c4.isChunked = f /\ c4.expected = x /\ c4.state = "PARSING_BODY"
    BY <1>27, <2>1 DEF HeadRead, ClientForm
  <2>6. PICK tail : tail = b \o rest
    OBVIOUS
  <2>7. /\ Core(v) /\ Unmixed(v) /\ Placed(v, tail) /\ Continued(v, tail)
        /\ ~Feeding(c4.chunked) /\ ~Feeding(c4.multipart)
        /\ number \notin DOMAIN disk /\ (Unspoiled(history) => c4.uploadFd = NoFile)
        /\ First(v) => Untouched(c4)
    BY <1>7, <2>3, <2>4, <2>6, FreshIs
  <2>8. /\ v.c = c4 /\ v.disk = disk /\ v.history = history /\ v.done = FALSE
        /\ c4.number = number /\ c4.request = r
    BY <2>3, <2>4 DEF LeavesAs, HeadRead
  <2>10. Ready(v)
    <3>1. Stored(v.disk, v.c.number) = << >> /\ Len(<< >>) = 0
      BY <2>7, <2>8 DEF Stored
    <3> QED BY <2>7, <2>8, <3>1 DEF Ready, Untouched
  <2>11. FramingError(r) = 0
    BY <1>13, <1>29
  <2>9. Body(v, rest)
    BY <1>24, <1>25, <2>5, <2>6, <2>7, <2>8, <2>10, <2>11 DEF Body, InBody
  <2> QED BY <1>1, <1>29, <2>9, ReadBodyIs
<1> QED BY <1>18, <1>20, <1>28, <1>29

-----------------------------------------------------------------------------
(* requestHandler()                                                         *)

\* A body goes on.
LEMMA InBodyIs ==
  ASSUME NEW l, NEW rest, Reading(l, rest), InBody(client),
         NEW c, c = [client EXCEPT !.leftover = l], NEW s, LeavesAs(s, c)
  PROVE  Body(s, rest)
<1>1. /\ TypeOK /\ Numbers /\ Reads(client) /\ Stores(client, DOMAIN disk)
      /\ Unspoiled(history) => Owns(client, DOMAIN disk)
      /\ Aligned /\ InSequence /\ phase = "reading"
      /\ l \in Seq(Item) /\ rest \in Seq(Item) /\ l \o rest = Wire
      /\ KnownRedirects => UploadClosed /\ NotMixed /\ Known(client.request) /\ Blank(client.res)
      /\ Counting
  BY DEF Reading, IInv, Bodies, Uploading, Clean, Blank
<1>2. client \in ClientForm
  BY <1>1 DEF TypeOK
<1>3. /\ Files(disk) /\ opened \subseteq Nat /\ history \subseteq Events
      /\ client.number \in Nat /\ last.number \in Nat /\ Len(sent) \in Nat
      /\ DOMAIN disk \subseteq 1 .. client.number /\ last.number < client.number
      /\ client.number <= Len(sent)
  BY <1>1, <1>2, LenProperties DEF TypeOK, Numbers, ClientForm
<1>4. c \in ClientForm
  BY <1>1, <1>2 DEF ClientForm
<1>5. /\ c.leftover = l /\ c.number = client.number /\ c.request = client.request /\ c.res = client.res
      /\ c.uploadFd = client.uploadFd /\ c.uploadedFiles = client.uploadedFiles
      /\ c.uploadPath = client.uploadPath /\ c.state = client.state
      /\ c.isChunked = client.isChunked /\ c.expected = client.expected
      /\ c.chunked = client.chunked /\ c.multipart = client.multipart
      /\ c.uploadedBytes = client.uploadedBytes
  BY <1>1, <1>2 DEF ClientForm
<1>6. /\ s.c = c /\ s.disk = disk /\ s.opened = opened /\ s.history = history
      /\ s.done = FALSE /\ s.script = FALSE
  BY DEF LeavesAs
<1>7. Outcome(s)
  <2>1. s = [c |-> s.c, disk |-> s.disk, opened |-> s.opened, history |-> s.history,
             done |-> s.done, script |-> s.script]
    BY DEF LeavesAs
  <2> QED BY <1>3, <1>4, <1>6, <2>1 DEF Outcome
<1>16. client.number \in 1 .. Len(sent) /\ client.request.method = "POST" /\ FramingError(client.request) = 0
  BY <1>1, <1>3 DEF Reads
<1>17. ASSUME Pristine(history)
       PROVE  /\ client.request.target.redirect # 201
              /\ Uploads(client.request) /\ client.request.multipart => client.request.size > 0
  <2>1. client.request = sent[client.number]
    BY <1>1, <1>17 DEF Pristine, Aligned
  <2>2. client.request \in Requests
    <3>1. sent \in Seq(Requests)
      BY <1>1 DEF TypeOK
    <3> QED BY <1>16, <2>1, <3>1, ElementOfSeq
  <2> QED BY <1>17, <2>2, ParsedIs DEF Pristine
<1>18. ASSUME Pristine(history), FirstUpload(client.number)
       PROVE  /\ client.res.status # 201 /\ "spoiled" \notin history
              /\ Uploads(client.request) => Counts(client, Len(Stored(disk, client.number)))
              /\ Uploads(client.request) \/ Untouched(c)
  <2>1. CASE client.request.target.store
    <3>1. Counts(client, Len(Stored(disk, client.number))) /\ "spoiled" \notin history
      BY <1>1, <1>18, <2>1 DEF Counting
    <3> QED BY <1>16, <2>1, <3>1 DEF Counts, Uploads
  <2>2. CASE ~client.request.target.store
    <3>1. client.request = sent[client.number]
      BY <1>1, <1>18 DEF Pristine, Aligned
    <3>2. FirstUpload(client.number + 1)
      BY <1>3, <1>16, <1>18, <2>2, <3>1, FirstIs DEF Uploads
    <3>3. Untouched(client) /\ "spoiled" \notin history
      BY <1>1, <1>18, <3>2 DEF Counting
    <3>4. Untouched(c)
      BY <1>5, <3>3 DEF Untouched, NoUpload
    <3> QED BY <2>2, <3>3, <3>4 DEF Untouched, Uploads
  <2> QED BY <2>1, <2>2
<1>8. Core(s)
  <2>1. Base(s)
    <3>1. client.number \in 1 .. Len(sent)
      BY <1>3
    <3>2. Unspoiled(history) => opened = {client.uploadFd} \ {NoFile}
      BY <1>1 DEF UploadClosed, Unspoiled
    <3> QED BY <1>1, <1>3, <1>5, <1>6, <1>7, <3>1, <3>2 DEF Base
  <2>2. Stores(s.c, DOMAIN s.disk)
    BY <1>1, <1>5, <1>6 DEF Stores
  <2>3. Unspoiled(s.history) => Holds(s.c)
    <3>1. Unspoiled(history) => Owns(client, DOMAIN disk)
      BY <1>1
    <3>2. client.isChunked <=> client.request.te = "chunked"
      BY <1>1 DEF Reads
    <3> QED BY <1>5, <1>6, <3>1, <3>2 DEF Holds, Owns, IsNamed
  <2>4. Begun(s)
    BY <1>5, <1>6, <1>16, <1>17, <1>18 DEF Begun, First
  <2> QED BY <2>1, <2>2, <2>3, <2>4 DEF Core
<1>9. Unmixed(s)
  <2> SUFFICES ASSUME Unspoiled(history), Quiet(history), NEW k \in DOMAIN disk
               PROVE  Numbered(k, disk[k])
    BY <1>6 DEF Unmixed
  <2>1. history \cap {"spoiled", "pipelined"} = {} /\ KnownRedirects
    BY DEF Unspoiled, Quiet
  <2> QED BY <1>1, <2>1 DEF NotMixed, Numbered
<1>10. PICK w : w = Wire
  OBVIOUS
<1>11. Placed(s, w)
  BY <1>1, <1>5, <1>6, <1>10 DEF Placed, Numbers, Aligned, Quiet, Bytes, Asked
<1>12. Continued(s, w)
  BY <1>1, <1>5, <1>6, <1>10 DEF Continued, InSequence, Quiet, Spells
<1>19. Ready(s)
  <2> SUFFICES ASSUME First(s), Uploads(s.c.request) PROVE Ready(s)
    BY DEF Ready
  <2>1. PICK n : n = Len(Stored(disk, client.number))
    OBVIOUS
  <2>2. Counts(client, n)
    BY <1>5, <1>6, <1>18, <2>1 DEF First
  <2>3. /\ client.isChunked => Feeding(client.chunked)
        /\ ~client.isChunked /\ client.request.multipart => Feeding(client.multipart)
    BY <1>1, <1>5, <1>6 DEF Reads, Uploads
  <2> QED BY <1>5, <1>6, <2>1, <2>2, <2>3 DEF Ready, Counts, Feeding
<1>13. s.c.leftover \o rest = w
  BY <1>1, <1>5, <1>6, <1>10
<1>14. /\ ~s.done /\ InBody(s.c) /\ FramingError(s.c.request) = 0
       /\ s.c.isChunked <=> s.c.request.te = "chunked"
       /\ s.c.request.length # None => s.c.expected = s.c.request.length
       /\ Feeding(s.c.chunked) => s.c.request.method = "POST" /\ s.c.request.target.store /\ s.c.isChunked
       /\ Feeding(s.c.multipart) =>
            s.c.request.method = "POST" /\ s.c.request.target.store /\ ~s.c.isChunked /\ s.c.request.multipart
  BY <1>1, <1>5, <1>6 DEF InBody, Reads
<1>15. ASSUME Unspoiled(s.history)
       PROVE  /\ Feeding(s.c.chunked) => s.c.uploadFd # NoFile
              /\ s.c.uploadFd # NoFile => s.c.number \in DOMAIN s.disk
              /\ s.c.request.target.store /\ s.c.number \in DOMAIN s.disk =>
                   \/ Feeding(s.c.chunked)
                   \/ ~s.c.isChunked /\ (s.c.request.multipart \/ s.c.uploadFd # NoFile)
  BY <1>1, <1>5, <1>6, <1>15 DEF Reads, Owns
<1> QED BY <1>8, <1>9, <1>11, <1>12, <1>13, <1>14, <1>15, <1>19 DEF Body

\* What requestHandler() leaves: an answer, a body that waits, or a head that does.
LEMMA RequestHandlerIs ==
  ASSUME NEW l, NEW rest, Reading(l, rest), NEW items, l = client.leftover \o items,
         NEW o \in requestHandler(items)
  PROVE  \/ Results(o, rest)
         \/ ~InBody(client) /\ LeavesAs(o, [client EXCEPT !.leftover = l])
<1>1. PICK c : c = [client EXCEPT !.leftover = l]
  OBVIOUS
<1>2. PICK s : s = Leaves(c)
  OBVIOUS
<1>3. LeavesAs(s, c)
  BY <1>2 DEF Leaves, LeavesAs
<1>4. client \in ClientForm
  BY DEF Reading, IInv, TypeOK
<1>5. s.c.leftover = l
  BY <1>1, <1>3, <1>4 DEF LeavesAs, ClientForm
<1>6. \/ InBody(client) /\ o \in ReadBody(s)
      \/ ~InBody(client) /\ (\E n \in DOMAIN l : IsEnd(l[n])) /\ o \in ReadHead(s)
      \/ ~InBody(client) /\ o = s
  <2>1. PICK e : e = Leaves([client EXCEPT !.leftover = @ \o items])
    OBVIOUS
  <2>2. requestHandler(items) =
          IF client.state = "PARSING_BODY" THEN ReadBody(e)
          ELSE IF \E n \in DOMAIN e.c.leftover : IsEnd(e.c.leftover[n]) THEN ReadHead(e)
          ELSE {e}
    BY <2>1, Zenon DEF requestHandler
  <2>3. e = s
    BY <1>1, <1>2, <2>1, Zenon
  <2> QED BY <1>5, <2>2, <2>3 DEF InBody
<1>7. CASE InBody(client) /\ o \in ReadBody(s)
  <2>1. Body(s, rest)
    BY <1>1, <1>3, <1>7, InBodyIs
  <2>2. rest \in Seq(Item)
    BY DEF Reading
  <2> QED BY <1>7, <2>1, <2>2, ReadBodyIs
<1>8. CASE ~InBody(client) /\ (\E n \in DOMAIN l : IsEnd(l[n])) /\ o \in ReadHead(s)
  BY <1>1, <1>3, <1>8, ReadHeadIs
<1> QED BY <1>1, <1>3, <1>6, <1>7, <1>8

-----------------------------------------------------------------------------
(* The steps: readRequest()                                                 *)

\* What readRequest makes of an outcome that answers the request, and of one that
\* does not.
AnswerStep(o, rest) ==
  /\ stream' = rest /\ client' = o.c /\ disk' = o.disk /\ opened' = o.opened /\ sent' = sent
  /\ history' = IF \E k \in DOMAIN rest : rest[k].req = o.c.number
                 THEN o.history \cup {"early"} ELSE o.history
  /\ phase' = IF o.script THEN "script" ELSE "answering"
  /\ answered' = answered + 1
  /\ last' = [request |-> o.c.request, number |-> o.c.number, res |-> o.c.res]
WaitStep(o, rest) ==
  /\ stream' = rest /\ client' = o.c /\ disk' = o.disk /\ opened' = o.opened /\ sent' = sent
  /\ history' = o.history /\ phase' = "reading" /\ answered' = answered /\ last' = last

\* A request is answered.
LEMMA AnswerKeeps ==
  ASSUME IInv, NEW rest \in Seq(Item), NEW o, Done(o, rest), AnswerStep(o, rest)
  PROVE  IInv'
<1>1. /\ o.c \in ClientForm /\ Files(o.disk) /\ o.opened \subseteq Nat /\ o.history \subseteq Events
      /\ o.script \in BOOLEAN
      /\ o.c.number \in 1 .. Len(sent) /\ DOMAIN o.disk \subseteq 1 .. o.c.number
      /\ KnownRedirects => Known(o.c.request) /\ Blank(o.c.res)
      /\ Unspoiled(o.history) => o.opened = {o.c.uploadFd} \ {NoFile}
      /\ Unmixed(o) /\ Placed(o, rest)
      /\ ~InBody(o.c) /\ o.c.leftover = << >> /\ ReadsNothing(o.c)
      /\ Unspoiled(o.history) =>
           /\ NoUpload(o.c) \/ (~o.script /\ ~o.c.res.stream /\ o.c.res.body = << >>)
           /\ Gone(o)
      /\ o.script => Script(o)
      /\ Finished(o)
  BY DEF Done, Base, Outcome
<1>2. /\ sent \in Seq(Requests) /\ answered \in Nat /\ Len(sent) \in Nat
  BY LenProperties DEF IInv, TypeOK
<1>3. /\ stream' = rest /\ client' = o.c /\ disk' = o.disk /\ opened' = o.opened /\ sent' = sent
      /\ phase' = IF o.script THEN "script" ELSE "answering"
      /\ answered' = answered + 1
      /\ last' = [request |-> o.c.request, number |-> o.c.number, res |-> o.c.res]
  BY DEF AnswerStep
<1>4. /\ o.history \subseteq history' /\ history' \subseteq Events
      /\ "early" \notin history' => \A k \in DOMAIN rest : rest[k].req # o.c.number
      /\ "spoiled" \in history' => "spoiled" \in o.history
  BY <1>1 DEF AnswerStep, Events
<1>5. PICK h : h = history'
  OBVIOUS
<1>6. Unspoiled(h) => Unspoiled(o.history)
  BY <1>4, <1>5 DEF Unspoiled
<1>7. Quiet(h) => Quiet(o.history)
  BY <1>4, <1>5 DEF Quiet
<1>8. Wire' = rest
  <2>1. << >> \o rest = rest
    BY ConcatEmptySeq
  <2> QED BY <1>1, <1>3, <2>1 DEF Wire
<1>9. TypeOK'
  <2>1. o.c.request \in SomeRequest /\ o.c.number \in Nat /\ o.c.res \in ResponseForm
    BY <1>1 DEF ClientForm
  <2>2. last' \in [request : SomeRequest, number : Nat, res : ResponseForm]
    BY <1>3, <2>1
  <2>3. answered' \in Nat /\ phase' \in {"reading", "script", "answering", "closed"}
    BY <1>2, <1>3
  <2> QED BY <1>1, <1>2, <1>3, <1>4, <2>2, <2>3 DEF TypeOK, Files
<1>10. Numbers'
  <2>1. last'.number = o.c.number
    BY <1>3
  <2>2. Heads(rest, o.c.number)
    BY <1>1 DEF Placed
  <2>3. Heads(Wire, client.number)'
    BY <1>3, <1>8, <2>2 DEF Heads
  <2> QED BY <1>1, <1>2, <1>3, <2>1, <2>3 DEF Numbers, InBody
<1>11. Bodies'
  BY <1>1, <1>3 DEF Bodies, InBody, ReadsNothing, Feeding, Feeds
<1>12. Uploading'
  <2>1. ~InBody(client')
    BY <1>1, <1>3
  <2>2. ASSUME Unspoiled(h)
        PROVE  NoUpload(o.c) \/ (phase' = "answering" /\ ~o.c.res.stream /\ o.c.res.body = << >>)
    BY <1>1, <1>3, <1>6, <2>2
  <2> QED BY <1>3, <1>5, <2>1, <2>2 DEF Uploading, Unspoiled, InBody, NoUpload
<1>13. Clean'
  BY <1>1, <1>3 DEF Clean, Blank, Known
<1>14. ASSUME Quiet(h)
       PROVE  /\ o.c.number = Len(sent) /\ answered = o.c.number - 1
              /\ "early" \notin h => o.c.request = sent[o.c.number]
              /\ \A k \in DOMAIN rest : rest[k].part = "body"
              /\ "early" \notin h => rest = << >>
  <2>1. /\ o.c.number = Len(sent) /\ answered = o.c.number - 1
        /\ Asked(o.history, o.c.number, o.c.request)
        /\ Bytes(rest, o.c.number)
    BY <1>1, <1>7, <1>14 DEF Placed
  <2>2. ASSUME "early" \notin h PROVE rest = << >>
    <3>1. SUFFICES ASSUME rest # << >> PROVE FALSE
      OBVIOUS
    <3>2. Len(rest) \in Nat \ {0} /\ DOMAIN rest = 1 .. Len(rest)
      BY <3>1, EmptySeq, LenProperties
    <3>3. 1 \in DOMAIN rest
      BY <3>2
    <3> QED BY <1>4, <1>5, <2>1, <2>2, <3>3 DEF Bytes
  <2>3. "early" \notin h => "early" \notin o.history
    BY <1>4, <1>5
  <2> QED BY <2>1, <2>2, <2>3 DEF Asked, Bytes
<1>15. Aligned'
  <2>1. Quiet(h) => Residue(Wire)' /\ answered' = Len(sent')
    BY <1>2, <1>3, <1>5, <1>8, <1>14 DEF Residue
  <2> QED BY <1>1, <1>3, <1>5, <2>1 DEF Aligned, Quiet, InBody
<1>16. InSequence'
  BY <1>1, <1>3 DEF InSequence, InBody
<1>17. InStep'
  <2>1. last'.request = o.c.request /\ last'.number = o.c.number
    BY <1>3
  <2>2. Quiet(h) /\ "early" \notin h => o.c.request = sent[o.c.number] /\ o.c.number = answered + 1
    BY <1>2, <1>14
  <2> QED BY <1>3, <1>5, <2>1, <2>2 DEF InStep, Quiet
<1>20. Pristine(h) =>
         /\ FirstUpload(o.c.number + 1) => Untouched(o.c) /\ "spoiled" \notin h
         /\ FirstUpload(o.c.number) /\ o.c.res.status = 201 => Created(o)
  <2>1. Pristine(h) => Pristine(o.history)
    BY <1>7 DEF Pristine, Quiet
  <2> QED BY <1>1, <1>4, <1>5, <2>1 DEF Finished
<1>21. Counting'
  BY <1>1, <1>3, <1>5, <1>20 DEF Counting, FirstUpload
<1>22. Ended'
  <2>1. last'.number = o.c.number /\ last'.res = o.c.res
    BY <1>3
  <2>2. FirstUpload(o.c.number)' <=> FirstUpload(o.c.number)
    BY <1>3 DEF FirstUpload
  <2>3. Content(o.c.number)' = Content(o.c.number)
    BY <1>3 DEF Content
  <2> SUFFICES ASSUME Pristine(h), o.c.res.status = 201, FirstUpload(o.c.number)
               PROVE  /\ ~o.script /\ ~o.c.res.stream /\ o.c.res.body = << >>
                      /\ o.c.number \in DOMAIN o.disk /\ o.disk[o.c.number] = Content(o.c.number)
    BY <1>3, <1>5, <2>1, <2>2, <2>3 DEF Ended, FirstUpload, Content
  <2> QED BY <1>20 DEF Created
<1>18. ScriptInput'
  <2>1. last'.request = o.c.request
    BY <1>3
  <2>2. phase' = "script" => Script(o)
    BY <1>1, <1>3
  <2> QED BY <1>3, <2>1, <2>2 DEF ScriptInput, Script
<1>19. ASSUME KnownRedirects PROVE UploadClosed' /\ RefusedGone' /\ NotMixed'
  <2>1. "spoiled" \notin h => Unspoiled(h)
    BY <1>19 DEF Unspoiled
  <2>2. UploadClosed'
    <3>1. "spoiled" \notin h => o.opened = {o.c.uploadFd} \ {NoFile}
      BY <1>1, <1>6, <2>1
    <3> QED BY <1>3, <1>5, <3>1 DEF UploadClosed
  <2>3. RefusedGone'
    <3>1. last'.request = o.c.request /\ last'.number = o.c.number /\ last'.res = o.c.res
      BY <1>3
    <3>2. "spoiled" \notin h => Gone(o)
      BY <1>1, <1>6, <2>1
    <3>3. "not removed" \in o.history => "not removed" \in h
      BY <1>4, <1>5
    <3> QED BY <1>3, <1>5, <3>1, <3>2, <3>3 DEF RefusedGone, Gone, IsNamed, Uploads
  <2>4. NotMixed'
    <3>1. ASSUME h \cap {"spoiled", "pipelined"} = {}
          PROVE  \A n \in DOMAIN o.disk : Numbered(n, o.disk[n])
      <4>1. Unspoiled(h) /\ Quiet(h)
        BY <2>1, <3>1 DEF Quiet
      <4> QED BY <1>1, <1>6, <1>7, <4>1 DEF Unmixed
    <3> QED BY <1>3, <1>5, <3>1 DEF NotMixed, Numbered
  <2> QED BY <2>2, <2>3, <2>4
<1> QED BY <1>9, <1>10, <1>11, <1>12, <1>13, <1>15, <1>16, <1>17, <1>18, <1>19, <1>21, <1>22 DEF IInv

\* It is not: the body goes on.
LEMMA WaitKeeps ==
  ASSUME IInv, phase = "reading", NEW rest \in Seq(Item), NEW o, Waits(o, rest), WaitStep(o, rest)
  PROVE  IInv'
<1>1. PICK w : w = o.c.leftover \o rest
  OBVIOUS
<1>2. /\ o.c \in ClientForm /\ Files(o.disk) /\ o.opened \subseteq Nat /\ o.history \subseteq Events
      /\ last.number < o.c.number /\ o.c.number \in 1 .. Len(sent)
      /\ DOMAIN o.disk \subseteq 1 .. o.c.number /\ DOMAIN o.disk \subseteq DOMAIN disk \cup {o.c.number}
      /\ history \subseteq o.history
      /\ KnownRedirects => Known(o.c.request) /\ Blank(o.c.res)
      /\ Unspoiled(o.history) => o.opened = {o.c.uploadFd} \ {NoFile}
      /\ Stores(o.c, DOMAIN o.disk)
      /\ Unmixed(o) /\ Placed(o, w) /\ Continued(o, w)
      /\ InBody(o.c) /\ Reads(o.c)
      /\ Unspoiled(o.history) => Owns(o.c, DOMAIN o.disk)
      /\ Core(o) /\ Begun(o) /\ Tallies(o)
  BY <1>1 DEF Waits, Core, Base, Outcome
<1>3. /\ TypeOK /\ InStep /\ ScriptInput /\ Ended
      /\ KnownRedirects => RefusedGone
      /\ last.number \in Nat /\ Len(sent) \in Nat /\ sent \in Seq(Requests) /\ answered \in Nat
  BY LenProperties DEF IInv, TypeOK
<1>4. /\ stream' = rest /\ client' = o.c /\ disk' = o.disk /\ opened' = o.opened /\ sent' = sent
      /\ history' = o.history /\ phase' = "reading" /\ answered' = answered /\ last' = last
  BY DEF WaitStep
<1>5. Wire' = w
  BY <1>1, <1>4 DEF Wire
<1>6. TypeOK'
  BY <1>2, <1>3, <1>4 DEF TypeOK, Files
<1>7. Numbers'
  <2>1. Heads(w, o.c.number)
    BY <1>2 DEF Placed
  <2>2. Heads(Wire, client.number)'
    BY <1>4, <1>5, <2>1 DEF Heads
  <2> QED BY <1>2, <1>3, <1>4, <2>2 DEF Numbers, InBody
<1>8. Bodies'
  BY <1>2, <1>4 DEF Bodies, InBody, Reads, Feeding, Feeds
<1>9. Uploading'
  BY <1>2, <1>4 DEF Uploading, InBody, Stores, Owns, Unspoiled
<1>10. Clean'
  BY <1>2, <1>4 DEF Clean, Blank, Known
<1>11. Aligned'
  <2>1. Quiet(o.history) =>
          /\ o.c.number = Len(sent) /\ answered = o.c.number - 1
          /\ o.c.request = sent[o.c.number] /\ Bytes(w, o.c.number)
    <3>1. o.c.request \in SomeRequest /\ o.c.request.method = "POST"
      BY <1>2 DEF ClientForm, Reads
    <3> QED BY <1>2, <3>1, PostIs DEF Placed
  <2> QED BY <1>2, <1>4, <1>5, <2>1 DEF Aligned, Quiet, InBody, Bytes
<1>12. InSequence'
  <2>1. ASSUME Unspoiled(o.history), Quiet(o.history), o.c.request.target.store
        PROVE  Spells(o.c.number, Stored(o.disk, o.c.number) \o w, o.c.request.size)
    BY <1>2, <2>1 DEF Continued
  <2> QED BY <1>4, <1>5, <2>1 DEF InSequence, Quiet, Unspoiled, Spells, Numbered, Stored
<1>13. InStep'
  BY <1>2, <1>3, <1>4 DEF InStep
<1>14. ScriptInput'
  BY <1>4 DEF ScriptInput
<1>16. ASSUME Pristine(o.history), FirstUpload(o.c.number + 1)
       PROVE  Untouched(o.c) /\ "spoiled" \notin o.history
  <2>1. o.c.number \in Nat \ {0}
    BY <1>2, <1>3
  <2>2. First(o) /\ ~Uploads(sent[o.c.number])
    BY <1>16, <2>1, FirstIs DEF First
  <2>3. ~Uploads(o.c.request)
    BY <1>2, <1>16, <2>2, UploadIs
  <2> QED BY <1>2, <2>2, <2>3 DEF Begun
<1>17. ASSUME Pristine(o.history), FirstUpload(o.c.number), o.c.request.target.store
       PROVE  Counts(o.c, Len(Stored(o.disk, o.c.number))) /\ "spoiled" \notin o.history
  BY <1>2, <1>17 DEF Begun, Tallies, First
<1>18. Counting'
  BY <1>4, <1>16, <1>17 DEF Counting, FirstUpload
<1>19. Ended'
  <2>1. Pristine(o.history) => Pristine(history)
    BY <1>2 DEF Pristine
  <2> QED BY <1>3, <1>4, <2>1 DEF Ended, FirstUpload
<1>15. ASSUME KnownRedirects PROVE UploadClosed' /\ RefusedGone' /\ NotMixed'
  <2>1. UploadClosed'
    BY <1>2, <1>4, <1>15 DEF UploadClosed, Unspoiled
  <2>2. RefusedGone'
    <3>1. last.number \in DOMAIN o.disk => last.number \in DOMAIN disk
      BY <1>2, <1>3
    <3> QED BY <1>2, <1>3, <1>4, <1>15, <3>1 DEF RefusedGone
  <2>3. NotMixed'
    <3>1. ASSUME o.history \cap {"spoiled", "pipelined"} = {}
          PROVE  \A n \in DOMAIN o.disk : Numbered(n, o.disk[n])
      <4>1. Unspoiled(o.history) /\ Quiet(o.history)
        BY <1>15, <3>1 DEF Quiet, Unspoiled
      <4> QED BY <1>2, <4>1 DEF Unmixed
    <3> QED BY <1>4, <3>1 DEF NotMixed, Numbered
  <2> QED BY <2>1, <2>2, <2>3
<1> QED BY <1>6, <1>7, <1>8, <1>9, <1>10, <1>11, <1>12, <1>13, <1>14, <1>15, <1>18, <1>19 DEF IInv

\* Nothing but bytes before the end of a head came.
LEMMA HeadWaitKeeps ==
  ASSUME IInv, phase = "reading", ~InBody(client),
         NEW l \in Seq(Item), NEW rest \in Seq(Item), l \o rest = Wire,
         NEW c, c = [client EXCEPT !.leftover = l], NEW o, LeavesAs(o, c), WaitStep(o, rest)
  PROVE  IInv'
<1>1. /\ TypeOK /\ Numbers /\ Bodies /\ Uploading /\ Clean /\ Aligned /\ InStep
      /\ Counting /\ Ended
      /\ KnownRedirects => UploadClosed /\ RefusedGone /\ NotMixed
  BY DEF IInv
<1>2. client \in ClientForm
  BY <1>1 DEF TypeOK
<1>3. /\ c \in ClientForm /\ c.leftover = l /\ c.state = client.state
      /\ c.uploadedBytes = client.uploadedBytes
      /\ c.number = client.number /\ c.request = client.request /\ c.res = client.res
      /\ c.isChunked = client.isChunked /\ c.chunked = client.chunked /\ c.multipart = client.multipart
      /\ c.uploadFd = client.uploadFd /\ c.uploadedFiles = client.uploadedFiles
  BY <1>2 DEF ClientForm
<1>4. /\ stream' = rest /\ client' = c /\ disk' = disk /\ opened' = opened /\ sent' = sent
      /\ history' = history /\ phase' = "reading" /\ answered' = answered /\ last' = last
  BY DEF LeavesAs, WaitStep
<1>5. Wire' = Wire
  <2>1. Wire' = l \o rest
    BY <1>3, <1>4 DEF Wire
  <2> QED BY <2>1
<1>6. ~InBody(c)
  BY <1>3 DEF InBody
<1>7. TypeOK'
  BY <1>1, <1>3, <1>4 DEF TypeOK, Files
<1>8. Numbers'
  <2>1. Heads(Wire, client.number)'
    BY <1>1, <1>3, <1>4, <1>5 DEF Numbers, Heads
  <2> QED BY <1>1, <1>3, <1>4, <1>6, <2>1 DEF Numbers, InBody
<1>9. Bodies'
  BY <1>1, <1>3, <1>4, <1>6 DEF Bodies, InBody, ReadsNothing, Feeding, Feeds
<1>10. Uploading'
  <2>1. Unspoiled(history) => NoUpload(c)
    BY <1>1, <1>3 DEF Uploading, NoUpload
  <2> QED BY <1>4, <1>6, <2>1 DEF Uploading, InBody, Unspoiled, NoUpload
<1>11. Clean'
  BY <1>1, <1>3, <1>4 DEF Clean, Known
<1>12. Aligned'
  BY <1>1, <1>3, <1>4, <1>5, <1>6 DEF Aligned, Residue, InBody
<1>15. Counting'
  <2>1. Untouched(client) => Untouched(c)
    BY <1>3 DEF Untouched, NoUpload
  <2> QED BY <1>1, <1>3, <1>4, <1>6, <2>1 DEF Counting, FirstUpload
<1>16. Ended'
  BY <1>1, <1>4 DEF Ended, FirstUpload
<1>13. InSequence' /\ InStep' /\ ScriptInput'
  BY <1>1, <1>4, <1>6 DEF InSequence, InBody, InStep, ScriptInput
<1>14. KnownRedirects => UploadClosed' /\ RefusedGone' /\ NotMixed'
  BY <1>1, <1>3, <1>4 DEF UploadClosed, RefusedGone, NotMixed
<1> QED BY <1>7, <1>8, <1>9, <1>10, <1>11, <1>12, <1>13, <1>14, <1>15, <1>16 DEF IInv

\* readRequest(): whatever recv() brings, one of the three follows.
LEMMA readRequestKeeps ==
  ASSUME IInv, readRequest
  PROVE  IInv'
<1>1. /\ TypeOK /\ client.leftover \in Seq(Item) /\ stream \in Seq(Item)
      /\ Len(stream) \in Nat /\ MaxRead \in Nat
  BY BoundAssumption, LenProperties DEF IInv, TypeOK, ClientForm
<1>2. PICK n \in 1 .. MinOf(MaxRead, Len(stream)) :
        /\ stream' = SubSeq(stream, n + 1, Len(stream))
        /\ \E s \in requestHandler(SubSeq(stream, 1, n)) :
             /\ client' = s.c /\ disk' = s.disk /\ opened' = s.opened
             /\ history' = IF s.done /\ \E k \in DOMAIN stream' : stream'[k].req = s.c.number
                            THEN s.history \cup {"early"} ELSE s.history
             /\ phase' = IF ~s.done THEN "reading" ELSE IF s.script THEN "script" ELSE "answering"
             /\ answered' = IF s.done THEN answered + 1 ELSE answered
             /\ last' = IF s.done THEN [request |-> s.c.request, number |-> s.c.number, res |-> s.c.res]
                        ELSE last
  BY Zenon DEF readRequest
<1>3. n \in 0 .. Len(stream)
  BY <1>1 DEF MinOf
<1>4. PICK items : items = SubSeq(stream, 1, n)
  OBVIOUS
<1>5. PICK rest : rest = SubSeq(stream, n + 1, Len(stream))
  OBVIOUS
<1>6. items \in Seq(Item) /\ rest \in Seq(Item) /\ items \o rest = stream
  BY <1>1, <1>3, <1>4, <1>5, Split
<1>7. PICK l : l = client.leftover \o items
  OBVIOUS
<1>8. l \in Seq(Item)
  BY <1>1, <1>6, <1>7, ConcatProperties
<1>9. l \o rest = Wire
  <2>1. PICK a : a = client.leftover
    OBVIOUS
  <2>2. l = a \o items /\ Wire = a \o stream
    BY <1>7, <2>1 DEF Wire
  <2>3. a \in Seq(Item) /\ items \in Seq(Item) /\ rest \in Seq(Item)
    BY <1>1, <1>6, <2>1
  <2>4. a \o (items \o rest) = (a \o items) \o rest
    BY <2>3, Joined, SMTT(60)
  <2> QED BY <1>6, <2>2, <2>4
<1>10. phase = "reading" /\ sent' = sent
  BY DEF readRequest
<1>11. Reading(l, rest)
  BY <1>6, <1>8, <1>9, <1>10 DEF Reading
<1>12. PICK o \in requestHandler(items) :
         /\ client' = o.c /\ disk' = o.disk /\ opened' = o.opened
         /\ history' = IF o.done /\ \E k \in DOMAIN stream' : stream'[k].req = o.c.number
                        THEN o.history \cup {"early"} ELSE o.history
         /\ phase' = IF ~o.done THEN "reading" ELSE IF o.script THEN "script" ELSE "answering"
         /\ answered' = IF o.done THEN answered + 1 ELSE answered
         /\ last' = IF o.done THEN [request |-> o.c.request, number |-> o.c.number, res |-> o.c.res]
                    ELSE last
  BY <1>2, <1>4
<1>13. stream' = rest
  BY <1>2, <1>5
<1>14. PICK c : c = [client EXCEPT !.leftover = l]
  OBVIOUS
<1>15. Done(o, rest) \/ Waits(o, rest) \/ (~InBody(client) /\ LeavesAs(o, c))
  BY <1>7, <1>11, <1>14, RequestHandlerIs DEF Results
<1>16. CASE Done(o, rest)
  <2>1. o.done
    BY <1>16 DEF Done
  <2>2. AnswerStep(o, rest)
    BY <1>10, <1>12, <1>13, <2>1 DEF AnswerStep
  <2> QED BY <1>6, <1>16, <2>2, AnswerKeeps
<1>17. CASE Waits(o, rest)
  <2>1. ~o.done
    BY <1>17 DEF Waits
  <2>2. WaitStep(o, rest)
    BY <1>10, <1>12, <1>13, <2>1 DEF WaitStep
  <2> QED BY <1>6, <1>10, <1>17, <2>2, WaitKeeps
<1>18. CASE ~InBody(client) /\ LeavesAs(o, c)
  <2>1. o.done = FALSE
    BY <1>18 DEF LeavesAs
  <2>2. WaitStep(o, rest)
    BY <1>10, <1>12, <1>13, <2>1 DEF WaitStep
  <2> QED BY <1>6, <1>8, <1>9, <1>10, <1>14, <1>18, <2>2, HeadWaitKeeps
<1> QED BY <1>15, <1>16, <1>17, <1>18

-----------------------------------------------------------------------------
(* The other steps                                                          *)

\* A message is put behind what is on its way.
LEMMA SentHeads ==
  ASSUME NEW w \in Seq(Item), NEW n \in Nat, n <= Len(sent), NEW r, r.size \in Nat,
         sent \in Seq(Requests), sent' = Append(sent, r), r \in Requests, Heads(w, n),
         NEW v, v = w \o Message(Len(sent) + 1, r)
  PROVE  v \in Seq(Item) /\ Heads(v, n)'
<1>1. PICK m : m = Message(Len(sent) + 1, r)
  OBVIOUS
<1>2. Len(sent) \in Nat /\ Len(sent') = Len(sent) + 1
  <2>1. Len(sent) \in Nat
    BY LenProperties
  <2> QED BY <2>1
<1>3. m \in Seq(Item) /\ \A k \in DOMAIN m : m[k].req = Len(sent) + 1 /\ (IsEnd(m[k]) <=> k = 2)
  <2>1. PICK i : i = Len(sent) + 1
    OBVIOUS
  <2>2. i \in Nat \ {0}
    BY <1>2, <2>1
  <2>3. m = Message(i, r)
    BY <1>1, <2>1
  <2>4. m \in Seq(Item) /\ \A k \in DOMAIN m : m[k].req = i /\ (IsEnd(m[k]) <=> k = 2)
    BY <2>2, <2>3, MessageIs
  <2> QED BY <2>1, <2>4
<1>4. v = w \o m
  BY <1>1
<1>5. /\ v \in Seq(Item) /\ Len(w) \in Nat
      /\ DOMAIN w = 1 .. Len(w) /\ DOMAIN m = 1 .. Len(m)
      /\ \A k \in DOMAIN w : v[k] = w[k]
      /\ \A k \in DOMAIN m : v[Len(w) + k] = m[k]
      /\ \A k \in DOMAIN v : k \in DOMAIN w \/ \E j \in DOMAIN m : k = Len(w) + j
  <2>1. m \in Seq(Item)
    BY <1>3
  <2>2. /\ w \o m \in Seq(Item) /\ Len(w) \in Nat
        /\ DOMAIN w = 1 .. Len(w) /\ DOMAIN m = 1 .. Len(m)
        /\ \A k \in DOMAIN w : (w \o m)[k] = w[k]
        /\ \A k \in DOMAIN m : (w \o m)[Len(w) + k] = m[k]
        /\ \A k \in DOMAIN (w \o m) : k \in DOMAIN w \/ \E j \in DOMAIN m : k = Len(w) + j
    BY <2>1, Behind, SMTT(30)
  <2> QED BY <1>4, <2>2
<1>6. /\ \A k \in DOMAIN w : IsEnd(w[k]) => n < w[k].req /\ w[k].req <= Len(sent)
      /\ \A j, k \in DOMAIN w : j < k /\ IsEnd(w[j]) /\ IsEnd(w[k]) => w[j].req < w[k].req
  BY DEF Heads
<1>7. \A k \in DOMAIN w : w[k] \in Item
  BY <1>5, ElementOfSeq
<1>8. ASSUME NEW k \in DOMAIN v, IsEnd(v[k]) PROVE n < v[k].req /\ v[k].req <= Len(sent')
  <2>1. CASE k \in DOMAIN w
    BY <1>2, <1>5, <1>6, <1>7, <1>8, <2>1 DEF Item
  <2>2. CASE \E j \in DOMAIN m : k = Len(w) + j
    <3>1. PICK j \in DOMAIN m : k = Len(w) + j
      BY <2>2
    <3>2. v[k] = m[j] /\ m[j].req = Len(sent) + 1
      BY <1>3, <1>5, <3>1
    <3> QED BY <1>2, <3>2
  <2> QED BY <1>5, <2>1, <2>2
<1>9. ASSUME NEW j \in DOMAIN v, NEW k \in DOMAIN v, j < k, IsEnd(v[j]), IsEnd(v[k])
      PROVE  v[j].req < v[k].req
  <2>1. CASE j \in DOMAIN w /\ k \in DOMAIN w
    BY <1>5, <1>6, <1>9, <2>1
  <2>2. CASE j \in DOMAIN w /\ \E i \in DOMAIN m : k = Len(w) + i
    <3>1. v[k].req = Len(sent) + 1
      <4>1. PICK i \in DOMAIN m : k = Len(w) + i
        BY <2>2
      <4> QED BY <1>3, <1>5, <4>1
    <3>2. v[j] = w[j] /\ w[j].req \in Nat
      BY <1>5, <1>7, <2>2 DEF Item
    <3>3. w[j].req <= Len(sent)
      BY <1>6, <1>9, <2>2, <3>2
    <3> QED BY <1>2, <3>1, <3>2, <3>3
  <2>3. CASE \E i \in DOMAIN m : j = Len(w) + i
    <3>1. PICK i \in DOMAIN m : j = Len(w) + i
      BY <2>3
    <3>2. i = 2
      BY <1>3, <1>5, <1>9, <3>1
    <3>3. k \notin DOMAIN w
      BY <1>5, <1>9, <3>1
    <3>4. PICK h \in DOMAIN m : k = Len(w) + h
      BY <1>5, <3>3
    <3>5. h = 2
      BY <1>3, <1>5, <1>9, <3>4
    <3> QED BY <1>5, <1>9, <3>1, <3>2, <3>4, <3>5
  <2> QED BY <1>5, <2>1, <2>2, <2>3
<1>10. Heads(v, n)'
  BY <1>8, <1>9 DEF Heads, IsEnd
<1> QED BY <1>5, <1>10

\* A request is sent.
LEMMA SendsKeeps ==
  ASSUME IInv, ClientSends
  PROVE  IInv'
<1>1. /\ TypeOK /\ Numbers /\ Bodies /\ Uploading /\ Clean /\ Aligned /\ InStep /\ ScriptInput
      /\ Counting /\ Ended
      /\ KnownRedirects => UploadClosed /\ RefusedGone /\ NotMixed
  BY DEF IInv
<1>2. PICK r \in Requests :
        sent' = Append(sent, r) /\ stream' = stream \o Message(Len(sent) + 1, r)
  BY DEF ClientSends
<1>3. /\ client' = client /\ phase' = phase /\ disk' = disk /\ opened' = opened
      /\ answered' = answered /\ last' = last
      /\ history' = IF answered < Len(sent) \/ stream # << >> THEN history \cup {"pipelined"} ELSE history
  BY DEF ClientSends
<1>4. /\ client \in ClientForm /\ client.leftover \in Seq(Item) /\ client.number \in Nat
      /\ stream \in Seq(Item) /\ sent \in Seq(Requests) /\ Len(sent) \in Nat /\ answered \in Nat
      /\ last.number \in Nat /\ history \subseteq Events
  BY <1>1, LenProperties DEF TypeOK, ClientForm
<1>5. r.size \in Nat
  BY RequestAssumption DEF RequestForm, Form
<1>6. PICK n : n = Len(sent) + 1
  OBVIOUS
<1>7. n \in Nat \ {0}
  BY <1>4, <1>6
<1>8. PICK m : m = Message(n, r)
  OBVIOUS
<1>9. m \in Seq(Item)
  BY <1>5, <1>7, <1>8, MessageIs
<1>10. /\ sent' \in Seq(Requests) /\ Len(sent') = n /\ sent'[n] = r
       /\ \A k \in 1 .. Len(sent) : sent'[k] = sent[k]
  BY <1>2, <1>4, <1>6
<1>11. PICK a : a = client.leftover
  OBVIOUS
<1>12. Wire \in Seq(Item) /\ stream \o m \in Seq(Item) /\ a \o (stream \o m) = (a \o stream) \o m
  <2>1. a \in Seq(Item) /\ stream \in Seq(Item) /\ m \in Seq(Item)
    BY <1>4, <1>9, <1>11
  <2>2. a \o stream \in Seq(Item) /\ stream \o m \in Seq(Item)
    BY <2>1, ConcatProperties
  <2>3. a \o (stream \o m) = (a \o stream) \o m
    BY <2>1, Joined, SMTT(60)
  <2> QED BY <1>11, <2>2, <2>3 DEF Wire
<1>13. stream' = stream \o m
  BY <1>2, <1>6, <1>8
<1>14. PICK v : v = Wire \o m
  OBVIOUS
<1>15. Wire' = v
  <2>1. Wire' = a \o (stream \o m)
    BY <1>3, <1>11, <1>13 DEF Wire
  <2> QED BY <1>11, <1>12, <1>14, <2>1 DEF Wire
<1>16. PICK h : h = history'
  OBVIOUS
<1>17. /\ history \subseteq h /\ h \subseteq Events /\ ("spoiled" \in h => "spoiled" \in history)
       /\ ("not removed" \in h => "not removed" \in history)
       /\ "pipelined" \notin h => ~(answered < Len(sent)) /\ stream = << >>
  BY <1>3, <1>4, <1>16 DEF Events
<1>18. TypeOK'
  BY <1>1, <1>3, <1>10, <1>12, <1>13, <1>16, <1>17 DEF TypeOK, Files
<1>19. Numbers'
  <2>1. Heads(Wire, client.number) /\ client.number <= Len(sent)
    BY <1>1 DEF Numbers
  <2>2. PICK w : w = Wire
    OBVIOUS
  <2>3. PICK i : i = client.number
    OBVIOUS
  <2>4. v = w \o Message(Len(sent) + 1, r) /\ w \in Seq(Item) /\ Heads(w, i) /\ i \in Nat /\ i <= Len(sent)
    BY <1>4, <1>6, <1>8, <1>12, <1>14, <2>1, <2>2, <2>3
  <2>5. Heads(v, i)'
    BY <1>2, <1>4, <1>5, <2>4, SentHeads
  <2>6. Heads(Wire, client.number)'
    BY <1>3, <1>15, <2>3, <2>5 DEF Heads
  <2> QED BY <1>1, <1>3, <1>4, <1>6, <1>10, <2>6 DEF Numbers, InBody
<1>20. Bodies' /\ Clean' /\ ScriptInput'
  BY <1>1, <1>3 DEF Bodies, InBody, Reads, ReadsNothing, Feeding, Feeds, Clean, Known, ScriptInput
<1>21. Uploading'
  BY <1>1, <1>3, <1>16, <1>17 DEF Uploading, InBody, Stores, Owns, NoUpload, Unspoiled
<1>22. ASSUME Quiet(h)
       PROVE  /\ Quiet(history) /\ ~InBody(client) /\ answered = Len(sent) /\ Residue(Wire)
  <2>1. Quiet(history) /\ ~(answered < Len(sent))
    BY <1>17, <1>22 DEF Quiet
  <2>2. answered # Len(sent) - 1
    BY <1>4, <2>1
  <2> QED BY <1>1, <2>1, <2>2 DEF Aligned, Quiet
<1>23. Aligned'
  <2>1. PICK w : w = Wire
    OBVIOUS
  <2>2. PICK j : j = Len(w)
    OBVIOUS
  <2>3. v = w \o m /\ w \in Seq(Item)
    BY <1>12, <1>14, <2>1
  <2>4. j \in 0 .. Len(v) /\ SubSeq(v, 1, j) = w /\ SubSeq(v, j + 1, Len(v)) = m
    BY <1>9, <2>2, <2>3, Rejoined
  <2>5. ASSUME Quiet(h)
        PROVE  /\ ~InBody(client) /\ n > 0 /\ answered = n - 1
               /\ j \in 0 .. Len(v) /\ SubSeq(v, j + 1, Len(v)) = Message(n, sent'[n])
               /\ Residue(SubSeq(v, 1, j))'
    <3>1. m = Message(n, sent'[n])
      BY <1>8, <1>10
    <3>2. n > 0 /\ answered = n - 1
      BY <1>4, <1>6, <1>22, <2>5
    <3>3. Residue(w)
      BY <1>22, <2>1, <2>5
    <3>4. "early" \notin history' => "early" \notin history
      BY <1>16, <1>17
    <3>5. Residue(SubSeq(v, 1, j))'
      BY <1>15, <2>4, <3>3, <3>4 DEF Residue
    <3> QED BY <1>22, <2>4, <2>5, <3>1, <3>2, <3>5
  <2> QED BY <1>3, <1>10, <1>15, <1>16, <2>5 DEF Aligned, Quiet, InBody
<1>24. InSequence'
  <2>1. Quiet(h) => ~InBody(client)
    BY <1>22
  <2> QED BY <1>3, <1>16, <2>1 DEF InSequence, Quiet, InBody
<1>25. InStep'
  <2>1. ASSUME Quiet(h), "early" \notin h, last.number # 0
        PROVE  last.request = sent'[last.number] /\ last.number = answered
    <3>4. "early" \notin history
      BY <1>17, <2>1
    <3>1. last.request = sent[last.number] /\ last.number = answered
      BY <1>1, <1>22, <2>1, <3>4 DEF InStep, Quiet
    <3>2. last.number \in 1 .. Len(sent)
      BY <1>1, <1>4, <2>1 DEF Numbers
    <3> QED BY <1>10, <3>1, <3>2
  <2> QED BY <1>3, <1>16, <2>1 DEF InStep, Quiet
<1>26. KnownRedirects => UploadClosed' /\ RefusedGone' /\ NotMixed'
  <2>1. UploadClosed => UploadClosed'
    BY <1>3, <1>16, <1>17 DEF UploadClosed
  <2>2. RefusedGone => RefusedGone'
    BY <1>3, <1>16, <1>17 DEF RefusedGone, Uploads
  <2>3. NotMixed => NotMixed'
    BY <1>3, <1>16, <1>17 DEF NotMixed, BodyByte
  <2> QED BY <1>1, <2>1, <2>2, <2>3
<1>27. Pristine(h) => Pristine(history)
  BY <1>17 DEF Pristine
<1>28. \A k \in 1 .. Len(sent) : FirstUpload(k)' <=> FirstUpload(k)
  <2> SUFFICES ASSUME NEW k \in 1 .. Len(sent) PROVE FirstUpload(k)' <=> FirstUpload(k)
    OBVIOUS
  <2>1. \A i \in 1 .. k - 1 : sent'[i] = sent[i]
    BY <1>4, <1>10
  <2> QED BY <2>1 DEF FirstUpload
<1>29. \A k \in 1 .. Len(sent) : Content(k)' = Content(k)
  BY <1>10 DEF Content
<1>30. Counting'
  <2>1. client.number <= Len(sent)
    BY <1>1 DEF Numbers
  <2>3. ASSUME FirstUpload(client.number + 1)' PROVE FirstUpload(client.number + 1)
    <3>1. \A i \in 1 .. (client.number + 1) - 1 : sent'[i] = sent[i]
      <4> SUFFICES ASSUME NEW i \in 1 .. (client.number + 1) - 1 PROVE sent'[i] = sent[i]
        OBVIOUS
      <4>1. client.number \in Nat /\ Len(sent) \in Nat
        BY <1>4
      <4>2. i \in 1 .. Len(sent)
        BY <2>1, <4>1
      <4> QED BY <1>10, <4>2
    <3> QED BY <1>3, <2>3, <3>1 DEF FirstUpload
  <2>4. InBody(client) => client.number \in 1 .. Len(sent)
    BY <1>1, <1>4, <2>1 DEF Numbers
  <2>5. InBody(client) => (FirstUpload(client.number)' => FirstUpload(client.number))
    BY <1>3, <1>28, <2>4 DEF FirstUpload
  <2>6. Pristine(h) =>
          /\ FirstUpload(client.number + 1)' => Untouched(client) /\ "spoiled" \notin h
          /\ FirstUpload(client.number)' /\ InBody(client) /\ client.request.target.store =>
               Counts(client, Len(Stored(disk, client.number))) /\ "spoiled" \notin h
    BY <1>1, <1>17, <1>27, <2>3, <2>5 DEF Counting
  <2> QED BY <1>3, <1>16, <2>6 DEF Counting, FirstUpload
<1>31. Ended'
  <2>1. last.number # 0 => last.number \in 1 .. Len(sent)
    BY <1>1, <1>4 DEF Numbers
  <2>2. last.number # 0 => (FirstUpload(last.number)' <=> FirstUpload(last.number))
    BY <1>3, <1>28, <2>1 DEF FirstUpload
  <2>3. last.number # 0 => Content(last.number)' = Content(last.number)
    BY <1>3, <1>29, <2>1 DEF Content
  <2>4. Pristine(h) /\ last.number # 0 /\ last.res.status = 201 /\ FirstUpload(last.number)' =>
          /\ last.number = client.number /\ phase \in {"answering", "closed"}
          /\ ~client.res.stream /\ client.res.body = << >>
          /\ last.number \in DOMAIN disk /\ disk[last.number] = Content(last.number)'
    BY <1>1, <1>27, <2>2, <2>3 DEF Ended
  <2> QED BY <1>3, <1>16, <2>4 DEF Ended, FirstUpload, Content
<1> QED BY <1>18, <1>19, <1>20, <1>21, <1>23, <1>24, <1>25, <1>26, <1>30, <1>31 DEF IInv

\* The connection is kept: the next recv() starts a new request.
LEMMA AgainKeeps ==
  ASSUME IInv, phase \in {"answering", "script"}, NEW res \in ResponseForm,
         KnownRedirects => Blank(res), Unspoiled(history) => NoUpload(client), Again(res),
         client.res.status # 201 => res.status # 201,
         phase = "script" \/ client.res.stream \/ client.res.body # << >>
  PROVE  IInv'
<1>1. /\ TypeOK /\ Numbers /\ Bodies /\ Uploading /\ Clean /\ Aligned /\ InStep
      /\ Counting /\ Ended
      /\ KnownRedirects => UploadClosed /\ RefusedGone /\ NotMixed
  BY DEF IInv
<1>2. client \in ClientForm /\ ~InBody(client)
  BY <1>1 DEF TypeOK, Numbers
<1>3. PICK c : c = [client EXCEPT !.res = res, !.request = NoRequest, !.body = 0]
  OBVIOUS
<1>4. /\ phase' = "reading" /\ client' = c
      /\ disk' = disk /\ opened' = opened /\ stream' = stream /\ sent' = sent
      /\ answered' = answered /\ last' = last /\ history' = history
  BY <1>3 DEF Again
<1>5. NoRequest \in SomeRequest /\ NoRequest.target.redirect = 0
  <2>1. 0 \in Nat
    OBVIOUS
  <2>2. NoRequest.target \in Target
    BY <2>1 DEF NoRequest, Target, TargetKinds
  <2> QED BY <2>1, <2>2 DEF NoRequest, SomeRequest, Form, None
<1>6. c \in ClientForm
  <2>1. 0 \in Nat
    OBVIOUS
  <2> QED BY <1>2, <1>3, <1>5, <2>1, Emptied
<1>7. /\ c.leftover = client.leftover /\ c.state = client.state /\ c.number = client.number
      /\ c.request = NoRequest /\ c.res = res
      /\ c.isChunked = client.isChunked /\ c.chunked = client.chunked /\ c.multipart = client.multipart
      /\ c.uploadFd = client.uploadFd /\ c.uploadedFiles = client.uploadedFiles
      /\ c.uploadedBytes = client.uploadedBytes
  BY <1>2, <1>3 DEF ClientForm
<1>8. Wire' = Wire /\ ~InBody(c)
  BY <1>2, <1>4, <1>7 DEF Wire, InBody
<1>9. TypeOK'
  BY <1>1, <1>4, <1>6 DEF TypeOK, Files
<1>10. Numbers'
  <2>1. Heads(Wire, client.number)'
    BY <1>1, <1>4, <1>7, <1>8 DEF Numbers, Heads
  <2> QED BY <1>1, <1>4, <1>7, <1>8, <2>1 DEF Numbers, InBody
<1>11. Bodies'
  BY <1>1, <1>2, <1>4, <1>7, <1>8 DEF Bodies, InBody, ReadsNothing, Feeding, Feeds
<1>12. Uploading'
  BY <1>4, <1>7, <1>8 DEF Uploading, InBody, NoUpload, Unspoiled
<1>13. Clean'
  BY <1>4, <1>5, <1>7 DEF Clean, Known, Blank
<1>14. Aligned'
  BY <1>1, <1>2, <1>4, <1>8 DEF Aligned, InBody, Residue
<1>15. InSequence' /\ InStep' /\ ScriptInput'
  BY <1>1, <1>4, <1>8 DEF InSequence, InBody, InStep, ScriptInput
<1>16. KnownRedirects => UploadClosed' /\ RefusedGone' /\ NotMixed'
  <2>1. phase # "closed" /\ phase' # "closed"
    BY <1>4
  <2>2. UploadClosed => UploadClosed'
    BY <1>4, <1>7, <2>1 DEF UploadClosed
  <2>3. RefusedGone => RefusedGone'
    BY <1>4 DEF RefusedGone
  <2>4. NotMixed => NotMixed'
    BY <1>4 DEF NotMixed
  <2> QED BY <1>1, <2>2, <2>3, <2>4
<1>17. Counting'
  <2>1. Untouched(client) => Untouched(c)
    BY <1>7 DEF Untouched, NoUpload
  <2>2. FirstUpload(client.number + 1)' => FirstUpload(client.number + 1)
    BY <1>4, <1>7 DEF FirstUpload
  <2>3. Pristine(history) /\ FirstUpload(client.number + 1)' => Untouched(c) /\ "spoiled" \notin history
    BY <1>1, <2>1, <2>2 DEF Counting
  <2> QED BY <1>4, <1>8, <2>3 DEF Counting
<1>18. Ended'
  <2>1. FirstUpload(last.number)' => FirstUpload(last.number)
    BY <1>4 DEF FirstUpload
  <2>2. ~(Pristine(history) /\ last.number # 0 /\ last.res.status = 201 /\ FirstUpload(last.number)')
    BY <1>1, <2>1 DEF Ended
  <2> QED BY <1>4, <2>2 DEF Ended
<1> QED BY <1>9, <1>10, <1>11, <1>12, <1>13, <1>14, <1>15, <1>16, <1>17, <1>18 DEF IInv

\* What ResponseSender leaves of a response that is kept.
LEMMA KeptKeeps ==
  ASSUME IInv, Kept
  PROVE  IInv'
<1>1. /\ phase = "answering" /\ client.res \in ResponseForm
      /\ client.res.stream \/ client.res.body # << >>
      /\ KnownRedirects => Blank(client.res)
      /\ Unspoiled(history) => NoUpload(client)
  <2>1. phase = "answering" /\ (client.res.stream \/ client.res.body # << >>)
    BY DEF Kept
  <2>2. ~InBody(client)
    BY <2>1 DEF IInv, Numbers
  <2> QED BY <2>1, <2>2 DEF IInv, TypeOK, ClientForm, Clean, Blank, Uploading
<1>2. CASE Again(client.res)
  <2>1. PICK res : res = client.res
    OBVIOUS
  <2> QED BY <1>1, <1>2, <2>1, AgainKeeps
<1>3. CASE \E code \in {416, 500} : Again([Page(client.res, code) EXCEPT !.stream = FALSE])
  <2>1. PICK code \in {416, 500} : Again([Page(client.res, code) EXCEPT !.stream = FALSE])
    BY <1>3
  <2>2. PICK page : page = Page(client.res, code)
    OBVIOUS
  <2>3. code \in StatusEntries /\ code \in Nat /\ code # 0
    BY DEF StatusEntries
  <2>4. page \in ResponseForm /\ page.status = code
    BY <1>1, <2>2, <2>3, PageIs
  <2>5. PICK res : res = [page EXCEPT !.stream = FALSE]
    OBVIOUS
  <2>6. res \in ResponseForm /\ Blank(res) /\ res.status # 201
    <3>1. res \in ResponseForm
      <4>1. page \in ResponseForm
        BY <2>4
      <4> QED BY <2>5, <4>1 DEF ResponseForm
    <3>2. res.status = code
      BY <2>4, <2>5 DEF ResponseForm
    <3> QED BY <2>3, <3>1, <3>2 DEF Blank
  <2>7. Again(res)
    BY <2>1, <2>2, <2>5
  <2> QED BY <1>1, <2>6, <2>7, AgainKeeps
<1> QED BY <1>2, <1>3 DEF Kept

\* The script has answered: its response is made anew.
LEMMA ScriptAnsweredKeeps ==
  ASSUME IInv, ScriptAnswered
  PROVE  IInv'
<1>1. phase = "script" /\ Again(NewResponse)
  BY DEF ScriptAnswered
<1>2. ~InBody(client)
  BY <1>1 DEF IInv, Numbers
<1>3. Unspoiled(history) => NoUpload(client)
  BY <1>1, <1>2 DEF IInv, Uploading
<1>4. NewResponse \in ResponseForm /\ Blank(NewResponse) /\ NewResponse.status # 201
  BY NewResponseIs DEF Blank, NewResponse
<1> QED BY <1>1, <1>3, <1>4, AgainKeeps

\* The script was not started.
LEMMA LaunchFailsKeeps ==
  ASSUME IInv, LaunchFails
  PROVE  IInv'
<1>1. PICK code \in {403, 500} : phase = "script" /\ Again(Page(client.res, code))
  BY DEF LaunchFails
<1>2. ~InBody(client)
  BY <1>1 DEF IInv, Numbers
<1>3. Unspoiled(history) => NoUpload(client)
  BY <1>1, <1>2 DEF IInv, Uploading
<1>4. PICK res : res = Page(client.res, code)
  OBVIOUS
<1>5. res \in ResponseForm /\ Blank(res) /\ res.status # 201
  <2>1. code \in StatusEntries /\ code \in Nat /\ code # 0
    BY DEF StatusEntries
  <2>2. client.res \in ResponseForm
    BY DEF IInv, TypeOK, ClientForm
  <2> QED BY <1>4, <2>1, <2>2, PageIs DEF Blank
<1> QED BY <1>1, <1>3, <1>4, <1>5, AgainKeeps

\* The connection ends.
LEMMA DisconnectedKeeps ==
  ASSUME IInv, Disconnect
  PROVE  IInv'
<1>1. /\ TypeOK /\ Numbers /\ Bodies /\ Uploading /\ Clean /\ Aligned /\ InSequence /\ InStep
      /\ Counting /\ Ended
      /\ KnownRedirects => UploadClosed /\ RefusedGone /\ NotMixed
  BY DEF IInv
<1>2. /\ phase' = "closed" /\ opened' = opened \ {client.uploadFd}
      /\ client' = client /\ disk' = disk /\ stream' = stream /\ sent' = sent
      /\ answered' = answered /\ last' = last /\ history' = history
  BY DEF Disconnect
<1>3. Wire' = Wire
  BY <1>2 DEF Wire
<1>4. TypeOK'
  BY <1>1, <1>2 DEF TypeOK, Files
<1>5. Numbers'
  <2>1. Heads(Wire, client.number)'
    BY <1>1, <1>2, <1>3 DEF Numbers, Heads
  <2> QED BY <1>1, <1>2, <2>1 DEF Numbers, InBody
<1>6. Bodies' /\ Clean'
  BY <1>1, <1>2 DEF Bodies, InBody, Reads, ReadsNothing, Feeding, Feeds, Clean, Known
<1>7. Uploading'
  BY <1>1, <1>2 DEF Uploading, InBody, Stores, Owns, Unspoiled
<1>8. Aligned'
  BY <1>1, <1>2, <1>3 DEF Aligned, InBody, Residue
<1>9. InSequence'
  BY <1>1, <1>2, <1>3 DEF InSequence, InBody, Unspoiled, Stored, Numbered
<1>10. InStep' /\ ScriptInput'
  BY <1>1, <1>2 DEF InStep, ScriptInput
<1>11. KnownRedirects => UploadClosed' /\ RefusedGone' /\ NotMixed'
  <2>1. UploadClosed => UploadClosed'
    BY <1>2 DEF UploadClosed
  <2> QED BY <1>1, <1>2, <2>1 DEF RefusedGone, NotMixed
<1>12. Counting'
  BY <1>1, <1>2 DEF Counting, FirstUpload
<1>13. Ended'
  BY <1>1, <1>2 DEF Ended, FirstUpload, Content
<1> QED BY <1>4, <1>5, <1>6, <1>7, <1>8, <1>9, <1>10, <1>11, <1>12, <1>13 DEF IInv

-----------------------------------------------------------------------------
(* The theorems                                                             *)

\* A new connection.
LEMMA InitIs ==
  Init => IInv
<1> SUFFICES ASSUME Init PROVE IInv
  OBVIOUS
<1>1. /\ client = NewClient /\ phase = "reading" /\ disk = << >> /\ opened = {}
      /\ stream = << >> /\ sent = << >> /\ answered = 0 /\ history = {}
      /\ last = [request |-> NoRequest, number |-> 0, res |-> NewResponse]
  BY DEF Init
<1>2. NoRequest \in SomeRequest /\ NoRequest.target.redirect = 0
  <2>1. 0 \in Nat
    OBVIOUS
  <2>2. NoRequest.target \in Target
    BY <2>1 DEF NoRequest, Target, TargetKinds
  <2> QED BY <2>1, <2>2 DEF NoRequest, SomeRequest, Form, None
<1>3. /\ NewResponse \in ResponseForm /\ NewResponse.body = << >> /\ ~NewResponse.stream
      /\ NewResponse.status # 201
  BY NewResponseIs DEF NewResponse
<1>4. 0 \in Nat /\ << >> \in Seq(Item) /\ << >> \in Seq(Requests) /\ Len(<< >>) = 0 /\ DOMAIN << >> = {}
  OBVIOUS
<1>5. NewParser \in ParserForm /\ ~NewParser.active
  BY <1>4 DEF NewParser, ParserForm
<1>6. /\ client \in ClientForm /\ client.leftover = << >> /\ client.number = 0
      /\ client.request = NoRequest /\ client.res = NewResponse /\ client.state = "PARSING_HEADERS"
      /\ ~client.isChunked /\ client.chunked = NewParser /\ client.multipart = NewParser
      /\ client.uploadFd = NoFile /\ client.uploadedFiles = {} /\ client.uploadedBytes = 0
  BY <1>1, <1>2, <1>3, <1>4, <1>5 DEF NewClient, ClientForm, NoFile
<1>7. ~InBody(client) /\ NoUpload(client)
  BY <1>6 DEF InBody, NoUpload
<1>8. Wire = << >>
  <2>1. << >> \o << >> = << >>
    BY <1>4, ConcatEmptySeq
  <2> QED BY <1>1, <1>6, <2>1 DEF Wire
<1>9. /\ last.request = NoRequest /\ last.number = 0 /\ last.res = NewResponse
      /\ last \in [request : SomeRequest, number : Nat, res : ResponseForm]
  BY <1>1, <1>2, <1>3, <1>4
<1>10. TypeOK
  BY <1>1, <1>4, <1>6, <1>9 DEF TypeOK, Files
<1>11. Numbers
  <2>1. Heads(Wire, client.number)
    BY <1>4, <1>8 DEF Heads
  <2> QED BY <1>1, <1>4, <1>6, <1>7, <1>9, <2>1 DEF Numbers
<1>12. Bodies
  BY <1>5, <1>6, <1>7 DEF Bodies, ReadsNothing, Feeding
<1>13. Uploading
  BY <1>7 DEF Uploading
<1>14. Clean
  BY <1>2, <1>3, <1>6 DEF Clean, Known
<1>15. Aligned
  <2>1. Residue(Wire)
    BY <1>4, <1>8 DEF Residue
  <2> QED BY <1>1, <1>4, <1>7, <2>1 DEF Aligned
<1>16. InSequence /\ InStep /\ ScriptInput
  BY <1>1, <1>7, <1>9 DEF InSequence, InStep, ScriptInput
<1>17. UploadClosed /\ RefusedGone /\ NotMixed
  <2>1. UploadClosed
    BY <1>1, <1>6 DEF UploadClosed
  <2>2. RefusedGone /\ NotMixed
    BY <1>1, <1>4, <1>9 DEF RefusedGone, NotMixed
  <2> QED BY <2>1, <2>2
<1>18. Counting
  <2>1. Untouched(client)
    BY <1>3, <1>5, <1>6, <1>7 DEF Untouched
  <2> QED BY <1>1, <1>7, <2>1 DEF Counting
<1>19. Ended
  BY <1>9 DEF Ended
<1> QED BY <1>10, <1>11, <1>12, <1>13, <1>14, <1>15, <1>16, <1>17, <1>18, <1>19 DEF IInv

\* Every step keeps what is true of a connection between two of them.
LEMMA NextKeeps ==
  IInv /\ [Next]_vars => IInv'
<1> SUFFICES ASSUME IInv, [Next]_vars PROVE IInv'
  OBVIOUS
<1>1. CASE ClientSends
  BY <1>1, SendsKeeps
<1>2. CASE readRequest
  BY <1>2, readRequestKeeps
<1>3. CASE Kept
  BY <1>3, KeptKeeps
<1>4. CASE ScriptAnswered
  BY <1>4, ScriptAnsweredKeeps
<1>5. CASE LaunchFails
  BY <1>5, LaunchFailsKeeps
<1>6. CASE NotKept \/ PeerLeaves
  BY <1>6, DisconnectedKeeps DEF NotKept, PeerLeaves
<1>7. CASE UNCHANGED vars
  <2>1. /\ phase' = phase /\ opened' = opened
        /\ client' = client /\ disk' = disk /\ stream' = stream /\ sent' = sent
        /\ answered' = answered /\ last' = last /\ history' = history
    BY <1>7 DEF vars
  <2>2. TypeOK' /\ Clean' /\ InStep' /\ ScriptInput'
    BY <2>1 DEF IInv, TypeOK, Files, Clean, Known, InStep, ScriptInput
  <2>3. Numbers' /\ Aligned'
    BY <2>1 DEF IInv, Numbers, Heads, Wire, InBody, Aligned, Residue
  <2>4. Bodies' /\ Uploading'
    BY <2>1 DEF IInv, Bodies, Reads, ReadsNothing, Feeding, Feeds, InBody, Uploading, Stores, Owns,
       NoUpload, Unspoiled
  <2>5. InSequence'
    BY <2>1 DEF IInv, InSequence, Wire, InBody, Unspoiled, Stored, Numbered
  <2>6. KnownRedirects => UploadClosed' /\ RefusedGone' /\ NotMixed'
    BY <2>1 DEF IInv, UploadClosed, RefusedGone, NotMixed
  <2>7. Counting' /\ Ended'
    BY <2>1 DEF IInv, Counting, Ended, FirstUpload, Content
  <2> QED BY <2>2, <2>3, <2>4, <2>5, <2>6, <2>7 DEF IInv
<1> QED BY <1>1, <1>2, <1>3, <1>4, <1>5, <1>6, <1>7 DEF Next

\* IInv is inductive: it holds at the start and every step keeps it.
THEOREM Invariant ==
  Spec => []IInv
BY InitIs, NextKeeps, PTL DEF Spec

\* The variables keep to their types, whatever arrives.
THEOREM TypeCorrect ==
  Spec => []TypeOK
<1>1. IInv => TypeOK
  BY DEF IInv
<1> QED BY <1>1, Invariant, PTL

\* A request is handled as the client sent it, and answered in its turn, as long as
\* none was answered before its body was there and none was sent before an answer.
THEOREM HandledInStep ==
  Spec => []InStep
<1>1. IInv => InStep
  BY DEF IInv
<1> QED BY <1>1, Invariant, PTL

\* A script that is started has the whole body, within the limit.
THEOREM ScriptGetsInput ==
  Spec => []ScriptInput
<1>1. IInv => ScriptInput
  BY DEF IInv
<1> QED BY <1>1, Invariant, PTL

\* Where every redirection has a code that setStatus() knows, an upload's descriptor
\* is the client's and is closed with the connection.
THEOREM UploadsClosed ==
  KnownRedirects => (Spec => []UploadClosed)
<1> SUFFICES ASSUME KnownRedirects PROVE Spec => []UploadClosed
  OBVIOUS
<1>1. IInv => UploadClosed
  BY DEF IInv
<1> QED BY <1>1, Invariant, PTL

\* There too postHandler() removes what was stored of an upload that is refused.
THEOREM RefusedAreGone ==
  KnownRedirects => (Spec => []RefusedGone)
<1> SUFFICES ASSUME KnownRedirects PROVE Spec => []RefusedGone
  OBVIOUS
<1>1. IInv => RefusedGone
  BY DEF IInv
<1> QED BY <1>1, Invariant, PTL

\* And there no file has bytes of another request, nor of its own out of their place.
THEOREM NeverMixed ==
  KnownRedirects => (Spec => []NotMixed)
<1> SUFFICES ASSUME KnownRedirects PROVE Spec => []NotMixed
  OBVIOUS
<1>1. IInv => NotMixed
  BY DEF IInv
<1> QED BY <1>1, Invariant, PTL

\* Where moreover no redirection answers 201 itself, the first upload of a connection
\* that is answered 201 is on disk, whole and in order: the body parsers, the count of
\* the bytes written and the file agree, however the body is cut by recv() and write().
THEOREM StoresWhole ==
  KnownRedirects /\ (\A r \in Requests : r.target.redirect # 201) => (Spec => []StoredWhole)
<1> SUFFICES ASSUME KnownRedirects, \A r \in Requests : r.target.redirect # 201
             PROVE  Spec => []StoredWhole
  OBVIOUS
<1>1. IInv => StoredWhole
  BY DEF IInv, Ended, Pristine, StoredWhole
<1> QED BY <1>1, Invariant, PTL
=============================================================================
