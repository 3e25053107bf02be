------------------------- MODULE ResponseSenderProofs -------------------------
(***************************************************************************)
(* What the answers of a connection promise, for every request, every size *)
(* of file and of block, and however send() cuts what it is given: IInv of *)
(* ResponseSender holds at the start and is kept by every step, and the    *)
(* properties the run checks follow from it.                               *)
(***************************************************************************)
EXTENDS ResponseSender, HandlerProofs, SequenceLemmas, FiniteSetTheorems

-----------------------------------------------------------------------------
(* What is sent.                                                           *)

\* generate(): the headers, and behind them the body if it is in memory.
LEMMA GenerateIs ==
  ASSUME NEW r \in ResponseForm
  PROVE  /\ generate(r) \in Seq(Item) /\ generate(r)[1] = Headers(r)
         /\ generate(r)[1].part = "headers" /\ generate(r)[1].code = r.status
         /\ generate(r)[1].length = r.length
         /\ r.stream \/ r.body = << >> => Len(generate(r)) = 1
         /\ ~r.stream /\ r.body # << >> =>
              Len(generate(r)) = 2 /\ generate(r)[2] = Body(r)
<1>1. Headers(r) \in Item /\ Body(r) \in Item
  BY DEF Headers, Body, Item, ResponseForm
<1>2. <<Headers(r)>> \in Seq(Item) /\ <<Headers(r), Body(r)>> \in Seq(Item)
  BY <1>1
<1>3. CASE r.stream \/ r.body = << >>
  <2>1. generate(r) = <<Headers(r)>>
    BY <1>3 DEF generate
  <2> QED BY <1>2, <1>3, <2>1 DEF Headers
<1>4. CASE ~(r.stream \/ r.body = << >>)
  <2>1. generate(r) = <<Headers(r), Body(r)>>
    BY <1>4 DEF generate
  <2> QED BY <1>2, <1>4, <2>1 DEF Headers
<1> QED BY <1>3, <1>4

\* Neither of the two is a byte of a file.
LEMMA GenerateNoFile ==
  ASSUME NEW r \in ResponseForm, NEW k \in 1 .. Len(generate(r))
  PROVE  ~IsFile(generate(r)[k])
<1>1. CASE r.stream \/ r.body = << >>
  <2>1. Len(generate(r)) = 1
    BY <1>1, GenerateIs
  <2>2. k = 1
    BY <2>1
  <2> QED BY <2>2, GenerateIs DEF IsFile
<1>2. CASE ~(r.stream \/ r.body = << >>)
  <2>1. Len(generate(r)) = 2 /\ generate(r)[2] = Body(r)
    BY <1>2, GenerateIs
  <2>2. k = 1 \/ k = 2
    BY <2>1
  <2>3. Body(r).part # "file"
    BY DEF Body
  <2>4. generate(r)[1].part # "file" /\ generate(r)[2].part # "file"
    BY <2>1, <2>3, GenerateIs
  <2> QED BY <2>2, <2>4 DEF IsFile
<1> QED BY <1>1, <1>2

\* What is appended in two parts.
LEMMA Regroup ==
  ASSUME NEW S, NEW a, NEW b, NEW c, a \in Seq(S), b \in Seq(S), c \in Seq(S)
  PROVE  a \o (b \o c) = (a \o b) \o c
BY ConcatAssociative, SMTT(30)

\* One item is something.
LEMMA SingleIs ==
  ASSUME NEW S, NEW s, s \in Seq(S), Len(s) = 1
  PROVE  s # << >>
OBVIOUS

\* A block read from a file.
LEMMA BlockIs ==
  ASSUME NEW o \in Nat, NEW n \in Nat
  PROVE  LET b == [k \in 1 .. n |-> FileByte(o + k - 1)]
         IN b \in Seq(Item) /\ Len(b) = n /\ \A k \in 1 .. n : b[k] = FileByte(o + k - 1)
<1> DEFINE b == [k \in 1 .. n |-> FileByte(o + k - 1)]
<1>1. \A k \in 1 .. n : FileByte(o + k - 1) \in Item
  BY DEF FileByte, Item
<1>2. b \in [1 .. n -> Item] /\ \A k \in 1 .. n : b[k] = FileByte(o + k - 1)
  BY <1>1
<1> HIDE DEF b
<1>3. b \in Seq(Item) /\ Len(b) = n
  BY <1>2, SeqOfLength
<1> QED BY <1>2, <1>3 DEF b

\* The part of a file that is asked for begins and ends in it.
LEMMA WindowIs ==
  ASSUME TypeOK
  PROVE  /\ Start \in Nat
         /\ asked.range # "bytes" => ~Window.valid
         /\ ~Window.valid => Start = 0
         /\ Window.valid => /\ Start = Window.start /\ Window.end \in Int
                            /\ Window.end < res.size /\ Start <= Window.end + 1
                            /\ res.size > 0 => Start <= Window.end
<1>1. asked \in RequestForm /\ res \in ResponseForm
  BY RequestAssumption DEF TypeOK
<1>2. asked.first \in Header /\ asked.last \in Int /\ res.size \in Nat
  BY <1>1 DEF RequestForm, Header, ResponseForm
<1>3. CASE asked.range # "bytes"
  <2>1. ~Window.valid
    BY <1>3 DEF Window, NoRange
  <2> QED BY <2>1, <1>3 DEF Start
<1>4. CASE asked.range = "bytes"
  <2>1. PICK w : w = parseRangeHeader(asked.first, asked.last, res.size)
    OBVIOUS
  <2>2. Window = w
    BY <1>4, <2>1 DEF Window
  <2>3. w.valid => /\ w.start \in Nat /\ w.end \in Int /\ w.end < res.size
                   /\ w.start <= w.end + 1
                   /\ res.size > 0 => w.start <= w.end
    BY <1>2, <2>1, RangeInFile
  <2> QED BY <1>4, <2>2, <2>3 DEF Start
<1> QED BY <1>3, <1>4

-----------------------------------------------------------------------------
(* sendResponse(), one block.                                              *)

SendForm ==
  [res : ResponseForm, buff : Seq(Item),
   resStatus : {"CS_NEW", "CS_START_SEND", "CS_WRITING", "CS_WRITING_DONE"},
   fd : {"none", "open"}, conn : {"NEW", "CLOSED"}]

\* A failure: the page of its status takes the place of the buffer.
IsFailed(p, f) ==
  \E r \in ResponseForm :
    /\ f.res = r /\ f.buff = generate(r) /\ f.resStatus = "CS_WRITING_DONE"
    /\ ~r.stream /\ r.body = <<r.status>> /\ r.size = p.res.size /\ r.flag = p.res.flag
    /\ r.offset = p.res.offset /\ r.sent = p.res.sent
\* Failed() leaves a page and its status, and no stream.
LEMMA FailedIs ==
  ASSUME NEW p \in SendForm, NEW code \in StatusEntries
  PROVE  /\ Failed(p, code) \in SendForm /\ Failed(p, code).conn = p.conn
         /\ IsFailed(p, Failed(p, code))
<1>1. code \in Nat
  BY DEF StatusEntries
<1>2. p.res \in ResponseForm
  BY DEF SendForm
<1>3. PICK q : q = Page(p.res, code)
  OBVIOUS
<1>4. q \in ResponseForm /\ q.body = <<code>> /\ q.status = code /\ SameFile(p.res, q)
      /\ q.flag = p.res.flag
  BY <1>1, <1>2, <1>3, PageIs
<1>5. PICK r : r = [q EXCEPT !.stream = FALSE, !.length = None]
  OBVIOUS
<1>6. /\ r \in ResponseForm /\ ~r.stream /\ r.body = <<r.status>> /\ r.size = p.res.size
      /\ r.flag = p.res.flag /\ r.offset = p.res.offset /\ r.sent = p.res.sent
  BY <1>4, <1>5 DEF ResponseForm, SameFile
<1>7. PICK g : g = generate(r)
  OBVIOUS
<1>8. g \in Seq(Item)
  BY <1>6, <1>7, GenerateIs
<1>9. PICK f : f = Failed(p, code)
  OBVIOUS
<1>10. f = [p EXCEPT !.res = r, !.buff = g, !.resStatus = "CS_WRITING_DONE", !.fd = "none"]
  BY <1>3, <1>5, <1>7, <1>9 DEF Failed
<1>11. /\ f \in SendForm /\ f.conn = p.conn /\ f.res = r /\ f.buff = g
       /\ f.resStatus = "CS_WRITING_DONE"
  BY <1>6, <1>8, <1>10 DEF SendForm
<1>12. IsFailed(p, f)
  BY <1>6, <1>7, <1>11 DEF IsFailed
<1> QED BY <1>9, <1>11, <1>12

\* A full buffer is sent before more is read.
IsFull(p, f) == f.res = p.res /\ f.buff = p.buff /\ f.resStatus = p.resStatus
\* The file is at its end.
IsAtEnd(p, f) ==
  /\ Len(p.buff) < Chunk /\ p.res.offset = p.res.size
  /\ f.res = p.res /\ f.buff = p.buff /\ f.resStatus = "CS_WRITING_DONE"
\* A block is read, of the file as it was before.
IsRead(p, f) ==
  \E n \in 1 .. Chunk :
    /\ Len(p.buff) < Chunk /\ p.res.offset + n <= p.res.size
    /\ f.res.offset = p.res.offset + n /\ f.res.sent = p.res.sent + n
    /\ f.res.size = p.res.size /\ f.res.stream = p.res.stream /\ f.res.flag = p.res.flag
    /\ f.buff = p.buff \o [k \in 1 .. n |-> FileByte(p.res.offset + k - 1)]
    /\ f.resStatus = p.resStatus

\* Each pass over the file ends in one of four ways.
LEMMA FilledIs ==
  ASSUME NEW p \in SendForm, p.res.offset <= p.res.size, NEW f \in Filled(p)
  PROVE  /\ f \in SendForm /\ f.conn = p.conn
         /\ \/ Len(p.buff) >= Chunk /\ IsFull(p, f)
            \/ IsAtEnd(p, f) \/ IsRead(p, f) \/ IsFailed(p, f)
<1>1. PICK q : q = [p EXCEPT !.fd = "open"]
  OBVIOUS
<1>2. /\ q \in SendForm /\ q.conn = p.conn /\ q.res = p.res /\ q.buff = p.buff
      /\ q.resStatus = p.resStatus
  BY <1>1 DEF SendForm
<1>3. PICK n : n = MinOf(Chunk, p.res.size - p.res.offset)
  OBVIOUS
<1>4. p.res.size \in Nat /\ p.res.offset \in Nat /\ p.res.sent \in Nat /\ p.buff \in Seq(Item)
      /\ p.res \in ResponseForm
  BY DEF SendForm, ResponseForm
<1>5. /\ n \in 0 .. Chunk /\ p.res.offset + n <= p.res.size
      /\ n = 0 => p.res.offset = p.res.size
  BY <1>3, <1>4, ChunkAssumption DEF MinOf
<1>6. Len(p.buff) \in Nat /\ Chunk \in Nat
  BY <1>4, LenProperties, ChunkAssumption
<1>7. \/ Len(p.buff) >= Chunk /\ f = q
      \/ Len(p.buff) < Chunk /\ f = Failed(p, 500)
      \/ Len(p.buff) < Chunk /\ n = 0 /\ f = AtEnd(q)
      \/ Len(p.buff) < Chunk /\ n # 0 /\ f = ReadBlock(q, n)
  BY <1>1, <1>3, <1>6 DEF Filled
<1>8. CASE Len(p.buff) >= Chunk /\ f = q
  BY <1>2, <1>8 DEF IsFull
<1>9. CASE f = Failed(p, 500)
  <2>1. PICK code \in StatusEntries : code = 500
    BY DEF StatusEntries
  <2> QED BY <1>9, <2>1, FailedIs
<1>10. CASE Len(p.buff) < Chunk /\ n = 0 /\ f = AtEnd(q)
  <2>1. f = [q EXCEPT !.fd = "none", !.resStatus = "CS_WRITING_DONE"]
    BY <1>10 DEF AtEnd
  <2>2. /\ f \in SendForm /\ f.conn = p.conn /\ f.res = p.res /\ f.buff = p.buff
        /\ f.resStatus = "CS_WRITING_DONE"
    BY <1>2, <2>1 DEF SendForm
  <2> QED BY <1>5, <1>10, <2>2 DEF IsAtEnd
<1>11. CASE Len(p.buff) < Chunk /\ n # 0 /\ f = ReadBlock(q, n)
  <2>1. PICK b : b = [k \in 1 .. n |-> FileByte(p.res.offset + k - 1)]
    OBVIOUS
  <2>2. b \in Seq(Item)
    <3>1. n \in Nat
      BY <1>5, <1>6
    <3> QED BY <1>4, <2>1, <3>1, BlockIs
  <2>3. p.buff \o b \in Seq(Item)
    BY <1>4, <2>2, ConcatProperties
  <2>4. PICK r : r = [p.res EXCEPT !.offset = @ + n, !.sent = @ + n]
    OBVIOUS
  <2>5. /\ r \in ResponseForm /\ r.offset = p.res.offset + n /\ r.sent = p.res.sent + n
        /\ r.size = p.res.size /\ r.stream = p.res.stream /\ r.flag = p.res.flag
    <3>1. n \in Nat
      BY <1>5, <1>6
    <3>2. p.res.offset + n \in Nat /\ p.res.sent + n \in Nat
      BY <1>4, <3>1
    <3> QED BY <1>4, <2>4, <3>2 DEF ResponseForm
  <2>6. f = [q EXCEPT !.buff = p.buff \o b, !.res = r]
    <3>1. f = [q EXCEPT !.buff = @ \o b, !.res.offset = @ + n, !.res.sent = @ + n]
      BY <1>2, <1>11, <2>1 DEF ReadBlock
    <3> QED BY <1>2, <2>4, <3>1 DEF SendForm, ResponseForm
  <2>7. /\ f \in SendForm /\ f.conn = p.conn /\ f.res = r /\ f.buff = p.buff \o b
        /\ f.resStatus = p.resStatus
    BY <1>2, <2>3, <2>5, <2>6 DEF SendForm
  <2>8. n \in 1 .. Chunk
    BY <1>5, <1>6, <1>11
  <2>9. IsRead(p, f)
    BY <1>5, <1>11, <2>1, <2>5, <2>7, <2>8 DEF IsRead
  <2> QED BY <2>7, <2>9
<1> QED BY <1>7, <1>8, <1>9, <1>10, <1>11

\* The parts of what "streams" says.
LEMMA StreamsIs ==
  ASSUME NEW u, NEW m, u # << >>, u[1].part = "headers", u[1].code \in {200, 206},
         u[1].code = 206 => Start + u[1].length <= res.size, Len(u) - 1 = m - Start,
         \A j \in 2 .. Len(u) : u[j] = FileByte(Start + j - 2)
  PROVE  Streams(u, m)
BY DEF Streams

\* A block read on where the last one ended goes on with the file.
LEMMA StreamsOn ==
  ASSUME TypeOK, NEW t \in Seq(Item), NEW o \in Nat, NEW n \in Nat, Streams(t, o),
         NEW b, b = [k \in 1 .. n |-> FileByte(o + k - 1)]
  PROVE  t \o b \in Seq(Item) /\ Streams(t \o b, o + n)
<1>1. b \in Seq(Item) /\ Len(b) = n /\ \A k \in 1 .. n : b[k] = FileByte(o + k - 1)
  BY BlockIs
<1>2. /\ t \o b \in Seq(Item) /\ Len(t \o b) = Len(t) + n
      /\ \A i \in 1 .. Len(t) + n : (t \o b)[i] = IF i <= Len(t) THEN t[i] ELSE b[i - Len(t)]
  BY <1>1, ConcatProperties
<1>3. /\ Len(t) \in Nat /\ Len(t) > 0 /\ Start \in Nat /\ Len(t) - 1 = o - Start
      /\ o = Start + Len(t) - 1
  <2>1. Len(t) \in Nat \ {0} /\ Start \in Nat
    BY EmptySeq, WindowIs DEF Streams
  <2>2. Len(t) - 1 = o - Start
    BY DEF Streams
  <2> QED BY <2>1, <2>2
<1>4. (t \o b)[1] = t[1] /\ t \o b # << >>
  BY <1>2, <1>3, EmptySeq
<1>5. ASSUME NEW j \in 2 .. Len(t \o b)
      PROVE  (t \o b)[j] = FileByte(Start + j - 2)
  <2>1. CASE j <= Len(t)
    BY <1>2, <1>3, <1>5, <2>1 DEF Streams
  <2>2. CASE j > Len(t)
    <3>1. j - Len(t) \in 1 .. n
      BY <1>2, <1>3, <1>5, <2>2
    <3>4. o + (j - Len(t)) - 1 = Start + j - 2
      <4>1. j \in Int
        BY <1>5
      <4> QED BY <1>3, <4>1
    <3>2. (t \o b)[j] = b[j - Len(t)]
      BY <1>2, <1>3, <1>5, <2>2
    <3> QED BY <1>1, <3>1, <3>2, <3>4
  <2> QED BY <1>2, <1>3, <1>5, <2>1, <2>2
<1>6. Len(t \o b) - 1 = o + n - Start
  BY <1>2, <1>3
<1>7. /\ t[1].part = "headers" /\ t[1].code \in {200, 206}
      /\ t[1].code = 206 => Start + t[1].length <= res.size
  BY DEF Streams
<1>8. PICK u : u = t \o b
  OBVIOUS
<1>9. \A j \in 2 .. Len(u) : u[j] = FileByte(Start + j - 2)
  BY <1>5, <1>8
<1>10. /\ u # << >> /\ u[1].part = "headers" /\ u[1].code \in {200, 206}
       /\ u[1].code = 206 => Start + u[1].length <= res.size
  <2>1. u # << >> /\ u[1] = t[1]
    BY <1>4, <1>8
  <2> QED BY <1>7, <2>1
<1>11. PICK m : m = o + n
  OBVIOUS
<1>12. Len(u) - 1 = m - Start
  <2>1. PICK l \in Nat : l = Len(u)
    BY <1>2, <1>3, <1>8
  <2>2. m \in Nat /\ l - 1 = o + n - Start
    BY <1>6, <1>8, <1>11, <2>1
  <2> QED BY <1>3, <1>11, <2>1, <2>2
<1>13. Streams(u, m)
  BY <1>9, <1>10, <1>12, StreamsIs
<1> QED BY <1>2, <1>8, <1>11, <1>13

\* What sendResponse() may leave, in the terms of the invariant: the headers of a
\* media file alone; a page, once or again; a block, the end, or an error of a file.
Kept(p) ==
  /\ p \in SendForm /\ Len(p.buff) < 2 * Chunk
  /\ p.res.size = res.size /\ p.res.flag = res.flag
  /\ p.res.offset <= p.res.size /\ p.res.sent <= p.res.offset
IsBare(p) ==
  /\ p.res = res /\ res = began /\ p.buff = generate(res) /\ wire = << >>
  /\ p.resStatus = "CS_WRITING_DONE" /\ p.conn = "CLOSED" /\ HeadersOnly
IsPage(p) ==
  /\ ~res.stream /\ p.res = res /\ res = began /\ p.resStatus = "CS_WRITING"
  /\ wire \o p.buff = generate(began) /\ p.buff # << >> /\ p.conn = conn
IsPageAgain(p) ==
  /\ ~res.stream /\ p.res = res /\ res = began /\ p.resStatus = "CS_WRITING_DONE"
  /\ wire = generate(began) /\ p.conn = conn
  /\ p.buff = IF began.body # << >> THEN generate(began) ELSE << >>
IsBlock(p) ==
  /\ began.stream /\ p.resStatus = "CS_WRITING" /\ p.conn = conn /\ p.buff # << >>
  /\ p.res.stream /\ p.res.sent # 0
  /\ Streams(wire \o p.buff, p.res.offset)
IsLast(p) ==
  /\ began.stream /\ p.resStatus = "CS_WRITING_DONE" /\ p.conn = conn
  /\ p.res.stream /\ p.res.offset = res.size /\ Len(p.buff) < Chunk
  /\ \/ Streams(wire \o p.buff, res.size)
     \/ /\ wire = << >> /\ Len(p.buff) = 1 /\ p.buff[1].part = "headers"
        /\ Streaming => res.size = 0
IsError(p) ==
  /\ began.stream /\ p.resStatus = "CS_WRITING_DONE" /\ p.conn = conn
  /\ ~p.res.stream /\ p.res.body = <<p.res.status>> /\ p.buff = generate(p.res)
SendCase(p) == IsBare(p) \/ IsPage(p) \/ IsPageAgain(p) \/ IsBlock(p) \/ IsLast(p) \/ IsError(p)

\* An error, wherever it happens.
LEMMA ErrorCase ==
  ASSUME TypeOK, began.stream, NEW b \in SendForm, NEW p \in SendForm, p.conn = b.conn,
         b.conn = conn, IsFailed(b, p), b.res.size = res.size, b.res.flag = res.flag,
         b.res.offset <= b.res.size, b.res.sent <= b.res.offset
  PROVE  Kept(p) /\ IsError(p)
<1>1. PICK r \in ResponseForm :
        /\ p.res = r /\ p.buff = generate(r) /\ p.resStatus = "CS_WRITING_DONE"
        /\ ~r.stream /\ r.body = <<r.status>> /\ r.size = b.res.size /\ r.flag = b.res.flag
        /\ r.offset = b.res.offset /\ r.sent = b.res.sent
  BY DEF IsFailed
<1>2. Len(p.buff) < 2 * Chunk
  <2>1. Len(generate(r)) = 1 \/ Len(generate(r)) = 2
    BY GenerateIs
  <2>2. 2 < 2 * Chunk /\ 1 < 2 * Chunk
    BY ChunkAssumption
  <2> QED BY <1>1, <2>1, <2>2
<1> QED BY <1>1, <1>2 DEF Kept, IsError
\* A pass over a file whose headers and bytes so far are in place.
LEMMA FilledCase ==
  ASSUME TypeOK, began.stream, NEW b \in SendForm, b.conn = conn, b.res.stream,
         b.res.size = res.size, b.res.flag = res.flag, b.res.offset <= b.res.size,
         b.res.sent <= b.res.offset, b.resStatus = "CS_WRITING", Len(b.buff) < 2 * Chunk,
         Streams(wire \o b.buff, b.res.offset), Len(b.buff) >= Chunk => b.res.sent # 0,
         NEW p \in Filled(b)
  PROVE  Kept(p) /\ SendCase(p)
<1>1. /\ p \in SendForm /\ p.conn = b.conn
      /\ \/ Len(b.buff) >= Chunk /\ IsFull(b, p)
         \/ IsAtEnd(b, p) \/ IsRead(b, p) \/ IsFailed(b, p)
  BY FilledIs
<1>2. /\ b.res.offset \in Nat /\ b.res.sent \in Nat /\ b.buff \in Seq(Item) /\ wire \in Seq(Item)
      /\ Len(b.buff) \in Nat /\ Chunk \in Nat /\ Chunk > 2 /\ res.size \in Nat
  BY ChunkAssumption DEF SendForm, ResponseForm, TypeOK
<1>3. CASE Len(b.buff) >= Chunk /\ IsFull(b, p)
  <2>1. p.res = b.res /\ p.buff = b.buff /\ p.resStatus = "CS_WRITING"
    BY <1>3 DEF IsFull
  <2>2. Kept(p)
    BY <1>1, <2>1 DEF Kept
  <2>3. p.buff # << >>
    <3>1. Len(b.buff) # 0
      BY <1>2, <1>3
    <3> QED BY <2>1, <3>1
  <2>4. IsBlock(p)
    BY <1>1, <1>3, <2>1, <2>3 DEF IsBlock
  <2> QED BY <2>2, <2>4 DEF SendCase
<1>4. CASE IsAtEnd(b, p)
  <2>1. /\ p.res = b.res /\ p.buff = b.buff /\ p.resStatus = "CS_WRITING_DONE"
        /\ Len(b.buff) < Chunk /\ b.res.offset = b.res.size
    BY <1>4 DEF IsAtEnd
  <2>2. Kept(p)
    BY <1>1, <2>1 DEF Kept
  <2>3. IsLast(p)
    BY <1>1, <2>1 DEF IsLast
  <2> QED BY <2>2, <2>3 DEF SendCase
<1>5. CASE IsRead(b, p)
  <2>1. PICK n \in 1 .. Chunk :
          /\ Len(b.buff) < Chunk /\ b.res.offset + n <= b.res.size
          /\ p.res.offset = b.res.offset + n /\ p.res.sent = b.res.sent + n
          /\ p.res.size = b.res.size /\ p.res.stream = b.res.stream /\ p.res.flag = b.res.flag
          /\ p.buff = b.buff \o [k \in 1 .. n |-> FileByte(b.res.offset + k - 1)]
          /\ p.resStatus = b.resStatus
    BY <1>5 DEF IsRead
  <2>2. n \in Nat /\ n > 0 /\ n <= Chunk
    BY <1>2, <2>1
  <2>3. PICK o : o = b.res.offset
    OBVIOUS
  <2>4. PICK d : d = [k \in 1 .. n |-> FileByte(o + k - 1)]
    OBVIOUS
  <2>5. o \in Nat /\ d \in Seq(Item) /\ Len(d) = n
    <3>1. o \in Nat
      BY <1>2, <2>3
    <3>2. n \in Nat
      BY <2>2
    <3> QED BY <2>4, <3>1, <3>2, BlockIs
  <2>6. p.buff = b.buff \o d
    BY <2>1, <2>3, <2>4
  <2>7. Len(p.buff) = Len(b.buff) + n
    <3>1. PICK c \in Seq(Item) : c = b.buff
      BY <1>2
    <3>2. Len(c \o d) = Len(c) + Len(d)
      BY <2>5, <3>1, ConcatProperties
    <3> QED BY <2>5, <2>6, <3>1, <3>2
  <2>8. Len(p.buff) < 2 * Chunk /\ Len(p.buff) # 0
    BY <1>2, <2>1, <2>2, <2>7
  <2>9. PICK t : t = wire \o b.buff
    OBVIOUS
  <2>10. t \in Seq(Item) /\ wire \o p.buff = t \o d
    <3>1. t \in Seq(Item)
      BY <1>2, <2>9, ConcatProperties
    <3>2. PICK c \in Seq(Item) : c = b.buff
      BY <1>2
    <3>3. wire \in Seq(Item) /\ c \in Seq(Item) /\ d \in Seq(Item)
      BY <1>2, <2>5, <3>2
    <3>4. wire \o (c \o d) = (wire \o c) \o d
      BY <3>3, Regroup
    <3> QED BY <2>6, <2>9, <3>1, <3>2, <3>4
  <2>11. Streams(t \o d, o + n)
    <3>1. Streams(t, o) /\ o \in Nat
      BY <1>2, <2>3, <2>9
    <3> QED BY <2>2, <2>4, <2>10, <3>1, StreamsOn
  <2>12. p.res.sent # 0 /\ p.res.sent <= p.res.offset /\ p.res.offset <= p.res.size
    <3>1. PICK s \in Nat : s = b.res.sent
      BY <1>2
    <3>2. s <= o /\ o \in Nat /\ o + n <= b.res.size /\ p.res.sent = s + n /\ p.res.offset = o + n
      BY <1>2, <2>1, <2>3, <3>1
    <3>3. s + n # 0 /\ s + n <= o + n
      BY <2>2, <3>2
    <3> QED BY <2>1, <3>2, <3>3
  <2>13. Kept(p)
    BY <1>1, <2>1, <2>8, <2>12 DEF Kept
  <2>14. IsBlock(p)
    <3>1. Streams(wire \o p.buff, p.res.offset)
      BY <2>1, <2>3, <2>10, <2>11
    <3>2. p.buff # << >>
      BY <2>8
    <3> QED BY <1>1, <2>1, <2>12, <3>1, <3>2 DEF IsBlock
  <2> QED BY <2>13, <2>14 DEF SendCase
<1>6. CASE IsFailed(b, p)
  <2>1. Kept(p) /\ IsError(p)
    BY <1>1, <1>6, ErrorCase
  <2> QED BY <2>1 DEF SendCase
<1> QED BY <1>1, <1>3, <1>4, <1>5, <1>6

\* A Response that kept _stream from an earlier file has nothing of it left to read.
LEMMA StaleCase ==
  ASSUME TypeOK, res = began, res.stream, res.offset = res.size, wire = << >>,
         NEW b \in SendForm, b.conn = conn, b.res = res, b.resStatus = "CS_WRITING",
         b.buff = generate(res), NEW p \in Filled(b)
  PROVE  Kept(p) /\ SendCase(p)
<1>1. res \in ResponseForm /\ res.offset <= res.size /\ res.sent <= res.offset
  BY DEF TypeOK
<1>2. /\ p \in SendForm /\ p.conn = b.conn
      /\ \/ Len(b.buff) >= Chunk /\ IsFull(b, p)
         \/ IsAtEnd(b, p) \/ IsRead(b, p) \/ IsFailed(b, p)
  BY <1>1, FilledIs
<1>3. Len(b.buff) = 1 /\ b.buff[1].part = "headers" /\ 1 < Chunk /\ 1 < 2 * Chunk
  BY <1>1, GenerateIs, ChunkAssumption
<1>4. res.size \in Nat /\ res.offset \in Nat
  BY <1>1 DEF ResponseForm
<1>5. CASE Len(b.buff) >= Chunk
  BY <1>3, <1>5, ChunkAssumption
<1>6. CASE IsAtEnd(b, p)
  <2>1. /\ p.res = res /\ p.buff = b.buff /\ p.resStatus = "CS_WRITING_DONE"
    BY <1>6 DEF IsAtEnd
  <2>2. Kept(p)
    BY <1>1, <1>2, <1>3, <2>1 DEF Kept
  <2>3. Streaming => res.size = 0
    BY DEF Streaming
  <2>4. IsLast(p)
    BY <1>2, <1>3, <2>1, <2>3 DEF IsLast
  <2> QED BY <2>2, <2>4 DEF SendCase
<1>7. CASE IsRead(b, p)
  <2>1. PICK n \in 1 .. Chunk : b.res.offset + n <= b.res.size
    BY <1>7 DEF IsRead
  <2>2. n \in Nat /\ n > 0
    BY <2>1, ChunkAssumption
  <2> QED BY <1>4, <2>1, <2>2
<1>8. CASE IsFailed(b, p)
  <2>1. Kept(p) /\ IsError(p)
    BY <1>1, <1>2, <1>8, ErrorCase
  <2> QED BY <2>1 DEF SendCase
<1> QED BY <1>2, <1>5, <1>6, <1>7, <1>8
\* The first block of an answer.
LEMMA BegunIs ==
  ASSUME TypeOK, SendInv, phase = "sending", Starting
  PROVE  /\ wire = << >> /\ res = began
         /\ res.stream => \/ res.offset = res.size
                          \/ res.offset = 0 /\ res.sent = 0 /\ res.status = 200
         /\ Begun \in SendForm /\ Begun.res = res /\ Begun.buff = generate(res)
         /\ HeadersOnly => Begun.resStatus = "CS_WRITING_DONE" /\ Begun.conn = "CLOSED"
         /\ ~HeadersOnly => Begun.resStatus = "CS_WRITING" /\ Begun.conn = conn
<1>1. resStatus = "CS_START_SEND"
  BY DEF Starting
<1>2. /\ wire = << >> /\ res = began
      /\ res.stream => \/ res.offset = res.size
                       \/ res.offset = 0 /\ res.sent = 0 /\ res.status = 200
  BY <1>1 DEF SendInv, Starts
<1>3. res \in ResponseForm /\ buff \in Seq(Item) /\ fd \in {"none", "open"}
      /\ conn \in {"NEW", "CLOSED"}
  BY DEF TypeOK
<1>4. PICK g \in Seq(Item) : g = generate(res)
  BY <1>3, GenerateIs
<1>5. PICK b : b = Begun
  OBVIOUS
<1>6. b = [Now EXCEPT !.buff = g,
                      !.resStatus = IF HeadersOnly THEN "CS_WRITING_DONE" ELSE "CS_WRITING",
                      !.conn = IF HeadersOnly THEN "CLOSED" ELSE @]
  BY <1>4, <1>5 DEF Begun
<1>7. b = [res |-> res, buff |-> g,
           resStatus |-> IF HeadersOnly THEN "CS_WRITING_DONE" ELSE "CS_WRITING",
           fd |-> fd, conn |-> IF HeadersOnly THEN "CLOSED" ELSE conn]
  BY <1>6 DEF Now
<1>8. b \in SendForm
  BY <1>3, <1>7 DEF SendForm
<1>9. /\ b.res = res /\ b.buff = g
      /\ HeadersOnly => b.resStatus = "CS_WRITING_DONE" /\ b.conn = "CLOSED"
      /\ ~HeadersOnly => b.resStatus = "CS_WRITING" /\ b.conn = conn
  BY <1>7
<1> QED BY <1>2, <1>4, <1>5, <1>8, <1>9

\* The status and the length of a partial answer.
LEMMA PartialIs ==
  ASSUME NEW r \in ResponseForm, NEW l \in Nat
  PROVE  [r EXCEPT !.status = 206, !.length = l] \in ResponseForm
<1>1. PICK code \in StatusEntries : code = 206
  BY DEF StatusEntries
<1>2. [r EXCEPT !.status = code, !.length = l] \in ResponseForm
  BY DEF ResponseForm
<1> QED BY <1>1, <1>2

\* A range that is announced lies in the file.
LEMMA RangedIs ==
  ASSUME TypeOK, res.stream, res.sent = 0, Window.valid, NEW b \in SendForm, b.res = res
  PROVE  LET g == Ranged(b, Window)
         IN /\ g \in SendForm /\ g.conn = b.conn /\ g.resStatus = b.resStatus
            /\ g.res.stream /\ g.res.size = res.size /\ g.res.flag = res.flag
            /\ g.res.offset <= g.res.size /\ g.res.sent <= g.res.offset /\ g.res.sent = 0
            /\ Len(g.buff) = 1 /\ Streams(g.buff, g.res.offset)
<1>1. /\ Start \in Nat /\ Start = Window.start /\ Window.end \in Int
      /\ Window.end < res.size /\ Start <= Window.end + 1
  BY WindowIs
<1>2. res \in ResponseForm /\ res.size \in Nat /\ res.sent \in Nat
  BY DEF TypeOK, ResponseForm
<1>3. PICK l \in Nat : l = Window.end - Window.start + 1
  BY <1>1
<1>4. Start + l <= res.size /\ Start <= res.size
  BY <1>1, <1>2, <1>3
<1>5. PICK r : r = [res EXCEPT !.status = 206, !.length = l]
  OBVIOUS
<1>6. /\ r \in ResponseForm /\ r.stream /\ r.status = 206 /\ r.length = l /\ r.size = res.size
      /\ r.flag = res.flag /\ r.sent = 0
  <2>1. r \in ResponseForm
    <3>1. res \in ResponseForm /\ l \in Nat
      BY <1>2, <1>3
    <3> QED BY <1>5, <3>1, PartialIs, ZenonT(60)
  <2> QED BY <1>2, <1>5, <2>1 DEF ResponseForm
<1>7. PICK h \in Seq(Item) : h = generate(r)
  BY <1>6, GenerateIs
<1>8. Len(h) = 1 /\ h[1].part = "headers" /\ h[1].code = 206 /\ h[1].length = l
  BY <1>6, <1>7, GenerateIs
<1>9. PICK q : q = [r EXCEPT !.offset = Start]
  OBVIOUS
<1>10. /\ q \in ResponseForm /\ q.stream /\ q.size = res.size /\ q.flag = res.flag
       /\ q.offset = Start /\ q.sent = 0
  BY <1>1, <1>6, <1>9 DEF ResponseForm
<1>11. PICK g : g = Ranged(b, Window)
  OBVIOUS
<1>12. g = [b EXCEPT !.res = q, !.buff = h]
  BY <1>1, <1>3, <1>5, <1>7, <1>9, <1>11 DEF Ranged
<1>13. /\ g \in SendForm /\ g.conn = b.conn /\ g.resStatus = b.resStatus
       /\ g.res = q /\ g.buff = h
  BY <1>7, <1>10, <1>12 DEF SendForm
<1>14. q.offset <= q.size /\ q.sent <= q.offset
  BY <1>1, <1>4, <1>10
<1>15. Streams(h, Start)
  <2>1. h # << >> /\ h[1].code \in {200, 206}
    <3>1. h # << >>
      BY <1>7, <1>8, SingleIs
    <3>2. h[1].code \in {200, 206}
      BY <1>8
    <3> QED BY <3>1, <3>2
  <2>4. PICK m \in Nat : m = Start
    BY <1>1
  <2>5. Len(h) - 1 = m - Start
    BY <1>1, <1>8, <2>4
  <2>2. Start + h[1].length <= res.size
    BY <1>4, <1>8
  <2>3. \A j \in 2 .. Len(h) : h[j] = FileByte(Start + j - 2)
    BY <1>8
  <2>7. h[1].part = "headers"
    BY <1>8
  <2>6. Streams(h, m)
    BY <2>1, <2>2, <2>3, <2>5, <2>7, StreamsIs
  <2> QED BY <2>4, <2>6
<1> QED BY <1>8, <1>10, <1>11, <1>13, <1>14, <1>15

\* What the first call of sendResponse() leaves.
LEMMA StartingCase ==
  ASSUME TypeOK, SendInv, phase = "sending", Starting, NEW p \in sendResponse
  PROVE  Kept(p) /\ SendCase(p)
<1>1. PICK b : b = Begun
  OBVIOUS
<1>2. /\ wire = << >> /\ res = began
      /\ res.stream => \/ res.offset = res.size
                       \/ res.offset = 0 /\ res.sent = 0 /\ res.status = 200
      /\ b \in SendForm /\ b.res = res /\ b.buff = generate(res)
      /\ HeadersOnly => b.resStatus = "CS_WRITING_DONE" /\ b.conn = "CLOSED"
      /\ ~HeadersOnly => b.resStatus = "CS_WRITING" /\ b.conn = conn
  BY <1>1, BegunIs
<1>3. /\ res \in ResponseForm /\ res.offset <= res.size /\ res.sent <= res.offset
      /\ res.size \in Nat /\ res.offset \in Nat /\ res.sent \in Nat
  BY DEF TypeOK, ResponseForm
<1>4. Len(b.buff) < 2 * Chunk /\ b.buff # << >> /\ (res.stream => Len(b.buff) = 1)
      /\ b.buff \in Seq(Item)
  <2>1. /\ b.buff \in Seq(Item)
        /\ Len(b.buff) = 1 \/ Len(b.buff) = 2
        /\ res.stream => Len(b.buff) = 1
    BY <1>2, <1>3, GenerateIs
  <2>2. 1 < 2 * Chunk /\ 2 < 2 * Chunk
    BY ChunkAssumption
  <2>3. Len(b.buff) < 2 * Chunk
    BY <2>1, <2>2
  <2>4. b.buff # << >>
    BY <2>1
  <2> QED BY <2>1, <2>3, <2>4
<1>5. Kept(b)
  BY <1>2, <1>3, <1>4 DEF Kept
<1>6. CASE HeadersOnly
  <2>1. p = b
    BY <1>1, <1>6 DEF sendResponse
  <2>2. IsBare(p)
    BY <1>2, <1>6, <2>1 DEF IsBare
  <2> QED BY <1>5, <2>1, <2>2 DEF SendCase
<1>7. CASE ~HeadersOnly /\ ~res.stream
  <2>1. p = b
    BY <1>1, <1>4, <1>7 DEF sendResponse, InMemory
  <2>2. wire \o b.buff = generate(began)
    BY <1>2, <1>4
  <2>3. IsPage(p)
    BY <1>2, <1>4, <1>7, <2>1, <2>2 DEF IsPage
  <2> QED BY <1>5, <2>1, <2>3 DEF SendCase
<1>8. CASE ~HeadersOnly /\ res.stream
  <2>1. p \in Streamed(b) /\ began.stream
    BY <1>1, <1>2, <1>8 DEF sendResponse
  <2>2. CASE res.offset = res.size /\ p \in Filled(b)
    BY <1>2, <1>8, <2>2, StaleCase
  <2>3. CASE res.offset = 0 /\ res.sent = 0 /\ res.status = 200 /\ asked.range = "no"
             /\ p \in Filled(b)
    <3>1. Start = 0
      BY <2>3, WindowIs
    <3>2. /\ b.buff[1].part = "headers" /\ b.buff[1].code = 200 /\ Len(b.buff) = 1
      BY <1>2, <1>3, <1>8, <2>3, GenerateIs
    <3>3. Streams(b.buff, 0)
      <4>1. b.buff # << >> /\ b.buff[1].code \in {200, 206}
        BY <1>4, <3>2
      <4>4. PICK u : u = b.buff
        OBVIOUS
      <4>5. PICK m \in Nat : m = 0
        OBVIOUS
      <4>6. Len(u) - 1 = m - Start
        BY <3>1, <3>2, <4>4, <4>5
      <4>2. b.buff[1].code = 206 => Start + b.buff[1].length <= res.size
        BY <3>2
      <4>3. \A j \in 2 .. Len(b.buff) : b.buff[j] = FileByte(Start + j - 2)
        BY <3>2
      <4>7. Streams(u, m)
        BY <3>2, <4>1, <4>2, <4>3, <4>4, <4>6, StreamsIs
      <4> QED BY <4>4, <4>5, <4>7
    <3>4. Streams(wire \o b.buff, b.res.offset)
      BY <1>2, <1>4, <2>3, <3>3
    <3>5. ~(Len(b.buff) >= Chunk)
      BY <3>2, ChunkAssumption
    <3>6. b.res.stream /\ b.res.size = res.size /\ b.res.flag = res.flag
          /\ b.res.offset <= b.res.size /\ b.res.sent <= b.res.offset
      BY <1>2, <1>3, <1>8
    <3> QED BY <1>2, <1>4, <1>8, <2>1, <2>3, <3>4, <3>5, <3>6, FilledCase
  <2>4. CASE res.sent = 0 /\ Window.valid /\ p \in Filled(Ranged(b, Window))
    <3>1. PICK g : g = Ranged(b, Window)
      OBVIOUS
    <3>2. /\ g \in SendForm /\ g.conn = b.conn /\ g.resStatus = b.resStatus
          /\ g.res.stream /\ g.res.size = res.size /\ g.res.flag = res.flag
          /\ g.res.offset <= g.res.size /\ g.res.sent <= g.res.offset
          /\ Len(g.buff) = 1 /\ Streams(g.buff, g.res.offset)
      BY <1>2, <1>8, <2>4, <3>1, RangedIs
    <3>3. g.conn = conn /\ g.resStatus = "CS_WRITING"
      BY <1>2, <1>8, <3>2
    <3>4. Len(g.buff) < 2 * Chunk /\ ~(Len(g.buff) >= Chunk)
      BY <3>2, ChunkAssumption
    <3>5. wire \o g.buff = g.buff
      <4>1. PICK c \in Seq(Item) : c = g.buff
        BY <3>2 DEF SendForm
      <4> QED BY <1>2, <4>1
    <3>6. Streams(wire \o g.buff, g.res.offset)
      BY <3>2, <3>5
    <3> QED BY <2>1, <2>4, <3>1, <3>2, <3>3, <3>4, <3>6, FilledCase
  <2>5. CASE p = Failed(b, 416)
    <3>1. PICK code \in StatusEntries : code = 416
      BY DEF StatusEntries
    <3>2. p \in SendForm /\ p.conn = b.conn /\ IsFailed(b, p)
      BY <1>2, <2>5, <3>1, FailedIs
    <3>3. Kept(p) /\ IsError(p)
      BY <1>2, <1>3, <1>8, <2>1, <3>2, ErrorCase
    <3> QED BY <3>3 DEF SendCase
  <2>6. \/ p \in Filled(b) /\ (res.sent # 0 \/ asked.range = "no")
        \/ res.sent = 0 /\ Window.valid /\ p \in Filled(Ranged(b, Window))
        \/ p = Failed(b, 416)
    BY <1>2, <2>1 DEF Streamed
  <2> QED BY <1>2, <1>8, <2>2, <2>3, <2>4, <2>5, <2>6
<1> QED BY <1>6, <1>7, <1>8

\* What a later one leaves.
LEMMA WritingCase ==
  ASSUME TypeOK, SendInv, phase = "sending", resStatus = "CS_WRITING", NEW p \in sendResponse
  PROVE  Kept(p) /\ SendCase(p)
<1>1. IF res.stream THEN began.stream /\ res.sent # 0 /\ Streams(wire \o buff, res.offset)
                    ELSE res = began /\ wire \o buff = generate(began)
  BY DEF SendInv, Writes
<1>2. /\ res \in ResponseForm /\ buff \in Seq(Item) /\ wire \in Seq(Item) /\ Len(buff) < 2 * Chunk
      /\ fd \in {"none", "open"} /\ conn \in {"NEW", "CLOSED"}
      /\ res.offset <= res.size /\ res.sent <= res.offset
  BY DEF TypeOK
<1>3. PICK b : b = Now
  OBVIOUS
<1>4. /\ b \in SendForm /\ b.res = res /\ b.buff = buff /\ b.resStatus = "CS_WRITING"
      /\ b.conn = conn
  BY <1>2, <1>3 DEF Now, SendForm
<1>5. p \in IF res.stream THEN Streamed(b) ELSE {InMemory(b)}
  BY <1>3 DEF sendResponse, Begun, Starting
<1>6. CASE res.stream
  <2>1. p \in Filled(b)
    BY <1>1, <1>4, <1>5, <1>6 DEF Streamed
  <2> QED BY <1>1, <1>2, <1>4, <1>6, <2>1, FilledCase
<1>7. CASE ~res.stream /\ buff # << >>
  <2>1. p = b
    BY <1>4, <1>5, <1>7 DEF InMemory
  <2>2. Kept(p)
    BY <1>2, <1>4, <2>1 DEF Kept
  <2>3. IsPage(p)
    BY <1>1, <1>4, <1>7, <2>1 DEF IsPage
  <2> QED BY <2>2, <2>3 DEF SendCase
<1>8. CASE ~res.stream /\ buff = << >>
  <2>1. PICK g : g = generate(res)
    OBVIOUS
  <2>2. g \in Seq(Item) /\ (Len(g) = 1 \/ Len(g) = 2)
    BY <1>2, <2>1, GenerateIs
  <2>3. PICK d : d = IF res.body # << >> THEN g ELSE << >>
    OBVIOUS
  <2>4. d \in Seq(Item) /\ Len(d) < 2 * Chunk
    <3>1. 0 < 2 * Chunk /\ 1 < 2 * Chunk /\ 2 < 2 * Chunk
      BY ChunkAssumption
    <3>2. << >> \in Seq(Item) /\ Len(<< >>) = 0
      OBVIOUS
    <3>3. Len(g) < 2 * Chunk
      BY <2>2, <3>1
    <3>4. CASE d = g
      BY <2>2, <3>3, <3>4
    <3>5. CASE d = << >>
      BY <3>1, <3>2, <3>5
    <3> QED BY <2>3, <3>4, <3>5
  <2>5. p = [b EXCEPT !.resStatus = "CS_WRITING_DONE", !.buff = d]
    BY <1>4, <1>5, <1>8, <2>1, <2>3 DEF InMemory
  <2>6. /\ p \in SendForm /\ p.res = res /\ p.buff = d /\ p.resStatus = "CS_WRITING_DONE"
        /\ p.conn = conn
    BY <1>4, <2>4, <2>5 DEF SendForm
  <2>7. Kept(p)
    BY <1>2, <2>4, <2>6 DEF Kept
  <2>8. wire = generate(began) /\ res = began
    BY <1>1, <1>2, <1>8
  <2>9. IsPageAgain(p)
    BY <1>8, <2>1, <2>3, <2>6, <2>8 DEF IsPageAgain
  <2> QED BY <2>7, <2>9 DEF SendCase
<1> QED BY <1>6, <1>7, <1>8

\* Whatever call it is.
LEMMA SendCases ==
  ASSUME TypeOK, SendInv, phase = "sending", resStatus # "CS_WRITING_DONE", NEW p \in sendResponse
  PROVE  Kept(p) /\ SendCase(p)
<1>1. resStatus \in {"CS_START_SEND", "CS_WRITING"}
  BY DEF TypeOK, SendInv, Begins
<1> QED BY <1>1, StartingCase, WritingCase DEF Starting
-----------------------------------------------------------------------------
(* What the client has received, and what send() took of a block.          *)

\* send() takes the first n items of the buffer.
LEMMA TakenIs ==
  ASSUME NEW w \in Seq(Item), NEW b \in Seq(Item), NEW n \in 1 .. Len(b)
  PROVE  LET x == w \o SubSeq(b, 1, n)
             y == SubSeq(b, n + 1, Len(b))
         IN /\ x \in Seq(Item) /\ Len(x) = Len(w) + n
            /\ \A i \in 1 .. Len(x) : x[i] = (w \o b)[i]
            /\ Len(w \o b) = Len(w) + Len(b) /\ w \o b \in Seq(Item)
            /\ y \in Seq(Item) /\ Len(y) <= Len(b) /\ x \o y = w \o b
<1>1. n \in Nat /\ n > 0 /\ n <= Len(b) /\ Len(b) \in Nat /\ Len(w) \in Nat
  OBVIOUS
<1>2. PICK c : c = SubSeq(b, 1, n)
  OBVIOUS
<1>3. c \in Seq(Item) /\ Len(c) = n /\ \A i \in 1 .. n : c[i] = b[i]
  BY <1>1, <1>2, SubSeqProperties
<1>4. PICK y : y = SubSeq(b, n + 1, Len(b))
  OBVIOUS
<1>5. y \in Seq(Item) /\ Len(y) <= Len(b)
  <2>1. \A i \in n + 1 .. Len(b) : b[i] \in Item
    BY <1>1
  <2>2. y \in Seq(Item) /\ Len(y) = IF n + 1 <= Len(b) THEN Len(b) - (n + 1) + 1 ELSE 0
    BY <1>1, <1>4, <2>1, SubSeqProperties
  <2> QED BY <1>1, <2>2
<1>6. c \o y = b
  <2>1. SubSeq(b, 1, n) \o SubSeq(b, n + 1, Len(b)) = SubSeq(b, 1, Len(b))
    BY <1>1, ConcatAdjacentSubSeq
  <2>2. SubSeq(b, 1, Len(b)) = b
    OBVIOUS
  <2> QED BY <1>2, <1>4, <2>1, <2>2
<1>7. PICK x : x = w \o c
  OBVIOUS
<1>8. /\ x \in Seq(Item) /\ Len(x) = Len(w) + n
      /\ \A i \in 1 .. Len(w) + n : x[i] = IF i <= Len(w) THEN w[i] ELSE c[i - Len(w)]
  <2>1. PICK m \in Nat : m = Len(c)
    BY <1>3
  <2>2. /\ w \o c \in Seq(Item) /\ Len(w \o c) = Len(w) + Len(c)
        /\ \A i \in 1 .. Len(w) + Len(c) : (w \o c)[i] = IF i <= Len(w) THEN w[i] ELSE c[i - Len(w)]
    BY <1>3, ConcatProperties
  <2>3. m = n
    BY <1>3, <2>1
  <2> QED BY <1>7, <2>1, <2>2, <2>3
<1>9. /\ w \o b \in Seq(Item) /\ Len(w \o b) = Len(w) + Len(b)
      /\ \A i \in 1 .. Len(w) + Len(b) : (w \o b)[i] = IF i <= Len(w) THEN w[i] ELSE b[i - Len(w)]
  BY ConcatProperties
<1>10. ASSUME NEW i \in 1 .. Len(x)
       PROVE  x[i] = (w \o b)[i]
  <2>1. i \in 1 .. Len(w) + n /\ i \in 1 .. Len(w) + Len(b)
    BY <1>1, <1>8
  <2>2. CASE i <= Len(w)
    BY <1>8, <1>9, <2>1, <2>2
  <2>3. CASE ~(i <= Len(w))
    <3>1. i - Len(w) \in 1 .. n
      BY <1>1, <2>1, <2>3
    <3>2. x[i] = c[i - Len(w)] /\ (w \o b)[i] = b[i - Len(w)]
      BY <1>8, <1>9, <2>1, <2>3
    <3> QED BY <1>3, <3>1, <3>2
  <2> QED BY <2>2, <2>3
<1>11. x \o y = w \o b
  <2>1. w \o (c \o y) = (w \o c) \o y
    BY <1>3, <1>5, Regroup
  <2> QED BY <1>6, <1>7, <2>1
<1> QED BY <1>2, <1>4, <1>5, <1>7, <1>8, <1>9, <1>10, <1>11

\* What is in order stays so when less of it is there.
LEMMA OrderedPart ==
  ASSUME NEW t, NEW w, Len(w) \in Nat, Len(t) \in Nat, Len(w) <= Len(t),
         \A i \in 1 .. Len(w) : w[i] = t[i], Ordered(t)
  PROVE  Ordered(w)
<1> SUFFICES ASSUME NEW k \in 1 .. Len(w), IsFile(w[k])
             PROVE  /\ k > 1 /\ \A j \in 2 .. k : w[j] = FileByte(Start + j - 2)
                    /\ w[1].code = 206 => Start + w[1].length <= res.size
  BY DEF Ordered
<1>1. k \in 1 .. Len(t) /\ 1 \in 1 .. Len(w) /\ w[k] = t[k]
  OBVIOUS
<1>2. w[1] = t[1] /\ IsFile(t[k])
  BY <1>1
<1>3. /\ k > 1 /\ \A j \in 2 .. k : t[j] = FileByte(Start + j - 2)
      /\ t[1].code = 206 => Start + t[1].length <= res.size
  BY <1>1, <1>2 DEF Ordered
<1>4. \A j \in 2 .. k : w[j] = t[j]
  BY <1>1
<1> QED BY <1>2, <1>3, <1>4

\* Headers and the bytes of a file from the start of the window on are in order.
LEMMA StreamsOrdered ==
  ASSUME TypeOK, NEW t \in Seq(Item), NEW o, Streams(t, o)
  PROVE  Ordered(t)
<1>1. /\ t[1].part = "headers"
      /\ t[1].code = 206 => Start + t[1].length <= res.size
      /\ \A j \in 2 .. Len(t) : t[j] = FileByte(Start + j - 2)
  BY DEF Streams
<1> SUFFICES ASSUME NEW k \in 1 .. Len(t), IsFile(t[k])
             PROVE  k > 1 /\ \A j \in 2 .. k : t[j] = FileByte(Start + j - 2)
  BY <1>1 DEF Ordered
<1>2. k # 1
  BY <1>1 DEF IsFile
<1>3. \A j \in 2 .. k : j \in 2 .. Len(t)
  OBVIOUS
<1> QED BY <1>1, <1>2, <1>3

\* So does what has no byte of a file in it, behind what is in order.
LEMMA OrderedBehind ==
  ASSUME NEW w \in Seq(Item), NEW b \in Seq(Item), Ordered(w),
         \A k \in 1 .. Len(b) : ~IsFile(b[k])
  PROVE  Ordered(w \o b)
<1>1. PICK t : t = w \o b
  OBVIOUS
<1>2. /\ Len(t) = Len(w) + Len(b) /\ Len(w) \in Nat /\ Len(b) \in Nat
      /\ \A i \in 1 .. Len(w) + Len(b) : t[i] = IF i <= Len(w) THEN w[i] ELSE b[i - Len(w)]
  BY <1>1, ConcatProperties
<1> SUFFICES ASSUME NEW k \in 1 .. Len(t), IsFile(t[k])
             PROVE  /\ k > 1 /\ \A j \in 2 .. k : t[j] = FileByte(Start + j - 2)
                    /\ t[1].code = 206 => Start + t[1].length <= res.size
  BY <1>1 DEF Ordered
<1>3. k \in 1 .. Len(w)
  <2>1. CASE ~(k <= Len(w))
    <3>1. k - Len(w) \in 1 .. Len(b) /\ t[k] = b[k - Len(w)]
      BY <1>2, <2>1
    <3> QED BY <3>1
  <2> QED BY <1>2, <2>1
<1>4. \A i \in 1 .. k : t[i] = w[i]
  BY <1>2, <1>3
<1>5. t[k] = w[k] /\ t[1] = w[1]
  BY <1>2, <1>3, <1>4
<1>6. /\ k > 1 /\ \A j \in 2 .. k : w[j] = FileByte(Start + j - 2)
      /\ w[1].code = 206 => Start + w[1].length <= res.size
  BY <1>3, <1>5 DEF Ordered
<1>7. \A j \in 2 .. k : t[j] = w[j]
  BY <1>3, <1>4
<1> QED BY <1>5, <1>6, <1>7

\* A page that is not that of its status is not made so by a shorter receipt.
LEMMA FitsPart ==
  ASSUME NEW t, NEW w, Len(w) \in Nat, Len(t) \in Nat, Len(w) <= Len(t),
         \A i \in 1 .. Len(w) : w[i] = t[i], Fits(t)
  PROVE  Fits(w)
<1> SUFFICES ASSUME NEW k \in 2 .. Len(w)
             PROVE  /\ w[k].part = "body" => w[k].pieces \in {<<w[k - 1].code>>, <<Output>>}
                    /\ IsFile(w[k]) => w[1].code \in {200, 206}
  BY DEF Fits
<1>1. k \in 2 .. Len(t) /\ w[k] = t[k] /\ w[k - 1] = t[k - 1] /\ w[1] = t[1]
  <2>1. k \in 1 .. Len(w) /\ k - 1 \in 1 .. Len(w) /\ 1 \in 1 .. Len(w)
    OBVIOUS
  <2> QED BY <2>1
<1> QED BY <1>1 DEF Fits

\* A streamed file comes under 200 or 206.
LEMMA StreamsFit ==
  ASSUME NEW t \in Seq(Item), NEW o, Streams(t, o)
  PROVE  Fits(t)
<1>1. /\ t[1].code \in {200, 206}
      /\ \A j \in 2 .. Len(t) : t[j] = FileByte(Start + j - 2)
  BY DEF Streams
<1>2. \A j \in 2 .. Len(t) : t[j].part # "body"
  <2> SUFFICES ASSUME NEW j \in 2 .. Len(t) PROVE t[j].part # "body"
    OBVIOUS
  <2>1. PICK n : n = Start + j - 2
    OBVIOUS
  <2>2. t[j] = FileByte(n)
    BY <1>1, <2>1
  <2> QED BY <2>2 DEF FileByte
<1>3. \A k \in 2 .. Len(t) :
        /\ t[k].part = "body" => t[k].pieces \in {<<t[k - 1].code>>, <<Output>>}
        /\ IsFile(t[k]) => t[1].code \in {200, 206}
  BY <1>1, <1>2
<1> QED BY <1>3 DEF Fits

\* A page that fits its status does so behind anything.
LEMMA FitsBehind ==
  ASSUME NEW w \in Seq(Item), Fits(w), NEW r \in ResponseForm,
         r.body \in {<< >>, <<r.status>>, <<Output>>}
  PROVE  Fits(w \o generate(r))
<1>1. PICK b \in Seq(Item) : b = generate(r)
  BY GenerateIs
<1>2. /\ b[1].part = "headers" /\ b[1].code = r.status
      /\ Len(b) = 1 \/ Len(b) = 2
      /\ Len(b) = 2 => b[2] = Body(r) /\ r.body # << >>
  BY <1>1, GenerateIs
<1>3. PICK t : t = w \o b
  OBVIOUS
<1>4. /\ Len(t) = Len(w) + Len(b) /\ Len(w) \in Nat
      /\ \A i \in 1 .. Len(w) + Len(b) : t[i] = IF i <= Len(w) THEN w[i] ELSE b[i - Len(w)]
  BY <1>3, ConcatProperties
<1> SUFFICES ASSUME NEW k \in 2 .. Len(t)
             PROVE  /\ t[k].part = "body" => t[k].pieces \in {<<t[k - 1].code>>, <<Output>>}
                    /\ IsFile(t[k]) => t[1].code \in {200, 206}
  BY <1>1, <1>3 DEF Fits
<1>5. CASE k <= Len(w)
  <2>1. k \in 2 .. Len(w) /\ t[k] = w[k] /\ t[k - 1] = w[k - 1] /\ t[1] = w[1]
    BY <1>2, <1>4, <1>5
  <2> QED BY <2>1 DEF Fits
<1>6. CASE k = Len(w) + 1
  <2>1. t[k] = b[1]
    BY <1>2, <1>4, <1>6
  <2> QED BY <1>2, <2>1 DEF IsFile
<1>7. CASE k = Len(w) + 2
  <2>1. Len(b) = 2 /\ t[k] = b[2] /\ t[k - 1] = b[1]
    BY <1>2, <1>4, <1>7
  <2>2. t[k].part = "body" /\ t[k].pieces = r.body /\ t[k - 1].code = r.status
    BY <1>2, <2>1 DEF Body
  <2>3. r.body \in {<<r.status>>, <<Output>>}
    BY <1>2, <2>1
  <2> QED BY <2>2, <2>3 DEF IsFile
<1>8. k <= Len(w) \/ k = Len(w) + 1 \/ k = Len(w) + 2
  BY <1>2, <1>4, SMTT(30)
<1> QED BY <1>5, <1>6, <1>7, <1>8

\* The number of bytes of a file behind the headers.
LEMMA ReceivedIs ==
  ASSUME NEW w \in Seq(Item), NEW o, NEW t \in Seq(Item), Streams(t, o), Len(w) <= Len(t),
         Len(w) > 0, \A i \in 1 .. Len(w) : w[i] = t[i]
  PROVE  Cardinality({k \in 1 .. Len(w) : IsFile(w[k])}) = Len(w) - 1
<1>1. Len(w) \in Nat /\ Len(t) \in Nat
  OBVIOUS
<1>2. ~IsFile(w[1])
  <2>1. w[1] = t[1] /\ t[1].part = "headers"
    BY <1>1 DEF Streams
  <2> QED BY <2>1 DEF IsFile
<1>3. ASSUME NEW k \in 2 .. Len(w)
      PROVE  IsFile(w[k])
  <2>1. k \in 1 .. Len(w) /\ k \in 2 .. Len(t)
    BY <1>1
  <2>2. w[k] = FileByte(Start + k - 2)
    BY <2>1 DEF Streams
  <2> QED BY <2>2 DEF FileByte, IsFile
<1>4. {k \in 1 .. Len(w) : IsFile(w[k])} = 2 .. Len(w)
  BY <1>1, <1>2, <1>3
<1>5. Cardinality(2 .. Len(w)) = Len(w) - 1
  BY <1>1, FS_Interval
<1> QED BY <1>4, <1>5
\* Nothing is in order.
LEMMA NothingFits == Ordered(<< >>) /\ Fits(<< >>)
BY DEF Ordered, Fits

\* What a page leaves behind what the client has.
LEMMA PageBehind ==
  ASSUME TypeOK, SendInv, NEW w \in Seq(Item), Ordered(w), FirstAnswer => Fits(w),
         NEW r \in ResponseForm, FirstAnswer => r.body \in {<< >>, <<r.status>>}
  PROVE  Ordered(w \o generate(r)) /\ (FirstAnswer => Fits(w \o generate(r)))
<1>1. PICK b \in Seq(Item) : b = generate(r)
  BY GenerateIs
<1>2. \A k \in 1 .. Len(b) : ~IsFile(b[k])
  BY <1>1, GenerateNoFile
<1>3. Ordered(w \o b)
  BY <1>2, OrderedBehind
<1>4. ASSUME FirstAnswer PROVE Fits(w \o b)
  BY <1>1, <1>4, FitsBehind
<1> QED BY <1>1, <1>3, <1>4

\* Whatever send() takes of a block, the client has it in order.
LEMMA SentOrdered ==
  ASSUME TypeOK, SendInv, InOrder, FirstFits, NEW p \in SendForm, SendCase(p)
  PROVE  /\ Ordered(wire \o p.buff)
         /\ FirstAnswer => Fits(wire \o p.buff)
<1>1. /\ wire \in Seq(Item) /\ res \in ResponseForm /\ began \in ResponseForm
      /\ p.buff \in Seq(Item) /\ p.res \in ResponseForm
  BY DEF TypeOK, SendForm
<1>2. Ordered(wire) /\ (FirstAnswer => Fits(wire))
  BY DEF InOrder, FirstFits
<1>3. FirstAnswer => began.body \in {<< >>, <<began.status>>}
  BY DEF SendInv, Begins
<1>4. CASE IsBare(p)
  <2>1. res = began /\ p.buff = generate(began)
    BY <1>4 DEF IsBare
  <2> QED BY <1>1, <1>2, <1>3, <2>1, PageBehind
<1>5. CASE IsPage(p)
  <2>1. wire \o p.buff = generate(began)
    BY <1>5 DEF IsPage
  <2>2. PICK b \in Seq(Item) : b = generate(began)
    BY <1>1, GenerateIs
  <2>3. << >> \o b = b /\ << >> \in Seq(Item)
    BY <2>2
  <2>4. Ordered(<< >> \o b) /\ (FirstAnswer => Fits(<< >> \o b))
    BY <1>1, <1>3, <2>2, <2>3, PageBehind, NothingFits
  <2> QED BY <2>1, <2>2, <2>3, <2>4
<1>6. CASE IsPageAgain(p)
  <2>1. CASE began.body # << >>
    <3>1. p.buff = generate(began)
      BY <1>6, <2>1 DEF IsPageAgain
    <3> QED BY <1>1, <1>2, <1>3, <3>1, PageBehind
  <2>2. CASE began.body = << >>
    <3>1. p.buff = << >>
      BY <1>6, <2>2 DEF IsPageAgain
    <3>2. wire \o p.buff = wire
      BY <1>1, <3>1
    <3> QED BY <1>2, <3>2
  <2> QED BY <2>1, <2>2
<1>7. ASSUME NEW o, Streams(wire \o p.buff, o)
      PROVE  /\ Ordered(wire \o p.buff)
             /\ FirstAnswer => Fits(wire \o p.buff)
  <2>1. PICK t \in Seq(Item) : t = wire \o p.buff
    <3>1. PICK c \in Seq(Item) : c = p.buff
      BY <1>1
    <3>2. wire \o c \in Seq(Item)
      BY <1>1, <3>1, ConcatProperties
    <3> QED BY <3>1, <3>2
  <2>2. Streams(t, o)
    BY <1>7, <2>1
  <2> QED BY <2>1, <2>2, StreamsOrdered, StreamsFit
<1>8. CASE IsBlock(p)
  BY <1>7, <1>8 DEF IsBlock
<1>9. CASE IsLast(p)
  <2>1. CASE Streams(wire \o p.buff, res.size)
    BY <1>7, <2>1
  <2>2. CASE wire = << >> /\ Len(p.buff) = 1 /\ p.buff[1].part = "headers"
    <3>1. wire \o p.buff = p.buff
      BY <1>1, <2>2
    <3>2. \A k \in 1 .. Len(p.buff) : k = 1
      BY <2>2
    <3>3. \A k \in 1 .. Len(p.buff) : ~IsFile(p.buff[k])
      BY <2>2, <3>2 DEF IsFile
    <3>4. Ordered(p.buff)
      BY <3>3 DEF Ordered
    <3>5. \A k \in 2 .. Len(p.buff) : FALSE
      BY <2>2
    <3>6. Fits(p.buff)
      BY <3>5 DEF Fits
    <3> QED BY <3>1, <3>4, <3>6
  <2> QED BY <1>9, <2>1, <2>2 DEF IsLast
<1>10. CASE IsError(p)
  <2>1. p.buff = generate(p.res) /\ p.res.body = <<p.res.status>>
    BY <1>10 DEF IsError
  <2>2. PICK r \in ResponseForm : r = p.res
    BY <1>1
  <2>3. r.body \in {<< >>, <<r.status>>}
    BY <2>1, <2>2
  <2>4. Ordered(wire \o generate(r)) /\ (FirstAnswer => Fits(wire \o generate(r)))
    BY <1>1, <1>2, <2>3, PageBehind
  <2> QED BY <2>1, <2>2, <2>4
<1> QED BY <1>4, <1>5, <1>6, <1>8, <1>9, <1>10 DEF SendCase

\* The window is the same as long as the request and the size of the file are.
LEMMA SameWindow ==
  ASSUME asked' = asked, res'.size = res.size
  PROVE  Start' = Start /\ Window' = Window
BY DEF Start, Window

\* An answer that is only continued stays in order.
LEMMA OrderNext ==
  ASSUME asked' = asked, res'.size = res.size, NEW t, wire' = t, Ordered(t)
  PROVE  InOrder'
<1>1. Start' = Start
  BY SameWindow
<1> QED BY <1>1 DEF InOrder, Ordered

\* And its pages fit as they did.
LEMMA FitsNext ==
  ASSUME asked' = asked, fresh' = fresh, NEW t, wire' = t, FirstAnswer => Fits(t)
  PROVE  FirstFits'
<1>1. FirstAnswer' = FirstAnswer
  BY DEF FirstAnswer
<1>2. Fits(wire)' = Fits(t)
  BY DEF Fits
<1> QED BY <1>1, <1>2 DEF FirstFits
-----------------------------------------------------------------------------
(* The steps.                                                              *)

\* TypeOK after a block of sendResponse().
LEMMA KeptTypes ==
  ASSUME TypeOK, NEW p, Kept(p), res' = p.res,
         resStatus' = p.resStatus, fd' \in {"none", "open"}, conn' \in {"NEW", "CLOSED"},
         phase' \in Phases, wire' \in Seq(Item), buff' \in Seq(Item), Len(buff') < 2 * Chunk,
         UNCHANGED <<peer, asked, began, fresh, count>>
  PROVE  TypeOK' /\ res'.size = res.size /\ HeadersOnly' = HeadersOnly
<1>1. p \in SendForm /\ p.res.size = res.size /\ p.res.flag = res.flag
      /\ p.res.offset <= p.res.size /\ p.res.sent <= p.res.offset
  BY DEF Kept
<1>2. p.res \in ResponseForm
      /\ p.resStatus \in {"CS_NEW", "CS_START_SEND", "CS_WRITING", "CS_WRITING_DONE"}
  BY <1>1 DEF SendForm
<1>3. TypeOK'
  BY <1>1, <1>2 DEF TypeOK
<1>4. HeadersOnly' = HeadersOnly
  BY <1>1 DEF HeadersOnly
<1> QED BY <1>1, <1>3, <1>4

\* The loop sends more of the answer: it goes on.
LEMMA GoesOn ==
  ASSUME IInv, phase = "sending", NEW p \in sendResponse, Kept(p), SendCase(p),
         p.resStatus # "CS_WRITING_DONE", res' = p.res, wire' \in Seq(Item), buff' \in Seq(Item),
         wire' \o buff' = wire \o p.buff, Len(buff') < 2 * Chunk,
         Ordered(wire'), FirstAnswer => Fits(wire'),
         fd' = p.fd, resStatus' = p.resStatus, conn' = p.conn, phase' = phase,
         UNCHANGED <<peer, asked, began, fresh, count>>
  PROVE  IInv'
<1>1. TypeOK /\ SendInv /\ InOrder /\ BoundedLoss /\ FirstFits
  BY DEF IInv
<1>2. p \in SendForm
  BY DEF Kept
<1>3. fd' \in {"none", "open"} /\ conn' \in {"NEW", "CLOSED"} /\ phase' \in Phases
  BY <1>2 DEF SendForm, Phases
<1>4. TypeOK' /\ res'.size = res.size
  BY <1>1, <1>3, KeptTypes
<1>5. Start' = Start
  BY <1>4, SameWindow
<1>6. IsPage(p) \/ IsBlock(p)
  BY DEF SendCase, IsBare, IsPageAgain, IsLast, IsError
<1>7. phase' = "sending" /\ resStatus' = "CS_WRITING"
  BY <1>6 DEF IsPage, IsBlock
<1>8. Writes'
  <2>1. CASE IsPage(p)
    <3>1. ~res'.stream /\ res' = began' /\ wire' \o buff' = generate(began')
      BY <2>1 DEF IsPage
    <3> QED BY <3>1 DEF Writes, generate, Headers, Body
  <2>2. CASE IsBlock(p)
    <3>1. PICK t : t = wire \o p.buff
      OBVIOUS
    <3>2. PICK o : o = p.res.offset
      OBVIOUS
    <3>3. began.stream /\ res'.stream /\ res'.sent # 0 /\ Streams(t, o)
      BY <2>2, <3>1, <3>2 DEF IsBlock
    <3>4. Streams(t, o)'
      BY <1>4, <1>5, <3>3 DEF Streams
    <3>5. Streams(wire \o buff, res.offset)'
      <4>1. wire' \o buff' = t /\ res'.offset = o
        BY <3>1, <3>2
      <4> QED BY <3>4, <4>1 DEF Streams
    <3> QED BY <3>3, <3>5 DEF Writes
  <2> QED BY <1>6, <2>1, <2>2
<1>9. SendInv'
  <2>1. Idles' /\ Scripts' /\ Starts' /\ Ends'
    BY <1>7 DEF Idles, Scripts, Starts, Ends
  <2>2. Begins'
    <3>1. FirstAnswer' = FirstAnswer
      BY DEF FirstAnswer
    <3> QED BY <1>1, <1>7, <3>1 DEF SendInv, Begins
  <2> QED BY <1>8, <2>1, <2>2 DEF SendInv
<1>10. PICK w : w = wire'
  OBVIOUS
<1>11. InOrder'
  BY <1>4, <1>10, OrderNext
<1>12. FirstFits'
  BY <1>10, FitsNext
<1>13. BoundedLoss'
  BY <1>7 DEF BoundedLoss, Over
<1> QED BY <1>4, <1>9, <1>11, <1>12, <1>13 DEF IInv
\* How many of an answer's items are bytes of a file.
Bytes(w) == {k \in 1 .. Len(w) : IsFile(w[k])}
\* There are finitely many.
LEMMA BytesCounted ==
  ASSUME NEW w \in Seq(Item)
  PROVE  Cardinality(Bytes(w)) \in Nat
<1>1. Len(w) \in Nat
  OBVIOUS
<1>2. IsFiniteSet(1 .. Len(w))
  BY <1>1, FS_Interval
<1>3. Bytes(w) \in SUBSET (1 .. Len(w))
  BY DEF Bytes
<1> QED BY <1>2, <1>3, FS_Subset, FS_CardinalityType

\* The end of a file was read: less than a block of it is not at the client.
LEMMA LastLoss ==
  ASSUME TypeOK, NEW p \in SendForm, IsLast(p), NEW w \in Seq(Item), Len(w) > 0,
         Len(w) <= Len(wire \o p.buff), Len(wire \o p.buff) - Len(w) < Chunk - 1,
         \A i \in 1 .. Len(w) : w[i] = (wire \o p.buff)[i]
  PROVE  Streaming => res.size - Start - Cardinality(Bytes(w)) < Chunk - 1
<1>1. /\ res.size \in Nat /\ Start \in Nat /\ Chunk \in Nat /\ Chunk > 2
      /\ wire \in Seq(Item) /\ p.buff \in Seq(Item)
  BY WindowIs, ChunkAssumption DEF TypeOK, ResponseForm, SendForm
<1>2. PICK t : t = wire \o p.buff
  OBVIOUS
<1>3. t \in Seq(Item)
  <2>1. PICK c \in Seq(Item) : c = p.buff
    BY <1>1
  <2>2. wire \o c \in Seq(Item)
    BY <1>1, <2>1, ConcatProperties
  <2> QED BY <1>2, <2>1, <2>2
<1>4. PICK c : c = Cardinality(Bytes(w))
  OBVIOUS
<1>5. c \in Nat
  BY <1>4, BytesCounted
<1>6. CASE Streams(wire \o p.buff, res.size)
  <2>1. PICK o : o = res.size
    OBVIOUS
  <2>2. Streams(t, o)
    BY <1>2, <1>6, <2>1
  <2>3. Len(t) - 1 = o - Start
    BY <2>2 DEF Streams
  <2>4. Len(w) <= Len(t) /\ Len(t) - Len(w) < Chunk - 1
    BY <1>2
  <2>5. \A i \in 1 .. Len(w) : w[i] = t[i]
    BY <1>2
  <2>6. c = Len(w) - 1
    BY <1>3, <1>4, <2>2, <2>4, <2>5, ReceivedIs DEF Bytes
  <2>7. Len(w) \in Nat /\ Len(t) \in Nat
    BY <1>3
  <2>8. o - Start - c < Chunk - 1
    <3>1. o \in Nat
      BY <1>1, <2>1
    <3> QED BY <1>1, <2>3, <2>4, <2>6, <2>7, <3>1
  <2> QED BY <1>4, <2>1, <2>8
<1>7. CASE Streaming => res.size = 0
  <2> SUFFICES ASSUME Streaming PROVE res.size - Start - c < Chunk - 1
    BY <1>4
  <2>1. res.size = 0
    BY <1>7
  <2> QED BY <1>1, <1>5, <2>1
<1> QED BY <1>6, <1>7 DEF IsLast

\* The loop is done with the answer, or with the connection.
LEMMA Concludes ==
  ASSUME IInv, phase = "sending", NEW p \in sendResponse, Kept(p), SendCase(p),
         p.resStatus = "CS_WRITING_DONE", res' = p.res, NEW w \in Seq(Item), wire' = w,
         Ordered(w), FirstAnswer => Fits(w), Len(w) > 0,
         Len(w) <= Len(wire \o p.buff), Len(p.buff) < Chunk => Len(wire \o p.buff) - Len(w) < Chunk - 1,
         \A i \in 1 .. Len(w) : w[i] = (wire \o p.buff)[i],
         resStatus' = p.resStatus, buff' = << >>, fd' = "none", conn' \in {"NEW", "CLOSED"},
         phase' \in {"idle", "closed"}, p.conn = "CLOSED" => phase' = "closed",
         UNCHANGED <<peer, asked, began, fresh, count>>
  PROVE  IInv'
<1>1. TypeOK /\ SendInv /\ InOrder /\ BoundedLoss /\ FirstFits
  BY DEF IInv
<1>2. p \in SendForm
  BY DEF Kept
<1>3. TypeOK' /\ res'.size = res.size /\ HeadersOnly' = HeadersOnly
  <2>1. fd' \in {"none", "open"} /\ phase' \in Phases /\ buff' \in Seq(Item)
    BY DEF Phases
  <2>2. Len(buff') < 2 * Chunk
    <3>1. Len(<< >>) = 0 /\ 0 < 2 * Chunk
      BY ChunkAssumption
    <3> QED BY <3>1
  <2> QED BY <1>1, <2>1, <2>2, KeptTypes
<1>4. Start' = Start
  BY <1>3, SameWindow
<1>5. IsBare(p) \/ IsPageAgain(p) \/ IsLast(p) \/ IsError(p)
  BY DEF SendCase, IsPage, IsBlock
<1>6. SendInv'
  <2>1. ASSUME phase' = "idle" PROVE res'.stream => res'.offset = res'.size
    <3>1. ~IsBare(p)
      BY <2>1 DEF IsBare
    <3> QED BY <1>3, <1>5, <3>1 DEF IsPageAgain, IsLast, IsError
  <2>2. Idles'
    BY <2>1 DEF Idles
  <2>3. Scripts' /\ Starts' /\ Writes' /\ Ends'
    BY DEF Scripts, Starts, Writes, Ends
  <2>4. Begins'
    <3>1. FirstAnswer' = FirstAnswer
      BY DEF FirstAnswer
    <3> QED BY <1>1, <3>1 DEF SendInv, Begins
  <2> QED BY <2>2, <2>3, <2>4 DEF SendInv
<1>7. InOrder'
  BY <1>3, OrderNext
<1>8. FirstFits'
  BY FitsNext
<1>9. BoundedLoss'
  <2> SUFFICES ASSUME Streaming', res'.stream, ~HeadersOnly'
               PROVE  res'.size - Start' - Cardinality(Received') < Chunk - 1
    BY DEF BoundedLoss
  <2>1. IsLast(p)
    <3>1. ~IsBare(p) /\ ~IsPageAgain(p) /\ ~IsError(p)
      BY <1>3 DEF IsBare, IsPageAgain, IsError
    <3> QED BY <1>5, <3>1
  <2>2. Streaming
    BY DEF Streaming
  <2>3. Len(wire \o p.buff) - Len(w) < Chunk - 1
    BY <2>1 DEF IsLast
  <2>4. res.size - Start - Cardinality(Bytes(w)) < Chunk - 1
    BY <1>1, <1>2, <2>1, <2>2, <2>3, LastLoss
  <2>5. Received' = Bytes(w)
    BY DEF Received, Bytes
  <2> QED BY <1>3, <1>4, <2>4, <2>5
<1> QED BY <1>3, <1>6, <1>7, <1>8, <1>9 DEF IInv

\* SendSome: part of a block, or all of it.
LEMMA SendSomeKeeps ==
  ASSUME IInv, SendSome
  PROVE  IInv'
<1>1. TypeOK /\ SendInv /\ InOrder /\ FirstFits
  BY DEF IInv
<1>2. phase = "sending" /\ resStatus # "CS_WRITING_DONE" /\ UNCHANGED <<peer, asked, began, fresh, count>>
  BY DEF SendSome
<1>3. PICK p \in sendResponse : \E n \in 1 .. Len(p.buff) :
        /\ res' = p.res
        /\ wire' = wire \o SubSeq(p.buff, 1, n)
        /\ IF p.resStatus = "CS_WRITING_DONE"
             THEN Finish(p)
             ELSE Keep(p, SubSeq(p.buff, n + 1, Len(p.buff)))
  BY DEF SendSome
<1>4. Kept(p) /\ SendCase(p)
  BY <1>1, <1>2, SendCases
<1>5. p \in SendForm /\ Len(p.buff) < 2 * Chunk
  BY <1>4 DEF Kept
<1>6. PICK b \in Seq(Item) : b = p.buff
  BY <1>5 DEF SendForm
<1>7. PICK n \in 1 .. Len(b) :
        /\ res' = p.res
        /\ wire' = wire \o SubSeq(b, 1, n)
        /\ IF p.resStatus = "CS_WRITING_DONE"
             THEN Finish(p)
             ELSE Keep(p, SubSeq(b, n + 1, Len(b)))
  BY <1>3, <1>6
<1>8. PICK x : x = wire \o SubSeq(b, 1, n)
  OBVIOUS
<1>9. PICK y : y = SubSeq(b, n + 1, Len(b))
  OBVIOUS
<1>10. PICK t : t = wire \o b
  OBVIOUS
<1>11. /\ x \in Seq(Item) /\ Len(x) = Len(wire) + n
       /\ \A i \in 1 .. Len(x) : x[i] = t[i]
       /\ Len(t) = Len(wire) + Len(b) /\ t \in Seq(Item)
       /\ y \in Seq(Item) /\ Len(y) <= Len(b) /\ x \o y = t
  <2>1. wire \in Seq(Item)
    BY <1>1 DEF TypeOK
  <2> QED BY <1>8, <1>9, <1>10, <2>1, TakenIs
<1>12. Len(wire) \in Nat /\ Len(b) \in Nat /\ Len(x) \in Nat /\ Len(t) \in Nat /\ Len(y) \in Nat
       /\ n \in Nat /\ n > 0 /\ n <= Len(b)
  <2>1. wire \in Seq(Item)
    BY <1>1 DEF TypeOK
  <2> QED BY <1>11, <2>1
<1>13. Len(x) <= Len(t) /\ Len(x) > 0
  BY <1>11, <1>12
<1>14. Ordered(t) /\ (FirstAnswer => Fits(t))
  BY <1>1, <1>4, <1>5, <1>6, <1>10, SentOrdered
<1>15. Ordered(x) /\ (FirstAnswer => Fits(x))
  BY <1>11, <1>12, <1>13, <1>14, OrderedPart, FitsPart
<1>16. CASE p.resStatus # "CS_WRITING_DONE"
  <2>1. /\ buff' = y /\ fd' = p.fd /\ resStatus' = p.resStatus /\ conn' = p.conn
        /\ phase' = phase
    BY <1>7, <1>9, <1>16 DEF Keep
  <2>2. wire' = x /\ res' = p.res
    BY <1>7, <1>8
  <2>3. Len(buff') < 2 * Chunk
    <3>1. 2 * Chunk \in Nat
      BY ChunkAssumption
    <3>2. Len(b) < 2 * Chunk
      BY <1>5, <1>6
    <3> QED BY <1>11, <1>12, <2>1, <3>1, <3>2
  <2>4. wire' \o buff' = wire \o p.buff
    BY <1>6, <1>10, <1>11, <2>1, <2>2
  <2>5. wire' \in Seq(Item) /\ buff' \in Seq(Item)
    BY <1>11, <2>1, <2>2
  <2>6. Ordered(wire') /\ (FirstAnswer => Fits(wire'))
    BY <1>15, <2>2
  <2> QED BY <1>2, <1>4, <1>16, <2>1, <2>2, <2>3, <2>4, <2>5, <2>6, GoesOn
<1>17. CASE p.resStatus = "CS_WRITING_DONE"
  <2>1. Finish(p) /\ wire' = x /\ res' = p.res
    BY <1>7, <1>8, <1>17
  <2>2. /\ resStatus' = p.resStatus /\ buff' = << >> /\ fd' = "none"
        /\ phase' \in {"idle", "closed"} /\ (p.conn = "CLOSED" => phase' = "closed")
    BY <2>1 DEF Finish
  <2>3. conn' \in {"NEW", "CLOSED"}
    BY <1>5, <2>1 DEF Finish, SendForm
  <2>4. Len(p.buff) < Chunk => Len(wire \o p.buff) - Len(x) < Chunk - 1
    <3>1. Len(b) < Chunk => Len(t) - Len(x) < Chunk - 1
      BY <1>11, <1>12, ChunkAssumption
    <3> QED BY <1>6, <1>10, <3>1
  <2>5. Len(x) <= Len(wire \o p.buff) /\ \A i \in 1 .. Len(x) : x[i] = (wire \o p.buff)[i]
    BY <1>6, <1>10, <1>11, <1>13
  <2> QED BY <1>2, <1>4, <1>11, <1>13, <1>15, <1>17, <2>1, <2>2, <2>3, <2>4, <2>5, Concludes
<1> QED BY <1>16, <1>17
\* What sendResponse() leaves when the answer is over keeps an answer in memory
\* or the end of a file.
LEMMA OverCases ==
  ASSUME TypeOK, SendInv, NEW p \in SendForm, SendCase(p), p.buff = << >>
  PROVE  p.resStatus = "CS_WRITING_DONE" /\ wire # << >>
<1>1. res \in ResponseForm /\ began \in ResponseForm /\ p.res \in ResponseForm
      /\ wire \in Seq(Item)
  BY DEF TypeOK, SendForm
<1>2. \A r \in ResponseForm : generate(r) # << >>
  BY DEF generate
<1>3. ~IsBare(p) /\ ~IsPage(p) /\ ~IsBlock(p) /\ ~IsError(p)
  BY <1>1, <1>2 DEF IsBare, IsPage, IsBlock, IsError
<1>4. CASE IsPageAgain(p)
  BY <1>1, <1>2, <1>4 DEF IsPageAgain
<1>5. CASE IsLast(p)
  <2>1. wire \o p.buff = wire
    BY <1>1
  <2>2. Len(p.buff) # 1
    <3>1. Len(<< >>) = 0
      OBVIOUS
    <3> QED BY <3>1
  <2>3. Streams(wire, res.size)
    BY <1>5, <2>1, <2>2 DEF IsLast
  <2>4. wire # << >>
    BY <2>3 DEF Streams
  <2> QED BY <1>5, <2>4 DEF IsLast
<1> QED BY <1>3, <1>4, <1>5 DEF SendCase

\* SendsNothing: the loop takes it for the end.
LEMMA SendsNothingKeeps ==
  ASSUME IInv, SendsNothing
  PROVE  IInv'
<1>1. TypeOK /\ SendInv /\ InOrder /\ FirstFits
  BY DEF IInv
<1>2. /\ phase = "sending" /\ resStatus # "CS_WRITING_DONE"
      /\ UNCHANGED <<peer, asked, began, fresh, wire, count>>
      /\ buff' = << >> /\ fd' = "none" /\ phase' = "closed"
  BY DEF SendsNothing, history
<1>3. PICK p \in sendResponse :
        p.buff = << >> /\ res' = p.res /\ resStatus' = p.resStatus /\ conn' = p.conn
  BY DEF SendsNothing
<1>4. Kept(p) /\ SendCase(p)
  BY <1>1, <1>2, SendCases
<1>5. p \in SendForm
  BY <1>4 DEF Kept
<1>6. p.resStatus = "CS_WRITING_DONE" /\ wire # << >>
  BY <1>1, <1>3, <1>4, <1>5, OverCases
<1>7. PICK w \in Seq(Item) : w = wire
  BY <1>1 DEF TypeOK
<1>8. wire \o p.buff = w
  BY <1>3, <1>7
<1>9. Len(w) > 0 /\ Len(w) <= Len(w) /\ Len(w) - Len(w) < Chunk - 1
  <2>1. Len(w) \in Nat /\ Len(w) # 0
    BY <1>6, <1>7
  <2> QED BY <2>1, ChunkAssumption
<1>10. Ordered(w) /\ (FirstAnswer => Fits(w))
  BY <1>1, <1>7 DEF InOrder, FirstFits
<1>11. conn' \in {"NEW", "CLOSED"}
  BY <1>3, <1>5 DEF SendForm
<1> QED BY <1>2, <1>3, <1>4, <1>6, <1>7, <1>8, <1>9, <1>10, <1>11, Concludes

\* SendFails: the block is kept for a send() that will not succeed either.
LEMMA SendFailsKeeps ==
  ASSUME IInv, SendFails
  PROVE  IInv'
<1>1. TypeOK /\ SendInv /\ InOrder /\ BoundedLoss /\ FirstFits
  BY DEF IInv
<1>2. /\ phase = "sending" /\ resStatus # "CS_WRITING_DONE" /\ peer = "gone"
      /\ UNCHANGED <<peer, asked, began, fresh, wire, count>>
  BY DEF SendFails, history
<1>3. PICK p \in sendResponse : p.buff # << >> /\ res' = p.res /\ Keep(p, p.buff)
  BY DEF SendFails
<1>4. Kept(p) /\ SendCase(p)
  BY <1>1, <1>2, SendCases
<1>5. p \in SendForm /\ Len(p.buff) < 2 * Chunk
  BY <1>4 DEF Kept
<1>6. /\ buff' = p.buff /\ fd' = p.fd /\ resStatus' = p.resStatus /\ conn' = p.conn
      /\ phase' = phase
  BY <1>3 DEF Keep
<1>7. buff' \in Seq(Item) /\ wire' \in Seq(Item)
  BY <1>1, <1>2, <1>5, <1>6 DEF SendForm, TypeOK
<1>8. Ordered(wire') /\ (FirstAnswer => Fits(wire'))
  <2>1. Ordered(wire) /\ (FirstAnswer => Fits(wire))
    BY <1>1 DEF InOrder, FirstFits
  <2> QED BY <1>2, <2>1
<1>9. CASE p.resStatus # "CS_WRITING_DONE"
  <2>1. wire' \o buff' = wire \o p.buff /\ Len(buff') < 2 * Chunk
    BY <1>2, <1>5, <1>6
  <2> QED BY <1>2, <1>3, <1>4, <1>6, <1>7, <1>8, <1>9, <2>1, GoesOn
<1>10. CASE p.resStatus = "CS_WRITING_DONE"
  <2>1. TypeOK' /\ res'.size = res.size
    <3>1. /\ fd' \in {"none", "open"} /\ conn' \in {"NEW", "CLOSED"} /\ phase' \in Phases
          /\ Len(buff') < 2 * Chunk
      BY <1>2, <1>5, <1>6 DEF SendForm, Phases
    <3> QED BY <1>1, <1>2, <1>3, <1>4, <1>6, <1>7, <3>1, KeptTypes
  <2>2. phase' = "sending" /\ resStatus' = "CS_WRITING_DONE" /\ peer' = "gone"
    BY <1>2, <1>6, <1>10
  <2>3. Ends'
    <3> SUFFICES ASSUME conn' # "CLOSED"
                 PROVE  /\ res'.stream => res'.offset = res'.size
                        /\ began'.stream \/ began'.body # << >>
      BY <2>2 DEF Ends
    <3>1. ~IsBare(p)
      BY <1>6 DEF IsBare
    <3>2. IsPageAgain(p) \/ IsLast(p) \/ IsError(p)
      BY <1>4, <1>10, <3>1 DEF SendCase, IsPage, IsBlock
    <3>3. CASE IsPageAgain(p)
      BY <1>2, <1>3, <3>3 DEF IsPageAgain
    <3>4. CASE IsLast(p)
      BY <1>2, <1>3, <2>1, <3>4 DEF IsLast
    <3>5. CASE IsError(p)
      BY <1>2, <1>3, <3>5 DEF IsError
    <3> QED BY <3>2, <3>3, <3>4, <3>5
  <2>4. Begins'
    <3>1. FirstAnswer' = FirstAnswer
      BY <1>2 DEF FirstAnswer
    <3> QED BY <1>1, <1>2, <2>2, <3>1 DEF SendInv, Begins
  <2>5. SendInv'
    BY <2>2, <2>3, <2>4 DEF SendInv, Idles, Scripts, Starts, Writes
  <2>6. InOrder'
    <3>1. PICK w : w = wire'
      OBVIOUS
    <3> QED BY <1>2, <1>8, <2>1, <3>1, OrderNext
  <2>7. FirstFits'
    <3>1. PICK w : w = wire'
      OBVIOUS
    <3> QED BY <1>2, <1>8, <3>1, FitsNext
  <2>8. BoundedLoss'
    BY <2>2 DEF BoundedLoss
  <2> QED BY <2>1, <2>5, <2>6, <2>7, <2>8 DEF IInv
<1> QED BY <1>9, <1>10

\* What the client has got does not change any more once it has left.
LEMMA GoneKeeps ==
  ASSUME InOrder, FirstFits, peer' = "gone", res'.size = res.size,
         UNCHANGED <<asked, fresh, wire>>
  PROVE  InOrder' /\ FirstFits' /\ BoundedLoss'
<1>1. PICK w : w = wire
  OBVIOUS
<1>2. Ordered(w) /\ (FirstAnswer => Fits(w))
  BY <1>1 DEF InOrder, FirstFits
<1>3. InOrder' /\ FirstFits'
  BY <1>1, <1>2, OrderNext, FitsNext
<1>4. BoundedLoss'
  BY DEF BoundedLoss
<1> QED BY <1>3, <1>4

\* What a first answer looks like does not depend on how far it is.
LEMMA BeginsNext ==
  ASSUME Begins, UNCHANGED <<asked, began, fresh>>, phase' = "sending" => resStatus' # "CS_NEW"
  PROVE  Begins'
<1>1. FirstAnswer' = FirstAnswer
  BY DEF FirstAnswer
<1> QED BY <1>1 DEF Begins

\* The loop closes the connection of a client that has left.
LEMMA ClosesKeeps ==
  ASSUME IInv, TypeOK', phase' = "closed", peer' = "gone", res'.size = res.size,
         UNCHANGED <<asked, began, fresh, wire>>
  PROVE  IInv'
<1>1. SendInv'
  <2>1. Begins'
    BY BeginsNext DEF IInv, SendInv
  <2> QED BY <2>1 DEF SendInv, Idles, Scripts, Starts, Writes, Ends
<1> QED BY <1>1, GoneKeeps DEF IInv

\* ScriptAbandoned: the script is killed, 504 is prepared for nobody.
LEMMA ScriptAbandonedKeeps ==
  ASSUME IInv, ScriptAbandoned
  PROVE  IInv'
<1>1. /\ res' = Page(res, 504) /\ phase' = "closed" /\ peer = "gone"
      /\ UNCHANGED <<buff, resStatus, fd, conn, peer, asked, began, fresh, wire, count>>
  BY DEF ScriptAbandoned, sendInfo, history
<1>2. res' \in ResponseForm /\ SameFile(res, res')
  <2>1. PICK code \in Nat : code = 504
    OBVIOUS
  <2>2. res \in ResponseForm
    BY DEF IInv, TypeOK
  <2>3. res' = Page(res, code)
    BY <1>1, <2>1
  <2> QED BY <2>2, <2>3, PageIs
<1>3. res'.offset = res.offset /\ res'.size = res.size /\ res'.sent = res.sent
  BY <1>2 DEF SameFile
<1>4. TypeOK'
  BY <1>1, <1>2, <1>3 DEF IInv, TypeOK, Phases
<1> QED BY <1>1, <1>3, <1>4, ClosesKeeps

\* PeerClosed: an idle connection is closed.
LEMMA PeerClosedKeeps ==
  ASSUME IInv, PeerClosed
  PROVE  IInv'
<1>1. /\ phase' = "closed" /\ peer = "gone"
      /\ UNCHANGED <<res, buff, resStatus, fd, conn, peer, asked, began, fresh, wire, count>>
  BY DEF PeerClosed, sendInfo, history
<1>2. TypeOK'
  BY <1>1 DEF IInv, TypeOK, Phases
<1> QED BY <1>1, <1>2, ClosesKeeps

\* PeerLeaves: nothing of the connection changes yet.
LEMMA PeerLeavesKeeps ==
  ASSUME IInv, PeerLeaves
  PROVE  IInv'
<1>1. /\ peer' = "gone"
      /\ UNCHANGED <<res, buff, resStatus, fd, conn, phase, asked, began, fresh, wire, count>>
  BY DEF PeerLeaves, sendInfo, history
<1>2. TypeOK'
  BY <1>1 DEF IInv, TypeOK
<1>3. Start' = Start
  BY <1>1, SameWindow
<1>4. SendInv'
  <2>1. Begins'
    BY <1>1, BeginsNext DEF IInv, SendInv, Begins
  <2>2. Idles'
    BY <1>1 DEF IInv, SendInv, Idles
  <2>3. Scripts'
    BY <1>1 DEF IInv, SendInv, Scripts, FirstAnswer
  <2>4. Starts'
    BY <1>1 DEF IInv, SendInv, Starts
  <2>5. Ends'
    BY <1>1 DEF IInv, SendInv, Ends
  <2>6. Writes'
    <3>1. Streams(wire \o buff, res.offset)' = Streams(wire \o buff, res.offset)
      BY <1>1, <1>3 DEF Streams
    <3>2. generate(began)' = generate(began)
      BY <1>1
    <3> QED BY <1>1, <3>1, <3>2 DEF IInv, SendInv, Writes
  <2> QED BY <2>1, <2>2, <2>3, <2>4, <2>5, <2>6 DEF SendInv
<1> QED BY <1>1, <1>2, <1>4, GoneKeeps DEF IInv

\* Abandon: only a client that has left is still written to after the last block.
LEMMA AbandonKeeps ==
  ASSUME IInv, Abandon
  PROVE  IInv'
<1>1. /\ phase = "sending" /\ resStatus = "CS_WRITING_DONE" /\ Finish(Now)
      /\ UNCHANGED <<res, peer, asked, began, fresh, wire, count>>
  BY DEF Abandon, history
<1>2. /\ peer = "gone"
      /\ conn # "CLOSED" => /\ res.stream => res.offset = res.size
                            /\ began.stream \/ began.body # << >>
  BY <1>1 DEF IInv, SendInv, Ends
<1>3. /\ buff' = << >> /\ fd' = "none" /\ resStatus' = resStatus
      /\ phase' \in {"idle", "closed"} /\ (phase' = "idle" => conn # "CLOSED")
  BY <1>1 DEF Finish, Now
<1>4. conn' \in {"NEW", "CLOSED"}
  BY <1>1 DEF Finish, Now, IInv, TypeOK
<1>5. TypeOK'
  <2>1. buff' \in Seq(Item) /\ Len(buff') < 2 * Chunk
    <3>1. Len(<< >>) = 0 /\ 0 < 2 * Chunk
      BY ChunkAssumption
    <3> QED BY <1>3, <3>1
  <2> QED BY <1>1, <1>3, <1>4, <2>1 DEF IInv, TypeOK, Phases
<1>6. SendInv'
  <2>1. Begins'
    BY <1>1, <1>3, BeginsNext DEF IInv, SendInv
  <2>2. Idles'
    BY <1>1, <1>2, <1>3 DEF Idles
  <2> QED BY <1>3, <2>1, <2>2 DEF SendInv, Scripts, Starts, Writes, Ends
<1> QED BY <1>1, <1>2, <1>5, <1>6, GoneKeeps DEF IInv
\* An answer from memory is in order.
LEMMA MemoryOrdered ==
  ASSUME NEW w, wire' = w, \A k \in 1 .. Len(w) : ~IsFile(w[k])
  PROVE  InOrder'
BY DEF InOrder, Ordered

\* A connection that waits for the next request.
LEMMA IdleNext ==
  ASSUME Begins, UNCHANGED <<asked, began, fresh>>, phase' = "idle", buff' = << >>,
         res'.stream => res'.offset = res'.size
  PROVE  SendInv'
<1>1. Begins'
  BY BeginsNext
<1> QED BY <1>1 DEF SendInv, Idles, Scripts, Starts, Writes, Ends

\* What a connection that waits for its script has.
LEMMA ScriptHas ==
  ASSUME IInv, phase = "script"
  PROVE  /\ TypeOK /\ SendInv /\ res \in ResponseForm /\ buff = << >>
         /\ res.stream => res.offset = res.size
         /\ res.offset <= res.size /\ res.sent <= res.offset
         /\ res = began /\ (FirstAnswer => res.body = << >>)
<1>1. TypeOK /\ SendInv
  BY DEF IInv
<1>2. res \in ResponseForm /\ res.offset <= res.size /\ res.sent <= res.offset
  BY <1>1 DEF TypeOK
<1>3. buff = << >> /\ (res.stream => res.offset = res.size)
  BY <1>1 DEF SendInv, Idles
<1>4. res = began /\ (FirstAnswer => res.body = << >>)
  BY <1>1 DEF SendInv, Scripts
<1> QED BY <1>1, <1>2, <1>3, <1>4

\* The page of a script that failed, or its output.
LEMMA ScriptResponseIs ==
  ASSUME NEW succeeds \in BOOLEAN, NEW silent \in BOOLEAN, res \in ResponseForm
  PROVE  LET r == ScriptResponse(succeeds, silent)
         IN /\ r \in ResponseForm
            /\ res.body = << >> => r.body \in {<< >>, <<r.status>>, <<Output>>}
<1>1. PICK r : r = ScriptResponse(succeeds, silent)
  OBVIOUS
<1>2. CASE ~succeeds
  <2>1. PICK code \in StatusEntries : code = 500
    BY DEF StatusEntries
  <2>2. r = Page(res, code) /\ code \in Nat
    BY <1>1, <1>2, <2>1 DEF ScriptResponse
  <2>3. r \in ResponseForm /\ r.body = <<code>> /\ r.status = code
    BY <2>1, <2>2, PageIs
  <2> QED BY <1>1, <2>3
<1>3. CASE succeeds
  <2>1. PICK q : q = setStatus(res, 200)
    OBVIOUS
  <2>2. q \in ResponseForm /\ q.body = res.body
    BY <2>1, StatusIs
  <2>3. PICK b : b = IF silent THEN q.body ELSE Append(q.body, Output)
    OBVIOUS
  <2>4. b \in Seq(Nat) /\ (q.body = << >> => b \in {<< >>, <<Output>>})
    <3>1. PICK c \in Seq(Nat) : c = q.body
      BY <2>2 DEF ResponseForm
    <3>2. Output \in Nat
      BY DEF Output
    <3>3. b = IF silent THEN c ELSE Append(c, Output)
      BY <2>3, <3>1
    <3>4. Append(c, Output) \in Seq(Nat)
      BY <3>1, <3>2, AppendProps
    <3>5. Append(<< >>, Output) = <<Output>>
      OBVIOUS
    <3> QED BY <3>1, <3>3, <3>4, <3>5
  <2>5. r = [q EXCEPT !.body = b]
    BY <1>1, <1>3, <2>1, <2>2, <2>3, ZenonT(60) DEF ScriptResponse, ResponseForm
  <2>6. r \in ResponseForm /\ r.body = b
    BY <2>2, <2>4, <2>5 DEF ResponseForm
  <2> QED BY <1>1, <2>2, <2>4, <2>6
<1> QED BY <1>2, <1>3

\* ScriptAnswered: the answer of the script, and a Response that starts anew.
LEMMA ScriptAnsweredKeeps ==
  ASSUME IInv, ScriptAnswered
  PROVE  IInv'
<1>1. /\ phase = "script" /\ phase' = "idle" /\ res' = NewResponse
      /\ UNCHANGED <<buff, resStatus, fd, conn, peer, asked, began, fresh, count>>
  BY DEF ScriptAnswered, sendInfo
<1>2. PICK succeeds, silent \in BOOLEAN : wire' = generate(ScriptResponse(succeeds, silent))
  BY DEF ScriptAnswered
<1>3. /\ TypeOK /\ SendInv /\ res \in ResponseForm /\ buff = << >>
      /\ FirstAnswer => res.body = << >>
  BY <1>1, ScriptHas
<1>4. PICK r : r = ScriptResponse(succeeds, silent)
  OBVIOUS
<1>5. r \in ResponseForm /\ (res.body = << >> => r.body \in {<< >>, <<r.status>>, <<Output>>})
  BY <1>3, <1>4, ScriptResponseIs
<1>6. PICK w : w = generate(r)
  OBVIOUS
<1>7. w \in Seq(Item) /\ wire' = w /\ \A k \in 1 .. Len(w) : ~IsFile(w[k])
  BY <1>2, <1>4, <1>5, <1>6, GenerateIs, GenerateNoFile
<1>8. ASSUME FirstAnswer PROVE Fits(w)
  <2>1. << >> \o w = w /\ << >> \in Seq(Item)
    BY <1>7
  <2>2. Fits(<< >> \o generate(r))
    BY <1>3, <1>5, <1>8, <2>1, NothingFits, FitsBehind
  <2> QED BY <1>6, <2>1, <2>2
<1>9. TypeOK'
  <2>1. res' \in ResponseForm /\ res'.offset <= res'.size /\ res'.sent <= res'.offset
    BY <1>1, NewResponseIs
  <2>2. wire' \in Seq(Item)
    BY <1>7
  <2> QED BY <1>1, <1>3, <2>1, <2>2 DEF TypeOK, Phases
<1>10. SendInv'
  <2>1. ~res'.stream
    BY <1>1, NewResponseIs
  <2> QED BY <1>1, <1>3, <2>1, IdleNext DEF SendInv
<1>11. InOrder'
  BY <1>7, MemoryOrdered
<1>12. FirstFits'
  BY <1>1, <1>7, <1>8, FitsNext
<1>13. BoundedLoss'
  BY <1>1, NewResponseIs DEF BoundedLoss
<1> QED BY <1>9, <1>10, <1>11, <1>12, <1>13 DEF IInv

\* LaunchFails: a part of the error page, which is that of its status.
LEMMA LaunchFailsKeeps ==
  ASSUME IInv, LaunchFails
  PROVE  IInv'
<1>1. /\ phase = "script" /\ phase' = "idle"
      /\ UNCHANGED <<buff, resStatus, fd, conn, peer, asked, began, fresh, count>>
  BY DEF LaunchFails, sendInfo
<1>2. PICK code \in {403, 500} :
        /\ res' = Page(res, code)
        /\ \E n \in 1 .. Len(generate(res')) : wire' = SubSeq(generate(res'), 1, n)
  BY DEF LaunchFails
<1>3. code \in StatusEntries /\ code \in Nat
  BY DEF StatusEntries
<1>4. /\ TypeOK /\ SendInv /\ res \in ResponseForm /\ buff = << >>
      /\ res.stream => res.offset = res.size
      /\ res.offset <= res.size /\ res.sent <= res.offset /\ res = began
  BY <1>1, ScriptHas
<1>5. PICK r : r = Page(res, code)
  OBVIOUS
<1>6. r \in ResponseForm /\ SameFile(res, r) /\ r.body = <<code>> /\ r.status = code
  BY <1>3, <1>4, <1>5, PageIs
<1>7. /\ res' = r /\ r.stream = res.stream /\ r.offset = res.offset /\ r.size = res.size
      /\ r.sent = res.sent
  BY <1>2, <1>5, <1>6 DEF SameFile
<1>8. PICK b \in Seq(Item) : b = generate(r)
  BY <1>6, GenerateIs
<1>9. PICK n \in 1 .. Len(b) : wire' = SubSeq(b, 1, n)
  BY <1>2, <1>7, <1>8
<1>10. PICK w : w = SubSeq(b, 1, n)
  OBVIOUS
<1>11. /\ w \in Seq(Item) /\ Len(w) = n /\ n \in Nat /\ n <= Len(b) /\ Len(b) \in Nat
       /\ \A i \in 1 .. n : w[i] = b[i]
  BY <1>10, SubSeqProperties
<1>12. \A k \in 1 .. Len(w) : ~IsFile(w[k])
  <2>1. \A k \in 1 .. Len(b) : ~IsFile(b[k])
    BY <1>6, <1>8, GenerateNoFile
  <2>2. \A k \in 1 .. n : k \in 1 .. Len(b)
    BY <1>11
  <2> QED BY <1>11, <2>1, <2>2
<1>13. Fits(w)
  <2>1. << >> \o b = b /\ << >> \in Seq(Item)
    BY <1>8
  <2>2. r.body \in {<< >>, <<r.status>>, <<Output>>}
    BY <1>6
  <2>3. Fits(<< >> \o generate(r))
    BY <1>6, <2>1, <2>2, NothingFits, FitsBehind
  <2>4. Fits(b)
    BY <1>8, <2>1, <2>3
  <2>5. Len(w) \in Nat /\ Len(w) <= Len(b) /\ \A i \in 1 .. Len(w) : w[i] = b[i]
    BY <1>11
  <2> QED BY <1>11, <2>4, <2>5, FitsPart
<1>14. TypeOK'
  <2>1. res' \in ResponseForm /\ res'.offset <= res'.size /\ res'.sent <= res'.offset
    BY <1>4, <1>6, <1>7
  <2>2. wire' \in Seq(Item)
    BY <1>9, <1>10, <1>11
  <2> QED BY <1>1, <1>4, <2>1, <2>2 DEF TypeOK, Phases
<1>15. SendInv'
  <2>1. res'.stream => res'.offset = res'.size
    BY <1>4, <1>7
  <2> QED BY <1>1, <1>4, <2>1, IdleNext DEF SendInv
<1>16. InOrder'
  BY <1>9, <1>10, <1>12, MemoryOrdered
<1>17. FirstFits'
  BY <1>1, <1>9, <1>10, <1>13, FitsNext
<1>18. BoundedLoss'
  <2> SUFFICES ASSUME Streaming', res'.stream
               PROVE  res'.size - Start' - Cardinality(Received') < Chunk - 1
    BY DEF BoundedLoss
  <2>1. Streaming
    BY <1>1 DEF Streaming
  <2>2. res'.size = 0
    BY <1>4, <1>7, <2>1 DEF Streaming
  <2>3. Start \in Nat /\ Start' = Start
    BY <1>1, <1>4, <1>7, WindowIs, SameWindow
  <2>4. PICK c \in Nat : c = Cardinality(Received')
    <3>1. Received' = Bytes(w)
      BY <1>9, <1>10 DEF Received, Bytes
    <3> QED BY <1>11, <3>1, BytesCounted
  <2> QED BY <2>2, <2>3, <2>4, ChunkAssumption
<1> QED BY <1>14, <1>15, <1>16, <1>17, <1>18 DEF IInv

\* What requestHandler() noted of a refused request.
LEMMA NotedIs ==
  ASSUME res \in ResponseForm, NEW r \in RequestForm
  PROVE  /\ Noted(r) \in ResponseForm /\ SameFile(res, Noted(r))
         /\ r.refused = 0 => Noted(r) = res
<1>1. r.refused \in {0, 400, 403, 413, 500, 501}
  BY DEF RequestForm
<1>2. CASE r.refused = 0
  BY <1>2 DEF Noted, SameFile
<1>3. CASE r.refused \in {400, 501}
  <2>1. Noted(r) = Page(res, r.refused)
    BY <1>3 DEF Noted
  <2>2. PICK code \in Nat : code = r.refused
    BY <1>3
  <2>3. r.refused # 0
    BY <1>3
  <2> QED BY <2>1, <2>2, <2>3, PageIs
<1>4. CASE r.refused \in {403, 413, 500}
  <2>1. Noted(r) = setStatus(res, r.refused)
    BY <1>4 DEF Noted
  <2>2. r.refused # 0
    BY <1>4
  <2> QED BY <2>1, <2>2, StatusIs
<1> QED BY <1>1, <1>2, <1>3, <1>4

\* Request: the Response is the one the handlers leave of that of the last request.
LEMMA RequestKeeps ==
  ASSUME IInv, Request
  PROVE  IInv'
<1>1. /\ phase = "idle" /\ count < MaxRequests /\ resStatus' = "CS_START_SEND"
      /\ fresh' = (res = NewResponse) /\ wire' = << >> /\ count' = count + 1
      /\ UNCHANGED <<buff, fd, conn, peer>>
  BY DEF Request
<1>2. PICK r \in Requests, removed \in BOOLEAN :
        /\ asked' = r
        /\ res' = Handled(r, removed).res /\ began' = Handled(r, removed).res
        /\ phase' = IF Handled(r, removed).script THEN "script" ELSE "sending"
  BY DEF Request
<1>3. TypeOK /\ res \in ResponseForm /\ res.offset <= res.size /\ res.sent <= res.offset
  BY DEF IInv, TypeOK
<1>4. buff = << >> /\ (res.stream => res.offset = res.size)
  BY <1>1 DEF IInv, SendInv, Idles
<1>5. r \in RequestForm
  BY RequestAssumption
<1>6. PICK q : q = Noted(r)
  OBVIOUS
<1>7. q \in ResponseForm /\ SameFile(res, q) /\ (r.refused = 0 => q = res)
  BY <1>3, <1>5, <1>6, NotedIs
<1>8. PICK a : a = Handled(r, removed)
  OBVIOUS
<1>9. /\ a.script \in BOOLEAN /\ a.res \in ResponseForm
      /\ a.script => a.res = q
      /\ SameFile(q, a.res) \/ Anew(a.res)
      /\ r.target.redirect \in StatusEntries \cup {0} => PageFits(q, a.res)
  <2>1. PICK e \in Nat : e = r.lineError
    BY <1>5 DEF RequestForm
  <2>2. e \in StatusEntries \cup {0}
    BY <1>5, <2>1 DEF RequestForm, StatusEntries
  <2>3. r.method \in Methods /\ r.target \in Target /\ r.body \in Nat /\ MaxBodySize \in Nat
    BY <1>5, ChunkAssumption DEF RequestForm
  <2>4. PICK m \in Methods, t \in Target, b \in Nat : m = r.method /\ t = r.target /\ b = r.body
    BY <2>3
  <2>5. a = processClientRequest(m, e, t, b, MaxBodySize, q, removed)
    BY <1>6, <1>8, <2>1, <2>4 DEF Handled
  <2>6. /\ a.script \in BOOLEAN /\ a.res \in ResponseForm
        /\ a.script => a.res = q
        /\ SameFile(q, a.res) \/ Anew(a.res)
        /\ {e, t.redirect} \subseteq StatusEntries \cup {0} => PageFits(q, a.res)
    BY <1>7, <2>3, <2>5, RequestDecides
  <2>7. r.target.redirect \in StatusEntries \cup {0} => {e, t.redirect} \subseteq StatusEntries \cup {0}
    BY <2>2, <2>4
  <2> QED BY <2>6, <2>7
<1>10. /\ asked' = r /\ res' = a.res /\ began' = a.res
       /\ phase' = IF a.script THEN "script" ELSE "sending"
  BY <1>2, <1>8
<1>11. /\ res'.offset <= res'.size /\ res'.sent <= res'.offset
       /\ a.script => (res'.stream => res'.offset = res'.size)
       /\ res'.stream => \/ res'.offset = res'.size
                         \/ res'.offset = 0 /\ res'.sent = 0 /\ res'.status = 200
  <2>1. /\ q.stream = res.stream /\ q.size = res.size /\ q.offset = res.offset /\ q.sent = res.sent
    BY <1>7 DEF SameFile
  <2>2. CASE SameFile(q, a.res)
    <3>1. /\ res'.stream = res.stream /\ res'.size = res.size /\ res'.offset = res.offset
          /\ res'.sent = res.sent
      BY <1>10, <2>1, <2>2 DEF SameFile
    <3> QED BY <1>3, <1>4, <3>1
  <2>3. CASE Anew(a.res)
    <3>1. res'.stream /\ res'.offset = 0 /\ res'.sent = 0 /\ res'.status = 200 /\ res'.size \in Nat
      BY <1>9, <1>10, <2>3 DEF Anew, ResponseForm
    <3>2. a.script => (res'.stream => res'.offset = res'.size)
      <4>1. a.script => res' = q
        BY <1>9, <1>10
      <4> QED BY <1>4, <2>1, <4>1
    <3> QED BY <3>1, <3>2
  <2> QED BY <1>9, <2>2, <2>3
<1>12. FirstAnswer' => /\ res'.body \in {<< >>, <<res'.status>>}
                       /\ a.script => res'.body = << >>
  <2> SUFFICES ASSUME FirstAnswer'
               PROVE  /\ res'.body \in {<< >>, <<res'.status>>}
                      /\ a.script => res'.body = << >>
    OBVIOUS
  <2>1. res = NewResponse /\ r.refused = 0 /\ r.target.redirect \in StatusEntries \cup {0}
    BY <1>1, <1>10 DEF FirstAnswer
  <2>2. q.body = << >>
    BY <1>7, <2>1, NewResponseIs
  <2>3. PageFits(q, a.res)
    BY <1>9, <2>1
  <2>4. res'.body \in {<< >>, <<res'.status>>}
    BY <1>10, <2>2, <2>3 DEF PageFits
  <2>5. a.script => res'.body = << >>
    BY <1>9, <1>10, <2>2
  <2> QED BY <2>4, <2>5
<1>13. TypeOK'
  <2>1. phase' \in Phases
    BY <1>10 DEF Phases
  <2>2. fresh' \in BOOLEAN
    BY <1>1
  <2>3. count' \in 0 .. MaxRequests
    BY <1>1, <1>3, ChunkAssumption DEF TypeOK
  <2>4. wire' \in Seq(Item)
    BY <1>1
  <2>5. res' \in ResponseForm /\ began' \in ResponseForm /\ asked' \in Requests
    BY <1>9, <1>10
  <2> QED BY <1>1, <1>3, <1>11, <2>1, <2>2, <2>3, <2>4, <2>5 DEF TypeOK
<1>14. SendInv'
  <2>1. Idles'
    <3>1. phase' \in {"idle", "script"} => a.script
      BY <1>9, <1>10
    <3> QED BY <1>1, <1>4, <1>11, <3>1 DEF Idles
  <2>2. Scripts'
    <3>1. phase' = "script" => a.script
      BY <1>9, <1>10
    <3> QED BY <1>1, <1>10, <1>12, <3>1 DEF Scripts
  <2>3. Starts'
    BY <1>1, <1>4, <1>10, <1>11 DEF Starts
  <2>4. Begins'
    BY <1>1, <1>10, <1>12 DEF Begins
  <2> QED BY <1>1, <2>1, <2>2, <2>3, <2>4 DEF SendInv, Writes, Ends
<1>15. InOrder'
  <2>1. \A k \in 1 .. Len(<< >>) : FALSE
    OBVIOUS
  <2> QED BY <1>1, <2>1 DEF InOrder, Ordered
<1>16. FirstFits'
  <2>1. \A k \in 2 .. Len(<< >>) : FALSE
    OBVIOUS
  <2> QED BY <1>1, <2>1 DEF FirstFits, Fits
<1>17. BoundedLoss'
  BY <1>1 DEF BoundedLoss, Over
<1> QED BY <1>13, <1>14, <1>15, <1>16, <1>17 DEF IInv
-----------------------------------------------------------------------------
(* The results.                                                            *)

\* A new connection.
LEMMA InitIInv == Init => IInv
<1> SUFFICES ASSUME Init PROVE IInv
  OBVIOUS
<1>1. TypeOK
  <2>1. res \in ResponseForm /\ res.offset <= res.size /\ res.sent <= res.offset
        /\ began \in ResponseForm
    BY NewResponseIs DEF Init
  <2>2. Len(buff) < 2 * Chunk
    <3>1. Len(<< >>) = 0 /\ 0 < 2 * Chunk
      BY ChunkAssumption
    <3> QED BY <3>1 DEF Init
  <2>3. count \in 0 .. MaxRequests
    BY ChunkAssumption DEF Init
  <2> QED BY <2>1, <2>2, <2>3 DEF Init, TypeOK, Phases
<1>2. SendInv
  <2>1. Idles
    BY NewResponseIs DEF Init, Idles
  <2>2. Begins
    BY NewResponseIs DEF Init, Begins
  <2> QED BY <2>1, <2>2 DEF Init, SendInv, Scripts, Starts, Writes, Ends
<1>3. InOrder /\ FirstFits
  BY NothingFits DEF Init, InOrder, FirstFits
<1>4. BoundedLoss
  BY DEF Init, BoundedLoss, Over
<1> QED BY <1>1, <1>2, <1>3, <1>4 DEF IInv

\* Every step keeps the invariant.
LEMMA StepIInv == IInv /\ [Next]_vars => IInv'
<1> SUFFICES ASSUME IInv, [Next]_vars PROVE IInv'
  OBVIOUS
<1>1. CASE UNCHANGED vars
  <2>1. UNCHANGED <<res, buff, resStatus, fd, conn, phase, peer, asked, began, fresh, wire, count>>
    BY <1>1 DEF vars, sendInfo, history
  <2>2. TypeOK' /\ InOrder' /\ FirstFits' /\ BoundedLoss'
    <3>1. Start' = Start /\ Window' = Window
      BY <2>1, SameWindow
    <3>2. TypeOK'
      BY <2>1 DEF IInv, TypeOK
    <3>3. InOrder' /\ FirstFits'
      <4>1. PICK w : w = wire
        OBVIOUS
      <4>2. Ordered(w) /\ (FirstAnswer => Fits(w))
        BY <4>1 DEF IInv, InOrder, FirstFits
      <4> QED BY <2>1, <4>1, <4>2, OrderNext, FitsNext
    <3>4. BoundedLoss'
      BY <2>1, <3>1 DEF IInv, BoundedLoss, Over, Streaming, HeadersOnly, Received
    <3> QED BY <3>2, <3>3, <3>4
  <2>3. SendInv'
    <3>1. Start' = Start
      BY <2>1, SameWindow
    <3>2. Writes'
      <4>1. Streams(wire \o buff, res.offset)' = Streams(wire \o buff, res.offset)
        BY <2>1, <3>1 DEF Streams
      <4> QED BY <2>1, <4>1 DEF IInv, SendInv, Writes
    <3>3. Idles' /\ Starts' /\ Ends'
      BY <2>1 DEF IInv, SendInv, Idles, Starts, Ends
    <3>4. Scripts' /\ Begins'
      BY <2>1 DEF IInv, SendInv, Scripts, Begins, FirstAnswer
    <3> QED BY <3>2, <3>3, <3>4 DEF SendInv
  <2> QED BY <2>2, <2>3 DEF IInv
<1> QED
  BY <1>1, RequestKeeps, ScriptAnsweredKeeps, LaunchFailsKeeps, ScriptAbandonedKeeps,
     SendSomeKeeps, SendsNothingKeeps, SendFailsKeeps, AbandonKeeps, PeerLeavesKeeps,
     PeerClosedKeeps DEF Next

\* IInv holds whatever is asked and however the sends are cut.
THEOREM Invariant == Spec => []IInv
BY InitIInv, StepIInv, PTL DEF Spec

\* InOrder: the bytes of a file come after the headers, from the start of the
\* window on, none twice and none left out (ServerManager's loop, sendResponse()).
THEOREM BytesInOrder == Spec => []InOrder
<1>1. IInv => InOrder
  BY DEF IInv
<1> QED BY <1>1, Invariant, PTL

\* BoundedLoss: of a file read to its end the loop drops less than a block.
THEOREM LessThanABlockLost == Spec => []BoundedLoss
<1>1. IInv => BoundedLoss
  BY DEF IInv
<1> QED BY <1>1, Invariant, PTL

\* FirstFits: the first answer of a Response has the page of its status.
THEOREM PageOfItsStatus == Spec => []FirstFits
<1>1. IInv => FirstFits
  BY DEF IInv
<1> QED BY <1>1, Invariant, PTL

\* The end of an answer that the connection outlives: sendResponse() found nothing
\* more to send, and a client that still reads has got a part of the last block.
LEMMA EndsIdle ==
  ASSUME IInv, Next, phase = "sending", phase' = "idle"
  PROVE  /\ UNCHANGED <<peer, began>> /\ (began.stream \/ began.body # << >>)
         /\ peer = "here" => began.stream \/
              \E n \in 1 .. Len(generate(began)) :
                wire = generate(began) /\ wire' = wire \o SubSeq(generate(began), 1, n)
<1>1. TypeOK /\ SendInv
  BY DEF IInv
<1>2. SendSome \/ Abandon
  BY DEF Next, Request, ScriptAnswered, LaunchFails, ScriptAbandoned, SendsNothing, SendFails,
         Keep, PeerLeaves, PeerClosed
<1>3. CASE Abandon
  <2>1. /\ resStatus = "CS_WRITING_DONE" /\ conn # "CLOSED" /\ UNCHANGED <<peer, began>>
    BY <1>3 DEF Abandon, Finish, Now, history
  <2>2. peer = "gone" /\ (began.stream \/ began.body # << >>)
    BY <1>1, <2>1 DEF SendInv, Ends
  <2> QED BY <2>1, <2>2
<1>4. CASE SendSome
  <2>1. resStatus # "CS_WRITING_DONE" /\ UNCHANGED <<peer, began>>
    BY <1>4 DEF SendSome
  <2>2. PICK p \in sendResponse : \E n \in 1 .. Len(p.buff) :
          /\ wire' = wire \o SubSeq(p.buff, 1, n)
          /\ IF p.resStatus = "CS_WRITING_DONE"
               THEN Finish(p)
               ELSE Keep(p, SubSeq(p.buff, n + 1, Len(p.buff)))
    BY <1>4 DEF SendSome
  <2>3. SendCase(p)
    BY <1>1, <2>1, SendCases
  <2>4. p.resStatus = "CS_WRITING_DONE" /\ p.conn # "CLOSED"
    BY <2>2 DEF Finish, Keep
  <2>5. IsPageAgain(p) \/ IsLast(p) \/ IsError(p)
    BY <2>3, <2>4 DEF SendCase, IsBare, IsPage, IsBlock
  <2>6. CASE IsLast(p) \/ IsError(p)
    BY <2>1, <2>6 DEF IsLast, IsError
  <2>7. CASE IsPageAgain(p)
    <3>1. PICK b : b = p.buff
      OBVIOUS
    <3>2. b = (IF began.body # << >> THEN generate(began) ELSE << >>) /\ wire = generate(began)
      BY <2>7, <3>1 DEF IsPageAgain
    <3>3. PICK n \in 1 .. Len(b) : wire' = wire \o SubSeq(b, 1, n)
      BY <2>2, <3>1
    <3>4. b # << >>
      <4>1. \A k \in 1 .. Len(<< >>) : FALSE
        OBVIOUS
      <4> QED BY <3>3, <4>1
    <3> QED BY <2>1, <3>2, <3>3, <3>4
  <2> QED BY <2>5, <2>6, <2>7
<1> QED BY <1>2, <1>3, <1>4

\* BareHeadersClose: headers without a body never keep the connection (Finish and
\* HeadersOnly of sendResponse()).
THEOREM BareHeadersEnd == Spec => BareHeadersClose
<1>1. IInv /\ [Next]_vars
        => [phase = "sending" /\ phase' = "idle" => began.stream \/ began.body # << >>]_vars
  BY EndsIdle DEF vars
<1> QED BY <1>1, Invariant, PTL DEF Spec, BareHeadersClose

\* A page, whole, and a part of its copy.
LEMMA PageAndCopy ==
  ASSUME NEW g \in Seq(Item), NEW n \in 1 .. Len(g), NEW w, w = g \o SubSeq(g, 1, n)
  PROVE  IsPrefix(g, w) /\ IsPrefix(w, g \o g)
<1>1. PICK t : t = g \o g
  OBVIOUS
<1>2. /\ w \in Seq(Item) /\ Len(w) = Len(g) + n /\ \A i \in 1 .. Len(w) : w[i] = t[i]
      /\ Len(t) = Len(g) + Len(g) /\ t \in Seq(Item)
  BY <1>1, TakenIs
<1>3. \A i \in 1 .. Len(g) + Len(g) : t[i] = IF i <= Len(g) THEN g[i] ELSE g[i - Len(g)]
  BY <1>1, ConcatProperties
<1>4. Len(g) \in Nat /\ n \in Nat /\ n <= Len(g) /\ Len(w) \in Nat /\ Len(t) \in Nat
  BY <1>2
<1>5. ASSUME NEW a \in Seq(Item), NEW b \in Seq(Item), Len(a) <= Len(b),
             \A i \in 1 .. Len(a) : a[i] = b[i]
      PROVE  IsPrefix(a, b)
  <2>1. Len(a) \in Nat /\ Len(b) \in Nat
    OBVIOUS
  <2>2. PICK c : c = SubSeq(a, 1, Len(a))
    OBVIOUS
  <2>3. c \in Seq(Item) /\ Len(c) = Len(a) /\ \A i \in 1 .. Len(a) : c[i] = a[i]
    BY <2>1, <2>2, SubSeqProperties
  <2>4. PICK d : d = SubSeq(b, 1, Len(a))
    OBVIOUS
  <2>5. d \in Seq(Item) /\ Len(d) = Len(a) /\ \A i \in 1 .. Len(a) : d[i] = b[i]
    <3>1. \A i \in 1 .. Len(a) : b[i] \in Item
      BY <1>5, <2>1
    <3> QED BY <2>1, <2>4, <3>1, SubSeqProperties
  <2>6. \A i \in 1 .. Len(a) : c[i] = d[i]
    BY <1>5, <2>3, <2>5
  <2>7. c = d
    BY <2>3, <2>5, <2>6, SeqEqual
  <2> QED BY <1>5, <2>2, <2>4, <2>7 DEF IsPrefix
<1>6. \A i \in 1 .. Len(g) : g[i] = w[i]
  BY <1>2, <1>3, <1>4
<1>7. Len(g) <= Len(w) /\ Len(w) <= Len(t)
  BY <1>2, <1>4
<1> QED BY <1>1, <1>2, <1>5, <1>6, <1>7

\* WholePage: a page has been received whole, once, before the next request.
THEOREM PageWhole == Spec => WholePage
<1>1. ASSUME IInv, Next, phase = "sending", phase' = "idle", peer = "here", began.body # << >>,
             ~began.stream
      PROVE  IsPrefix(generate(began), wire') /\ IsPrefix(wire', generate(began) \o generate(began))
  <2>1. began \in ResponseForm
    BY <1>1 DEF IInv, TypeOK
  <2>2. PICK g \in Seq(Item) : g = generate(began)
    BY <2>1, GenerateIs
  <2>3. PICK n \in 1 .. Len(g) : wire' = g \o SubSeq(g, 1, n)
    BY <1>1, <2>2, EndsIdle
  <2> QED BY <2>2, <2>3, PageAndCopy
<1>2. IInv /\ [Next]_vars
        => [phase = "sending" /\ phase' = "idle" /\ peer = "here" /\ began.body # << >> /\ ~began.stream
              => IsPrefix(generate(began), wire') /\ IsPrefix(wire', generate(began) \o generate(began))]_vars
  BY <1>1
<1> QED BY <1>2, Invariant, PTL DEF Spec, WholePage
=============================================================================
