------------------------ MODULE MultipartParserProofs ------------------------
(***************************************************************************)
(* What the multipart upload parser promises of descriptors and memory,    *)
(* for every boundary, every body and every way the connection cuts it     *)
(* into reads: IInv of MultipartParser is kept by every round of feed().   *)
(***************************************************************************)
EXTENDS MultipartParser, SequenceTheorems, TLAPS

-----------------------------------------------------------------------------
(* Cutting and writing.                                                    *)

\* buffer.substr(0, n): bytes of the buffer.
LEMMA FirstIs ==
  ASSUME NEW S, NEW s \in Seq(S), NEW n \in Int
  PROVE  First(s, n) \in Seq(S)
<1> DEFINE k == IF n <= Len(s) THEN n ELSE Len(s)
<1>1. Len(s) \in Nat
  BY LenProperties
<1>2. k \in Int /\ k <= Len(s)
  BY <1>1
<1> HIDE DEF k
<1>3. \A i \in 1 .. k : s[i] \in S
  BY <1>1, <1>2, ElementOfSeq
<1>4. SubSeq(s, 1, k) \in Seq(S)
  BY <1>2, <1>3, SubSeqProperties
<1> QED BY <1>4 DEF First, k

\* What erase(0, n) leaves.
LEMMA AfterIs ==
  ASSUME NEW S, NEW s \in Seq(S), NEW n \in 0 .. Len(s)
  PROVE  After(s, n) \in Seq(S) /\ Len(After(s, n)) = Len(s) - n
<1>1. Len(s) \in Nat /\ n \in Nat /\ \A i \in n + 1 .. Len(s) : s[i] \in S
  BY LenProperties, ElementOfSeq
<1>2. /\ SubSeq(s, n + 1, Len(s)) \in Seq(S)
      /\ Len(SubSeq(s, n + 1, Len(s))) =
           IF n + 1 <= Len(s) THEN Len(s) - (n + 1) + 1 ELSE 0
  BY <1>1, SubSeqProperties
<1> QED BY <1>1, <1>2 DEF After

\* What find() finds lies in the buffer.
LEMMA FoundInside ==
  ASSUME NEW p \in Seq(Byte), NEW s \in Seq(Byte), NEW n, IsFound(n, p, s)
  PROVE  n \in Nat /\ 1 <= n /\ n + Len(p) - 1 <= Len(s)
<1>1. n \in 1 .. Len(s) - Len(p) + 1
  BY DEF IsFound, Occurs
<1>2. Len(s) \in Nat /\ Len(p) \in Nat
  BY LenProperties
<1> QED BY <1>1, <1>2

\* The blank line behind a part's headers.
LEMMA BlankLine ==
  EOL \o EOL \in Seq(Byte) /\ Len(EOL \o EOL) = 4 /\ EOL \in Seq(Byte)
<1>1. EOL \in Seq(Byte) /\ Len(EOL) = 2
  BY BytesAssumption DEF EOL
<1>2. EOL \o EOL \in Seq(Byte) /\ Len(EOL \o EOL) = Len(EOL) + Len(EOL)
  BY <1>1, ConcatProperties
<1> QED BY <1>1, <1>2

\* write() to _curFd makes the last file longer and touches no other.
LEMMA WrittenIs ==
  ASSUME TypeOK, Len(files) > 0, NEW bytes \in Seq(Byte)
  PROVE  Written(bytes) \in Seq(Seq(Byte)) /\ Len(Written(bytes)) = Len(files)
<1>1. Len(files) \in 1 .. Len(files) /\ files \in Seq(Seq(Byte))
  BY LenProperties DEF TypeOK
<1>2. files[Len(files)] \in Seq(Byte)
  BY <1>1, ElementOfSeq
<1>3. files[Len(files)] \o bytes \in Seq(Byte)
  BY <1>2, ConcatProperties
<1> QED BY <1>1, <1>3, ExceptSeq DEF Written

\* A buffer with no bytes is the empty one.
LEMMA EmptyIffNoBytes ==
  ASSUME NEW S, NEW s \in Seq(S)
  PROVE  Len(s) \in Nat /\ (s = << >> <=> Len(s) = 0)
BY EmptySeq, LenProperties

\* How a round ends: feed() returns or goes on; only a parser that is done may
\* answer COMPLETE.
LEMMA RoundEnds ==
  ASSUME TypeOK, NEW r \in Results, Returns(r) \/ GoesOn
  PROVE  /\ feeding' \in BOOLEAN /\ error' \in BOOLEAN /\ verdict' \in Results
         /\ verdict' = "COMPLETE" /\ verdict # "COMPLETE" => r = "COMPLETE" /\ Returns(r)
<1>1. CASE Returns(r)
  BY <1>1 DEF Returns, TypeOK
<1>2. CASE GoesOn
  BY <1>2 DEF GoesOn, TypeOK
<1> QED BY <1>1, <1>2

-----------------------------------------------------------------------------
(* Every round keeps the invariant.                                        *)

\* init(): no file yet.
LEMMA InvInit == Init => IInv
<1> SUFFICES ASSUME Init PROVE IInv
  OBVIOUS
<1>1. << >> \in Seq(Byte) /\ << >> \in Seq(Seq(Byte)) /\ Len(<< >>) = 0
  BY EmptySeq
<1>2. wire \in Seq(Byte)
  BY BytesAssumption DEF Init
<1>3. maxBodySize \in Int
  BY <1>2, LenProperties DEF Init
<1>4. state \in States /\ verdict \in Results
  BY DEF Init, States, Results
<1>5. TypeOK
  BY <1>1, <1>2, <1>3, <1>4 DEF Init, TypeOK
<1>6. OneFileOpen /\ HoldsBack /\ Opened
  BY DEF Init, OneFileOpen, HoldsBack, Opened
<1> QED BY <1>5, <1>6 DEF IInv

\* feed() before its loop opens, closes and writes nothing.
LEMMA FeedKeeps == IInv /\ Feed => IInv'
<1> SUFFICES ASSUME IInv, Feed PROVE IInv'
  OBVIOUS
<1> USE DEF IInv
<1>1. PICK n \in 1 .. Len(wire) :
       /\ n <= MaxRead
       /\ Receive(n)
       /\ \/ error /\ UNCHANGED <<error, buffer, bytesReceived, feeding, verdict>>
          \/ /\ ~error
             /\ buffer' = buffer \o First(wire, n) /\ bytesReceived' = bytesReceived + n
             /\ \/ bytesReceived' > maxBodySize /\ Returns("ERROR")
                \/ /\ bytesReceived' <= maxBodySize
                   /\ feeding' = TRUE /\ UNCHANGED <<error, verdict>>
  BY DEF Feed
<1>2. n \in 0 .. Len(wire) /\ n \in Nat /\ n \in Int
  BY LenProperties DEF TypeOK
<1> DEFINE r == First(wire, n)
<1>3. r \in Seq(Byte)
  BY <1>2, FirstIs DEF TypeOK
<1>4. After(wire, n) \in Seq(Byte)
  BY <1>2, AfterIs DEF TypeOK
<1> HIDE DEF r
<1>5. /\ sent' = sent \o r /\ wire' = After(wire, n)
      /\ badCut' \in BOOLEAN
      /\ UNCHANGED <<state, files, open, ioFailed, maxBodySize>>
  BY <1>1 DEF Receive, r, TypeOK
<1>6. sent \o r \in Seq(Byte) /\ buffer \o r \in Seq(Byte)
  BY <1>3, ConcatProperties DEF TypeOK
<1>7. CASE error /\ UNCHANGED <<error, buffer, bytesReceived, feeding, verdict>>
  <2>1. TypeOK'
    BY <1>4, <1>5, <1>6, <1>7 DEF TypeOK
  <2>2. OneFileOpen' /\ HoldsBack' /\ Opened'
    BY <1>5, <1>7 DEF OneFileOpen, HoldsBack, Opened
  <2> QED BY <2>1, <2>2
<1>8. CASE /\ ~error
           /\ buffer' = buffer \o r /\ bytesReceived' = bytesReceived + n
           /\ \/ Returns("ERROR")
              \/ feeding' = TRUE /\ UNCHANGED <<error, verdict>>
  <2>1. /\ feeding' \in BOOLEAN /\ error' \in BOOLEAN /\ verdict' \in Results
        /\ verdict' = "COMPLETE" => verdict = "COMPLETE"
        /\ feeding' \/ error'
    BY <1>8 DEF Returns, TypeOK, Results
  <2>2. buffer' \in Seq(Byte) /\ bytesReceived' \in Nat
    BY <1>2, <1>6, <1>8 DEF TypeOK
  <2>3. TypeOK'
    BY <1>4, <1>5, <1>6, <2>1, <2>2 DEF TypeOK
  <2>4. OneFileOpen' /\ HoldsBack' /\ Opened'
    BY <1>5, <2>1 DEF OneFileOpen, HoldsBack, Opened
  <2> QED BY <2>3, <2>4
<1> QED BY <1>1, <1>7, <1>8 DEF r

\* A round that waits for more bytes only makes feed() return, and neither is in
\* a part's body.
LEMMA AwaitsKeep == IInv /\ (AwaitBoundary \/ AwaitHeaders) => IInv'
<1> SUFFICES ASSUME IInv, AwaitBoundary \/ AwaitHeaders PROVE IInv'
  OBVIOUS
<1> USE DEF IInv
<1>1. /\ UNCHANGED <<state, buffer, files, open, ioFailed, connection>>
      /\ GoesOn /\ state # "ST_PART_BODY"
  BY DEF AwaitBoundary, AwaitHeaders
<1>2. feeding' \in BOOLEAN /\ UNCHANGED <<error, verdict>>
  BY <1>1 DEF GoesOn
<1>3. TypeOK'
  BY <1>1, <1>2 DEF TypeOK, connection
<1>4. OneFileOpen' /\ HoldsBack' /\ Opened'
  BY <1>1, <1>2 DEF OneFileOpen, HoldsBack, Opened
<1> QED BY <1>3, <1>4

\* processBoundary: the file of the part before it is closed unless the bytes
\* behind the boundary are wrong.
LEMMA BoundaryKeeps == IInv /\ ProcessBoundary => IInv'
<1> SUFFICES ASSUME IInv, ProcessBoundary PROVE IInv'
  OBVIOUS
<1> USE DEF IInv
<1>1. PICK n \in 1 .. Len(buffer) :
       /\ IsFound(n, boundary, buffer)
       /\ LET rest == After(buffer, n + Len(boundary) - 1)
          IN \/ /\ First(rest, 2) = Dashes
                /\ buffer' = rest /\ state' = "ST_DONE"
                /\ closeCurrentFile
                /\ Returns("COMPLETE")
             \/ /\ First(rest, 2) \notin {Dashes, EOL}
                /\ buffer' = rest /\ UNCHANGED <<state, open>>
                /\ Returns("ERROR")
             \/ /\ First(rest, 2) = EOL
                /\ buffer' = After(rest, 2) /\ state' = "ST_PART_HEADERS"
                /\ closeCurrentFile
                /\ GoesOn
  BY DEF ProcessBoundary
<1>2. state = "ST_EXPECT_BOUNDARY" /\ UNCHANGED <<files, ioFailed, connection>>
  BY DEF ProcessBoundary
<1> DEFINE k == n + Len(boundary) - 1
           rest == After(buffer, k)
<1>3. k \in 0 .. Len(buffer)
  <2>1. n \in Nat /\ 1 <= n /\ k <= Len(buffer)
    BY <1>1, FoundInside, BoundaryAssumption DEF TypeOK
  <2>2. Len(boundary) \in Nat /\ Len(buffer) \in Nat
    BY LenProperties, BoundaryAssumption DEF TypeOK
  <2> QED BY <2>1, <2>2
<1> HIDE DEF k
<1>4. rest \in Seq(Byte)
  BY <1>3, AfterIs DEF TypeOK
<1> HIDE DEF rest
<1>5. closeCurrentFile => open' = {}
  BY DEF closeCurrentFile, OneFileOpen
<1>6. verdict # "COMPLETE"
  BY <1>2 DEF Opened
<1>7. CASE /\ buffer' = rest /\ state' = "ST_DONE" /\ closeCurrentFile
           /\ Returns("COMPLETE")
  <2>1. feeding' \in BOOLEAN /\ error' \in BOOLEAN /\ verdict' \in Results
    BY <1>7, RoundEnds DEF Results
  <2>2. TypeOK'
    BY <1>2, <1>4, <1>5, <1>7, <2>1 DEF TypeOK, States, connection
  <2>3. OneFileOpen' /\ HoldsBack' /\ Opened'
    BY <1>5, <1>7 DEF OneFileOpen, HoldsBack, Opened
  <2> QED BY <2>2, <2>3
<1>8. CASE buffer' = rest /\ UNCHANGED <<state, open>> /\ Returns("ERROR")
  <2>1. /\ feeding' \in BOOLEAN /\ error' \in BOOLEAN /\ verdict' \in Results
        /\ verdict' # "COMPLETE"
    BY <1>6, <1>8, RoundEnds DEF Results
  <2>2. TypeOK'
    BY <1>2, <1>4, <1>8, <2>1 DEF TypeOK, connection
  <2>3. OneFileOpen' /\ HoldsBack' /\ Opened'
    BY <1>2, <1>8, <2>1 DEF OneFileOpen, HoldsBack, Opened
  <2> QED BY <2>2, <2>3
<1>9. CASE /\ First(rest, 2) = EOL
           /\ buffer' = After(rest, 2) /\ state' = "ST_PART_HEADERS"
           /\ closeCurrentFile /\ GoesOn
  <2>1. /\ feeding' \in BOOLEAN /\ error' \in BOOLEAN /\ verdict' \in Results
        /\ verdict' # "COMPLETE"
    BY <1>6, <1>9 DEF GoesOn, TypeOK
  <2>2. 2 \in 0 .. Len(rest)
    <3>1. Len(rest) \in Nat /\ Len(EOL) = 2
      BY <1>4, LenProperties DEF EOL
    <3>2. SUFFICES ASSUME Len(rest) < 2 PROVE FALSE
      BY <3>1
    <3>3. First(rest, 2) = rest
      <4>1. First(rest, 2) = SubSeq(rest, 1, Len(rest))
        BY <3>1, <3>2 DEF First
      <4> QED BY <1>4, <4>1, SubSeqFull
    <3> QED BY <1>9, <3>1, <3>2, <3>3
  <2>3. buffer' \in Seq(Byte)
    BY <1>4, <1>9, <2>2, AfterIs
  <2>4. TypeOK'
    BY <1>2, <1>5, <1>9, <2>1, <2>3 DEF TypeOK, States, connection
  <2>5. OneFileOpen' /\ HoldsBack' /\ Opened'
    BY <1>5, <1>9, <2>1 DEF OneFileOpen, HoldsBack, Opened
  <2> QED BY <2>4, <2>5
<1> QED BY <1>1, <1>7, <1>8, <1>9 DEF rest, k

\* Erasing the headers and the blank line behind them.
LEMMA HeadersErased ==
  ASSUME TypeOK, NEW n, IsFound(n, EOL \o EOL, buffer)
  PROVE  After(buffer, n + 3) \in Seq(Byte)
<1>1. n \in Nat /\ 1 <= n /\ n + 4 - 1 <= Len(buffer)
  BY BlankLine, FoundInside DEF TypeOK
<1>2. n + 3 \in 0 .. Len(buffer)
  BY <1>1, LenProperties DEF TypeOK
<1> QED BY <1>2, AfterIs DEF TypeOK

\* processPartHeaders: _curFd is closed when openNewFile overwrites it.
LEMMA HeadersKeep == IInv /\ ProcessPartHeaders => IInv'
<1> SUFFICES ASSUME IInv, ProcessPartHeaders PROVE IInv'
  OBVIOUS
<1> USE DEF IInv
<1>1. /\ state = "ST_PART_HEADERS" /\ UNCHANGED <<ioFailed, connection>>
      /\ files' = Append(files, << >>) /\ open' = open \cup {Len(files) + 1}
      /\ state' = "ST_PART_BODY" /\ GoesOn
  BY DEF ProcessPartHeaders
<1>2. buffer' \in Seq(Byte)
  BY HeadersErased DEF ProcessPartHeaders
<1>3. << >> \in Seq(Byte) /\ Len(files) \in Nat
  BY EmptySeq, LenProperties DEF TypeOK
<1>4. files' \in Seq(Seq(Byte)) /\ Len(files') = Len(files) + 1
  BY <1>1, <1>3, AppendProperties DEF TypeOK
<1>5. open' = {Len(files')} /\ verdict # "COMPLETE"
  BY <1>1, <1>4 DEF Opened
<1>6. /\ UNCHANGED <<error, verdict>> /\ feeding' \in BOOLEAN
      /\ feeding' = (buffer' # << >>)
  BY <1>1 DEF GoesOn
<1>7. open' \subseteq 1 .. Len(files')
  BY <1>3, <1>4, <1>5
<1>8. TypeOK'
  BY <1>1, <1>2, <1>4, <1>6, <1>7 DEF TypeOK, States, connection
<1>9. HoldsBack'
  <2>1. ~feeding' => Len(buffer') = 0
    BY <1>2, <1>6, EmptyIffNoBytes
  <2>2. Len(boundary) \in Nat
    BY BoundaryAssumption, LenProperties
  <2>3. ~feeding' => Len(buffer') <= Len(boundary)
    BY <2>1, <2>2
  <2> QED BY <2>3 DEF HoldsBack
<1>10. OneFileOpen' /\ Opened'
  BY <1>1, <1>3, <1>4, <1>5, <1>6 DEF OneFileOpen, Opened
<1> QED BY <1>8, <1>9, <1>10

\* open() fails: nothing is opened and feed() gives up.
LEMMA OpenFailsKeeps == IInv /\ OpenFails => IInv'
<1> SUFFICES ASSUME IInv, OpenFails PROVE IInv'
  OBVIOUS
<1> USE DEF IInv
<1>1. /\ state = "ST_PART_HEADERS" /\ ioFailed' = TRUE /\ Returns("ERROR")
      /\ UNCHANGED <<state, files, open, connection>>
  BY DEF OpenFails
<1>2. buffer' \in Seq(Byte)
  BY HeadersErased DEF OpenFails
<1>3. verdict # "COMPLETE"
  BY <1>1 DEF Opened
<1>4. /\ feeding' \in BOOLEAN /\ error' \in BOOLEAN /\ verdict' \in Results
      /\ verdict' # "COMPLETE"
  BY <1>1, <1>3, RoundEnds DEF Results
<1>5. TypeOK'
  BY <1>1, <1>2, <1>4 DEF TypeOK, connection
<1>6. OneFileOpen' /\ HoldsBack' /\ Opened'
  BY <1>1, <1>4 DEF OneFileOpen, HoldsBack, Opened
<1> QED BY <1>5, <1>6

\* processPartBody without a boundary in sight: all is written but the bytes a
\* boundary may start in.
LEMMA SafeKeeps == IInv /\ WriteSafe => IInv'
<1> SUFFICES ASSUME IInv, WriteSafe PROVE IInv'
  OBVIOUS
<1> USE DEF IInv
<1>1. /\ state = "ST_PART_BODY" /\ GoesOn
      /\ files' = Written(First(buffer, Safe)) /\ buffer' = After(buffer, Safe)
      /\ UNCHANGED <<state, open, ioFailed, connection>>
  BY DEF WriteSafe
<1>2. Len(buffer) \in Nat /\ Len(boundary) \in Nat /\ Len(files) > 0
  BY <1>1, LenProperties, BoundaryAssumption DEF TypeOK, Opened
<1>3. Safe \in 0 .. Len(buffer) /\ Len(buffer) - Safe <= Len(boundary)
  BY <1>2 DEF Safe
<1>4. First(buffer, Safe) \in Seq(Byte)
  BY <1>3, FirstIs DEF TypeOK
<1>5. buffer' \in Seq(Byte) /\ Len(buffer') = Len(buffer) - Safe
  BY <1>1, <1>3, AfterIs DEF TypeOK
<1>6. files' \in Seq(Seq(Byte)) /\ Len(files') = Len(files)
  BY <1>1, <1>2, <1>4, WrittenIs
<1>7. UNCHANGED <<error, verdict>> /\ feeding' \in BOOLEAN
  BY <1>1 DEF GoesOn
<1>8. TypeOK'
  BY <1>1, <1>5, <1>6, <1>7 DEF TypeOK, connection
<1>9. OneFileOpen' /\ HoldsBack' /\ Opened'
  BY <1>1, <1>3, <1>5, <1>6, <1>7 DEF OneFileOpen, HoldsBack, Opened
<1> QED BY <1>8, <1>9

\* processPartBody with the boundary: what is before it and its CRLF is written.
LEMMA EndsKeep == IInv /\ PartEnds => IInv'
<1> SUFFICES ASSUME IInv, PartEnds PROVE IInv'
  OBVIOUS
<1> USE DEF IInv
<1>1. PICK n \in 1 .. Len(buffer) :
       /\ IsFound(n, boundary, buffer)
       /\ \/ /\ EndsWith(First(buffer, n - 1), EOL)
             /\ files' = Written(DataBefore(n))
             /\ buffer' = After(buffer, n - 1) /\ state' = "ST_EXPECT_BOUNDARY"
             /\ GoesOn
          \/ /\ ~EndsWith(First(buffer, n - 1), EOL)
             /\ Returns("ERROR")
             /\ UNCHANGED <<files, buffer, state>>
  BY DEF PartEnds
<1>2. state = "ST_PART_BODY" /\ UNCHANGED <<open, ioFailed, connection>>
  BY DEF PartEnds
<1>3. Len(files) > 0 /\ verdict # "COMPLETE" /\ Len(buffer) \in Nat
  BY <1>2, LenProperties DEF Opened, TypeOK
<1>4. CASE /\ files' = Written(DataBefore(n)) /\ buffer' = After(buffer, n - 1)
           /\ state' = "ST_EXPECT_BOUNDARY" /\ GoesOn
  <2>1. n - 3 \in Int /\ n - 1 \in 0 .. Len(buffer)
    BY <1>3
  <2>2. DataBefore(n) \in Seq(Byte)
    BY <2>1, FirstIs DEF DataBefore, TypeOK
  <2>3. files' \in Seq(Seq(Byte)) /\ Len(files') = Len(files)
    BY <1>3, <1>4, <2>2, WrittenIs
  <2>4. buffer' \in Seq(Byte)
    BY <1>4, <2>1, AfterIs DEF TypeOK
  <2>5. UNCHANGED <<error, verdict>> /\ feeding' \in BOOLEAN
    BY <1>4 DEF GoesOn
  <2>6. TypeOK'
    BY <1>2, <1>4, <2>3, <2>4, <2>5 DEF TypeOK, States, connection
  <2>7. OneFileOpen' /\ HoldsBack' /\ Opened'
    BY <1>2, <1>3, <1>4, <2>3, <2>5 DEF OneFileOpen, HoldsBack, Opened
  <2> QED BY <2>6, <2>7
<1>5. CASE Returns("ERROR") /\ UNCHANGED <<files, buffer, state>>
  <2>1. /\ feeding' \in BOOLEAN /\ error' = TRUE /\ verdict' \in Results
        /\ verdict' # "COMPLETE"
    BY <1>3, <1>5, RoundEnds DEF Results, Returns
  <2>2. TypeOK'
    BY <1>2, <1>5, <2>1 DEF TypeOK, connection
  <2>3. OneFileOpen' /\ HoldsBack' /\ Opened'
    BY <1>2, <1>5, <2>1 DEF OneFileOpen, HoldsBack, Opened
  <2> QED BY <2>2, <2>3
<1> QED BY <1>1, <1>4, <1>5

\* A write() that fails or is short: the file stays open until clear().
LEMMA WriteFailsKeeps == IInv /\ WriteFails => IInv'
<1> SUFFICES ASSUME IInv, WriteFails PROVE IInv'
  OBVIOUS
<1> USE DEF IInv
<1>1. /\ state = "ST_PART_BODY" /\ ioFailed' = TRUE /\ Returns("ERROR")
      /\ UNCHANGED <<state, buffer, open, connection>>
  BY DEF WriteFails
<1>2. PICK n \in 0 .. Len(buffer) : files' = Written(First(buffer, n))
  BY DEF WriteFails
<1>3. Len(files) > 0 /\ verdict # "COMPLETE" /\ n \in Int
  BY <1>1, LenProperties DEF Opened, TypeOK
<1>4. First(buffer, n) \in Seq(Byte)
  BY <1>3, FirstIs DEF TypeOK
<1>5. files' \in Seq(Seq(Byte)) /\ Len(files') = Len(files)
  BY <1>2, <1>3, <1>4, WrittenIs
<1>6. /\ feeding' \in BOOLEAN /\ error' = TRUE /\ verdict' \in Results
      /\ verdict' # "COMPLETE"
  BY <1>1, <1>3, RoundEnds DEF Results, Returns
<1>7. TypeOK'
  BY <1>1, <1>5, <1>6 DEF TypeOK, connection
<1>8. OneFileOpen' /\ HoldsBack' /\ Opened'
  BY <1>1, <1>5, <1>6 DEF OneFileOpen, HoldsBack, Opened
<1> QED BY <1>7, <1>8

\* An upload that is complete already.
LEMMA DoneKeeps == IInv /\ AlreadyDone => IInv'
<1> SUFFICES ASSUME IInv, AlreadyDone PROVE IInv'
  OBVIOUS
<1> USE DEF IInv
<1>1. /\ state = "ST_DONE" /\ Returns("COMPLETE")
      /\ UNCHANGED <<state, buffer, files, open, ioFailed, connection>>
  BY DEF AlreadyDone
<1>2. feeding' \in BOOLEAN /\ error' \in BOOLEAN /\ verdict' \in Results
  BY <1>1, RoundEnds DEF Results
<1>3. TypeOK'
  BY <1>1, <1>2 DEF TypeOK, connection
<1>4. OneFileOpen' /\ HoldsBack' /\ Opened'
  BY <1>1 DEF OneFileOpen, HoldsBack, Opened
<1> QED BY <1>3, <1>4

\* So does every step.
LEMMA InvKept == IInv /\ [Next]_vars => IInv'
<1> SUFFICES ASSUME IInv, [Next]_vars PROVE IInv'
  OBVIOUS
<1>1. CASE UNCHANGED vars
  BY <1>1 DEF vars, IInv, TypeOK, OneFileOpen, HoldsBack, Opened
<1>2. CASE Next
  BY <1>2, FeedKeeps, AwaitsKeep, BoundaryKeeps, HeadersKeep, OpenFailsKeeps,
     SafeKeeps, EndsKeep, WriteFailsKeeps, DoneKeeps DEF Next, Loop
<1> QED BY <1>1, <1>2

-----------------------------------------------------------------------------
\* IInv holds in every state: _curFd is closed where openNewFile may overwrite it.
THEOREM Invariant == Spec => []IInv
BY InvInit, InvKept, PTL DEF Spec

\* MultipartParser has one descriptor at a time, that of the current part, and
\* none once it answered COMPLETE: no upload leaks one, whatever its parts.
THEOREM OneDescriptor == Spec => []OneFileOpen
<1>1. IInv => OneFileOpen
  BY DEF IInv
<1> QED BY <1>1, Invariant, PTL

\* Between two reads processPartBody keeps no more than a boundary's length of
\* the part in _buffer, however large the part is.
THEOREM MemoryBounded == Spec => []HoldsBack
<1>1. IInv => HoldsBack
  BY DEF IInv
<1> QED BY <1>1, Invariant, PTL
=============================================================================
