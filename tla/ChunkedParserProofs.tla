------------------------- MODULE ChunkedParserProofs -------------------------
(***************************************************************************)
(* What the chunked upload parser promises, for every body, every limit,   *)
(* every width of size_t and every way the connection cuts the body into   *)
(* reads: IInv of ChunkedParser holds at the start and is kept by every    *)
(* round of feed(), and the properties the runs check follow from it.      *)
(***************************************************************************)
EXTENDS ChunkedParser, SequenceTheorems, TLAPS

-----------------------------------------------------------------------------
(* Cutting a buffer: buffer.substr(0, n), and what erase(0, n) leaves.      *)

\* The first n bytes of a buffer are n bytes.
LEMMA FirstProps ==
  ASSUME NEW S, NEW s \in Seq(S), NEW n \in 0 .. Len(s)
  PROVE  First(s, n) \in Seq(S) /\ Len(First(s, n)) = n
<1>1. Len(s) \in Nat /\ n \in Nat /\ \A i \in 1 .. n : s[i] \in S
  BY LenProperties, ElementOfSeq
<1>2. /\ SubSeq(s, 1, n) \in Seq(S)
      /\ Len(SubSeq(s, 1, n)) = IF 1 <= n THEN n - 1 + 1 ELSE 0
  BY <1>1, SubSeqProperties
<1> QED BY <1>1, <1>2 DEF First

\* And what is left are the others.
LEMMA AfterProps ==
  ASSUME NEW S, NEW s \in Seq(S), NEW n \in 0 .. Len(s)
  PROVE  After(s, n) \in Seq(S) /\ Len(After(s, n)) = Len(s) - n
<1>1. Len(s) \in Nat /\ n \in Nat /\ \A i \in n + 1 .. Len(s) : s[i] \in S
  BY LenProperties, ElementOfSeq
<1>2. /\ SubSeq(s, n + 1, Len(s)) \in Seq(S)
      /\ Len(SubSeq(s, n + 1, Len(s))) =
           IF n + 1 <= Len(s) THEN Len(s) - (n + 1) + 1 ELSE 0
  BY <1>1, SubSeqProperties
<1> QED BY <1>1, <1>2 DEF After

\* A buffer with no bytes is the empty one.
LEMMA EmptyIffNoBytes ==
  ASSUME NEW S, NEW s \in Seq(S)
  PROVE  Len(s) \in Nat /\ (s = << >> <=> Len(s) = 0)
BY EmptySeq, LenProperties

\* Where find(EOL) finds a line's end both of its bytes are in the buffer.
LEMMA EolInside ==
  ASSUME NEW s \in Seq(Byte), NEW n \in Occurs(EOL, s)
  PROVE  n \in Nat /\ 1 <= n /\ n + 1 <= Len(s) /\ SubSeq(s, n, n + 1) = EOL
<1>1. Len(EOL) = 2
  BY DEF EOL
<1>2. Len(s) \in Nat
  BY LenProperties
<1>3. n \in 1 .. Len(s) - 2 + 1 /\ SubSeq(s, n, n + 2 - 1) = EOL
  BY <1>1 DEF Occurs
<1>4. n + 2 - 1 = n + 1
  BY <1>2, <1>3
<1> QED BY <1>2, <1>3, <1>4

\* The line's end that completes a line of which the buffer had none came with
\* the read: fewer bytes than the read follow it.
LEMMA EolCameNow ==
  ASSUME NEW b \in Seq(Byte), NEW r \in Seq(Byte), Occurs(EOL, b) = {},
         NEW n \in Occurs(EOL, b \o r)
  PROVE  Len(b \o r) - (n + 1) <= Len(r)
<1>1. b \o r \in Seq(Byte) /\ Len(b \o r) = Len(b) + Len(r)
  BY ConcatProperties
<1>2. Len(b) \in Nat /\ Len(r) \in Nat
  BY LenProperties
<1>3. n \in Nat /\ 1 <= n /\ n + 1 <= Len(b \o r) /\ SubSeq(b \o r, n, n + 1) = EOL
  BY <1>1, EolInside
<1>4. SUFFICES ASSUME n + 1 <= Len(b)
               PROVE  FALSE
  BY <1>1, <1>2, <1>3
<1>5. n \in 1 .. Len(b) /\ n + 1 \in 1 .. Len(b)
  BY <1>2, <1>3, <1>4
<1>6. SubSeq(b, n, n + 1) = EOL
  BY <1>3, <1>5, SubSeqOfConcat1
<1>7. n \in 1 .. Len(b) - 2 + 1 /\ n + 2 - 1 = n + 1
  BY <1>2, <1>3, <1>4
<1>8. Len(EOL) = 2
  BY DEF EOL
<1>9. n \in Occurs(EOL, b)
  BY <1>6, <1>7, <1>8 DEF Occurs
<1> QED BY <1>4, <1>9

\* No line ends in a buffer of fewer than two bytes.
LEMMA NoEolInShort ==
  ASSUME NEW s \in Seq(Byte), Len(s) < 2
  PROVE  Occurs(EOL, s) = {}
<1>1. SUFFICES ASSUME NEW n \in Occurs(EOL, s) PROVE FALSE
  OBVIOUS
<1>2. n \in Nat /\ 1 <= n /\ n + 1 <= Len(s)
  BY EolInside
<1>3. Len(s) \in Nat
  BY LenProperties
<1> QED BY <1>2, <1>3

-----------------------------------------------------------------------------
(* Reading a size and counting what is written.                            *)

\* A size that was read fits in a size_t.
LEMMA SizeFits ==
  ASSUME NEW line, Extracted(line).ok
  PROVE  Extracted(line).value \in 0 .. Modulus - 1
<1> DEFINE t == After(line, Blanks(line))
           signed == t # << >> /\ t[1] = "-"
           u == IF signed THEN After(t, 1) ELSE t
           v == Number(First(u, Digits(u)))
<1>1. /\ Extracted(line).ok = (Digits(u) > 0 /\ v \in 0 .. Modulus - 1)
      /\ Extracted(line).value = IF signed THEN (Modulus - v) % Modulus ELSE v
  BY DEF Extracted
<1> HIDE DEF t, signed, u, v
<1>2. v \in 0 .. Modulus - 1 /\ Modulus \in Nat \ {0}
  BY <1>1, SizeAssumption
<1>3. (Modulus - v) % Modulus \in 0 .. Modulus - 1
  BY <1>2
<1> QED BY <1>1, <1>2, <1>3

\* processChunkData writes what is there, or what its chunk still lacks.
LEMMA ToWriteBounds ==
  ASSUME TypeOK, bytesWritten <= currentChunkSize
  PROVE  /\ ToWrite \in 0 .. Len(buffer)
         /\ bytesWritten + ToWrite <= currentChunkSize
         /\ ToWrite = Len(buffer) \/ bytesWritten + ToWrite = currentChunkSize
<1>1. Len(buffer) \in Nat /\ bytesWritten \in Nat /\ currentChunkSize \in Nat
  BY LenProperties, SizeAssumption DEF TypeOK
<1> QED BY <1>1 DEF ToWrite, Least

-----------------------------------------------------------------------------
(* Every round keeps the invariant.                                        *)

\* init(): nothing is buffered, counted or written.
LEMMA InvInit == Init => IInv
<1> SUFFICES ASSUME Init PROVE IInv
  OBVIOUS
<1>1. /\ << >> \in Seq(Byte) /\ Len(<< >>) = 0
  BY EmptySeq
<1>2. Occurs(EOL, buffer) = {}
  <2>1. buffer \in Seq(Byte) /\ Len(buffer) < 2
    BY <1>1 DEF Init
  <2> QED BY <2>1, NoEolInShort
<1>3. TypeOK
  <2>1. wire \in Seq(Byte)
    BY BodiesAssumption DEF Init
  <2>2. 0 \in 0 .. Modulus - 1
    BY SizeAssumption
  <2>3. state \in States /\ verdict \in Results
    BY DEF Init, States, Results
  <2> QED BY <1>1, <2>1, <2>2, <2>3 DEF Init, TypeOK
<1>4. Counted /\ Concluded
  BY <1>1, SizeAssumption DEF Init, Counted, Concluded
<1>5. Buffered
  BY <1>2 DEF Init, Buffered
<1> QED BY <1>1, <1>3, <1>4, <1>5, SizeAssumption DEF IInv, Init

\* Feed(): the bytes of a read move from the connection to the end of the buffer.
LEMMA FeedKeeps == IInv /\ Feed => IInv'
<1> SUFFICES ASSUME IInv, Feed PROVE IInv'
  OBVIOUS
<1> USE DEF IInv
<1>1. PICK n \in 1 .. Least(MaxRead, Len(wire)) :
        /\ sent' = sent \o First(wire, n) /\ wire' = After(wire, n)
        /\ \/ error /\ UNCHANGED <<buffer, feeding>>
           \/ ~error /\ buffer' = buffer \o First(wire, n) /\ feeding' = TRUE
  BY DEF Feed
<1>2. ~feeding /\ UNCHANGED <<error, state, counters, file, verdict, ioFailed>>
  BY DEF Feed
<1>3. n \in 0 .. Len(wire) /\ n <= MaxRead
  BY LenProperties, SizeAssumption DEF TypeOK, Least
<1> DEFINE r == First(wire, n)
<1>4. r \in Seq(Byte) /\ Len(r) = n
  BY <1>3, FirstProps DEF TypeOK
<1>5. After(wire, n) \in Seq(Byte)
  BY <1>3, AfterProps DEF TypeOK
<1> HIDE DEF r
<1>6. /\ buffer \o r \in Seq(Byte) /\ Len(buffer \o r) = Len(buffer) + Len(r)
      /\ sent \o r \in Seq(Byte)
  BY <1>4, ConcatProperties DEF TypeOK
<1>7. TypeOK'
  <2>1. buffer' \in Seq(Byte) /\ feeding' \in BOOLEAN
    BY <1>1, <1>6 DEF TypeOK, r
  <2>2. sent' \in Seq(Byte) /\ wire' \in Seq(Byte)
    BY <1>1, <1>5, <1>6 DEF r
  <2> QED BY <1>2, <2>1, <2>2 DEF TypeOK, counters
<1>8. Counted'
  BY <1>2 DEF Counted, counters
<1>9. Concluded'
  BY <1>1, <1>2 DEF Concluded, counters
<1>10. Buffered'
  <2>1. CASE error
    BY <1>2, <2>1 DEF Buffered
  <2>2. CASE ~error
    <3>1. buffer' = buffer \o r /\ feeding'
      BY <1>1, <2>2 DEF r
    <3>2. Len(buffer) \in Nat /\ MaxRead \in Nat /\ Len(r) <= MaxRead /\ Len(r) \in Nat
      BY <1>3, <1>4, LenProperties, SizeAssumption DEF TypeOK
    <3>3. ASSUME state = "ST_CHUNK_SIZE", NEW m \in Occurs(EOL, buffer')
          PROVE  Len(buffer') - (m + 1) <= MaxRead
      <4>1. Occurs(EOL, buffer) = {}
        BY <1>2, <2>2, <3>3 DEF Buffered
      <4>2. m \in Occurs(EOL, buffer \o r)
        BY <3>1, <3>3
      <4>3. Len(buffer \o r) - (m + 1) <= Len(r)
        BY <1>4, <4>1, <4>2, EolCameNow DEF TypeOK
      <4>4. m \in Nat
        BY <1>6, <4>2, EolInside
      <4> QED BY <1>6, <3>1, <3>2, <4>3, <4>4
    <3>4. state = "ST_CHUNK_DATA" => Len(buffer') <= MaxRead
      BY <1>2, <1>6, <2>2, <3>1, <3>2, EmptySeq DEF Buffered
    <3>5. state = "ST_CHUNK_END" => Len(buffer') <= MaxRead + 1
      BY <1>2, <1>6, <2>2, <3>1, <3>2 DEF Buffered
    <3> QED BY <1>2, <3>1, <3>3, <3>4, <3>5 DEF Buffered
  <2> QED BY <2>1, <2>2
<1> QED BY <1>2, <1>7, <1>8, <1>9, <1>10

\* A round that waits for more bytes changes nothing but that feed() returns.
LEMMA AwaitsKeep == IInv /\ (AwaitLine \/ AwaitEnd) => IInv'
<1> SUFFICES ASSUME IInv, AwaitLine \/ AwaitEnd PROVE IInv'
  OBVIOUS
<1> USE DEF IInv
<1>1. /\ UNCHANGED <<state, buffer, counters, file, ioFailed, connection>>
      /\ UNCHANGED <<error, verdict>>
      /\ feeding' = (buffer' # << >> /\ (state' # state \/ Len(buffer') < Len(buffer)))
  BY DEF AwaitLine, AwaitEnd, GoesOn
<1>2. feeding' = FALSE
  <2>1. Len(buffer) \in Nat /\ buffer' = buffer /\ state' = state
    BY <1>1, LenProperties DEF TypeOK
  <2>2. ~(Len(buffer') < Len(buffer))
    BY <2>1
  <2> QED BY <1>1, <2>1, <2>2
<1>3. \/ state = "ST_CHUNK_SIZE" /\ Occurs(EOL, buffer) = {}
      \/ state = "ST_CHUNK_END" /\ Len(buffer) < 2
  BY DEF AwaitLine, AwaitEnd
<1>4. TypeOK'
  BY <1>1, <1>2 DEF TypeOK, counters, connection
<1>5. Counted'
  BY <1>1 DEF Counted, counters
<1>6. Concluded'
  BY <1>1, <1>2 DEF Concluded, counters
<1>7. Buffered'
  BY <1>1, <1>2, <1>3 DEF Buffered
<1> QED BY <1>1, <1>4, <1>5, <1>6, <1>7

\* processChunkSize: the line is erased, and what follows it came with its end.
LEMMA SizeKeeps == IInv /\ ProcessChunkSize => IInv'
<1> SUFFICES ASSUME IInv, ProcessChunkSize PROVE IInv'
  OBVIOUS
<1> USE DEF IInv
<1>1. PICK n \in 1 .. Len(buffer) :
       /\ IsFound(n, EOL, buffer)
       /\ buffer' = After(buffer, n + 1)
       /\ LET size == Extracted(First(buffer, n - 1))
          IN \/ ~size.ok /\ Returns("ERROR") /\ UNCHANGED <<state, counters>>
             \/ /\ size.ok /\ currentChunkSize' = size.value
                /\ \/ /\ TooLarge(size.value)
                      /\ Returns("MAXERROR")
                      /\ UNCHANGED <<state, bytesWritten, totalBytesWritten>>
                   \/ /\ ~TooLarge(size.value)
                      /\ state' = "ST_CHUNK_DATA" /\ bytesWritten' = 0
                      /\ UNCHANGED totalBytesWritten
                      /\ GoesOn
  BY DEF ProcessChunkSize
<1>2. feeding /\ state = "ST_CHUNK_SIZE" /\ UNCHANGED <<file, ioFailed, connection>>
  BY DEF ProcessChunkSize
<1>3. ~error
  BY <1>2 DEF Concluded
<1>4. n \in Occurs(EOL, buffer)
  BY <1>1 DEF IsFound
<1>5. n + 1 \in 0 .. Len(buffer)
  BY <1>4, EolInside, LenProperties DEF TypeOK
<1>6. buffer' \in Seq(Byte) /\ Len(buffer') = Len(buffer) - (n + 1)
  BY <1>1, <1>5, AfterProps DEF TypeOK
<1>7. Len(buffer') <= MaxRead
  BY <1>2, <1>3, <1>4, <1>6 DEF Buffered
<1>8. verdict = "NEED_MORE" /\ ~ioFailed /\ totalBytesWritten <= maxBodySize
  BY <1>2, <1>3 DEF Concluded
<1> DEFINE size == Extracted(First(buffer, n - 1))
<1>9. size.ok => size.value \in 0 .. Modulus - 1
  BY SizeFits
<1> HIDE DEF size
<1>10. CASE Returns("ERROR") /\ UNCHANGED <<state, counters>>
  <2>1. feeding' = FALSE /\ error' = TRUE /\ verdict' = "ERROR"
    BY <1>8, <1>10 DEF Returns
  <2>2. TypeOK'
    BY <1>2, <1>6, <1>10, <2>1 DEF TypeOK, Results, counters, connection
  <2>3. Counted'
    BY <1>2, <1>10 DEF Counted, counters
  <2>4. Concluded' /\ Buffered'
    BY <2>1 DEF Concluded, Buffered
  <2> QED BY <1>2, <2>2, <2>3, <2>4
<1>11. CASE /\ size.ok /\ currentChunkSize' = size.value /\ Returns("MAXERROR")
            /\ UNCHANGED <<state, bytesWritten, totalBytesWritten>>
  <2>1. feeding' = FALSE /\ error' = TRUE /\ verdict' = "MAXERROR"
    BY <1>8, <1>11 DEF Returns
  <2>2. TypeOK'
    BY <1>2, <1>6, <1>9, <1>11, <2>1 DEF TypeOK, Results, connection
  <2>3. Counted'
    BY <1>2, <1>11 DEF Counted
  <2>4. Concluded' /\ Buffered'
    BY <2>1 DEF Concluded, Buffered
  <2> QED BY <1>2, <2>2, <2>3, <2>4
<1>12. CASE /\ size.ok /\ currentChunkSize' = size.value
            /\ state' = "ST_CHUNK_DATA" /\ bytesWritten' = 0
            /\ UNCHANGED totalBytesWritten /\ GoesOn
  <2>1. /\ UNCHANGED <<error, verdict>>
        /\ feeding' = (buffer' # << >>)
    BY <1>2, <1>12 DEF GoesOn
  <2>2. TypeOK'
    BY <1>2, <1>6, <1>9, <1>12, <2>1 DEF TypeOK, States, connection
  <2>3. Counted'
    BY <1>2, <1>9, <1>12, SizeAssumption DEF Counted
  <2>4. Concluded'
    BY <1>2, <1>3, <1>8, <1>12, <2>1 DEF Concluded
  <2>5. Buffered'
    BY <1>7, <1>12, <2>1 DEF Buffered
  <2> QED BY <1>2, <2>2, <2>3, <2>4, <2>5
<1> QED BY <1>1, <1>10, <1>11, <1>12 DEF size

\* processChunkData: as much is written as counted, and never past the chunk.
LEMMA DataKeeps == IInv /\ ProcessChunkData => IInv'
<1> SUFFICES ASSUME IInv, ProcessChunkData PROVE IInv'
  OBVIOUS
<1> USE DEF IInv
<1>1. /\ feeding /\ state = "ST_CHUNK_DATA"
      /\ file' = file \o First(buffer, ToWrite)
      /\ UNCHANGED <<currentChunkSize, ioFailed, connection>>
      /\ Written(ToWrite)
  BY DEF ProcessChunkData
<1>2. ~error
  BY <1>1 DEF Concluded
<1>3. verdict = "NEED_MORE" /\ ~ioFailed /\ totalBytesWritten <= maxBodySize
  BY <1>1, <1>2 DEF Concluded
<1>4. Len(buffer) <= MaxRead
  BY <1>1, <1>2 DEF Buffered
<1>5. bytesWritten <= currentChunkSize
  BY <1>1 DEF Counted
<1> DEFINE n == ToWrite
<1>6. /\ n \in 0 .. Len(buffer) /\ bytesWritten + n <= currentChunkSize
      /\ n = Len(buffer) \/ bytesWritten + n = currentChunkSize
  BY <1>5, ToWriteBounds
<1>7. /\ file' = file \o First(buffer, n)
      /\ bytesWritten' = bytesWritten + n /\ totalBytesWritten' = totalBytesWritten + n
      /\ \/ /\ totalBytesWritten' > maxBodySize
            /\ Returns("MAXERROR") /\ UNCHANGED <<buffer, state>>
         \/ /\ totalBytesWritten' <= maxBodySize
            /\ buffer' = After(buffer, n)
            /\ state' = IF bytesWritten' >= currentChunkSize THEN "ST_CHUNK_END" ELSE state
            /\ GoesOn
  BY <1>1 DEF Written
<1> HIDE DEF n
<1>8. First(buffer, n) \in Seq(Byte) /\ Len(First(buffer, n)) = n
  BY <1>6, FirstProps DEF TypeOK
<1>9. After(buffer, n) \in Seq(Byte) /\ Len(After(buffer, n)) = Len(buffer) - n
  BY <1>6, AfterProps DEF TypeOK
<1>10. file' \in Seq(Byte) /\ Len(file') = Len(file) + n
  BY <1>7, <1>8, ConcatProperties DEF TypeOK
<1>11. /\ Len(buffer) \in Nat /\ Len(file) \in Nat /\ n \in Nat
       /\ bytesWritten \in Nat /\ totalBytesWritten \in Nat /\ currentChunkSize \in Nat
       /\ maxBodySize \in Nat /\ MaxRead \in Nat
  BY <1>6, LenProperties, SizeAssumption DEF TypeOK
<1>12. totalBytesWritten = Len(file)
  BY <1>3 DEF Counted
<1>13. Counted'
  BY <1>1, <1>6, <1>7, <1>10, <1>11, <1>12 DEF Counted
<1>14. Len(file') <= maxBodySize + MaxRead
  BY <1>3, <1>4, <1>6, <1>10, <1>11, <1>12
<1>15. CASE Returns("MAXERROR") /\ UNCHANGED <<buffer, state>>
  <2>1. feeding' = FALSE /\ error' = TRUE /\ verdict' = "MAXERROR"
    BY <1>3, <1>15 DEF Returns
  <2>2. TypeOK'
    <3>1. /\ bytesWritten' \in Nat /\ totalBytesWritten' \in Nat
          /\ verdict' \in Results /\ buffer' \in Seq(Byte) /\ state' \in States
      BY <1>7, <1>11, <1>15, <2>1 DEF TypeOK, Results
    <3> QED BY <1>1, <1>10, <2>1, <3>1 DEF TypeOK, connection
  <2>3. Concluded' /\ Buffered'
    BY <2>1 DEF Concluded, Buffered
  <2> QED BY <1>13, <1>14, <2>2, <2>3, SizeAssumption
<1>16. CASE /\ totalBytesWritten' <= maxBodySize
            /\ buffer' = After(buffer, n)
            /\ state' = IF bytesWritten' >= currentChunkSize THEN "ST_CHUNK_END" ELSE state
            /\ GoesOn
  <2>1. /\ UNCHANGED <<error, verdict>>
        /\ feeding' = (buffer' # << >> /\ (state' # state \/ Len(buffer') < Len(buffer)))
    BY <1>16 DEF GoesOn
  <2>2. buffer' \in Seq(Byte) /\ Len(buffer') = Len(buffer) - n
    BY <1>9, <1>16
  <2>3. state' \in {"ST_CHUNK_DATA", "ST_CHUNK_END"}
    BY <1>1, <1>16
  <2>4. TypeOK'
    <3>1. state' \in States /\ feeding' \in BOOLEAN
      BY <2>1, <2>3 DEF States
    <3> QED BY <1>1, <1>7, <1>10, <1>11, <2>1, <2>2, <3>1 DEF TypeOK, connection
  <2>5. Concluded'
    BY <1>1, <1>2, <1>3, <1>16, <2>1, <2>3 DEF Concluded
  <2>6. Len(buffer') \in Nat /\ (buffer' = << >> <=> Len(buffer') = 0)
    BY <2>2, EmptyIffNoBytes
  <2>7. Len(buffer') <= MaxRead
    BY <1>4, <1>11, <2>2
  <2>8. CASE state' = "ST_CHUNK_DATA"
    <3>1. bytesWritten + n # currentChunkSize
      BY <1>7, <1>11, <1>16, <2>8
    <3>2. buffer' = << >> /\ feeding' = FALSE
      <4>1. n = Len(buffer)
        BY <1>6, <3>1
      <4>2. Len(buffer') = 0
        BY <1>11, <2>2, <4>1
      <4> QED BY <2>1, <2>6, <4>2
    <3>3. Buffered'
      BY <2>8, <3>2 DEF Buffered
    <3> QED BY <1>13, <1>14, <2>4, <2>5, <3>3, SizeAssumption
  <2>9. CASE state' = "ST_CHUNK_END"
    <3>1. feeding' = (buffer' # << >>)
      BY <1>1, <2>1, <2>9
    <3>2. IF feeding' THEN Len(buffer') <= MaxRead + 1 ELSE Len(buffer') < 2
      <4>1. Len(buffer') <= MaxRead + 1
        BY <1>11, <2>6, <2>7
      <4>2. ~feeding' => Len(buffer') = 0
        BY <2>6, <3>1
      <4> QED BY <4>1, <4>2
    <3>3. Buffered'
      BY <2>9, <3>2 DEF Buffered
    <3> QED BY <1>13, <1>14, <2>4, <2>5, <3>3, SizeAssumption
  <2> QED BY <2>3, <2>8, <2>9
<1> QED BY <1>7, <1>15, <1>16

\* A write() that fails or is short: what it took is in the file, and feed()
\* gives up.
LEMMA WriteFailsKeeps == IInv /\ WriteFails => IInv'
<1> SUFFICES ASSUME IInv, WriteFails PROVE IInv'
  OBVIOUS
<1> USE DEF IInv
<1>1. /\ feeding /\ state = "ST_CHUNK_DATA" /\ ioFailed' = TRUE /\ Returns("ERROR")
      /\ UNCHANGED <<state, buffer, counters, connection>>
  BY DEF WriteFails
<1>2. ~error /\ verdict = "NEED_MORE" /\ ~ioFailed /\ totalBytesWritten <= maxBodySize
  BY <1>1 DEF Concluded
<1>3. bytesWritten <= currentChunkSize /\ totalBytesWritten = Len(file)
  BY <1>1, <1>2 DEF Counted
<1>4. ToWrite \in 0 .. Len(buffer) /\ Len(buffer) <= MaxRead
  BY <1>1, <1>2, <1>3, ToWriteBounds DEF Buffered
<1>5. Len(buffer) \in Nat /\ Len(file) \in Nat
  BY LenProperties DEF TypeOK
<1>6. PICK n \in 0 .. ToWrite - 1 : file' = file \o First(buffer, n)
  BY DEF WriteFails
<1>7. n \in 0 .. Len(buffer)
  BY <1>4, <1>5, <1>6
<1>8. First(buffer, n) \in Seq(Byte) /\ Len(First(buffer, n)) = n
  BY <1>7, FirstProps DEF TypeOK
<1>9. file' \in Seq(Byte) /\ Len(file') = Len(file) + n
  BY <1>6, <1>8, ConcatProperties DEF TypeOK
<1>10. feeding' = FALSE /\ error' = TRUE /\ verdict' = "ERROR"
  BY <1>1, <1>2 DEF Returns
<1>11. TypeOK'
  BY <1>1, <1>9, <1>10 DEF TypeOK, Results, counters, connection
<1>12. Counted'
  BY <1>1 DEF Counted, counters
<1>13. Concluded' /\ Buffered'
  BY <1>10 DEF Concluded, Buffered
<1>14. Len(file') <= maxBodySize + MaxRead
  BY <1>2, <1>3, <1>4, <1>5, <1>7, <1>9, SizeAssumption
<1> QED BY <1>11, <1>12, <1>13, <1>14, SizeAssumption

\* processChunkEnd: the two bytes are erased; an empty chunk is the last.
LEMMA EndKeeps == IInv /\ ProcessChunkEnd => IInv'
<1> SUFFICES ASSUME IInv, ProcessChunkEnd PROVE IInv'
  OBVIOUS
<1> USE DEF IInv
<1>1. /\ feeding /\ state = "ST_CHUNK_END" /\ Len(buffer) >= 2
      /\ UNCHANGED <<counters, file, ioFailed, connection>>
      /\ \/ Returns("ERROR") /\ UNCHANGED <<state, buffer>>
         \/ /\ buffer' = After(buffer, 2)
            /\ \/ state' = "ST_DONE" /\ Returns("COMPLETE")
               \/ state' = "ST_CHUNK_SIZE" /\ GoesOn
  BY DEF ProcessChunkEnd
<1>2. /\ ~error /\ verdict = "NEED_MORE" /\ ~ioFailed
      /\ totalBytesWritten <= maxBodySize
  BY <1>1 DEF Concluded
<1>3. Len(buffer) \in Nat /\ Len(buffer) <= MaxRead + 1 /\ MaxRead \in Nat
  BY <1>1, <1>2, LenProperties, SizeAssumption DEF Buffered, TypeOK
<1>4. 2 \in 0 .. Len(buffer)
  BY <1>1, <1>3
<1>5. /\ After(buffer, 2) \in Seq(Byte)
      /\ Len(After(buffer, 2)) = Len(buffer) - 2
  BY <1>4, AfterProps DEF TypeOK
<1>6. CASE Returns("ERROR") /\ UNCHANGED <<state, buffer>>
  <2>1. feeding' = FALSE /\ error' = TRUE /\ verdict' = "ERROR"
    BY <1>2, <1>6 DEF Returns
  <2>2. TypeOK'
    BY <1>1, <1>6, <2>1 DEF TypeOK, Results, counters, connection
  <2>3. Counted'
    BY <1>1, <1>6 DEF Counted, counters
  <2>4. Concluded' /\ Buffered'
    BY <2>1 DEF Concluded, Buffered
  <2> QED BY <1>1, <2>2, <2>3, <2>4
<1>7. CASE buffer' = After(buffer, 2) /\ state' = "ST_DONE" /\ Returns("COMPLETE")
  <2>1. feeding' = FALSE /\ error' = FALSE /\ verdict' = "COMPLETE"
    <3>1. ("COMPLETE" \in {"ERROR", "MAXERROR"}) = FALSE
      OBVIOUS
    <3>2. feeding' = FALSE /\ error' = ("COMPLETE" \in {"ERROR", "MAXERROR"})
      BY <1>2, <1>7 DEF Returns
    <3>3. verdict' = "COMPLETE"
      BY <1>2, <1>7 DEF Returns
    <3> QED BY <3>1, <3>2, <3>3
  <2>2. TypeOK'
    BY <1>1, <1>5, <1>7, <2>1 DEF TypeOK, Results, States, counters, connection
  <2>3. Counted'
    BY <1>1, <1>7 DEF Counted, counters
  <2>4. Concluded'
    BY <1>1, <1>2, <1>7, <2>1 DEF Concluded, counters
  <2>5. Buffered'
    BY <1>7 DEF Buffered
  <2> QED BY <1>1, <2>2, <2>3, <2>4, <2>5
<1>8. CASE buffer' = After(buffer, 2) /\ state' = "ST_CHUNK_SIZE" /\ GoesOn
  <2>1. UNCHANGED <<error, verdict>> /\ feeding' = (buffer' # << >>)
    BY <1>1, <1>8 DEF GoesOn
  <2>2. buffer' \in Seq(Byte) /\ Len(buffer') = Len(buffer) - 2
    BY <1>5, <1>8
  <2>3. TypeOK'
    BY <1>1, <1>8, <2>1, <2>2 DEF TypeOK, States, counters, connection
  <2>4. Counted'
    BY <1>1, <1>8 DEF Counted, counters
  <2>5. Concluded'
    BY <1>1, <1>2, <1>8, <2>1 DEF Concluded, counters
  <2>6. Len(buffer') \in Nat /\ (buffer' = << >> <=> Len(buffer') = 0)
    BY <2>2, EmptyIffNoBytes
  <2>7. ASSUME NEW m \in Occurs(EOL, buffer')
        PROVE  Len(buffer') - (m + 1) <= MaxRead
    <3>1. m \in Nat
      BY <2>2, EolInside
    <3>2. Len(buffer') <= MaxRead - 1
      BY <1>3, <2>2
    <3> QED BY <1>3, <2>6, <3>1, <3>2
  <2>8. ~feeding' => Occurs(EOL, buffer') = {}
    <3>1. ~feeding' => Len(buffer') < 2
      <4>1. ~feeding' => Len(buffer') = 0
        BY <2>1, <2>6
      <4> QED BY <4>1
    <3> QED BY <2>2, <3>1, NoEolInShort
  <2>9. Buffered'
    BY <1>8, <2>7, <2>8 DEF Buffered
  <2> QED BY <1>1, <2>3, <2>4, <2>5, <2>9
<1> QED BY <1>1, <1>6, <1>7, <1>8

\* A body that is complete already.
LEMMA DoneKeeps == IInv /\ AlreadyDone => IInv'
<1> SUFFICES ASSUME IInv, AlreadyDone PROVE IInv'
  OBVIOUS
<1> USE DEF IInv
<1>1. /\ feeding /\ state = "ST_DONE" /\ Returns("COMPLETE")
      /\ UNCHANGED <<state, buffer, counters, file, ioFailed, connection>>
  BY DEF AlreadyDone
<1>2. ~error /\ verdict = "COMPLETE"
  BY <1>1 DEF Concluded
<1>3. feeding' = FALSE /\ error' = FALSE /\ verdict' = "COMPLETE"
  <2>1. ("COMPLETE" \in {"ERROR", "MAXERROR"}) = FALSE
    OBVIOUS
  <2>2. feeding' = FALSE /\ error' = ("COMPLETE" \in {"ERROR", "MAXERROR"})
    BY <1>1, <1>2 DEF Returns
  <2>3. verdict' = "COMPLETE"
    BY <1>1, <1>2 DEF Returns
  <2> QED BY <2>1, <2>2, <2>3
<1>4. TypeOK'
  BY <1>1, <1>3 DEF TypeOK, Results, counters, connection
<1>5. Counted'
  BY <1>1 DEF Counted, counters
<1>6. Concluded'
  BY <1>1, <1>2, <1>3 DEF Concluded, counters
<1>7. Buffered'
  BY <1>1 DEF Buffered
<1> QED BY <1>1, <1>4, <1>5, <1>6, <1>7

\* So does every step.
LEMMA InvKept == IInv /\ [Next]_vars => IInv'
<1> SUFFICES ASSUME IInv, [Next]_vars PROVE IInv'
  OBVIOUS
<1>1. CASE UNCHANGED vars
  BY <1>1 DEF vars, IInv, TypeOK, Counted, Concluded, Buffered
<1>2. CASE Next
  BY <1>2, FeedKeeps, AwaitsKeep, SizeKeeps, DataKeeps, WriteFailsKeeps, EndKeeps,
     DoneKeeps DEF Next, Loop
<1> QED BY <1>1, <1>2

\* A step leaves the file alone once feed() gave its answer: after an error the
\* flag keeps feed() from its loop, and a complete body is in ST_DONE.
LEMMA StepFinal == IInv /\ [Next]_vars => (verdict # "NEED_MORE" => file' = file)
<1> SUFFICES ASSUME IInv, [Next]_vars, verdict # "NEED_MORE" PROVE file' = file
  OBVIOUS
<1>1. ~feeding \/ state = "ST_DONE"
  BY DEF IInv, Concluded
<1>2. CASE UNCHANGED vars
  BY <1>2 DEF vars
<1>3. CASE Feed
  BY <1>3 DEF Feed
<1>4. CASE ProcessChunkData \/ WriteFails
  BY <1>1, <1>4 DEF ProcessChunkData, WriteFails
<1>5. CASE AwaitLine \/ ProcessChunkSize \/ AwaitEnd \/ ProcessChunkEnd \/ AlreadyDone
  BY <1>5 DEF AwaitLine, ProcessChunkSize, AwaitEnd, ProcessChunkEnd, AlreadyDone
<1> QED BY <1>2, <1>3, <1>4, <1>5 DEF Next, Loop

\* The parts of the invariant are the runs' properties.
LEMMA InvImplies == IInv => TypeOK /\ Counted /\ DiskBound
<1> SUFFICES ASSUME IInv PROVE TypeOK /\ Counted /\ DiskBound
  OBVIOUS
<1>1. ASSUME verdict \in {"NEED_MORE", "COMPLETE"}
      PROVE  Len(file) <= maxBodySize
  <2>1. ~error
    BY <1>1 DEF IInv, Concluded
  <2> QED BY <2>1 DEF IInv, Concluded, Counted
<1> QED BY <1>1 DEF IInv, DiskBound

-----------------------------------------------------------------------------
\* IInv holds in every state: the buffer, the first answer and the counters of
\* Chunked stay in step with the state of the parser and with the file.
THEOREM Invariant == Spec => []IInv
BY InvInit, InvKept, PTL DEF Spec

\* _totalBytesWritten is what the file holds, as long as no write() failed, and
\* _currentChunkSize - _bytesWritten, which is unsigned, never wraps around.
THEOREM ChunksCounted == Spec => []Counted
BY Invariant, InvImplies, PTL

\* No client fills the disk: a body that is not refused is within
\* client_max_body_size, and one that is refused wrote at most one read more,
\* also when the announced size wraps the total around.
THEOREM DiskBounded == Spec => []DiskBound
BY Invariant, InvImplies, PTL

\* After its answer feed() writes nothing, whatever the client still sends.
THEOREM AnswerIsFinal == Spec => Final
BY Invariant, StepFinal, PTL DEF Spec, Final
=============================================================================
