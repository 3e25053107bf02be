---------------------------- MODULE ChunkedParser ----------------------------
(***************************************************************************)
(* ChunkedParser: the body of a chunked upload, decoded to a file as the   *)
(* reads of its connection bring it.  The parser is modelled from init()   *)
(* on, with the file just opened; each action is one round of the loop of  *)
(* feed().  A byte is a digit, CR, LF, the minus sign, or one that ends a  *)
(* number; numbers are read in base Cardinality(Digit), 16 in the code.    *)
(***************************************************************************)
EXTENDS Integers, Sequences, FiniteSets, SequencesExt

CONSTANTS
  Digit, DigitValue,   \* the digits, and what each is worth
  Other,               \* bytes that end a number
  Bodies,              \* what a client may send
  Modulus,             \* 2^w: size_t wraps around
  maxBodySize,
  MaxRead              \* bound: bytes per recv()

Byte == Digit \cup Other \cup {"CR", "LF", "-"}
Base == Cardinality(Digit)

ASSUME BodiesAssumption == Bodies \subseteq Seq(Byte)
ASSUME SizeAssumption ==
  /\ Modulus \in Nat \ {0} /\ MaxRead \in Nat \ {0}
  /\ maxBodySize \in 0 .. Modulus - 1

VARIABLES
  error, state, buffer, currentChunkSize, bytesWritten, totalBytesWritten,
  file,        \* what the output descriptor was given
  feeding,     \* inside feed()
  verdict,     \* the first result of feed() other than NEED_MORE
  ioFailed,    \* a write() failed or was short
  sent, wire   \* the body: what was received of it, and the rest

vars == <<error, state, buffer, currentChunkSize, bytesWritten, totalBytesWritten,
          file, feeding, verdict, ioFailed, sent, wire>>
counters == <<currentChunkSize, bytesWritten, totalBytesWritten>>
connection == <<sent, wire>>

States == {"ST_CHUNK_SIZE", "ST_CHUNK_DATA", "ST_CHUNK_END", "ST_DONE"}
Results == {"NEED_MORE", "COMPLETE", "ERROR", "MAXERROR"}
EOL == <<"CR", "LF">>
First(s, n) == SubSeq(s, 1, n)
After(s, n) == SubSeq(s, n + 1, Len(s))
Least(a, b) == IF a <= b THEN a ELSE b

\* std::string::find: the positions at which p occurs.
Occurs(p, s) == {n \in 1 .. Len(s) - Len(p) + 1 : SubSeq(s, n, n + Len(p) - 1) = p}
IsFound(n, p, s) == n \in Occurs(p, s) /\ \A m \in Occurs(p, s) : n <= m

(* ss >> std::hex >> size: blanks are skipped, a minus sign negates modulo *)
(* 2^w, and extraction fails without a digit or on overflow.               *)
Blanks(s) == CHOOSE n \in 0 .. Len(s) :
  /\ \A m \in 1 .. n : s[m] \in {"CR", "LF"}
  /\ n = Len(s) \/ s[n + 1] \notin {"CR", "LF"}
Digits(s) == CHOOSE n \in 0 .. Len(s) :
  /\ \A m \in 1 .. n : s[m] \in Digit
  /\ n = Len(s) \/ s[n + 1] \notin Digit
Number(s) == FoldLeft(LAMBDA v, d : v * Base + DigitValue[d], 0, s)
Extracted(line) ==
  LET t == After(line, Blanks(line))
      signed == t # << >> /\ t[1] = "-"
      u == IF signed THEN After(t, 1) ELSE t
      v == Number(First(u, Digits(u)))
  IN [ok |-> Digits(u) > 0 /\ v \in 0 .. Modulus - 1,
      value |-> IF signed THEN (Modulus - v) % Modulus ELSE v]

Init ==
  /\ error = FALSE /\ state = "ST_CHUNK_SIZE" /\ buffer = << >>
  /\ currentChunkSize = 0 /\ bytesWritten = 0 /\ totalBytesWritten = 0
  /\ file = << >> /\ feeding = FALSE /\ verdict = "NEED_MORE" /\ ioFailed = FALSE
  /\ sent = << >> /\ wire \in Bodies

-----------------------------------------------------------------------------
\* How a round ends: feed() returns r, or goes on if the round changed the
\* state or consumed bytes and bytes are left, and else returns NEED_MORE.
Returns(r) ==
  /\ feeding' = FALSE
  /\ error' = (r \in {"ERROR", "MAXERROR"})
  /\ verdict' = IF verdict = "NEED_MORE" THEN r ELSE verdict
\* Mutant: a round that only changed the state is not followed by another.
GoesOnConsumed ==
  /\ feeding' = (buffer' # << >> /\ Len(buffer') < Len(buffer))
  /\ UNCHANGED <<error, verdict>>
GoesOn ==
  /\ feeding' = (buffer' # << >> /\ (state' # state \/ Len(buffer') < Len(buffer)))
  /\ UNCHANGED <<error, verdict>>

\* recv(), and feed() up to its loop.
\* Mutant: _error is not looked at.
FeedAlways ==
  /\ ~feeding
  /\ \E n \in 1 .. Least(MaxRead, Len(wire)) :
       /\ sent' = sent \o First(wire, n) /\ wire' = After(wire, n)
       /\ buffer' = buffer \o First(wire, n) /\ feeding' = TRUE
  /\ UNCHANGED <<error, state, counters, file, verdict, ioFailed>>
Feed ==
  /\ ~feeding
  /\ \E n \in 1 .. Least(MaxRead, Len(wire)) :
       /\ sent' = sent \o First(wire, n) /\ wire' = After(wire, n)
       /\ \/ error /\ UNCHANGED <<buffer, feeding>>
          \/ ~error /\ buffer' = buffer \o First(wire, n) /\ feeding' = TRUE
  /\ UNCHANGED <<error, state, counters, file, verdict, ioFailed>>

AwaitLine ==       \* processChunkSize: no CRLF yet
  /\ feeding /\ state = "ST_CHUNK_SIZE" /\ Occurs(EOL, buffer) = {}
  /\ UNCHANGED <<state, buffer, counters, file, ioFailed, connection>>
  /\ GoesOn
\* Mutant: what is written already is not counted.
TooLargeAlone(size) == size > maxBodySize
TooLarge(size) == (totalBytesWritten + size) % Modulus > maxBodySize
ProcessChunkSize ==
  /\ feeding /\ state = "ST_CHUNK_SIZE"
  /\ \E n \in 1 .. Len(buffer) :
       /\ IsFound(n, EOL, buffer)
       /\ buffer' = After(buffer, n + 1)
       /\ LET size == Extracted(First(buffer, n - 1))
          IN \/ ~size.ok /\ Returns("ERROR") /\ UNCHANGED <<state, counters>>
             \/ /\ size.ok /\ currentChunkSize' = size.value
                /\ \/ /\ TooLarge(size.value)
                      /\ Returns("MAXERROR")
                      /\ UNCHANGED <<state, bytesWritten, totalBytesWritten>>
                   \/ /\ ~TooLarge(size.value)
                      /\ state' = "ST_CHUNK_DATA" /\ bytesWritten' = 0
                      /\ UNCHANGED totalBytesWritten
                      /\ GoesOn
  /\ UNCHANGED <<file, ioFailed, connection>>

\* Mutant: the rest of the buffer is written.
ToWriteAll == Len(buffer)
ToWrite == Least(Len(buffer), currentChunkSize - bytesWritten)
\* Mutant: the total is not compared with the limit after a write.
WrittenUnchecked(n) ==
  /\ bytesWritten' = bytesWritten + n /\ totalBytesWritten' = totalBytesWritten + n
  /\ buffer' = After(buffer, n)
  /\ state' = IF bytesWritten' >= currentChunkSize THEN "ST_CHUNK_END" ELSE state
  /\ GoesOn
Written(n) ==
  /\ bytesWritten' = bytesWritten + n /\ totalBytesWritten' = totalBytesWritten + n
  /\ \/ /\ totalBytesWritten' > maxBodySize
        /\ Returns("MAXERROR") /\ UNCHANGED <<buffer, state>>
     \/ /\ totalBytesWritten' <= maxBodySize
        /\ buffer' = After(buffer, n)
        /\ state' = IF bytesWritten' >= currentChunkSize THEN "ST_CHUNK_END" ELSE state
        /\ GoesOn
ProcessChunkData ==
  /\ feeding /\ state = "ST_CHUNK_DATA"
  /\ file' = file \o First(buffer, ToWrite)
  /\ Written(ToWrite)
  /\ UNCHANGED <<currentChunkSize, ioFailed, connection>>
WriteFails ==      \* write() fails or is short
  /\ feeding /\ state = "ST_CHUNK_DATA" /\ ToWrite > 0
  /\ \E n \in 0 .. ToWrite - 1 : file' = file \o First(buffer, n)
  /\ ioFailed' = TRUE
  /\ Returns("ERROR")
  /\ UNCHANGED <<state, buffer, counters, connection>>

AwaitEnd ==        \* processChunkEnd: fewer than two bytes
  /\ feeding /\ state = "ST_CHUNK_END" /\ Len(buffer) < 2
  /\ UNCHANGED <<state, buffer, counters, file, ioFailed, connection>>
  /\ GoesOn
IsEnd == First(buffer, 2) = EOL
ProcessChunkEnd ==
  /\ feeding /\ state = "ST_CHUNK_END" /\ Len(buffer) >= 2
  /\ \/ ~IsEnd /\ Returns("ERROR") /\ UNCHANGED <<state, buffer>>
     \/ /\ IsEnd /\ buffer' = After(buffer, 2)
        /\ \/ currentChunkSize = 0 /\ state' = "ST_DONE" /\ Returns("COMPLETE")
           \/ currentChunkSize # 0 /\ state' = "ST_CHUNK_SIZE" /\ GoesOn
  /\ UNCHANGED <<counters, file, ioFailed, connection>>

AlreadyDone ==
  /\ feeding /\ state = "ST_DONE"
  /\ Returns("COMPLETE")
  /\ UNCHANGED <<state, buffer, counters, file, ioFailed, connection>>

Loop == AwaitLine \/ ProcessChunkSize \/ ProcessChunkData \/ AwaitEnd \/ ProcessChunkEnd
          \/ AlreadyDone
Next == Feed \/ Loop \/ WriteFails
Spec == Init /\ [][Next]_vars
FairSpec == Spec /\ WF_vars(Feed) /\ WF_vars(Loop \/ WriteFails)

-----------------------------------------------------------------------------
TypeOK ==
  /\ error \in BOOLEAN /\ feeding \in BOOLEAN /\ ioFailed \in BOOLEAN
  /\ state \in States /\ verdict \in Results
  /\ buffer \in Seq(Byte) /\ file \in Seq(Byte) /\ sent \in Seq(Byte) /\ wire \in Seq(Byte)
  /\ currentChunkSize \in 0 .. Modulus - 1 /\ bytesWritten \in Nat /\ totalBytesWritten \in Nat

\* The counters are those of the file, and a chunk is never overrun: the
\* unsigned _currentChunkSize - _bytesWritten does not wrap around.
Counted ==
  /\ state \in {"ST_CHUNK_DATA", "ST_CHUNK_END"} => bytesWritten <= currentChunkSize
  /\ ~ioFailed => totalBytesWritten = Len(file)

\* The file of a request that is not refused is within client_max_body_size,
\* and a refused one wrote at most one read more, even when the announced size
\* wraps around and passes processChunkSize.
DiskBound ==
  /\ verdict \in {"NEED_MORE", "COMPLETE"} => Len(file) <= maxBodySize
  /\ Len(file) <= maxBodySize + MaxRead

\* Once feed() gave its answer no later call writes anything.
Final == [][verdict # "NEED_MORE" => file' = file]_vars

-----------------------------------------------------------------------------
(* What makes them inductive: the first answer and the state agree, and so *)
(* do the buffer and the state.  A line may have come in many reads, but   *)
(* what follows its end came with it, so that no more than one read is     *)
(* ever there to be written.                                               *)
Concluded ==
  /\ error => ~feeding /\ verdict \in {"ERROR", "MAXERROR"}
  /\ ~error => /\ ~ioFailed /\ totalBytesWritten <= maxBodySize
               /\ verdict = IF state = "ST_DONE" THEN "COMPLETE" ELSE "NEED_MORE"
Buffered ==
  ~error =>
    /\ state = "ST_CHUNK_SIZE" =>
         IF feeding THEN \A n \in Occurs(EOL, buffer) : Len(buffer) - (n + 1) <= MaxRead
                    ELSE Occurs(EOL, buffer) = {}
    /\ state = "ST_CHUNK_DATA" => IF feeding THEN Len(buffer) <= MaxRead ELSE buffer = << >>
    /\ state = "ST_CHUNK_END" => IF feeding THEN Len(buffer) <= MaxRead + 1 ELSE Len(buffer) < 2
IInv == TypeOK /\ Counted /\ Concluded /\ Buffered /\ Len(file) <= maxBodySize + MaxRead
=============================================================================
