--------------------------- MODULE MultipartParser ---------------------------
(***************************************************************************)
(* MultipartParser: the parts of a multipart/form-data upload, each stored *)
(* in a file of its own as the reads of its connection bring them.         *)
(* Modelled from init() on; each action is one round of the loop of        *)
(* feed().  File names are left out: parts are numbered as they come.      *)
(***************************************************************************)
EXTENDS Integers, Sequences, FiniteSets, SequencesExt

CONSTANTS
  Byte,
  boundary,      \* _boundary: what the header gave, after "--"
  Bodies,        \* what a client may send
  MaxRead        \* bound: bytes per recv()

ASSUME BoundaryAssumption == boundary \in Seq(Byte) /\ boundary # << >>
ASSUME BytesAssumption == {"CR", "LF", "-"} \subseteq Byte /\ Bodies \subseteq Seq(Byte)
ASSUME ReadAssumption == MaxRead \in Nat \ {0}

VARIABLES
  error, state, buffer, bytesReceived, maxBodySize,
  files,       \* what was written to the file of each part
  open,        \* the parts whose descriptor is open; _curFd is the last one
  feeding,     \* inside feed()
  verdict,     \* the first result of feed() other than NEED_MORE
  ioFailed,    \* an open() or write() failed
  sent, wire,  \* the body: what was received of it, and the rest
  badCut       \* a read ended where the parser cannot resume

vars == <<error, state, buffer, bytesReceived, maxBodySize, files, open, feeding,
          verdict, ioFailed, sent, wire, badCut>>
connection == <<sent, wire, badCut, bytesReceived, maxBodySize>>

States == {"ST_EXPECT_BOUNDARY", "ST_PART_HEADERS", "ST_PART_BODY", "ST_DONE"}
Results == {"NEED_MORE", "COMPLETE", "ERROR"}
EOL == <<"CR", "LF">>
Dashes == <<"-", "-">>
First(s, n) == SubSeq(s, 1, IF n <= Len(s) THEN n ELSE Len(s))
After(s, n) == SubSeq(s, n + 1, Len(s))
EndsWith(s, p) == Len(s) >= Len(p) /\ SubSeq(s, Len(s) - Len(p) + 1, Len(s)) = p
Occurs(p, s) == {n \in 1 .. Len(s) - Len(p) + 1 : SubSeq(s, n, n + Len(p) - 1) = p}
IsFound(n, p, s) == n \in Occurs(p, s) /\ \A m \in Occurs(p, s) : n <= m

\* Behind a boundary two more bytes are wanted at once; before one, CR and LF
\* must still be in the buffer when its last byte comes.
BadCut(s) ==
  \/ EndsWith(s, boundary)
  \/ s # << >> /\ EndsWith(First(s, Len(s) - 1), boundary)
  \/ EndsWith(s, EOL \o First(boundary, Len(boundary) - 1))

Init ==
  /\ error = FALSE /\ state = "ST_EXPECT_BOUNDARY" /\ buffer = << >> /\ bytesReceived = 0
  /\ files = << >> /\ open = {} /\ feeding = FALSE /\ verdict = "NEED_MORE"
  /\ ioFailed = FALSE /\ sent = << >> /\ badCut = FALSE
  /\ wire \in Bodies
  /\ maxBodySize \in {Len(wire), Len(wire) - 1}     \* the declared Content-Length

-----------------------------------------------------------------------------
Returns(r) ==
  /\ feeding' = FALSE
  /\ error' = (r = "ERROR")
  /\ verdict' = IF verdict = "NEED_MORE" THEN r ELSE verdict
\* Mutant: feed() has no loop.
GoesOnNever ==
  /\ feeding' = FALSE
  /\ UNCHANGED <<error, verdict>>
GoesOn ==
  /\ feeding' = (buffer' # << >> /\ (state' # state \/ Len(buffer') < Len(buffer)))
  /\ UNCHANGED <<error, verdict>>

\* recv(), and feed() up to its loop.
Receive(n) ==
  /\ sent' = sent \o First(wire, n) /\ wire' = After(wire, n)
  /\ badCut' = (badCut \/ BadCut(sent'))
  /\ UNCHANGED <<state, files, open, ioFailed, maxBodySize>>
Feed ==
  /\ ~feeding
  /\ \E n \in 1 .. Len(wire) :
       /\ n <= MaxRead
       /\ Receive(n)
       /\ \/ error /\ UNCHANGED <<error, buffer, bytesReceived, feeding, verdict>>
          \/ /\ ~error
             /\ buffer' = buffer \o First(wire, n) /\ bytesReceived' = bytesReceived + n
             /\ \/ bytesReceived' > maxBodySize /\ Returns("ERROR")
                \/ /\ bytesReceived' <= maxBodySize
                   /\ feeding' = TRUE /\ UNCHANGED <<error, verdict>>

\* closeCurrentFile
\* Mutant: the file stays open.
StaysOpen == UNCHANGED open
closeCurrentFile == open' = open \ {Len(files)}
AwaitBoundary ==
  /\ feeding /\ state = "ST_EXPECT_BOUNDARY" /\ Occurs(boundary, buffer) = {}
  /\ UNCHANGED <<state, buffer, files, open, ioFailed, connection>>
  /\ GoesOn
ProcessBoundary ==
  /\ feeding /\ state = "ST_EXPECT_BOUNDARY"
  /\ \E n \in 1 .. Len(buffer) :
       /\ IsFound(n, boundary, buffer)
       /\ LET rest == After(buffer, n + Len(boundary) - 1)
          IN \/ /\ First(rest, 2) = Dashes
                /\ buffer' = rest /\ state' = "ST_DONE"
                /\ closeCurrentFile
                /\ Returns("COMPLETE")
             \/ /\ First(rest, 2) \notin {Dashes, EOL}
                /\ buffer' = rest /\ UNCHANGED <<state, open>>
                /\ Returns("ERROR")
             \/ /\ First(rest, 2) = EOL
                /\ buffer' = After(rest, 2) /\ state' = "ST_PART_HEADERS"
                /\ closeCurrentFile
                /\ GoesOn
  /\ UNCHANGED <<files, ioFailed, connection>>

AwaitHeaders ==
  /\ feeding /\ state = "ST_PART_HEADERS" /\ Occurs(EOL \o EOL, buffer) = {}
  /\ UNCHANGED <<state, buffer, files, open, ioFailed, connection>>
  /\ GoesOn
ProcessPartHeaders ==     \* openNewFile succeeds
  /\ feeding /\ state = "ST_PART_HEADERS"
  /\ \E n \in 1 .. Len(buffer) :
       /\ IsFound(n, EOL \o EOL, buffer)
       /\ buffer' = After(buffer, n + 3)
  /\ files' = Append(files, << >>) /\ open' = open \cup {Len(files) + 1}
  /\ state' = "ST_PART_BODY"
  /\ GoesOn
  /\ UNCHANGED <<ioFailed, connection>>
OpenFails ==
  /\ feeding /\ state = "ST_PART_HEADERS"
  /\ \E n \in 1 .. Len(buffer) :
       IsFound(n, EOL \o EOL, buffer) /\ buffer' = After(buffer, n + 3)
  /\ ioFailed' = TRUE
  /\ Returns("ERROR")
  /\ UNCHANGED <<state, files, open, connection>>

\* write() to _curFd.
Written(bytes) == [files EXCEPT ![Len(files)] = @ \o bytes]
\* processPartBody without a boundary: all but its length may be written.
\* Mutants: everything is written; nothing is.
SafeAll == Len(buffer)
SafeNone == 0
Safe == IF Len(buffer) > Len(boundary) THEN Len(buffer) - Len(boundary) ELSE 0
WriteSafe ==
  /\ feeding /\ state = "ST_PART_BODY" /\ Occurs(boundary, buffer) = {}
  /\ files' = Written(First(buffer, Safe)) /\ buffer' = After(buffer, Safe)
  /\ UNCHANGED <<state, open, ioFailed, connection>>
  /\ GoesOn
\* Mutant: CR and LF are written with the part.
DataWithEOL(n) == First(buffer, n - 1)
DataBefore(n) == First(buffer, n - 3)
PartEnds ==
  /\ feeding /\ state = "ST_PART_BODY"
  /\ \E n \in 1 .. Len(buffer) :
       /\ IsFound(n, boundary, buffer)
       /\ \/ /\ EndsWith(First(buffer, n - 1), EOL)
             /\ files' = Written(DataBefore(n))
             /\ buffer' = After(buffer, n - 1) /\ state' = "ST_EXPECT_BOUNDARY"
             /\ GoesOn
          \/ /\ ~EndsWith(First(buffer, n - 1), EOL)
             /\ Returns("ERROR")
             /\ UNCHANGED <<files, buffer, state>>
  /\ UNCHANGED <<open, ioFailed, connection>>
WriteFails ==
  /\ feeding /\ state = "ST_PART_BODY"
  /\ \E n \in 0 .. Len(buffer) :
       /\ IF Occurs(boundary, buffer) = {} THEN n < Safe
          ELSE \E m \in 3 .. Len(buffer) :
                 /\ IsFound(m, boundary, buffer)
                 /\ EndsWith(First(buffer, m - 1), EOL) /\ n < m - 3
       /\ files' = Written(First(buffer, n))
  /\ ioFailed' = TRUE
  /\ Returns("ERROR")
  /\ UNCHANGED <<state, buffer, open, connection>>

AlreadyDone ==
  /\ feeding /\ state = "ST_DONE"
  /\ Returns("COMPLETE")
  /\ UNCHANGED <<state, buffer, files, open, ioFailed, connection>>

Loop == AwaitBoundary \/ ProcessBoundary \/ AwaitHeaders \/ ProcessPartHeaders
          \/ WriteSafe \/ PartEnds \/ AlreadyDone
Next == Feed \/ Loop \/ OpenFails \/ WriteFails
Spec == Init /\ [][Next]_vars
FairSpec == Spec /\ WF_vars(Feed) /\ WF_vars(Loop \/ OpenFails \/ WriteFails)

-----------------------------------------------------------------------------
TypeOK ==
  /\ error \in BOOLEAN /\ feeding \in BOOLEAN /\ ioFailed \in BOOLEAN /\ badCut \in BOOLEAN
  /\ state \in States /\ verdict \in Results
  /\ buffer \in Seq(Byte) /\ sent \in Seq(Byte) /\ wire \in Seq(Byte)
  /\ files \in Seq(Seq(Byte)) /\ open \subseteq 1 .. Len(files)
  /\ bytesReceived \in Nat /\ maxBodySize \in Int

\* At most the file of the current part is open, and none once the upload is
\* complete: openNewFile overwrites _curFd and never leaks what it held.
OneFileOpen ==
  /\ open \subseteq {Len(files)}
  /\ verdict = "COMPLETE" => open = {}

\* Between two reads a part's body keeps no more than a boundary in memory.
HoldsBack ==
  ~feeding /\ ~error /\ state = "ST_PART_BODY" => Len(buffer) <= Len(boundary)

-----------------------------------------------------------------------------
(* What makes them inductive: no descriptor is open where openNewFile may   *)
(* overwrite _curFd, a part's body has a file to go to, and COMPLETE was    *)
(* answered only by a parser that is done.                                  *)
Opened ==
  /\ state \in {"ST_PART_HEADERS", "ST_DONE"} => open = {}
  /\ state = "ST_PART_BODY" => Len(files) > 0
  /\ verdict = "COMPLETE" => state = "ST_DONE"
IInv == TypeOK /\ OneFileOpen /\ HoldsBack /\ Opened
=============================================================================
