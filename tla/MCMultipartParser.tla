-------------------------- MODULE MCMultipartParser --------------------------
(* Bodies for MultipartParser, and what one means when read in one piece.   *)
EXTENDS MultipartParser

MCByte == {"CR", "LF", "-", "b", "h", "a"}
MCBoundary == <<"-", "-", "b">>

Part(data) == boundary \o EOL \o <<"h">> \o EOL \o EOL \o data \o EOL
End == boundary \o Dashes
Payloads == {<< >>} \cup SeqOf({"a", "CR", "LF", "-"}, 3)
WellFormed ==
  {Part(d) \o End : d \in Payloads}
    \cup {Part(d) \o Part(e) \o End : d, e \in {<< >>, <<"a">>, <<"CR">>, <<"CR", "LF", "-">>}}
Damaged(b) ==
  {RemoveAt(b, n) : n \in 1 .. Len(b)}
    \cup {[b EXCEPT ![n] = c] : n \in 1 .. Len(b), c \in {"CR", "-", "b"}}
MCBodies ==
  WellFormed \cup Damaged(Part(<<"a">>) \o End) \cup Damaged(Part(<< >>) \o Part(<<"a">>) \o End)
    \cup {<<"a", "CR", "LF">> \o Part(<<"a">>) \o End,        \* a preamble
          Part(<<"a">> \o boundary \o <<"a">>) \o End,       \* the boundary in the data
          Part(<<"a">>) \o End \o EOL}                       \* bytes behind the end
MCFewBodies == {Part(<<"a">>) \o End}

\* The part's body starts at the first blank line after the boundary and goes on
\* to the next boundary; what follows a boundary says whether there is another.
RECURSIVE Meaning(_, _)
PartMeaning(body, parts) ==
  LET h == CHOOSE n \in 1 .. Len(body) : IsFound(n, EOL \o EOL, body)
      rest == After(body, h + 3)
      d == CHOOSE n \in 1 .. Len(rest) : IsFound(n, boundary, rest)
  IN IF Occurs(EOL \o EOL, body) = {} THEN [verdict |-> "NEED_MORE", parts |-> parts]
     ELSE IF Occurs(boundary, rest) = {}
            THEN [verdict |-> "NEED_MORE", parts |-> Append(parts, rest)]
     ELSE IF ~EndsWith(First(rest, d - 1), EOL)
            THEN [verdict |-> "ERROR", parts |-> Append(parts, rest)]
     ELSE Meaning(After(rest, d - 1), Append(parts, First(rest, d - 3)))
Meaning(body, parts) ==
  LET n == CHOOSE n \in 1 .. Len(body) : IsFound(n, boundary, body)
      rest == After(body, n + Len(boundary) - 1)
  IN IF Occurs(boundary, body) = {} THEN [verdict |-> "NEED_MORE", parts |-> parts]
     ELSE IF First(rest, 2) = Dashes THEN [verdict |-> "COMPLETE", parts |-> parts]
     ELSE IF First(rest, 2) = EOL THEN PartMeaning(After(rest, 2), parts)
     ELSE [verdict |-> "ERROR", parts |-> parts]

\* An upload that is accepted is stored: one file per part, each with the bytes
\* of its part, however the body was cut into reads.
Stored == verdict = "COMPLETE" => files = Meaning(sent, << >>).parts

\* The verdict is that of the bytes received read in one piece, and what was
\* written belongs to its parts, unless a read ended where the parser cannot
\* resume, the body is longer than announced, or the disk failed.
AsOneRead ==
  ~feeding /\ ~badCut /\ ~ioFailed /\ Len(sent) <= maxBodySize =>
    LET m == Meaning(sent, << >>)
    IN /\ verdict = m.verdict
       /\ Len(files) = Len(m.parts)
       /\ \A n \in 1 .. Len(files) : IsPrefix(files[n], m.parts[n])

\* Cut badly, longer than announced or not: a well-formed body gets an answer
\* once it arrived.
Answered == (sent \o wire \in WellFormed) ~> (verdict # "NEED_MORE")

\* The request is seen to be finished when its last byte is read.
SeenFinished ==
  ~feeding /\ ~ioFailed /\ sent \in WellFormed /\ Len(sent) = maxBodySize
    => verdict = "COMPLETE"
=============================================================================
