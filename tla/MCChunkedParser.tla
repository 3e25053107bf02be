--------------------------- MODULE MCChunkedParser ---------------------------
(* Bodies for ChunkedParser, and what a chunked body means when it is read  *)
(* in one piece.                                                            *)
EXTENDS ChunkedParser

MCDigit == {"0", "1"}
MCDigitValue == [d \in MCDigit |-> IF d = "1" THEN 1 ELSE 0]
MCOther == {"a", ";"}

Numeral == [n \in 0 .. 3 |->
  CASE n = 0 -> <<"0">> [] n = 1 -> <<"1">> [] n = 2 -> <<"1", "0">> [] n = 3 -> <<"1", "1">>]
Payload == [n \in 0 .. 3 |-> First(<<"a", "CR", "1">>, n)]
Chunk(n) == Numeral[n] \o EOL \o Payload[n] \o EOL
WellFormed ==
  {Chunk(0)} \cup {Chunk(m) \o Chunk(0) : m \in 1 .. 3}
    \cup {Chunk(1) \o Chunk(m) \o Chunk(0) : m \in 1 .. 3}
Damaged(b) ==
  {RemoveAt(b, n) : n \in 1 .. Len(b)}
    \cup {[b EXCEPT ![n] = c] : n \in 1 .. Len(b), c \in {"CR", "LF", "1", ";", "-"}}
    \cup {InsertAt(b, n, "1") : n \in 1 .. Len(b)}
\* After one byte, a size that wraps the total around.
Wrapping == Chunk(1) \o <<"-", "1">> \o EOL \o <<"a", "a", "a", "a", "a", "a">>
Trailed == {Chunk(m) \o Chunk(0) \o <<"a", "a">> : m \in 1 .. 3}   \* bytes behind the end
MCBodies ==
  WellFormed \cup Trailed \cup UNION {Damaged(b) : b \in WellFormed}
    \cup {Wrapping, <<"1", "0", "0", "0">> \o EOL, Chunk(1) \o <<"1", "1", "1">> \o EOL \o <<"a", "a", "a", "a", "a">>}

RECURSIVE Meaning(_, _)
Meaning(body, data) ==
  IF Occurs(EOL, body) = {} THEN [verdict |-> "NEED_MORE", data |-> data]
  ELSE LET n == CHOOSE k \in 1 .. Len(body) : IsFound(k, EOL, body)
           size == Extracted(First(body, n - 1))
           rest == After(body, n + 1)
           more == data \o First(rest, Least(size.value, Len(rest)))
       IN CASE ~size.ok -> [verdict |-> "ERROR", data |-> data]
            [] size.ok /\ Len(data) + size.value > maxBodySize ->
                 [verdict |-> "MAXERROR", data |-> data]
            [] OTHER ->
                 IF Len(rest) < size.value + 2 THEN [verdict |-> "NEED_MORE", data |-> more]
                 ELSE IF SubSeq(rest, size.value + 1, size.value + 2) # EOL
                        THEN [verdict |-> "ERROR", data |-> more]
                 ELSE IF size.value = 0 THEN [verdict |-> "COMPLETE", data |-> data]
                 ELSE Meaning(After(rest, size.value + 2), more)

\* However the body is cut into reads, the verdict and the file are those of the
\* bytes received so far read in one piece, unless a write fails or a size wraps
\* the total around; and then the client is refused.
AsOneRead ==
  ~feeding =>
    LET m == Meaning(sent, << >>)
    IN \/ ioFailed /\ verdict = "ERROR"
       \/ verdict = m.verdict /\ file = m.data
       \/ m.verdict = "MAXERROR" /\ Len(m.data) + currentChunkSize >= Modulus
            /\ verdict \in {"MAXERROR", "NEED_MORE"} /\ IsPrefix(m.data, file)

\* A body whose every byte arrived and that is well formed gets its answer.
Answered == (sent \o wire \in WellFormed) ~> (verdict # "NEED_MORE")
=============================================================================
