--------------------------- MODULE ResponseSender ----------------------------
(***************************************************************************)
(* The answers of one keep-alive connection: the response the handlers     *)
(* prepare, sendResponse(), which turns it into bytes a block at a time,   *)
(* and the send loop of the response part of runCoreLoop().                *)
(*                                                                         *)
(* One action is one POLLOUT of the connection.  A byte of a file is its   *)
(* place in the file; the headers and an in-memory page are one item each, *)
(* so that a send() can end between them.  Files do not change while they  *)
(* are sent.  What a script prints is left to EventLoop.                   *)
(***************************************************************************)
EXTENDS Handlers, FiniteSets, SequencesExt

CONSTANTS
  Requests,        \* what a client may ask
  Chunk,           \* SRV_SEND_BUFFER, larger than the headers
  MaxBodySize,
  MaxRequests      \* bound: requests on the connection

ASSUME ChunkAssumption == Chunk \in Nat /\ Chunk > 2 /\ MaxBodySize \in Nat /\ MaxRequests \in Nat

\* lineError: the status of requestLineErrors(), refused: the one requestHandler()
\* noted while it read the request, or 0; range: whether there is a Range header;
\* first, last: its numbers, if any.
RequestForm ==
  [method : Methods, target : Target, lineError : {0, 400, 414, 501, 505},
   refused : {0, 400, 403, 413, 500, 501}, body : Nat,
   range : {"no", "bytes", "malformed"}, first : Nat \cup {None}, last : Int]
ASSUME RequestAssumption == Requests \subseteq RequestForm

VARIABLES
  res,                         \* Client::_response
  buff, resStatus, fd, conn,   \* Client::_sendInfo
  phase,     \* what the connection waits for
  peer,      \* whether the client still reads
  asked,     \* the request that is answered, and
  began,     \* the response when its handler returned,
  fresh,     \* whether that was the first use of the Response object,
  wire,      \* what the client received of the answer
  count      \* the requests so far

sendInfo == <<buff, resStatus, fd, conn>>
history == <<asked, began, fresh, wire, count>>
vars == <<res, sendInfo, phase, peer, history>>

Phases == {"idle", "script", "sending", "closed"}
Headers(r) == [part |-> "headers", code |-> r.status, length |-> r.length]
Body(r) == [part |-> "body", pieces |-> r.body]
FileByte(n) == [part |-> "file", at |-> n]
IsFile(item) == item.part = "file"
Item ==
  [part : {"headers"}, code : StatusEntries \cup {0}, length : Nat \cup {None}]
    \cup [part : {"body"}, pieces : Seq(Nat)] \cup [part : {"file"}, at : Nat]

\* With an in-memory body "Content-Length" is printed for it too.
generate(r) ==
  IF ~r.stream /\ r.body # << >> THEN <<Headers(r), Body(r)>> ELSE <<Headers(r)>>

\* The constructor of Client leaves connectionState as it finds it.
Init ==
  /\ res = NewResponse
  /\ buff = << >> /\ resStatus = "CS_NEW" /\ fd = "none" /\ conn \in {"NEW", "CLOSED"}
  /\ phase = "idle" /\ peer = "here"
  /\ asked \in Requests /\ began = NewResponse /\ fresh = TRUE /\ wire = << >> /\ count = 0

-----------------------------------------------------------------------------
(* Requests *)

\* A request that was refused while it was read is handled all the same.
Noted(r) ==
  CASE r.refused = 0 -> res
    [] r.refused \in {400, 501} -> Page(res, r.refused)
    [] r.refused \notin {0, 400, 501} -> setStatus(res, r.refused)

Handled(r, removed) ==
  processClientRequest(r.method, r.lineError, r.target, r.body, MaxBodySize, Noted(r), removed)

Request ==
  /\ phase = "idle" /\ peer = "here" /\ count < MaxRequests
  /\ \E r \in Requests, removed \in BOOLEAN :
       LET a == Handled(r, removed)
       IN /\ asked' = r
          /\ res' = a.res /\ began' = a.res
          /\ phase' = IF a.script THEN "script" ELSE "sending"
  /\ resStatus' = "CS_START_SEND"
  /\ fresh' = (res = NewResponse)
  /\ wire' = << >>
  /\ count' = count + 1
  /\ UNCHANGED <<buff, fd, conn, peer>>

\* readChild() appends the output to the body the Response already has.
ScriptResponse(succeeds, silent) ==
  IF ~succeeds THEN Page(res, 500)
  ELSE [setStatus(res, 200) EXCEPT !.body = IF silent THEN @ ELSE Append(@, Output)]

\* The answer of the script is all sent, in as many blocks as it takes, and the
\* Response starts anew.
ScriptAnswered ==
  /\ phase = "script" /\ peer = "here"
  /\ \E succeeds, silent \in BOOLEAN : wire' = generate(ScriptResponse(succeeds, silent))
  /\ res' = NewResponse
  /\ phase' = "idle"
  /\ UNCHANGED <<sendInfo, peer, asked, began, fresh, count>>

\* No script runs.  CGI_errorResponse() sends once, and what the socket does not
\* take is lost.
LaunchFails ==
  /\ phase = "script" /\ peer = "here"
  /\ \E code \in {403, 500} :
       /\ res' = Page(res, code)
       /\ \E n \in 1 .. Len(generate(res')) : wire' = SubSeq(generate(res'), 1, n)
  /\ phase' = "idle"
  /\ UNCHANGED <<sendInfo, peer, asked, began, fresh, count>>

\* handleDisconnect() of a client that left its script running.
ScriptAbandoned ==
  /\ phase = "script" /\ peer = "gone"
  /\ res' = Page(res, 504)
  /\ phase' = "closed"
  /\ UNCHANGED <<sendInfo, peer, history>>

-----------------------------------------------------------------------------
(* sendResponse(): the response and the send state after the call *)

Now == [res |-> res, buff |-> buff, resStatus |-> resStatus, fd |-> fd, conn |-> conn]
Starting == resStatus = "CS_START_SEND"
HeadersOnly == res.flag /\ asked.range = "no"
Window ==
  IF asked.range = "bytes" THEN parseRangeHeader(asked.first, asked.last, res.size) ELSE NoRange

Begun ==
  IF ~Starting THEN Now
  ELSE [Now EXCEPT
          !.buff = generate(res),
          !.resStatus = IF HeadersOnly THEN "CS_WRITING_DONE" ELSE "CS_WRITING",
          !.conn = IF HeadersOnly THEN "CLOSED" ELSE @]

\* Mutant: the status of the file is kept.
FailedOldStatus(p, code) ==
  LET r == [p.res EXCEPT !.body = <<code>>, !.stream = FALSE, !.length = None]
  IN [p EXCEPT !.res = r, !.buff = generate(r), !.resStatus = "CS_WRITING_DONE", !.fd = "none"]

\* The error page takes the place of all that was still to be sent.
Failed(p, code) ==
  LET r == [Page(p.res, code) EXCEPT !.stream = FALSE, !.length = None]
  IN [p EXCEPT !.res = r, !.buff = generate(r), !.resStatus = "CS_WRITING_DONE", !.fd = "none"]

\* Mutant: the first byte of the range is announced and not sought.
RangedFromStart(p, w) ==
  LET r == [p.res EXCEPT !.status = 206, !.length = w.end - w.start + 1]
  IN [p EXCEPT !.res = r, !.buff = generate(r)]

\* The end of the range is announced; nothing stops the reads there.
Ranged(p, w) ==
  LET r == [p.res EXCEPT !.status = 206, !.length = w.end - w.start + 1]
  IN [p EXCEPT !.res = [r EXCEPT !.offset = w.start], !.buff = generate(r)]

AtEnd(p) == [p EXCEPT !.fd = "none", !.resStatus = "CS_WRITING_DONE"]

ReadBlock(p, n) ==
  [p EXCEPT !.buff = @ \o [k \in 1 .. n |-> FileByte(p.res.offset + k - 1)],
            !.res.offset = @ + n, !.res.sent = @ + n]

\* Mutant: a short block ends the file.
FilledShort(p) ==
  LET q == [p EXCEPT !.fd = "open"]
      n == MinOf(Chunk, p.res.size - p.res.offset)
  IN IF Len(p.buff) >= Chunk THEN {q}
     ELSE {Failed(p, 500), IF n < Chunk THEN AtEnd(ReadBlock(q, n)) ELSE ReadBlock(q, n)}

\* A buffer that is still full is sent first.  Where open(), lseek() or read()
\* may fail there is a second outcome.
Filled(p) ==
  LET q == [p EXCEPT !.fd = "open"]
      n == MinOf(Chunk, p.res.size - p.res.offset)
  IN IF Len(p.buff) >= Chunk THEN {q}
     ELSE {Failed(p, 500), IF n = 0 THEN AtEnd(q) ELSE ReadBlock(q, n)}

Streamed(p) ==
  IF p.res.sent # 0 \/ asked.range = "no" THEN Filled(p)
  ELSE IF Window.valid THEN Filled(Ranged(p, Window))
  ELSE {Failed(p, 416)}

\* Mutant: the answer counts as written when it is in the buffer.
InMemoryAtOnce(p) == [p EXCEPT !.resStatus = "CS_WRITING_DONE"]

\* The first copy was put in the buffer by Begun: this is a second one.
InMemory(p) ==
  IF p.buff # << >> THEN p
  ELSE [p EXCEPT !.resStatus = "CS_WRITING_DONE",
                 !.buff = IF p.res.body # << >> THEN generate(p.res) ELSE << >>]

sendResponse ==
  IF Starting /\ HeadersOnly THEN {Begun}
  ELSE IF res.stream THEN Streamed(Begun)
  ELSE {InMemory(Begun)}

-----------------------------------------------------------------------------
(* The response part of the loop *)

\* Mutant: the client's state is not set back to CS_NEW.
FinishUnmoved(p) ==
  /\ buff' = << >> /\ fd' = "none" /\ resStatus' = p.resStatus
  /\ phase' = IF p.conn = "CLOSED" THEN "closed" ELSE phase
  /\ conn' = p.conn

\* What the socket did not take of the last block is dropped.
Finish(p) ==
  /\ buff' = << >> /\ fd' = "none" /\ resStatus' = p.resStatus
  /\ phase' = IF p.conn = "CLOSED" THEN "closed" ELSE "idle"
  /\ conn' = IF p.conn # "CLOSED" /\ p.fd # "none" THEN "NEW" ELSE p.conn

Keep(p, rest) ==
  /\ buff' = rest /\ fd' = p.fd /\ resStatus' = p.resStatus /\ conn' = p.conn
  /\ UNCHANGED phase

SendSome ==
  /\ phase = "sending" /\ resStatus # "CS_WRITING_DONE" /\ peer = "here"
  /\ \E p \in sendResponse : \E n \in 1 .. Len(p.buff) :
       /\ res' = p.res
       /\ wire' = wire \o SubSeq(p.buff, 1, n)
       /\ IF p.resStatus = "CS_WRITING_DONE"
            THEN Finish(p)
            ELSE Keep(p, SubSeq(p.buff, n + 1, Len(p.buff)))
  /\ UNCHANGED <<peer, asked, began, fresh, count>>

\* send() of an empty buffer returns 0, which the loop takes for the end.
SendsNothing ==
  /\ phase = "sending" /\ resStatus # "CS_WRITING_DONE"
  /\ \E p \in sendResponse :
       /\ p.buff = << >>
       /\ res' = p.res
       /\ resStatus' = p.resStatus /\ conn' = p.conn
  /\ buff' = << >> /\ fd' = "none"
  /\ phase' = "closed"
  /\ UNCHANGED <<peer, history>>

SendFails ==
  /\ phase = "sending" /\ resStatus # "CS_WRITING_DONE" /\ peer = "gone"
  /\ \E p \in sendResponse :
       /\ p.buff # << >>
       /\ res' = p.res
       /\ Keep(p, p.buff)
  /\ UNCHANGED <<peer, history>>

\* After a failed send() of the last block.
Abandon ==
  /\ phase = "sending" /\ resStatus = "CS_WRITING_DONE"
  /\ Finish(Now)
  /\ UNCHANGED <<res, peer, history>>

PeerLeaves ==
  /\ peer = "here" /\ phase # "closed"
  /\ peer' = "gone"
  /\ UNCHANGED <<res, sendInfo, phase, history>>

PeerClosed ==
  /\ phase = "idle" /\ peer = "gone"
  /\ phase' = "closed"
  /\ UNCHANGED <<res, sendInfo, peer, history>>

Next ==
  \/ Request \/ ScriptAnswered \/ LaunchFails \/ ScriptAbandoned
  \/ SendSome \/ SendsNothing \/ SendFails \/ Abandon
  \/ PeerLeaves \/ PeerClosed

Spec == Init /\ [][Next]_vars

\* A socket reported writable takes at least a byte; poll() reports it again
\* until the answer is over.
FairSpec == Spec /\ WF_vars(SendSome) /\ WF_vars(SendsNothing)

-----------------------------------------------------------------------------
(* Properties *)

Received == {k \in 1 .. Len(wire) : IsFile(wire[k])}             \* the bytes of a file
Streaming == began.stream /\ began.offset = 0 /\ began.sent = 0   \* not a stale one
Start == IF Window.valid THEN Window.start ELSE 0
Over == phase \in {"idle", "closed"} /\ wire # << >>

\* TypeOK: the values the variables take; a file is read from somewhere in it on,
\* and what was sent of it lies before the place where the next read starts.
TypeOK ==
  /\ res \in ResponseForm /\ res.offset <= res.size /\ res.sent <= res.offset
  /\ began \in ResponseForm
  /\ resStatus \in {"CS_NEW", "CS_START_SEND", "CS_WRITING", "CS_WRITING_DONE"}
  /\ fd \in {"none", "open"} /\ conn \in {"NEW", "CLOSED"}
  /\ phase \in Phases /\ peer \in {"here", "gone"}
  /\ asked \in Requests /\ fresh \in BOOLEAN /\ count \in 0 .. MaxRequests
  /\ wire \in Seq(Item) /\ buff \in Seq(Item) /\ Len(buff) < 2 * Chunk

\* InOrder: however the sends are cut, the bytes of a file come to the client
\* right after the headers, from the start of the window on, none twice and none
\* left out in between, and a range that is announced lies in the file.
Ordered(t) ==
  \A k \in 1 .. Len(t) : IsFile(t[k]) =>
    /\ k > 1 /\ \A j \in 2 .. k : t[j] = FileByte(Start + j - 2)
    /\ t[1].code = 206 => Start + t[1].length <= res.size
InOrder == Ordered(wire)

\* BoundedLoss: a file that was read to its end lacks less than a block at the
\* client when the loop is done with it.  (The socket may leave a part of the
\* last send(), and the loop drops it.)
BoundedLoss ==
  Over /\ peer = "here" /\ Streaming /\ res.stream /\ ~HeadersOnly
    => res.size - Start - Cardinality(Received) < Chunk - 1

\* WholePage: an answer with a body in memory has been received whole when the
\* connection goes on to the next request (what follows are copies of it).
WholePage ==
  [][phase = "sending" /\ phase' = "idle" /\ peer = "here" /\ began.body # << >> /\ ~began.stream
       => IsPrefix(generate(began), wire') /\ IsPrefix(wire', generate(began) \o generate(began))]_vars

\* FirstFits: in the first answer of a Response object headers and body belong
\* together: the page is that of the status, and file bytes come under 200 or 206.
\* (Not so when a request is refused and handled all the same, nor for a redirection
\* with a code that setStatus() does not know.)
Fits(t) ==
  \A k \in 2 .. Len(t) :
    /\ t[k].part = "body" => t[k].pieces \in {<<t[k - 1].code>>, <<Output>>}
    /\ IsFile(t[k]) => t[1].code \in {200, 206}
FirstAnswer == fresh /\ asked.refused = 0 /\ asked.target.redirect \in StatusEntries \cup {0}
FirstFits == FirstAnswer => Fits(wire)

\* BareHeadersClose: an answer of headers alone (201, 204) never keeps the
\* connection.  RequestReader relies on it.
BareHeadersClose ==
  [][phase = "sending" /\ phase' = "idle" => began.stream \/ began.body # << >>]_vars

\* AnswerEnds: the answer of a client that reads comes to an end.
AnswerEnds == (phase = "sending") ~> (phase # "sending" \/ peer = "gone")

-----------------------------------------------------------------------------
(* What makes them inductive.  A Response that kept _stream from an earlier *)
(* answer has read its file to the end, so that nothing of it comes again;  *)
(* while a file is sent, what the client has and what is in the buffer are  *)
(* together the headers and the bytes up to the offset of the next read;    *)
(* while a page is sent they are the page.                                  *)
Streams(t, offset) ==
  /\ t # << >> /\ t[1].part = "headers" /\ t[1].code \in {200, 206}
  /\ t[1].code = 206 => Start + t[1].length <= res.size
  /\ Len(t) - 1 = offset - Start
  /\ \A j \in 2 .. Len(t) : t[j] = FileByte(Start + j - 2)

Idles == phase \in {"idle", "script"} =>
  buff = << >> /\ (res.stream => res.offset = res.size)
Scripts == phase = "script" => wire = << >> /\ res = began /\ (FirstAnswer => res.body = << >>)
Starts == phase = "sending" /\ resStatus = "CS_START_SEND" =>
  /\ wire = << >> /\ buff = << >> /\ res = began
  /\ res.stream => \/ res.offset = res.size
                   \/ res.offset = 0 /\ res.sent = 0 /\ res.status = 200
Writes == phase = "sending" /\ resStatus = "CS_WRITING" =>
  IF res.stream THEN began.stream /\ res.sent # 0 /\ Streams(wire \o buff, res.offset)
                ELSE res = began /\ wire \o buff = generate(began)
Ends == phase = "sending" /\ resStatus = "CS_WRITING_DONE" =>
  /\ peer = "gone"
  /\ conn # "CLOSED" => /\ res.stream => res.offset = res.size
                        /\ began.stream \/ began.body # << >>
Begins ==
  /\ phase = "sending" => resStatus # "CS_NEW"
  /\ FirstAnswer => began.body \in {<< >>, <<began.status>>}
SendInv == Idles /\ Scripts /\ Starts /\ Writes /\ Ends /\ Begins
IInv == TypeOK /\ SendInv /\ InOrder /\ BoundedLoss /\ FirstFits
=============================================================================
