---------------------------- MODULE RequestReader ----------------------------
(***************************************************************************)
(* The requests of one keep-alive connection: requestHandler(), called by  *)
(* readRequest() with what each recv() brings, and the file an upload is   *)
(* stored in.  The fields of the Client object outlive the request they    *)
(* were set for; that is what this module is about.                        *)
(*                                                                         *)
(* Bytes arrive as items: the two halves of a request head and the bytes   *)
(* of a body, numbered.  The body parsers are those of ChunkedParser and   *)
(* MultipartParser, here reduced to what feed() answers; what follows the  *)
(* answer is ResponseSender, reduced to whether the connection is kept.    *)
(***************************************************************************)
EXTENDS Handlers

CONSTANTS
  Requests,        \* what a client may send
  MaxBodySize,     \* client_max_body_size
  MaxScriptBody,   \* M_MEGA
  MaxRead,         \* bound: items per recv()
  MaxRequests      \* bound: requests on the connection

\* te, length: the Transfer-Encoding and Content-Length headers; complete: no header
\* is empty and Host is there; multipart, named: for an upload, its Content-Type and
\* whether its path ends in a file name; size: the bytes of its body; bad: the first
\* one that makes a chunked or multipart body ill-formed, or 0.  A multipart body has its
\* last boundary at least, so that one of no bytes is never complete.
Form(methods, lineErrors) ==
  [method : methods, target : Target, lineError : lineErrors, te : {"no", "chunked", "other"},
   length : Nat \cup {None}, complete : BOOLEAN, multipart : BOOLEAN, named : BOOLEAN,
   size : Nat, bad : Nat]
RequestForm == Form(Methods, {0, 400, 414, 501, 505})
ASSUME RequestAssumption ==
  /\ Requests \subseteq RequestForm
  /\ \A r \in Requests : r.method = "POST" /\ r.multipart => r.size > 0
ASSUME BoundAssumption ==
  {MaxBodySize, MaxScriptBody, MaxRequests} \subseteq Nat /\ MaxRead \in Nat \ {0}

VARIABLES
  client,    \* the Client object
  phase,     \* what the connection waits for
  disk,      \* the files uploads left: disk[n] is that of request n
  opened,    \* the upload descriptors that are open, named by their file
  stream,    \* sent by the client and not received
  sent,      \* the requests the client sent
  answered,  \* how many were answered
  last,      \* the last answer: the request and the response of its handler
  history    \* what happened that the properties have to except

vars == <<client, phase, disk, opened, stream, sent, answered, last, history>>

NoFile == 0
HeadStart(n) == [part |-> "start", req |-> n, at |-> 0]
HeadEnd(n) == [part |-> "end", req |-> n, at |-> 0]
BodyByte(n, k) == [part |-> "body", req |-> n, at |-> k]
Message(n, r) == <<HeadStart(n), HeadEnd(n)>> \o [k \in 1 .. r.size |-> BodyByte(n, k)]
IsEnd(item) == item.part = "end"

\* Garbage: a request line that is not the client's own.
NoRequest ==
  [method |-> "none", lineError |-> 501, te |-> "no", length |-> None, complete |-> FALSE,
   target |-> [kind |-> "missing", size |-> 0, allowed |-> TRUE, redirect |-> 0, store |-> FALSE],
   multipart |-> FALSE, named |-> FALSE, size |-> 0, bad |-> 0]

NewParser == [active |-> FALSE, state |-> "feeding", fed |-> 0, limit |-> 0]
NewClient ==
  [state |-> "PARSING_HEADERS", leftover |-> << >>, request |-> NoRequest, number |-> 0,
   expected |-> 0, isChunked |-> FALSE,
   uploadFd |-> NoFile, uploadPath |-> NoFile, uploadedBytes |-> 0,
   chunked |-> NewParser, multipart |-> NewParser, uploadedFiles |-> {},
   body |-> 0, conn |-> "NEW", res |-> NewResponse]

Init ==
  /\ client = NewClient /\ phase = "reading"
  /\ disk = << >> /\ opened = {}
  /\ stream = << >> /\ sent = << >> /\ answered = 0
  /\ last = [request |-> NoRequest, number |-> 0, res |-> NewResponse]
  /\ history = {}

-----------------------------------------------------------------------------
(* requestHandler() as the set of what it may leave: the client, the files   *)
(* and descriptors, and whether the request is complete.                     *)

Leaves(c) ==
  [c |-> c, disk |-> disk, opened |-> opened, history |-> history, done |-> FALSE, script |-> FALSE]
Without(d, files) == [n \in DOMAIN d \ files |-> d[n]]
RefusedBy(s) == Refusal(s.c.request.target, s.c.body, MaxBodySize)

\* Mutants: the parts of a multipart upload stay; _uploadFd is closed and not reset.
CleanUpFileOnly(s, removed) ==
  IF s.c.uploadFd = NoFile THEN s
  ELSE [s EXCEPT !.c.uploadFd = NoFile, !.opened = @ \ {s.c.uploadFd},
                 !.disk = IF removed THEN Without(@, {s.c.uploadPath}) ELSE @,
                 !.history = IF removed THEN @ ELSE @ \cup {"not removed"}]
CleanUpForgetsFd(s, removed) ==
  IF s.c.uploadedFiles # {}
    THEN [s EXCEPT !.c.uploadedFiles = {}, !.disk = Without(@, s.c.uploadedFiles)]
  ELSE IF s.c.uploadFd = NoFile THEN s
  ELSE [s EXCEPT !.opened = @ \ {s.c.uploadFd},
                 !.disk = IF removed THEN Without(@, {s.c.uploadPath}) ELSE @,
                 !.history = IF removed THEN @ ELSE @ \cup {"not removed"}]

\* postHandler() takes an upload back when it finds a status: the parts of a
\* multipart upload, else the file at _uploadPath, which may name the directory.
CleanUp(s, removed) ==
  IF s.c.uploadedFiles # {}
    THEN [s EXCEPT !.c.uploadedFiles = {}, !.disk = Without(@, s.c.uploadedFiles)]
  ELSE IF s.c.uploadFd = NoFile THEN s
  ELSE [s EXCEPT !.c.uploadFd = NoFile, !.opened = @ \ {s.c.uploadFd},
                 !.disk = IF removed THEN Without(@, {s.c.uploadPath}) ELSE @,
                 !.history = IF removed THEN @ ELSE @ \cup {"not removed"}]

InPostHandler(s) ==
  s.c.request.method = "POST" /\ s.c.request.lineError = 0 /\ RefusedBy(s) = 0

\* An upload whose request does not get to postHandler() stays as it is.
Spoiled(s) ==
  IF (s.c.uploadFd # NoFile \/ s.c.uploadedFiles # {}) /\ ~InPostHandler(s)
    THEN [s EXCEPT !.history = @ \cup {"spoiled"}]
    ELSE s

\* Mutant: the leftover is not cleared.
AnsweredUncleared(s, removed) ==
  LET r == s.c.request
      a == processClientRequest(r.method, r.lineError, r.target, s.c.body, MaxBodySize, s.c.res, removed)
      t == IF InPostHandler(s) /\ s.c.res.status # 0 THEN CleanUp(s, removed) ELSE Spoiled(s)
  IN [t EXCEPT !.c.res = a.res, !.script = a.script, !.done = TRUE,
               !.c.state = "PARSING_HEADERS", !.c.expected = 0, !.c.isChunked = FALSE]

Answered(s, removed) ==
  LET r == s.c.request
      a == processClientRequest(r.method, r.lineError, r.target, s.c.body, MaxBodySize, s.c.res, removed)
      t == IF InPostHandler(s) /\ s.c.res.status # 0 THEN CleanUp(s, removed) ELSE Spoiled(s)
  IN [t EXCEPT !.c.res = a.res, !.script = a.script, !.done = TRUE,
               !.c.state = "PARSING_HEADERS", !.c.leftover = << >>,
               !.c.expected = 0, !.c.isChunked = FALSE]

\* Only a file that is still there can resist remove().
handlerReturn(s) ==
  {Answered(s, removed) : removed \in
     IF s.c.uploadedFiles = {} /\ s.c.uploadFd # NoFile THEN BOOLEAN ELSE {TRUE}}
Refuse(s, code) == handlerReturn([s EXCEPT !.c.res = setStatus(@, code)])

-----------------------------------------------------------------------------
(* The body of a POST *)

DiskFailed(s) == [s EXCEPT !.history = @ \cup {"disk failed"}]
Store(s, n, items) == [s EXCEPT !.disk[n] = @ \o items]
OpenUpload(s) ==
  LET n == s.c.number
  IN [s EXCEPT !.c.uploadFd = n, !.opened = @ \cup {n},
               !.disk = [k \in DOMAIN @ \cup {n} |-> IF k = n THEN << >> ELSE @[k]]]

\* Mutants: the script does not wait for the body; one byte too few is enough.
ScriptBodyAtOnce(s) ==
  LET t == [s EXCEPT !.c.body = @ + Len(s.c.leftover), !.c.leftover = << >>]
  IN IF t.c.body > MaxScriptBody THEN Refuse([t EXCEPT !.c.conn = "CLOSED"], 413)
     ELSE handlerReturn(t)
CountedShort(s) ==
  IF s.c.uploadedBytes > s.c.expected THEN Refuse(s, 400)
  ELSE IF s.c.uploadedBytes + 1 < s.c.expected THEN {s}
  ELSE handlerReturn(s)

\* The body is kept in memory for the script.
ScriptBody(s) ==
  LET t == [s EXCEPT !.c.body = @ + Len(s.c.leftover), !.c.leftover = << >>]
  IN IF t.c.body > MaxScriptBody THEN Refuse([t EXCEPT !.c.conn = "CLOSED"], 413)
     ELSE IF t.c.body >= t.c.expected THEN handlerReturn(t)
     ELSE {t}

\* After its first write _uploadPath is where the request points to.
Counted(s) ==
  IF s.c.uploadedBytes > s.c.expected THEN Refuse(s, 400)
  ELSE IF s.c.uploadedBytes < s.c.expected THEN {s}
  ELSE handlerReturn(s)

Written(s) ==
  LET size == Len(s.c.leftover)
      t == [s EXCEPT !.c.uploadPath = IF s.c.request.named THEN s.c.number ELSE NoFile]
      Takes(n) ==
        [Store(t, t.c.uploadFd, SubSeq(t.c.leftover, 1, n)) EXCEPT
           !.c.uploadedBytes = @ + n, !.c.leftover = SubSeq(@, n + 1, size),
           !.history = IF n < size THEN @ \cup {"disk failed"} ELSE @]
  IN Refuse(DiskFailed(t), 500) \cup UNION {Counted(Takes(n)) : n \in MinOf(1, size) .. size}

SingleFile(s) ==
  IF s.c.uploadFd # NoFile THEN Written(s)
  ELSE Written(OpenUpload(s)) \cup Refuse(DiskFailed(s), 500)

\* feed(): what a parser answers to n more bytes, and which of them it stores.
Feeds(parser) == parser.state = "feeding"
Verdict(r, parser) ==
  IF parser.state = "failed" THEN "ERROR"
  ELSE IF parser.state = "done" THEN "COMPLETE"
  ELSE IF r.bad # 0 /\ r.bad <= parser.fed THEN "ERROR"
  ELSE IF parser.fed > parser.limit THEN IF r.multipart THEN "ERROR" ELSE "MAXERROR"
  ELSE IF parser.fed >= r.size THEN "COMPLETE"
  ELSE "NEED_MORE"
Settled(parser, v) ==
  [parser EXCEPT !.state = CASE v = "NEED_MORE" -> "feeding" [] v = "COMPLETE" -> "done"
                             [] v \in {"ERROR", "MAXERROR"} -> "failed"]
Taken(s, parser) ==
  SubSeq(s.c.leftover, 1, MinOf(Len(s.c.leftover), s.c.request.size - parser.fed))

Concluded(s, v) ==
  CASE v = "NEED_MORE" -> {s}
    [] v = "COMPLETE" -> handlerReturn(s)
    [] v = "ERROR" -> Refuse(s, 400)
    [] v = "MAXERROR" -> Refuse(s, 413)

\* One file, whose name is made up unless the path has one.
Chunked(s) ==
  LET p == [s.c.chunked EXCEPT !.fed = @ + Len(s.c.leftover)]
      v == Verdict(s.c.request, p)
      t == IF Feeds(p) THEN Store(s, s.c.uploadFd, Taken(s, s.c.chunked)) ELSE s
      After(w) == [t EXCEPT !.c.chunked = Settled(p, w), !.c.leftover = << >>]
  IN Concluded(After(v), v) \cup IF Feeds(p) THEN Refuse(DiskFailed(After("ERROR")), 400) ELSE {}

ChunkedBody(s) ==
  LET t == [s EXCEPT !.c.uploadPath = s.c.number]
  IN IF s.c.chunked.active THEN Chunked(s)
     ELSE Refuse(DiskFailed(t), 500) \cup
          Chunked([OpenUpload(t) EXCEPT
                     !.c.chunked = [NewParser EXCEPT !.active = TRUE, !.limit = MaxBodySize]])

\* The parser opens and closes its files itself; one stands for all of a body.
Part(s) ==
  LET n == s.c.number
      old == IF n \in DOMAIN s.disk THEN s.disk[n] ELSE << >>
      new == old \o Taken(s, s.c.multipart)
  IN [s EXCEPT !.c.uploadedFiles = @ \cup {n},
               !.disk = [k \in DOMAIN @ \cup {n} |-> IF k = n THEN new ELSE @[k]]]

Multipart(s) ==
  LET p == [s.c.multipart EXCEPT !.fed = @ + Len(s.c.leftover)]
      v == Verdict(s.c.request, p)
      t == IF Feeds(p) /\ s.c.leftover # << >> THEN Part(s) ELSE s
      After(w) == [t EXCEPT !.c.multipart = Settled(p, w), !.c.leftover = << >>]
  IN Concluded(After(v), v) \cup IF Feeds(p) THEN Refuse(DiskFailed(After("ERROR")), 400) ELSE {}

MultipartBody(s) ==
  IF s.c.multipart.active THEN Multipart(s)
  ELSE Multipart([s EXCEPT !.c.multipart =
                    [NewParser EXCEPT !.active = TRUE, !.limit = s.c.expected]])

\* Mutant: a request without a body waits for one.
ReadBodyWaits(s) ==
  LET r == s.c.request
  IN IF r.method # "POST" THEN {s}
     ELSE IF r.target.store
       THEN IF s.c.isChunked THEN ChunkedBody(s)
            ELSE IF r.multipart THEN MultipartBody(s)
            ELSE SingleFile(s)
     ELSE IF r.target.kind = "script" THEN ScriptBody(s)
     ELSE handlerReturn(s)

ReadBody(s) ==
  LET r == s.c.request
  IN IF r.method # "POST" THEN handlerReturn(s)
     ELSE IF r.target.store
       THEN IF s.c.isChunked THEN ChunkedBody(s)
            ELSE IF r.multipart THEN MultipartBody(s)
            ELSE SingleFile(s)
     ELSE IF r.target.kind = "script" THEN ScriptBody(s)
     ELSE handlerReturn(s)

-----------------------------------------------------------------------------
(* The head of a request *)

\* requestErrors(): the status of the page it makes, and whether it stops there.
FramingError(r) ==
  IF r.te = "other" THEN 501
  ELSE IF r.te = "no" /\ r.length = None /\ r.method = "POST" THEN 400
  ELSE IF r.te # "no" /\ r.length # None THEN 400
  ELSE IF r.length = 0 THEN 400
  ELSE 0

\* What the bytes up to the end of a head say: the request they were sent as, if
\* they are a head and nothing more.
EndOfHead(items) == CHOOSE n \in DOMAIN items : IsEnd(items[n]) /\ \A k \in 1 .. n - 1 : ~IsEnd(items[k])
Parsed(items) ==
  LET n == EndOfHead(items)
      number == items[n].req
  IN IF n = 2 /\ items[1] = HeadStart(number) THEN sent[number]
     ELSE [sent[number] EXCEPT !.method = "none", !.lineError = 501]

ReadHead(s) ==
  LET n == EndOfHead(s.c.leftover)
      r == Parsed(s.c.leftover)
      t == [s EXCEPT !.c.request = r, !.c.number = s.c.leftover[n].req]
      u == IF r.complete THEN t ELSE [t EXCEPT !.c.res = Page(@, 400)]
      w == [u EXCEPT !.c.isChunked = IF r.te # "no" THEN r.te = "chunked" ELSE @,
                     !.c.expected = IF r.length # None THEN r.length ELSE 0]
  IN IF FramingError(r) # 0
       THEN handlerReturn([t EXCEPT !.c.res = Page(@, FramingError(r))])
     ELSE IF w.c.expected > MaxBodySize THEN Refuse(w, 413)
     ELSE IF r.method = "POST" /\ ~r.target.store /\ r.target.kind # "script" THEN Refuse(w, 403)
     ELSE ReadBody([w EXCEPT !.c.leftover = SubSeq(@, n + 1, Len(@)), !.c.state = "PARSING_BODY"])

requestHandler(items) ==
  LET s == Leaves([client EXCEPT !.leftover = @ \o items])
  IN IF client.state = "PARSING_BODY" THEN ReadBody(s)
     ELSE IF \E n \in DOMAIN s.c.leftover : IsEnd(s.c.leftover[n]) THEN ReadHead(s)
     ELSE {s}

-----------------------------------------------------------------------------
(* What arrives, and what follows the answer *)

ClientSends ==
  /\ phase # "closed" /\ Len(sent) < MaxRequests
  /\ \E r \in Requests :
       /\ sent' = Append(sent, r)
       /\ stream' = stream \o Message(Len(sent) + 1, r)
  /\ history' = IF answered < Len(sent) \/ stream # << >> THEN history \cup {"pipelined"} ELSE history
  /\ UNCHANGED <<client, phase, disk, opened, answered, last>>

\* readRequest(): the next bytes, and all that requestHandler() makes of them.
readRequest ==
  /\ phase = "reading"
  /\ \E n \in 1 .. MinOf(MaxRead, Len(stream)) :
       /\ stream' = SubSeq(stream, n + 1, Len(stream))
       /\ \E s \in requestHandler(SubSeq(stream, 1, n)) :
            /\ client' = s.c /\ disk' = s.disk /\ opened' = s.opened
            /\ history' = IF s.done /\ \E k \in DOMAIN stream' : stream'[k].req = s.c.number
                           THEN s.history \cup {"early"} ELSE s.history
            /\ phase' = IF ~s.done THEN "reading" ELSE IF s.script THEN "script" ELSE "answering"
            /\ answered' = IF s.done THEN answered + 1 ELSE answered
            /\ last' = IF s.done THEN [request |-> s.c.request, number |-> s.c.number, res |-> s.c.res]
                       ELSE last
  /\ UNCHANGED sent

\* Mutant: the upload stays open.
DisconnectKeeps ==
  /\ phase' = "closed"
  /\ UNCHANGED <<client, disk, opened, stream, sent, answered, last, history>>

\* handleDisconnect() closes the upload the client still holds.
Disconnect ==
  /\ phase' = "closed"
  /\ opened' = opened \ {client.uploadFd}
  /\ UNCHANGED <<client, disk, stream, sent, answered, last, history>>

\* The next recv() starts a new Request object; all else of the client stays.
Again(res) ==
  /\ phase' = "reading"
  /\ client' = [client EXCEPT !.res = res, !.request = NoRequest, !.body = 0]
  /\ UNCHANGED <<disk, opened, stream, sent, answered, last, history>>

\* What ResponseSender promises: an answer of headers alone does not keep the
\* connection; one that is kept left the response as it was, or a page.
Kept ==
  /\ phase = "answering" /\ client.conn # "CLOSED"
  /\ client.res.stream \/ client.res.body # << >>
  /\ \/ Again(client.res)
     \/ client.res.stream /\ \E code \in {416, 500} : Again([Page(client.res, code) EXCEPT !.stream = FALSE])
NotKept == phase = "answering" /\ Disconnect

ScriptAnswered == phase = "script" /\ Again(NewResponse)
LaunchFails == phase = "script" /\ \E code \in {403, 500} : Again(Page(client.res, code))

\* The client goes away, or its time is over.
PeerLeaves == phase \in {"reading", "script"} /\ Disconnect

Next ==
  \/ ClientSends \/ readRequest
  \/ Kept \/ NotKept \/ ScriptAnswered \/ LaunchFails \/ PeerLeaves
Spec == Init /\ [][Next]_vars

\* poll() reports a socket with bytes to read, and answers end (ResponseSender).
\* Weak fairness of the four steps, written out: none of them is ever in the way of
\* another, and readRequest alone shortens the stream.
Received == Len(stream') < Len(stream)
Concludes == phase' # phase /\ UNCHANGED stream
FairSpec ==
  /\ Spec
  /\ []<>(phase # "reading" \/ stream = << >>) \/ []<><<Received>>_vars
  /\ []<>(phase \notin {"answering", "script"}) \/ []<><<Concludes>>_vars

-----------------------------------------------------------------------------
(* Properties *)

Uploads(r) == r.method = "POST" /\ r.target.store
BodyLength(r) == IF r.length # None THEN MinOf(r.length, r.size) ELSE r.size
Content(n) == [k \in 1 .. BodyLength(sent[n]) |-> BodyByte(n, k)]
FirstUpload(n) == \A k \in 1 .. n - 1 : ~Uploads(sent[k])

\* TypeOK: the values the variables take.
Item == [part : {"start", "end", "body"}, req : Nat \ {0}, at : Nat]
SomeRequest == RequestForm \cup Form({"none"}, {501})
Events == {"early", "pipelined", "spoiled", "not removed", "disk failed"}
ParserForm == [active : BOOLEAN, state : {"feeding", "done", "failed"}, fed : Nat, limit : Nat]
ClientForm ==
  [state : {"PARSING_HEADERS", "PARSING_BODY"}, leftover : Seq(Item), request : SomeRequest,
   number : Nat, expected : Nat, isChunked : BOOLEAN,
   uploadFd : Nat, uploadPath : Nat, uploadedBytes : Nat,
   chunked : ParserForm, multipart : ParserForm, uploadedFiles : SUBSET Nat,
   body : Nat, conn : {"NEW", "CLOSED"}, res : ResponseForm]
Files(d) == DOMAIN d \subseteq Nat /\ d \in [DOMAIN d -> Seq(Item)]
TypeOK ==
  /\ client \in ClientForm
  /\ phase \in {"reading", "script", "answering", "closed"}
  /\ Files(disk) /\ opened \subseteq Nat
  /\ stream \in Seq(Item) /\ sent \in Seq(Requests) /\ answered \in Nat
  /\ last \in [request : SomeRequest, number : Nat, res : ResponseForm]
  /\ history \subseteq Events

\* StoredWhole: the first upload of a connection that is answered 201 is on disk,
\* all of it and nothing else.
StoredWhole ==
  last.res.status = 201 /\ last.number # 0 /\ FirstUpload(last.number) /\ "pipelined" \notin history
    => last.number \in DOMAIN disk /\ disk[last.number] = Content(last.number)

\* RefusedGone: of an upload that was not answered 201 nothing is left, provided
\* postHandler() was reached and _uploadPath named the file.
RefusedGone ==
  LET r == last.request
  IN Uploads(r) /\ last.res.status # 201 /\ (r.named \/ r.multipart \/ r.te = "chunked")
       => history \cap {"spoiled", "not removed"} # {} \/ last.number \notin DOMAIN disk

\* NotMixed: no file has bytes of another request.
NotMixed ==
  history \cap {"spoiled", "pipelined"} = {} =>
    \A n \in DOMAIN disk : \A k \in DOMAIN disk[n] : disk[n][k] = BodyByte(n, k)

\* UploadClosed: one upload descriptor is open at most, it is the client's, and none
\* outlives the connection.
UploadClosed ==
  "spoiled" \notin history =>
    opened = IF phase = "closed" THEN {} ELSE {client.uploadFd} \ {NoFile}

\* InStep: a request is handled as the client sent it unless an earlier one was
\* answered before its body was there, or two were sent without waiting.
InStep ==
  history \cap {"early", "pipelined"} = {} /\ last.number # 0
    => last.request = sent[last.number] /\ last.number = answered

\* ScriptInput: a script is started with the whole body, and never with more than
\* the limit.
ScriptInput ==
  phase = "script" /\ client.request.method = "POST" /\ client.res.status = 0
    => client.body \in last.request.length .. MaxScriptBody

\* EachAnswered: a client that waits for each answer gets one, or the connection ends.
EachAnswered ==
  answered < Len(sent) ~> answered = Len(sent) \/ phase = "closed" \/ history \cap {"pipelined", "disk failed"} # {}

-----------------------------------------------------------------------------
(* What makes them inductive.  Wire is what was received and not used,      *)
(* followed by what was not received.                                       *)
Wire == client.leftover \o stream
InBody(c) == c.state = "PARSING_BODY"
Feeding(parser) == parser.active /\ Feeds(parser)

\* Heads come in the order they were sent in, and a file is only made for the
\* request that is read.
Heads(w, n) ==
  /\ \A k \in DOMAIN w : IsEnd(w[k]) => n < w[k].req /\ w[k].req <= Len(sent)
  /\ \A j, k \in DOMAIN w : j < k /\ IsEnd(w[j]) /\ IsEnd(w[k]) => w[j].req < w[k].req
Numbers ==
  /\ last.number <= client.number /\ client.number <= Len(sent)
  /\ InBody(client) => last.number < client.number /\ phase \in {"reading", "closed"}
  /\ DOMAIN disk \subseteq 1 .. client.number
  /\ Heads(Wire, client.number)

\* Which way a body is read, and that the parser it is read with was begun for it.
Reads(c) ==
  LET r == c.request
  IN /\ r.method = "POST" /\ (r.target.store \/ r.target.kind = "script")
     /\ FramingError(r) = 0
     /\ c.isChunked <=> r.te = "chunked"
     /\ r.length # None => c.expected = r.length
     /\ Feeding(c.chunked) <=> r.target.store /\ c.isChunked
     /\ Feeding(c.multipart) <=> r.target.store /\ ~c.isChunked /\ r.multipart
ReadsNothing(c) == ~c.isChunked /\ ~Feeding(c.chunked) /\ ~Feeding(c.multipart)
Bodies == IF InBody(client) THEN Reads(client) ELSE ReadsNothing(client)

\* A response without a status has nothing to send, unless it has the page of a
\* redirection whose code setStatus() does not know: then the answer to an upload
\* keeps the connection, and with it the open file.
Known(r) == r.target.redirect \in StatusEntries \cup {0}
KnownRedirects == \A r \in Requests : Known(r)
Clean == KnownRedirects =>
  Known(client.request) /\ (client.res.status = 0 => client.res.body = << >> /\ ~client.res.stream)
Unspoiled(h) == KnownRedirects /\ "spoiled" \notin h

\* The file of the request that is read is the client's open one, or a part.
NoUpload(c) == c.uploadFd = NoFile /\ c.uploadedFiles = {}
Stores(c, files) == c.number \in files => c.uploadFd = c.number \/ c.number \in c.uploadedFiles
Owns(c, files) ==
  LET r == c.request
  IN /\ c.uploadFd \in {NoFile, c.number} /\ c.uploadedFiles \subseteq {c.number}
     /\ c.uploadFd # NoFile => c.number \in files /\ c.uploadedFiles = {}
     /\ c.uploadFd # NoFile <=> r.target.store /\ (c.isChunked \/ ~r.multipart)
     /\ c.uploadFd # NoFile /\ (r.named \/ c.isChunked) => c.uploadPath = c.number
     /\ c.uploadedFiles # {} => r.target.store
Uploading ==
  /\ InBody(client) => Stores(client, DOMAIN disk)
  /\ Unspoiled(history) /\ InBody(client) => Owns(client, DOMAIN disk)
  /\ Unspoiled(history) /\ ~InBody(client) /\ phase # "closed" =>
       NoUpload(client) \/ (phase = "answering" /\ ~client.res.stream /\ client.res.body = << >>)

\* What is left of a body that was not read comes before the next message.
Bytes(w, n) == \A k \in DOMAIN w : w[k].part = "body" /\ w[k].req = n
Residue(w) == /\ \A k \in DOMAIN w : w[k].part = "body"
              /\ "early" \notin history => w = << >>
\* Wire is the last message sent, or what is left of it.
Aligned ==
  "pipelined" \notin history =>
    LET n == Len(sent)
    IN IF InBody(client)
         THEN /\ n = client.number /\ answered = n - 1 /\ client.request = sent[n]
              /\ Bytes(Wire, n)
       ELSE \/ Residue(Wire) /\ answered = n
            \/ /\ n > 0 /\ answered = n - 1
               /\ \E j \in 0 .. Len(Wire) :
                    Residue(SubSeq(Wire, 1, j)) /\ SubSeq(Wire, j + 1, Len(Wire)) = Message(n, sent[n])

\* The bytes that are stored and those still to come are the body, in order.
Stored(files, n) == IF n \in DOMAIN files THEN files[n] ELSE << >>
Numbered(n, items) == \A k \in DOMAIN items : items[k] = BodyByte(n, k)
InSequence ==
  Unspoiled(history) /\ "pipelined" \notin history /\ InBody(client) /\ client.request.target.store =>
    LET all == Stored(disk, client.number) \o Wire
    IN Numbered(client.number, all) /\ Len(all) = client.request.size

\* Until the first upload nothing is counted, and no parser was begun.
Pristine(h) ==
  /\ KnownRedirects /\ \A r \in Requests : r.target.redirect # 201
  /\ "pipelined" \notin h
Untouched(c) ==
  /\ ~c.chunked.active /\ ~c.multipart.active /\ c.uploadedBytes = 0 /\ NoUpload(c)
  /\ c.res.status # 201
\* The bytes that are counted are those on disk.
Counts(c, n) ==
  /\ c.res.status # 201
  /\ IF c.isChunked THEN c.chunked.fed = n
     ELSE IF c.request.multipart THEN c.multipart.fed = n /\ c.multipart.limit = c.expected
     ELSE c.uploadedBytes = n
Counting ==
  Pristine(history) =>
    /\ FirstUpload(client.number + 1) => Untouched(client) /\ "spoiled" \notin history
    /\ FirstUpload(client.number) /\ InBody(client) /\ client.request.target.store =>
         Counts(client, Len(Stored(disk, client.number))) /\ "spoiled" \notin history

\* An upload that is answered 201 ends the connection, with its file whole.
Ended ==
  Pristine(history) /\ last.number # 0 /\ last.res.status = 201 /\ FirstUpload(last.number) =>
    /\ last.number = client.number /\ phase \in {"answering", "closed"}
    /\ ~client.res.stream /\ client.res.body = << >>
    /\ last.number \in DOMAIN disk /\ disk[last.number] = Content(last.number)

IInv ==
  /\ TypeOK /\ Numbers /\ Bodies /\ Uploading /\ Clean /\ Aligned /\ InSequence
  /\ Counting /\ Ended
  /\ InStep /\ ScriptInput
  /\ KnownRedirects => UploadClosed /\ RefusedGone /\ NotMixed
=============================================================================
