------------------------------ MODULE Handlers -------------------------------
(***************************************************************************)
(* What the method handlers write into the Response object of a client.    *)
(* The object is one per connection and only a finished CGI request        *)
(* replaces it, so every handler is a function from the response left by   *)
(* the last request to the next one.                                       *)
(*                                                                         *)
(* A target is what a path leads to, as getLocation(), getSource() and     *)
(* lstat() find it:                                                        *)
(*   file, media   a file; one whose type is audio or video                *)
(*   script        a file that the location runs as a CGI script           *)
(*   index         a directory (or "/") with an index file of that size    *)
(*   homeless      "/" with index names of which no file exists            *)
(*   listed        a directory with autoindex                              *)
(*   plain, bare   another directory, its path with and without final "/"  *)
(*   missing       nothing                                                 *)
(* and what its location says: whether the method is allowed, whether it   *)
(* redirects (0, or the code it is configured with), whether it stores     *)
(* uploads.                                                                *)
(***************************************************************************)
EXTENDS Integers, Sequences

None == -1          \* a header or a number that is not there
Output == 0         \* what a script printed, in a body
Methods == {"GET", "POST", "DELETE"}
TargetKinds == {"file", "media", "script", "index", "homeless", "listed", "plain", "bare", "missing"}
Target == [kind : TargetKinds, size : Nat, allowed : BOOLEAN, redirect : Nat, store : BOOLEAN]
StatusEntries == {200, 201, 204, 206, 301, 400, 403, 404, 405, 409, 413, 414, 416, 500, 501, 504, 505}

NewResponse ==
  [status |-> 0,
   body |-> << >>,      \* _body: a page, named by its status, or a script's output
   length |-> None,     \* _headers["Content-Length"]
   stream |-> FALSE, size |-> 0, offset |-> 0, sent |-> 0,
   flag |-> FALSE]

ResponseForm ==
  [status : StatusEntries \cup {0}, body : Seq(Nat), length : Nat \cup {None},
   stream : BOOLEAN, size : Nat, offset : Nat, sent : Nat, flag : BOOLEAN]

\* Page: getSrvErrorPage(), with the configured, the default or the built-in page.
setStatus(res, code) == IF code \in StatusEntries THEN [res EXCEPT !.status = code] ELSE res
Page(res, code) == [setStatus(res, code) EXCEPT !.body = <<code>>]
genResponse(res, size) ==
  [res EXCEPT !.status = 200, !.length = size, !.stream = TRUE, !.size = size,
              !.sent = 0, !.offset = 0]
redirectionResponse(res, code) == Page(res, code)
listDirectory(res) == Page(res, 200)

\* validateRequest(): the status it answers with, or 0.  A body that is within
\* the limit hides the location's methods and its redirection.
Refusal(t, bodyLength, maxBodySize) ==
  IF bodyLength > 0 THEN IF bodyLength > maxBodySize THEN 413 ELSE 0
  ELSE IF ~t.allowed THEN 405
  ELSE t.redirect

\* The answers of a handler: a response, or the decision to run the script.
Answers(res) == [script |-> FALSE, res |-> res]
Runs(res) == [script |-> TRUE, res |-> res]

getHandler(t, res) ==
  CASE t.kind = "script" -> Runs(res)
    [] t.kind = "file" -> Answers(genResponse(res, t.size))
    [] t.kind = "media" -> Answers(genResponse([res EXCEPT !.flag = TRUE], t.size))
    [] t.kind = "index" -> Answers(genResponse(res, t.size))
    [] t.kind = "listed" -> Answers(listDirectory(res))
    [] t.kind = "homeless" -> Answers(res)
    [] t.kind = "bare" -> Answers(redirectionResponse(res, 301))
    [] t.kind = "plain" -> Answers(Page(res, 403))
    [] t.kind = "missing" -> Answers(Page(res, 404))

deleteHandler(t, res, removed) ==
  CASE t.kind = "script" -> Runs(res)
    [] t.kind \in {"file", "media"} ->
         Answers(IF removed THEN [res EXCEPT !.status = 204] ELSE Page(res, 500))
    [] t.kind = "bare" -> Answers(Page(res, 409))
    [] t.kind \in {"index", "homeless", "listed", "plain"} -> Answers(Page(res, 403))
    [] t.kind = "missing" -> Answers(Page(res, 404))

\* A status that is already there counts as a refusal, whoever left it.
postHandler(t, res, removed) ==
  CASE res.status # 0 -> Answers(Page(res, IF removed THEN res.status ELSE 500))
    [] res.status = 0 /\ t.store -> Answers([res EXCEPT !.status = 201])
    [] res.status = 0 /\ ~t.store ->
         CASE t.kind = "script" -> Runs(res)
           [] t.kind = "bare" -> Answers(redirectionResponse(res, 301))
           [] t.kind = "index" -> Answers(genResponse(res, t.size))
           [] t.kind \notin {"script", "bare", "index"} -> Answers(Page(res, 403))

\* removed: whether remove(), where the handler calls it, succeeds.
checkMethod(method, t, bodyLength, maxBodySize, res, removed) ==
  LET code == Refusal(t, bodyLength, maxBodySize)
  IN IF code # 0 THEN Answers(Page(res, code))
     ELSE CASE method = "GET" -> getHandler(t, res)
            [] method = "DELETE" -> deleteHandler(t, res, removed)
            [] method = "POST" -> postHandler(t, res, removed)

\* lineError: the status that requestLineErrors() answers with, or 0.
processClientRequest(method, lineError, t, bodyLength, maxBodySize, res, removed) ==
  IF lineError # 0 THEN Answers(Page(res, lineError))
  ELSE checkMethod(method, t, bodyLength, maxBodySize, res, removed)

-----------------------------------------------------------------------------
\* parseRangeHeader(): None stands for a number left out, as the code's -1 does
\* ("bytes=3--1" is read as "bytes=3-").
MinOf(a, b) == IF a <= b THEN a ELSE b
MaxOf(a, b) == IF a >= b THEN a ELSE b
NoRange == [start |-> None, end |-> None, valid |-> FALSE]

parseRangeHeader(first, last, size) ==
  LET suffix == first = None /\ last # None
      start == IF suffix THEN size - last ELSE first
      end == IF suffix \/ last = None THEN size - 1 ELSE last
  IN IF \/ first # None /\ last # None /\ first > last
        \/ suffix /\ (last <= 0 \/ last > size)
        \/ start # None /\ start >= size
     THEN NoRange
     ELSE [start |-> MaxOf(0, MinOf(MaxOf(start, 0), size - 1)),
           end |-> MinOf(end, size - 1), valid |-> TRUE]
=============================================================================
