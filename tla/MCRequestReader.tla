--------------------------- MODULE MCRequestReader ---------------------------
(* Requests for RequestReader.                                              *)
EXTENDS RequestReader

At(kind, store) == [kind |-> kind, size |-> 0, allowed |-> TRUE, redirect |-> 0, store |-> store]
Bare(method, target) ==
  [method |-> method, target |-> target, lineError |-> 0, te |-> "no", length |-> None,
   complete |-> TRUE, multipart |-> FALSE, named |-> FALSE, size |-> 0, bad |-> 0]
Post(target, size) == [Bare("POST", target) EXCEPT !.length = size, !.size = size]
Upload(size) == Post(At("plain", TRUE), size)
Encoded(r, te) == [r EXCEPT !.te = te, !.length = None]

Others ==
  {Bare("GET", At("file", FALSE)), Bare("GET", At("script", FALSE)),
   Post(At("script", FALSE), 2), Post(At("plain", FALSE), 1)}
Uploaded ==
  {Upload(2), [Upload(2) EXCEPT !.named = TRUE, !.size = 3], Upload(4),
   [Upload(1) EXCEPT !.target.allowed = FALSE],
   [Upload(2) EXCEPT !.multipart = TRUE, !.complete = FALSE],
   [Upload(2) EXCEPT !.multipart = TRUE],
   Encoded(Upload(2), "chunked"), Encoded(Upload(4), "chunked"),
   [Encoded(Upload(2), "chunked") EXCEPT !.bad = 2]}
MCRequests == Others \cup Uploaded
=============================================================================
