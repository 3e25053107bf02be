-------------------------- MODULE MCResponseSender ---------------------------
(* Requests for ResponseSender: every kind of target, ranges on a file.     *)
EXTENDS ResponseSender

Found(kind, size) == [kind |-> kind, size |-> size, allowed |-> TRUE, redirect |-> 0, store |-> FALSE]
Asks(method, target) ==
  [method |-> method, target |-> target, lineError |-> 0, refused |-> 0, body |-> 0,
   range |-> "no", first |-> None, last |-> None]
Get(kind, size) == Asks("GET", Found(kind, size))

Plain ==
  {Get("file", 0), Get("file", 2), Get("file", 7), Get("media", 4), Get("index", 3),
   Get("script", 0), Get("homeless", 0), Get("listed", 0), Get("plain", 0), Get("bare", 0),
   Get("missing", 0), Asks("DELETE", Found("file", 3)), Asks("DELETE", Found("bare", 0)),
   Asks("POST", [Found("plain", 0) EXCEPT !.store = TRUE]),
   Asks("GET", [Found("file", 3) EXCEPT !.allowed = FALSE]),
   Asks("GET", [Found("file", 3) EXCEPT !.redirect = 301]),
   Asks("GET", [Found("file", 3) EXCEPT !.redirect = 302])}
Odd ==
  {[Get("missing", 0) EXCEPT !.lineError = 414], [Get("file", 3) EXCEPT !.refused = 400],
   [Asks("DELETE", Found("file", 3)) EXCEPT !.refused = 501],
   [Asks("POST", Found("script", 0)) EXCEPT !.body = 3],
   [Asks("POST", Found("plain", 0)) EXCEPT !.refused = 413]}
Ranges ==
  {[Get(kind, 5) EXCEPT !.range = "bytes", !.first = f, !.last = l] :
     kind \in {"file", "media"}, f \in {None, 0, 3, 4, 5}, l \in {-2, None, 0, 2, 4, 6}}
    \cup {[Get("file", 5) EXCEPT !.range = "malformed"],
          [Get("missing", 0) EXCEPT !.range = "bytes", !.first = 0]}
MCRequests == Plain \cup Odd \cup Ranges
=============================================================================
