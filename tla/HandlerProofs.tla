--------------------------- MODULE HandlerProofs -----------------------------
(* What the handlers may make of a Response, for every request and target,  *)
(* and what parseRangeHeader() may answer, for every header and file size.  *)
EXTENDS Handlers, TLAPS

Header == Nat \cup {None}     \* what the first number can be: strtoll, or left out

\* Cut: how the two ends are brought into a file of n bytes.
LEMMA Cut ==
  ASSUME NEW s \in Int, NEW e \in Int, NEW n \in Nat
  PROVE  /\ MaxOf(0, MinOf(MaxOf(s, 0), n - 1)) \in Nat
         /\ MinOf(e, n - 1) \in Int /\ MinOf(e, n - 1) < n
         /\ n > 0 /\ s < n /\ s <= e /\ 0 <= e =>
              MaxOf(0, MinOf(MaxOf(s, 0), n - 1)) <= MinOf(e, n - 1)
<1>1. PICK p \in Nat : p = MaxOf(s, 0) /\ p >= s /\ (p = s \/ p = 0)
  BY DEF MaxOf
<1>2. PICK q \in Int : q = MinOf(p, n - 1) /\ q <= p /\ q <= n - 1 /\ (q = p \/ q = n - 1)
  BY <1>1 DEF MinOf
<1>3. PICK r \in Nat : r = MaxOf(0, q) /\ (r = q \/ r = 0)
  BY <1>2 DEF MaxOf
<1>4. PICK t \in Int : t = MinOf(e, n - 1) /\ t <= n - 1 /\ (t = e \/ t = n - 1)
  BY DEF MinOf
<1> QED BY <1>1, <1>2, <1>3, <1>4

\* RangeInFile: a range that parseRangeHeader() accepts lies in the file and is not
\* empty, unless the file is: sendResponse() seeks and announces nothing beyond the
\* end, and never a negative length.
THEOREM RangeInFile ==
  ASSUME NEW first \in Header, NEW last \in Int, NEW size \in Nat,
         parseRangeHeader(first, last, size).valid
  PROVE  LET w == parseRangeHeader(first, last, size)
         IN /\ w.start \in Nat /\ w.end \in Int
            /\ w.end < size /\ w.start <= w.end + 1
            /\ size > 0 => w.start <= w.end
<1> DEFINE suffix == first = None /\ last # None
           start == IF suffix THEN size - last ELSE first
           end == IF suffix \/ last = None THEN size - 1 ELSE last
           refused == \/ first # None /\ last # None /\ first > last
                      \/ suffix /\ (last <= 0 \/ last > size)
                      \/ start # None /\ start >= size
           window == [start |-> MaxOf(0, MinOf(MaxOf(start, 0), size - 1)),
                      end |-> MinOf(end, size - 1), valid |-> TRUE]
<1>1. parseRangeHeader(first, last, size) = IF refused THEN NoRange ELSE window
  BY DEF parseRangeHeader
<1>2. ~refused /\ parseRangeHeader(first, last, size) = window
  BY <1>1 DEF NoRange
<1>3. start \in Int /\ end \in Int /\ size - 1 \in Int
  BY DEF Header, None
<1>4. window.start \in Nat /\ window.end \in Int /\ window.end < size
  <2> HIDE DEF start, end
  <2> QED BY <1>3, Cut
<1>5. ASSUME size > 0 PROVE window.start <= window.end
  <2>1. start < size /\ (start >= 0 \/ start = None)
    BY <1>2, <1>3 DEF Header, None
  <2>2. start <= end /\ 0 <= end
    BY <1>2, <1>3, <1>5, <2>1 DEF Header, None
  <2> HIDE DEF start, end
  <2> QED BY <1>3, <1>5, <2>1, <2>2, Cut
<1>6. ASSUME size = 0 PROVE window.start = 0 /\ window.end = -1
  <2>1. first = None /\ last = None
    BY <1>2, <1>6 DEF Header, None
  <2>2. start = -1 /\ end = -1 /\ size - 1 = -1
    BY <1>6, <2>1 DEF None
  <2>3. MaxOf(-1, 0) = 0 /\ MinOf(0, -1) = -1 /\ MaxOf(0, -1) = 0 /\ MinOf(-1, -1) = -1
    BY DEF MaxOf, MinOf
  <2> HIDE DEF start, end
  <2> QED BY <2>2, <2>3
<1>7. window.start <= window.end + 1
  <2>1. size = 0 \/ size > 0
    OBVIOUS
  <2> HIDE DEF window
  <2> QED BY <1>4, <1>5, <1>6, <2>1
<1> HIDE DEF window
<1> QED BY <1>2, <1>4, <1>5, <1>7

-----------------------------------------------------------------------------
(* Handlers: what they leave of the Response that the connection has.       *)

\* Nothing of the file that was sent last is touched, or a file is sent anew.
SameFile(r, q) ==
  q.stream = r.stream /\ q.size = r.size /\ q.offset = r.offset /\ q.sent = r.sent
Anew(q) == q.stream /\ q.offset = 0 /\ q.sent = 0 /\ q.status = 200
\* A page is that of the status, if the response had none before.
PageFits(r, q) == r.body = << >> => q.body \in {<< >>, <<q.status>>}
\* A response without a status has nothing to send.
Blank(r) == r.status = 0 => r.body = << >> /\ ~r.stream
Handles(r, q) ==
  /\ q \in ResponseForm
  /\ SameFile(r, q) \/ Anew(q)
  /\ PageFits(r, q)
  /\ Blank(r) => Blank(q)

\* The Response of a new connection, or after a script's answer.
LEMMA NewResponseIs ==
  /\ NewResponse \in ResponseForm /\ NewResponse.status = 0 /\ NewResponse.body = << >>
  /\ ~NewResponse.stream /\ NewResponse.size = 0 /\ NewResponse.offset = 0
  /\ NewResponse.sent = 0
<1>1. << >> \in Seq(Nat) /\ 0 \in StatusEntries \cup {0}
  OBVIOUS
<1> QED BY <1>1 DEF NewResponse, ResponseForm, None

\* getSrvErrorPage() writes a status and a body.
LEMMA PageIs ==
  ASSUME NEW r \in ResponseForm, NEW code \in Nat
  PROVE  /\ Page(r, code) \in ResponseForm /\ SameFile(r, Page(r, code))
         /\ Page(r, code).body = <<code>> /\ Page(r, code).flag = r.flag
         /\ Page(r, code).length = r.length
         /\ code \in StatusEntries => Page(r, code).status = code
         /\ code \notin StatusEntries => Page(r, code).status = r.status
<1>1. <<code>> \in Seq(Nat)
  OBVIOUS
<1>2. CASE code \in StatusEntries
  <2>1. Page(r, code) = [[r EXCEPT !.status = code] EXCEPT !.body = <<code>>]
    BY <1>2 DEF Page, setStatus
  <2> QED BY <1>1, <1>2, <2>1 DEF ResponseForm, SameFile
<1>3. CASE code \notin StatusEntries
  <2>1. Page(r, code) = [r EXCEPT !.body = <<code>>]
    BY <1>3 DEF Page, setStatus
  <2> QED BY <1>1, <1>3, <2>1 DEF ResponseForm, SameFile
<1> QED BY <1>2, <1>3

\* So the page of a known status fits it, whatever the Response had before.
LEMMA PageHandles ==
  ASSUME NEW r \in ResponseForm, NEW code \in StatusEntries
  PROVE  Handles(r, Page(r, code))
<1>1. code \in Nat
  BY DEF StatusEntries
<1>2. PICK q : q = Page(r, code)
  OBVIOUS
<1>3. q \in ResponseForm /\ SameFile(r, q) /\ q.body = <<code>> /\ q.status = code
  BY <1>1, <1>2, PageIs
<1>4. code # 0
  BY DEF StatusEntries
<1>5. Handles(r, q)
  BY <1>3, <1>4 DEF Handles, PageFits, Blank
<1> QED BY <1>2, <1>5

\* setStatus() with a status it knows, or without a page.
LEMMA StatusIs ==
  ASSUME NEW r \in ResponseForm, NEW code
  PROVE  /\ setStatus(r, code) \in ResponseForm /\ SameFile(r, setStatus(r, code))
         /\ setStatus(r, code).body = r.body /\ setStatus(r, code).flag = r.flag
BY DEF setStatus, ResponseForm, SameFile

\* A handler that leaves the Response as it is.
LEMMA LeftHandles ==
  ASSUME NEW r \in ResponseForm
  PROVE  Handles(r, r)
BY DEF Handles, SameFile, PageFits

\* One that writes a status and no body.
LEMMA BareHandles ==
  ASSUME NEW r \in ResponseForm, NEW code \in StatusEntries,
         NEW q, q = [r EXCEPT !.status = code]
  PROVE  Handles(r, q)
<1>1. code # 0
  BY DEF StatusEntries
<1> QED BY <1>1 DEF Handles, SameFile, PageFits, Blank, ResponseForm

\* One that opens a file; mapMIME() may have set the flag before.
LEMMA FileHandles ==
  ASSUME NEW r \in ResponseForm, NEW size \in Nat
  PROVE  /\ Handles(r, genResponse(r, size))
         /\ Handles(r, genResponse([r EXCEPT !.flag = TRUE], size))
<1>1. 200 \in StatusEntries
  BY DEF StatusEntries
<1>2. ASSUME NEW q \in ResponseForm, q.body = r.body
      PROVE  Handles(r, genResponse(q, size))
  <2> DEFINE g == genResponse(q, size)
  <2>1. g = [q EXCEPT !.status = 200, !.length = size, !.stream = TRUE, !.size = size,
                      !.sent = 0, !.offset = 0]
    BY DEF genResponse
  <2>2. g \in ResponseForm
    <3>1. g = [status |-> 200, body |-> q.body, length |-> size, stream |-> TRUE,
               size |-> size, offset |-> 0, sent |-> 0, flag |-> q.flag]
      BY <1>2, <2>1, ZenonT(60) DEF ResponseForm
    <3>2. q.body \in Seq(Nat) /\ q.flag \in BOOLEAN
      BY <1>2 DEF ResponseForm
    <3> HIDE DEF g
    <3> QED BY <1>1, <3>1, <3>2 DEF ResponseForm
  <2>3. g.status = 200 /\ g.stream = TRUE /\ g.sent = 0 /\ g.offset = 0 /\ g.body = q.body
    BY <1>2, <2>1 DEF ResponseForm
  <2> HIDE DEF g
  <2>4. Anew(g) /\ PageFits(r, g) /\ Blank(g)
    BY <1>2, <2>3 DEF Anew, PageFits, Blank
  <2> QED BY <2>2, <2>4 DEF Handles, g
<1>3. [r EXCEPT !.flag = TRUE] \in ResponseForm /\ [r EXCEPT !.flag = TRUE].body = r.body
  BY DEF ResponseForm
<1> QED BY <1>2, <1>3

\* What any of them answers: the decision to run a script leaves the Response.
Decides(r, a) == a.script \in BOOLEAN /\ Handles(r, a.res) /\ (a.script => a.res = r)

\* The answers that the handlers are made of.
LEMMA AnswerDecides ==
  ASSUME NEW r \in ResponseForm, NEW q, Handles(r, q)
  PROVE  Decides(r, Answers(q)) /\ Decides(r, Runs(r))
BY LeftHandles DEF Decides, Answers, Runs

\* getHandler(), for every kind of target.
LEMMA GetDecides ==
  ASSUME NEW t \in Target, NEW r \in ResponseForm
  PROVE  Decides(r, getHandler(t, r))
<1> USE DEF StatusEntries
<1>1. t.kind \in TargetKinds /\ t.size \in Nat
  BY DEF Target
<1>2. CASE t.kind = "script"
  BY <1>2, LeftHandles, AnswerDecides DEF getHandler
<1>3. CASE t.kind \in {"file", "index"}
  <2>1. getHandler(t, r) = Answers(genResponse(r, t.size))
    BY <1>3 DEF getHandler
  <2> QED BY <1>1, <2>1, FileHandles, AnswerDecides
<1>4. CASE t.kind = "media"
  <2>1. getHandler(t, r) = Answers(genResponse([r EXCEPT !.flag = TRUE], t.size))
    BY <1>4 DEF getHandler
  <2> QED BY <1>1, <2>1, FileHandles, AnswerDecides
<1>5. CASE t.kind = "homeless"
  BY <1>5, LeftHandles, AnswerDecides DEF getHandler
<1>6. CASE t.kind \in {"listed", "bare", "plain", "missing"}
  <2>1. PICK code \in {200, 301, 403, 404} : getHandler(t, r) = Answers(Page(r, code))
    <3>1. CASE t.kind = "listed"
      BY <3>1 DEF getHandler, listDirectory
    <3>2. CASE t.kind = "bare"
      BY <3>2 DEF getHandler, redirectionResponse
    <3>3. CASE t.kind = "plain"
      BY <3>3 DEF getHandler
    <3>4. CASE t.kind = "missing"
      BY <3>4 DEF getHandler
    <3> QED BY <1>6, <3>1, <3>2, <3>3, <3>4
  <2>2. code \in StatusEntries
    OBVIOUS
  <2> QED BY <2>1, <2>2, PageHandles, AnswerDecides
<1> QED BY <1>1, <1>2, <1>3, <1>4, <1>5, <1>6 DEF TargetKinds

\* deleteHandler(), whether or not remove() succeeds.
LEMMA DeleteDecides ==
  ASSUME NEW t \in Target, NEW r \in ResponseForm, NEW removed \in BOOLEAN
  PROVE  Decides(r, deleteHandler(t, r, removed))
<1> USE DEF StatusEntries
<1>1. t.kind \in TargetKinds
  BY DEF Target
<1>2. CASE t.kind = "script"
  BY <1>2, LeftHandles, AnswerDecides DEF deleteHandler
<1>3. CASE t.kind \in {"file", "media"} /\ removed
  <2>1. PICK q : q = [r EXCEPT !.status = 204]
    OBVIOUS
  <2>2. deleteHandler(t, r, removed) = Answers(q)
    BY <1>3, <2>1 DEF deleteHandler
  <2>3. PICK code \in StatusEntries : code = 204
    OBVIOUS
  <2>4. Handles(r, q)
    BY <2>1, <2>3, BareHandles
  <2> QED BY <2>2, <2>4, AnswerDecides
<1>4. ASSUME NEW code \in {403, 404, 409, 500},
             deleteHandler(t, r, removed) = Answers(Page(r, code))
      PROVE  Decides(r, deleteHandler(t, r, removed))
  <2>1. code \in StatusEntries
    OBVIOUS
  <2> QED BY <1>4, <2>1, PageHandles, AnswerDecides
<1>5. CASE t.kind \in {"file", "media"} /\ ~removed
  <2>1. deleteHandler(t, r, removed) = Answers(Page(r, 500))
    BY <1>5 DEF deleteHandler
  <2> QED BY <1>4, <2>1
<1>6. CASE t.kind \in {"index", "homeless", "listed", "plain"}
  <2>1. deleteHandler(t, r, removed) = Answers(Page(r, 403))
    BY <1>6 DEF deleteHandler
  <2> QED BY <1>4, <2>1
<1>7. CASE t.kind = "bare"
  <2>1. deleteHandler(t, r, removed) = Answers(Page(r, 409))
    BY <1>7 DEF deleteHandler
  <2> QED BY <1>4, <2>1
<1>8. CASE t.kind = "missing"
  <2>1. deleteHandler(t, r, removed) = Answers(Page(r, 404))
    BY <1>8 DEF deleteHandler
  <2> QED BY <1>4, <2>1
<1> QED BY <1>1, <1>2, <1>3, <1>5, <1>6, <1>7, <1>8 DEF TargetKinds

\* postHandler(), whatever status it finds in the Response.
LEMMA PostDecides ==
  ASSUME NEW t \in Target, NEW r \in ResponseForm, NEW removed \in BOOLEAN
  PROVE  Decides(r, postHandler(t, r, removed))
<1> USE DEF StatusEntries
<1>1. t.kind \in TargetKinds /\ t.size \in Nat /\ t.store \in BOOLEAN
  BY DEF Target
<1>2. CASE r.status # 0
  <2>1. PICK code \in StatusEntries : postHandler(t, r, removed) = Answers(Page(r, code))
    BY <1>2, SMTT(30) DEF postHandler, ResponseForm
  <2> QED BY <2>1, PageHandles, AnswerDecides
<1>3. CASE r.status = 0 /\ t.store
  <2>1. PICK q : q = [r EXCEPT !.status = 201]
    OBVIOUS
  <2>2. postHandler(t, r, removed) = Answers(q)
    BY <1>3, <2>1 DEF postHandler
  <2>3. PICK code \in StatusEntries : code = 201
    OBVIOUS
  <2>4. Handles(r, q)
    BY <2>1, <2>3, BareHandles
  <2> QED BY <2>2, <2>4, AnswerDecides
<1>4. CASE r.status = 0 /\ ~t.store /\ t.kind = "script"
  BY <1>4, LeftHandles, AnswerDecides DEF postHandler
<1>5. CASE r.status = 0 /\ ~t.store /\ t.kind = "index"
  <2>1. postHandler(t, r, removed) = Answers(genResponse(r, t.size))
    BY <1>5 DEF postHandler
  <2> QED BY <1>1, <2>1, FileHandles, AnswerDecides
<1>6. CASE r.status = 0 /\ ~t.store /\ t.kind \notin {"script", "index"}
  <2>1. PICK code \in {301, 403} : postHandler(t, r, removed) = Answers(Page(r, code))
    BY <1>6 DEF postHandler, redirectionResponse
  <2>2. code \in StatusEntries
    OBVIOUS
  <2> QED BY <2>1, <2>2, PageHandles, AnswerDecides
<1> QED BY <1>1, <1>2, <1>3, <1>4, <1>5, <1>6

\* processClientRequest(): the file of an earlier answer is left alone or a new
\* one begun, and a page belongs to its status unless the request line or the
\* redirection has a status that setStatus() does not know.
LEMMA RequestDecides ==
  ASSUME NEW method, NEW lineError \in Nat, lineError = 0 => method \in Methods,
         NEW t \in Target, NEW length \in Nat, NEW limit \in Nat,
         NEW r \in ResponseForm, NEW removed \in BOOLEAN
  PROVE  LET a == processClientRequest(method, lineError, t, length, limit, r, removed)
         IN /\ a.script \in BOOLEAN /\ a.res \in ResponseForm
            /\ a.script => a.res = r
            /\ SameFile(r, a.res) \/ Anew(a.res)
            /\ {lineError, t.redirect} \subseteq StatusEntries \cup {0} =>
                 PageFits(r, a.res) /\ (Blank(r) => Blank(a.res))
<1> DEFINE a == processClientRequest(method, lineError, t, length, limit, r, removed)
           code == Refusal(t, length, limit)
<1>1. ASSUME NEW c \in Nat, a = Answers(Page(r, c)), c \in {lineError, t.redirect, 405, 413}, c # 0
      PROVE  /\ a.script \in BOOLEAN /\ a.res \in ResponseForm
             /\ a.script => a.res = r
             /\ SameFile(r, a.res)
             /\ {lineError, t.redirect} \subseteq StatusEntries \cup {0} =>
                  PageFits(r, a.res) /\ (Blank(r) => Blank(a.res))
  <2>1. a.script = FALSE /\ a.res = Page(r, c)
    BY <1>1 DEF Answers
  <2>2. {lineError, t.redirect} \subseteq StatusEntries \cup {0} => c \in StatusEntries
    BY <1>1 DEF StatusEntries
  <2>3. Page(r, c) \in ResponseForm /\ SameFile(r, Page(r, c))
    BY PageIs
  <2>4. c \in StatusEntries => PageFits(r, Page(r, c)) /\ (Blank(r) => Blank(Page(r, c)))
    BY PageHandles DEF Handles
  <2> HIDE DEF a
  <2> QED BY <2>1, <2>2, <2>3, <2>4
<1>2. CASE lineError # 0
  <2>1. a = Answers(Page(r, lineError))
    BY <1>2 DEF processClientRequest
  <2> HIDE DEF a
  <2> QED BY <1>1, <1>2, <2>1 DEF a
<1>3. CASE lineError = 0 /\ code # 0
  <2>1. a = Answers(Page(r, code))
    BY <1>3 DEF processClientRequest, checkMethod
  <2>2. code \in Nat /\ code \in {t.redirect, 405, 413}
    BY <1>3 DEF Refusal, Target
  <2> HIDE DEF a, code
  <2> QED BY <1>1, <1>3, <2>1, <2>2 DEF a
<1>4. CASE lineError = 0 /\ code = 0
  <2>1. Decides(r, a)
    <3>1. a = CASE method = "GET" -> getHandler(t, r)
                [] method = "DELETE" -> deleteHandler(t, r, removed)
                [] method = "POST" -> postHandler(t, r, removed)
      BY <1>4 DEF processClientRequest, checkMethod
    <3>2. method \in Methods
      BY <1>4
    <3> HIDE DEF a
    <3> QED BY <3>1, <3>2, GetDecides, DeleteDecides, PostDecides DEF Methods
  <2> HIDE DEF a
  <2> QED BY <2>1 DEF Decides, Handles, a
<1> QED BY <1>2, <1>3, <1>4

\* A POST: an upload is answered 201 if no status was there, and a script runs only
\* then, for a location that stores nothing.
LEMMA PostAnswers ==
  ASSUME NEW lineError, NEW t \in Target, NEW length \in Nat, NEW limit \in Nat,
         NEW r \in ResponseForm, NEW removed \in BOOLEAN
  PROVE  LET a == processClientRequest("POST", lineError, t, length, limit, r, removed)
         IN /\ lineError = 0 /\ Refusal(t, length, limit) = 0 /\ t.store /\ r.status = 0 =>
                 ~a.script /\ a.res = [r EXCEPT !.status = 201]
            /\ a.script => r.status = 0 /\ ~t.store /\ t.kind = "script"
<1> DEFINE a == processClientRequest("POST", lineError, t, length, limit, r, removed)
           code == Refusal(t, length, limit)
<1>1. CASE lineError # 0 \/ code # 0
  <2>1. PICK c : a = Answers(Page(r, c))
    BY <1>1 DEF processClientRequest, checkMethod
  <2>2. ~a.script
    BY <2>1 DEF Answers
  <2> HIDE DEF a
  <2> QED BY <1>1, <2>2 DEF a
<1>2. CASE lineError = 0 /\ code = 0
  <2>1. a = postHandler(t, r, removed)
    BY <1>2 DEF processClientRequest, checkMethod
  <2>2. CASE r.status # 0
    <3>1. a.script = FALSE
      BY <2>1, <2>2 DEF postHandler, Answers
    <3> HIDE DEF a
    <3> QED BY <2>2, <3>1 DEF a
  <2>3. CASE r.status = 0 /\ t.store
    <3>1. a.script = FALSE /\ a.res = [r EXCEPT !.status = 201]
      BY <2>1, <2>3 DEF postHandler, Answers
    <3> HIDE DEF a
    <3> QED BY <2>3, <3>1 DEF a
  <2>4. CASE r.status = 0 /\ ~t.store /\ t.kind \notin {"script", "bare", "index"}
    <3>1. a.script = FALSE
      BY <2>1, <2>4 DEF postHandler, Answers
    <3> HIDE DEF a
    <3> QED BY <2>4, <3>1 DEF a
  <2>5. CASE r.status = 0 /\ ~t.store /\ t.kind = "script"
    <3> HIDE DEF a
    <3> QED BY <2>5 DEF a
  <2>6. CASE r.status = 0 /\ ~t.store /\ t.kind \in {"bare", "index"}
    <3>1. a.script = FALSE
      BY <2>1, <2>6 DEF postHandler, Answers
    <3> HIDE DEF a
    <3> QED BY <2>6, <3>1 DEF a
  <2>7. t.store \in BOOLEAN
    BY DEF Target
  <2> QED BY <2>2, <2>3, <2>4, <2>5, <2>6, <2>7
<1> QED BY <1>1, <1>2
\* What is answered by a handler that does not store an upload.
Else(a) == a.res.status # 201
LEMMA ElseIs ==
  ASSUME NEW r \in ResponseForm, r.status # 201
  PROVE  Else(Answers(r)) /\ Else(Runs(r)) /\ Else(Answers([r EXCEPT !.status = 204]))
<1>1. PICK q : q = [r EXCEPT !.status = 204]
  OBVIOUS
<1>2. q.status # 201
  BY <1>1 DEF ResponseForm
<1> QED BY <1>1, <1>2 DEF Else, Answers, Runs

\* A page is one of them,
LEMMA PageElse ==
  ASSUME NEW r \in ResponseForm, r.status # 201, NEW code \in Nat, code # 201
  PROVE  Else(Answers(Page(r, code)))
<1>1. PICK q : q = Page(r, code)
  OBVIOUS
<1>2. q.status = code \/ q.status = r.status
  BY <1>1, PageIs
<1> QED BY <1>1, <1>2 DEF Answers, Else

\* and so is a file.
LEMMA FileElse ==
  ASSUME NEW r \in ResponseForm, NEW size \in Nat
  PROVE  Else(Answers(genResponse(r, size))) /\ Else(Answers(genResponse([r EXCEPT !.flag = TRUE], size)))
<1>1. ASSUME NEW q \in ResponseForm PROVE Else(Answers(genResponse(q, size)))
  <2>1. PICK g : g = genResponse(q, size)
    OBVIOUS
  <2>2. g.status = 200
    BY <2>1 DEF genResponse, ResponseForm
  <2> QED BY <2>1, <2>2 DEF Answers, Else
<1>2. [r EXCEPT !.flag = TRUE] \in ResponseForm
  BY DEF ResponseForm
<1> QED BY <1>1, <1>2

\* The answer says that something was created.
Creates(method, lineError, t, length, limit, r, removed) ==
  processClientRequest(method, lineError, t, length, limit, r, removed).res.status = 201
NoneCreated(lineError, t, r) == lineError # 201 /\ t.redirect # 201 /\ r.status # 201
Creatable(method, lineError, t, length, limit, r) ==
  /\ method = "POST" /\ lineError = 0 /\ Refusal(t, length, limit) = 0
  /\ t.store /\ r.status = 0
\* Only an upload that postHandler() finds without a status is answered 201, if no
\* redirection has that code.
LEMMA CreatedIs ==
  ASSUME NEW method, NEW lineError \in Nat, lineError = 0 => method \in Methods,
         NEW t \in Target, NEW length \in Nat, NEW limit \in Nat,
         NEW r \in ResponseForm, NEW removed \in BOOLEAN,
         NoneCreated(lineError, t, r),
         Creates(method, lineError, t, length, limit, r, removed)
  PROVE  Creatable(method, lineError, t, length, limit, r)
<1>0. r.status # 201 /\ lineError # 201 /\ t.redirect # 201
  BY DEF NoneCreated
<1> DEFINE a == processClientRequest(method, lineError, t, length, limit, r, removed)
           code == Refusal(t, length, limit)
<1>1. t.kind \in TargetKinds /\ t.size \in Nat /\ t.store \in BOOLEAN
  BY DEF Target
<1>2. lineError = 0
  <2>1. lineError # 0 => a = Answers(Page(r, lineError))
    BY DEF processClientRequest
  <2>2. Else(Answers(Page(r, lineError)))
    BY <1>0, PageElse
  <2>3. ~Else(a)
    BY DEF Else, Creates
  <2> HIDE DEF a
  <2> QED BY <2>1, <2>2, <2>3
<1>3. code = 0
  <2>1. code # 0 => a = Answers(Page(r, code))
    BY <1>2 DEF processClientRequest, checkMethod
  <2>2. code # 0 => code \in Nat /\ code # 201
    BY <1>0 DEF Refusal, Target
  <2>3. ~Else(a)
    BY DEF Else, Creates
  <2> HIDE DEF a, code
  <2>4. code # 0 => Else(Answers(Page(r, code)))
    BY <1>0, <2>2, PageElse
  <2> QED BY <2>1, <2>3, <2>4
<1>4. method # "GET"
  <2> SUFFICES ASSUME method = "GET" PROVE Else(getHandler(t, r))
    BY <1>2, <1>3 DEF processClientRequest, checkMethod, Else, Creates
  <2>1. /\ \A c \in {200, 301, 403, 404} : Else(Answers(Page(r, c)))
        /\ Else(Answers(genResponse(r, t.size)))
        /\ Else(Answers(genResponse([r EXCEPT !.flag = TRUE], t.size)))
        /\ Else(Answers(r)) /\ Else(Runs(r))
    <3>1. Else(Answers(r)) /\ Else(Runs(r))
      BY <1>0, ElseIs
    <3>2. \A c \in {200, 301, 403, 404} : Else(Answers(Page(r, c)))
      BY <1>0, PageElse
    <3>3. Else(Answers(genResponse(r, t.size))) /\ Else(Answers(genResponse([r EXCEPT !.flag = TRUE], t.size)))
      BY <1>1, FileElse
    <3> QED BY <3>1, <3>2, <3>3
  <2>2. CASE t.kind = "script"
    BY <2>1, <2>2 DEF getHandler
  <2>3. CASE t.kind = "file"
    BY <2>1, <2>3 DEF getHandler
  <2>4. CASE t.kind = "media"
    BY <2>1, <2>4 DEF getHandler
  <2>5. CASE t.kind = "index"
    BY <2>1, <2>5 DEF getHandler
  <2>6. CASE t.kind = "listed"
    BY <2>1, <2>6 DEF getHandler, listDirectory
  <2>7. CASE t.kind = "homeless"
    BY <2>1, <2>7 DEF getHandler
  <2>8. CASE t.kind = "bare"
    BY <2>1, <2>8 DEF getHandler, redirectionResponse
  <2>9. CASE t.kind = "plain"
    BY <2>1, <2>9 DEF getHandler
  <2>10. CASE t.kind = "missing"
    BY <2>1, <2>10 DEF getHandler
  <2> QED BY <1>1, <2>2, <2>3, <2>4, <2>5, <2>6, <2>7, <2>8, <2>9, <2>10 DEF TargetKinds
<1>5. method # "DELETE"
  <2> SUFFICES ASSUME method = "DELETE" PROVE Else(deleteHandler(t, r, removed))
    BY <1>2, <1>3 DEF processClientRequest, checkMethod, Else, Creates
  <2>1. /\ \A c \in {403, 404, 409, 500} : Else(Answers(Page(r, c)))
        /\ Else(Runs(r)) /\ Else(Answers([r EXCEPT !.status = 204]))
    BY <1>0, ElseIs, PageElse
  <2>2. CASE t.kind = "script"
    BY <2>1, <2>2 DEF deleteHandler
  <2>3. CASE t.kind \in {"file", "media"} /\ removed
    BY <2>1, <2>3 DEF deleteHandler
  <2>4. CASE t.kind \in {"file", "media"} /\ ~removed
    BY <2>1, <2>4 DEF deleteHandler
  <2>5. CASE t.kind = "bare"
    BY <2>1, <2>5 DEF deleteHandler
  <2>6. CASE t.kind \in {"index", "homeless", "listed", "plain"}
    BY <2>1, <2>6 DEF deleteHandler
  <2>7. CASE t.kind = "missing"
    BY <2>1, <2>7 DEF deleteHandler
  <2> QED BY <1>1, <2>2, <2>3, <2>4, <2>5, <2>6, <2>7 DEF TargetKinds
<1>6. method = "POST"
  BY <1>2, <1>4, <1>5 DEF Methods
<1>7. ~Else(postHandler(t, r, removed))
  BY <1>2, <1>3, <1>6 DEF processClientRequest, checkMethod, Else, Creates
<1>8. r.status = 0
  <2> SUFFICES ASSUME r.status # 0 PROVE FALSE
    OBVIOUS
  <2>1. PICK c : c = IF removed THEN r.status ELSE 500
    OBVIOUS
  <2>2. c \in Nat /\ c # 201
    <3>1. r.status \in StatusEntries \cup {0}
      BY DEF ResponseForm
    <3>3. r.status \in Nat
      BY <3>1 DEF StatusEntries
    <3> QED BY <1>0, <2>1, <3>3
  <2>3. postHandler(t, r, removed) = Answers(Page(r, c))
    BY <2>1 DEF postHandler
  <2>4. Else(Answers(Page(r, c)))
    BY <1>0, <2>2, PageElse
  <2> QED BY <1>7, <2>3, <2>4
<1>9. t.store
  <2> SUFFICES ASSUME ~t.store PROVE FALSE
    OBVIOUS
  <2>1. /\ \A c \in {301, 403} : Else(Answers(Page(r, c)))
        /\ Else(Answers(genResponse(r, t.size))) /\ Else(Runs(r))
    <3>1. Else(Runs(r))
      BY <1>0, ElseIs
    <3>2. \A c \in {301, 403} : Else(Answers(Page(r, c)))
      BY <1>0, PageElse
    <3>3. Else(Answers(genResponse(r, t.size)))
      BY <1>1, FileElse
    <3> QED BY <3>1, <3>2, <3>3
  <2>2. CASE t.kind = "script"
    BY <1>7, <1>8, <2>1, <2>2 DEF postHandler
  <2>3. CASE t.kind = "bare"
    BY <1>7, <1>8, <2>1, <2>3 DEF postHandler, redirectionResponse
  <2>4. CASE t.kind = "index"
    BY <1>7, <1>8, <2>1, <2>4 DEF postHandler
  <2>5. CASE t.kind \notin {"script", "bare", "index"}
    BY <1>7, <1>8, <2>1, <2>5 DEF postHandler
  <2> QED BY <2>2, <2>3, <2>4, <2>5
<1> QED BY <1>2, <1>3, <1>6, <1>8, <1>9 DEF Creatable
=============================================================================
