------------------------------- MODULE Sessions -------------------------------
(* The sessions of /login (CookiesSessionManager.cpp): the server's table, the *)
(* Set-Cookie header that stays in the Response of a connection, and the       *)
(* cookies of the browsers, whose requests and answers are under way on their  *)
(* connections while the clock goes on and the server may be started again.    *)
EXTENDS Integers, Sequences, SequencesExt

CONSTANTS
  Browser, Connection,
  Owner,       \* the browser of each connection
  MaxSecond,   \* bound on the clock
  MaxRequests  \* bound on the requests of one history

ASSUME OwnerAssumption == Owner \in [Connection -> Browser]
ASSUME BoundsAssumption == MaxSecond \in Nat /\ MaxRequests \in Nat

VARIABLES
  second,        \* time(NULL)
  sessionTable,  \* _sessionTable: a sequence of [id, logCounter]
  jar,           \* per browser: its cookie for the server, [id, counter]
  conn,          \* per connection: [state, cookie, header]
  requests,      \* how many requests were sent
  restarted      \* the second of the last start of the server

sessionVars == <<second, sessionTable, jar, conn, requests, restarted>>

NoCookie == [id |-> -1, counter |-> 0]
Cookie == [id : -1..MaxSecond, counter : 0..MaxRequests]
\* state: "closed"; "open"; "login", "page" or "script", a request under way;
\* "answer" or "output", an answer under way, of the server or of a script.
\* cookie: the Cookie header of that request. header: Set-Cookie in _response.
Closed == [state |-> "closed", cookie |-> NoCookie, header |-> NoCookie]

SessionsInit ==
  /\ second = 0 /\ sessionTable = <<>> /\ requests = 0 /\ restarted = 0
  /\ jar = [b \in Browser |-> NoCookie]
  /\ conn = [c \in Connection |-> Closed]

\* generateSessionId: srand(time(NULL)) makes the id a function of the second;
\* those of different seconds are taken to differ.
generateSessionId == second
\* Mutant: the first entry is taken for none.
findSessionButFirst(id) ==
  LET i == SelectInSeq(sessionTable, LAMBDA s : s.id = id) IN IF i = 1 THEN 0 ELSE i
\* findSessionIfExist: the first entry with the id.
findSession(id) == SelectInSeq(sessionTable, LAMBDA s : s.id = id)

\* createNewSession: the counter told is that of the first entry with the id.
createNewSession ==
  LET table == Append(sessionTable, [id |-> generateSessionId, logCounter |-> 1])
      first == SelectInSeq(table, LAMBDA s : s.id = generateSessionId)
  IN [table |-> table,
      header |-> [id |-> generateSessionId, counter |-> table[first].logCounter]]
\* userLoginHandl, for a path with /login in it.
userLoginHandl(cookie) ==
  LET i == findSession(cookie.id)
      table == [sessionTable EXCEPT ![i].logCounter = @ + 1]
  IN IF i = 0 THEN createNewSession
     ELSE [table |-> table, header |-> [id |-> cookie.id, counter |-> table[i].logCounter]]

Tick ==
  /\ second < MaxSecond /\ second' = second + 1
  /\ UNCHANGED <<sessionTable, jar, conn, requests, restarted>>
Connect(c) ==
  /\ conn[c].state = "closed" /\ conn' = [conn EXCEPT ![c].state = "open"]
  /\ UNCHANGED <<second, sessionTable, jar, requests, restarted>>
Disconnect(c) ==
  /\ conn[c].state # "closed" /\ conn' = [conn EXCEPT ![c] = Closed]
  /\ UNCHANGED <<second, sessionTable, jar, requests, restarted>>
Ask(c, kind) ==
  /\ conn[c].state = "open" /\ requests < MaxRequests
  /\ conn' = [conn EXCEPT ![c].state = kind, ![c].cookie = jar[Owner[c]]]
  /\ requests' = requests + 1
  /\ UNCHANGED <<second, sessionTable, jar, restarted>>
\* sendResponse at CS_START_SEND, before the headers are put together.
AnswerLogin(c) ==
  /\ conn[c].state = "login"
  /\ sessionTable' = userLoginHandl(conn[c].cookie).table
  /\ conn' = [conn EXCEPT ![c].state = "answer", ![c].header = userLoginHandl(conn[c].cookie).header]
  /\ UNCHANGED <<second, jar, requests, restarted>>
\* Any other answer: the headers of the Response are what they were.
AnswerPage(c) ==
  /\ conn[c].state \in {"page", "script"}
  /\ conn' = [conn EXCEPT ![c].state = IF @ = "page" THEN "answer" ELSE "output"]
  /\ UNCHANGED <<second, sessionTable, jar, requests, restarted>>
\* The browser reads an answer and keeps the cookie it sets. After a script's
\* output the connection gets a new Response.
Receive(c) ==
  /\ conn[c].state \in {"answer", "output"}
  /\ jar' = [jar EXCEPT ![Owner[c]] = IF conn[c].header = NoCookie THEN @ ELSE conn[c].header]
  /\ conn' = [conn EXCEPT ![c].state = "open", ![c].cookie = NoCookie,
                          ![c].header = IF conn[c].state = "output" THEN NoCookie ELSE @]
  /\ UNCHANGED <<second, sessionTable, requests, restarted>>
\* The server ends and is started again, in a later second.
Restart ==
  /\ second < MaxSecond /\ second' = second + 1 /\ restarted' = second + 1
  /\ sessionTable' = <<>> /\ conn' = [c \in Connection |-> Closed]
  /\ UNCHANGED <<jar, requests>>

SessionsNext ==
  \/ Tick \/ Restart
  \/ \E c \in Connection :
       \/ Connect(c) \/ Disconnect(c) \/ AnswerLogin(c) \/ AnswerPage(c) \/ Receive(c)
       \/ \E kind \in {"login", "page", "script"} : Ask(c, kind)

\* A browser with one connection at a time keeps the session it was given as
\* long as the server runs, and the counter it is told never goes back,
\* whatever is under way, lost or answered with the header of an earlier login.
\* (userLoginHandl, and the headers a Response keeps. With two connections both
\* fail: a header kept on one brings back what the other has replaced.)
Single(b) == \A c, d \in Connection : Owner[c] = b /\ Owner[d] = b => c = d
KeepsSession ==
  [][\A b \in Browser :
       Single(b) /\ jar[b] # NoCookie /\ jar[b].id >= restarted =>
         jar'[b].id = jar[b].id /\ jar'[b].counter >= jar[b].counter]_sessionVars
================================================================================
