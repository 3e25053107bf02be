------------------------------ MODULE UploadFds ------------------------------
(***************************************************************************)
(* The descriptors of uploads and the vector that holds the clients.  A    *)
(* body parser closes its file when it is destroyed, and vector<Client>    *)
(* destroys copies: all its old elements when it grows, the last one when  *)
(* it erases.  The copies that remain keep the number, which the system    *)
(* gives to the next accept() or open().                                   *)
(*                                                                         *)
(* A connection uploads once, Size bytes, one by one.  Only what a client  *)
(* reads from its own connection is followed: one whose number now belongs *)
(* to another connection is no longer heard.                               *)
(***************************************************************************)
EXTENDS Naturals, Sequences, FiniteSets, FiniteSetsExt, SequencesExt

CONSTANTS
  Connection,
  Descriptor,   \* bound: the numbers free when the server starts, from 1 on
  Size          \* bound: the bytes of a body, at least 1

VARIABLES
  table,      \* the kernel's: what each number stands for
  clients,    \* the vector
  capacity,   \* and how many elements it has room for
  file,       \* the file of each connection's upload
  answer      \* what each connection was answered, 0 before

vars == <<table, clients, capacity, file, answer>>

None == 0
Closed == [kind |-> "closed"]
Socket(c) == [kind |-> "socket", of |-> c]
File(c) == [kind |-> "file", of |-> c]

\* How a body comes: by its length, in chunks, or in parts.  The first two have
\* _uploadFd, the last two a parser that holds a descriptor.
Kinds == {"single", "chunked", "multipart"}
NewClient(c, fd) ==
  [conn |-> c, fd |-> fd, kind |-> "none", uploadFd |-> None, parserFd |-> None, fed |-> 0]

Init ==
  /\ table = [d \in Descriptor |-> Closed]
  /\ clients = << >> /\ capacity = 0
  /\ file = [c \in Connection |-> << >>]
  /\ answer = [c \in Connection |-> 0]

\* The lowest number that is free.
Free == {d \in Descriptor : table[d] = Closed}
NewFd == Min(Free)
Given(d, what) == [table EXCEPT ![d] = what]
After(t, closings) == [d \in Descriptor |-> IF d \in closings THEN Closed ELSE t[d]]

-----------------------------------------------------------------------------
\* vector::push_back: without room, every element is copied and then destroyed.
Destroyed ==
  IF Len(clients) < capacity THEN {} ELSE {clients[i].parserFd : i \in DOMAIN clients}

\* accept() has its number before the vector grows.
addClients(c) ==
  /\ \A i \in DOMAIN clients : clients[i].conn # c
  /\ answer[c] = 0 /\ Free # {}
  /\ clients' = Append(clients, NewClient(c, NewFd))
  /\ capacity' = IF Len(clients) < capacity THEN capacity ELSE IF capacity = 0 THEN 1 ELSE 2 * capacity
  /\ table' = After(Given(NewFd, Socket(c)), Destroyed)
  /\ file' = [file EXCEPT ![c] = << >>]
  /\ UNCHANGED answer

\* vector::erase moves the elements behind i down and destroys the last.
handleDisconnect(i) ==
  LET c == clients[i]
  IN /\ table' = After(table, {c.uploadFd, c.fd, Last(clients).parserFd})
     /\ clients' = RemoveAt(clients, i)
     /\ UNCHANGED <<capacity, file, answer>>

\* requestHandler() meets the body: the file is opened.
OpenUpload(i, kind) ==
  LET d == NewFd
  IN /\ clients[i].kind = "none" /\ Free # {}
     /\ table[clients[i].fd] = Socket(clients[i].conn)
     /\ table' = Given(d, File(clients[i].conn))
     /\ clients' = [clients EXCEPT
          ![i].kind = kind,
          ![i].uploadFd = IF kind = "multipart" THEN None ELSE d,
          ![i].parserFd = IF kind = "single" THEN None ELSE d]
     /\ UNCHANGED <<capacity, file, answer>>

\* What became of the upload: postHandler() keeps it, or closes _uploadFd and removes
\* the file.  A parser that is done with its parts closes its own.
Created(i) ==
  LET c == clients[i]
      done == c.kind = "multipart"
  IN /\ answer' = [answer EXCEPT ![c.conn] = 201]
     /\ clients' = [clients EXCEPT ![i].fed = Size, ![i].parserFd = IF done THEN None ELSE @]
     /\ table' = IF done THEN After(table, {c.parserFd}) ELSE table
Refused(i) ==
  LET c == clients[i]
  IN /\ answer' = [answer EXCEPT ![c.conn] = IF c.kind = "single" THEN 500 ELSE 400]
     /\ clients' = [clients EXCEPT ![i].uploadFd = None]
     /\ table' = After(table, {c.uploadFd})
     /\ file' = [file EXCEPT ![c.conn] = << >>]

\* write() to the number the client holds: EBADF, or the bytes go to what it stands for.
readRequest(i) ==
  LET c == clients[i]
      target == IF c.kind = "single" THEN table[c.uploadFd] ELSE table[c.parserFd]
      byte == [of |-> c.conn, at |-> c.fed + 1]
  IN /\ c.kind # "none" /\ answer[c.conn] = 0
     /\ table[c.fd] = Socket(c.conn)
     /\ IF target = Closed THEN Refused(i)
        ELSE /\ file' = IF target.kind = "file" THEN [file EXCEPT ![target.of] = Append(@, byte)] ELSE file
             /\ IF c.fed + 1 = Size THEN Created(i)
                ELSE /\ clients' = [clients EXCEPT ![i].fed = @ + 1]
                     /\ UNCHANGED <<answer, table>>
     /\ UNCHANGED capacity

Next ==
  \/ \E c \in Connection : addClients(c)
  \/ \E i \in DOMAIN clients :
       \/ handleDisconnect(i)
       \/ \E kind \in Kinds : OpenUpload(i, kind)
       \/ readRequest(i)
Spec == Init /\ [][Next]_vars

-----------------------------------------------------------------------------
\* BodyStored: the body of an upload that is answered 201 is in its file, all of it and
\* nothing else ("POST body stored here", configs/config.conf of the repository).
BodyStored ==
  \A i \in DOMAIN clients :
    LET c == clients[i].conn
    IN answer[c] = 201 => file[c] = [n \in 1 .. Size |-> [of |-> c, at |-> n]]
=============================================================================
