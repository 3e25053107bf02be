------------------------------ MODULE EventLoop ------------------------------
(***************************************************************************)
(* The core of the server: the poll loop (SocketManager::runCoreLoop), the *)
(* table of clients and the pollfd vector it keeps in step, and the CGI    *)
(* children whose pipes are polled with the sockets.                       *)
(*                                                                         *)
(* The loop is one thread; each action below is one handler call of it.    *)
(* Between two of them the environment moves: peers leave, children close  *)
(* their output or exit, the clock ticks, SIGINT arrives.  The code is     *)
(* 0-based, the model 1-based: client k stands at pollfd[Slot(k)].         *)
(* POLLHUP stands for POLLHUP, POLLERR and POLLNVAL, which are always      *)
(* tested together, except on a pipe, where only POLLHUP can be raised.    *)
(***************************************************************************)
EXTENDS Integers, Sequences, FiniteSets, SequencesExt

CONSTANTS
  Listener,       \* descriptors of listening sockets
  ListenFds,      \* those polled, in the order of setListenEvent
  Fd,             \* descriptors the kernel may hand out afterwards
  Handout(_),     \* which of the free ones it may choose
  NoFd,           \* the code's -1
  Pid, NoPid,
  GarbageFd,      \* what CGIProc(true, code) may leave in _readPipe
  GarbagePid,     \* ... and in _childPid: neither is initialised
  GarbageConn,    \* what the Client constructor may leave in connectionState
  StaleRevents,   \* whether an interrupted poll() leaves revents (macOS) or clears them
  Kinds,          \* the status a request may get: CS_CGI_REQ, or CS_READING
  HeaderTimeout, CgiTimeout,
  MaxOut,         \* bound: send() calls a script's answer takes
  MaxClients,     \* bound: connections at once
  MaxLost         \* bound: descriptors that failed launches may forget

ASSUME FdAssumption ==
  /\ ListenFds \in Seq(Listener)
  /\ \A s, t \in 1 .. Len(ListenFds) : ListenFds[s] = ListenFds[t] => s = t
  /\ Listener \cap Fd = {}
  /\ NoFd \notin Fd
ASSUME HandoutAssumption == \A S \in SUBSET Fd : Handout(S) \subseteq S
ASSUME PidAssumption == NoPid \notin Pid /\ Pid \cap Fd = {}     \* lost holds both
ASSUME BoundAssumption ==
  HeaderTimeout \in Nat /\ CgiTimeout \in Nat /\ MaxOut \in Nat \ {0} /\ MaxClients \in Nat /\ MaxLost \in Nat
ASSUME KindAssumption == Kinds \subseteq {"CS_READING", "CS_CGI_REQ"}
ASSUME GarbageAssumption == GarbageConn \subseteq {"NEW", "CLOSED"} /\ StaleRevents \in BOOLEAN

VARIABLES
  pollfd,    \* std::vector<struct pollfd>
  clients,   \* Server::_client
  gRun,      \* g_run
  pc, i,     \* the part of the loop body being run, and its loop index
  cur,       \* the client whose child waitpid() is waiting for, or 0
  desc,      \* kernel: what each descriptor is
  writer,    \* kernel: the child that holds the write end of a pipe
  proc,      \* kernel: the state of each child
  lost       \* descriptors and children a failed launch forgot

loop == <<pc, i, cur>>
kernel == <<desc, writer, proc, lost>>
vars == <<pollfd, clients, gRun, pc, i, cur, desc, writer, proc, lost>>

L == Len(ListenFds)
Slot(k) == L + k
ClientIds == 1 .. Len(clients)
TailSlots == (L + Len(clients) + 1) .. Len(pollfd)

Statuses == {"CS_NEW", "CS_READING", "CS_CGI_REQ"}
ResStatuses == {"CS_NEW", "CS_START_SEND", "CS_WRITING", "CS_WRITING_DONE"}
CgiStates == {"CCS_FAILLED", "CCS_RUNNING", "CCS_DONE"}
Parts == {"poll", "timeout", "err", "accept", "cgi", "reap", "read", "respond",
          "reply", "shutdown", "stopped", "crashed"}

Client ==
  [fd : Fd, status : Statuses, res : ResStatuses, conn : {"NEW", "CLOSED"},
   exec : BOOLEAN, cgi : CgiStates, pipe : Fd \cup {NoFd} \cup GarbageFd,
   pid : Pid \cup {NoPid} \cup GarbagePid, out : 0 .. MaxOut,
   age : Nat, limit : {HeaderTimeout, CgiTimeout}]
PollEntry ==
  [fd : Listener \cup Fd, events : SUBSET {"POLLIN", "POLLOUT"},
   revents : SUBSET {"POLLIN", "POLLOUT", "POLLHUP"}]

Alive == pc \notin {"stopped", "crashed"}
IsFirst(k, S) == k \in S /\ \A j \in S : k <= j
FreeFds == {f \in Fd : desc[f] = "free"}
FreePids == {p \in Pid : proc[p] = "none"}
Events(k) == pollfd[Slot(k)].events
Revents(s) == pollfd[s].revents

\* events |= POLLOUT; events &= ~POLLIN, and the reverse.
ToSend(ev) == (ev \cup {"POLLOUT"}) \ {"POLLIN"}
ToReceive(ev) == (ev \cup {"POLLIN"}) \ {"POLLOUT"}
Watch(k, ev) == pollfd' = [pollfd EXCEPT ![Slot(k)].events = ev]
Update(k, c) == clients' = [clients EXCEPT ![k] = c]
Touched(k) == [clients[k] EXCEPT !.age = 0]        \* setStartTime(now)
GoTo(part, idx) == pc' = part /\ i' = idx /\ cur' = 0

Init ==
  /\ pollfd = [s \in 1 .. L |->
                 [fd |-> ListenFds[s], events |-> {"POLLIN"}, revents |-> {}]]
  /\ clients = << >>
  /\ gRun = TRUE
  /\ pc = "poll" /\ i = 1 /\ cur = 0
  /\ desc = [f \in Fd |-> "free"]
  /\ writer = [f \in Fd |-> NoPid]
  /\ proc = [p \in Pid |-> "none"]
  /\ lost = {}

-----------------------------------------------------------------------------
(* Server::handleDisconnect.  The child is killed and reaped, and its pipe *)
(* closed, only when the client's _readPipe is found in the tail of the    *)
(* pollfd vector; kill() and waitpid() of a value that is no child of ours *)
(* change nothing here.                                                    *)
\* Mutant: kill() without waitpid().
ReapedNever(pid) == proc
Reaped(pid) == [p \in Pid |-> IF p = pid THEN "none" ELSE proc[p]]
\* Mutant: only sockets are closed.
CloseSockets(S) ==
  /\ desc' = [f \in Fd |-> IF f \in S /\ desc[f] # "pipe" THEN "free" ELSE desc[f]]
  /\ writer' = [f \in Fd |-> IF f \in S THEN NoPid ELSE writer[f]]
Close(S) ==
  /\ desc' = [f \in Fd |-> IF f \in S THEN "free" ELSE desc[f]]
  /\ writer' = [f \in Fd |-> IF f \in S THEN NoPid ELSE writer[f]]
\* Mutant: the descriptors are not compared.
OwnSlotsAny(c) == {s \in TailSlots : c.pipe # NoFd}
OwnSlots(c) ==
  {s \in TailSlots : c.pipe # NoFd /\ pollfd[s].fd = c.pipe}

\* Mutant: the client's entry is erased before the pipe's, whose index moves.
handleDisconnectClientFirst(k) ==
  LET c == clients[k]
  IN /\ \/ /\ OwnSlots(c) = {}
           /\ pollfd' = RemoveAt(pollfd, Slot(k))
           /\ Close({c.fd})
           /\ proc' = proc
        \/ \E s \in OwnSlots(c) :
           /\ pollfd' = RemoveAt(RemoveAt(pollfd, Slot(k)), s)
           /\ Close({c.fd, c.pipe})
           /\ proc' = Reaped(c.pid)
     /\ clients' = RemoveAt(clients, k)
     /\ UNCHANGED <<gRun, lost>>
handleDisconnect(k) ==
  LET c == clients[k]
  IN /\ \/ /\ OwnSlots(c) = {}
           /\ pollfd' = RemoveAt(pollfd, Slot(k))
           /\ Close({c.fd})
           /\ proc' = proc
        \/ \E s \in OwnSlots(c) :
           /\ IsFirst(s, OwnSlots(c))
           /\ pollfd' = RemoveAt(RemoveAt(pollfd, s), Slot(k))
           /\ Close({c.fd, c.pipe})
           /\ proc' = Reaped(c.pid)
     /\ clients' = RemoveAt(clients, k)
     /\ UNCHANGED <<gRun, lost>>

-----------------------------------------------------------------------------
(* PollingForEvents: poll() returns when a descriptor is ready or when the *)
(* deadline of wsrv_find_next_timeout is reached.                          *)
\* Mutant: a client whose script runs has no deadline.
ExpiredIdle == {k \in ClientIds : ~clients[k].exec /\ clients[k].age >= clients[k].limit}
Expired == {k \in ClientIds : clients[k].age >= clients[k].limit}
AtEof(f) == desc[f] = "pipe" /\ (writer[f] \in Pid => proc[writer[f]] # "running")
HungUp(f) == f \in Fd /\ (desc[f] = "gone" \/ AtEof(f))
PollResult(ready) ==
  [s \in 1 .. Len(pollfd) |->
     [pollfd[s] EXCEPT !.revents =
        (IF s \in ready THEN pollfd[s].events ELSE {})
          \cup (IF HungUp(pollfd[s].fd) THEN {"POLLHUP"} ELSE {})]]
MayBeReady ==
  {s \in 1 .. Len(pollfd) :
     pollfd[s].events # {} /\ ~(pollfd[s].fd \in Fd /\ AtEof(pollfd[s].fd))}

PollReturns ==
  /\ pc = "poll"
  /\ \E ready \in SUBSET MayBeReady :
       /\ pollfd' = PollResult(ready)
       /\ \/ Expired # {}
          \/ \E s \in 1 .. Len(pollfd) : pollfd'[s].revents # {}
  /\ GoTo("timeout", 1)
  /\ UNCHANGED <<clients, gRun, kernel>>

\* wsrv_timeout_closer
CloseTimedOut ==
  /\ pc = "timeout"
  /\ \E k \in Expired :
       /\ IsFirst(k, {j \in Expired : j >= i})
       /\ handleDisconnect(k)
       /\ GoTo("timeout", k)
TimeoutsDone ==
  /\ pc = "timeout"
  /\ \A k \in Expired : k < i
  /\ GoTo("err", 1)
  /\ UNCHANGED <<pollfd, clients, gRun, kernel>>

(* handlErrCloses: the index runs over pollfd, from portCounter(), but is  *)
(* compared with the number of clients.                                    *)
ErrScanned(k) == Slot(k) <= Len(clients)
HungUpClients ==
  {k \in ClientIds : k >= i /\ ErrScanned(k) /\ "POLLHUP" \in Revents(Slot(k))}
CloseHungUp ==
  /\ pc = "err"
  /\ \E k \in HungUpClients :
       /\ IsFirst(k, HungUpClients)
       /\ handleDisconnect(k)
       /\ GoTo("err", k)
ErrDone ==
  /\ pc = "err"
  /\ HungUpClients = {}
  /\ GoTo("accept", 1)
  /\ UNCHANGED <<pollfd, clients, gRun, kernel>>

-----------------------------------------------------------------------------
(* checkForNewClients and Server::addClients.  connectionState and         *)
(* _cltCgiState are not initialised; the second is never read before it is *)
(* set.  A failed accept() throws out of main.                             *)
Pending == {s \in 1 .. L : s >= i /\ "POLLIN" \in Revents(s)}
NewClient(f, conn) ==
  [fd |-> f, status |-> "CS_NEW", res |-> "CS_NEW", conn |-> conn,
   exec |-> FALSE, cgi |-> "CCS_FAILLED", pipe |-> NoFd, pid |-> NoPid,
   out |-> 0, age |-> 0, limit |-> HeaderTimeout]

\* Mutant: push_back.
NewSlotLast == Len(pollfd) + 1
NewSlot == L + Len(clients) + 1          \* after the clients, before the pipes

AcceptClient ==
  /\ pc = "accept" /\ Len(clients) < MaxClients
  /\ \E s \in Pending, f \in Handout(FreeFds), conn \in GarbageConn :
       /\ IsFirst(s, Pending)
       /\ clients' = Append(clients, NewClient(f, conn))
       /\ pollfd' = InsertAt(pollfd, NewSlot,
                       [fd |-> f, events |-> {"POLLIN"}, revents |-> {}])
       /\ desc' = [desc EXCEPT ![f] = "peer"]
       /\ GoTo("accept", s + 1)
  /\ UNCHANGED <<gRun, writer, proc, lost>>

\* The process ends: the kernel closes what it held, its children run on.
Ends(part, procs) ==
  /\ pollfd' = << >> /\ clients' = << >>
  /\ Close(Fd)
  /\ proc' = procs
  /\ GoTo(part, 1)
  /\ UNCHANGED <<gRun, lost>>
AcceptFails == pc = "accept" /\ Pending # {} /\ Ends("crashed", proc)
AcceptDone ==
  /\ pc = "accept"
  /\ Pending = {}
  /\ GoTo("cgi", L + Len(clients) + 1)
  /\ UNCHANGED <<pollfd, clients, gRun, kernel>>

-----------------------------------------------------------------------------
(* cgiEventsChecking.  getClientReqCGI finds the first client with this    *)
(* pipe.  When none is found the code returns _client[0]; its pipe differs *)
(* and the entry is skipped (with no client at all, that read is undefined *)
(* and the model skips the entry too).                                     *)
ReadyPipes == {s \in TailSlots : s >= i /\ Revents(s) \cap {"POLLIN", "POLLHUP"} # {}}
Readers(s) == {k \in ClientIds : clients[k].pipe = pollfd[s].fd}

ReadPipe ==        \* readChild returned with data, or no client has this pipe
  /\ pc = "cgi"
  /\ \E s \in ReadyPipes :
       /\ IsFirst(s, ReadyPipes)
       /\ \/ Readers(s) = {} /\ UNCHANGED clients
          \/ \E k \in Readers(s) :
               /\ IsFirst(k, Readers(s))
               /\ ~AtEof(pollfd[s].fd)
               /\ Update(k, [clients[k] EXCEPT !.cgi = "CCS_RUNNING"])
       /\ GoTo("cgi", s + 1)
  /\ UNCHANGED <<pollfd, gRun, kernel>>

\* read() returned 0 (CCS_DONE) or failed (CCS_FAILLED): every slot with the
\* client's descriptor is set to POLLOUT, the pipe is closed, its entry erased,
\* and generate_CGI_Response goes on to waitpid().
\* Mutant: the last client is left out.
WakeShort(f) ==
  [s \in 1 .. Len(pollfd) |->
     IF s \in Slot(1) .. Slot(Len(clients) - 1) /\ pollfd[s].fd = f
       THEN [pollfd[s] EXCEPT !.events = ToSend(pollfd[s].events)]
       ELSE pollfd[s]]
Wake(f) ==
  [s \in 1 .. Len(pollfd) |->
     IF s \in Slot(1) .. Slot(Len(clients)) /\ pollfd[s].fd = f
       THEN [pollfd[s] EXCEPT !.events = ToSend(pollfd[s].events)]
       ELSE pollfd[s]]
ScriptClosedOutput ==
  /\ pc = "cgi"
  /\ \E s \in ReadyPipes, result \in {"CCS_DONE", "CCS_FAILLED"} :
       /\ IsFirst(s, ReadyPipes)
       /\ \E k \in Readers(s) :
            /\ IsFirst(k, Readers(s))
            /\ result = "CCS_DONE" => AtEof(pollfd[s].fd)
            /\ pollfd' = RemoveAt(Wake(clients[k].fd), s)
            /\ Update(k, [clients[k] EXCEPT !.cgi = result, !.pipe = NoFd])
            /\ Close({pollfd[s].fd})
            /\ cur' = k
       /\ i' = s          \* the erased slot; the loop resumes after it
       /\ pc' = "reap"
  /\ UNCHANGED <<gRun, proc, lost>>

(* generate_CGI_Response: a blocking waitpid().  Only a clean exit resets  *)
(* _childPid.  i++ then steps over the entry that moved into slot i.       *)
ScriptReaped ==
  /\ pc = "reap"
  /\ LET pid == clients[cur].pid
     IN /\ pid \in Pid => proc[pid] \in {"none", "exited"}
        /\ \E n \in 1 .. MaxOut, left \in {NoPid, pid} :
             Update(cur, [clients[cur] EXCEPT !.out = n, !.pid = left])
        /\ proc' = Reaped(pid)
  /\ GoTo("cgi", i + 1)
  /\ UNCHANGED <<pollfd, gRun, desc, writer, lost>>

PipesDone ==
  /\ pc = "cgi"
  /\ ReadyPipes = {}
  /\ GoTo("read", 1)
  /\ UNCHANGED <<pollfd, clients, gRun, kernel>>

-----------------------------------------------------------------------------
(* The request part of the last loop of runCoreLoop, and readRequest.      *)
Ready == {k \in ClientIds : k >= i /\ Revents(Slot(k)) \cap {"POLLIN", "POLLOUT"} # {}}
Receiving(k) == pc = "read" /\ IsFirst(k, Ready) /\ "POLLIN" \in Revents(Slot(k))

\* CS_READING: an incomplete request, or a failed recv() (status unchanged).
ReadMore(k) ==
  /\ Receiving(k)
  /\ \E status \in {clients[k].status}
          \cup (IF clients[k].status = "CS_NEW" THEN {"CS_READING"} ELSE {}) :
       Update(k, [Touched(k) EXCEPT !.status = status])
  /\ GoTo("read", k + 1)
  /\ UNCHANGED <<pollfd, gRun, kernel>>

\* CS_READING_DONE: the whole request was parsed and its response prepared;
\* an oversized CGI body also asks for the connection to be closed.
ReadDone(k) ==
  /\ Receiving(k)
  /\ \E status \in Kinds, conn \in {clients[k].conn, "CLOSED"} :
       /\ conn # clients[k].conn => status = "CS_READING"
       /\ Update(k, [Touched(k) EXCEPT !.status = status, !.conn = conn,
                                       !.res = "CS_START_SEND"])
  /\ Watch(k, ToSend(Events(k)))
  /\ IF "POLLOUT" \in Revents(Slot(k)) THEN GoTo("respond", k)
                                      ELSE GoTo("read", k + 1)
  /\ UNCHANGED <<gRun, kernel>>

PeerClosed(k) == Receiving(k) /\ handleDisconnect(k) /\ GoTo("read", k)

-----------------------------------------------------------------------------
(* The response part: a CGI request not yet run.                           *)
Responding(k) ==
  \/ pc = "respond" /\ k = i
  \/ pc = "read" /\ IsFirst(k, Ready) /\ "POLLIN" \notin Revents(Slot(k))
NextClient(k) == GoTo("read", k + 1)
Drop(k) == handleDisconnect(k) /\ GoTo("read", k)

ToLaunch(k) == Responding(k) /\ clients[k].status = "CS_CGI_REQ" /\ ~clients[k].exec

\* cgiHandle forks, isCgiRequest appends the pipe and stops watching POLLOUT.
\* Mutant: _alreadyExec is not set.
RunningUnmarked(c, f, p) ==
  [c EXCEPT !.age = 0, !.limit = CgiTimeout, !.cgi = "CCS_RUNNING", !.pipe = f, !.pid = p]
Running(c, f, p) ==
  [c EXCEPT !.age = 0, !.limit = CgiTimeout, !.exec = TRUE, !.cgi = "CCS_RUNNING",
            !.pipe = f, !.pid = p]
LaunchScript(k) ==
  /\ ToLaunch(k)
  /\ \E f \in Handout(FreeFds), p \in FreePids :
       /\ Update(k, Running(clients[k], f, p))
       /\ pollfd' = Append([pollfd EXCEPT ![Slot(k)].events = Events(k) \ {"POLLOUT"}],
                           [fd |-> f, events |-> {"POLLIN"}, revents |-> {}])
       /\ desc' = [desc EXCEPT ![f] = "pipe"]
       /\ writer' = [writer EXCEPT ![f] = p]
       /\ proc' = [proc EXCEPT ![p] = "running"]
  /\ NextClient(k)
  /\ UNCHANGED <<gRun, lost>>

(* cgiHandle's error returns: access() or fork() fails; the second pipe()  *)
(* fails and both ends of the first stay open; or the child is running     *)
(* when writing its body fails, and the child and a descriptor of each     *)
(* pipe are forgotten.  The error page is then sent from here.             *)
FailedLaunch(fds, pids) ==
  /\ Cardinality(fds) \in {0, 2} /\ Cardinality(pids) <= 1
  /\ fds = {} => pids = {}
  /\ Cardinality(lost \cap Fd) + Cardinality(fds) <= MaxLost
  /\ lost' = lost \cup fds \cup pids
  /\ proc' = [p \in Pid |-> IF p \in pids THEN "running" ELSE proc[p]]
Failed(c, f, p) ==
  [c EXCEPT !.age = 0, !.limit = CgiTimeout, !.exec = FALSE, !.cgi = "CCS_FAILLED",
            !.pipe = f, !.pid = p]
LaunchFails(k) ==
  /\ ToLaunch(k)
  /\ \E fds \in SUBSET FreeFds, pids \in SUBSET FreePids :
       /\ FailedLaunch(fds, pids)
       /\ desc' = [f \in Fd |-> IF f \in fds THEN "pipe" ELSE desc[f]]
  /\ \E f \in GarbageFd, p \in GarbagePid : Update(k, Failed(clients[k], f, p))
  /\ GoTo("reply", k)
  /\ UNCHANGED <<pollfd, gRun, writer>>

\* CGI_errorResponse: the error page is sent, or the client is dropped.
ErrorPageSent ==
  /\ pc = "reply"
  /\ Update(i, [clients[i] EXCEPT !.limit = HeaderTimeout, !.status = "CS_NEW"])
  /\ Watch(i, ToReceive(Events(i)))
  /\ NextClient(i)
  /\ UNCHANGED <<gRun, kernel>>
ErrorPageFails == pc = "reply" /\ Drop(i)

-----------------------------------------------------------------------------
(* The response part: a CGI request whose script was run.                  *)
Launched(k) == Responding(k) /\ clients[k].status = "CS_CGI_REQ" /\ clients[k].exec
ToRelay(k) == Launched(k) /\ clients[k].cgi = "CCS_DONE"

\* _cgiOut._output is empty: everything was sent.
Rearmed(c) ==
  [c EXCEPT !.age = 0, !.limit = HeaderTimeout, !.status = "CS_NEW", !.exec = FALSE]
ScriptAnswered(k) ==
  /\ ToRelay(k)
  /\ clients[k].out = 0
  /\ Update(k, Rearmed(clients[k]))
  /\ Watch(k, ToReceive(Events(k)))
  /\ NextClient(k)
  /\ UNCHANGED <<gRun, kernel>>

\* Mutant: an empty output is not looked for.
RelayOutputAlways(k) ==
  /\ ToRelay(k)
  /\ \E sent \in {0, 1} : Update(k, [Touched(k) EXCEPT !.out = @ - sent])
  /\ NextClient(k)
  /\ UNCHANGED <<pollfd, gRun, kernel>>
\* send() took some bytes, or returned an error.
RelayOutput(k) ==
  /\ ToRelay(k)
  /\ clients[k].out > 0
  /\ \E sent \in {0, 1} : Update(k, [Touched(k) EXCEPT !.out = @ - sent])
  /\ NextClient(k)
  /\ UNCHANGED <<pollfd, gRun, kernel>>
RelayReturnsZero(k) == ToRelay(k) /\ clients[k].out > 0 /\ Drop(k)

\* Reading the pipe failed, or POLLOUT is stale: no branch of the loop applies.
NothingToDo(k) ==
  /\ Launched(k)
  /\ clients[k].cgi # "CCS_DONE"
  /\ Update(k, Touched(k))
  /\ NextClient(k)
  /\ UNCHANGED <<pollfd, gRun, kernel>>

-----------------------------------------------------------------------------
(* The response part: any other request.  sendResponse fills the buffer    *)
(* and says how far it is; only with the first bytes may it ask for the    *)
(* connection to be closed.  A response that was CS_WRITING_DONE before a  *)
(* failed send() is finished without another one.                          *)
Static(k) == Responding(k) /\ clients[k].status # "CS_CGI_REQ"
ToSendStatic(k) == Static(k) /\ clients[k].res # "CS_WRITING_DONE"
MayAsk(k) == {clients[k].conn} \cup (IF clients[k].res = "CS_START_SEND" THEN {"CLOSED"} ELSE {})
Filled(k) ==
  {[Touched(k) EXCEPT !.res = r[1], !.conn = r[2]] :
     r \in {"CS_WRITING", "CS_WRITING_DONE"} \X MayAsk(k)}

SendReturnsZero(k) == ToSendStatic(k) /\ Drop(k)

\* send() fails, or takes bytes of a response that is not done.
SendMore(k) ==
  /\ ToSendStatic(k)
  /\ \E c \in Filled(k) : Update(k, c)
  /\ NextClient(k)
  /\ UNCHANGED <<pollfd, gRun, kernel>>

\* CS_WRITING_DONE: close, or wait for the next request.
ResponseDone(k) ==
  /\ Static(k)
  /\ \E c \in IF clients[k].res = "CS_WRITING_DONE" THEN {Touched(k)} ELSE Filled(k) :
       /\ c.res = "CS_WRITING_DONE" /\ c.conn = "NEW"
       /\ Update(k, [c EXCEPT !.status = "CS_NEW"])
  /\ Watch(k, ToReceive(Events(k)))
  /\ NextClient(k)
  /\ UNCHANGED <<gRun, kernel>>
CloseAfterResponse(k) ==
  /\ Static(k)
  /\ \E c \in IF clients[k].res = "CS_WRITING_DONE" THEN {Touched(k)} ELSE Filled(k) :
       c.res = "CS_WRITING_DONE" /\ c.conn = "CLOSED"
  /\ Drop(k)

\* The next poll() writes every revents, so they are cleared here already when
\* no outcome of it leaves them as they are.
Unsignalled == [s \in 1 .. Len(pollfd) |-> [pollfd[s] EXCEPT !.revents = {}]]
\* Mutant: g_run, which is not volatile, is read once.
ClientsDoneForever ==
  /\ pc = "read"
  /\ Ready = {}
  /\ GoTo("poll", 1)
  /\ pollfd' = IF StaleRevents THEN pollfd ELSE Unsignalled
  /\ UNCHANGED <<clients, gRun, kernel>>
ClientsDone ==
  /\ pc = "read"
  /\ Ready = {}
  /\ GoTo(IF gRun THEN "poll" ELSE "shutdown", 1)
  /\ pollfd' = IF StaleRevents THEN pollfd ELSE Unsignalled
  /\ UNCHANGED <<clients, gRun, kernel>>

\* closeClientsSockets kills and reaps every _childPid; then closeListenSockets.
\* Mutant: the first client is skipped.
KilledButFirst == {clients[k].pid : k \in ClientIds \ {1}}
KilledAtShutdown == {clients[k].pid : k \in ClientIds}
Shutdown ==
  /\ pc = "shutdown"
  /\ Ends("stopped",
          [p \in Pid |-> IF p \in KilledAtShutdown THEN "none" ELSE proc[p]])

-----------------------------------------------------------------------------
(* The environment.  Peers and children are only observed by poll() and    *)
(* waitpid(), and gRun only after the loop body, so their steps commute    *)
(* with every other step of the body and are taken while the server is in  *)
(* poll() or waitpid().  A Sigint that leaves the server in poll() was     *)
(* delivered before the call, or will be while the body runs.              *)
PeerLeaves(f) ==
  /\ pc = "poll" /\ desc[f] = "peer"
  /\ desc' = [desc EXCEPT ![f] = "gone"]
  /\ UNCHANGED <<pollfd, clients, gRun, loop, writer, proc, lost>>
ChildMoves(p, from, to) ==
  /\ pc \in {"poll", "reap"} /\ proc[p] \in from
  /\ proc' = [proc EXCEPT ![p] = to]
  /\ UNCHANGED <<pollfd, clients, gRun, loop, desc, writer, lost>>
ChildClosesOutput(p) == ChildMoves(p, {"running"}, "closed")
ChildExits(p) == ChildMoves(p, {"running", "closed"}, "exited")

\* Ages stop at the limit they are compared with.
Tick ==
  /\ pc \in {"poll", "reap"}
  /\ clients' = [k \in ClientIds |->
       [clients[k] EXCEPT !.age = IF @ < clients[k].limit THEN @ + 1 ELSE @]]
  /\ clients' # clients
  /\ UNCHANGED <<pollfd, gRun, loop, kernel>>

\* signalHandler.
Sigint ==
  /\ gRun /\ pc \in {"poll", "reap"}
  /\ gRun' = FALSE
  /\ UNCHANGED <<pollfd, loop, clients, kernel>>
\* The signal ends poll() with EINTR: the timeouts are not looked at, and
\* revents are cleared, or left as the last poll() set them.
PollInterrupted ==
  /\ gRun /\ pc = "poll"
  /\ gRun' = FALSE
  /\ pollfd' = IF StaleRevents THEN pollfd ELSE Unsignalled
  /\ GoTo("err", 1)
  /\ UNCHANGED <<clients, kernel>>

Terminated == ~Alive /\ UNCHANGED vars

-----------------------------------------------------------------------------
Polling == PollReturns \/ CloseTimedOut \/ TimeoutsDone \/ CloseHungUp \/ ErrDone
Accepting == AcceptClient \/ AcceptFails \/ AcceptDone
Scripts == ReadPipe \/ ScriptClosedOutput \/ ScriptReaped \/ PipesDone
Serving(k) ==
  \/ ReadMore(k) \/ ReadDone(k) \/ PeerClosed(k)
  \/ LaunchScript(k) \/ LaunchFails(k)
  \/ ScriptAnswered(k) \/ RelayOutput(k) \/ RelayReturnsZero(k) \/ NothingToDo(k)
  \/ SendReturnsZero(k) \/ SendMore(k) \/ ResponseDone(k) \/ CloseAfterResponse(k)
Server ==
  \/ Polling \/ Accepting \/ Scripts
  \/ \E k \in ClientIds : Serving(k)
  \/ ErrorPageSent \/ ErrorPageFails
  \/ ClientsDone \/ Shutdown
Environment ==
  \/ \E f \in Fd : PeerLeaves(f)
  \/ \E p \in Pid : ChildClosesOutput(p) \/ ChildExits(p)
  \/ Tick \/ Sigint \/ PollInterrupted

Next == Server \/ Environment \/ Terminated
Spec == Init /\ [][Next]_vars

-----------------------------------------------------------------------------
(* Fairness.  The loop is a running thread; poll() returns once a deadline *)
(* has passed or a descriptor hung up, and is not obliged to otherwise.    *)
(* Time passes only while the server blocks, so it needs strong fairness.  *)
(* A child waited for exits: waitpid() has no deadline and counts on it.   *)
Due == Expired # {} \/ \E s \in 1 .. Len(pollfd) : HungUp(pollfd[s].fd)
Fairness ==
  /\ WF_vars(pc # "poll" /\ Server)
  /\ WF_vars(Due /\ PollReturns)
  /\ SF_vars(Tick)
  /\ \A p \in Pid : WF_vars(pc = "reap" /\ clients[cur].pid = p /\ ChildExits(p))
FairSpec == Spec /\ Fairness

-----------------------------------------------------------------------------
(* Properties.                                                             *)
TypeOK ==
  /\ pollfd \in Seq(PollEntry)
  /\ clients \in Seq(Client)
  /\ gRun \in BOOLEAN
  /\ pc \in Parts /\ i \in Nat /\ cur \in Nat
  /\ desc \in [Fd -> {"free", "peer", "gone", "pipe"}]
  /\ writer \in [Fd -> Pid \cup {NoPid}]
  /\ proc \in [Pid -> {"none", "running", "closed", "exited"}]
  /\ lost \subseteq Fd \cup Pid

\* pollfd is [listening sockets][clients][CGI pipes], the clients in the order
\* of Server::_client (server.cpp:64-67): every index computed from
\* portCounter() lands on the entry it is meant for.
Aligned ==
  /\ L + Len(clients) <= Len(pollfd)
  /\ \A s \in 1 .. L : pollfd[s].fd = ListenFds[s] /\ pollfd[s].events = {"POLLIN"}
  /\ \A k \in ClientIds : pollfd[Slot(k)].fd = clients[k].fd
  /\ \A s \in TailSlots : pollfd[s].fd \in Fd /\ pollfd[s].events = {"POLLIN"}
Layout == Alive => Aligned

\* With these the first two are inductive: what i and cur point to between two
\* steps of the same part is a client.
IndexOK ==
  /\ pc \in {"reply", "respond"} => i \in ClientIds
  /\ pc = "reap" => cur \in ClientIds
IInv == TypeOK /\ Layout /\ IndexOK

RunsScript(k) == clients[k].exec /\ clients[k].cgi = "CCS_RUNNING"
\* A polled pipe has exactly one client, the one whose script writes to it
\* (getClientReqCGI never reaches its last line), and it can still be closed
\* and its child killed through that client.
PipesOwned ==
  \A s \in TailSlots :
    \E k \in ClientIds :
      /\ RunsScript(k)
      /\ clients[k].pid = writer[pollfd[s].fd]
      /\ {j \in ClientIds : clients[j].pipe = pollfd[s].fd} = {k}

\* The pipe of a running script is polled.
ScriptPolled ==
  \A k \in ClientIds :
    RunsScript(k) => \E s \in TailSlots : pollfd[s].fd = clients[k].pipe

\* A client polled for nothing is waiting for a script, so something other
\* than its timeout wakes it; no client is polled for both directions.
NoForgottenClient ==
  \A k \in ClientIds :
    /\ Events(k) # {"POLLIN", "POLLOUT"}
    /\ Events(k) = {} <=> RunsScript(k)

\* Every child that was not reaped has a client that will kill or reap it,
\* except those a failed launch forgot; and the child of a polled pipe was
\* not reaped, so a kill never reaches a recycled pid.
ChildAccounted ==
  Alive => \A p \in Pid :
    \/ p \in lost
    \/ proc[p] = "none"
       <=> ~\E k \in ClientIds :
              clients[k].pid = p /\ (RunsScript(k) \/ (pc = "reap" /\ cur = k))

\* No descriptor is leaked or closed twice: the open ones are those polled,
\* each once, and those a failed launch forgot.
DescriptorsAccounted ==
  Alive =>
    /\ \A s, t \in 1 .. Len(pollfd) : pollfd[s].fd = pollfd[t].fd => s = t
    /\ {f \in Fd : desc[f] # "free"}
         = (lost \cap Fd) \cup {pollfd[s].fd : s \in (L + 1) .. Len(pollfd)}

\* A server that stopped on SIGINT leaves no child it knew of.
CleanStop == pc = "stopped" => \A p \in Pid : proc[p] = "none" \/ p \in lost

\* A script's run ends: by its output's end, or by the client's timeout.
ScriptEnds == \A f \in Fd :
  (\E s \in TailSlots : pollfd[s].fd = f) ~> ~(\E s \in TailSlots : pollfd[s].fd = f)

\* A SIGINT stops the server, if poll() is not entered after it with no client.
SigintStops == ~gRun /\ (pc # "poll" \/ clients # << >>) ~> ~Alive

\* The connections, as ConnTable promises them.
Phase(f) ==
  IF \A k \in ClientIds : clients[k].fd # f THEN "none"
  ELSE LET k == CHOOSE k \in ClientIds : clients[k].fd = f
       IN CASE Events(k) = {"POLLIN"} -> "receiving"
            [] Events(k) = {} -> "script"
            [] OTHER -> IF clients[k].exec THEN "relaying" ELSE "answering"
Connections == INSTANCE ConnTable WITH phase <- [f \in Fd |-> Phase(f)]
ConnectionsSpec == Connections!Spec

\* handlErrCloses leaves no client whose descriptor reported an error.
ErrorsHandled ==
  pc = "accept" => \A k \in ClientIds : "POLLHUP" \notin Revents(Slot(k))

-----------------------------------------------------------------------------
(* What makes the properties above inductive, besides IInv.                *)
ClientFds == {clients[k].fd : k \in ClientIds}
PipeFds == {pollfd[s].fd : s \in TailSlots}
Distinct(pf) == \A s, t \in 1 .. Len(pf) : pf[s].fd = pf[t].fd => s = t

\* DescriptorsAccounted, and that no descriptor is both polled and forgotten.
DInv ==
  Alive =>
    /\ Distinct(pollfd)
    /\ {f \in Fd : desc[f] # "free"} = (lost \cap Fd) \cup ClientFds \cup PipeFds
    /\ lost \cap (ClientFds \cup PipeFds) = {}

\* A client and what its entry waits for, between two handlers: polled for one
\* direction, or for none while its script runs; a request that waits for a script or
\* its output is not read over; a script's pipe is forgotten with its end.
Settled(c, ev, rev) ==
  /\ ev \in {{"POLLIN"}, {"POLLOUT"}, {}}
  /\ ev = {} <=> c.exec /\ c.cgi = "CCS_RUNNING"
  /\ c.status = "CS_CGI_REQ" => ev # {"POLLIN"}
  /\ c.exec => c.status = "CS_CGI_REQ" /\ "POLLIN" \notin rev
  /\ c.exec /\ c.cgi # "CCS_RUNNING" => c.pipe = NoFd
  /\ ~({"POLLIN", "POLLOUT"} \subseteq rev)
RInv ==
  /\ \A k \in ClientIds : Settled(clients[k], Events(k), Revents(Slot(k)))
  /\ pc # "respond"      \* no entry is ready in both directions
  /\ pc = "reply" => clients[i].status = "CS_CGI_REQ" /\ ~clients[i].exec

\* An uninitialised _readPipe is no descriptor the server may open.
HarmlessGarbage == GarbageFd \cap Fd = {}
Busy(k) == RunsScript(k) \/ (pc = "reap" /\ cur = k)
SInv ==
  Alive =>
    /\ \A f \in PipeFds : \E k \in ClientIds :
         RunsScript(k) /\ clients[k].pipe = f /\ clients[k].pid = writer[f]
    /\ \A k \in ClientIds :
         /\ RunsScript(k) => clients[k].pipe \in PipeFds
         /\ clients[k].pipe \in Fd => RunsScript(k)
         /\ Busy(k) =>
              clients[k].pid \in Pid /\ proc[clients[k].pid] # "none" /\ clients[k].pid \notin lost
    /\ \A j, k \in ClientIds : j # k =>
         /\ RunsScript(j) /\ RunsScript(k) => clients[j].pipe # clients[k].pipe
         /\ Busy(j) /\ Busy(k) => clients[j].pid # clients[k].pid
    /\ \A p \in Pid : proc[p] # "none" =>
         p \in lost \/ \E k \in ClientIds : Busy(k) /\ clients[k].pid = p
    /\ \A p \in lost \cap Pid : proc[p] # "none"
    /\ pc = "reap" => ~RunsScript(cur)
=============================================================================
