--------------------------- MODULE EventLoopProofs ---------------------------
(***************************************************************************)
(* TypeOK and Layout hold of the event loop for every set of listeners,    *)
(* descriptors and children, every choice of the kernel, every value an    *)
(* uninitialised member may have, and every bound.                         *)
(*                                                                         *)
(* The first lemmas are about the two vectors alone: what a push_back, an  *)
(* insert, an erase or a rewrite in place does to the layout.  Then there  *)
(* is one lemma per handler, and the induction puts them together.         *)
(*                                                                         *)
(* The second part says what each handler does to the clients, to the      *)
(* entries they stand behind and to the set of pipes that are polled, with *)
(* the indices computed once and for all: StepKinds.  The last part proves *)
(* the safety properties and the refinement of ConnTable from that, which  *)
(* does not mention erase() and insert() any more.                         *)
(***************************************************************************)
EXTENDS EventLoop, SequenceLemmas

AlignedWith(pf, cl) ==
  /\ L + Len(cl) <= Len(pf)
  /\ \A s \in 1 .. L : pf[s].fd = ListenFds[s] /\ pf[s].events = {"POLLIN"}
  /\ \A k \in 1 .. Len(cl) : pf[L + k].fd = cl[k].fd
  /\ \A s \in (L + Len(cl) + 1) .. Len(pf) : pf[s].fd \in Fd /\ pf[s].events = {"POLLIN"}
Vectors(pf, cl) ==
  pf \in Seq(PollEntry) /\ cl \in Seq(Client) /\ AlignedWith(pf, cl)
KernelOK ==
  /\ desc \in [Fd -> {"free", "peer", "gone", "pipe"}]
  /\ writer \in [Fd -> Pid \cup {NoPid}]
  /\ proc \in [Pid -> {"none", "running", "closed", "exited"}]
  /\ lost \subseteq Fd \cup Pid

\* The number of polled listeners is a natural number.
LEMMA ListenersCounted == L \in Nat
BY FdAssumption, LenProperties DEF L

\* The invariant, in the vocabulary of the lemmas below.
LEMMA InvariantParts ==
  IInv <=> /\ pollfd \in Seq(PollEntry) /\ clients \in Seq(Client)
           /\ Alive => AlignedWith(pollfd, clients)
           /\ KernelOK /\ gRun \in BOOLEAN
           /\ pc \in Parts /\ i \in Nat /\ cur \in Nat
           /\ IndexOK
BY DEF IInv, TypeOK, Layout, Aligned, AlignedWith, KernelOK, Slot, ClientIds, TailSlots

-----------------------------------------------------------------------------
\* Erasing a client and its entry keeps the layout.
LEMMA EraseClient ==
  ASSUME NEW pf, NEW cl, Vectors(pf, cl), NEW k \in 1 .. Len(cl)
  PROVE  Vectors(RemoveAt(pf, L + k), RemoveAt(cl, k))
<1> DEFINE q == RemoveAt(pf, L + k)
           c == RemoveAt(cl, k)
<1>0. L \in Nat /\ Len(pf) \in Nat /\ Len(cl) \in Nat /\ k \in Nat
      /\ L + Len(cl) <= Len(pf) /\ L + k \in 1 .. Len(pf)
  BY ListenersCounted, LenProperties DEF Vectors, AlignedWith
<1>1. /\ q \in Seq(PollEntry) /\ Len(q) = Len(pf) - 1
      /\ \A j \in 1 .. Len(pf) - 1 : q[j] = IF j < L + k THEN pf[j] ELSE pf[j + 1]
  BY <1>0, RemoveAtProps DEF Vectors
<1>2. /\ c \in Seq(Client) /\ Len(c) = Len(cl) - 1
      /\ \A j \in 1 .. Len(cl) - 1 : c[j] = IF j < k THEN cl[j] ELSE cl[j + 1]
  BY <1>0, RemoveAtProps DEF Vectors
<1> HIDE DEF q, c
<1>a. /\ \A s \in 1 .. L : pf[s].fd = ListenFds[s] /\ pf[s].events = {"POLLIN"}
      /\ \A j \in 1 .. Len(cl) : pf[L + j].fd = cl[j].fd
  BY DEF Vectors, AlignedWith
<1>3. ASSUME NEW s \in 1 .. L PROVE q[s].fd = ListenFds[s] /\ q[s].events = {"POLLIN"}
  <2>1. s \in 1 .. Len(pf) - 1 /\ s < L + k
    BY <1>0
  <2> QED BY <1>1, <1>a, <2>1
<1>4. ASSUME NEW j \in 1 .. Len(c) PROVE q[L + j].fd = c[j].fd
  <2>1. CASE j < k
    <3>1. j \in 1 .. Len(cl) - 1 /\ j \in 1 .. Len(cl)
      BY <1>0, <1>2
    <3>2. L + j \in 1 .. Len(pf) - 1 /\ L + j < L + k
      BY <1>0, <2>1, <3>1
    <3>3. q[L + j] = pf[L + j]
      BY <1>1, <3>2
    <3>4. c[j] = cl[j]
      BY <1>2, <2>1, <3>1
    <3> QED BY <1>a, <3>1, <3>3, <3>4
  <2>2. CASE ~(j < k)
    <3>1. j \in 1 .. Len(cl) - 1 /\ j + 1 \in 1 .. Len(cl)
      BY <1>0, <1>2
    <3>2. L + j \in 1 .. Len(pf) - 1 /\ ~(L + j < L + k) /\ (L + j) + 1 = L + (j + 1)
      BY <1>0, <2>2, <3>1
    <3>3. q[L + j] = pf[(L + j) + 1] /\ c[j] = cl[j + 1]
      BY <1>1, <1>2, <2>2, <3>1, <3>2
    <3> QED BY <1>a, <3>1, <3>2, <3>3
  <2> QED BY <2>1, <2>2
<1>5. ASSUME NEW s \in (L + Len(c) + 1) .. Len(q)
      PROVE  q[s].fd \in Fd /\ q[s].events = {"POLLIN"}
  <2>1. q[s] = pf[s + 1] /\ s + 1 \in (L + Len(cl) + 1) .. Len(pf)
    BY <1>0, <1>1, <1>2
  <2> QED BY <2>1 DEF Vectors, AlignedWith
<1>6. L + Len(c) <= Len(q)
  BY <1>0, <1>1, <1>2
<1>7. AlignedWith(q, c)
  BY <1>3, <1>4, <1>5, <1>6 DEF AlignedWith
<1> QED BY <1>1, <1>2, <1>7 DEF Vectors, q, c

\* Erasing a pipe's entry keeps the layout.
LEMMA ErasePipe ==
  ASSUME NEW pf, NEW cl, Vectors(pf, cl), NEW s \in (L + Len(cl) + 1) .. Len(pf)
  PROVE  Vectors(RemoveAt(pf, s), cl)
<1> DEFINE q == RemoveAt(pf, s)
<1>0. L \in Nat /\ Len(pf) \in Nat /\ Len(cl) \in Nat /\ s \in 1 .. Len(pf)
  BY ListenersCounted, LenProperties DEF Vectors, AlignedWith
<1>1. /\ q \in Seq(PollEntry) /\ Len(q) = Len(pf) - 1
      /\ \A j \in 1 .. Len(pf) - 1 : q[j] = IF j < s THEN pf[j] ELSE pf[j + 1]
  BY <1>0, RemoveAtProps DEF Vectors
<1> HIDE DEF q
<1>2. ASSUME NEW j \in 1 .. L + Len(cl) PROVE q[j] = pf[j]
  BY <1>0, <1>1
<1>3. ASSUME NEW j \in (L + Len(cl) + 1) .. Len(q)
      PROVE  q[j].fd \in Fd /\ q[j].events = {"POLLIN"}
  <2>1. \/ q[j] = pf[j] /\ j \in (L + Len(cl) + 1) .. Len(pf)
        \/ q[j] = pf[j + 1] /\ j + 1 \in (L + Len(cl) + 1) .. Len(pf)
    BY <1>0, <1>1
  <2> QED BY <2>1 DEF Vectors, AlignedWith
<1>4. ASSUME NEW j \in 1 .. L PROVE q[j].fd = ListenFds[j] /\ q[j].events = {"POLLIN"}
  <2>1. q[j] = pf[j]
    BY <1>0, <1>2
  <2> QED BY <2>1 DEF Vectors, AlignedWith
<1>5. ASSUME NEW k \in 1 .. Len(cl) PROVE q[L + k].fd = cl[k].fd
  <2>1. q[L + k] = pf[L + k]
    BY <1>0, <1>2
  <2> QED BY <2>1 DEF Vectors, AlignedWith
<1>6. L + Len(cl) <= Len(q)
  BY <1>0, <1>1
<1> QED BY <1>1, <1>3, <1>4, <1>5, <1>6 DEF Vectors, AlignedWith, q

\* A client pushed back and its entry inserted behind the others' keep it.
LEMMA InsertClient ==
  ASSUME NEW pf, NEW cl, Vectors(pf, cl), NEW e \in PollEntry, NEW c \in Client, e.fd = c.fd
  PROVE  Vectors(InsertAt(pf, L + Len(cl) + 1, e), Append(cl, c))
<1> DEFINE n == L + Len(cl) + 1
           q == InsertAt(pf, n, e)
           d == Append(cl, c)
<1>0. L \in Nat /\ Len(pf) \in Nat /\ Len(cl) \in Nat /\ n \in 1 .. Len(pf) + 1
  BY ListenersCounted, LenProperties DEF Vectors, AlignedWith
<1>1. /\ q \in Seq(PollEntry) /\ Len(q) = Len(pf) + 1
      /\ \A j \in 1 .. Len(pf) + 1 :
           q[j] = IF j < n THEN pf[j] ELSE IF j = n THEN e ELSE pf[j - 1]
  <2>1. pf \in Seq(PollEntry) /\ n \in 1 .. Len(pf) + 1
    BY <1>0 DEF Vectors
  <2> HIDE DEF n
  <2> QED BY <2>1, InsertAtProps
<1>2. /\ d \in Seq(Client) /\ Len(d) = Len(cl) + 1
      /\ \A j \in 1 .. Len(cl) : d[j] = cl[j]
      /\ d[Len(cl) + 1] = c
  BY AppendProps DEF Vectors
<1> HIDE DEF q, d
<1>3. ASSUME NEW s \in 1 .. L PROVE q[s].fd = ListenFds[s] /\ q[s].events = {"POLLIN"}
  <2>1. s \in 1 .. Len(pf) + 1 /\ s < n
    BY <1>0
  <2>2. q[s] = pf[s]
    BY <1>1, <2>1
  <2> QED BY <2>2 DEF Vectors, AlignedWith
<1>4. ASSUME NEW k \in 1 .. Len(d) PROVE q[L + k].fd = d[k].fd
  <2>1. CASE k <= Len(cl)
    <3>1. k \in 1 .. Len(cl) /\ L + k \in 1 .. Len(pf) + 1 /\ L + k < n
      BY <1>0, <1>2, <2>1
    <3>2. q[L + k] = pf[L + k] /\ d[k] = cl[k]
      BY <1>1, <1>2, <3>1
    <3> QED BY <3>1, <3>2 DEF Vectors, AlignedWith
  <2>2. CASE ~(k <= Len(cl))
    <3>1. k = Len(cl) + 1 /\ L + k = n
      BY <1>0, <1>2, <2>2
    <3> QED BY <1>0, <1>1, <1>2, <3>1
  <2> QED BY <2>1, <2>2
<1>5. ASSUME NEW s \in (L + Len(d) + 1) .. Len(q)
      PROVE  q[s].fd \in Fd /\ q[s].events = {"POLLIN"}
  <2>1. s - 1 \in (L + Len(cl) + 1) .. Len(pf) /\ s \in 1 .. Len(pf) + 1
        /\ ~(s < n) /\ s # n
    BY <1>0, <1>1, <1>2
  <2>2. q[s] = pf[s - 1]
    BY <1>1, <2>1
  <2> QED BY <2>1, <2>2 DEF Vectors, AlignedWith
<1>6. L + Len(d) <= Len(q)
  BY <1>0, <1>1, <1>2 DEF Vectors, AlignedWith
<1>7. AlignedWith(q, d)
  BY <1>3, <1>4, <1>5, <1>6 DEF AlignedWith
<1> QED BY <1>1, <1>2, <1>7 DEF Vectors, q, d

\* A pipe's entry pushed back keeps it.
LEMMA AppendPipe ==
  ASSUME NEW pf, NEW cl, Vectors(pf, cl), NEW e \in PollEntry,
         e.fd \in Fd, e.events = {"POLLIN"}
  PROVE  Vectors(Append(pf, e), cl)
<1> DEFINE q == Append(pf, e)
<1>0. L \in Nat /\ Len(pf) \in Nat /\ Len(cl) \in Nat /\ L + Len(cl) <= Len(pf)
  BY ListenersCounted, LenProperties DEF Vectors, AlignedWith
<1>1. /\ q \in Seq(PollEntry) /\ Len(q) = Len(pf) + 1
      /\ \A j \in 1 .. Len(pf) : q[j] = pf[j]
      /\ q[Len(pf) + 1] = e
  BY AppendProps DEF Vectors
<1> HIDE DEF q
<1>2. ASSUME NEW s \in 1 .. L PROVE q[s].fd = ListenFds[s] /\ q[s].events = {"POLLIN"}
  <2>1. s \in 1 .. Len(pf)
    BY <1>0
  <2>2. q[s] = pf[s]
    BY <1>1, <2>1
  <2> QED BY <2>2 DEF Vectors, AlignedWith
<1>3. ASSUME NEW k \in 1 .. Len(cl) PROVE q[L + k].fd = cl[k].fd
  <2>1. q[L + k] = pf[L + k]
    BY <1>0, <1>1
  <2> QED BY <2>1 DEF Vectors, AlignedWith
<1>4. ASSUME NEW s \in (L + Len(cl) + 1) .. Len(q)
      PROVE  q[s].fd \in Fd /\ q[s].events = {"POLLIN"}
  <2>1. CASE s = Len(pf) + 1
    BY <1>1, <2>1
  <2>2. CASE s # Len(pf) + 1
    <3>1. s \in (L + Len(cl) + 1) .. Len(pf) /\ s \in 1 .. Len(pf)
      BY <1>0, <1>1, <2>2
    <3>2. q[s] = pf[s]
      BY <1>1, <3>1
    <3> QED BY <3>1, <3>2 DEF Vectors, AlignedWith
  <2> QED BY <2>1, <2>2
<1>5. L + Len(cl) <= Len(q)
  BY <1>0, <1>1
<1> QED BY <1>1, <1>2, <1>3, <1>4, <1>5 DEF Vectors, AlignedWith, q

\* Rewriting entries and clients in place keeps it, as long as descriptors stay
\* and only clients' entries change what they wait for.
LEMMA Rewrite ==
  ASSUME NEW pf, NEW cl, Vectors(pf, cl),
         NEW q \in Seq(PollEntry), NEW d \in Seq(Client),
         Len(q) = Len(pf), Len(d) = Len(cl),
         \A s \in 1 .. Len(pf) :
           /\ q[s].fd = pf[s].fd
           /\ s \notin (L + 1) .. (L + Len(cl)) => q[s].events = pf[s].events,
         \A k \in 1 .. Len(cl) : d[k].fd = cl[k].fd
  PROVE  Vectors(q, d)
<1>0. L \in Nat /\ Len(pf) \in Nat /\ Len(cl) \in Nat /\ L + Len(cl) <= Len(pf)
  BY ListenersCounted, LenProperties DEF Vectors, AlignedWith
<1>a. /\ \A s \in 1 .. L : pf[s].fd = ListenFds[s] /\ pf[s].events = {"POLLIN"}
      /\ \A k \in 1 .. Len(cl) : pf[L + k].fd = cl[k].fd
      /\ \A s \in (L + Len(cl) + 1) .. Len(pf) : pf[s].fd \in Fd /\ pf[s].events = {"POLLIN"}
  BY DEF Vectors, AlignedWith
<1>1. ASSUME NEW s \in 1 .. L PROVE q[s].fd = ListenFds[s] /\ q[s].events = {"POLLIN"}
  <2>1. s \in 1 .. Len(pf) /\ s \notin (L + 1) .. (L + Len(cl))
    BY <1>0
  <2> QED BY <1>a, <2>1
<1>2. ASSUME NEW k \in 1 .. Len(d) PROVE q[L + k].fd = d[k].fd
  <2>1. L + k \in 1 .. Len(pf)
    BY <1>0
  <2> QED BY <1>a, <2>1
<1>3. ASSUME NEW s \in (L + Len(d) + 1) .. Len(q)
      PROVE  q[s].fd \in Fd /\ q[s].events = {"POLLIN"}
  <2>1. s \in 1 .. Len(pf) /\ s \notin (L + 1) .. (L + Len(cl))
    BY <1>0
  <2> QED BY <1>a, <2>1
<1> QED BY <1>0, <1>1, <1>2, <1>3 DEF Vectors, AlignedWith

-----------------------------------------------------------------------------
\* The invariant in the next state.
LEMMA NextInvariantParts ==
  ASSUME pollfd' \in Seq(PollEntry), clients' \in Seq(Client),
         Alive' => AlignedWith(pollfd', clients'),
         KernelOK', gRun' \in BOOLEAN,
         pc' \in Parts, i' \in Nat, cur' \in Nat, IndexOK'
  PROVE  IInv'
BY DEF IInv, TypeOK, Layout, Aligned, AlignedWith, KernelOK, Slot, ClientIds, TailSlots, L

\* Going to a part whose index is no client needs only the vectors and the kernel.
LEMMA GoesOn ==
  ASSUME Vectors(pollfd', clients'), KernelOK', gRun' \in BOOLEAN,
         NEW part \in {"poll", "timeout", "err", "accept", "cgi", "read", "shutdown"},
         NEW idx \in Nat, GoTo(part, idx)
  PROVE  IInv'
<1>1. pc' \in Parts /\ i' \in Nat /\ cur' \in Nat /\ IndexOK'
  BY DEF GoTo, Parts, IndexOK
<1> QED BY <1>1, NextInvariantParts DEF Vectors

\* What a running server's invariant gives.
LEMMA Running_ ==
  ASSUME IInv, Alive
  PROVE  Vectors(pollfd, clients) /\ KernelOK /\ gRun \in BOOLEAN
BY InvariantParts DEF Vectors

\* The elements of the client vector.
LEMMA ClientIsClient ==
  ASSUME clients \in Seq(Client), NEW k \in ClientIds
  PROVE  clients[k] \in Client /\ k \in Nat /\ k \in 1 .. Len(clients)
BY ElementOfSeq, LenProperties DEF ClientIds

\* Closing descriptors keeps the kernel's state typed.
LEMMA CloseKeeps ==
  ASSUME KernelOK, NEW S, Close(S)
  PROVE  /\ desc' \in [Fd -> {"free", "peer", "gone", "pipe"}]
         /\ writer' \in [Fd -> Pid \cup {NoPid}]
BY DEF KernelOK, Close

\* handleDisconnect erases the client and its entry, and before them, when it
\* finds it, the entry of its pipe: the two indices are right in that order.
LEMMA DisconnectKeeps ==
  ASSUME IInv, Alive, NEW k \in ClientIds, handleDisconnect(k)
  PROVE  Vectors(pollfd', clients') /\ KernelOK' /\ gRun' \in BOOLEAN
<1>0. Vectors(pollfd, clients) /\ KernelOK /\ gRun \in BOOLEAN /\ k \in 1 .. Len(clients)
  BY Running_ DEF ClientIds
<1>1. clients' = RemoveAt(clients, k) /\ gRun' = gRun /\ lost' = lost
  BY DEF handleDisconnect
<1>2. CASE /\ pollfd' = RemoveAt(pollfd, Slot(k))
           /\ Close({clients[k].fd})
           /\ proc' = proc
  <2>1. Vectors(pollfd', clients')
    BY <1>0, <1>1, <1>2, EraseClient DEF Slot
  <2>2. KernelOK'
    BY <1>0, <1>1, <1>2, CloseKeeps DEF KernelOK
  <2> QED BY <1>0, <1>1, <2>1, <2>2
<1>3. ASSUME NEW s \in OwnSlots(clients[k]),
             pollfd' = RemoveAt(RemoveAt(pollfd, s), Slot(k)),
             Close({clients[k].fd, clients[k].pipe}),
             proc' = Reaped(clients[k].pid)
      PROVE  Vectors(pollfd', clients') /\ KernelOK' /\ gRun' \in BOOLEAN
  <2>1. s \in (L + Len(clients) + 1) .. Len(pollfd)
    BY DEF OwnSlots, TailSlots
  <2>2. Vectors(RemoveAt(pollfd, s), clients)
    BY <1>0, <2>1, ErasePipe
  <2>3. Vectors(pollfd', clients')
    BY <1>0, <1>1, <1>3, <2>2, EraseClient DEF Slot
  <2>4. proc' \in [Pid -> {"none", "running", "closed", "exited"}]
    BY <1>0, <1>3 DEF KernelOK, Reaped
  <2>5. KernelOK'
    BY <1>0, <1>1, <1>3, <2>4, CloseKeeps DEF KernelOK
  <2> QED BY <1>0, <1>1, <2>3, <2>5
<1> QED BY <1>2, <1>3 DEF handleDisconnect

\* One client changed in place.
LEMMA UpdateKeeps ==
  ASSUME Vectors(pollfd, clients), NEW k \in ClientIds, NEW c \in Client,
         c.fd = clients[k].fd, Update(k, c)
  PROVE  Vectors(pollfd, clients') /\ Len(clients') = Len(clients)
<1>1. /\ clients' \in Seq(Client) /\ Len(clients') = Len(clients)
      /\ \A j \in 1 .. Len(clients) : clients'[j] = IF j = k THEN c ELSE clients[j]
  BY ExceptSeq DEF Vectors, Update, ClientIds
<1>2. pollfd \in Seq(PollEntry)
  BY DEF Vectors
<1>3. \A j \in 1 .. Len(clients) : clients'[j].fd = clients[j].fd
  BY <1>1
<1> QED BY <1>1, <1>2, <1>3, Rewrite

\* One client changed, and what its entry waits for.
LEMMA WatchedKeeps ==
  ASSUME Vectors(pollfd, clients), NEW k \in ClientIds, NEW c \in Client,
         c.fd = clients[k].fd, Update(k, c),
         NEW ev \in SUBSET {"POLLIN", "POLLOUT"}
  PROVE  /\ Vectors([pollfd EXCEPT ![Slot(k)].events = ev], clients')
         /\ Len(clients') = Len(clients)
<1>0. /\ L \in Nat /\ Len(pollfd) \in Nat /\ Len(clients) \in Nat
      /\ L + Len(clients) <= Len(pollfd) /\ k \in 1 .. Len(clients)
      /\ pollfd \in Seq(PollEntry)
  BY ListenersCounted, LenProperties DEF Vectors, AlignedWith, ClientIds
<1>1. /\ clients' \in Seq(Client) /\ Len(clients') = Len(clients)
      /\ \A j \in 1 .. Len(clients) : clients'[j] = IF j = k THEN c ELSE clients[j]
  BY ExceptSeq DEF Vectors, Update, ClientIds
<1>2. \A j \in 1 .. Len(clients) : clients'[j].fd = clients[j].fd
  BY <1>1
<1> DEFINE q == [pollfd EXCEPT ![Slot(k)].events = ev]
           e == [pollfd[Slot(k)] EXCEPT !.events = ev]
<1>3. q = [pollfd EXCEPT ![Slot(k)] = e]
  OBVIOUS
<1>4. Slot(k) \in 1 .. Len(pollfd) /\ Slot(k) \in (L + 1) .. (L + Len(clients))
  BY <1>0 DEF Slot
<1>5. e \in PollEntry /\ e.fd = pollfd[Slot(k)].fd
  <2>1. pollfd[Slot(k)] \in PollEntry
    BY <1>0, <1>4, ElementOfSeq
  <2> QED BY <2>1 DEF PollEntry
<1> HIDE DEF q, e
<1>6. /\ q \in Seq(PollEntry) /\ Len(q) = Len(pollfd)
      /\ \A s \in 1 .. Len(pollfd) : q[s] = IF s = Slot(k) THEN e ELSE pollfd[s]
  BY <1>0, <1>3, <1>4, <1>5, ExceptSeq
<1>7. \A s \in 1 .. Len(pollfd) :
        /\ q[s].fd = pollfd[s].fd
        /\ s \notin (L + 1) .. (L + Len(clients)) => q[s].events = pollfd[s].events
  BY <1>4, <1>5, <1>6
<1>8. Vectors(q, clients')
  BY <1>1, <1>2, <1>6, <1>7, Rewrite
<1> QED BY <1>1, <1>8 DEF q

\* Setting the events of a client.
LEMMA WatchKeeps ==
  ASSUME Vectors(pollfd, clients), NEW k \in ClientIds, NEW c \in Client,
         c.fd = clients[k].fd, Update(k, c),
         NEW ev \in SUBSET {"POLLIN", "POLLOUT"}, Watch(k, ev)
  PROVE  Vectors(pollfd', clients') /\ Len(clients') = Len(clients)
BY WatchedKeeps DEF Watch

-----------------------------------------------------------------------------
\* poll() writing revents, or clearing them, keeps the layout.
LEMMA SignalsKeep ==
  ASSUME Vectors(pollfd, clients), NEW q \in [1 .. Len(pollfd) -> PollEntry],
         \A s \in 1 .. Len(pollfd) :
           /\ q[s].fd = pollfd[s].fd
           /\ s \notin (L + 1) .. (L + Len(clients)) => q[s].events = pollfd[s].events
  PROVE  Vectors(q, clients)
<1>1. Len(pollfd) \in Nat /\ clients \in Seq(Client)
  BY LenProperties DEF Vectors
<1>2. q \in Seq(PollEntry) /\ Len(q) = Len(pollfd)
  BY <1>1, SeqOfLength
<1> QED BY <1>1, <1>2, Rewrite

\* What poll() reports.
LEMMA PollKeeps ==
  ASSUME Vectors(pollfd, clients), NEW ready
  PROVE  Vectors(PollResult(ready), clients)
<1>1. \A s \in 1 .. Len(pollfd) : pollfd[s] \in PollEntry
  BY ElementOfSeq DEF Vectors
<1> DEFINE q == PollResult(ready)
<1>2. ASSUME NEW s \in 1 .. Len(pollfd)
      PROVE  q[s] \in PollEntry /\ q[s].fd = pollfd[s].fd /\ q[s].events = pollfd[s].events
  <2> DEFINE r == (IF s \in ready THEN pollfd[s].events ELSE {})
                    \cup (IF HungUp(pollfd[s].fd) THEN {"POLLHUP"} ELSE {})
  <2>1. pollfd[s] \in PollEntry
    BY <1>1
  <2>2. pollfd[s].events \in SUBSET {"POLLIN", "POLLOUT"}
    BY <2>1 DEF PollEntry
  <2>3. r \in SUBSET {"POLLIN", "POLLOUT", "POLLHUP"}
    BY <2>2
  <2>4. q[s] = [pollfd[s] EXCEPT !.revents = r]
    BY DEF PollResult
  <2> HIDE DEF r, q
  <2> QED BY <2>1, <2>3, <2>4 DEF PollEntry
<1>3. q \in [1 .. Len(pollfd) -> PollEntry]
  <2>1. q = [s \in 1 .. Len(pollfd) |-> q[s]]
    BY DEF PollResult
  <2> HIDE DEF q
  <2> QED BY <1>2, <2>1
<1> HIDE DEF q
<1>4. Vectors(q, clients)
  BY <1>2, <1>3, SignalsKeep
<1> QED BY <1>4 DEF q

\* Clearing revents.
LEMMA UnsignalledKeeps ==
  ASSUME Vectors(pollfd, clients)
  PROVE  Vectors(Unsignalled, clients)
<1>1. \A s \in 1 .. Len(pollfd) : pollfd[s] \in PollEntry
  BY ElementOfSeq DEF Vectors
<1>2. Unsignalled \in [1 .. Len(pollfd) -> PollEntry]
  BY <1>1 DEF Unsignalled, PollEntry
<1>3. \A s \in 1 .. Len(pollfd) :
        Unsignalled[s].fd = pollfd[s].fd /\ Unsignalled[s].events = pollfd[s].events
  BY <1>1 DEF Unsignalled, PollEntry
<1> QED BY <1>2, <1>3, SignalsKeep

\* Setting the events of the owner of a pipe.
LEMMA WakeKeeps ==
  ASSUME Vectors(pollfd, clients), NEW f
  PROVE  Vectors(Wake(f), clients) /\ Len(Wake(f)) = Len(pollfd)
<1>1. \A s \in 1 .. Len(pollfd) : pollfd[s] \in PollEntry
  BY ElementOfSeq DEF Vectors
<1>2. ASSUME NEW s \in 1 .. Len(pollfd)
      PROVE  /\ Wake(f)[s] \in PollEntry /\ Wake(f)[s].fd = pollfd[s].fd
             /\ s \notin (L + 1) .. (L + Len(clients)) =>
                  Wake(f)[s].events = pollfd[s].events
  <2>1. pollfd[s] \in PollEntry
    BY <1>1
  <2>2. pollfd[s].events \in SUBSET {"POLLIN", "POLLOUT"}
    BY <2>1 DEF PollEntry
  <2>3. ToSend(pollfd[s].events) \in SUBSET {"POLLIN", "POLLOUT"}
    BY <2>2 DEF ToSend
  <2>4. Wake(f)[s] = IF s \in (L + 1) .. (L + Len(clients)) /\ pollfd[s].fd = f
                       THEN [pollfd[s] EXCEPT !.events = ToSend(pollfd[s].events)]
                       ELSE pollfd[s]
    BY DEF Wake, Slot
  <2> QED BY <2>1, <2>3, <2>4 DEF PollEntry
<1>3. Wake(f) \in [1 .. Len(pollfd) -> PollEntry]
  <2>1. Wake(f) = [s \in 1 .. Len(pollfd) |-> Wake(f)[s]]
    BY DEF Wake
  <2> QED BY <1>2, <2>1
<1>4. Vectors(Wake(f), clients)
  BY <1>2, <1>3, SignalsKeep
<1>5. Len(Wake(f)) = Len(pollfd)
  BY <1>3, SeqOfLength, LenProperties DEF Vectors
<1> QED BY <1>4, <1>5

-----------------------------------------------------------------------------
\* poll(), the timeouts and the descriptors that hung up.
LEMMA PollingKeeps ==
  ASSUME IInv, Polling
  PROVE  IInv'
<1>1. ASSUME PollReturns PROVE IInv'
  <2>1. Vectors(pollfd, clients) /\ KernelOK /\ gRun \in BOOLEAN
    BY <1>1, Running_ DEF PollReturns, Alive
  <2>2. PICK ready : pollfd' = PollResult(ready)
    BY <1>1 DEF PollReturns
  <2>3. Vectors(pollfd', clients') /\ KernelOK' /\ gRun' \in BOOLEAN
    BY <1>1, <2>1, <2>2, PollKeeps DEF PollReturns, kernel, KernelOK
  <2>4. GoTo("timeout", 1)
    BY <1>1 DEF PollReturns
  <2> QED BY <2>3, <2>4, GoesOn
<1>2. ASSUME NEW k \in ClientIds, NEW part \in {"timeout", "err"},
             pc = part, handleDisconnect(k), GoTo(part, k)
      PROVE  IInv'
  <2>1. Alive /\ k \in Nat
    BY <1>2 DEF Alive, ClientIds
  <2> QED BY <1>2, <2>1, DisconnectKeeps, GoesOn
<1>3. ASSUME NEW part \in {"err", "accept"}, pc \in {"timeout", "err"}, GoTo(part, 1),
             UNCHANGED <<pollfd, clients, gRun, kernel>>
      PROVE  IInv'
  <2>1. Vectors(pollfd, clients) /\ KernelOK /\ gRun \in BOOLEAN
    BY <1>3, Running_ DEF Alive
  <2>2. Vectors(pollfd', clients') /\ KernelOK' /\ gRun' \in BOOLEAN
    BY <1>3, <2>1 DEF kernel, KernelOK
  <2> QED BY <1>3, <2>2, GoesOn
<1>4. CloseTimedOut => IInv'
  BY <1>2 DEF CloseTimedOut, Expired
<1>5. CloseHungUp => IInv'
  BY <1>2 DEF CloseHungUp, HungUpClients
<1>6. TimeoutsDone \/ ErrDone => IInv'
  BY <1>3 DEF TimeoutsDone, ErrDone
<1> QED BY <1>1, <1>4, <1>5, <1>6 DEF Polling

\* accept() and what ends the process.
LEMMA EndsKeeps ==
  ASSUME IInv, NEW part \in {"stopped", "crashed"},
         NEW procs \in [Pid -> {"none", "running", "closed", "exited"}], Ends(part, procs)
  PROVE  IInv'
<1>1. KernelOK /\ gRun \in BOOLEAN
  BY InvariantParts
<1>2. KernelOK' /\ gRun' \in BOOLEAN
  BY <1>1, CloseKeeps DEF Ends, KernelOK
<1>3. pollfd' \in Seq(PollEntry) /\ clients' \in Seq(Client)
  BY EmptySeq DEF Ends
<1>4. pc' \in Parts /\ i' \in Nat /\ cur' \in Nat /\ IndexOK' /\ ~Alive'
  BY DEF Ends, GoTo, Parts, IndexOK, Alive
<1> QED BY <1>2, <1>3, <1>4, NextInvariantParts

\* The steps of the accept loop.
LEMMA AcceptingKeeps ==
  ASSUME IInv, Accepting
  PROVE  IInv'
<1>0. ASSUME pc = "accept" PROVE Vectors(pollfd, clients) /\ KernelOK /\ gRun \in BOOLEAN
  BY <1>0, Running_ DEF Alive
<1>1. ASSUME AcceptClient PROVE IInv'
  <2>0. Vectors(pollfd, clients) /\ KernelOK /\ gRun \in BOOLEAN
    BY <1>0, <1>1 DEF AcceptClient
  <2>1. PICK s \in Pending, f \in Handout(FreeFds), conn \in GarbageConn :
          /\ clients' = Append(clients, NewClient(f, conn))
          /\ pollfd' = InsertAt(pollfd, NewSlot,
                          [fd |-> f, events |-> {"POLLIN"}, revents |-> {}])
          /\ desc' = [desc EXCEPT ![f] = "peer"]
          /\ GoTo("accept", s + 1)
    BY <1>1 DEF AcceptClient
  <2>2. f \in Fd
    <3>1. FreeFds \in SUBSET Fd
      BY DEF FreeFds
    <3> QED BY <2>1, <3>1, HandoutAssumption
  <2>3. NewClient(f, conn) \in Client /\ NewClient(f, conn).fd = f
    BY <2>1, <2>2, BoundAssumption, GarbageAssumption
    DEF NewClient, Client, Statuses, ResStatuses, CgiStates
  <2>4. [fd |-> f, events |-> {"POLLIN"}, revents |-> {}] \in PollEntry
    BY <2>2 DEF PollEntry
  <2>5. Vectors(pollfd', clients')
    BY <2>0, <2>1, <2>3, <2>4, InsertClient DEF NewSlot
  <2>6. KernelOK' /\ gRun' \in BOOLEAN
    BY <1>1, <2>0, <2>1 DEF AcceptClient, KernelOK
  <2>7. s + 1 \in Nat
    BY ListenersCounted DEF Pending
  <2> QED BY <2>1, <2>5, <2>6, <2>7, GoesOn
<1>2. ASSUME AcceptFails PROVE IInv'
  <2>1. proc \in [Pid -> {"none", "running", "closed", "exited"}]
    BY <1>0, <1>2 DEF AcceptFails, KernelOK
  <2> QED BY <1>2, <2>1, EndsKeeps DEF AcceptFails
<1>3. ASSUME AcceptDone PROVE IInv'
  <2>1. Vectors(pollfd, clients) /\ KernelOK /\ gRun \in BOOLEAN
    BY <1>0, <1>3 DEF AcceptDone
  <2>2. Vectors(pollfd', clients') /\ KernelOK' /\ gRun' \in BOOLEAN
    BY <1>3, <2>1 DEF AcceptDone, kernel, KernelOK
  <2>3. L + Len(clients) + 1 \in Nat
    BY <2>1, ListenersCounted, LenProperties DEF Vectors
  <2> QED BY <1>3, <2>2, <2>3, GoesOn DEF AcceptDone
<1> QED BY <1>1, <1>2, <1>3 DEF Accepting

-----------------------------------------------------------------------------
\* Steps at which one client, and perhaps what its entry waits for, changes.
LEMMA OneClientKeeps ==
  ASSUME IInv, Alive, NEW k \in ClientIds, NEW c \in Client, c.fd = clients[k].fd,
         Update(k, c), KernelOK', gRun' = gRun,
         pollfd' = pollfd \/ \E ev \in SUBSET {"POLLIN", "POLLOUT"} : Watch(k, ev)
  PROVE  Vectors(pollfd', clients') /\ Len(clients') = Len(clients) /\ gRun' \in BOOLEAN
<1>1. Vectors(pollfd, clients) /\ gRun \in BOOLEAN
  BY Running_
<1>2. CASE pollfd' = pollfd
  BY <1>1, <1>2, UpdateKeeps
<1>3. CASE \E ev \in SUBSET {"POLLIN", "POLLOUT"} : Watch(k, ev)
  BY <1>1, <1>3, WatchKeeps
<1> QED BY <1>1, <1>2, <1>3

\* The CGI pipes: reading them, and reaping their children.
LEMMA ScriptsKeeps ==
  ASSUME IInv, Scripts
  PROVE  IInv'
<1>0. Vectors(pollfd, clients) /\ KernelOK /\ gRun \in BOOLEAN /\ Alive
  BY Running_ DEF Scripts, ReadPipe, ScriptClosedOutput, ScriptReaped, PipesDone, Alive
<1>c. ASSUME NEW k \in ClientIds
      PROVE  clients[k] \in Client /\ k \in Nat
  BY <1>0, ClientIsClient DEF Vectors
<1>s. ASSUME NEW s \in ReadyPipes
      PROVE  s \in (L + Len(clients) + 1) .. Len(pollfd) /\ s \in Nat /\ s + 1 \in Nat
  <2>1. L \in Nat /\ Len(clients) \in Nat
    BY <1>0, ListenersCounted, LenProperties DEF Vectors
  <2> QED BY <2>1 DEF ReadyPipes, TailSlots
<1>1. ASSUME ReadPipe PROVE IInv'
  <2>1. PICK s \in ReadyPipes :
          /\ \/ clients' = clients
             \/ \E k \in Readers(s) : Update(k, [clients[k] EXCEPT !.cgi = "CCS_RUNNING"])
          /\ GoTo("cgi", s + 1)
    BY <1>1 DEF ReadPipe
  <2>2. pollfd' = pollfd /\ gRun' = gRun /\ KernelOK'
    BY <1>0, <1>1 DEF ReadPipe, kernel, KernelOK
  <2>3. ASSUME NEW k \in Readers(s), Update(k, [clients[k] EXCEPT !.cgi = "CCS_RUNNING"])
        PROVE  Vectors(pollfd', clients')
    <3>1. k \in ClientIds /\ clients[k] \in Client
      BY <1>c DEF Readers
    <3>2. /\ [clients[k] EXCEPT !.cgi = "CCS_RUNNING"] \in Client
          /\ [clients[k] EXCEPT !.cgi = "CCS_RUNNING"].fd = clients[k].fd
      BY <3>1 DEF Client, CgiStates
    <3> QED BY <1>0, <2>2, <2>3, <3>1, <3>2, OneClientKeeps
  <2>4. Vectors(pollfd', clients')
    BY <1>0, <2>1, <2>2, <2>3
  <2> QED BY <1>0, <1>s, <2>1, <2>2, <2>4, GoesOn
<1>2. ASSUME ScriptClosedOutput PROVE IInv'
  <2>0. PICK s \in ReadyPipes, result \in {"CCS_DONE", "CCS_FAILLED"} :
          /\ \E k \in Readers(s) :
               /\ pollfd' = RemoveAt(Wake(clients[k].fd), s)
               /\ Update(k, [clients[k] EXCEPT !.cgi = result, !.pipe = NoFd])
               /\ Close({pollfd[s].fd})
               /\ cur' = k
          /\ i' = s /\ pc' = "reap"
    BY <1>2 DEF ScriptClosedOutput
  <2>1. PICK k \in Readers(s) :
          /\ pollfd' = RemoveAt(Wake(clients[k].fd), s)
          /\ Update(k, [clients[k] EXCEPT !.cgi = result, !.pipe = NoFd])
          /\ Close({pollfd[s].fd})
          /\ cur' = k
    BY <2>0
  <2>2. k \in ClientIds /\ clients[k] \in Client /\ k \in Nat
    BY <1>c DEF Readers
  <2>3. /\ [clients[k] EXCEPT !.cgi = result, !.pipe = NoFd] \in Client
        /\ [clients[k] EXCEPT !.cgi = result, !.pipe = NoFd].fd = clients[k].fd
    BY <2>2 DEF Client, CgiStates
  <2>4. Vectors(pollfd, clients') /\ Len(clients') = Len(clients)
    BY <1>0, <2>1, <2>2, <2>3, UpdateKeeps
  <2>5. Vectors(Wake(clients[k].fd), clients) /\ Len(Wake(clients[k].fd)) = Len(pollfd)
    BY <1>0, WakeKeeps
  <2>6. Vectors(Wake(clients[k].fd), clients')
    <3>1. \A j \in 1 .. Len(clients) : clients'[j].fd = clients[j].fd
      BY <2>1, <2>2, <2>3, <1>0, ExceptSeq DEF Update, ClientIds, Vectors
    <3>2. Wake(clients[k].fd) \in Seq(PollEntry) /\ clients' \in Seq(Client)
      BY <2>4, <2>5 DEF Vectors
    <3> QED BY <2>4, <2>5, <3>1, <3>2, Rewrite
  <2>7. Vectors(pollfd', clients')
    BY <1>s, <2>1, <2>4, <2>5, <2>6, ErasePipe
  <2>8. KernelOK' /\ gRun' \in BOOLEAN
    BY <1>0, <1>2, <2>1, CloseKeeps DEF ScriptClosedOutput, KernelOK
  <2>9. pc' \in Parts /\ i' \in Nat /\ cur' \in Nat /\ IndexOK'
    BY <1>s, <2>0, <2>1, <2>2, <2>4 DEF Parts, IndexOK, ClientIds
  <2> QED BY <2>7, <2>8, <2>9, NextInvariantParts DEF Vectors
<1>3. ASSUME ScriptReaped PROVE IInv'
  <2>1. PICK n \in 1 .. MaxOut, left \in {NoPid, clients[cur].pid} :
          Update(cur, [clients[cur] EXCEPT !.out = n, !.pid = left])
    BY <1>3 DEF ScriptReaped
  <2>2. cur \in ClientIds /\ clients[cur] \in Client
    BY <1>3, <1>c DEF IInv, IndexOK, ScriptReaped
  <2>3. /\ [clients[cur] EXCEPT !.out = n, !.pid = left] \in Client
        /\ [clients[cur] EXCEPT !.out = n, !.pid = left].fd = clients[cur].fd
    <3>1. n \in 0 .. MaxOut /\ left \in Pid \cup {NoPid} \cup GarbagePid
      BY <2>1, <2>2, BoundAssumption DEF Client
    <3> QED BY <2>2, <3>1 DEF Client
  <2>4. pollfd' = pollfd /\ gRun' = gRun /\ KernelOK' /\ GoTo("cgi", i + 1)
    BY <1>0, <1>3 DEF ScriptReaped, KernelOK, Reaped
  <2>5. Vectors(pollfd', clients') /\ gRun' \in BOOLEAN
    BY <1>0, <2>1, <2>2, <2>3, <2>4, OneClientKeeps
  <2>6. i + 1 \in Nat
    BY DEF IInv, TypeOK
  <2> QED BY <2>4, <2>5, <2>6, GoesOn
<1>4. ASSUME PipesDone PROVE IInv'
  <2>1. Vectors(pollfd', clients') /\ KernelOK' /\ gRun' \in BOOLEAN /\ GoTo("read", 1)
    BY <1>0, <1>4 DEF PipesDone, kernel, KernelOK
  <2> QED BY <2>1, GoesOn
<1> QED BY <1>1, <1>2, <1>3, <1>4 DEF Scripts

-----------------------------------------------------------------------------
\* One client's turn in the last loop.
LEMMA ServingKeeps ==
  ASSUME IInv, NEW k \in ClientIds, Serving(k)
  PROVE  IInv'
<1>0. Vectors(pollfd, clients) /\ KernelOK /\ gRun \in BOOLEAN /\ Alive
  <2>1. Alive
    BY DEF Serving, ReadMore, ReadDone, PeerClosed, LaunchScript, LaunchFails, ScriptAnswered,
       RelayOutput, RelayReturnsZero, NothingToDo, SendReturnsZero, SendMore, ResponseDone,
       CloseAfterResponse, Receiving, ToLaunch, ToRelay, Launched, ToSendStatic, Static,
       Responding, Alive
  <2> QED BY <2>1, Running_
<1>k. clients[k] \in Client /\ k \in Nat /\ k + 1 \in Nat /\ Slot(k) \in 1 .. Len(pollfd)
      /\ Events(k) \in SUBSET {"POLLIN", "POLLOUT"}
  <2>1. clients[k] \in Client /\ k \in Nat /\ k \in 1 .. Len(clients)
    BY <1>0, ClientIsClient DEF Vectors
  <2>2. Slot(k) \in 1 .. Len(pollfd)
    BY <1>0, <2>1, ListenersCounted, LenProperties DEF Vectors, AlignedWith, Slot
  <2>3. pollfd[Slot(k)] \in PollEntry
    BY <1>0, <2>2, ElementOfSeq DEF Vectors
  <2> QED BY <2>1, <2>2, <2>3 DEF Events, PollEntry
<1>t. Touched(k) \in Client /\ Touched(k).fd = clients[k].fd
  BY <1>k DEF Touched, Client
<1>f. ASSUME NEW c \in Filled(k) PROVE c \in Client /\ c.fd = clients[k].fd
  <2>1. PICK r \in {"CS_WRITING", "CS_WRITING_DONE"} \X MayAsk(k) :
          c = [Touched(k) EXCEPT !.res = r[1], !.conn = r[2]]
    BY DEF Filled
  <2>2. r[1] \in ResStatuses /\ r[2] \in {"NEW", "CLOSED"}
    <3>1. MayAsk(k) \subseteq {"NEW", "CLOSED"}
      BY <1>k DEF MayAsk, Client
    <3> QED BY <2>1, <3>1 DEF ResStatuses
  <2> QED BY <1>t, <2>1, <2>2 DEF Client
<1>w. ToSend(Events(k)) \in SUBSET {"POLLIN", "POLLOUT"}
      /\ ToReceive(Events(k)) \in SUBSET {"POLLIN", "POLLOUT"}
  BY <1>k DEF ToSend, ToReceive

\* The turns that change the client, and what its entry waits for, and go on.
<1>u. ASSUME NEW c \in Client, c.fd = clients[k].fd, Update(k, c), NextClient(k),
             pollfd' = pollfd \/ Watch(k, ToSend(Events(k))) \/ Watch(k, ToReceive(Events(k))),
             UNCHANGED <<gRun, kernel>>
      PROVE  IInv'
  <2>1. KernelOK'
    BY <1>0, <1>u DEF kernel, KernelOK
  <2>2. Vectors(pollfd', clients') /\ gRun' \in BOOLEAN
    BY <1>0, <1>u, <1>w, <2>1, OneClientKeeps
  <2> QED BY <1>k, <1>u, <2>1, <2>2, GoesOn DEF NextClient

\* The turns that drop the client.
<1>d. ASSUME handleDisconnect(k), GoTo("read", k) PROVE IInv'
  BY <1>0, <1>d, <1>k, DisconnectKeeps, GoesOn

<1>1. ASSUME ReadMore(k) PROVE IInv'
  <2>1. PICK status \in {clients[k].status, "CS_READING"} :
          Update(k, [Touched(k) EXCEPT !.status = status])
    BY <1>1 DEF ReadMore
  <2>2. /\ [Touched(k) EXCEPT !.status = status] \in Client
        /\ [Touched(k) EXCEPT !.status = status].fd = clients[k].fd
    BY <1>k, <1>t, <2>1 DEF Client, Statuses
  <2>3. NextClient(k) /\ UNCHANGED <<pollfd, gRun, kernel>>
    BY <1>1 DEF ReadMore, NextClient
  <2> QED BY <1>u, <2>1, <2>2, <2>3
<1>2. ASSUME ReadDone(k) PROVE IInv'
  <2>1. PICK status \in Kinds, conn \in {clients[k].conn, "CLOSED"} :
          Update(k, [Touched(k) EXCEPT !.status = status, !.conn = conn,
                                       !.res = "CS_START_SEND"])
    BY <1>2 DEF ReadDone
  <2> DEFINE c == [Touched(k) EXCEPT !.status = status, !.conn = conn,
                                     !.res = "CS_START_SEND"]
  <2>2. c \in Client /\ c.fd = clients[k].fd
    <3>1. status \in Statuses /\ conn \in {"NEW", "CLOSED"}
      BY <1>k, <2>1, KindAssumption DEF Client, Statuses
    <3> QED BY <1>t, <3>1 DEF Client, ResStatuses
  <2>3. /\ Update(k, c) /\ Watch(k, ToSend(Events(k))) /\ UNCHANGED <<gRun, kernel>>
        /\ GoTo("respond", k) \/ GoTo("read", k + 1)
    BY <1>2, <2>1 DEF ReadDone
  <2> HIDE DEF c
  <2>4. KernelOK'
    BY <1>0, <2>3 DEF kernel, KernelOK
  <2>5. Vectors(pollfd', clients') /\ gRun' \in BOOLEAN /\ Len(clients') = Len(clients)
    BY <1>0, <1>w, <2>2, <2>3, <2>4, OneClientKeeps
  <2>6. CASE GoTo("respond", k)
    <3>1. pc' \in Parts /\ i' \in Nat /\ cur' \in Nat /\ IndexOK'
      BY <1>k, <2>5, <2>6 DEF GoTo, Parts, IndexOK, ClientIds
    <3> QED BY <2>4, <2>5, <3>1, NextInvariantParts DEF Vectors
  <2>7. CASE GoTo("read", k + 1)
    BY <1>k, <2>4, <2>5, <2>7, GoesOn
  <2> QED BY <2>3, <2>6, <2>7
<1>3. ASSUME LaunchScript(k) PROVE IInv'
  <2>1. PICK f \in Handout(FreeFds), p \in FreePids :
          /\ Update(k, Running(clients[k], f, p))
          /\ pollfd' = Append([pollfd EXCEPT ![Slot(k)].events = Events(k) \ {"POLLOUT"}],
                              [fd |-> f, events |-> {"POLLIN"}, revents |-> {}])
          /\ desc' = [desc EXCEPT ![f] = "pipe"]
          /\ writer' = [writer EXCEPT ![f] = p]
          /\ proc' = [proc EXCEPT ![p] = "running"]
    BY <1>3 DEF LaunchScript
  <2>2. f \in Fd /\ p \in Pid
    <3>1. FreeFds \in SUBSET Fd /\ FreePids \subseteq Pid
      BY DEF FreeFds, FreePids
    <3> QED BY <2>1, <3>1, HandoutAssumption
  <2>3. /\ Running(clients[k], f, p) \in Client
        /\ Running(clients[k], f, p).fd = clients[k].fd
    BY <1>k, <2>2, BoundAssumption DEF Running, Client, CgiStates
  <2>4. KernelOK' /\ gRun' \in BOOLEAN
    BY <1>0, <1>3, <2>1, <2>2 DEF LaunchScript, KernelOK
  <2> DEFINE q == [pollfd EXCEPT ![Slot(k)].events = Events(k) \ {"POLLOUT"}]
  <2>5. Vectors(q, clients')
    BY <1>0, <1>k, <2>1, <2>3, WatchedKeeps
  <2>6. [fd |-> f, events |-> {"POLLIN"}, revents |-> {}] \in PollEntry
    BY <2>2 DEF PollEntry
  <2> HIDE DEF q
  <2>7. Vectors(pollfd', clients')
    BY <2>1, <2>2, <2>5, <2>6, AppendPipe DEF q
  <2> QED BY <1>3, <1>k, <2>4, <2>7, GoesOn DEF LaunchScript, NextClient
<1>4. ASSUME LaunchFails(k) PROVE IInv'
  <2>1. PICK f \in GarbageFd, p \in GarbagePid : Update(k, Failed(clients[k], f, p))
    BY <1>4 DEF LaunchFails
  <2>2. PICK fds \in SUBSET FreeFds, pids \in SUBSET FreePids :
          /\ FailedLaunch(fds, pids)
          /\ desc' = [g \in Fd |-> IF g \in fds THEN "pipe" ELSE desc[g]]
    BY <1>4 DEF LaunchFails
  <2>3. /\ Failed(clients[k], f, p) \in Client
        /\ Failed(clients[k], f, p).fd = clients[k].fd
    BY <1>k, <2>1, BoundAssumption DEF Failed, Client, CgiStates
  <2>4. KernelOK' /\ pollfd' = pollfd /\ gRun' = gRun
    <3>1. fds \subseteq Fd /\ pids \subseteq Pid
      BY <2>2 DEF FreeFds, FreePids
    <3> QED BY <1>0, <1>4, <2>2, <3>1 DEF LaunchFails, FailedLaunch, KernelOK
  <2>5. Vectors(pollfd', clients') /\ gRun' \in BOOLEAN /\ Len(clients') = Len(clients)
    BY <1>0, <2>1, <2>3, <2>4, OneClientKeeps
  <2>6. pc' \in Parts /\ i' \in Nat /\ cur' \in Nat /\ IndexOK'
    BY <1>k, <1>4, <2>5 DEF LaunchFails, GoTo, Parts, IndexOK, ClientIds
  <2> QED BY <2>4, <2>5, <2>6, NextInvariantParts DEF Vectors
<1>5. ASSUME ScriptAnswered(k) PROVE IInv'
  <2>1. Rearmed(clients[k]) \in Client /\ Rearmed(clients[k]).fd = clients[k].fd
    BY <1>k DEF Rearmed, Client, Statuses
  <2> QED BY <1>5, <1>u, <2>1 DEF ScriptAnswered
<1>6. ASSUME RelayOutput(k) PROVE IInv'
  <2>1. PICK sent \in {0, 1} : Update(k, [Touched(k) EXCEPT !.out = @ - sent])
    BY <1>6 DEF RelayOutput
  <2>2. Touched(k).out - sent \in 0 .. MaxOut
    <3>1. clients[k].out \in 0 .. MaxOut /\ Touched(k).out = clients[k].out
      BY <1>k DEF Touched, Client
    <3>2. clients[k].out > 0 /\ sent \in {0, 1} /\ MaxOut \in Nat
      BY <1>6, <2>1, BoundAssumption DEF RelayOutput
    <3> QED BY <3>1, <3>2
  <2>3. /\ [Touched(k) EXCEPT !.out = @ - sent] \in Client
        /\ [Touched(k) EXCEPT !.out = @ - sent].fd = clients[k].fd
    BY <1>t, <2>2 DEF Client
  <2> QED BY <1>6, <1>u, <2>1, <2>3 DEF RelayOutput
<1>7. ASSUME NothingToDo(k) PROVE IInv'
  BY <1>7, <1>t, <1>u DEF NothingToDo
<1>8. ASSUME SendMore(k) PROVE IInv'
  <2>1. PICK c \in Filled(k) : Update(k, c)
    BY <1>8 DEF SendMore
  <2> QED BY <1>8, <1>f, <1>u, <2>1 DEF SendMore
<1>9. ASSUME ResponseDone(k) PROVE IInv'
  <2>1. PICK c \in {Touched(k)} \cup Filled(k) : Update(k, [c EXCEPT !.status = "CS_NEW"])
    BY <1>9 DEF ResponseDone
  <2>2. c \in Client /\ c.fd = clients[k].fd
    BY <1>f, <1>t, <2>1
  <2>3. /\ [c EXCEPT !.status = "CS_NEW"] \in Client
        /\ [c EXCEPT !.status = "CS_NEW"].fd = clients[k].fd
    BY <2>2 DEF Client, Statuses
  <2> QED BY <1>9, <1>u, <2>1, <2>3 DEF ResponseDone
<1>10. ASSUME PeerClosed(k) \/ RelayReturnsZero(k) \/ SendReturnsZero(k)
              \/ CloseAfterResponse(k)
       PROVE  IInv'
  BY <1>10, <1>d DEF PeerClosed, RelayReturnsZero, SendReturnsZero, CloseAfterResponse, Drop
<1> QED BY <1>1, <1>2, <1>3, <1>4, <1>5, <1>6, <1>7, <1>8, <1>9, <1>10 DEF Serving

-----------------------------------------------------------------------------
\* The rest of the server's steps.
LEMMA RestKeeps ==
  ASSUME IInv, ErrorPageSent \/ ErrorPageFails \/ ClientsDone \/ Shutdown
  PROVE  IInv'
<1>0. Vectors(pollfd, clients) /\ KernelOK /\ gRun \in BOOLEAN /\ Alive
  BY Running_ DEF ErrorPageSent, ErrorPageFails, ClientsDone, Shutdown, Alive
<1>i. ASSUME pc = "reply"
      PROVE  i \in ClientIds /\ clients[i] \in Client /\ i \in Nat /\ i + 1 \in Nat
  <2>1. i \in ClientIds
    BY <1>i DEF IInv, IndexOK
  <2> QED BY <1>0, <2>1, ClientIsClient DEF Vectors
<1>1. ASSUME ErrorPageSent PROVE IInv'
  <2> DEFINE c == [clients[i] EXCEPT !.limit = HeaderTimeout, !.status = "CS_NEW"]
  <2>1. i \in ClientIds /\ i + 1 \in Nat
    BY <1>1, <1>i DEF ErrorPageSent
  <2>2. c \in Client /\ c.fd = clients[i].fd
    BY <1>1, <1>i DEF ErrorPageSent, Client, Statuses
  <2>3. /\ Update(i, c) /\ Watch(i, ToReceive(Events(i))) /\ GoTo("read", i + 1)
        /\ gRun' = gRun
    BY <1>1 DEF ErrorPageSent, NextClient
  <2>4. KernelOK'
    BY <1>0, <1>1 DEF ErrorPageSent, kernel, KernelOK
  <2>5. ToReceive(Events(i)) \in SUBSET {"POLLIN", "POLLOUT"}
    <3>1. Slot(i) \in 1 .. Len(pollfd)
      BY <1>0, <2>1, ListenersCounted, LenProperties
      DEF Vectors, AlignedWith, Slot, ClientIds
    <3>2. pollfd[Slot(i)] \in PollEntry
      BY <1>0, <3>1, ElementOfSeq DEF Vectors
    <3> QED BY <3>2 DEF Events, PollEntry, ToReceive
  <2> HIDE DEF c
  <2>6. Vectors(pollfd', clients') /\ gRun' \in BOOLEAN
    BY <1>0, <2>1, <2>2, <2>3, <2>4, <2>5, OneClientKeeps
  <2> QED BY <2>1, <2>3, <2>4, <2>6, GoesOn
<1>2. ASSUME ErrorPageFails PROVE IInv'
  BY <1>0, <1>2, <1>i, DisconnectKeeps, GoesOn DEF ErrorPageFails, Drop
<1>3. ASSUME ClientsDone PROVE IInv'
  <2>1. PICK part \in {"poll", "shutdown"} : GoTo(part, 1)
    BY <1>3 DEF ClientsDone
  <2>2. Vectors(pollfd', clients')
    BY <1>0, <1>3, UnsignalledKeeps DEF ClientsDone
  <2>3. KernelOK' /\ gRun' \in BOOLEAN
    BY <1>0, <1>3 DEF ClientsDone, kernel, KernelOK
  <2> QED BY <2>1, <2>2, <2>3, GoesOn
<1>4. ASSUME Shutdown PROVE IInv'
  <2>1. [p \in Pid |-> IF p \in KilledAtShutdown THEN "none" ELSE proc[p]]
          \in [Pid -> {"none", "running", "closed", "exited"}]
    BY <1>0 DEF KernelOK
  <2> QED BY <1>4, <2>1, EndsKeeps DEF Shutdown
<1> QED BY <1>1, <1>2, <1>3, <1>4

\* Peers, children, the clock and the signal.
LEMMA EnvironmentKeeps ==
  ASSUME IInv, Environment
  PROVE  IInv'
<1>0. /\ Vectors(pollfd, clients) /\ KernelOK /\ gRun \in BOOLEAN /\ Alive
      /\ pc \in Parts /\ i \in Nat /\ cur \in Nat /\ IndexOK
  <2>1. Alive
    BY DEF Environment, PeerLeaves, ChildClosesOutput, ChildExits, ChildMoves, Tick, Sigint,
       PollInterrupted, Alive, IInv, TypeOK, KernelOK
  <2> QED BY <2>1, Running_, InvariantParts
<1>1. ASSUME Vectors(pollfd', clients'), Len(clients') = Len(clients), KernelOK',
             gRun' \in BOOLEAN, UNCHANGED loop
      PROVE  IInv'
  <2>1. pc' \in Parts /\ i' \in Nat /\ cur' \in Nat /\ IndexOK'
    BY <1>0, <1>1 DEF loop, IndexOK, ClientIds
  <2> QED BY <1>1, <2>1, NextInvariantParts DEF Vectors
<1>2. ASSUME NEW f \in Fd, PeerLeaves(f) PROVE IInv'
  BY <1>0, <1>1, <1>2 DEF PeerLeaves, KernelOK
<1>3. ASSUME NEW p \in Pid, ChildClosesOutput(p) \/ ChildExits(p) PROVE IInv'
  BY <1>0, <1>1, <1>3 DEF ChildClosesOutput, ChildExits, ChildMoves, KernelOK
<1>4. ASSUME Tick PROVE IInv'
  <2>1. Len(clients) \in Nat /\ pollfd \in Seq(PollEntry)
    BY <1>0, LenProperties DEF Vectors
  <2> DEFINE d == [k \in 1 .. Len(clients) |->
                     [clients[k] EXCEPT !.age = IF @ < clients[k].limit THEN @ + 1 ELSE @]]
  <2>2. \A k \in 1 .. Len(clients) : d[k] \in Client /\ d[k].fd = clients[k].fd
    <3>1. \A k \in 1 .. Len(clients) : clients[k] \in Client
      BY <1>0, ElementOfSeq DEF Vectors
    <3> QED BY <3>1 DEF Client
  <2>3. d \in [1 .. Len(clients) -> Client]
    BY <2>2
  <2>4. clients' = d
    BY <1>4 DEF Tick, ClientIds
  <2> HIDE DEF d
  <2>5. d \in Seq(Client) /\ Len(d) = Len(clients)
    BY <2>1, <2>3, SeqOfLength
  <2>6. Vectors(pollfd, clients')
    BY <1>0, <2>1, <2>2, <2>4, <2>5, Rewrite
  <2> QED BY <1>0, <1>1, <1>4, <2>4, <2>5, <2>6 DEF Tick, kernel, KernelOK
<1>5. ASSUME Sigint PROVE IInv'
  BY <1>0, <1>1, <1>5 DEF Sigint, kernel, KernelOK
<1>6. ASSUME PollInterrupted PROVE IInv'
  <2>1. Vectors(pollfd', clients')
    BY <1>0, <1>6, UnsignalledKeeps DEF PollInterrupted
  <2>2. KernelOK' /\ gRun' \in BOOLEAN /\ GoTo("err", 1)
    BY <1>0, <1>6 DEF PollInterrupted, kernel, KernelOK
  <2> QED BY <2>1, <2>2, GoesOn
<1> QED BY <1>2, <1>3, <1>4, <1>5, <1>6 DEF Environment

-----------------------------------------------------------------------------
\* The induction.
LEMMA InitOK == Init => IInv
<1> SUFFICES ASSUME Init PROVE IInv
  OBVIOUS
<1>0. L \in Nat /\ \A s \in 1 .. L : ListenFds[s] \in Listener
  BY ListenersCounted, FdAssumption, ElementOfSeq DEF L
<1>1. /\ pollfd \in [1 .. L -> PollEntry]
      /\ \A s \in 1 .. L : pollfd[s].fd = ListenFds[s] /\ pollfd[s].events = {"POLLIN"}
  BY <1>0 DEF Init, PollEntry
<1>2. pollfd \in Seq(PollEntry) /\ Len(pollfd) = L
  BY <1>0, <1>1, SeqOfLength
<1>3. clients = << >> /\ clients \in Seq(Client) /\ Len(clients) = 0
  BY EmptySeq DEF Init
<1>4. AlignedWith(pollfd, clients)
  BY <1>0, <1>1, <1>2, <1>3 DEF AlignedWith
<1>5. KernelOK /\ gRun \in BOOLEAN /\ pc \in Parts /\ i \in Nat /\ cur \in Nat /\ IndexOK
  BY DEF Init, KernelOK, Parts, IndexOK
<1> QED BY <1>2, <1>3, <1>4, <1>5, InvariantParts

\* Every step keeps the invariant.
LEMMA NextKeeps == IInv /\ [Next]_vars => IInv'
<1> SUFFICES ASSUME IInv, [Next]_vars PROVE IInv'
  OBVIOUS
<1>1. CASE Polling
  BY <1>1, PollingKeeps
<1>2. CASE Accepting
  BY <1>2, AcceptingKeeps
<1>3. CASE Scripts
  BY <1>3, ScriptsKeeps
<1>4. CASE \E k \in ClientIds : Serving(k)
  BY <1>4, ServingKeeps
<1>5. CASE ErrorPageSent \/ ErrorPageFails \/ ClientsDone \/ Shutdown
  BY <1>5, RestKeeps
<1>6. CASE Environment
  BY <1>6, EnvironmentKeeps
<1>7. CASE UNCHANGED vars
  BY <1>7 DEF vars, IInv, TypeOK, Layout, Aligned, Alive, Slot, ClientIds, TailSlots, IndexOK
<1> QED BY <1>1, <1>2, <1>3, <1>4, <1>5, <1>6, <1>7 DEF Next, Server, Terminated

\* IInv is an inductive invariant.
THEOREM IInvHolds == Spec => []IInv
<1>1. Init => IInv
  BY InitOK
<1>2. IInv /\ [Next]_vars => IInv'
  BY NextKeeps
<1> QED BY <1>1, <1>2, PTL DEF Spec

\* No step of the loop puts a value into a variable that its declaration in the
\* code does not allow, whatever the uninitialised members hold.
THEOREM TypeCorrect == Spec => []TypeOK
<1>1. IInv => TypeOK
  BY DEF IInv
<1> QED BY <1>1, IInvHolds, PTL

\* Through every accept, timeout, error, launch, end of script and disconnect,
\* pollfd stays [listeners][clients][pipes] with client k at portCounter() + k.
THEOREM LayoutKept == Spec => []Layout
<1>1. IInv => Layout
  BY DEF IInv
<1> QED BY <1>1, IInvHolds, PTL

-----------------------------------------------------------------------------
(* The kinds of steps.                                                     *)
Pipes(pf, cl) == {pf[s].fd : s \in (L + Len(cl) + 1) .. Len(pf)}

\* Where the element now at j stood before the one at k was erased.
Skip(k, j) == IF j < k THEN j ELSE j + 1

\* The pipes and the clients' descriptors, as the lemmas name them.
LEMMA PipesAre == PipeFds = Pipes(pollfd, clients)
BY DEF PipeFds, Pipes, TailSlots

\* Leaving out one index and moving the later ones down.
LEMMA SkipProps ==
  ASSUME NEW n \in Nat, NEW k \in 1 .. n
  PROVE  /\ \A j \in 1 .. n - 1 : Skip(k, j) \in 1 .. n /\ Skip(k, j) # k
         /\ \A j, m \in 1 .. n - 1 : Skip(k, j) = Skip(k, m) => j = m
         /\ \A m \in 1 .. n : m # k => \E j \in 1 .. n - 1 : m = Skip(k, j)
<1>1. \A m \in 1 .. n : m # k =>
        (IF m < k THEN m ELSE m - 1) \in 1 .. n - 1 /\ m = Skip(k, IF m < k THEN m ELSE m - 1)
  BY DEF Skip
<1> QED BY <1>1 DEF Skip

\* erase() keeps the descriptors of the entries apart.
LEMMA EraseDistinct ==
  ASSUME NEW S, NEW pf \in Seq(S), Distinct(pf), NEW n \in 1 .. Len(pf)
  PROVE  /\ Distinct(RemoveAt(pf, n))
         /\ \A j \in 1 .. Len(pf) - 1 : RemoveAt(pf, n)[j] = pf[Skip(n, j)]
         /\ Len(RemoveAt(pf, n)) = Len(pf) - 1
<1> DEFINE q == RemoveAt(pf, n)
<1>0. Len(pf) \in Nat
  BY LenProperties
<1>1. Len(q) = Len(pf) - 1 /\ \A j \in 1 .. Len(pf) - 1 : q[j] = pf[Skip(n, j)]
  BY RemoveAtProps DEF Skip
<1> HIDE DEF q
<1>2. Distinct(q)
  <2> SUFFICES ASSUME NEW s \in 1 .. Len(pf) - 1, NEW t \in 1 .. Len(pf) - 1, q[s].fd = q[t].fd
               PROVE  s = t
    BY <1>1 DEF Distinct
  <2>1. Skip(n, s) \in 1 .. Len(pf) /\ Skip(n, t) \in 1 .. Len(pf)
    BY <1>0 DEF Skip
  <2>2. pf[Skip(n, s)].fd = pf[Skip(n, t)].fd
    BY <1>1
  <2>3. Skip(n, s) = Skip(n, t)
    BY <2>1, <2>2 DEF Distinct
  <2> QED BY <1>0, <2>3 DEF Skip
<1> QED BY <1>1, <1>2 DEF q

\* Erasing a client and its entry leaves the other clients' entries and the pipes.
LEMMA EraseClientRows ==
  ASSUME NEW pf, NEW cl, Vectors(pf, cl), Distinct(pf), NEW k \in 1 .. Len(cl)
  PROVE  /\ Distinct(RemoveAt(pf, L + k))
         /\ Pipes(RemoveAt(pf, L + k), RemoveAt(cl, k)) = Pipes(pf, cl)
         /\ Len(RemoveAt(cl, k)) = Len(cl) - 1
         /\ \A j \in 1 .. Len(cl) - 1 :
              /\ RemoveAt(cl, k)[j] = cl[Skip(k, j)]
              /\ RemoveAt(pf, L + k)[L + j] = pf[L + Skip(k, j)]
<1> DEFINE q == RemoveAt(pf, L + k)
           d == RemoveAt(cl, k)
<1>0. /\ L \in Nat /\ Len(pf) \in Nat /\ Len(cl) \in Nat /\ k \in Nat
      /\ L + Len(cl) <= Len(pf) /\ L + k \in 1 .. Len(pf)
      /\ pf \in Seq(PollEntry) /\ cl \in Seq(Client)
  BY ListenersCounted, LenProperties DEF Vectors, AlignedWith
<1>1. /\ Distinct(q) /\ Len(q) = Len(pf) - 1
      /\ \A j \in 1 .. Len(pf) - 1 : q[j] = pf[Skip(L + k, j)]
  BY <1>0, EraseDistinct
<1>2. Len(d) = Len(cl) - 1 /\ \A j \in 1 .. Len(cl) - 1 : d[j] = cl[Skip(k, j)]
  BY <1>0, RemoveAtProps DEF Skip
<1> HIDE DEF q, d
<1>3. ASSUME NEW j \in 1 .. Len(cl) - 1 PROVE q[L + j] = pf[L + Skip(k, j)]
  <2>1. L + j \in 1 .. Len(pf) - 1 /\ Skip(L + k, L + j) = L + Skip(k, j)
    BY <1>0 DEF Skip
  <2> QED BY <1>1, <2>1
<1>4. Pipes(q, d) = Pipes(pf, cl)
  <2>1. ASSUME NEW s \in (L + Len(d) + 1) .. Len(q)
        PROVE  s + 1 \in (L + Len(cl) + 1) .. Len(pf) /\ q[s] = pf[s + 1]
    <3>1. s \in 1 .. Len(pf) - 1 /\ Skip(L + k, s) = s + 1
      BY <1>0, <1>1, <1>2 DEF Skip
    <3> QED BY <1>0, <1>1, <1>2, <3>1
  <2>2. ASSUME NEW t \in (L + Len(cl) + 1) .. Len(pf)
        PROVE  t - 1 \in (L + Len(d) + 1) .. Len(q) /\ q[t - 1] = pf[t]
    <3>1. t - 1 \in (L + Len(d) + 1) .. Len(q) /\ (t - 1) + 1 = t
      BY <1>0, <1>1, <1>2
    <3> QED BY <2>1, <3>1
  <2> QED BY <2>1, <2>2 DEF Pipes
<1> QED BY <1>1, <1>2, <1>3, <1>4 DEF q, d

\* Erasing a pipe's entry leaves the clients' entries and the other pipes.
LEMMA ErasePipeRows ==
  ASSUME NEW pf, NEW cl, Vectors(pf, cl), Distinct(pf),
         NEW s \in (L + Len(cl) + 1) .. Len(pf)
  PROVE  /\ Distinct(RemoveAt(pf, s))
         /\ Pipes(RemoveAt(pf, s), cl) = Pipes(pf, cl) \ {pf[s].fd}
         /\ \A k \in 1 .. Len(cl) : RemoveAt(pf, s)[L + k] = pf[L + k]
<1> DEFINE q == RemoveAt(pf, s)
<1>0. /\ L \in Nat /\ Len(pf) \in Nat /\ Len(cl) \in Nat /\ s \in 1 .. Len(pf)
      /\ pf \in Seq(PollEntry)
  BY ListenersCounted, LenProperties DEF Vectors, AlignedWith
<1>1. /\ Distinct(q) /\ Len(q) = Len(pf) - 1
      /\ \A j \in 1 .. Len(pf) - 1 : q[j] = pf[Skip(s, j)]
  BY <1>0, EraseDistinct
<1> HIDE DEF q
<1>2. ASSUME NEW k \in 1 .. Len(cl) PROVE q[L + k] = pf[L + k]
  <2>1. L + k \in 1 .. Len(pf) - 1 /\ Skip(s, L + k) = L + k
    BY <1>0 DEF Skip
  <2> QED BY <1>1, <2>1
<1>3. ASSUME NEW j \in (L + Len(cl) + 1) .. Len(q)
      PROVE  /\ Skip(s, j) \in (L + Len(cl) + 1) .. Len(pf) /\ Skip(s, j) # s
             /\ q[j] = pf[Skip(s, j)]
  BY <1>0, <1>1 DEF Skip
<1>4. ASSUME NEW t \in (L + Len(cl) + 1) .. Len(pf), t # s
      PROVE  \E j \in (L + Len(cl) + 1) .. Len(q) : q[j] = pf[t]
  <2> DEFINE j == IF t < s THEN t ELSE t - 1
  <2>1. j \in (L + Len(cl) + 1) .. Len(q) /\ Skip(s, j) = t
    BY <1>0, <1>1, <1>4 DEF Skip
  <2> HIDE DEF j
  <2> QED BY <1>3, <2>1
<1>5. ASSUME NEW t \in (L + Len(cl) + 1) .. Len(pf), t # s PROVE pf[t].fd # pf[s].fd
  BY <1>0, <1>5 DEF Distinct
<1>6. Pipes(q, cl) \subseteq Pipes(pf, cl) \ {pf[s].fd}
  BY <1>3, <1>5 DEF Pipes
<1>7. Pipes(pf, cl) \ {pf[s].fd} \subseteq Pipes(q, cl)
  BY <1>4 DEF Pipes
<1> QED BY <1>1, <1>2, <1>6, <1>7 DEF q

\* A client pushed back, and its entry inserted behind the others'.
LEMMA InsertClientRows ==
  ASSUME NEW pf, NEW cl, Vectors(pf, cl), Distinct(pf), NEW e \in PollEntry, NEW c \in Client,
         \A s \in 1 .. Len(pf) : pf[s].fd # e.fd
  PROVE  /\ Distinct(InsertAt(pf, L + Len(cl) + 1, e))
         /\ Pipes(InsertAt(pf, L + Len(cl) + 1, e), Append(cl, c)) = Pipes(pf, cl)
         /\ Len(Append(cl, c)) = Len(cl) + 1
         /\ \A k \in 1 .. Len(cl) :
              /\ Append(cl, c)[k] = cl[k]
              /\ InsertAt(pf, L + Len(cl) + 1, e)[L + k] = pf[L + k]
         /\ Append(cl, c)[Len(cl) + 1] = c
         /\ InsertAt(pf, L + Len(cl) + 1, e)[L + (Len(cl) + 1)] = e
<1> DEFINE n == L + Len(cl) + 1
           q == InsertAt(pf, n, e)
           d == Append(cl, c)
<1>0. L \in Nat /\ Len(pf) \in Nat /\ Len(cl) \in Nat /\ n \in 1 .. Len(pf) + 1
      /\ L + Len(cl) <= Len(pf) /\ n = L + (Len(cl) + 1)
  BY ListenersCounted, LenProperties DEF Vectors, AlignedWith
<1>1. /\ Len(q) = Len(pf) + 1
      /\ \A j \in 1 .. Len(pf) + 1 :
           q[j] = IF j < n THEN pf[j] ELSE IF j = n THEN e ELSE pf[j - 1]
  <2>1. pf \in Seq(PollEntry) /\ n \in 1 .. Len(pf) + 1
    BY <1>0 DEF Vectors
  <2> HIDE DEF n
  <2> QED BY <2>1, InsertAtProps
<1>2. /\ Len(d) = Len(cl) + 1
      /\ \A j \in 1 .. Len(cl) : d[j] = cl[j]
      /\ d[Len(cl) + 1] = c
  BY AppendProps DEF Vectors
<1> HIDE DEF q, d
<1>3. ASSUME NEW k \in 1 .. Len(cl) PROVE q[L + k] = pf[L + k]
  <2>1. L + k \in 1 .. Len(pf) + 1 /\ L + k < n
    BY <1>0
  <2> QED BY <1>1, <2>1
<1>4. q[n] = e
  BY <1>0, <1>1
<1>5. Distinct(q)
  <2> SUFFICES ASSUME NEW s \in 1 .. Len(q), NEW t \in 1 .. Len(q), s < t
               PROVE  q[s].fd # q[t].fd
    BY <1>0, <1>1 DEF Distinct
  <2>1. CASE t < n
    BY <1>0, <1>1, <2>1 DEF Distinct
  <2>2. CASE t = n
    <3>1. s \in 1 .. Len(pf) /\ q[s] = pf[s] /\ q[t] = e
      BY <1>0, <1>1, <2>2
    <3> QED BY <3>1
  <2>3. CASE t > n /\ s = n
    <3>1. t - 1 \in 1 .. Len(pf) /\ q[t] = pf[t - 1] /\ q[s] = e
      BY <1>0, <1>1, <2>3
    <3> QED BY <3>1
  <2>4. CASE t > n /\ s < n
    <3>1. t - 1 \in 1 .. Len(pf) /\ s \in 1 .. Len(pf) /\ s # t - 1
          /\ q[t] = pf[t - 1] /\ q[s] = pf[s]
      BY <1>0, <1>1, <2>4
    <3> QED BY <3>1 DEF Distinct
  <2>5. CASE t > n /\ s > n
    <3>1. t - 1 \in 1 .. Len(pf) /\ s - 1 \in 1 .. Len(pf) /\ s - 1 # t - 1
          /\ q[t] = pf[t - 1] /\ q[s] = pf[s - 1]
      BY <1>0, <1>1, <2>5
    <3> QED BY <3>1 DEF Distinct
  <2> QED BY <1>0, <2>1, <2>2, <2>3, <2>4, <2>5
<1>6. Pipes(q, d) = Pipes(pf, cl)
  <2>1. ASSUME NEW s \in (L + Len(d) + 1) .. Len(q)
        PROVE  s - 1 \in (L + Len(cl) + 1) .. Len(pf) /\ q[s] = pf[s - 1]
    BY <1>0, <1>1, <1>2
  <2>2. ASSUME NEW t \in (L + Len(cl) + 1) .. Len(pf)
        PROVE  t + 1 \in (L + Len(d) + 1) .. Len(q) /\ q[t + 1] = pf[t]
    BY <1>0, <1>1, <1>2
  <2> QED BY <2>1, <2>2 DEF Pipes
<1> QED BY <1>0, <1>2, <1>3, <1>4, <1>5, <1>6 DEF q, d

\* A pipe's entry pushed back.
LEMMA AppendPipeRows ==
  ASSUME NEW pf, NEW cl, Vectors(pf, cl), Distinct(pf), NEW e \in PollEntry,
         \A s \in 1 .. Len(pf) : pf[s].fd # e.fd
  PROVE  /\ Distinct(Append(pf, e))
         /\ Pipes(Append(pf, e), cl) = Pipes(pf, cl) \cup {e.fd}
         /\ \A k \in 1 .. Len(cl) : Append(pf, e)[L + k] = pf[L + k]
<1> DEFINE q == Append(pf, e)
<1>0. L \in Nat /\ Len(pf) \in Nat /\ Len(cl) \in Nat /\ L + Len(cl) <= Len(pf)
  BY ListenersCounted, LenProperties DEF Vectors, AlignedWith
<1>1. /\ Len(q) = Len(pf) + 1
      /\ \A j \in 1 .. Len(pf) : q[j] = pf[j]
      /\ q[Len(pf) + 1] = e
  BY AppendProps DEF Vectors
<1> HIDE DEF q
<1>2. Distinct(q)
  <2> SUFFICES ASSUME NEW s \in 1 .. Len(q), NEW t \in 1 .. Len(q), s < t
               PROVE  q[s].fd # q[t].fd
    BY <1>0, <1>1 DEF Distinct
  <2>1. CASE t = Len(pf) + 1
    BY <1>0, <1>1, <2>1
  <2>2. CASE t # Len(pf) + 1
    BY <1>0, <1>1, <2>2 DEF Distinct
  <2> QED BY <2>1, <2>2
<1>3. \A k \in 1 .. Len(cl) : q[L + k] = pf[L + k]
  BY <1>0, <1>1
<1>4. Pipes(q, cl) = Pipes(pf, cl) \cup {e.fd}
  <2>1. ASSUME NEW s \in (L + Len(cl) + 1) .. Len(q)
        PROVE  q[s].fd \in Pipes(pf, cl) \cup {e.fd}
    <3>1. CASE s = Len(pf) + 1
      BY <1>1, <3>1
    <3>2. CASE s # Len(pf) + 1
      <4>1. s \in (L + Len(cl) + 1) .. Len(pf) /\ s \in 1 .. Len(pf)
        BY <1>0, <1>1, <3>2
      <4> QED BY <1>1, <4>1 DEF Pipes
    <3> QED BY <3>1, <3>2
  <2>2. ASSUME NEW s \in (L + Len(cl) + 1) .. Len(pf)
        PROVE  pf[s].fd \in Pipes(q, cl)
    <3>1. s \in (L + Len(cl) + 1) .. Len(q) /\ q[s] = pf[s]
      BY <1>0, <1>1
    <3> QED BY <3>1 DEF Pipes
  <2>3. e.fd \in Pipes(q, cl)
    <3>1. Len(pf) + 1 \in (L + Len(cl) + 1) .. Len(q)
      BY <1>0, <1>1
    <3> QED BY <1>1, <3>1 DEF Pipes
  <2> QED BY <2>1, <2>2, <2>3 DEF Pipes
<1> QED BY <1>2, <1>3, <1>4 DEF q

\* Entries rewritten in place, descriptors apart.
LEMMA RewriteRows ==
  ASSUME NEW pf, NEW cl, NEW q, NEW d, Distinct(pf), Len(q) = Len(pf), Len(d) = Len(cl),
         \A s \in 1 .. Len(pf) : q[s].fd = pf[s].fd,
         L + Len(cl) \in Nat, Len(pf) \in Nat
  PROVE  Distinct(q) /\ Pipes(q, d) = Pipes(pf, cl)
<1>1. Distinct(q)
  BY DEF Distinct
<1>2. \A s \in (L + Len(cl) + 1) .. Len(pf) : q[s].fd = pf[s].fd
  OBVIOUS
<1> QED BY <1>1, <1>2 DEF Pipes

-----------------------------------------------------------------------------
\* What a running server's vectors are made of.
LEMMA Parts_ ==
  ASSUME IInv, Alive
  PROVE  /\ Vectors(pollfd, clients) /\ KernelOK
         /\ L \in Nat /\ Len(pollfd) \in Nat /\ Len(clients) \in Nat /\ L + Len(clients) <= Len(pollfd)
         /\ ClientIds = 1 .. Len(clients) /\ ClientIds \subseteq Nat
         /\ \A k \in ClientIds : /\ clients[k] \in Client /\ L + k \in 1 .. Len(pollfd)
                                 /\ pollfd[L + k] \in PollEntry
                                 /\ pollfd[L + k].fd = clients[k].fd
<1>1. Vectors(pollfd, clients) /\ KernelOK
  BY Running_
<1>2. L \in Nat /\ Len(pollfd) \in Nat /\ Len(clients) \in Nat /\ L + Len(clients) <= Len(pollfd)
  BY <1>1, ListenersCounted, LenProperties DEF Vectors, AlignedWith
<1>3. \A k \in ClientIds : L + k \in 1 .. Len(pollfd)
  BY <1>2 DEF ClientIds
<1>4. \A k \in ClientIds : clients[k] \in Client /\ pollfd[L + k] \in PollEntry
  BY <1>1, <1>3, ElementOfSeq DEF Vectors, ClientIds
<1> QED BY <1>1, <1>2, <1>3, <1>4 DEF Vectors, AlignedWith, ClientIds

\* Descriptors of different entries differ: clients', and clients' and pipes'.
LEMMA FdsApart ==
  ASSUME IInv, Alive, Distinct(pollfd)
  PROVE  /\ ClientFds \subseteq Fd /\ PipeFds \subseteq Fd /\ ClientFds \cap PipeFds = {}
         /\ \A j, k \in ClientIds : clients[j].fd = clients[k].fd => j = k
         /\ \A s \in 1 .. Len(pollfd) : pollfd[s].fd \in Listener \cup ClientFds \cup PipeFds
<1>0. /\ L \in Nat /\ Len(pollfd) \in Nat /\ Len(clients) \in Nat /\ L + Len(clients) <= Len(pollfd)
      /\ ClientIds = 1 .. Len(clients)
      /\ \A k \in ClientIds : clients[k] \in Client /\ pollfd[L + k].fd = clients[k].fd
  BY Parts_
<1>1. ClientFds \subseteq Fd
  BY <1>0 DEF ClientFds, Client
<1>2. PipeFds \subseteq Fd
  BY Parts_ DEF PipeFds, TailSlots, Vectors, AlignedWith
<1>3. ASSUME NEW k \in ClientIds, NEW s \in TailSlots PROVE clients[k].fd # pollfd[s].fd
  <2>1. L + k \in 1 .. Len(pollfd) /\ s \in 1 .. Len(pollfd) /\ L + k # s
    BY <1>0 DEF TailSlots
  <2> QED BY <1>0, <2>1 DEF Distinct
<1>4. ASSUME NEW j \in ClientIds, NEW k \in ClientIds, clients[j].fd = clients[k].fd PROVE j = k
  <2>1. L + j \in 1 .. Len(pollfd) /\ L + k \in 1 .. Len(pollfd)
    BY <1>0
  <2>2. L + j = L + k
    BY <1>0, <1>4, <2>1 DEF Distinct
  <2> QED BY <1>0, <2>2
<1>5. ASSUME NEW s \in 1 .. Len(pollfd)
      PROVE  pollfd[s].fd \in Listener \cup ClientFds \cup PipeFds
  <2>1. CASE s \in 1 .. L
    <3>1. ListenFds[s] \in Listener
      BY <2>1, FdAssumption, ElementOfSeq DEF L
    <3> QED BY <2>1, <3>1, Parts_ DEF Vectors, AlignedWith
  <2>2. CASE s \in (L + 1) .. (L + Len(clients))
    <3>1. s - L \in ClientIds /\ L + (s - L) = s
      BY <1>0, <2>2
    <3>2. pollfd[s].fd = clients[s - L].fd
      BY <1>0, <3>1
    <3> QED BY <3>1, <3>2 DEF ClientFds
  <2>3. CASE s \in TailSlots
    BY <2>3 DEF PipeFds
  <2> QED BY <1>0, <2>1, <2>2, <2>3 DEF TailSlots
<1>6. ClientFds \cap PipeFds = {}
  BY <1>3 DEF ClientFds, PipeFds
<1> QED BY <1>1, <1>2, <1>4, <1>5, <1>6

-----------------------------------------------------------------------------
\* Client k goes, the others keep their states and entries.
Gone(k) ==
  /\ Distinct(pollfd') /\ Len(clients') = Len(clients) - 1
  /\ \A j \in 1 .. Len(clients) - 1 :
       clients'[j] = clients[Skip(k, j)] /\ pollfd'[L + j] = pollfd[L + Skip(k, j)]
  /\ ClientFds' = ClientFds \ {clients[k].fd}

\* handleDisconnect: the client goes, and with it its pipe and its child when
\* the pipe is polled.
LEMMA Disconnecting ==
  ASSUME IInv, Alive, Distinct(pollfd), NEW k \in ClientIds, handleDisconnect(k)
  PROVE  /\ Gone(k) /\ PipeFds' = PipeFds \ {clients[k].pipe} /\ lost' = lost
         /\ \/ /\ clients[k].pipe \notin PipeFds
               /\ Close({clients[k].fd}) /\ proc' = proc
            \/ /\ clients[k].pipe \in PipeFds
               /\ Close({clients[k].fd, clients[k].pipe}) /\ proc' = Reaped(clients[k].pid)
<1>0. /\ Vectors(pollfd, clients) /\ ClientIds = 1 .. Len(clients) /\ Len(clients) \in Nat
      /\ PipeFds = Pipes(pollfd, clients) /\ PipeFds' = Pipes(pollfd', clients')
      /\ clients' = RemoveAt(clients, k) /\ lost' = lost
  <2>1. PipeFds' = Pipes(pollfd', clients')
    BY DEF PipeFds, Pipes, TailSlots, L
  <2> QED BY <2>1, Parts_, PipesAre DEF handleDisconnect
<1>1. OwnSlots(clients[k]) = {} <=> clients[k].pipe \notin PipeFds
  BY FdsApart, FdAssumption DEF OwnSlots, PipeFds
<1>2. Gone(k) /\ PipeFds' = PipeFds \ {clients[k].pipe}
  <2>1. ASSUME NEW q, Vectors(q, clients), Distinct(q),
               \A j \in ClientIds : q[L + j] = pollfd[L + j],
               pollfd' = RemoveAt(q, L + k)
        PROVE  Gone(k) /\ PipeFds' = Pipes(q, clients)
    <3>1. /\ Distinct(pollfd') /\ Len(clients') = Len(clients) - 1
          /\ PipeFds' = Pipes(q, clients)
          /\ \A j \in 1 .. Len(clients) - 1 :
               clients'[j] = clients[Skip(k, j)] /\ pollfd'[L + j] = q[L + Skip(k, j)]
      BY <1>0, <2>1, EraseClientRows
    <3>2. /\ \A j \in 1 .. Len(clients) - 1 : Skip(k, j) \in ClientIds /\ Skip(k, j) # k
          /\ \A m \in ClientIds : m # k => \E j \in 1 .. Len(clients) - 1 : m = Skip(k, j)
      <4>1. Len(clients) \in Nat /\ k \in 1 .. Len(clients)
        BY <1>0
      <4>2. /\ \A j \in 1 .. Len(clients) - 1 : Skip(k, j) \in 1 .. Len(clients) /\ Skip(k, j) # k
            /\ \A m \in 1 .. Len(clients) :
                 m # k => \E j \in 1 .. Len(clients) - 1 : m = Skip(k, j)
        BY <4>1, SkipProps
      <4> QED BY <1>0, <4>2
    <3>3. ClientFds' = {clients[Skip(k, j)].fd : j \in 1 .. Len(clients) - 1}
      BY <3>1 DEF ClientFds, ClientIds
    <3>4. ClientFds' = ClientFds \ {clients[k].fd}
      <4>1. \A j \in 1 .. Len(clients) - 1 :
              clients[Skip(k, j)].fd \in ClientFds \ {clients[k].fd}
        BY <3>2, FdsApart DEF ClientFds
      <4>2. \A m \in ClientIds : clients[m].fd # clients[k].fd =>
              \E j \in 1 .. Len(clients) - 1 : clients[m].fd = clients[Skip(k, j)].fd
        BY <3>2
      <4> QED BY <3>3, <4>1, <4>2, ZenonT(60) DEF ClientFds
    <3> QED BY <2>1, <3>1, <3>2, <3>4 DEF Gone
  <2>2. CASE pollfd' = RemoveAt(pollfd, Slot(k)) /\ OwnSlots(clients[k]) = {}
    BY <1>0, <1>1, <2>1, <2>2 DEF Slot
  <2>3. ASSUME NEW s \in OwnSlots(clients[k]), pollfd' = RemoveAt(RemoveAt(pollfd, s), Slot(k))
        PROVE  Gone(k) /\ PipeFds' = PipeFds \ {clients[k].pipe}
    <3>1. s \in (L + Len(clients) + 1) .. Len(pollfd) /\ pollfd[s].fd = clients[k].pipe
      BY DEF OwnSlots, TailSlots
    <3>2. /\ Vectors(RemoveAt(pollfd, s), clients) /\ Distinct(RemoveAt(pollfd, s))
          /\ Pipes(RemoveAt(pollfd, s), clients) = PipeFds \ {clients[k].pipe}
          /\ \A j \in ClientIds : RemoveAt(pollfd, s)[L + j] = pollfd[L + j]
      BY <1>0, <3>1, ErasePipe, ErasePipeRows
    <3> QED BY <2>1, <2>3, <3>2 DEF Slot
  <2> QED BY <2>2, <2>3 DEF handleDisconnect
<1> QED BY <1>0, <1>1, <1>2 DEF handleDisconnect

\* Client k becomes c and its entry waits for ev, the others stay as they are.
Turned(k, c, ev) ==
  /\ Distinct(pollfd') /\ Len(clients') = Len(clients)
  /\ clients'[k] = c
  /\ pollfd'[L + k].events = ev /\ pollfd'[L + k].revents = pollfd[L + k].revents
  /\ \A j \in ClientIds \ {k} : clients'[j] = clients[j] /\ pollfd'[L + j] = pollfd[L + j]
  /\ ClientFds' = ClientFds

\* One client changed in place, and what its entry waits for.
LEMMA WatchedTurn ==
  ASSUME IInv, Alive, Distinct(pollfd), NEW k \in ClientIds, NEW c, c.fd = clients[k].fd,
         Update(k, c), NEW ev,
         (pollfd' = pollfd /\ ev = Events(k)) \/ Watch(k, ev)
  PROVE  Turned(k, c, ev) /\ PipeFds' = PipeFds
<1>0. /\ Vectors(pollfd, clients) /\ L \in Nat /\ Len(pollfd) \in Nat /\ Len(clients) \in Nat
      /\ L + Len(clients) <= Len(pollfd) /\ ClientIds = 1 .. Len(clients)
      /\ \A j \in ClientIds : L + j \in 1 .. Len(pollfd)
      /\ pollfd[L + k] \in PollEntry
  BY Parts_
<1>1. /\ Len(clients') = Len(clients)
      /\ \A j \in 1 .. Len(clients) : clients'[j] = IF j = k THEN c ELSE clients[j]
  BY <1>0, LenProperties DEF Update, Vectors
<1>2. /\ Len(pollfd') = Len(pollfd)
      /\ \A s \in 1 .. Len(pollfd) : s # L + k => pollfd'[s] = pollfd[s]
      /\ pollfd'[L + k].events = ev
      /\ pollfd'[L + k].revents = pollfd[L + k].revents
      /\ pollfd'[L + k].fd = pollfd[L + k].fd
  <2>1. CASE pollfd' = pollfd /\ ev = Events(k)
    BY <2>1 DEF Events, Slot
  <2>2. CASE Watch(k, ev)
    <3> DEFINE e == [pollfd[L + k] EXCEPT !.events = ev]
    <3>1. pollfd' = [pollfd EXCEPT ![L + k] = e]
      BY <2>2 DEF Watch, Slot
    <3>2. e.events = ev /\ e.revents = pollfd[L + k].revents /\ e.fd = pollfd[L + k].fd
      BY <1>0 DEF PollEntry
    <3> HIDE DEF e
    <3>3. /\ Len(pollfd') = Len(pollfd)
          /\ \A s \in 1 .. Len(pollfd) : pollfd'[s] = IF s = L + k THEN e ELSE pollfd[s]
      BY <1>0, <3>1, LenProperties DEF Vectors
    <3> QED BY <1>0, <3>2, <3>3
  <2> QED BY <2>1, <2>2
<1>3. \A s \in 1 .. Len(pollfd) : pollfd'[s].fd = pollfd[s].fd
  BY <1>0, <1>2
<1>4. Distinct(pollfd') /\ Pipes(pollfd', clients') = Pipes(pollfd, clients)
  <2>1. L + Len(clients) \in Nat
    BY <1>0
  <2> QED BY <2>1, <1>0, <1>1, <1>2, <1>3, RewriteRows, SMTT(30)
<1>5. PipeFds' = PipeFds
  BY <1>4, PipesAre DEF PipeFds, Pipes, TailSlots, L
<1>6. \A j \in ClientIds : clients'[j].fd = clients[j].fd
  BY <1>0, <1>1
<1>7. ClientFds' = ClientFds
  BY <1>1, <1>6 DEF ClientFds, ClientIds
<1>8. ASSUME NEW j \in ClientIds \ {k}
      PROVE  clients'[j] = clients[j] /\ pollfd'[L + j] = pollfd[L + j]
  <2>1. L + j # L + k /\ L + j \in 1 .. Len(pollfd)
    BY <1>0
  <2> QED BY <1>0, <1>1, <1>2, <2>1
<1> QED BY <1>0, <1>1, <1>2, <1>4, <1>5, <1>7, <1>8 DEF Turned

\* The clients stay and so do the descriptors and events; only revents may differ.
Signalled ==
  /\ Distinct(pollfd') /\ clients' = clients /\ ClientFds' = ClientFds /\ PipeFds' = PipeFds
  /\ \A k \in ClientIds : pollfd'[L + k].events = pollfd[L + k].events

\* A step that changes revents alone.
LEMMA SignalledBy ==
  ASSUME IInv, Alive, Distinct(pollfd), clients' = clients, Len(pollfd') = Len(pollfd),
         \A s \in 1 .. Len(pollfd) :
           pollfd'[s].fd = pollfd[s].fd /\ pollfd'[s].events = pollfd[s].events
  PROVE  Signalled
<1>0. /\ L + Len(clients) \in Nat /\ Len(pollfd) \in Nat
      /\ \A k \in ClientIds : L + k \in 1 .. Len(pollfd)
  BY Parts_
<1>1. Distinct(pollfd') /\ Pipes(pollfd', clients') = Pipes(pollfd, clients)
  BY <1>0, RewriteRows
<1>2. PipeFds' = PipeFds /\ ClientFds' = ClientFds
  BY <1>1, PipesAre DEF PipeFds, Pipes, TailSlots, L, ClientFds, ClientIds
<1> QED BY <1>0, <1>1, <1>2 DEF Signalled

\* poll() reports of an entry what it waits for, and that it hung up.
LEMMA Polled ==
  ASSUME IInv, Alive, Distinct(pollfd), clients' = clients, NEW ready, pollfd' = PollResult(ready)
  PROVE  /\ Signalled
         /\ \A k \in ClientIds : pollfd'[L + k].revents \subseteq Events(k) \cup {"POLLHUP"}
<1>0. /\ Len(pollfd) \in Nat
      /\ \A k \in ClientIds : L + k \in 1 .. Len(pollfd)
      /\ \A s \in 1 .. Len(pollfd) : pollfd[s] \in PollEntry
  BY Parts_, ElementOfSeq DEF Vectors
<1>1. \A s \in 1 .. Len(pollfd) :
        /\ PollResult(ready)[s].fd = pollfd[s].fd /\ PollResult(ready)[s].events = pollfd[s].events
        /\ PollResult(ready)[s].revents \subseteq pollfd[s].events \cup {"POLLHUP"}
  BY <1>0 DEF PollResult, PollEntry
<1>2. PollResult(ready) = [s \in 1 .. Len(pollfd) |-> PollResult(ready)[s]]
  BY DEF PollResult
<1>3. Len(pollfd') = Len(pollfd)
  <2>1. Vectors(PollResult(ready), clients)
    BY Parts_, PollKeeps
  <2>2. DOMAIN PollResult(ready) = 1 .. Len(pollfd) /\ PollResult(ready) \in Seq(PollEntry)
    BY <1>2, <2>1 DEF Vectors
  <2> QED BY <1>0, <2>2, LenProperties
<1> QED BY <1>0, <1>1, <1>3, SignalledBy DEF Events, Slot

\* revents that are cleared, or left by a call of poll() that was interrupted.
LEMMA Cleared ==
  ASSUME IInv, Alive, Distinct(pollfd), clients' = clients,
         pollfd' = IF StaleRevents THEN pollfd ELSE Unsignalled
  PROVE  /\ Signalled
         /\ \A k \in ClientIds : pollfd'[L + k].revents \in {pollfd[L + k].revents, {}}
<1>0. /\ Len(pollfd) \in Nat
      /\ \A k \in ClientIds : L + k \in 1 .. Len(pollfd)
      /\ \A s \in 1 .. Len(pollfd) : pollfd[s] \in PollEntry
  BY Parts_, ElementOfSeq DEF Vectors
<1>1. CASE pollfd' = pollfd
  BY <1>0, <1>1, SignalledBy
<1>2. CASE pollfd' = Unsignalled
  <2>1. \A s \in 1 .. Len(pollfd) :
          /\ Unsignalled[s].fd = pollfd[s].fd /\ Unsignalled[s].events = pollfd[s].events
          /\ Unsignalled[s].revents = {}
    BY <1>0 DEF Unsignalled, PollEntry
  <2>2. Len(Unsignalled) = Len(pollfd)
    <3>1. Vectors(Unsignalled, clients)
      BY Parts_, UnsignalledKeeps
    <3>2. DOMAIN Unsignalled = 1 .. Len(pollfd) /\ Unsignalled \in Seq(PollEntry)
      BY <3>1 DEF Vectors, Unsignalled
    <3> QED BY <1>0, <3>2, LenProperties
  <2> QED BY <1>0, <1>2, <2>1, <2>2, SignalledBy
<1> QED BY <1>1, <1>2

\* A free descriptor is neither polled nor forgotten.
LEMMA FreeApart ==
  ASSUME IInv, DInv, Alive, NEW f \in FreeFds
  PROVE  /\ f \in Fd /\ f \notin lost /\ f \notin ClientFds /\ f \notin PipeFds
         /\ \A s \in 1 .. Len(pollfd) : pollfd[s].fd # f
<1>1. f \in Fd /\ f \notin lost /\ f \notin ClientFds /\ f \notin PipeFds
  BY DEF FreeFds, DInv
<1>2. f \notin Listener
  BY <1>1, FdAssumption
<1> QED BY <1>1, <1>2, FdsApart DEF DInv

\* accept(): one more client, behind the others.
LEMMA Accepted ==
  ASSUME IInv, DInv, Alive, NEW f \in FreeFds, NEW conn \in GarbageConn,
         clients' = Append(clients, NewClient(f, conn)),
         pollfd' = InsertAt(pollfd, NewSlot, [fd |-> f, events |-> {"POLLIN"}, revents |-> {}])
  PROVE  /\ Distinct(pollfd') /\ Len(clients') = Len(clients) + 1
         /\ \A j \in ClientIds : clients'[j] = clients[j] /\ pollfd'[L + j] = pollfd[L + j]
         /\ clients'[Len(clients) + 1] = NewClient(f, conn)
         /\ pollfd'[L + (Len(clients) + 1)] = [fd |-> f, events |-> {"POLLIN"}, revents |-> {}]
         /\ ClientFds' = ClientFds \cup {f} /\ PipeFds' = PipeFds
<1> DEFINE e == [fd |-> f, events |-> {"POLLIN"}, revents |-> {}]
           c == NewClient(f, conn)
<1>0. f \in Fd /\ \A s \in 1 .. Len(pollfd) : pollfd[s].fd # f
  BY FreeApart
<1>1. e \in PollEntry /\ e.fd = f
  BY <1>0 DEF PollEntry
<1>2. c \in Client /\ c.fd = f
  BY <1>0, BoundAssumption, GarbageAssumption DEF NewClient, Client, Statuses, ResStatuses, CgiStates
<1>3. Vectors(pollfd, clients) /\ Distinct(pollfd) /\ ClientIds = 1 .. Len(clients) /\ Len(clients) \in Nat
  BY Parts_ DEF DInv
<1>p. pollfd' = InsertAt(pollfd, L + Len(clients) + 1, e) /\ clients' = Append(clients, c)
  BY DEF NewSlot
<1> HIDE DEF e, c
<1>4. /\ Distinct(pollfd') /\ Len(clients') = Len(clients) + 1
      /\ Pipes(pollfd', clients') = Pipes(pollfd, clients)
      /\ \A j \in 1 .. Len(clients) : clients'[j] = clients[j] /\ pollfd'[L + j] = pollfd[L + j]
      /\ clients'[Len(clients) + 1] = c /\ pollfd'[L + (Len(clients) + 1)] = e
  <2>1. \A s \in 1 .. Len(pollfd) : pollfd[s].fd # e.fd
    BY <1>0, <1>1
  <2> DEFINE q == InsertAt(pollfd, L + Len(clients) + 1, e)
             d == Append(clients, c)
  <2>2. /\ Distinct(q) /\ Len(d) = Len(clients) + 1
        /\ Pipes(q, d) = Pipes(pollfd, clients)
        /\ \A j \in 1 .. Len(clients) : d[j] = clients[j] /\ q[L + j] = pollfd[L + j]
        /\ d[Len(clients) + 1] = c /\ q[L + (Len(clients) + 1)] = e
    BY <1>1, <1>2, <1>3, <2>1, InsertClientRows
  <2>3. pollfd' = q /\ clients' = d
    BY <1>p
  <2> HIDE DEF q, d
  <2> QED BY <2>2, <2>3
<1>5. PipeFds' = PipeFds
  BY <1>4, PipesAre DEF PipeFds, Pipes, TailSlots, L
<1>6. ClientFds' = ClientFds \cup {f}
  <2>1. ClientFds' = {clients'[j].fd : j \in 1 .. Len(clients) + 1}
    BY <1>4 DEF ClientFds, ClientIds
  <2>2. \A j \in 1 .. Len(clients) + 1 : clients'[j].fd \in ClientFds \cup {f}
    <3>1. \A j \in 1 .. Len(clients) + 1 : j \in 1 .. Len(clients) \/ j = Len(clients) + 1
      BY <1>3
    <3> QED BY <1>2, <1>3, <1>4, <3>1 DEF ClientFds
  <2>3. f = clients'[Len(clients) + 1].fd /\ Len(clients) + 1 \in 1 .. Len(clients) + 1
    BY <1>2, <1>3, <1>4
  <2>4. \A j \in ClientIds : clients[j].fd = clients'[j].fd /\ j \in 1 .. Len(clients) + 1
    BY <1>3, <1>4
  <2> QED BY <2>1, <2>2, <2>3, <2>4, ZenonT(60) DEF ClientFds
<1> QED BY <1>3, <1>4, <1>5, <1>6 DEF e, c

\* isCgiRequest: the client stops waiting and its pipe is polled.
LEMMA Launching ==
  ASSUME IInv, DInv, Alive, NEW k \in ClientIds, NEW f \in FreeFds, NEW c, c.fd = clients[k].fd,
         NEW ev, Update(k, c),
         pollfd' = Append([pollfd EXCEPT ![Slot(k)].events = ev],
                          [fd |-> f, events |-> {"POLLIN"}, revents |-> {}]),
         ev \in SUBSET {"POLLIN", "POLLOUT"}
  PROVE  Turned(k, c, ev) /\ PipeFds' = PipeFds \cup {f}
<1> DEFINE q == [pollfd EXCEPT ![L + k].events = ev]
           e == [fd |-> f, events |-> {"POLLIN"}, revents |-> {}]
<1>0. /\ Vectors(pollfd, clients) /\ L \in Nat /\ Len(pollfd) \in Nat /\ Len(clients) \in Nat
      /\ L + Len(clients) <= Len(pollfd) /\ ClientIds = 1 .. Len(clients)
      /\ \A j \in ClientIds : L + j \in 1 .. Len(pollfd)
      /\ pollfd[L + k] \in PollEntry
      /\ Distinct(pollfd) /\ f \in Fd /\ \A s \in 1 .. Len(pollfd) : pollfd[s].fd # f
  BY Parts_, FreeApart DEF DInv
<1>e. e \in PollEntry /\ e.fd = f
  BY <1>0 DEF PollEntry
<1>p. pollfd' = Append(q, e)
  BY DEF Slot
<1> HIDE DEF e
<1>1. /\ Len(clients') = Len(clients)
      /\ \A j \in 1 .. Len(clients) : clients'[j] = IF j = k THEN c ELSE clients[j]
  BY <1>0, LenProperties DEF Update, Vectors
<1> DEFINE x == [pollfd[L + k] EXCEPT !.events = ev]
<1>x. x.events = ev /\ x.revents = pollfd[L + k].revents /\ x.fd = pollfd[L + k].fd /\ x \in PollEntry
  BY <1>0 DEF PollEntry
<1>q. q = [pollfd EXCEPT ![L + k] = x]
  OBVIOUS
<1> HIDE DEF x, q
<1>2. /\ q \in Seq(PollEntry) /\ Len(q) = Len(pollfd)
      /\ \A s \in 1 .. Len(pollfd) : q[s] = IF s = L + k THEN x ELSE pollfd[s]
  BY <1>0, <1>q, <1>x, ExceptSeq DEF Vectors
<1>3. \A s \in 1 .. Len(pollfd) : q[s].fd = pollfd[s].fd
  BY <1>2, <1>x
<1>4. Distinct(q) /\ Pipes(q, clients) = Pipes(pollfd, clients)
  <2>1. L + Len(clients) \in Nat
    BY <1>0
  <2> QED BY <2>1, <1>0, <1>2, <1>3, RewriteRows
<1>5. Vectors(q, clients)
  <2>1. \A s \in 1 .. Len(pollfd) : s \notin (L + 1) .. (L + Len(clients)) => q[s].events = pollfd[s].events
    BY <1>0, <1>2
  <2>2. clients \in Seq(Client)
    BY <1>0 DEF Vectors
  <2> QED BY <1>0, <1>2, <1>3, <2>1, <2>2, Rewrite
<1>6. \A s \in 1 .. Len(q) : q[s].fd # e.fd
  BY <1>0, <1>2, <1>3, <1>e
<1>7. /\ Distinct(pollfd') /\ Pipes(pollfd', clients) = Pipes(pollfd, clients) \cup {f}
      /\ \A j \in 1 .. Len(clients) : pollfd'[L + j] = q[L + j]
  <2>1. Vectors(q, clients) /\ Distinct(q) /\ e \in PollEntry /\ \A s \in 1 .. Len(q) : q[s].fd # e.fd
    BY <1>4, <1>5, <1>6, <1>e
  <2>2. /\ Distinct(Append(q, e))
        /\ Pipes(Append(q, e), clients) = Pipes(q, clients) \cup {e.fd}
        /\ \A j \in 1 .. Len(clients) : Append(q, e)[L + j] = q[L + j]
    <3>1. Distinct(Append(q, e))
      BY <2>1, AppendPipeRows
    <3>2. Pipes(Append(q, e), clients) = Pipes(q, clients) \cup {e.fd}
      BY <2>1, AppendPipeRows
    <3>3. \A j \in 1 .. Len(clients) : Append(q, e)[L + j] = q[L + j]
      BY <2>1, AppendPipeRows, ZenonT(60)
    <3> QED BY <3>1, <3>2, <3>3
  <2> QED BY <1>4, <1>e, <1>p, <2>2
<1>8. PipeFds' = PipeFds \cup {f}
  BY <1>1, <1>7, PipesAre DEF PipeFds, Pipes, TailSlots, L
<1>9. ClientFds' = ClientFds
  <2>1. \A j \in ClientIds : clients'[j].fd = clients[j].fd
    BY <1>0, <1>1
  <2> QED BY <1>1, <2>1 DEF ClientFds, ClientIds
<1>10. pollfd'[L + k] = x /\ clients'[k] = c
  BY <1>0, <1>1, <1>2, <1>7
<1>11. ASSUME NEW j \in ClientIds \ {k}
       PROVE  clients'[j] = clients[j] /\ pollfd'[L + j] = pollfd[L + j]
  <2>1. L + j # L + k /\ L + j \in 1 .. Len(pollfd)
    BY <1>0
  <2> QED BY <1>0, <1>1, <1>2, <1>7, <2>1
<1> QED BY <1>1, <1>7, <1>8, <1>9, <1>10, <1>11, <1>x DEF Turned

\* ScriptClosedOutput: the first client found with the pipe is woken, and no other,
\* since only its entry has its descriptor; the pipe is no longer polled.
LEMMA ScriptEnding ==
  ASSUME IInv, Alive, Distinct(pollfd), NEW s \in ReadyPipes, NEW k \in Readers(s),
         NEW c, c.fd = clients[k].fd, Update(k, c),
         pollfd' = RemoveAt(Wake(clients[k].fd), s)
  PROVE  /\ Turned(k, c, ToSend(Events(k)))
         /\ pollfd[s].fd \in PipeFds /\ clients[k].pipe = pollfd[s].fd
         /\ PipeFds' = PipeFds \ {clients[k].pipe}
<1> DEFINE q == Wake(clients[k].fd)
<1>0. /\ Vectors(pollfd, clients) /\ L \in Nat /\ Len(pollfd) \in Nat /\ Len(clients) \in Nat
      /\ L + Len(clients) <= Len(pollfd) /\ ClientIds = 1 .. Len(clients)
      /\ \A j \in ClientIds : L + j \in 1 .. Len(pollfd) /\ pollfd[L + j].fd = clients[j].fd
                            /\ pollfd[L + j] \in PollEntry
      /\ k \in ClientIds /\ clients[k].pipe = pollfd[s].fd
      /\ s \in (L + Len(clients) + 1) .. Len(pollfd) /\ s \in TailSlots
      /\ \A t \in 1 .. Len(pollfd) : pollfd[t] \in PollEntry
  BY Parts_, ElementOfSeq DEF Readers, ReadyPipes, TailSlots, Vectors
<1>1. Vectors(q, clients) /\ Len(q) = Len(pollfd)
  BY <1>0, WakeKeeps
<1>2. \A t \in 1 .. Len(pollfd) :
        q[t] = IF t \in (L + 1) .. (L + Len(clients)) /\ pollfd[t].fd = clients[k].fd
                 THEN [pollfd[t] EXCEPT !.events = ToSend(pollfd[t].events)]
                 ELSE pollfd[t]
  BY DEF Wake, Slot
<1> HIDE DEF q
<1>3. \A t \in 1 .. Len(pollfd) : q[t].fd = pollfd[t].fd
  BY <1>0, <1>2 DEF PollEntry
<1>4. Distinct(q) /\ Pipes(q, clients) = Pipes(pollfd, clients)
  <2>1. L + Len(clients) \in Nat
    BY <1>0
  <2> QED BY <2>1, <1>0, <1>1, <1>3, RewriteRows
<1>5. /\ Distinct(pollfd') /\ Pipes(pollfd', clients) = Pipes(pollfd, clients) \ {q[s].fd}
      /\ \A j \in 1 .. Len(clients) : pollfd'[L + j] = q[L + j]
  <2>1. pollfd' = RemoveAt(q, s) /\ s \in (L + Len(clients) + 1) .. Len(q)
    BY <1>0, <1>1 DEF q
  <2> QED BY <1>1, <1>4, <2>1, ErasePipeRows
<1>6. /\ Len(clients') = Len(clients)
      /\ \A j \in 1 .. Len(clients) : clients'[j] = IF j = k THEN c ELSE clients[j]
  BY <1>0, LenProperties DEF Update, Vectors
<1>7. PipeFds' = PipeFds \ {clients[k].pipe}
  <2>1. q[s].fd = clients[k].pipe
    BY <1>0, <1>3
  <2> QED BY <1>5, <1>6, <2>1, PipesAre DEF PipeFds, Pipes, TailSlots, L
<1>8. ASSUME NEW j \in ClientIds \ {k}
      PROVE  clients'[j] = clients[j] /\ pollfd'[L + j] = pollfd[L + j]
  <2>1. pollfd[L + j].fd # clients[k].fd
    BY <1>0, FdsApart
  <2>2. q[L + j] = pollfd[L + j]
    BY <1>0, <1>2, <2>1
  <2> QED BY <1>0, <1>5, <1>6, <2>2
<1>9. /\ pollfd'[L + k].events = ToSend(Events(k))
      /\ pollfd'[L + k].revents = pollfd[L + k].revents
  <2>1. L + k \in (L + 1) .. (L + Len(clients)) /\ L + k \in 1 .. Len(pollfd)
    BY <1>0
  <2>2. q[L + k] = [pollfd[L + k] EXCEPT !.events = ToSend(pollfd[L + k].events)]
    BY <1>0, <1>2, <2>1
  <2>3. pollfd'[L + k] = q[L + k]
    BY <1>0, <1>5
  <2> QED BY <1>0, <2>2, <2>3 DEF PollEntry, Events, Slot
<1>10. ClientFds' = ClientFds
  <2>1. \A j \in ClientIds : clients'[j].fd = clients[j].fd
    BY <1>0, <1>6
  <2> QED BY <1>6, <2>1 DEF ClientFds, ClientIds
<1>11. pollfd[s].fd \in PipeFds
  BY <1>0 DEF PipeFds
<1> QED BY <1>0, <1>5, <1>6, <1>7, <1>8, <1>9, <1>10, <1>11 DEF Turned

-----------------------------------------------------------------------------
(* The kinds of steps the invariants and the refinement tell apart.        *)

Runs(c) == c.exec /\ c.cgi = "CCS_RUNNING"

\* The phase of the connection of a client whose entry waits for ev, and the moves
\* of ConnTable other than Open and Close.
Kind(c, ev) ==
  CASE ev = {"POLLIN"} -> "receiving"
    [] ev = {} -> "script"
    [] OTHER -> IF c.exec THEN "relaying" ELSE "answering"
Moved(from, to) ==
  \/ from = to
  \/ from = "receiving" /\ to = "answering"
  \/ from = "answering" /\ to \in {"script", "receiving"}
  \/ from = "script" /\ to = "relaying"
  \/ from = "relaying" /\ to = "receiving"

\* Nothing is opened, closed, started or reaped.
KernelLike ==
  /\ lost' = lost /\ writer' = writer
  /\ \A f \in Fd : desc'[f] = "free" <=> desc[f] = "free"
  /\ \A p \in Pid : proc'[p] = "none" <=> proc[p] = "none"
InLoop == pc' \in {"poll", "timeout", "err", "accept", "cgi", "read", "shutdown"} /\ cur' = 0
Alike(c, d) ==
  /\ c.fd = d.fd /\ c.status = d.status /\ c.exec = d.exec
  /\ c.cgi = d.cgi /\ c.pipe = d.pipe /\ c.pid = d.pid

\* poll() returns, a loop ends, or the environment moves.
Idles ==
  /\ Alive /\ KernelLike
  /\ UNCHANGED loop \/ (InLoop /\ pc \notin {"reap", "reply"})
  /\ Distinct(pollfd') /\ Len(clients') = Len(clients)
  /\ ClientFds' = ClientFds /\ PipeFds' = PipeFds
  /\ \A k \in ClientIds :
       /\ Alike(clients'[k], clients[k])
       /\ pollfd'[L + k].events = pollfd[L + k].events
       /\ \/ pollfd'[L + k].revents \in {pollfd[L + k].revents, {}}
          \/ pollfd'[L + k].revents \subseteq pollfd[L + k].events \cup {"POLLHUP"}

\* A turn of client k that neither starts, reaps nor forgets anything.
Serves(k) ==
  /\ Alive /\ KernelLike /\ InLoop /\ pc # "reap" /\ PipeFds' = PipeFds
  /\ \E c \in Client, ev \in SUBSET {"POLLIN", "POLLOUT"} :
       /\ Turned(k, c, ev)
       /\ Settled(c, ev, pollfd[L + k].revents)
       /\ c.fd = clients[k].fd /\ c.pipe = clients[k].pipe /\ c.pid = clients[k].pid
       /\ Runs(c) <=> Runs(clients[k])
       /\ Moved(Kind(clients[k], pollfd[L + k].events), Kind(c, ev))

\* Client k is disconnected; its pipe, if it is polled, goes with it.
Leaves(k) ==
  /\ Alive /\ InLoop /\ pc # "reap" /\ Gone(k)
  /\ PipeFds' = PipeFds \ {clients[k].pipe} /\ lost' = lost
  /\ \/ /\ clients[k].pipe \notin PipeFds
        /\ Close({clients[k].fd}) /\ proc' = proc
     \/ /\ clients[k].pipe \in PipeFds
        /\ Close({clients[k].fd, clients[k].pipe}) /\ proc' = Reaped(clients[k].pid)

\* A client comes.
Comes(f, conn) ==
  /\ pc = "accept" /\ InLoop
  /\ Distinct(pollfd') /\ Len(clients') = Len(clients) + 1
  /\ \A j \in ClientIds : clients'[j] = clients[j] /\ pollfd'[L + j] = pollfd[L + j]
  /\ clients'[Len(clients) + 1] = NewClient(f, conn)
  /\ pollfd'[L + (Len(clients) + 1)] = [fd |-> f, events |-> {"POLLIN"}, revents |-> {}]
  /\ ClientFds' = ClientFds \cup {f} /\ PipeFds' = PipeFds
  /\ desc' = [desc EXCEPT ![f] = "peer"] /\ UNCHANGED <<writer, proc, lost>>

\* The script of client k starts.
Starts(k, f, p) ==
  /\ Alive /\ InLoop /\ pc # "reap"
  /\ clients[k].status = "CS_CGI_REQ" /\ ~clients[k].exec
  /\ pollfd[L + k].events = {"POLLOUT"} /\ "POLLIN" \notin pollfd[L + k].revents
  /\ Turned(k, Running(clients[k], f, p), {}) /\ PipeFds' = PipeFds \cup {f}
  /\ desc' = [desc EXCEPT ![f] = "pipe"] /\ writer' = [writer EXCEPT ![f] = p]
  /\ proc' = [proc EXCEPT ![p] = "running"] /\ lost' = lost

\* Starting it fails, and descriptors and a child may be forgotten.
Forgets(k, fds, pids) ==
  /\ Alive /\ pc # "reap" /\ pc' = "reply" /\ cur' = 0 /\ i' = k
  /\ clients[k].status = "CS_CGI_REQ" /\ ~clients[k].exec
  /\ \E f \in GarbageFd, p \in GarbagePid :
       Turned(k, Failed(clients[k], f, p), pollfd[L + k].events)
  /\ PipeFds' = PipeFds /\ writer' = writer
  /\ desc' = [f \in Fd |-> IF f \in fds THEN "pipe" ELSE desc[f]]
  /\ lost' = lost \cup fds \cup pids
  /\ proc' = [p \in Pid |-> IF p \in pids THEN "running" ELSE proc[p]]

\* The script of a pipe ends its output, and the first client found with the pipe
\* is woken.
EndsOutput(k, result) ==
  /\ pc = "cgi" /\ pc' = "reap" /\ cur' = k
  /\ clients[k].pipe \in PipeFds /\ PipeFds' = PipeFds \ {clients[k].pipe}
  /\ Turned(k, [clients[k] EXCEPT !.cgi = result, !.pipe = NoFd],
            ToSend(pollfd[L + k].events))
  /\ Close({clients[k].pipe}) /\ UNCHANGED <<proc, lost>>

\* Its child is reaped.
Reaps(k) ==
  /\ pc = "reap" /\ InLoop /\ cur = k /\ PipeFds' = PipeFds
  /\ \E n \in Nat, left \in {NoPid, clients[k].pid} :
       Turned(k, [clients[k] EXCEPT !.out = n, !.pid = left], pollfd[L + k].events)
  /\ proc' = Reaped(clients[k].pid) /\ UNCHANGED <<desc, writer, lost>>

Steps ==
  \/ Idles
  \/ \E k \in ClientIds : Serves(k) \/ Leaves(k) \/ Reaps(k)
  \/ \E f \in FreeFds, conn \in GarbageConn : Comes(f, conn)
  \/ \E k \in ClientIds, f \in FreeFds, p \in FreePids : Starts(k, f, p)
  \/ \E k \in ClientIds, fds \in SUBSET FreeFds, pids \in SUBSET FreePids : Forgets(k, fds, pids)
  \/ \E k \in ClientIds, result \in {"CCS_DONE", "CCS_FAILLED"} : EndsOutput(k, result)
  \/ Shutdown \/ AcceptFails
  \/ UNCHANGED vars

-----------------------------------------------------------------------------
\* A turn in place of one client, whatever the handler.
LEMMA TurnServes ==
  ASSUME IInv, DInv, Alive, NEW k \in ClientIds, NEW c \in Client, c.fd = clients[k].fd,
         Update(k, c), NEW ev \in SUBSET {"POLLIN", "POLLOUT"},
         (pollfd' = pollfd /\ ev = Events(k)) \/ Watch(k, ev),
         UNCHANGED kernel, InLoop, pc # "reap",
         Settled(c, ev, Revents(Slot(k))),
         c.pipe = clients[k].pipe, c.pid = clients[k].pid, Runs(c) <=> Runs(clients[k]),
         Moved(Kind(clients[k], Events(k)), Kind(c, ev))
  PROVE  Serves(k)
<1>1. Turned(k, c, ev) /\ PipeFds' = PipeFds
  BY WatchedTurn DEF DInv
<1>2. KernelLike
  BY DEF kernel, KernelLike
<1>3. Revents(Slot(k)) = pollfd[L + k].revents /\ Events(k) = pollfd[L + k].events
  BY DEF Revents, Events, Slot
<1> QED BY <1>1, <1>2, <1>3 DEF Serves

\* One client's turn in the last loop.
LEMMA ServingSteps ==
  ASSUME IInv, DInv, RInv, NEW k \in ClientIds, Serving(k)
  PROVE  Steps
<1>0. Alive /\ pc # "reap"
  BY DEF Serving, ReadMore, ReadDone, PeerClosed, LaunchScript, LaunchFails, ScriptAnswered,
     RelayOutput, RelayReturnsZero, NothingToDo, SendReturnsZero, SendMore, ResponseDone,
     CloseAfterResponse, Receiving, ToLaunch, ToRelay, Launched, ToSendStatic, Static,
     Responding, Alive
<1>k. /\ clients[k] \in Client /\ Events(k) \in SUBSET {"POLLIN", "POLLOUT"}
      /\ Events(k) = pollfd[L + k].events /\ Revents(Slot(k)) = pollfd[L + k].revents
  BY <1>0, Parts_ DEF Events, Revents, Slot, PollEntry
<1>s. Settled(clients[k], Events(k), Revents(Slot(k)))
  BY DEF RInv
<1>r. pc # "respond"
  BY DEF RInv
<1>t. /\ Touched(k) \in Client /\ Alike(Touched(k), clients[k])
      /\ Touched(k).res = clients[k].res /\ Touched(k).conn = clients[k].conn
      /\ Touched(k).out = clients[k].out
  BY <1>k DEF Touched, Client, Alike
<1>f. ASSUME NEW c \in Filled(k) PROVE c \in Client /\ Alike(c, clients[k])
  <2>1. PICK r \in {"CS_WRITING", "CS_WRITING_DONE"} \X MayAsk(k) :
          c = [Touched(k) EXCEPT !.res = r[1], !.conn = r[2]]
    BY DEF Filled
  <2>2. r[1] \in ResStatuses /\ r[2] \in {"NEW", "CLOSED"}
    <3>1. MayAsk(k) \subseteq {"NEW", "CLOSED"}
      BY <1>k DEF MayAsk, Client
    <3> QED BY <2>1, <3>1 DEF ResStatuses
  <2> QED BY <1>t, <2>1, <2>2 DEF Client, Alike

\* A turn that changes nothing the classes tell apart.
<1>q. ASSUME NEW c \in Client, Alike(c, clients[k]), Update(k, c), NextClient(k),
             UNCHANGED <<pollfd, gRun, kernel>>
      PROVE  Serves(k)
  <2>1. Settled(c, Events(k), Revents(Slot(k))) /\ (Runs(c) <=> Runs(clients[k]))
        /\ Kind(c, Events(k)) = Kind(clients[k], Events(k))
    BY <1>s, <1>q DEF Settled, Alike, Runs, Kind
  <2>2. InLoop
    BY <1>q DEF NextClient, GoTo, InLoop
  <2> QED BY <1>0, <1>k, <1>q, <2>1, <2>2, TurnServes DEF Alike, Moved

\* The turns that end the connection.
<1>d. ASSUME handleDisconnect(k), GoTo("read", k) PROVE Leaves(k)
  <2>1. InLoop
    BY <1>d DEF GoTo, InLoop
  <2> QED BY <1>0, <1>d, <2>1, Disconnecting DEF Leaves, DInv

\* A client that is read is not waiting for a script.
<1>i. ASSUME Receiving(k)
      PROVE  ~clients[k].exec /\ "POLLIN" \in Revents(Slot(k)) /\ "POLLOUT" \notin Revents(Slot(k))
  BY <1>i, <1>s DEF Receiving, Settled

<1>1. ASSUME ReadMore(k) PROVE Serves(k)
  <2>1. PICK status \in {clients[k].status}
                \cup (IF clients[k].status = "CS_NEW" THEN {"CS_READING"} ELSE {}) :
          Update(k, [Touched(k) EXCEPT !.status = status])
    BY <1>1 DEF ReadMore
  <2> DEFINE c == [Touched(k) EXCEPT !.status = status]
  <2>2. /\ c \in Client /\ c.fd = clients[k].fd /\ c.pipe = clients[k].pipe
        /\ c.pid = clients[k].pid /\ c.exec = clients[k].exec /\ c.cgi = clients[k].cgi
        /\ c.status = "CS_CGI_REQ" => clients[k].status = "CS_CGI_REQ"
    BY <1>k, <1>t, <2>1 DEF Client, Statuses, Alike
  <2>3. NextClient(k) /\ UNCHANGED <<pollfd, gRun, kernel>> /\ Receiving(k)
    BY <1>1 DEF ReadMore, NextClient
  <2>u. Update(k, c)
    BY <2>1
  <2> HIDE DEF c
  <2>4. Settled(c, Events(k), Revents(Slot(k))) /\ (Runs(c) <=> Runs(clients[k]))
        /\ Kind(c, Events(k)) = Kind(clients[k], Events(k))
    BY <1>i, <1>s, <2>2, <2>3 DEF Settled, Runs, Kind
  <2>5. InLoop
    BY <2>3 DEF NextClient, GoTo, InLoop
  <2> QED BY <1>0, <1>k, <2>2, <2>3, <2>4, <2>5, <2>u, TurnServes DEF Moved
<1>2. ASSUME ReadDone(k) PROVE Serves(k)
  <2>1. PICK status \in Kinds, conn \in {clients[k].conn, "CLOSED"} :
          Update(k, [Touched(k) EXCEPT !.status = status, !.conn = conn,
                                       !.res = "CS_START_SEND"])
    BY <1>2 DEF ReadDone
  <2> DEFINE c == [Touched(k) EXCEPT !.status = status, !.conn = conn,
                                     !.res = "CS_START_SEND"]
  <2>2. c \in Client
    <3>1. status \in Statuses /\ conn \in {"NEW", "CLOSED"}
      BY <1>k, <2>1, KindAssumption DEF Client, Statuses
    <3> QED BY <1>t, <3>1 DEF Client, ResStatuses
  <2>3. /\ c.fd = clients[k].fd /\ c.pipe = clients[k].pipe /\ c.pid = clients[k].pid
        /\ c.exec = clients[k].exec /\ c.cgi = clients[k].cgi
    BY <1>t DEF Client, Alike
  <2>u. Update(k, c) /\ Watch(k, ToSend(Events(k))) /\ UNCHANGED kernel /\ Receiving(k)
    BY <1>2, <2>1 DEF ReadDone
  <2> HIDE DEF c
  <2>4. InLoop
    BY <1>2, <1>i DEF ReadDone, GoTo, InLoop
  <2>5. ToSend(Events(k)) = {"POLLOUT"} /\ ~clients[k].exec
    BY <1>i, <1>s, <2>u DEF ToSend, Settled
  <2>6. /\ Settled(c, ToSend(Events(k)), Revents(Slot(k))) /\ (Runs(c) <=> Runs(clients[k]))
        /\ Moved(Kind(clients[k], Events(k)), Kind(c, ToSend(Events(k))))
    BY <1>s, <2>3, <2>5 DEF Settled, Runs, Kind, Moved
  <2> QED BY <1>0, <1>k, <2>2, <2>3, <2>4, <2>5, <2>6, <2>u, TurnServes
<1>3. ASSUME LaunchScript(k) PROVE Steps
  <2>1. PICK f \in Handout(FreeFds), p \in FreePids :
          /\ Update(k, Running(clients[k], f, p))
          /\ pollfd' = Append([pollfd EXCEPT ![Slot(k)].events = Events(k) \ {"POLLOUT"}],
                              [fd |-> f, events |-> {"POLLIN"}, revents |-> {}])
          /\ desc' = [desc EXCEPT ![f] = "pipe"]
          /\ writer' = [writer EXCEPT ![f] = p]
          /\ proc' = [proc EXCEPT ![p] = "running"]
    BY <1>3 DEF LaunchScript
  <2>2. f \in FreeFds
    <3>1. FreeFds \in SUBSET Fd
      BY DEF FreeFds
    <3> QED BY <2>1, <3>1, HandoutAssumption
  <2>3. clients[k].status = "CS_CGI_REQ" /\ ~clients[k].exec /\ "POLLIN" \notin Revents(Slot(k))
    BY <1>3, <1>r DEF LaunchScript, ToLaunch, Responding
  <2>4. Events(k) = {"POLLOUT"} /\ Events(k) \ {"POLLOUT"} = {}
    BY <1>s, <2>3 DEF Settled
  <2>5. Running(clients[k], f, p).fd = clients[k].fd
    BY <1>k DEF Running, Client
  <2>6. Turned(k, Running(clients[k], f, p), {}) /\ PipeFds' = PipeFds \cup {f}
    BY <1>0, <2>1, <2>2, <2>4, <2>5, Launching
  <2>7. InLoop /\ lost' = lost
    BY <1>3 DEF LaunchScript, NextClient, GoTo, InLoop
  <2>8. Starts(k, f, p)
    BY <1>0, <1>k, <2>1, <2>3, <2>4, <2>6, <2>7 DEF Starts
  <2> QED BY <2>1, <2>2, <2>8 DEF Steps
<1>4. ASSUME LaunchFails(k) PROVE Steps
  <2>1. PICK f \in GarbageFd, p \in GarbagePid : Update(k, Failed(clients[k], f, p))
    BY <1>4 DEF LaunchFails
  <2>2. PICK fds \in SUBSET FreeFds, pids \in SUBSET FreePids :
          /\ FailedLaunch(fds, pids)
          /\ desc' = [g \in Fd |-> IF g \in fds THEN "pipe" ELSE desc[g]]
    BY <1>4 DEF LaunchFails
  <2>3. Failed(clients[k], f, p).fd = clients[k].fd
    BY <1>k DEF Failed, Client
  <2>4. /\ Turned(k, Failed(clients[k], f, p), Events(k)) /\ PipeFds' = PipeFds
        /\ writer' = writer
    BY <1>0, <1>4, <2>1, <2>3, WatchedTurn DEF LaunchFails, DInv
  <2>5. /\ clients[k].status = "CS_CGI_REQ" /\ ~clients[k].exec
        /\ pc' = "reply" /\ cur' = 0 /\ i' = k
    BY <1>4 DEF LaunchFails, ToLaunch, GoTo
  <2>6. Forgets(k, fds, pids)
    BY <1>0, <1>k, <2>2, <2>4, <2>5, <2>1 DEF Forgets, FailedLaunch
  <2> QED BY <2>2, <2>6 DEF Steps
<1>5. ASSUME ScriptAnswered(k) PROVE Serves(k)
  <2> DEFINE c == Rearmed(clients[k])
  <2>1. /\ c \in Client /\ c.fd = clients[k].fd /\ c.pipe = clients[k].pipe
        /\ c.pid = clients[k].pid /\ c.exec = FALSE /\ c.status = "CS_NEW"
    BY <1>k DEF Rearmed, Client, Statuses
  <2>2. /\ clients[k].exec /\ clients[k].cgi = "CCS_DONE" /\ Update(k, c) /\ UNCHANGED kernel
        /\ Watch(k, ToReceive(Events(k))) /\ NextClient(k)
    BY <1>5 DEF ScriptAnswered, ToRelay, Launched
  <2> HIDE DEF c
  <2>3. Events(k) = {"POLLOUT"} /\ ToReceive(Events(k)) = {"POLLIN"}
    BY <1>s, <2>2 DEF Settled, ToReceive
  <2>4. /\ Settled(c, {"POLLIN"}, Revents(Slot(k))) /\ (Runs(c) <=> Runs(clients[k]))
        /\ Moved(Kind(clients[k], Events(k)), Kind(c, {"POLLIN"}))
    BY <1>s, <2>1, <2>2, <2>3 DEF Settled, Runs, Kind, Moved
  <2>5. InLoop
    BY <2>2 DEF NextClient, GoTo, InLoop
  <2> QED BY <1>0, <2>1, <2>2, <2>3, <2>4, <2>5, TurnServes
<1>6. ASSUME RelayOutput(k) PROVE Serves(k)
  <2>1. PICK sent \in {0, 1} : Update(k, [Touched(k) EXCEPT !.out = @ - sent])
    BY <1>6 DEF RelayOutput
  <2>2. Touched(k).out - sent \in 0 .. MaxOut
    <3>1. clients[k].out \in 0 .. MaxOut /\ Touched(k).out = clients[k].out
      BY <1>k DEF Touched, Client
    <3>2. clients[k].out > 0 /\ sent \in {0, 1} /\ MaxOut \in Nat
      BY <1>6, <2>1, BoundAssumption DEF RelayOutput
    <3> QED BY <3>1, <3>2
  <2>3. /\ [Touched(k) EXCEPT !.out = @ - sent] \in Client
        /\ Alike([Touched(k) EXCEPT !.out = @ - sent], clients[k])
    BY <1>t, <2>2 DEF Client, Alike
  <2> QED BY <1>6, <1>q, <2>1, <2>3 DEF RelayOutput
<1>7. ASSUME NothingToDo(k) PROVE Serves(k)
  BY <1>7, <1>t, <1>q DEF NothingToDo
<1>8. ASSUME SendMore(k) PROVE Serves(k)
  <2>1. PICK c \in Filled(k) : Update(k, c)
    BY <1>8 DEF SendMore
  <2> QED BY <1>8, <1>f, <1>q, <2>1 DEF SendMore
<1>9. ASSUME ResponseDone(k) PROVE Serves(k)
  <2>1. PICK x \in {Touched(k)} \cup Filled(k) : Update(k, [x EXCEPT !.status = "CS_NEW"])
    BY <1>9 DEF ResponseDone
  <2>2. x \in Client /\ Alike(x, clients[k])
    BY <1>f, <1>t, <2>1
  <2> DEFINE c == [x EXCEPT !.status = "CS_NEW"]
  <2>3. /\ c \in Client /\ c.fd = clients[k].fd /\ c.pipe = clients[k].pipe
        /\ c.pid = clients[k].pid /\ c.exec = clients[k].exec /\ c.cgi = clients[k].cgi
        /\ c.status = "CS_NEW"
    BY <2>2 DEF Client, Statuses, Alike
  <2>4. /\ clients[k].status # "CS_CGI_REQ" /\ Update(k, c) /\ UNCHANGED kernel
        /\ Watch(k, ToReceive(Events(k))) /\ NextClient(k)
    BY <1>9, <2>1 DEF ResponseDone, Static
  <2> HIDE DEF c
  <2>5. ~clients[k].exec /\ Events(k) \in {{"POLLIN"}, {"POLLOUT"}} /\ ToReceive(Events(k)) = {"POLLIN"}
    BY <1>s, <2>4 DEF Settled, ToReceive
  <2>6. /\ Settled(c, {"POLLIN"}, Revents(Slot(k))) /\ (Runs(c) <=> Runs(clients[k]))
        /\ Moved(Kind(clients[k], Events(k)), Kind(c, {"POLLIN"}))
    BY <1>s, <2>3, <2>5 DEF Settled, Runs, Kind, Moved
  <2>7. InLoop
    BY <2>4 DEF NextClient, GoTo, InLoop
  <2> QED BY <1>0, <2>3, <2>4, <2>5, <2>6, <2>7, TurnServes
<1>10. ASSUME PeerClosed(k) \/ RelayReturnsZero(k) \/ SendReturnsZero(k)
              \/ CloseAfterResponse(k)
       PROVE  Leaves(k)
  BY <1>10, <1>d DEF PeerClosed, RelayReturnsZero, SendReturnsZero, CloseAfterResponse, Drop
<1> QED BY <1>1, <1>2, <1>3, <1>4, <1>5, <1>6, <1>7, <1>8, <1>9, <1>10 DEF Serving, Steps

\* A step that leaves the clients and the kernel and goes on with the loop.
LEMMA QuietIdles ==
  ASSUME IInv, DInv, Alive, Signalled, UNCHANGED kernel, InLoop, pc \notin {"reap", "reply"},
         \A k \in ClientIds :
           \/ pollfd'[L + k].revents \in {pollfd[L + k].revents, {}}
           \/ pollfd'[L + k].revents \subseteq pollfd[L + k].events \cup {"POLLHUP"}
  PROVE  Idles
BY DEF Idles, Signalled, kernel, KernelLike, Alike

\* A step that leaves the vectors.
LEMMA SameSignalled ==
  ASSUME IInv, DInv, Alive, pollfd' = pollfd, clients' = clients
  PROVE  /\ Signalled
         /\ \A k \in ClientIds : pollfd'[L + k].revents \in {pollfd[L + k].revents, {}}
BY SignalledBy DEF DInv

\* The steps at poll().
LEMMA PollingSteps ==
  ASSUME IInv, DInv, Polling
  PROVE  Steps
<1>1. ASSUME PollReturns PROVE Idles
  <2>1. Alive /\ InLoop /\ UNCHANGED kernel /\ clients' = clients /\ pc = "poll"
    BY <1>1 DEF PollReturns, Alive, GoTo, InLoop
  <2>2. PICK ready : pollfd' = PollResult(ready)
    BY <1>1 DEF PollReturns
  <2>3. Distinct(pollfd)
    BY <2>1 DEF DInv
  <2>4. /\ Signalled
        /\ \A k \in ClientIds : pollfd'[L + k].revents \subseteq Events(k) \cup {"POLLHUP"}
    BY <2>1, <2>2, <2>3, Polled
  <2> QED BY <2>1, <2>4, QuietIdles DEF Events, Slot
<1>2. ASSUME NEW k \in ClientIds, NEW part \in {"timeout", "err"},
             pc = part, handleDisconnect(k), GoTo(part, k)
      PROVE  Leaves(k)
  <2>1. Alive /\ InLoop /\ pc # "reap"
    BY <1>2 DEF Alive, GoTo, InLoop
  <2> QED BY <1>2, <2>1, Disconnecting DEF Leaves, DInv
<1>3. ASSUME NEW part \in {"err", "accept"}, pc \in {"timeout", "err"}, GoTo(part, 1),
             UNCHANGED <<pollfd, clients, gRun, kernel>>
      PROVE  Idles
  <2>1. Alive /\ InLoop /\ pc \notin {"reap", "reply"}
    BY <1>3 DEF Alive, GoTo, InLoop
  <2> QED BY <1>3, <2>1, SameSignalled, QuietIdles
<1>4. ASSUME CloseTimedOut PROVE \E k \in ClientIds : Leaves(k)
  BY <1>2, <1>4 DEF CloseTimedOut, Expired
<1>5. ASSUME CloseHungUp PROVE \E k \in ClientIds : Leaves(k)
  BY <1>2, <1>5 DEF CloseHungUp, HungUpClients
<1>6. ASSUME TimeoutsDone \/ ErrDone PROVE Idles
  BY <1>3, <1>6 DEF TimeoutsDone, ErrDone
<1> QED BY <1>1, <1>4, <1>5, <1>6 DEF Polling, Steps

\* The steps of the accept loop.
LEMMA AcceptingSteps ==
  ASSUME IInv, DInv, Accepting
  PROVE  Steps
<1>1. ASSUME AcceptClient PROVE Steps
  <2>1. PICK s \in Pending, f \in Handout(FreeFds), conn \in GarbageConn :
          /\ clients' = Append(clients, NewClient(f, conn))
          /\ pollfd' = InsertAt(pollfd, NewSlot,
                          [fd |-> f, events |-> {"POLLIN"}, revents |-> {}])
          /\ desc' = [desc EXCEPT ![f] = "peer"]
          /\ GoTo("accept", s + 1)
    BY <1>1 DEF AcceptClient
  <2>2. f \in FreeFds
    <3>1. FreeFds \in SUBSET Fd
      BY DEF FreeFds
    <3> QED BY <2>1, <3>1, HandoutAssumption
  <2>3. pc = "accept" /\ Alive /\ InLoop /\ UNCHANGED <<writer, proc, lost>>
    BY <1>1, <2>1 DEF AcceptClient, Alive, GoTo, InLoop
  <2>4. Comes(f, conn)
    BY <2>1, <2>2, <2>3, Accepted DEF Comes
  <2> QED BY <2>1, <2>2, <2>4 DEF Steps
<1>2. ASSUME AcceptDone PROVE Idles
  <2>1. /\ Alive /\ InLoop /\ pc \notin {"reap", "reply"}
        /\ UNCHANGED <<pollfd, clients, kernel>>
    BY <1>2 DEF AcceptDone, Alive, GoTo, InLoop
  <2> QED BY <2>1, SameSignalled, QuietIdles
<1> QED BY <1>1, <1>2 DEF Accepting, Steps

\* The steps of the pipes and of their scripts.
LEMMA ScriptsSteps ==
  ASSUME IInv, DInv, RInv, Scripts
  PROVE  Steps
<1>0. Alive
  BY DEF Scripts, ReadPipe, ScriptClosedOutput, ScriptReaped, PipesDone, Alive
<1>c. ASSUME NEW k \in ClientIds
      PROVE  /\ clients[k] \in Client /\ Events(k) \in SUBSET {"POLLIN", "POLLOUT"}
             /\ Events(k) = pollfd[L + k].events /\ Revents(Slot(k)) = pollfd[L + k].revents
             /\ Settled(clients[k], Events(k), Revents(Slot(k)))
  BY <1>0, Parts_ DEF Events, Revents, Slot, PollEntry, RInv
<1>1. ASSUME ReadPipe PROVE Steps
  <2>1. PICK s \in ReadyPipes :
          /\ \/ clients' = clients
             \/ \E k \in Readers(s) : Update(k, [clients[k] EXCEPT !.cgi = "CCS_RUNNING"])
          /\ GoTo("cgi", s + 1)
    BY <1>1 DEF ReadPipe
  <2>2. pc = "cgi" /\ InLoop /\ UNCHANGED <<pollfd, kernel>>
    BY <1>1, <2>1 DEF ReadPipe, GoTo, InLoop
  <2>3. CASE clients' = clients
    <3>1. Idles
      BY <1>0, <2>2, <2>3, SameSignalled, QuietIdles
    <3> QED BY <3>1 DEF Steps
  <2>4. ASSUME NEW k \in Readers(s), Update(k, [clients[k] EXCEPT !.cgi = "CCS_RUNNING"])
        PROVE  Steps
    <3> DEFINE c == [clients[k] EXCEPT !.cgi = "CCS_RUNNING"]
    <3>1. k \in ClientIds /\ clients[k].pipe = pollfd[s].fd
      BY DEF Readers
    <3>2. clients[k].pipe # NoFd
      <4>1. pollfd[s].fd \in PipeFds
        BY DEF ReadyPipes, PipeFds
      <4> QED BY <1>0, <3>1, <4>1, FdsApart, FdAssumption DEF DInv
    <3>3. /\ c \in Client /\ c.fd = clients[k].fd /\ c.pipe = clients[k].pipe
          /\ c.pid = clients[k].pid /\ c.exec = clients[k].exec /\ c.cgi = "CCS_RUNNING"
          /\ c.status = clients[k].status
      BY <1>c, <3>1 DEF Client, CgiStates
    <3>u. Update(k, c)
      BY <2>4
    <3> HIDE DEF c
    <3>4. /\ Settled(c, Events(k), Revents(Slot(k))) /\ (Runs(c) <=> Runs(clients[k]))
          /\ Kind(c, Events(k)) = Kind(clients[k], Events(k))
      BY <1>c, <3>1, <3>2, <3>3 DEF Settled, Runs, Kind
    <3>5. Serves(k)
      BY <1>0, <1>c, <2>2, <3>1, <3>3, <3>4, <3>u, TurnServes DEF Moved
    <3> QED BY <3>1, <3>5 DEF Steps
  <2> QED BY <2>1, <2>3, <2>4
<1>2. ASSUME ScriptClosedOutput PROVE Steps
  <2>1. PICK s \in ReadyPipes, result \in {"CCS_DONE", "CCS_FAILLED"} :
          /\ \E k \in Readers(s) :
               /\ pollfd' = RemoveAt(Wake(clients[k].fd), s)
               /\ Update(k, [clients[k] EXCEPT !.cgi = result, !.pipe = NoFd])
               /\ Close({pollfd[s].fd})
               /\ cur' = k
          /\ pc' = "reap"
    BY <1>2 DEF ScriptClosedOutput
  <2>2. PICK k \in Readers(s) :
          /\ pollfd' = RemoveAt(Wake(clients[k].fd), s)
          /\ Update(k, [clients[k] EXCEPT !.cgi = result, !.pipe = NoFd])
          /\ Close({pollfd[s].fd})
          /\ cur' = k
    BY <2>1
  <2> DEFINE c == [clients[k] EXCEPT !.cgi = result, !.pipe = NoFd]
  <2>3. k \in ClientIds
    BY DEF Readers
  <2>4. c.fd = clients[k].fd /\ Update(k, c)
    BY <1>c, <2>2, <2>3 DEF Client
  <2> HIDE DEF c
  <2>5. /\ Turned(k, c, ToSend(Events(k)))
        /\ pollfd[s].fd \in PipeFds /\ clients[k].pipe = pollfd[s].fd
        /\ PipeFds' = PipeFds \ {clients[k].pipe}
    BY <1>0, <2>2, <2>4, ScriptEnding DEF DInv
  <2>6. pc = "cgi" /\ UNCHANGED <<proc, lost>>
    BY <1>2 DEF ScriptClosedOutput
  <2>7. EndsOutput(k, result)
    BY <1>c, <2>1, <2>2, <2>3, <2>5, <2>6 DEF EndsOutput, c
  <2> QED BY <2>1, <2>3, <2>7 DEF Steps
<1>3. ASSUME ScriptReaped PROVE Steps
  <2>1. PICK k \in ClientIds : k = cur
    BY <1>3 DEF IInv, IndexOK, ScriptReaped
  <2>2. PICK n \in 1 .. MaxOut, left \in {NoPid, clients[k].pid} :
          Update(k, [clients[k] EXCEPT !.out = n, !.pid = left])
    BY <1>3, <2>1 DEF ScriptReaped
  <2> DEFINE c == [clients[k] EXCEPT !.out = n, !.pid = left]
  <2>3. c.fd = clients[k].fd /\ Update(k, c)
    BY <1>c, <2>2 DEF Client
  <2>4. pollfd' = pollfd /\ UNCHANGED <<desc, writer, lost>> /\ proc' = Reaped(clients[k].pid)
        /\ pc = "reap" /\ InLoop
    BY <1>3, <2>1 DEF ScriptReaped, GoTo, InLoop
  <2> HIDE DEF c
  <2>5. Turned(k, c, Events(k)) /\ PipeFds' = PipeFds
    BY <1>0, <2>3, <2>4, WatchedTurn DEF DInv
  <2>6. n \in Nat
    BY BoundAssumption
  <2>7. Reaps(k)
    BY <1>c, <2>1, <2>2, <2>4, <2>5, <2>6 DEF Reaps, c
  <2> QED BY <2>7 DEF Steps
<1>4. ASSUME PipesDone PROVE Idles
  <2>1. InLoop /\ pc \notin {"reap", "reply"} /\ UNCHANGED <<pollfd, clients, kernel>>
    BY <1>4 DEF PipesDone, GoTo, InLoop
  <2> QED BY <1>0, <2>1, SameSignalled, QuietIdles
<1> QED BY <1>1, <1>2, <1>3, <1>4 DEF Scripts, Steps

\* The error page of a script that did not start, and the end of the loop's body.
LEMMA RestSteps ==
  ASSUME IInv, DInv, RInv, ErrorPageSent \/ ErrorPageFails \/ ClientsDone \/ Shutdown
  PROVE  Steps
<1>1. ASSUME ErrorPageSent \/ ErrorPageFails PROVE Steps
  <2>0. Alive /\ pc = "reply"
    BY <1>1 DEF ErrorPageSent, ErrorPageFails, Alive
  <2>1. PICK k \in ClientIds : k = i
    BY <2>0 DEF IInv, IndexOK
  <2>2. /\ clients[k] \in Client /\ Settled(clients[k], Events(k), Revents(Slot(k)))
        /\ clients[k].status = "CS_CGI_REQ" /\ ~clients[k].exec
    BY <2>0, <2>1, Parts_ DEF RInv
  <2>3. CASE ErrorPageSent
    <3> DEFINE c == [clients[k] EXCEPT !.limit = HeaderTimeout, !.status = "CS_NEW"]
    <3>1. /\ c \in Client /\ c.fd = clients[k].fd /\ c.pipe = clients[k].pipe
          /\ c.pid = clients[k].pid /\ c.exec = FALSE /\ c.status = "CS_NEW"
      BY <2>2 DEF Client, Statuses
    <3>2. /\ Update(k, c) /\ Watch(k, ToReceive(Events(k))) /\ UNCHANGED kernel /\ InLoop
      BY <2>1, <2>3 DEF ErrorPageSent, NextClient, GoTo, InLoop
    <3> HIDE DEF c
    <3>3. Events(k) = {"POLLOUT"} /\ ToReceive(Events(k)) = {"POLLIN"}
      BY <2>2 DEF Settled, ToReceive
    <3>4. /\ Settled(c, {"POLLIN"}, Revents(Slot(k))) /\ (Runs(c) <=> Runs(clients[k]))
          /\ Moved(Kind(clients[k], Events(k)), Kind(c, {"POLLIN"}))
      BY <2>2, <3>1, <3>3 DEF Settled, Runs, Kind, Moved
    <3>5. Serves(k)
      BY <2>0, <3>1, <3>2, <3>3, <3>4, TurnServes
    <3> QED BY <3>5 DEF Steps
  <2>4. CASE ErrorPageFails
    <3>1. handleDisconnect(k) /\ InLoop
      BY <2>1, <2>4 DEF ErrorPageFails, Drop, GoTo, InLoop
    <3>2. Leaves(k)
      BY <2>0, <3>1, Disconnecting DEF Leaves, DInv
    <3> QED BY <3>2 DEF Steps
  <2> QED BY <1>1, <2>3, <2>4
<1>2. ASSUME ClientsDone PROVE Idles
  <2>1. /\ Alive /\ InLoop /\ pc \notin {"reap", "reply"}
        /\ pollfd' = IF StaleRevents THEN pollfd ELSE Unsignalled
        /\ clients' = clients /\ UNCHANGED kernel
    BY <1>2 DEF ClientsDone, Alive, GoTo, InLoop
  <2>2. Distinct(pollfd)
    BY <2>1 DEF DInv
  <2> QED BY <2>1, <2>2, Cleared, QuietIdles
<1> QED BY <1>1, <1>2 DEF Steps

\* What clients, scripts and time do.
LEMMA EnvironmentSteps ==
  ASSUME IInv, DInv, Environment
  PROVE  Idles
<1>0. KernelOK /\ clients \in Seq(Client)
  BY InvariantParts
<1>1. ASSUME Alive, pollfd' = pollfd, clients' = clients, UNCHANGED loop, KernelLike PROVE Idles
  BY <1>1, SameSignalled DEF Idles, Signalled, Alike
<1>2. ASSUME NEW f \in Fd, PeerLeaves(f) PROVE Idles
  <2>1. /\ Alive /\ desc[f] = "peer" /\ desc' = [desc EXCEPT ![f] = "gone"]
        /\ UNCHANGED <<pollfd, clients, loop, writer, proc, lost>>
    BY <1>2 DEF PeerLeaves, Alive
  <2>2. KernelLike
    BY <1>0, <2>1 DEF KernelLike, KernelOK
  <2> QED BY <1>1, <2>1, <2>2
<1>3. ASSUME NEW p \in Pid, ChildClosesOutput(p) \/ ChildExits(p) PROVE Idles
  <2>1. PICK from \in {{"running"}, {"running", "closed"}}, to \in {"closed", "exited"} :
          ChildMoves(p, from, to)
    BY <1>3 DEF ChildClosesOutput, ChildExits
  <2>2. /\ Alive /\ proc[p] # "none" /\ proc' = [proc EXCEPT ![p] = to]
        /\ UNCHANGED <<pollfd, clients, loop, desc, writer, lost>>
    BY <2>1 DEF ChildMoves, Alive
  <2>3. KernelLike
    BY <1>0, <2>2 DEF KernelLike, KernelOK
  <2> QED BY <1>1, <2>2, <2>3
<1>4. ASSUME Tick PROVE Idles
  <2>1. Alive /\ UNCHANGED <<pollfd, loop, kernel>>
    BY <1>4 DEF Tick, Alive
  <2>2. clients' = [k \in ClientIds |->
          [clients[k] EXCEPT !.age = IF @ < clients[k].limit THEN @ + 1 ELSE @]]
    BY <1>4 DEF Tick
  <2>3. \A k \in ClientIds : clients'[k].fd = clients[k].fd /\ Alike(clients'[k], clients[k])
    <3>1. \A k \in ClientIds : clients[k] \in Client
      BY <2>1, Parts_
    <3> QED BY <2>2, <3>1 DEF Alike, Client
  <2>4. Len(clients') = Len(clients)
    <3>1. DOMAIN clients' = 1 .. Len(clients) /\ Len(clients) \in Nat
      BY <1>0, <2>2, LenProperties DEF ClientIds
    <3>2. clients' \in Seq(Client)
      BY <1>4, EnvironmentKeeps, NextKeeps DEF IInv, TypeOK, Environment
    <3> QED BY <3>1, <3>2, LenProperties
  <2>5. ClientFds' = ClientFds
    BY <2>3, <2>4 DEF ClientFds, ClientIds
  <2>6. PipeFds' = PipeFds
    BY <2>1, <2>4 DEF PipeFds, TailSlots, L
  <2>7. KernelLike /\ Distinct(pollfd')
    BY <2>1 DEF KernelLike, kernel, DInv
  <2> QED BY <2>1, <2>3, <2>4, <2>5, <2>6, <2>7 DEF Idles
<1>5. ASSUME Sigint PROVE Idles
  <2>1. Alive /\ UNCHANGED <<pollfd, clients, loop, kernel>>
    BY <1>5 DEF Sigint, Alive
  <2> QED BY <1>1, <2>1 DEF kernel, KernelLike
<1>6. ASSUME PollInterrupted PROVE Idles
  <2>1. /\ Alive /\ InLoop /\ pc \notin {"reap", "reply"}
        /\ pollfd' = IF StaleRevents THEN pollfd ELSE Unsignalled
        /\ clients' = clients /\ UNCHANGED kernel
    BY <1>6 DEF PollInterrupted, Alive, GoTo, InLoop
  <2>2. Distinct(pollfd)
    BY <2>1 DEF DInv
  <2> QED BY <2>1, <2>2, Cleared, QuietIdles
<1> QED BY <1>2, <1>3, <1>4, <1>5, <1>6 DEF Environment

\* Every step of the loop and of its environment is of one of these kinds.
LEMMA StepKinds ==
  ASSUME IInv, DInv, RInv, [Next]_vars
  PROVE  Steps
<1>1. CASE Polling
  BY <1>1, PollingSteps
<1>2. CASE Accepting
  BY <1>2, AcceptingSteps DEF Accepting, Steps
<1>3. CASE Scripts
  BY <1>3, ScriptsSteps
<1>4. CASE \E k \in ClientIds : Serving(k)
  BY <1>4, ServingSteps
<1>5. CASE ErrorPageSent \/ ErrorPageFails \/ ClientsDone \/ Shutdown
  BY <1>5, RestSteps
<1>6. CASE Environment
  BY <1>6, EnvironmentSteps DEF Steps
<1>7. CASE UNCHANGED vars
  BY <1>7 DEF Steps
<1> QED BY <1>1, <1>2, <1>3, <1>4, <1>5, <1>6, <1>7 DEF Next, Server, Terminated

-----------------------------------------------------------------------------
(***************************************************************************)
(* The safety properties, from three inductive invariants on top of IInv:  *)
(*   DInv   which descriptors are open, polled and forgotten               *)
(*   RInv   what a client's state says of what its entry waits for         *)
(*   SInv   which client owns which pipe and which child                   *)
(* DInv and RInv hold whatever the uninitialised members contain.  SInv    *)
(* needs HarmlessGarbage: without it handleDisconnect may find another     *)
(* client's pipe under a garbage _readPipe, and the run EventLoopGarbage   *)
(* shows that it does.                                                     *)
(***************************************************************************)
\* Nobody is served before the first poll().
LEMMA Nobody ==
  ASSUME Init
  PROVE  /\ ClientIds = {} /\ ClientFds = {} /\ TailSlots = {} /\ PipeFds = {}
         /\ L \in Nat /\ Len(pollfd) = L /\ Alive
<1>1. clients = << >> /\ Len(clients) = 0 /\ L \in Nat
  BY EmptySeq, ListenersCounted DEF Init
<1>2. pollfd \in Seq(PollEntry) /\ DOMAIN pollfd = 1 .. L
  BY InitOK DEF Init, IInv, TypeOK
<1>3. Len(pollfd) = L
  BY <1>1, <1>2, LenProperties
<1> QED BY <1>1, <1>3 DEF Init, ClientIds, ClientFds, TailSlots, PipeFds, Alive

\* No client is left in a process that ended.
LEMMA NobodyLeft ==
  ASSUME NEW part \in {"stopped", "crashed"}, NEW procs, Ends(part, procs)
  PROVE  ClientIds' = {} /\ ~Alive' /\ pc' = part
<1>1. clients' = << >> /\ Len(clients') = 0
  BY EmptySeq DEF Ends
<1> QED BY <1>1 DEF Ends, GoTo, ClientIds, Alive

-----------------------------------------------------------------------------
(* DInv.                                                                   *)
LEMMA DInvInit == Init => DInv
<1> SUFFICES ASSUME Init PROVE DInv
  OBVIOUS
<1>1. ClientFds = {} /\ PipeFds = {} /\ L \in Nat /\ Len(pollfd) = L
  BY Nobody
<1>2. \A s \in 1 .. L : pollfd[s].fd = ListenFds[s]
  BY <1>1 DEF Init
<1>3. Distinct(pollfd)
  BY <1>1, <1>2, FdAssumption DEF Distinct, L
<1> QED BY <1>1, <1>3 DEF DInv, Init

\* No step leaks a descriptor or closes one twice.
LEMMA DInvKept == IInv /\ DInv /\ RInv /\ [Next]_vars => DInv'
<1> SUFFICES ASSUME IInv, DInv, RInv, [Next]_vars PROVE DInv'
  OBVIOUS
<1>s. Steps
  BY StepKinds
<1>d. ASSUME Alive
      PROVE  /\ {f \in Fd : desc[f] # "free"} = (lost \cap Fd) \cup ClientFds \cup PipeFds
             /\ lost \cap (ClientFds \cup PipeFds) = {}
             /\ ClientFds \subseteq Fd /\ PipeFds \subseteq Fd /\ ClientFds \cap PipeFds = {}
             /\ desc \in [Fd -> {"free", "peer", "gone", "pipe"}] /\ lost \subseteq Fd \cup Pid
  BY <1>d, FdsApart, Parts_ DEF DInv, KernelOK
<1>1. CASE Idles
  <2>1. /\ Alive /\ Distinct(pollfd') /\ ClientFds' = ClientFds /\ PipeFds' = PipeFds /\ lost' = lost
        /\ \A f \in Fd : desc'[f] = "free" <=> desc[f] = "free"
    BY <1>1 DEF Idles, KernelLike
  <2> QED BY <1>d, <2>1 DEF DInv
<1>2. ASSUME NEW k \in ClientIds, Serves(k) PROVE DInv'
  <2>1. /\ Alive /\ Distinct(pollfd') /\ ClientFds' = ClientFds /\ PipeFds' = PipeFds /\ lost' = lost
        /\ \A f \in Fd : desc'[f] = "free" <=> desc[f] = "free"
    BY <1>2 DEF Serves, Turned, KernelLike
  <2> QED BY <1>d, <2>1 DEF DInv
<1>3. ASSUME NEW k \in ClientIds, Leaves(k) PROVE DInv'
  <2>1. /\ Alive /\ Distinct(pollfd') /\ lost' = lost
        /\ ClientFds' = ClientFds \ {clients[k].fd} /\ PipeFds' = PipeFds \ {clients[k].pipe}
    BY <1>3 DEF Leaves, Gone
  <2>2. clients[k].fd \in ClientFds
    BY DEF ClientFds
  <2>3. CASE clients[k].pipe \notin PipeFds /\ Close({clients[k].fd})
    BY <1>d, <2>1, <2>2, <2>3 DEF DInv, Close
  <2>4. CASE clients[k].pipe \in PipeFds /\ Close({clients[k].fd, clients[k].pipe})
    BY <1>d, <2>1, <2>2, <2>4 DEF DInv, Close
  <2> QED BY <1>3, <2>3, <2>4 DEF Leaves
<1>4. ASSUME NEW k \in ClientIds, Reaps(k) PROVE DInv'
  <2>1. /\ Alive /\ Distinct(pollfd') /\ ClientFds' = ClientFds /\ PipeFds' = PipeFds
        /\ UNCHANGED <<desc, lost>>
    BY <1>4 DEF Reaps, Turned, Alive
  <2> QED BY <1>d, <2>1 DEF DInv
<1>5. ASSUME NEW f \in FreeFds, NEW conn, Comes(f, conn) PROVE DInv'
  <2>1. /\ Alive /\ Distinct(pollfd') /\ ClientFds' = ClientFds \cup {f} /\ PipeFds' = PipeFds
        /\ desc' = [desc EXCEPT ![f] = "peer"] /\ lost' = lost
    BY <1>5 DEF Comes, Alive
  <2>2. f \in Fd /\ f \notin lost
    BY <2>1, FreeApart
  <2> QED BY <1>d, <2>1, <2>2 DEF DInv
<1>6. ASSUME NEW k \in ClientIds, NEW f \in FreeFds, NEW p, Starts(k, f, p) PROVE DInv'
  <2>1. /\ Alive /\ Distinct(pollfd') /\ ClientFds' = ClientFds /\ PipeFds' = PipeFds \cup {f}
        /\ desc' = [desc EXCEPT ![f] = "pipe"] /\ lost' = lost
    BY <1>6 DEF Starts, Turned
  <2>2. f \in Fd /\ f \notin lost
    BY <2>1, FreeApart
  <2> QED BY <1>d, <2>1, <2>2 DEF DInv
<1>7. ASSUME NEW k \in ClientIds, NEW fds \in SUBSET FreeFds, NEW pids \in SUBSET FreePids,
             Forgets(k, fds, pids)
      PROVE  DInv'
  <2>1. /\ Alive /\ Distinct(pollfd') /\ ClientFds' = ClientFds /\ PipeFds' = PipeFds
        /\ desc' = [f \in Fd |-> IF f \in fds THEN "pipe" ELSE desc[f]]
        /\ lost' = lost \cup fds \cup pids
    BY <1>7 DEF Forgets, Turned
  <2>2. /\ fds \subseteq Fd /\ fds \cap (ClientFds \cup PipeFds) = {}
        /\ pids \subseteq Pid /\ pids \cap Fd = {}
    <3>1. \A f \in fds : f \in Fd /\ f \notin ClientFds /\ f \notin PipeFds
      BY <2>1, FreeApart
    <3> QED BY <3>1, PidAssumption DEF FreePids
  <2>3. {f \in Fd : desc'[f] # "free"} = {f \in Fd : desc[f] # "free"} \cup fds
    BY <1>d, <2>1, <2>2
  <2>4. lost' \cap (ClientFds \cup PipeFds) = {}
    BY <1>d, <2>1, <2>2
  <2>5. (lost' \cap Fd) = (lost \cap Fd) \cup fds
    BY <2>1, <2>2
  <2> QED BY <1>d, <2>1, <2>3, <2>4, <2>5 DEF DInv
<1>8. ASSUME NEW k \in ClientIds, NEW result, EndsOutput(k, result) PROVE DInv'
  <2>1. /\ Alive /\ Distinct(pollfd') /\ ClientFds' = ClientFds /\ lost' = lost
        /\ clients[k].pipe \in PipeFds /\ PipeFds' = PipeFds \ {clients[k].pipe}
        /\ Close({clients[k].pipe})
    BY <1>8 DEF EndsOutput, Turned, Alive
  <2> QED BY <1>d, <2>1 DEF DInv, Close
<1>9. CASE Shutdown \/ AcceptFails
  <2>1. ~Alive'
    BY <1>9, NobodyLeft DEF Shutdown, AcceptFails
  <2> QED BY <2>1 DEF DInv
<1>10. CASE UNCHANGED vars
  <2>1. UNCHANGED <<pollfd, clients, pc, desc, lost>>
    BY <1>10 DEF vars
  <2> QED BY <2>1 DEF DInv, Alive, Distinct, ClientFds, ClientIds, PipeFds, TailSlots
<1> QED BY <1>s, <1>1, <1>2, <1>3, <1>4, <1>5, <1>6, <1>7, <1>8, <1>9, <1>10 DEF Steps

-----------------------------------------------------------------------------
(* RInv.                                                                   *)
\* RInv, without the names of the code's accessors.
LEMMA RInvIs ==
  RInv <=> /\ \A k \in ClientIds :
                Settled(clients[k], pollfd[L + k].events, pollfd[L + k].revents)
           /\ pc # "respond"
           /\ pc = "reply" => clients[i].status = "CS_CGI_REQ" /\ ~clients[i].exec
BY DEF RInv, Events, Revents, Slot

\* What RInv says of the next state, as the lemmas on steps put it.
LEMMA RInvNextIs ==
  RInv' <=> /\ \A k \in ClientIds' :
                 Settled(clients'[k], pollfd'[L + k].events, pollfd'[L + k].revents)
            /\ pc' # "respond"
            /\ pc' = "reply" => clients'[i'].status = "CS_CGI_REQ" /\ ~clients'[i'].exec
BY DEF RInv, Events, Revents, Slot, L

\* What a client is settled with depends on nothing else of it.
LEMMA SettledAlike ==
  ASSUME NEW c, NEW d, NEW ev, NEW rev, NEW rev2, Settled(d, ev, rev),
         c.status = d.status, c.exec = d.exec, c.cgi = d.cgi, c.pipe = d.pipe,
         rev2 \in {rev, {}} \/ (rev2 \subseteq ev \cup {"POLLHUP"})
  PROVE  Settled(c, ev, rev2)
BY DEF Settled

\* A turn in place settles the clients when it settles the one whose turn it is.
LEMMA TurnSettles ==
  ASSUME IInv, RInv, Alive, NEW k \in ClientIds, NEW c, NEW ev, Turned(k, c, ev),
         Settled(c, ev, pollfd[L + k].revents),
         pc' # "respond", pc' = "reply" => i' = k /\ c.status = "CS_CGI_REQ" /\ ~c.exec
  PROVE  RInv'
<1>1. ClientIds' = ClientIds
  BY DEF Turned, ClientIds
<1>2. ASSUME NEW j \in ClientIds
      PROVE  Settled(clients'[j], pollfd'[L + j].events, pollfd'[L + j].revents)
  <2>1. CASE j = k
    BY <2>1 DEF Turned
  <2>2. CASE j # k
    BY <2>2, RInvIs DEF Turned
  <2> QED BY <2>1, <2>2
<1>3. clients'[k] = c
  BY DEF Turned
<1> QED BY <1>1, <1>2, <1>3, RInvNextIs

\* Nobody is connected at the start.
LEMMA RInvInit == Init => RInv
<1> SUFFICES ASSUME Init PROVE RInv
  OBVIOUS
<1> QED BY Nobody DEF RInv, Init

\* No step leaves a client polled for the wrong direction.
LEMMA RInvKept == IInv /\ DInv /\ RInv /\ [Next]_vars => RInv'
<1> SUFFICES ASSUME IInv, DInv, RInv, [Next]_vars PROVE RInv'
  OBVIOUS
<1>s. Steps
  BY StepKinds
<1>p. InLoop => pc' \notin {"respond", "reply"}
  BY DEF InLoop
<1>c. ASSUME Alive, NEW k \in ClientIds
      PROVE  /\ clients[k] \in Client /\ pollfd[L + k] \in PollEntry
             /\ Settled(clients[k], pollfd[L + k].events, pollfd[L + k].revents)
  BY <1>c, Parts_, RInvIs
<1>1. CASE Idles
  <2>1. ClientIds' = ClientIds
    BY <1>1 DEF Idles, ClientIds
  <2>2. ASSUME NEW k \in ClientIds
        PROVE  Settled(clients'[k], pollfd'[L + k].events, pollfd'[L + k].revents)
    <3>1. /\ Alike(clients'[k], clients[k]) /\ pollfd'[L + k].events = pollfd[L + k].events
          /\ \/ pollfd'[L + k].revents \in {pollfd[L + k].revents, {}}
             \/ pollfd'[L + k].revents \subseteq pollfd[L + k].events \cup {"POLLHUP"}
      BY <1>1 DEF Idles
    <3>2. Settled(clients[k], pollfd[L + k].events, pollfd[L + k].revents)
      BY RInvIs
    <3> QED BY <3>1, <3>2, SettledAlike DEF Alike
  <2>3. pc' # "respond"
    BY <1>1, <1>p DEF Idles, loop, RInv
  <2>4. ASSUME pc' = "reply" PROVE clients'[i'].status = "CS_CGI_REQ" /\ ~clients'[i'].exec
    <3>1. pc = "reply" /\ i' = i
      BY <1>1, <1>p, <2>4 DEF Idles, loop
    <3>2. PICK k \in ClientIds : k = i
      BY <3>1 DEF IInv, IndexOK
    <3>3. Alike(clients'[k], clients[k])
      BY <1>1 DEF Idles
    <3> QED BY <3>1, <3>2, <3>3 DEF RInv, Alike
  <2> QED BY <2>1, <2>2, <2>3, <2>4, RInvNextIs
<1>2. ASSUME NEW k \in ClientIds, Serves(k) PROVE RInv'
  <2>1. Alive /\ pc' \notin {"respond", "reply"}
    BY <1>2, <1>p DEF Serves
  <2>2. PICK c, ev : Turned(k, c, ev) /\ Settled(c, ev, pollfd[L + k].revents)
    BY <1>2 DEF Serves
  <2> QED BY <2>1, <2>2, TurnSettles
<1>3. ASSUME NEW k \in ClientIds, Leaves(k) PROVE RInv'
  <2>1. Alive /\ pc' \notin {"respond", "reply"} /\ Gone(k)
    BY <1>3, <1>p DEF Leaves
  <2>2. Len(clients) \in Nat /\ k \in 1 .. Len(clients) /\ ClientIds = 1 .. Len(clients)
    BY <2>1, Parts_
  <2>3. ClientIds' = 1 .. Len(clients) - 1
    BY <2>1 DEF Gone, ClientIds
  <2>4. ASSUME NEW j \in 1 .. Len(clients) - 1
        PROVE  Settled(clients'[j], pollfd'[L + j].events, pollfd'[L + j].revents)
    <3>1. PICK m : m = Skip(k, j)
      OBVIOUS
    <3>2. m \in ClientIds
      BY <2>2, <3>1, SkipProps
    <3>3. clients'[j] = clients[m] /\ pollfd'[L + j] = pollfd[L + m]
      BY <2>1, <3>1 DEF Gone
    <3> QED BY <3>2, <3>3, RInvIs
  <2> QED BY <2>1, <2>3, <2>4, RInvNextIs
<1>4. ASSUME NEW k \in ClientIds, Reaps(k) PROVE RInv'
  <2>1. Alive /\ pc' \notin {"respond", "reply"}
    BY <1>4, <1>p DEF Reaps, Alive
  <2>2. PICK n, left :
          Turned(k, [clients[k] EXCEPT !.out = n, !.pid = left], pollfd[L + k].events)
    BY <1>4 DEF Reaps
  <2> DEFINE c == [clients[k] EXCEPT !.out = n, !.pid = left]
  <2>3. /\ c.status = clients[k].status /\ c.exec = clients[k].exec
        /\ c.cgi = clients[k].cgi /\ c.pipe = clients[k].pipe
    BY <1>c, <2>1 DEF Client
  <2>t. Turned(k, c, pollfd[L + k].events)
    BY <2>2
  <2> HIDE DEF c
  <2>4. Settled(c, pollfd[L + k].events, pollfd[L + k].revents)
    BY <1>c, <2>1, <2>3, SettledAlike
  <2> QED BY <2>1, <2>t, <2>4, TurnSettles
<1>5. ASSUME NEW f \in FreeFds, NEW conn, Comes(f, conn) PROVE RInv'
  <2>1. Alive /\ pc' \notin {"respond", "reply"} /\ Len(clients') = Len(clients) + 1
    BY <1>5, <1>p DEF Comes, Alive
  <2>2. ClientIds' = ClientIds \cup {Len(clients) + 1}
    BY <2>1, Parts_ DEF ClientIds
  <2>3. ASSUME NEW j \in ClientIds
        PROVE  Settled(clients'[j], pollfd'[L + j].events, pollfd'[L + j].revents)
    BY <1>5, RInvIs DEF Comes
  <2>4. Settled(NewClient(f, conn), {"POLLIN"}, {})
    BY DEF Settled, NewClient
  <2>5. LET j == Len(clients) + 1
        IN  Settled(clients'[j], pollfd'[L + j].events, pollfd'[L + j].revents)
    BY <1>5, <2>4 DEF Comes
  <2> QED BY <2>1, <2>2, <2>3, <2>5, RInvNextIs
<1>6. ASSUME NEW k \in ClientIds, NEW f \in FreeFds, NEW p, Starts(k, f, p) PROVE RInv'
  <2>1. /\ Alive /\ pc' \notin {"respond", "reply"}
        /\ clients[k].status = "CS_CGI_REQ" /\ "POLLIN" \notin pollfd[L + k].revents
        /\ Turned(k, Running(clients[k], f, p), {})
    BY <1>6, <1>p DEF Starts
  <2> DEFINE c == Running(clients[k], f, p)
  <2>2. c.exec = TRUE /\ c.cgi = "CCS_RUNNING" /\ c.status = "CS_CGI_REQ"
    BY <1>c, <2>1 DEF Client, Running
  <2>t. Turned(k, c, {})
    BY <2>1
  <2> HIDE DEF c
  <2>3. Settled(c, {}, pollfd[L + k].revents)
    BY <2>1, <2>2 DEF Settled
  <2> QED BY <2>1, <2>t, <2>3, TurnSettles
<1>7. ASSUME NEW k \in ClientIds, NEW fds, NEW pids, Forgets(k, fds, pids) PROVE RInv'
  <2>1. /\ Alive /\ pc' = "reply" /\ i' = k
        /\ clients[k].status = "CS_CGI_REQ" /\ ~clients[k].exec
    BY <1>7 DEF Forgets
  <2>2. PICK f, p : Turned(k, Failed(clients[k], f, p), pollfd[L + k].events)
    BY <1>7 DEF Forgets
  <2> DEFINE c == Failed(clients[k], f, p)
  <2>3. c.exec = FALSE /\ c.cgi = "CCS_FAILLED" /\ c.status = "CS_CGI_REQ"
    BY <1>c, <2>1 DEF Client, Failed
  <2>t. Turned(k, c, pollfd[L + k].events)
    BY <2>2
  <2> HIDE DEF c
  <2>4. Settled(c, pollfd[L + k].events, pollfd[L + k].revents)
    BY <1>c, <2>1, <2>3 DEF Settled
  <2> QED BY <2>1, <2>3, <2>t, <2>4, TurnSettles
<1>8. ASSUME NEW k \in ClientIds, NEW result \in {"CCS_DONE", "CCS_FAILLED"},
             EndsOutput(k, result)
      PROVE  RInv'
  <2>1. /\ Alive /\ pc' = "reap"
        /\ Turned(k, [clients[k] EXCEPT !.cgi = result, !.pipe = NoFd],
                  ToSend(pollfd[L + k].events))
    BY <1>8 DEF EndsOutput, Alive
  <2> DEFINE c == [clients[k] EXCEPT !.cgi = result, !.pipe = NoFd]
  <2>2. /\ c.exec = clients[k].exec /\ c.cgi = result /\ c.status = clients[k].status
        /\ c.pipe = NoFd
    BY <1>c, <2>1 DEF Client
  <2>t. Turned(k, c, ToSend(pollfd[L + k].events))
    BY <2>1
  <2> HIDE DEF c
  <2>3. ToSend(pollfd[L + k].events) = {"POLLOUT"}
    BY <1>c, <2>1 DEF Settled, ToSend
  <2>4. Settled(c, {"POLLOUT"}, pollfd[L + k].revents)
    BY <1>c, <2>1, <2>2 DEF Settled
  <2> QED BY <2>1, <2>t, <2>3, <2>4, TurnSettles
<1>9. CASE Shutdown \/ AcceptFails
  <2>1. ClientIds' = {} /\ pc' \in {"stopped", "crashed"}
    BY <1>9, NobodyLeft DEF Shutdown, AcceptFails
  <2> QED BY <2>1 DEF RInv
<1>10. CASE UNCHANGED vars
  <2>1. UNCHANGED <<pollfd, clients, pc, i>>
    BY <1>10 DEF vars
  <2> QED BY <2>1 DEF RInv, ClientIds, Events, Revents, Slot
<1> QED BY <1>s, <1>1, <1>2, <1>3, <1>4, <1>5, <1>6, <1>7, <1>8, <1>9, <1>10 DEF Steps

-----------------------------------------------------------------------------
(* SInv, over any table of clients: R are those whose script runs, B those *)
(* that own a child.                                                       *)
Owned(cl, ids, R, B, pipes, wr, pr, lo) ==
  /\ \A f \in pipes : \E k \in R : cl[k].pipe = f /\ cl[k].pid = wr[f]
  /\ \A k \in R : cl[k].pipe \in pipes
  /\ \A k \in ids : cl[k].pipe \in Fd => k \in R
  /\ \A k \in B : cl[k].pid \in Pid /\ pr[cl[k].pid] # "none" /\ cl[k].pid \notin lo
  /\ \A j, k \in R : cl[j].pipe = cl[k].pipe => j = k
  /\ \A j, k \in B : cl[j].pid = cl[k].pid => j = k
  /\ \A p \in Pid : pr[p] # "none" => p \in lo \/ \E k \in B : cl[k].pid = p
  /\ \A p \in lo \cap Pid : pr[p] # "none"
Running_s == {k \in ClientIds : Runs(clients[k])}
Owners == {k \in ClientIds : Runs(clients[k]) \/ (pc = "reap" /\ cur = k)}

\* SInv as a fact about sets of clients, pipes and children.
LEMMA SInvIs ==
  SInv <=> (Alive => /\ Owned(clients, ClientIds, Running_s, Owners, PipeFds, writer, proc, lost)
                     /\ pc = "reap" => ~Runs(clients[cur]))
BY DEF SInv, Owned, Running_s, Owners, Runs, RunsScript, Busy
\* And of the next state.
LEMMA SInvNextIs ==
  SInv' <=> (Alive' =>
    /\ Owned(clients', ClientIds', Running_s', Owners', PipeFds', writer', proc', lost')
    /\ pc' = "reap" => ~Runs(clients'[cur']))
BY DEF SInv, Owned, Running_s, Owners, Runs, RunsScript, Busy

\* No script runs at the start.
LEMMA SInvInit == Init => SInv
<1> SUFFICES ASSUME Init PROVE SInv
  OBVIOUS
<1>1. ClientIds = {} /\ PipeFds = {} /\ pc = "poll" /\ lost = {} /\ \A p \in Pid : proc[p] = "none"
  BY Nobody DEF Init
<1> QED BY <1>1 DEF SInv

\* Owners and what they own stay as they are.
LEMMA SameOwners ==
  ASSUME NEW cl, NEW ids, NEW R, NEW B, NEW pipes, NEW wr, NEW pr, NEW lo,
         Owned(cl, ids, R, B, pipes, wr, pr, lo), R \subseteq ids, B \subseteq ids,
         NEW cl2, NEW pr2, \A k \in ids : cl2[k].pipe = cl[k].pipe /\ cl2[k].pid = cl[k].pid,
         \A p \in Pid : pr2[p] = "none" <=> pr[p] = "none"
  PROVE  Owned(cl2, ids, R, B, pipes, wr, pr2, lo)
BY DEF Owned

\* The invariant before a step of a running server, and what is left to show.
LEMMA OwnersNow ==
  ASSUME SInv, Alive
  PROVE  /\ Owned(clients, ClientIds, Running_s, Owners, PipeFds, writer, proc, lost)
         /\ pc = "reap" => ~Runs(clients[cur])
         /\ Running_s \subseteq ClientIds /\ Owners \subseteq ClientIds /\ Running_s \subseteq Owners
         /\ pc # "reap" => Owners = Running_s
BY SInvIs DEF Running_s, Owners
\* Outside reap a child has an owner as long as its script runs.
LEMMA OwnersNext ==
  ASSUME InLoop, Owned(clients', ClientIds', Running_s', Running_s', PipeFds', writer', proc', lost')
  PROVE  SInv'
<1>1. pc' # "reap"
  BY DEF InLoop
<1>2. Owners' = Running_s'
  BY <1>1 DEF Owners, Running_s
<1> QED BY <1>1, <1>2, SInvNextIs

\* Who runs a script after a turn in place.
LEMMA RunningTurned ==
  ASSUME NEW k \in ClientIds, NEW c, NEW ev, Turned(k, c, ev)
  PROVE  /\ ClientIds' = ClientIds
         /\ Running_s' = (Running_s \ {k}) \cup (IF Runs(c) THEN {k} ELSE {})
         /\ clients'[k] = c /\ \A j \in ClientIds \ {k} : clients'[j] = clients[j]
<1>1. ClientIds' = ClientIds
  BY DEF Turned, ClientIds
<1>2. Running_s' = {j \in ClientIds : Runs(clients'[j])}
  BY <1>1 DEF Running_s
<1> QED BY <1>1, <1>2 DEF Turned, Running_s

\* A step that only waits, polls or passes an entry over.
LEMMA IdlesOwned ==
  ASSUME IInv, SInv, Idles
  PROVE  SInv'
<1>1. Alive /\ KernelLike /\ PipeFds' = PipeFds
  BY DEF Idles
<1>2. ClientIds' = ClientIds
  BY DEF Idles, ClientIds
<1>3. \A k \in ClientIds : Alike(clients'[k], clients[k])
  BY DEF Idles
<1>4. Running_s' = Running_s
  <2>1. Running_s' = {k \in ClientIds : Runs(clients'[k])}
    BY <1>2 DEF Running_s
  <2> QED BY <1>3, <2>1 DEF Running_s, Runs, Alike
<1>5. Owned(clients', ClientIds, Running_s, Owners, PipeFds, writer, proc', lost)
  <2>1. \A k \in ClientIds : clients'[k].pipe = clients[k].pipe /\ clients'[k].pid = clients[k].pid
    BY <1>3 DEF Alike
  <2>2. \A p \in Pid : proc'[p] = "none" <=> proc[p] = "none"
    BY <1>1 DEF KernelLike
  <2> QED BY <1>1, <2>1, <2>2, OwnersNow, SameOwners
<1>6. CASE UNCHANGED loop
  <2>1. Owners' = Owners
    <3>1. Owners' = {k \in ClientIds : Runs(clients'[k]) \/ (pc = "reap" /\ cur = k)}
      BY <1>2, <1>6 DEF Owners, loop
    <3> QED BY <1>3, <3>1 DEF Owners, Runs, Alike
  <2>2. ASSUME pc' = "reap" PROVE ~Runs(clients'[cur'])
    <3>1. pc = "reap" /\ cur' = cur /\ cur \in ClientIds
      BY <1>6, <2>2 DEF loop, IInv, IndexOK
    <3> QED BY <1>1, <1>3, <3>1, OwnersNow DEF Runs, Alike
  <2> QED BY <1>1, <1>2, <1>4, <1>5, <2>1, <2>2, SInvNextIs DEF KernelLike
<1>7. CASE InLoop /\ pc \notin {"reap", "reply"}
  <2>1. Owners = Running_s
    BY <1>1, <1>7, OwnersNow
  <2> QED BY <1>1, <1>2, <1>4, <1>5, <1>7, <2>1, OwnersNext DEF KernelLike
<1> QED BY <1>6, <1>7 DEF Idles

\* A client that is served keeps its script, if it has one.
LEMMA ServesOwned ==
  ASSUME SInv, NEW k \in ClientIds, Serves(k)
  PROVE  SInv'
<1>1. Alive /\ KernelLike /\ InLoop /\ pc # "reap" /\ PipeFds' = PipeFds
  BY DEF Serves
<1>2. PICK c, ev : /\ Turned(k, c, ev) /\ c.pipe = clients[k].pipe /\ c.pid = clients[k].pid
                   /\ Runs(c) <=> Runs(clients[k])
  BY DEF Serves
<1>3. /\ ClientIds' = ClientIds
      /\ Running_s' = (Running_s \ {k}) \cup (IF Runs(c) THEN {k} ELSE {})
      /\ clients'[k] = c /\ \A j \in ClientIds \ {k} : clients'[j] = clients[j]
  BY <1>2, RunningTurned
<1>4. Running_s' = Running_s
  BY <1>2, <1>3 DEF Running_s
<1>5. Owned(clients', ClientIds, Running_s, Running_s, PipeFds, writer, proc', lost)
  <2>1. \A j \in ClientIds : clients'[j].pipe = clients[j].pipe /\ clients'[j].pid = clients[j].pid
    BY <1>2, <1>3
  <2>2. \A p \in Pid : proc'[p] = "none" <=> proc[p] = "none"
    BY <1>1 DEF KernelLike
  <2>3. /\ Owned(clients, ClientIds, Running_s, Running_s, PipeFds, writer, proc, lost)
        /\ Running_s \subseteq ClientIds
    BY <1>1, OwnersNow
  <2> QED BY <2>1, <2>2, <2>3, SameOwners
<1> QED BY <1>1, <1>3, <1>4, <1>5, OwnersNext DEF KernelLike

\* A new client runs nothing.
LEMMA ComesOwned ==
  ASSUME IInv, SInv, NEW f \in FreeFds, NEW conn, Comes(f, conn)
  PROVE  SInv'
<1>1. Alive /\ pc # "reap" /\ InLoop /\ PipeFds' = PipeFds /\ UNCHANGED <<writer, proc, lost>>
  BY DEF Comes, Alive
<1>2. PICK n : n = Len(clients) + 1
  OBVIOUS
<1>3. ClientIds' = ClientIds \cup {n} /\ n \notin ClientIds
  BY <1>1, <1>2, Parts_ DEF Comes, ClientIds
<1>4. /\ \A j \in ClientIds : clients'[j] = clients[j]
      /\ clients'[n].pipe = NoFd /\ ~Runs(clients'[n])
  BY <1>2 DEF Comes, NewClient, Runs
<1>5. Running_s' = Running_s
  <2>1. Running_s' = {j \in ClientIds \cup {n} : Runs(clients'[j])}
    BY <1>3 DEF Running_s
  <2> QED BY <1>4, <2>1 DEF Running_s
<1>6. /\ Owned(clients, ClientIds, Running_s, Running_s, PipeFds, writer, proc, lost)
      /\ Running_s \subseteq ClientIds
  BY <1>1, OwnersNow
<1>7. Owned(clients', ClientIds \cup {n}, Running_s, Running_s, PipeFds, writer, proc, lost)
  BY <1>4, <1>6, FdAssumption DEF Owned
<1> QED BY <1>1, <1>3, <1>5, <1>7, OwnersNext

\* A script that starts gets a pipe and a child nobody has.
LEMMA StartsOwned ==
  ASSUME IInv, DInv, SInv, NEW k \in ClientIds, NEW f \in FreeFds, NEW p \in FreePids,
         Starts(k, f, p)
  PROVE  SInv'
<1>1. /\ Alive /\ pc # "reap" /\ InLoop /\ PipeFds' = PipeFds \cup {f} /\ ~clients[k].exec
      /\ writer' = [writer EXCEPT ![f] = p] /\ proc' = [proc EXCEPT ![p] = "running"]
      /\ lost' = lost
  BY DEF Starts
<1>k. /\ clients[k] \in Client /\ PipeFds \subseteq Fd
      /\ writer \in [Fd -> Pid \cup {NoPid}] /\ f \in Fd /\ f \notin PipeFds
      /\ proc \in [Pid -> {"none", "running", "closed", "exited"}] /\ p \in Pid /\ proc[p] = "none"
  BY <1>1, Parts_, FdsApart, FreeApart DEF DInv, KernelOK, FreePids
<1>2. PICK c : c = Running(clients[k], f, p)
  OBVIOUS
<1>3. c.pipe = f /\ c.pid = p /\ Runs(c)
  BY <1>2, <1>k DEF Running, Client, Runs
<1>4. Turned(k, c, {})
  BY <1>2 DEF Starts
<1>5. /\ ClientIds' = ClientIds /\ Running_s' = (Running_s \ {k}) \cup {k}
      /\ clients'[k] = c /\ \A j \in ClientIds \ {k} : clients'[j] = clients[j]
  BY <1>3, <1>4, RunningTurned
<1>6. /\ Owned(clients, ClientIds, Running_s, Running_s, PipeFds, writer, proc, lost)
      /\ Running_s \subseteq ClientIds /\ k \notin Running_s
  BY <1>1, OwnersNow DEF Running_s, Runs
<1>7. Running_s' = Running_s \cup {k}
  BY <1>5, <1>6
<1>8. /\ \A j \in Running_s : /\ clients'[j] = clients[j] /\ clients[j].pipe # f
                              /\ clients[j].pid # p
      /\ p \notin lost
  BY <1>k, <1>5, <1>6 DEF Owned
<1>9. /\ \A g \in PipeFds : writer'[g] = writer[g]
      /\ writer'[f] = p
      /\ proc'[p] = "running" /\ \A q \in Pid \ {p} : proc'[q] = proc[q]
  BY <1>1, <1>k
<1>10. Owned(clients', ClientIds, Running_s \cup {k}, Running_s \cup {k}, PipeFds \cup {f},
             writer', proc', lost)
  <2>1. \A g \in PipeFds \cup {f} :
          \E j \in Running_s \cup {k} : clients'[j].pipe = g /\ clients'[j].pid = writer'[g]
    BY <1>3, <1>5, <1>6, <1>8, <1>9 DEF Owned
  <2>2. \A j \in Running_s \cup {k} : clients'[j].pipe \in PipeFds \cup {f}
    BY <1>3, <1>5, <1>6, <1>8 DEF Owned
  <2>3. \A j \in ClientIds : clients'[j].pipe \in Fd => j \in Running_s \cup {k}
    BY <1>5, <1>6 DEF Owned
  <2>4. \A j \in Running_s \cup {k} :
          /\ clients'[j].pid \in Pid /\ proc'[clients'[j].pid] # "none"
          /\ clients'[j].pid \notin lost
    BY <1>k, <1>3, <1>5, <1>6, <1>8, <1>9 DEF Owned
  <2>5. \A j, m \in Running_s \cup {k} : clients'[j].pipe = clients'[m].pipe => j = m
    BY <1>3, <1>5, <1>6, <1>8 DEF Owned
  <2>6. \A j, m \in Running_s \cup {k} : clients'[j].pid = clients'[m].pid => j = m
    BY <1>3, <1>5, <1>6, <1>8 DEF Owned
  <2>7. \A q \in Pid : proc'[q] # "none" =>
          q \in lost \/ \E j \in Running_s \cup {k} : clients'[j].pid = q
    BY <1>3, <1>5, <1>6, <1>8, <1>9 DEF Owned
  <2>8. \A q \in lost \cap Pid : proc'[q] # "none"
    BY <1>6, <1>8, <1>9 DEF Owned
  <2> QED BY <2>1, <2>2, <2>3, <2>4, <2>5, <2>6, <2>7, <2>8 DEF Owned
<1> QED BY <1>1, <1>5, <1>7, <1>10, OwnersNext

\* A launch that fails on the way forgets its descriptors and its child.
LEMMA ForgetsOwned ==
  ASSUME HarmlessGarbage, IInv, DInv, SInv, NEW k \in ClientIds, NEW fds \in SUBSET FreeFds,
         NEW pids \in SUBSET FreePids, Forgets(k, fds, pids)
  PROVE  SInv'
<1>1. /\ Alive /\ pc # "reap" /\ pc' = "reply" /\ PipeFds' = PipeFds /\ ~clients[k].exec
      /\ writer' = writer /\ lost' = lost \cup fds \cup pids
      /\ proc' = [p \in Pid |-> IF p \in pids THEN "running" ELSE proc[p]]
  BY DEF Forgets
<1>k. /\ clients[k] \in Client /\ fds \cap Pid = {} /\ pids \subseteq Pid
      /\ \A p \in pids : proc[p] = "none"
  BY <1>1, Parts_, PidAssumption DEF FreeFds, FreePids
<1>2. PICK f \in GarbageFd, p \in GarbagePid :
        Turned(k, Failed(clients[k], f, p), pollfd[L + k].events)
  BY DEF Forgets
<1>3. PICK c : c = Failed(clients[k], f, p)
  OBVIOUS
<1>4. c.pipe \notin Fd /\ ~Runs(c)
  <2>1. c.pipe = f /\ c.exec = FALSE
    BY <1>3, <1>k DEF Failed, Client
  <2> QED BY <2>1 DEF HarmlessGarbage, Runs
<1>5. /\ ClientIds' = ClientIds /\ Running_s' = Running_s \ {k}
      /\ clients'[k] = c /\ \A j \in ClientIds \ {k} : clients'[j] = clients[j]
  BY <1>2, <1>3, <1>4, RunningTurned
<1>6. /\ Owned(clients, ClientIds, Running_s, Running_s, PipeFds, writer, proc, lost)
      /\ Running_s \subseteq ClientIds /\ k \notin Running_s
  BY <1>1, OwnersNow DEF Running_s, Runs
<1>7. Running_s' = Running_s /\ \A j \in Running_s : clients'[j] = clients[j]
  BY <1>5, <1>6
<1>8. \A j \in Running_s : clients[j].pid \notin lost' /\ proc'[clients[j].pid] # "none"
  BY <1>1, <1>k, <1>6 DEF Owned
<1>9. Owned(clients', ClientIds, Running_s, Running_s, PipeFds, writer, proc', lost')
  <2>1. \A j \in ClientIds : clients'[j].pipe \in Fd => j \in Running_s
    BY <1>4, <1>5, <1>6 DEF Owned
  <2>2. \A j \in Running_s : clients'[j].pid \in Pid
    BY <1>6, <1>7 DEF Owned
  <2>3. \A q \in Pid : proc'[q] # "none" =>
          q \in lost' \/ \E j \in Running_s : clients'[j].pid = q
    BY <1>1, <1>6, <1>7 DEF Owned
  <2>4. \A q \in lost' \cap Pid : proc'[q] # "none"
    BY <1>1, <1>k, <1>6 DEF Owned
  <2>5. /\ \A g \in PipeFds : \E j \in Running_s : clients'[j].pipe = g /\ clients'[j].pid = writer[g]
        /\ \A j \in Running_s : clients'[j].pipe \in PipeFds
        /\ \A j, m \in Running_s : clients'[j].pipe = clients'[m].pipe => j = m
        /\ \A j, m \in Running_s : clients'[j].pid = clients'[m].pid => j = m
    BY <1>6, <1>7 DEF Owned
  <2> QED BY <1>7, <1>8, <2>1, <2>2, <2>3, <2>4, <2>5 DEF Owned
<1>10. pc' # "reap" /\ Owners' = Running_s'
  BY <1>1 DEF Owners, Running_s
<1> QED BY <1>1, <1>5, <1>7, <1>9, <1>10, SInvNextIs

\* A script that closed its output is still to be reaped.
LEMMA EndsOutputOwned ==
  ASSUME IInv, DInv, SInv, NEW k \in ClientIds, NEW result \in {"CCS_DONE", "CCS_FAILLED"},
         EndsOutput(k, result)
  PROVE  SInv'
<1>1. /\ Alive /\ pc # "reap" /\ pc' = "reap" /\ cur' = k /\ clients[k].pipe \in PipeFds
      /\ PipeFds' = PipeFds \ {clients[k].pipe} /\ Close({clients[k].pipe})
      /\ UNCHANGED <<proc, lost>>
  BY DEF EndsOutput, Alive
<1>k. clients[k] \in Client /\ PipeFds \subseteq Fd
  BY <1>1, Parts_, FdsApart DEF DInv
<1>2. PICK c : c = [clients[k] EXCEPT !.cgi = result, !.pipe = NoFd]
  OBVIOUS
<1>3. c.pipe \notin Fd /\ c.pid = clients[k].pid /\ ~Runs(c)
  BY <1>2, <1>k, FdAssumption DEF Client, Runs
<1>4. Turned(k, c, ToSend(pollfd[L + k].events))
  BY <1>2 DEF EndsOutput
<1>5. /\ ClientIds' = ClientIds /\ Running_s' = Running_s \ {k}
      /\ clients'[k] = c /\ \A j \in ClientIds \ {k} : clients'[j] = clients[j]
  BY <1>3, <1>4, RunningTurned
<1>6. /\ Owned(clients, ClientIds, Running_s, Running_s, PipeFds, writer, proc, lost)
      /\ Running_s \subseteq ClientIds
  BY <1>1, OwnersNow
<1>7. k \in Running_s
  BY <1>1, <1>k, <1>6 DEF Owned
<1>8. Owners' = Running_s
  <2>1. Owners' = {j \in ClientIds : Runs(clients'[j]) \/ j = k}
    BY <1>1, <1>5 DEF Owners
  <2> QED BY <1>5, <1>7, <2>1 DEF Running_s
<1>9. /\ \A j \in ClientIds : clients'[j].pid = clients[j].pid
      /\ \A j \in ClientIds \ {k} : clients'[j].pipe = clients[j].pipe
      /\ \A f \in PipeFds \ {clients[k].pipe} : writer'[f] = writer[f]
  BY <1>1, <1>3, <1>5, <1>k DEF Close
<1>10. Owned(clients', ClientIds, Running_s \ {k}, Running_s, PipeFds \ {clients[k].pipe},
             writer', proc, lost)
  <2>1. \A f \in PipeFds \ {clients[k].pipe} :
          \E j \in Running_s \ {k} : clients'[j].pipe = f /\ clients'[j].pid = writer'[f]
    BY <1>6, <1>9 DEF Owned
  <2>2. \A j \in Running_s \ {k} : clients'[j].pipe \in PipeFds \ {clients[k].pipe}
    BY <1>6, <1>7, <1>9 DEF Owned
  <2>3. \A j \in ClientIds : clients'[j].pipe \in Fd => j \in Running_s \ {k}
    BY <1>3, <1>5, <1>6 DEF Owned
  <2>4. \A j, m \in Running_s \ {k} : clients'[j].pipe = clients'[m].pipe => j = m
    BY <1>6, <1>9 DEF Owned
  <2> QED BY <1>6, <1>9, <2>1, <2>2, <2>3, <2>4 DEF Owned
<1> QED BY <1>1, <1>3, <1>5, <1>8, <1>10, SInvNextIs

\* A child is reaped with its client as its only owner.
LEMMA ReapsOwned ==
  ASSUME IInv, SInv, NEW k \in ClientIds, Reaps(k)
  PROVE  SInv'
<1>1. /\ Alive /\ pc = "reap" /\ InLoop /\ cur = k /\ PipeFds' = PipeFds
      /\ proc' = Reaped(clients[k].pid) /\ UNCHANGED <<writer, lost>>
  BY DEF Reaps, Alive
<1>k. clients[k] \in Client
  BY <1>1, Parts_
<1>2. PICK c : /\ Turned(k, c, pollfd[L + k].events)
               /\ c.pipe = clients[k].pipe /\ c.exec = clients[k].exec /\ c.cgi = clients[k].cgi
  <2>1. PICK n, left :
          Turned(k, [clients[k] EXCEPT !.out = n, !.pid = left], pollfd[L + k].events)
    BY DEF Reaps
  <2> DEFINE d == [clients[k] EXCEPT !.out = n, !.pid = left]
  <2>2. d.pipe = clients[k].pipe /\ d.exec = clients[k].exec /\ d.cgi = clients[k].cgi
    BY <1>k DEF Client
  <2>3. Turned(k, d, pollfd[L + k].events)
    BY <2>1
  <2> HIDE DEF d
  <2> QED BY <2>2, <2>3
<1>3. /\ Owned(clients, ClientIds, Running_s, Owners, PipeFds, writer, proc, lost)
      /\ ~Runs(clients[k]) /\ Running_s \subseteq ClientIds
  BY <1>1, OwnersNow
<1>4. Owners = Running_s \cup {k} /\ k \notin Running_s
  BY <1>1, <1>3 DEF Owners, Running_s
<1>5. /\ ClientIds' = ClientIds /\ Running_s' = Running_s
      /\ clients'[k] = c /\ \A j \in ClientIds \ {k} : clients'[j] = clients[j]
  <2>1. ~Runs(c)
    BY <1>2, <1>3 DEF Runs
  <2>2. /\ ClientIds' = ClientIds /\ Running_s' = Running_s \ {k}
        /\ clients'[k] = c /\ \A j \in ClientIds \ {k} : clients'[j] = clients[j]
    BY <1>2, <2>1, RunningTurned
  <2> QED BY <1>4, <2>2
<1>6. \A j \in Running_s : clients'[j] = clients[j]
  BY <1>3, <1>4, <1>5
<1>7. Owned(clients', ClientIds, Running_s, Running_s, PipeFds, writer, proc', lost)
  <2>1. clients[k].pid \in Pid /\ clients[k].pid \notin lost
    BY <1>3, <1>4 DEF Owned
  <2>2. \A p \in Pid : proc'[p] = IF p = clients[k].pid THEN "none" ELSE proc[p]
    BY <1>1 DEF Reaped
  <2>3. \A j \in Running_s : clients[j].pid # clients[k].pid
    BY <1>3, <1>4 DEF Owned
  <2>4. \A j \in ClientIds : clients'[j].pipe = clients[j].pipe
    BY <1>2, <1>5
  <2>5. \A j \in Running_s :
          clients'[j].pid \in Pid /\ proc'[clients'[j].pid] # "none" /\ clients'[j].pid \notin lost
    BY <1>3, <1>4, <1>6, <2>2, <2>3 DEF Owned
  <2>6. \A p \in Pid : proc'[p] # "none" => p \in lost \/ \E j \in Running_s : clients'[j].pid = p
    BY <1>3, <1>4, <1>6, <2>2 DEF Owned
  <2>7. \A p \in lost \cap Pid : proc'[p] # "none"
    BY <1>3, <2>1, <2>2 DEF Owned
  <2>8. /\ \A f \in PipeFds : \E j \in Running_s : clients'[j].pipe = f /\ clients'[j].pid = writer[f]
        /\ \A j \in Running_s : clients'[j].pipe \in PipeFds
        /\ \A j \in ClientIds : clients'[j].pipe \in Fd => j \in Running_s
    BY <1>3, <1>6, <2>4 DEF Owned
  <2>9. /\ \A j, m \in Running_s : clients'[j].pipe = clients'[m].pipe => j = m
        /\ \A j, m \in Running_s : clients'[j].pid = clients'[m].pid => j = m
    BY <1>3, <1>4, <1>6 DEF Owned
  <2> QED BY <2>5, <2>6, <2>7, <2>8, <2>9 DEF Owned
<1> QED BY <1>1, <1>5, <1>7, OwnersNext

\* The client that goes took its pipe and its child with it, or had none.
LEMMA LeavesOwned ==
  ASSUME IInv, DInv, SInv, NEW k \in ClientIds, Leaves(k)
  PROVE  SInv'
<1>1. /\ Alive /\ pc # "reap" /\ InLoop /\ Gone(k) /\ lost' = lost
      /\ PipeFds' = PipeFds \ {clients[k].pipe}
  BY DEF Leaves
<1>2. /\ Len(clients) \in Nat /\ k \in 1 .. Len(clients) /\ ClientIds = 1 .. Len(clients)
      /\ ClientFds \cap PipeFds = {} /\ PipeFds \subseteq Fd
  BY <1>1, Parts_, FdsApart DEF DInv
<1>3. /\ Owned(clients, ClientIds, Running_s, Running_s, PipeFds, writer, proc, lost)
      /\ Running_s \subseteq ClientIds
  BY <1>1, OwnersNow
<1>4. /\ ClientIds' = 1 .. Len(clients) - 1
      /\ \A j \in ClientIds' : clients'[j] = clients[Skip(k, j)]
  BY <1>1 DEF Gone, ClientIds
<1>5. /\ \A j \in ClientIds' : Skip(k, j) \in ClientIds \ {k}
      /\ \A j, m \in ClientIds' : Skip(k, j) = Skip(k, m) => j = m
      /\ \A m \in ClientIds \ {k} : \E j \in ClientIds' : m = Skip(k, j)
  <2>1. PICK n : n = Len(clients) /\ n \in Nat /\ k \in 1 .. n
    BY <1>2
  <2>2. /\ \A j \in 1 .. n - 1 : Skip(k, j) \in 1 .. n /\ Skip(k, j) # k
        /\ \A j, m \in 1 .. n - 1 : Skip(k, j) = Skip(k, m) => j = m
        /\ \A m \in 1 .. n : m # k => \E j \in 1 .. n - 1 : m = Skip(k, j)
    BY <2>1, SkipProps
  <2>3. ClientIds' = 1 .. n - 1 /\ ClientIds = 1 .. n
    BY <1>2, <1>4, <2>1
  <2> QED BY <2>2, <2>3
<1>6. \A j \in ClientIds' : j \in Running_s' <=> Skip(k, j) \in Running_s
  BY <1>4, <1>5 DEF Running_s
<1>7. /\ Running_s' \subseteq ClientIds'
      /\ \A m \in Running_s \ {k} : \E j \in Running_s' : m = Skip(k, j)
  <2>1. Running_s' \subseteq ClientIds'
    BY DEF Running_s
  <2> QED BY <1>3, <1>5, <1>6, <2>1
<1>8. ASSUME NEW pr, NEW pipes,
             Owned(clients, ClientIds \ {k}, Running_s \ {k}, Running_s \ {k}, pipes, writer', pr, lost)
      PROVE  Owned(clients', ClientIds', Running_s', Running_s', pipes, writer', pr, lost)
  <2>0. \A j \in Running_s' : clients'[j] = clients[Skip(k, j)] /\ Skip(k, j) \in Running_s \ {k}
    BY <1>4, <1>5, <1>6, <1>7
  <2>1. /\ \A f \in pipes : \E j \in Running_s' : clients'[j].pipe = f /\ clients'[j].pid = writer'[f]
        /\ \A q \in Pid : pr[q] # "none" => q \in lost \/ \E j \in Running_s' : clients'[j].pid = q
    BY <1>7, <1>8, <2>0 DEF Owned
  <2>2. /\ \A j \in Running_s' : clients'[j].pipe \in pipes
        /\ \A j \in ClientIds' : clients'[j].pipe \in Fd => j \in Running_s'
        /\ \A j \in Running_s' :
             clients'[j].pid \in Pid /\ pr[clients'[j].pid] # "none" /\ clients'[j].pid \notin lost
    BY <1>4, <1>5, <1>6, <1>8, <2>0 DEF Owned
  <2>3. \A j, m \in Running_s' : clients'[j].pipe = clients'[m].pipe => j = m
    BY <1>5, <1>7, <1>8, <2>0 DEF Owned
  <2>4. \A j, m \in Running_s' : clients'[j].pid = clients'[m].pid => j = m
    BY <1>5, <1>7, <1>8, <2>0 DEF Owned
  <2> QED BY <1>8, <2>1, <2>2, <2>3, <2>4 DEF Owned
<1>9. Owned(clients, ClientIds \ {k}, Running_s \ {k}, Running_s \ {k}, PipeFds', writer', proc', lost)
  <2>1. clients[k].fd \in ClientFds
    BY DEF ClientFds
  <2>2. CASE clients[k].pipe \notin PipeFds /\ Close({clients[k].fd}) /\ proc' = proc
    <3>1. k \notin Running_s /\ PipeFds' = PipeFds
      BY <1>1, <1>3, <2>2 DEF Owned
    <3>2. Running_s \ {k} = Running_s
      BY <3>1
    <3>3. \A f \in PipeFds : writer'[f] = writer[f]
      BY <1>2, <2>1, <2>2 DEF Close
    <3> QED BY <1>3, <2>2, <3>1, <3>2, <3>3 DEF Owned
  <2>3. CASE /\ clients[k].pipe \in PipeFds
             /\ Close({clients[k].fd, clients[k].pipe}) /\ proc' = Reaped(clients[k].pid)
    <3>1. k \in Running_s /\ clients[k].pid \in Pid /\ clients[k].pid \notin lost
      BY <1>2, <1>3, <2>3 DEF Owned
    <3>2. \A f \in PipeFds' : writer'[f] = writer[f]
      BY <1>1, <1>2, <2>1, <2>3 DEF Close
    <3>3. \A p \in Pid : proc'[p] = IF p = clients[k].pid THEN "none" ELSE proc[p]
      BY <2>3 DEF Reaped
    <3>4. \A j \in Running_s \ {k} : /\ clients[j].pid # clients[k].pid
                                     /\ clients[j].pipe # clients[k].pipe
      BY <1>3, <3>1 DEF Owned
    <3>5. /\ \A f \in PipeFds' :
               \E j \in Running_s \ {k} : clients[j].pipe = f /\ clients[j].pid = writer'[f]
          /\ \A j \in Running_s \ {k} : clients[j].pipe \in PipeFds'
      BY <1>1, <1>3, <3>2, <3>4 DEF Owned
    <3>6. \A j \in Running_s \ {k} :
            clients[j].pid \in Pid /\ proc'[clients[j].pid] # "none" /\ clients[j].pid \notin lost
      BY <1>3, <3>3, <3>4 DEF Owned
    <3>7. /\ \A p \in Pid : proc'[p] # "none" =>
               p \in lost \/ \E j \in Running_s \ {k} : clients[j].pid = p
          /\ \A p \in lost \cap Pid : proc'[p] # "none"
      BY <1>3, <3>1, <3>3 DEF Owned
    <3> QED BY <1>3, <3>5, <3>6, <3>7 DEF Owned
  <2> QED BY <2>2, <2>3 DEF Leaves
<1>10. Owned(clients', ClientIds', Running_s', Running_s', PipeFds', writer', proc', lost)
  BY <1>8, <1>9
<1> QED BY <1>1, <1>10, OwnersNext

\* No step parts a script from its client.
LEMMA SInvKept ==
  ASSUME HarmlessGarbage
  PROVE  IInv /\ DInv /\ RInv /\ SInv /\ [Next]_vars => SInv'
<1> SUFFICES ASSUME IInv, DInv, RInv, SInv, [Next]_vars PROVE SInv'
  OBVIOUS
<1>1. Steps
  BY StepKinds
<1>2. CASE Idles
  BY <1>2, IdlesOwned
<1>3. ASSUME NEW k \in ClientIds, Serves(k) \/ Leaves(k) \/ Reaps(k) PROVE SInv'
  BY <1>3, ServesOwned, LeavesOwned, ReapsOwned
<1>4. CASE \E f \in FreeFds, conn \in GarbageConn : Comes(f, conn)
  BY <1>4, ComesOwned
<1>5. CASE \E k \in ClientIds, f \in FreeFds, p \in FreePids : Starts(k, f, p)
  BY <1>5, StartsOwned
<1>6. CASE \E k \in ClientIds, fds \in SUBSET FreeFds, pids \in SUBSET FreePids : Forgets(k, fds, pids)
  BY <1>6, ForgetsOwned
<1>7. CASE \E k \in ClientIds, result \in {"CCS_DONE", "CCS_FAILLED"} : EndsOutput(k, result)
  BY <1>7, EndsOutputOwned
<1>8. CASE Shutdown \/ AcceptFails
  <2>1. ~Alive'
    BY <1>8, NobodyLeft DEF Shutdown, AcceptFails
  <2> QED BY <2>1 DEF SInv
<1>9. CASE UNCHANGED vars
  <2>1. UNCHANGED <<pollfd, clients, pc, cur, writer, proc, lost>>
    BY <1>9 DEF vars
  <2> QED BY <2>1 DEF SInv, Alive, ClientIds, PipeFds, TailSlots, RunsScript, Busy
<1> QED BY <1>1, <1>2, <1>3, <1>4, <1>5, <1>6, <1>7, <1>8, <1>9 DEF Steps

-----------------------------------------------------------------------------
(* The inductions, and the properties.                                     *)

\* A process that ended polls nothing and serves nobody.
EInv == ~Alive => TailSlots = {} /\ ClientIds = {}
\* The process ends at SIGINT or at a failed accept(), and polls nothing then.
LEMMA EInvKept ==
  ASSUME IInv, DInv, RInv, EInv, [Next]_vars
  PROVE  EInv' /\ (pc' \in {"stopped", "crashed"} => Shutdown \/ AcceptFails \/ UNCHANGED vars)
<1>s. Steps
  BY StepKinds
<1>1. CASE Alive'
  BY <1>1 DEF EInv, Alive
<1>2. CASE Shutdown \/ AcceptFails
  <2>1. /\ ClientIds' = {} /\ pollfd' = << >> /\ clients' = << >>
    BY <1>2, NobodyLeft DEF Shutdown, AcceptFails, Ends
  <2>2. TailSlots' = (L + Len(clients') + 1) .. Len(pollfd')
    BY DEF TailSlots, L
  <2>3. TailSlots' = {}
    <3>1. Len(clients') = 0 /\ Len(pollfd') = 0
      BY <2>1, EmptySeq
    <3> QED BY <2>2, <3>1, ListenersCounted
  <2> QED BY <1>2, <2>1, <2>3 DEF EInv
<1>3. CASE UNCHANGED vars
  <2>1. UNCHANGED <<pollfd, clients, pc>>
    BY <1>3 DEF vars
  <2> QED BY <1>3, <2>1 DEF EInv, Alive, TailSlots, ClientIds
<1>4. ASSUME ~(Shutdown \/ AcceptFails \/ UNCHANGED vars) PROVE Alive'
  <2>1. InLoop => Alive'
    BY DEF InLoop, Alive
  <2>2. Idles => Alive'
    BY <2>1 DEF Idles, loop, Alive
  <2>3. ASSUME NEW k \in ClientIds, Serves(k) \/ Leaves(k) \/ Reaps(k) PROVE Alive'
    BY <2>1, <2>3 DEF Serves, Leaves, Reaps
  <2>4. ASSUME NEW f, NEW conn, Comes(f, conn) PROVE Alive'
    BY <2>1, <2>4 DEF Comes
  <2>5. ASSUME NEW k, NEW f, NEW p, Starts(k, f, p) PROVE Alive'
    BY <2>1, <2>5 DEF Starts
  <2>6. ASSUME NEW k, NEW fds, NEW pids, Forgets(k, fds, pids) PROVE Alive'
    BY <2>6 DEF Forgets, Alive
  <2>7. ASSUME NEW k, NEW result, EndsOutput(k, result) PROVE Alive'
    BY <2>7 DEF EndsOutput, Alive
  <2> QED BY <1>s, <1>4, <2>2, <2>3, <2>4, <2>5, <2>6, <2>7 DEF Steps
<1> QED BY <1>1, <1>2, <1>3, <1>4 DEF Alive

\* Which descriptors are open, and what each client waits for.
LEMMA AccountsHold == Spec => [](IInv /\ DInv /\ RInv /\ EInv)
<1>1. Init => IInv /\ DInv /\ RInv /\ EInv
  BY InitOK, DInvInit, RInvInit, Nobody DEF EInv
<1>2. (IInv /\ DInv /\ RInv /\ EInv) /\ [Next]_vars => (IInv /\ DInv /\ RInv /\ EInv)'
  BY NextKeeps, DInvKept, RInvKept, EInvKept
<1> QED BY <1>1, <1>2, PTL DEF Spec

\* Who owns each pipe and each child; and what a clean stop leaves.
LEMMA OwnersHold ==
  ASSUME HarmlessGarbage
  PROVE  Spec => [](IInv /\ DInv /\ RInv /\ EInv /\ SInv /\ CleanStop)
<1>1. Init => SInv /\ CleanStop
  BY SInvInit DEF Init, CleanStop
<1>2. ASSUME IInv, DInv, RInv, EInv, SInv, CleanStop, [Next]_vars PROVE CleanStop'
  <2>1. ASSUME NEW p \in Pid, pc' = "stopped" PROVE proc'[p] = "none" \/ p \in lost'
    <3>1. CASE Shutdown
      <4>1. /\ lost' = lost /\ Alive
            /\ proc' = [q \in Pid |-> IF q \in KilledAtShutdown THEN "none" ELSE proc[q]]
        BY <3>1 DEF Shutdown, Ends, Alive
      <4>2. proc[p] # "none" => p \in lost \/ p \in KilledAtShutdown
        BY <1>2, <4>1 DEF SInv, KilledAtShutdown
      <4> QED BY <4>1, <4>2
    <3>2. CASE AcceptFails
      BY <2>1, <3>2, NobodyLeft DEF AcceptFails
    <3>3. CASE UNCHANGED vars
      <4>1. UNCHANGED <<pc, proc, lost>>
        BY <3>3 DEF vars
      <4> QED BY <1>2, <2>1, <4>1 DEF CleanStop
    <3> QED BY <1>2, <2>1, <3>1, <3>2, <3>3, EInvKept
  <2> QED BY <2>1 DEF CleanStop
<1>3. IInv /\ DInv /\ RInv /\ EInv /\ (SInv /\ CleanStop) /\ [Next]_vars => (SInv /\ CleanStop)'
  BY <1>2, SInvKept
<1> QED BY <1>1, <1>3, AccountsHold, PTL DEF Spec

\* No descriptor of a connection or of a pipe is leaked, polled twice or closed
\* while it is polled: handleDisconnect, cgiEventsChecking and the error paths of
\* cgiHandle close or forget exactly what they took.
THEOREM DescriptorsKept == Spec => []DescriptorsAccounted
<1>1. IInv /\ DInv => DescriptorsAccounted
  <2> SUFFICES ASSUME IInv, DInv, Alive
               PROVE  {pollfd[s].fd : s \in (L + 1) .. Len(pollfd)} = ClientFds \cup PipeFds
    BY DEF DescriptorsAccounted, DInv, Distinct
  <2>0. /\ L \in Nat /\ Len(pollfd) \in Nat /\ Len(clients) \in Nat
        /\ L + Len(clients) <= Len(pollfd) /\ ClientIds = 1 .. Len(clients)
        /\ \A k \in ClientIds : pollfd[L + k].fd = clients[k].fd
    BY Parts_
  <2>1. ASSUME NEW s \in (L + 1) .. Len(pollfd) PROVE pollfd[s].fd \in ClientFds \cup PipeFds
    <3>1. CASE s \in TailSlots
      BY <3>1 DEF PipeFds
    <3>2. CASE s \notin TailSlots
      <4>1. PICK k : k = s - L
        OBVIOUS
      <4>2. k \in ClientIds /\ L + k = s
        BY <2>0, <3>2, <4>1 DEF TailSlots
      <4> QED BY <2>0, <4>2 DEF ClientFds
    <3> QED BY <3>1, <3>2
  <2>2. ASSUME NEW k \in ClientIds PROVE L + k \in (L + 1) .. Len(pollfd)
    BY <2>0
  <2>3. TailSlots \subseteq (L + 1) .. Len(pollfd)
    BY <2>0 DEF TailSlots
  <2>4. ASSUME NEW f \in ClientFds PROVE \E s \in (L + 1) .. Len(pollfd) : pollfd[s].fd = f
    BY <2>0, <2>2 DEF ClientFds
  <2>5. ASSUME NEW f \in PipeFds PROVE \E s \in (L + 1) .. Len(pollfd) : pollfd[s].fd = f
    BY <2>3 DEF PipeFds
  <2> QED BY <2>1, <2>4, <2>5
<1> QED BY <1>1, AccountsHold, PTL

\* A client that the loop watches for nothing has a running script, whose end or
\* whose timeout wakes it; no client is watched for both directions.
THEOREM NobodyForgotten == Spec => []NoForgottenClient
<1>1. RInv => NoForgottenClient
  BY DEF RInv, Settled, NoForgottenClient, RunsScript
<1> QED BY <1>1, AccountsHold, PTL

\* The pipe of every running script stays polled until its end or its client's.
THEOREM ScriptsPolled ==
  ASSUME HarmlessGarbage
  PROVE  Spec => []ScriptPolled
<1>1. EInv /\ SInv => ScriptPolled
  BY DEF EInv, SInv, ScriptPolled, PipeFds
<1> QED BY <1>1, OwnersHold, PTL

\* Every polled pipe has exactly one client, whose child writes to it: what
\* getClientReqCGI returns is never another client, and never _client[0].
THEOREM PipesHaveOwners ==
  ASSUME HarmlessGarbage
  PROVE  Spec => []PipesOwned
<1>1. IInv /\ DInv /\ EInv /\ SInv => PipesOwned
  <2> SUFFICES ASSUME IInv, DInv, EInv, SInv, NEW s \in TailSlots
               PROVE  \E k \in ClientIds :
                        /\ RunsScript(k) /\ clients[k].pid = writer[pollfd[s].fd]
                        /\ {j \in ClientIds : clients[j].pipe = pollfd[s].fd} = {k}
    BY DEF PipesOwned
  <2>1. Alive
    BY DEF EInv
  <2>2. pollfd[s].fd \in PipeFds /\ pollfd[s].fd \in Fd
    BY <2>1, FdsApart DEF PipeFds, DInv
  <2>3. PICK k \in ClientIds : /\ RunsScript(k) /\ clients[k].pipe = pollfd[s].fd
                               /\ clients[k].pid = writer[pollfd[s].fd]
    BY <2>1, <2>2 DEF SInv
  <2>4. \A j \in ClientIds : clients[j].pipe = pollfd[s].fd => j = k
    BY <2>1, <2>2, <2>3 DEF SInv
  <2> QED BY <2>3, <2>4
<1> QED BY <1>1, OwnersHold, PTL

\* A child that was not reaped has a client that will kill or reap it, or was
\* forgotten by a failed launch; no child is reaped while its pipe is polled.
THEOREM ChildrenAccounted ==
  ASSUME HarmlessGarbage
  PROVE  Spec => []ChildAccounted
<1>1. SInv => ChildAccounted
  BY DEF SInv, ChildAccounted, Busy
<1> QED BY <1>1, OwnersHold, PTL

\* A server that SIGINT stopped leaves no child but those a failed launch forgot.
THEOREM StopsClean ==
  ASSUME HarmlessGarbage
  PROVE  Spec => []CleanStop
BY OwnersHold, PTL

-----------------------------------------------------------------------------
(* The event loop implements ConnTable: seen from each connection, it does *)
(* nothing but open, take a request, start one script, end it, answer, and *)
(* close, one connection in a step, for every value of the constants and   *)
(* whatever the uninitialised members hold.                                *)

\* The value ConnTable's variable has in a state of the event loop.
Table == [f \in Fd |-> Phase(f)]

\* A running server's table is what its clients and their entries say.
LEMMA TableIs ==
  IInv /\ DInv /\ Alive =>
    /\ \A k \in ClientIds :
         clients[k].fd \in Fd /\ Table[clients[k].fd] = Kind(clients[k], pollfd[L + k].events)
    /\ \A f \in Fd \ ClientFds : Table[f] = "none"
    /\ ClientIds \subseteq Nat
<1> SUFFICES ASSUME IInv, DInv, Alive
             PROVE  /\ \A k \in ClientIds :
                         /\ clients[k].fd \in Fd
                         /\ Table[clients[k].fd] = Kind(clients[k], pollfd[L + k].events)
                    /\ \A f \in Fd \ ClientFds : Table[f] = "none"
                    /\ ClientIds \subseteq Nat
  OBVIOUS
<1>1. ASSUME NEW f \in Fd \ ClientFds PROVE Table[f] = "none"
  BY DEF Table, Phase, ClientFds
<1>2. ASSUME NEW k \in ClientIds
      PROVE  /\ clients[k].fd \in Fd
             /\ Table[clients[k].fd] = Kind(clients[k], pollfd[L + k].events)
  <2>1. clients[k].fd \in Fd
    BY Parts_ DEF Client
  <2>2. \A j \in ClientIds : clients[j].fd = clients[k].fd => j = k
    BY FdsApart DEF DInv
  <2>3. (CHOOSE j \in ClientIds : clients[j].fd = clients[k].fd) = k
    BY <2>2
  <2>4. Phase(clients[k].fd) =
          CASE Events(k) = {"POLLIN"} -> "receiving"
            [] Events(k) = {} -> "script"
            [] OTHER -> IF clients[k].exec THEN "relaying" ELSE "answering"
    BY <2>3 DEF Phase
  <2> QED BY <2>1, <2>4 DEF Table, Kind, Events, Slot
<1> QED BY <1>1, <1>2, Parts_

\* The abstract table of the next state, read off its clients.
LEMMA TableNextIs ==
  IInv' /\ DInv' /\ Alive' =>
    /\ \A k \in ClientIds' :
         /\ clients'[k].fd \in Fd
         /\ Table'[clients'[k].fd] = Kind(clients'[k], pollfd'[L + k].events)
    /\ \A f \in Fd \ ClientFds' : Table'[f] = "none"
<1>1. (IInv /\ DInv /\ Alive =>
        /\ \A k \in ClientIds :
             clients[k].fd \in Fd /\ Table[clients[k].fd] = Kind(clients[k], pollfd[L + k].events)
        /\ \A f \in Fd \ ClientFds : Table[f] = "none"
        /\ ClientIds \subseteq Nat)'
  BY TableIs, PTL
<1> QED BY <1>1 DEF Kind, L

\* The moves of ConnTable, in terms of Table.
LEMMA TableMoves ==
  ASSUME NEW f \in Fd, NEW to, Table' = [Table EXCEPT ![f] = to],
         \/ Table[f] = "none" /\ to = "receiving"
         \/ Moved(Table[f], to)
         \/ Table[f] \in {"receiving", "answering", "script", "relaying"} /\ to = "none"
  PROVE  Connections!Next \/ UNCHANGED Table
<1>1. CASE to = Table[f]
  BY <1>1 DEF Table
<1>2. CASE to # Table[f]
  <2>1. Table'[f] # Table[f]
    BY <1>2 DEF Table
  <2> QED BY <1>2, <2>1 DEF Moved, Table, Connections!Next, Connections!Moves, Connections!Open,
     Connections!Request, Connections!StartScript, Connections!ScriptEnds, Connections!Answered,
     Connections!Close, Connections!Phases
<1> QED BY <1>1, <1>2

\* Both sides of a step of a server that goes on.
Stable == IInv /\ DInv /\ Alive /\ IInv' /\ DInv' /\ Alive'

\* What a table that changes at one connection is.
LEMMA TableChanges ==
  ASSUME NEW f \in Fd, \A g \in Fd : g # f => Table'[g] = Table[g]
  PROVE  Table' = [Table EXCEPT ![f] = Table'[f]]
<1>1. Table' = [g \in Fd |-> Table'[g]]
  BY DEF Table
<1> QED BY <1>1 DEF Table

\* A phase of a connection.
LEMMA KindIs ==
  ASSUME NEW c, NEW ev
  PROVE  Kind(c, ev) \in {"receiving", "answering", "script", "relaying"}
BY DEF Kind

\* A turn in place moves one connection.
LEMMA TurnMoves ==
  ASSUME Stable, NEW k \in ClientIds, NEW c, NEW ev, Turned(k, c, ev), c.fd = clients[k].fd,
         Moved(Kind(clients[k], pollfd[L + k].events), Kind(c, ev))
  PROVE  Connections!Next \/ UNCHANGED Table
<1> DEFINE f == clients[k].fd
<1>1. f \in Fd /\ Table[f] = Kind(clients[k], pollfd[L + k].events)
  BY TableIs DEF Stable
<1>2. ClientIds' = ClientIds /\ ClientFds' = ClientFds
  BY DEF Turned, ClientIds
<1>3. Table'[f] = Kind(c, ev)
  <2>1. clients'[k] = c /\ pollfd'[L + k].events = ev
    BY DEF Turned
  <2> QED BY <1>2, <2>1, TableNextIs DEF Stable
<1>4. ASSUME NEW g \in Fd, g # f PROVE Table'[g] = Table[g]
  <2>1. CASE g \in ClientFds
    <3>1. PICK j \in ClientIds : clients[j].fd = g
      BY <2>1 DEF ClientFds
    <3>2. j # k /\ clients'[j] = clients[j] /\ pollfd'[L + j] = pollfd[L + j]
      BY <1>4, <3>1 DEF Turned
    <3>3. Table[g] = Kind(clients[j], pollfd[L + j].events)
      BY <3>1, TableIs DEF Stable
    <3>4. Table'[g] = Kind(clients'[j], pollfd'[L + j].events)
      BY <1>2, <3>1, <3>2, TableNextIs DEF Stable
    <3> QED BY <3>2, <3>3, <3>4
  <2>2. CASE g \notin ClientFds
    BY <1>2, <2>2, TableIs, TableNextIs DEF Stable
  <2> QED BY <2>1, <2>2
<1> HIDE DEF f
<1>5. Table' = [Table EXCEPT ![f] = Kind(c, ev)]
  BY <1>1, <1>3, <1>4, TableChanges
<1> QED BY <1>1, <1>5, TableMoves

\* A step that leaves every client's state and events stutters.
LEMMA IdleStutters ==
  ASSUME Stable, Idles
  PROVE  UNCHANGED Table
<1>1. ClientIds' = ClientIds /\ ClientFds' = ClientFds
  BY DEF Idles, ClientIds
<1>2. ASSUME NEW g \in Fd PROVE Table'[g] = Table[g]
  <2>1. CASE g \in ClientFds
    <3>1. PICK j \in ClientIds : clients[j].fd = g
      BY <2>1 DEF ClientFds
    <3>2. Alike(clients'[j], clients[j]) /\ pollfd'[L + j].events = pollfd[L + j].events
      BY DEF Idles
    <3>3. Table[g] = Kind(clients[j], pollfd[L + j].events)
      BY <3>1, TableIs DEF Stable
    <3>4. clients'[j].fd = g
      BY <3>1, <3>2 DEF Alike
    <3>5. Table'[g] = Kind(clients'[j], pollfd'[L + j].events)
      BY <1>1, <3>4, TableNextIs DEF Stable
    <3> QED BY <3>2, <3>3, <3>5 DEF Kind, Alike
  <2>2. CASE g \notin ClientFds
    BY <1>1, <2>2, TableIs, TableNextIs DEF Stable
  <2> QED BY <2>1, <2>2
<1> QED BY <1>2 DEF Table

\* accept() opens one connection.
LEMMA ComingOpens ==
  ASSUME Stable, NEW f \in FreeFds, NEW conn, Comes(f, conn)
  PROVE  Connections!Next \/ UNCHANGED Table
<1>1. PICK n : n = Len(clients) + 1
  OBVIOUS
<1>2. ClientIds' = ClientIds \cup {n} /\ ClientFds' = ClientFds \cup {f}
  <2>1. Len(clients) \in Nat /\ Len(clients') = Len(clients) + 1
    BY Parts_ DEF Comes, Stable
  <2> QED BY <1>1, <2>1 DEF Comes, ClientIds
<1>3. f \in Fd /\ f \notin ClientFds
  BY FreeApart DEF Stable
<1>4. Table[f] = "none"
  BY <1>3, TableIs DEF Stable
<1>5. Table'[f] = "receiving"
  <2>1. clients'[n].fd = f /\ pollfd'[L + n].events = {"POLLIN"}
    BY <1>1 DEF Comes, NewClient
  <2>2. Table'[f] = Kind(clients'[n], pollfd'[L + n].events)
    BY <1>2, <2>1, TableNextIs DEF Stable
  <2> QED BY <2>1, <2>2 DEF Kind
<1>6. ASSUME NEW g \in Fd, g # f PROVE Table'[g] = Table[g]
  <2>1. CASE g \in ClientFds
    <3>1. PICK j \in ClientIds : clients[j].fd = g
      BY <2>1 DEF ClientFds
    <3>2. clients'[j] = clients[j] /\ pollfd'[L + j] = pollfd[L + j]
      BY DEF Comes
    <3>3. Table[g] = Kind(clients[j], pollfd[L + j].events)
      BY <3>1, TableIs DEF Stable
    <3>4. Table'[g] = Kind(clients'[j], pollfd'[L + j].events)
      BY <1>2, <3>1, <3>2, TableNextIs DEF Stable
    <3> QED BY <3>2, <3>3, <3>4
  <2>2. CASE g \notin ClientFds
    BY <1>2, <1>6, <2>2, TableIs, TableNextIs DEF Stable
  <2> QED BY <2>1, <2>2
<1>7. Table' = [Table EXCEPT ![f] = "receiving"]
  BY <1>3, <1>5, <1>6, TableChanges
<1> QED BY <1>3, <1>4, <1>7, TableMoves

\* handleDisconnect closes one connection.
LEMMA LeavingCloses ==
  ASSUME Stable, NEW k \in ClientIds, Leaves(k)
  PROVE  Connections!Next \/ UNCHANGED Table
<1> DEFINE f == clients[k].fd
<1>1. f \in Fd /\ Table[f] = Kind(clients[k], pollfd[L + k].events)
  BY TableIs DEF Stable
<1>2. PICK n : n = Len(clients) /\ n \in Nat /\ ClientIds = 1 .. n
  BY Parts_ DEF Stable
<1>3. /\ ClientIds' = 1 .. n - 1 /\ ClientFds' = ClientFds \ {f}
      /\ \A j \in 1 .. n - 1 :
           clients'[j] = clients[Skip(k, j)] /\ pollfd'[L + j] = pollfd[L + Skip(k, j)]
  BY <1>2 DEF Leaves, Gone, ClientIds
<1>4. Table'[f] = "none"
  BY <1>1, <1>3, TableNextIs DEF Stable
<1>5. ASSUME NEW g \in Fd, g # f PROVE Table'[g] = Table[g]
  <2>1. CASE g \in ClientFds
    <3>1. PICK m \in ClientIds : clients[m].fd = g
      BY <2>1 DEF ClientFds
    <3>2. m # k
      BY <1>5, <3>1
    <3>3. PICK j \in 1 .. n - 1 : m = Skip(k, j)
      <4>1. \A x \in 1 .. n : x # k => \E j \in 1 .. n - 1 : x = Skip(k, j)
        BY <1>2, SkipProps
      <4> QED BY <1>2, <3>2, <4>1
    <3>4. clients'[j] = clients[m] /\ pollfd'[L + j] = pollfd[L + m]
      BY <1>3, <3>3
    <3>5. Table[g] = Kind(clients[m], pollfd[L + m].events)
      BY <3>1, TableIs DEF Stable
    <3>6. Table'[g] = Kind(clients'[j], pollfd'[L + j].events)
      BY <1>3, <3>1, <3>4, TableNextIs DEF Stable
    <3> QED BY <3>4, <3>5, <3>6
  <2>2. CASE g \notin ClientFds
    BY <1>3, <2>2, TableIs, TableNextIs DEF Stable
  <2> QED BY <2>1, <2>2
<1> HIDE DEF f
<1>6. Table' = [Table EXCEPT ![f] = "none"]
  BY <1>1, <1>4, <1>5, TableChanges
<1> QED BY <1>1, <1>6, KindIs, TableMoves

\* A script starts, fails to start, ends, or is reaped.
LEMMA ScriptMoves ==
  ASSUME Stable, RInv, NEW k \in ClientIds,
         \/ \E f \in FreeFds, p \in FreePids : Starts(k, f, p)
         \/ \E fds \in SUBSET FreeFds, pids \in SUBSET FreePids : Forgets(k, fds, pids)
         \/ \E result \in {"CCS_DONE", "CCS_FAILLED"} : EndsOutput(k, result)
         \/ Reaps(k)
  PROVE  Connections!Next \/ UNCHANGED Table
<1> DEFINE ev == pollfd[L + k].events
<1>0. /\ clients[k] \in Client /\ PipeFds \subseteq Fd
      /\ Settled(clients[k], ev, pollfd[L + k].revents)
  BY Parts_, FdsApart, RInvIs DEF Stable, DInv
<1> HIDE DEF ev
<1>1. ASSUME NEW f \in FreeFds, NEW p \in FreePids, Starts(k, f, p)
      PROVE  Connections!Next \/ UNCHANGED Table
  <2>1. PICK c : c = Running(clients[k], f, p)
    OBVIOUS
  <2>2. c.fd = clients[k].fd
    BY <1>0, <2>1 DEF Running, Client
  <2>3. Turned(k, c, {}) /\ ev = {"POLLOUT"} /\ ~clients[k].exec
    BY <1>1, <2>1 DEF Starts, ev
  <2>4. Moved(Kind(clients[k], ev), Kind(c, {}))
    BY <2>3 DEF Moved, Kind
  <2> QED BY <2>2, <2>3, <2>4, TurnMoves DEF ev
<1>2. ASSUME NEW fds \in SUBSET FreeFds, NEW pids \in SUBSET FreePids, Forgets(k, fds, pids)
      PROVE  Connections!Next \/ UNCHANGED Table
  <2>1. PICK f, p : Turned(k, Failed(clients[k], f, p), ev)
    BY <1>2 DEF Forgets, ev
  <2>2. PICK c : c = Failed(clients[k], f, p)
    OBVIOUS
  <2>3. c.fd = clients[k].fd /\ ~c.exec /\ ~clients[k].exec
    BY <1>0, <1>2, <2>2 DEF Failed, Client, Forgets
  <2>4. Turned(k, c, ev)
    BY <2>1, <2>2
  <2>5. Moved(Kind(clients[k], ev), Kind(c, ev))
    BY <2>3 DEF Moved, Kind
  <2> QED BY <2>3, <2>4, <2>5, TurnMoves DEF ev
<1>3. ASSUME NEW result \in {"CCS_DONE", "CCS_FAILLED"}, EndsOutput(k, result)
      PROVE  Connections!Next \/ UNCHANGED Table
  <2>1. PICK c : c = [clients[k] EXCEPT !.cgi = result, !.pipe = NoFd]
    OBVIOUS
  <2>2. c.fd = clients[k].fd /\ c.exec = clients[k].exec
    BY <1>0, <2>1 DEF Client
  <2>3. Turned(k, c, ToSend(ev)) /\ clients[k].pipe # NoFd
    BY <1>0, <1>3, <2>1, FdAssumption DEF EndsOutput, ev
  <2>4. ToSend(ev) = {"POLLOUT"}
    BY <1>0 DEF ToSend, Settled
  <2>5. Moved(Kind(clients[k], ev), Kind(c, {"POLLOUT"}))
    BY <1>0, <2>2, <2>3 DEF Moved, Kind, Settled
  <2> QED BY <2>2, <2>3, <2>4, <2>5, TurnMoves DEF ev
<1>4. ASSUME Reaps(k) PROVE Connections!Next \/ UNCHANGED Table
  <2>1. PICK n, left : Turned(k, [clients[k] EXCEPT !.out = n, !.pid = left], ev)
    BY <1>4 DEF Reaps, ev
  <2>2. PICK c : c = [clients[k] EXCEPT !.out = n, !.pid = left]
    OBVIOUS
  <2>3. c.fd = clients[k].fd /\ c.exec = clients[k].exec
    BY <1>0, <2>2 DEF Client
  <2>4. Turned(k, c, ev)
    BY <2>1, <2>2
  <2>5. Moved(Kind(clients[k], ev), Kind(c, ev))
    BY <2>3 DEF Moved, Kind
  <2> QED BY <2>3, <2>4, <2>5, TurnMoves DEF ev
<1> QED BY <1>1, <1>2, <1>3, <1>4

\* The initial states are ConnTable's, and every step is one of its steps.
LEMMA TableInit == Init => Connections!Init
<1> SUFFICES ASSUME Init PROVE Connections!Init
  OBVIOUS
<1>1. \A f \in Fd : Phase(f) = "none"
  BY Nobody DEF Phase
<1> QED BY <1>1 DEF Connections!Init

\* Every step is one of the abstract table, or a stutter.
LEMMA TableNext ==
  IInv /\ DInv /\ RInv /\ IInv' /\ DInv' /\ [Next]_vars => Connections!Next \/ UNCHANGED Table
<1> SUFFICES ASSUME IInv, DInv, RInv, IInv', DInv', [Next]_vars
             PROVE  Connections!Next \/ UNCHANGED Table
  OBVIOUS
<1>s. Steps
  BY StepKinds
<1>l. InLoop => Alive'
  BY DEF InLoop, Alive
<1>1. CASE Idles
  <2>1. Stable
    BY <1>1, <1>l DEF Idles, loop, Alive, Stable
  <2> QED BY <1>1, <2>1, IdleStutters
<1>2. ASSUME NEW k \in ClientIds, Serves(k) PROVE Connections!Next \/ UNCHANGED Table
  <2>1. Stable
    BY <1>2, <1>l DEF Serves, Stable
  <2>2. PICK c, ev : /\ Turned(k, c, ev) /\ c.fd = clients[k].fd
                     /\ Moved(Kind(clients[k], pollfd[L + k].events), Kind(c, ev))
    BY <1>2 DEF Serves
  <2> QED BY <2>1, <2>2, TurnMoves
<1>3. ASSUME NEW k \in ClientIds, Leaves(k) PROVE Connections!Next \/ UNCHANGED Table
  <2>1. Stable
    BY <1>3, <1>l DEF Leaves, Stable
  <2> QED BY <1>3, <2>1, LeavingCloses
<1>4. ASSUME NEW k \in ClientIds, Reaps(k) PROVE Connections!Next \/ UNCHANGED Table
  <2>1. Stable
    BY <1>4, <1>l DEF Reaps, Stable, Alive
  <2> QED BY <1>4, <2>1, ScriptMoves
<1>5. ASSUME NEW f \in FreeFds, NEW conn, Comes(f, conn)
      PROVE  Connections!Next \/ UNCHANGED Table
  <2>1. Stable
    BY <1>5, <1>l DEF Comes, Stable, Alive
  <2> QED BY <1>5, <2>1, ComingOpens
<1>6. ASSUME NEW k \in ClientIds, NEW f \in FreeFds, NEW p \in FreePids, Starts(k, f, p)
      PROVE  Connections!Next \/ UNCHANGED Table
  <2>1. Stable
    BY <1>6, <1>l DEF Starts, Stable
  <2> QED BY <1>6, <2>1, ScriptMoves
<1>7. ASSUME NEW k \in ClientIds, NEW fds \in SUBSET FreeFds, NEW pids \in SUBSET FreePids,
             Forgets(k, fds, pids)
      PROVE  Connections!Next \/ UNCHANGED Table
  <2>1. Stable
    BY <1>7 DEF Forgets, Stable, Alive
  <2> QED BY <1>7, <2>1, ScriptMoves
<1>8. ASSUME NEW k \in ClientIds, NEW result \in {"CCS_DONE", "CCS_FAILLED"},
             EndsOutput(k, result)
      PROVE  Connections!Next \/ UNCHANGED Table
  <2>1. Stable
    BY <1>8 DEF EndsOutput, Stable, Alive
  <2> QED BY <1>8, <2>1, ScriptMoves
<1>9. CASE Shutdown \/ AcceptFails
  <2>1. ClientIds' = {}
    BY <1>9, NobodyLeft DEF Shutdown, AcceptFails
  <2>2. \A f \in Fd : Phase(f)' = "none"
    BY <2>1 DEF Phase
  <2> QED BY <2>2 DEF Connections!Next, Connections!Down
<1>10. CASE UNCHANGED vars
  <2>1. UNCHANGED <<pollfd, clients>>
    BY <1>10 DEF vars
  <2> QED BY <2>1 DEF Table, Phase, ClientIds, Events, Slot
<1> QED BY <1>s, <1>1, <1>2, <1>3, <1>4, <1>5, <1>6, <1>7, <1>8, <1>9, <1>10 DEF Steps

\* Every behaviour of the loop is one of ConnTable: whatever happens to the other
\* connections, a request starts at most one script, its answer comes after the
\* script's end, and no connection is answered without a request.
THEOREM LoopRefinesConnTable == Spec => ConnectionsSpec
<1>1. Init => Connections!Init
  BY TableInit
<1>2. IInv /\ DInv /\ RInv /\ IInv' /\ DInv' /\ [Next]_vars
        => [Connections!Next]_([f \in Fd |-> Phase(f)])
  BY TableNext DEF Table
<1> QED BY <1>1, <1>2, AccountsHold, PTL DEF Spec, ConnectionsSpec, Connections!Spec
=============================================================================
