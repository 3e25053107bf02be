------------------------------ MODULE ListenTable ------------------------------
(* From the configuration to the polled sockets, as main() and SocketManager   *)
(* go: the table of all listen entries, which of them share a socket, socket() *)
(* and bind() for the others, listen(), and the first entries of pollfd. Then  *)
(* which server block answers a request on a socket.                           *)
EXTENDS Config

CONSTANT HostAddresses  \* the addresses of the machine, where clients come in

VARIABLES
  stage,    \* "config", "init" (initSockets), "listen" (listenToPorts), "running", "stopped"
  table,    \* _tableOfListen: [ip, port, name, block, bound, fd]
  counter,  \* the index of the loop over the table
  sockets,  \* per descriptor: [ip, port, state]; state "bound", "listening" or "closed"
  polled    \* the listening sockets of pollfd

listenVars == <<stage, table, counter, sockets, polled>>

NoFd == 0
LocalHost == <<"localhost">>
Loopback == <<"1", "2", "7", ".", "0", ".", "0", ".", "1">>
Local == {LocalHost, Loopback}
ASSUME HostAssumption == HostAddresses \cap {AnyAddress, LocalHost} = {}

\* Mutant: addresses are compared as they are written.
SameText(a, b) == a.port = b.port /\ a.ip = b.ip
\* TableOfListen::operator==
Same(a, b) ==
  /\ a.port = b.port
  /\ \/ a.ip = b.ip
     \/ {a.ip, b.ip} \subseteq Local
     \/ AnyAddress \in {a.ip, b.ip} /\ {a.ip, b.ip} \cap Local # {}

PairLess(a, b) == Less(a[1], b[1]) \/ (a[1] = b[1] /\ Less(a[2], b[2]))
Entry(b, pair) ==
  [ip |-> pair[1], port |-> pair[2], name |-> servers[b].name, block |-> b,
   bound |-> FALSE, fd |-> NoFd]
\* The pairs of a std::set, each at the place of its rank.
InOrder(pairs) ==
  [i \in 1..Cardinality(pairs) |->
    CHOOSE p \in pairs : Cardinality({q \in pairs : PairLess(q, p)}) = i - 1]
\* setTableOfListen: by server block, and in the order of the set within one.
TableOfServers ==
  FlattenSeq([b \in DOMAIN servers |->
    LET pairs == InOrder(servers[b].listen) IN [i \in DOMAIN pairs |-> Entry(b, pairs[i])]])

\* hanldVirtualHost: an entry equal to an earlier one that has its own socket
\* is marked alreadyBinded.
WithVirtualHosts(t) ==
  LET bound[k \in DOMAIN t] == \E i \in 1..(k - 1) : ~bound[i] /\ Same(t[i], t[k])
  IN [k \in DOMAIN t |-> [t[k] EXCEPT !.bound = bound[k]]]

(***************************************************************************)
(* The kernel: an address is bound once, and a connection goes to the      *)
(* socket of its own address before that of every address.  Addresses and  *)
(* ports are compared as they are written; what is written with zeros in   *)
(* front is an address the kernel knows by another text.                   *)
(***************************************************************************)
Address(ip) == IF ip = LocalHost THEN Loopback ELSE ip
Taken(e) ==
  \E fd \in DOMAIN sockets : /\ sockets[fd].state # "closed" /\ sockets[fd].port = e.port
                             /\ Address(sockets[fd].ip) = Address(e.ip)
Covers(ip, a) == Address(ip) = a \/ ip = AnyAddress
Listening(fd, a, p) ==
  sockets[fd].state = "listening" /\ sockets[fd].port = p /\ Covers(sockets[fd].ip, a)
Reached(a, p) ==
  LET open == {fd \in DOMAIN sockets : Listening(fd, a, p)}
      own == {fd \in open : Address(sockets[fd].ip) = a}
  IN IF own # {} THEN own ELSE open

(***************************************************************************)
(* main()                                                                  *)
(***************************************************************************)
ListenInit ==
  stage = "config" /\ table = <<>> /\ counter = 1 /\ sockets = <<>> /\ polled = <<>>

MakeTable ==
  /\ stage = "config" /\ result = "done"
  /\ table' = WithVirtualHosts(TableOfServers)
  /\ stage' = "init" /\ counter' = 1
  /\ UNCHANGED <<sockets, polled>>

AtEntry(s) == stage = s /\ counter \in DOMAIN table
Skip ==
  /\ \E s \in {"init", "listen"} : AtEntry(s) /\ table[counter].bound
  /\ counter' = counter + 1 /\ UNCHANGED <<stage, table, sockets, polled>>

\* One round of initSockets: the new socket is also that of every equal entry.
NewFd == Len(sockets) + 1
\* Mutant: the other entries get no descriptor.
SharesFdAlone(k) == k = counter
SharesFd(k) == k = counter \/ (table[k].bound /\ Same(table[k], table[counter]))
BindSocket ==
  /\ AtEntry("init") /\ ~table[counter].bound /\ ~Taken(table[counter])
  /\ table' = [k \in DOMAIN table |->
                IF SharesFd(k) THEN [table[k] EXCEPT !.fd = NewFd] ELSE table[k]]
  /\ sockets' = Append(sockets, [ip |-> table[counter].ip, port |-> table[counter].port,
                                 state |-> "bound"])
  /\ counter' = counter + 1
  /\ UNCHANGED <<stage, polled>>
\* getaddrinfo(), socket() or bind() fails and main() returns.
SetupFails ==
  /\ AtEntry("init") /\ ~table[counter].bound
  /\ stage' = "stopped" /\ sockets' = [fd \in DOMAIN sockets |-> [sockets[fd] EXCEPT !.state = "closed"]]
  /\ UNCHANGED <<table, counter, polled>>

ListenSocket ==
  /\ AtEntry("listen") /\ ~table[counter].bound
  /\ sockets[table[counter].fd].state = "bound"
  /\ sockets' = [sockets EXCEPT ![table[counter].fd].state = "listening"]
  /\ counter' = counter + 1 /\ UNCHANGED <<stage, table, polled>>
\* listen() fails: closeListenSockets(), and an exception that is made but not
\* thrown, so the loop goes on.
ListenFails ==
  /\ AtEntry("listen") /\ ~table[counter].bound
  /\ sockets' = [fd \in DOMAIN sockets |-> [sockets[fd] EXCEPT !.state = "closed"]]
  /\ counter' = counter + 1 /\ UNCHANGED <<stage, table, polled>>

\* setListenEvent: one pollfd for each entry with a socket of its own.
OwnFds == FlattenSeq([k \in DOMAIN table |-> IF table[k].bound THEN <<>> ELSE <<table[k].fd>>])
EndOfTable ==
  /\ counter = Len(table) + 1
  /\ \/ stage = "init" /\ stage' = "listen" /\ counter' = 1 /\ UNCHANGED polled
     \/ stage = "listen" /\ stage' = "running" /\ polled' = OwnFds /\ UNCHANGED counter
  /\ UNCHANGED <<table, sockets>>

ListenNext ==
  MakeTable \/ Skip \/ BindSocket \/ SetupFails \/ ListenSocket \/ ListenFails \/ EndOfTable

\* "prevent duplicate binding": no socket is bound to an address and port that
\* another of the server has, so that the second bind() would fail, if none is
\* written with zeros in front: such an address or port is another text, and
\* hanldVirtualHost compares texts.
\* (hanldVirtualHost, whose marks decide for which entries initSockets binds.)
Digit(w, i) == i \in DOMAIN w /\ w[i] \in DOMAIN DigitValue
Plain(w) == \A i \in DOMAIN w : w[i] = "0" /\ Digit(w, i + 1) => Digit(w, i - 1)
AllPlain == \A k \in DOMAIN table : Plain(table[k].ip) /\ Plain(table[k].port)
BoundOnce ==
  AllPlain /\ AtEntry("init") /\ ~table[counter].bound => ~Taken(table[counter])

(***************************************************************************)
(* The block that answers                                                  *)
(***************************************************************************)
\* detectServerBlock: the entries of the socket a client came in by, as they stand
\* in the table.
detectServerBlock(fd) == {k \in DOMAIN table : table[k].fd = fd}
\* getSrvBlock: the first whose name and port are the Host header, or the first.
getSrvBlock(hints, host) ==
  LET named == {k \in hints : table[k].name \o <<":">> \o table[k].port = host}
  IN table[Min(IF named # {} THEN named ELSE hints)].block
================================================================================
