--------------------------------- MODULE Site ---------------------------------
(* main() as a whole: the configuration is read (Config), its addresses are    *)
(* bound and listened on (ListenTable), and browsers are served (Sessions) by  *)
(* the block and from the files their requests mean (Locations).               *)
EXTENDS ListenTable, Sessions, Locations

siteVars == <<configVars, listenVars, sessionVars>>

Running == stage = "running"
AllListen == \A fd \in DOMAIN sockets : sockets[fd].state = "listening"

SiteInit == ConfigInit /\ ListenInit /\ SessionsInit
SiteNext ==
  \/ ConfigNext /\ UNCHANGED <<listenVars, sessionVars>>
  \/ ListenNext /\ UNCHANGED <<configVars, sessionVars>>
  \/ /\ Running /\ polled # <<>> /\ AllListen
     /\ SessionsNext /\ UNCHANGED <<configVars, listenVars>>
Spec == SiteInit /\ [][SiteNext]_siteVars

(***************************************************************************)
(* Properties of the listening sockets                                     *)
(***************************************************************************)
\* An entry for every address is not reached at one that has a socket of its
\* own, nor where an entry of the loopback came first and took the port
\* (SocketManager.hpp, operator==).
Narrowed(k, a) ==
  /\ table[k].ip = AnyAddress /\ a # Loopback
  /\ \/ \E j \in DOMAIN table : table[j].port = table[k].port /\ table[j].ip = a
     \/ \E j \in 1..(k - 1) : table[j].port = table[k].port /\ table[j].ip \in Local

\* Once the server runs, and unless a listen() failed, every listen directive of
\* every block has an entry, and every entry can be reached at each address it
\* covers, a request whose Host is the block's name and port is answered by the
\* first block of that name there, and its socket is polled. As in BoundOnce, no
\* address is written with zeros in front. (setTableOfListen, hanldVirtualHost,
\* initSockets, setListenEvent, detectServerBlock, getSrvBlock.)
Listed ==
  \A b \in DOMAIN servers : \A pair \in servers[b].listen : \E k \in DOMAIN table :
    table[k].block = b /\ <<table[k].ip, table[k].port>> = pair
Served(k, a) ==
  \E fd \in Reached(a, table[k].port) :
    LET hints == detectServerBlock(fd)
        answers == getSrvBlock(hints, table[k].name \o <<":">> \o table[k].port)
    IN /\ fd \in ToSet(polled) /\ k \in hints
       /\ servers[answers].name = table[k].name /\ answers <= table[k].block
EntriesServed ==
  Running /\ AllListen /\ AllPlain =>
    /\ Listed
    /\ \A k \in DOMAIN table : \A a \in HostAddresses :
         Covers(table[k].ip, a) /\ ~Narrowed(k, a) => Served(k, a)
================================================================================
