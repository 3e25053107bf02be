# webserv: specification, checks and proofs

webserv is a single-process HTTP/1.1 server in C++98: one thread, one `poll()`
loop, non-blocking sockets, and CGI scripts run as child processes whose output
pipes are polled with the sockets. This directory holds a TLA+ model of it, the
TLC runs that check the model on small instances, and TLAPS proofs of what was
worth proving for every instance. All paths below are relative to
`src/webserv/sources/` unless they say otherwise.

## The system

| Component | State | Operations | Meets the others through |
|---|---|---|---|
| Event loop (`server/SocketManager.cpp`, `server/server.cpp`, `server/Client.cpp`) | `pollfd` vector, `vector<Client>`, `g_run` | poll, time out, handle hang-ups, accept, disconnect, read, send, shut down | calls everything below; one client record per connection |
| CGI (`cgi/CGI.cpp`) | `CGIProc`, `CGIOutput`, `_cltCgiState`, `_alreadyExec` of the client | launch, read output, build the answer, kill | its pipe stands at the tail of `pollfd`; the client's slot is silenced while it runs |
| Request reading (`request/request.cpp`, `req_errors.cpp`) | `_state`, `_leftover`, `_expectedBodyLength`, `_isChunked`, `Request` of the client | `requestHandler` per `recv()`, `handlerReturn` | feeds the body parsers, calls the handlers, prepares the `Response` |
| Upload files | `_uploadFd`, `_uploadPath`, `_uploadedBytes`, the parsers' files | open, write, close, remove | opened by the reader, removed by `postHandler`, closed on disconnect |
| Chunked parser (`request/ChunkedParser.cpp`) | `_state`, `_buffer`, three counters, `_error` | `feed` | writes to the upload descriptor |
| Multipart parser (`request/multipartParser.cpp`) | `_state`, `_buffer`, `_curFd`, `_uploadedFiles`, `_error` | `feed`, `cleanupAllFiles` | opens one file per part |
| Method handlers (`response/*Handler.cpp`, `response/utils.cpp`) | none of their own | GET, POST, DELETE, error pages | write the client's `Response` |
| Response sending (`response/response.cpp`) | `Response`, `SendINfo` of the client | `sendResponse` per POLLOUT | the event loop sends what it puts in the buffer |
| Listening table (`SocketManager.cpp` 17-118, `SocketUtils.cpp`) | `_tableOfListen` | built once at start | the first slots of `pollfd`; the server blocks a client may mean |
| Location lookup (`response/location.cpp`, `request/utils.cpp`) | `_path`, `_location` of the request | `initPath`, `getLocation`, `getSource` | called by the reader and the handlers |
| Sessions (`server/CookiesSessionManager.cpp`) | table of session ids | new session, count a login | called from `sendResponse`; writes a header of the `Response` |
| Configuration (`parser/`) | token list, `_index`, `Data` | parsed once at start | read by all others |

What is hard in it:

* indices: one vector holds three kinds of descriptors, the loop computes places
  in it by arithmetic, and the body of the loop erases and inserts entries;
* ownership: sockets, pipes, children and upload files are released by hand on
  many paths;
* objects that outlive a request: the `Client`, its `Response` and its parsers
  stay for the whole keep-alive connection, and only part of them is reset;
* cuts: `recv()`, `send()` and `write()` may stop anywhere;
* time: timeouts race with the ends of scripts; `waitpid()` blocks the thread;
* copies: `vector<Client>` copies and destroys clients whose parsers own files;
* text: one index runs over the tokens of the configuration, and paths are found
  by replacing letters;
* the uninitialised members of `Client` and `CGIProc`.

What makes each component correct: the layout of `pollfd` and the ownership of
every descriptor and child (event loop, CGI); independence from how the body is
cut, and the size limit (parsers); an accepted upload stored whole, a refused
one removed, no file with bytes of two requests (uploads); headers and body
that belong together and bytes in order (sending); no request answered twice or
never (reader); a configuration read as it is written or refused, every
`listen` entry served, the file of the deepest location, a session that stays
with its browser (start, lookup, sessions). `PROJECT.json` lists the hazards, each at its line.

## The modules

| Module | What it models |
|---|---|
| `EventLoop` | `runCoreLoop` and all it calls on `pollfd`, clients, descriptors and children |
| `ConnTable` | the abstract connection table: what the loop promises of each connection |
| `MCEventLoop` | instances of `EventLoop` for TLC |
| `SequenceLemmas` | what `InsertAt`, `RemoveAt` and `Append` do to a sequence's type, length and items |
| `EventLoopProofs` | the layout of the vectors and the indices of the loop; every action as one of a few kinds of steps; ownership of descriptors, pipes and children; the refinement of `ConnTable` |
| `ChunkedParser`, `MCChunkedParser` | the chunked decoder; bodies, and the meaning of one read in one piece |
| `MultipartParser`, `MCMultipartParser` | the multipart decoder; bodies, and the meaning of one read in one piece |
| `Handlers` | the method handlers as functions from the response left behind to the next one; `parseRangeHeader` |
| `HandlerProofs` | what the handlers leave of a response; `parseRangeHeader` |
| `ResponseSender`, `MCResponseSender` | several answers on one connection, block by block; requests for it |
| `RequestReader`, `MCRequestReader` | several requests on one connection, read by read; requests for it |
| `Config` | the lexer, and the configuration parser with one action per block and directive |
| `ListenTable` | on top of it, the table of addresses, the shared sockets, bind and listen, the block that answers |
| `Locations` | the functions from the path of a request to its file |
| `Sessions` | the table of `/login`, the header a connection keeps, browsers and restarts |
| `Site`, `MCSite` | the four together, as `main()` goes; configuration files, and what they mean |
| `UploadFds` | the vector of clients, its copies, and the descriptors of uploads |
| `ChunkedParserProofs`, `MultipartParserProofs`, `ResponseSenderProofs`, `RequestReaderProofs`, `SiteProofs` | the invariants of these modules and what follows from them |

`EventLoop` is the whole server seen from `poll()`: what a request or an answer
contains is a nondeterministic choice there. `RequestReader` and
`ResponseSender` look into one connection: they share `Handlers`, and each uses
of the other only what the other checks (`RequestReader` takes from
`ResponseSender` that answers end and that an answer of headers alone closes the
connection, `BareHeadersClose`; the parsers are reduced there to the verdict of
`feed()`, whose details are `ChunkedParser` and `MultipartParser`).

### EventLoop

The variables are the program's: `pollfd`, `clients` (the fields of `Client`
that the loop reads), `gRun`; `pc` and `i` stand for the place in the loop body
and its loop index, `cur` for the client whose child is waited for; `desc`,
`writer`, `proc` are the kernel's descriptor table, pipe ends and processes;
`lost` collects what a failed launch forgot. One action is one handler call,
with every call it makes: `CloseTimedOut`, for instance, is the whole of
`handleDisconnect` for one expired client, with the kill, the wait, the closes
and both erasures. The code counts from 0, the model from 1.

* Uninitialised memory is a choice: `GarbageFd`, `GarbagePid` and `GarbageConn`
  say what may be found in `CGIProc` after a failed launch and in
  `connectionState` after the constructor.
* `poll()` interrupted by a signal leaves `revents` as they were (as on macOS,
  which the code's `SO_NOSIGPIPE` builds for) or clears them: `StaleRevents`.
* POLLHUP, POLLERR and POLLNVAL are one event; the code always tests them
  together, and a pipe raises only POLLHUP.
* Ages of clients are counted up to the limit they are compared with.
* `accept()` failing for any reason ends the process (`AcceptFails`).
* The environment moves only while the server is in `poll()` or `waitpid()`:
  the loop observes it nowhere else.

### The parsers

One action is one round of the loop in `feed()`. A byte is a character of a
small alphabet. In `ChunkedParser` the size is read by the rules of
`operator>>`: blanks skipped, a minus sign negates modulo `Modulus` (2^w),
overflow and a missing digit fail; the `0x` prefix is left out. File names and
the headers of a part are left out of `MultipartParser`.

### Handlers, ResponseSender, RequestReader

A target is what a path leads to and what its location says. `Handlers` gives
the next response as a function of the last one, because the `Response` object
is one per connection and only a finished CGI request replaces it: a status, a
body, a stream or the audio/video flag of an earlier answer is still there.
What follows from that is in the model as the code does it, and the properties
say what is left:

* a status left behind makes the next upload on the connection be removed and
  answered as refused (`response/postHandler.cpp:9`);
* a body in memory is generated and sent a second time (`response/response.cpp`
  307-311), and what the socket does not take of the last block is dropped
  (`server/SocketManager.cpp:339`);
* nothing stops a range at its end while it is streamed;
* a request refused by `requestErrors` is handled all the same, so a DELETE
  with bad framing deletes;
* a redirection with a code `setStatus` does not know (302) is answered with
  the status the object had, 0 at first; `/` with index names of which no file
  exists is answered with headers alone and status 0;
* a request answered before its body arrived leaves bytes that are read as the
  next request; bytes of a pipelined request are cleared with the leftover;
* an upload refused by `validateRequest` keeps its file and descriptor.

In `RequestReader` bytes are items (two halves of a head, numbered bytes of a
body), files are named by the request that opened them, and `history` records
what happened that a property has to except: `early` (answered before the body
arrived), `pipelined`, `spoiled` (an upload that never reached `postHandler`),
`not removed` and `disk failed`.

### Config, ListenTable, Locations, Sessions, Site

A configuration file is a sequence of words, blanks and marks; a word is a
sequence of letters, except that the name of a directive is one letter, since
the parser only compares it. `Config` keeps the parser's variables (`tokens`,
`index`, the `ServerEntry` and `Location` being read) and has one action for
each turn of its loops: a block opened, a directive with all its arguments and
its semicolon, a block closed. `Refuse` is every throw; `ReadBeyond` is
`current()` behind the last token, which only a list of paths can reach.
`Atoi` keeps the low bits, as the C libraries do where the standard leaves it
undefined.

`ListenTable` goes on with the servers that were read: the table in the order
of the set, `alreadyBinded` as `hanldVirtualHost` marks it, one action per round
of `initSockets` and `listenToPorts`, each of which may fail. That an address is
bound once and that a connection goes to the most specific socket is the
kernel's part; `HostAddresses` are the addresses of the machine clients come in
at. Three things follow from the code as it is: `0.0.0.0` that comes
after `localhost` on a port is bound as localhost only, a failed `listen()`
makes an exception without throwing it (`server/SocketUtils.cpp:37`), so that the
server goes on with closed sockets, and addresses and ports are compared as they
are written (`TableOfListen::operator==`): `8080` and `08080` are two entries for
`hanldVirtualHost` and one address for the kernel, so that the second `bind()`
fails. `BoundOnce` and `EntriesServed` therefore speak of files in which none is
written with zeros in front (`AllPlain`).

`Locations` works on letters, so that prefixes in the middle of a name, slashes
at the ends, dots and escapes mean what they mean in the code. `getSource`
replaces every occurrence of the location (`request/utils.cpp:51`), and a path
is normalised before it is decoded (`request/request.cpp:104-107`).

In `Sessions` an id is the second it was made in: `srand(time(NULL))` makes it a
function of that, and the ids of different seconds are taken to differ. A
restart takes at least a second. The `Set-Cookie` header stays in the `Response`
of a connection until a script has answered on it.

### UploadFds

`clients` is the vector with its capacity, `table` the kernel's descriptor table
with the lowest free number handed out. `push_back` without room and `erase`
close what the destroyed parsers hold (`request/ChunkedParser.cpp:7`,
`request/multipartParser.cpp:6`); the copies keep the number. A client whose
socket number went to another connection is not followed further, so that every
behaviour of the module is one of the program, though not the reverse.

## The runs

| Run | Checks | Shows |
|---|---|---|
| `EventLoop` | `TypeOK`, `Layout`, `ScriptPolled`, `NoForgottenClient`, `ChildAccounted`, `DescriptorsAccounted`, `CleanStop` | with failing launches, timeouts, hang-ups and SIGINT in any order, slots, descriptors and children stay accounted for |
| `EventLoopTwoScripts` | `PipesOwned`, `ConnectionsSpec` | the same with two pipes at once; the loop implements `ConnTable` |
| `EventLoopLive` | `ScriptEnds`, `SigintStops` | scripts end, SIGINT stops the server |
| `EventLoopHup` | `ErrorsHandled` (violated) | `handlErrCloses` skips the last clients |
| `EventLoopGarbage` | `ScriptPolled` (violated) | an uninitialised pipe number takes another client's pipe away |
| `ChunkedParser` | `Counted`, `DiskBound`, `AsOneRead`, `Final`, `Answered` | the verdict and the file do not depend on the cuts, the limit holds even when a size wraps around |
| `MultipartParser` | `OneFileOpen`, `HoldsBack`, `Stored`, `AsOneRead`, `Answered` | an accepted upload is stored part by part; the cuts matter only where `badCut` says |
| `MultipartParserCut` | `SeenFinished` (violated) | a read that ends at a boundary makes a good upload an error |
| `ResponseSender` | `InOrder`, `BoundedLoss`, `FirstFits`, `WholePage`, `BareHeadersClose`, `AnswerEnds` | what a client receives of each of two answers |
| `RequestReader` | `StoredWhole`, `RefusedGone`, `NotMixed`, `UploadClosed`, `InStep`, `ScriptInput`, `EachAnswered` | files, descriptors and answers over three requests of a connection |
| `Site` | `AsWritten`, `DamageSeen`, `EntriesServed`, `BoundOnce`, `RightFile`, `KeepsSession` | a good file is read as what it means, a bad or damaged one is refused; every entry is served, every path leads to its file, a browser keeps its session |
| `UploadFds` | `BodyStored` (violated) | a client that arrives closes the upload of another, and the body lands in the file of another client |

Every property of a passing run has a mutant, an operator beside the one it
replaces, that breaks the property: the run would notice that bug.

### Bounds, and why they are enough

* `EventLoop`: one listening socket, two clients, three descriptors, one child
  at a time, one step of time, one block of script output, two forgotten
  descriptors. Two clients give every relation of indices the code has (the
  client itself, one before, one after), three descriptors a socket for each and
  one pipe, or their reuse after a close; two forgotten ones are what one failed
  launch leaves. `Handout` lets the kernel choose any free descriptor;
  descriptors and pids are symmetric.
* `EventLoopTwoScripts`: four descriptors and two children, so that two pipes
  stand in the tail and erasing one moves the other; no failed launches.
* `EventLoopLive`: one client, and two steps of time before a request times out,
  so that the wait for a request and the wait for a script differ.
  No symmetry is declared, since the properties are temporal; one representative
  of the free descriptors is handed out.
* `ChunkedParser`: base 2, `Modulus` 8, limit 3, reads of one to four bytes, all
  well-formed bodies of up to two non-empty chunks and every one-byte damage of
  them, bytes behind the last chunk, sizes that overflow and that wrap.
* `MultipartParser`: a boundary of three bytes, reads of one to six, one and two
  parts with every payload of up to three bytes over CR, LF, `-` and a letter,
  damaged bodies, a preamble, bytes behind the last boundary, a declared length
  that is right or one short.
* `ResponseSender`: blocks of four, files of 0 to 7 bytes (empty, within a block,
  a block and more), all ranges at the edges of a file of five; two requests, so
  that each kind of answer is followed by each other.
* `RequestReader`: bodies of one to four bytes with a limit of three, reads of
  two, three requests: the third is what meets the leftovers of an upload
  refused before it.

* `Site`: four configurations that use every directive and nest locations, and
  the empty one, each plain and with comments that hold marks; 29 with one value
  out of bounds, each kind in the block where it is read; every file that lacks
  one token of the two richest. Addresses: all, the loopback under both names and
  one more, on up to three entries of a port. 25 paths. Two browsers with one
  connection each, three requests, three seconds: enough for two logins in one
  second, a restart, and an answer that is late. `IntModulus` is small, but
  larger than every limit it is compared with.
* `UploadFds`: three connections, two bytes each, six numbers; the violation
  needs two of them.

`CHECK_DEADLOCK FALSE` stands in the runs whose systems stop: a parser has no
more bytes, a connection is closed, `main()` has returned.  `EventLoop` has an explicit `Terminated`.

### Fairness

* `EventLoop`: the loop is a running thread (weak fairness of its steps);
  `poll()` returns when a deadline has passed or a descriptor hung up; time
  passes (strong fairness of `Tick`, as the model lets it pass only while the
  server blocks); a child that is waited for exits. The last one is not the
  code's: `waitpid()` has no deadline, and a script that closes its output and
  runs on stops the server. `SigintStops` leaves out a signal that arrives with
  no client between the test of `g_run` and `poll()`.
* The parsers: what the client sent is read, and a round that can be taken is.
* `ResponseSender`: a socket that is reported writable takes at least a byte, and
  is reported again until the answer is over. Nothing is assumed of a client
  that is gone.
* `RequestReader`: bytes that were sent are read, and answers end, which
  `ResponseSender` checks. Nothing makes a client send.
* `Site`, `UploadFds`: none; their properties are about safety.

## What is proved

Every theorem holds for every value of the constants its module's assumptions
allow: any number of clients, descriptors, children, bodies, requests, any size
of a buffer. Each component has an inductive invariant that TLC checked on the
component's run before it was proved; why each part of it is needed is said
where it is defined, in the component's own module (for `Site` in `SiteProofs`).

### EventLoop

* The first part: `IInv == TypeOK /\ Layout /\ IndexOK`. `Layout` alone is not
  inductive: the step that follows an answer uses `i`, and the one that follows
  the end of a script uses `cur`, and both must still be clients; that is
  `IndexOK`. The proof has one lemma per group of actions; most come down to
  `handleDisconnect`: erasing a client and, perhaps, a pipe keeps the vector
  aligned because the pipe stands behind every client. Theorems `IInvHolds`,
  `TypeCorrect`, `LayoutKept`.
* The second part, `StepKinds`: from `IInv`, each of the actions is one of a few kinds of
  steps, said in terms of sets and not of indices: nothing happens (`Idles`), a
  client's entry turns (`Serves`), a client comes or leaves (`Comes`, `Leaves`),
  a script starts, a launch fails and forgets what it opened, a script's output
  ends, its child is reaped (`Starts`, `Forgets`, `EndsOutput`, `Reaps`), the
  process ends. The invariants below are each proved against the kinds once.
* Three more invariants from there:
  * `DInv`: polled entries are distinct, open descriptors are those of clients,
    of pipes and the forgotten ones, and none is both polled and forgotten.
    Without the last part closing a client would lose a descriptor from one side
    of the equation only. It gives `DescriptorsKept`.
  * `RInv`: what a client's state says of what its entry waits for (`Settled`).
    It gives `NobodyForgotten`, and the refinement `LoopRefinesConnTable`: every
    step opens, serves, ends or closes connections as `ConnTable` lets it. From
    the same invariant: no entry is ever ready in both directions, so that the
    step `respond` after a read in one round is never taken.
  * `SInv`: which client owns which pipe and which child. A child between the end
    of its output and `waitpid()` has no pipe any more; `Busy` counts it in. It
    gives `ScriptsPolled`, `PipesHaveOwners`, `ChildrenAccounted` and, with the
    fact that an ended process polls nothing (`EInv`), `StopsClean`.

`DescriptorsKept`, `NobodyForgotten` and the refinement hold whatever the
uninitialised members contain. The four theorems from `SInv` need
`HarmlessGarbage`: no uninitialised `_readPipe` is the number of a descriptor the
server may open. A run shows the condition is needed (`EventLoopGarbage`); an
uninitialised `_childPid` needs none, since while the server runs a child is killed
only through a client whose pipe is polled. The assumptions on the constants are those of `EventLoop`:
listening sockets are distinct and no handed-out descriptors, `NoFd` and `NoPid`
are no values of theirs, pids and descriptors differ (`lost` holds both).

### ChunkedParser, MultipartParser

* `ChunkedParserProofs`: for every body, every cut into reads, every limit and
  every width of `size_t`, `ChunksCounted` (the counters are those of the file,
  the rest of a chunk never wraps below zero), `DiskBounded` and `AnswerIsFinal`.
  `DiskBound` says a refused body wrote at most one read more than the limit.
  That is no consequence of the counters: it needs `Buffered`, that between two
  calls no complete line and no byte of a chunk waits, so that what one call
  writes after the size was read came with its own read. A wrapped announcement
  passes the test of the size; the test of the total after each write stops it.
  `Concluded` ties `verdict` to `error` and `state`.
* `MultipartParserProofs`: for every boundary, body and cut, `OneDescriptor` and
  `MemoryBounded`; `Opened` says in which state a part has a descriptor.

### Handlers, ResponseSender

* `HandlerProofs`: `RangeInFile`: for every header and every size a range that
  `parseRangeHeader` accepts lies in the file, and is not empty unless the file
  is. The numbers are mathematical integers; `strtoll` saturates, which keeps
  them in range. The lemmas say what each handler leaves of a response: the file
  it had, a file opened anew, or a page of its status.
* `ResponseSenderProofs`: for every sequence of requests, every file size and
  block, `BytesInOrder`, `LessThanABlockLost`, `PageOfItsStatus`, `PageWhole` and
  `BareHeadersEnd`. The invariant says that what the client has and what is in
  the buffer are together the headers and the bytes of the window up to the
  offset of the next read (`Writes`), and that a response that kept `_stream` from
  an earlier answer has read that file to its end (`Idles`): otherwise bytes of
  one answer would come under the headers of the next. The proof splits
  `sendResponse()` into its six outcomes: headers alone, a page, the same page
  again, a block, the last block, an error. `ChunkAssumption` lets a block be any
  number larger than 2, which is what the headers of the model measure;
  `RequestAssumption` lists the statuses `requestLineErrors` and `requestHandler`
  can give.

### RequestReader

`RequestReaderProofs`: for every set of requests, every limit, every cut into
reads and every number of requests on the connection, `HandledInStep` and
`ScriptGetsInput`, and, if `KnownRedirects`, `UploadsClosed`, `RefusedAreGone`,
`NeverMixed` and `StoresWhole`. The requests are any `RequestForm` allows: all methods, targets,
framings, lengths and bodies, the lengths that are wrong included. One thing
`RequestAssumption` excludes: a multipart body of no bytes at all, which in the
model would be complete and in the code is not, for want of its last boundary.

None of the properties is inductive: each is about the answer given last or the
files there are, and what makes it true is in what the client object carries from
one `recv()` to the next. `IInv`, at the end of `RequestReader`, has one part for
each thing that has to be remembered:

* `Numbers`: heads come in the order they were sent, a file is only made for the
  request that is read, and while a body is read no answer was given to it;
* `Bodies`: which way a body is read, and that the parser it is read with was begun
  for this request: a parser that is still active from an earlier one would take
  the bytes;
* `Uploading`: whose file the client holds open, and that between two requests it
  holds none unless the connection is about to close;
* `Clean`: a response without a status has nothing to send. That is what `KnownRedirects`
  is needed for, and why a 201, which has neither body nor file, ends the connection;
* `Aligned`: what was received and not used, followed by what was not received
  (`Wire`), is the last message or the end of it, perhaps behind the end of a body
  that was refused half read;
* `InSequence`: the stored bytes followed by those of `Wire` are the body, in order,
  and there are as many of them;
* `Counting`: until the first upload no parser was begun and nothing counted, and
  while it is read the count its end is recognised by (`_uploadedBytes` or what the
  parser was fed) is that of the bytes on disk;
* `Ended`: an answered upload that was stored ends the connection, its file whole.

With these `StoresWhole` is a matter of the read that completes the body: the count
is the length the body ends at, the file has as many bytes (`Counting`), and they
are the body's in order (`InSequence`). `StoredWhole` speaks of the first upload
of a connection because `Counting` does: `_uploadedBytes` and the parsers outlive
their request. `StoresWhole` also asks that no redirection has the code 201, which
the parser guarantees: a code has to begin with 3 (`parser/Config.cpp:455`).

The proof follows the code: a predicate for what `handlerReturn()` is called with
(`Settles`), one for what it leaves (`Done`), one for a body to read (`Body`) and
one for a body that waits (`Waits`), and a lemma for each function, from
`CleanUpIs` at the bottom to `RequestHandlerIs`; then one lemma for each action.

`KnownRedirects` says that each location that redirects does it with a code
`setStatus` knows (301). It is not what the configuration checks: every 3xx is
accepted (`parser/Config.cpp:455`). Without it `UploadClosed` and `NotMixed` are
false in the model, as TLC shows when such a request is added: a
redirection with 302 leaves the status 0 and a body in the `Response`
(`response/utils.cpp:64-68`), the upload that follows is answered with that
body under its 201, so the connection is kept with `_uploadFd` still open
(`response/response.cpp:92-98`), and the next upload is written to the old file.
The requests of the run `RequestReader` have no such redirection.

### Site

`SiteProofs`: for every configuration file, every number of browsers and every bound,
`BindsOnce`, `EntriesAreServed` and `SessionKept`. The first two have the invariant
`BindInv`, which goes with a file from its words to the polled sockets:

* `ConfigInv`, the parser's side: tokens are words and marks, and each block read so
  far has a name and a finite set of addresses and ports, spelled with the letters
  the checks let through (`ValidHost`, `ValidPort`). Why the letters matter: the
  table stands in the order of a `std::set` (`InOrder`), and among texts of these
  letters any two that differ are ordered by `Less`, so that every pair of the set
  gets a place in the table and only one (`PairOrder`, `InOrderIs`).
* `Tabled`, of the table: of two entries without a mark the later is not equal to
  the earlier (`Separate`), every entry is equal to one at or before it that has no
  mark (`Covered`), the blocks ascend (`Rising`), and every entry is of a block and
  every pair of a block has an entry (`FromBlocks`, `AllListed`).
* `Owned`, `Shared` and `Fits`, of the sockets, while `initSockets` goes through the
  table: each socket is that of an entry the loop has passed, such an entry and all
  marked ones that are equal to it have its descriptor, and no entry has the
  descriptor of a socket with another port. A later round does not take a
  descriptor away again because `operator==` is transitive: on one port it makes
  `0.0.0.0`, `localhost` and `127.0.0.1` equal, each to the other two, and any
  other address only to itself (`SameMeans`).
* `Polled`: once the server runs, the socket of every entry without a mark is in
  `pollfd`.

* `BindsOnce`: `MarksSuffice` says why: `Separate`, of two entries without a mark the
  later is not equal to the earlier, and `Owned`, every socket is that of an entry
  the loop has passed; addresses the kernel takes for one are equal to `Same`.
* `EntriesAreServed`: `HasOwner` gives an entry the socket of one that is equal to
  it, `Reaches` shows that a client at an address the entry covers comes in there,
  since of the sockets on a port none other is for that address (`OneSocket`), and
  `Answers` that `getSrvBlock` finds a block of the entry's name: all entries of the
  socket have its port, so that two equal `Host` headers have one name (`NameOf`),
  and it is at or before the entry's own since the blocks ascend.
* The marks and `FlattenSeq` are recursive functions: that there are such functions
  is proved from the least number without one (`MarksExist`, `JoinsExist`), with
  `WFMin` of the library, which takes sets where its induction theorems take
  operators.
* `SessionKept`: `SessionInv` has three parts. `IdsInTime`: ids were given out between
  the start of the server and now, so that a cookie from before a restart names no
  session; `CookiesRecorded`: every valid cookie, in a jar or in a header, is known to
  the table, which has counted at least as far; `UnderWay`: what is under way on a
  browser's only connection is not older than what it has. The last is where a
  second connection would break it.

### Not proved

* Liveness (`ScriptEnds`, `SigintStops`, `Answered`, `AnswerEnds`,
  `EachAnswered`): out of the prover's reach.
* What a recursive definition computes (`Meaning`, so `AsOneRead` and `Stored`):
  these are operators of the MC modules, declared RECURSIVE, which the prover's SMT
  backend does not take.
* Of `Site`, what is said of whole files and of paths (`AsWritten`, `DamageSeen`,
  `RightFile`): statements about the files of `MCSite`, each with the meaning it was
  written for, and for `RightFile` about its paths and file system.
* `TypeOK` of the modules without proofs says what their variables may hold and
  is checked by no run of its own.

## What is not modelled

* The text of request lines, headers and responses: in `RequestReader` a request
  is what its bytes mean, and a target is what the file system and the
  configuration make of a path. Targets always have a location; the page that
  `getLocation` makes without one is left out there.
* The positions and messages of configuration errors; that a location's
  `_maxBodySize` is uninitialised (nothing reads it); errors of reading the file.
* A browser with two connections to `/login`: the header kept on one brings back
  what the other replaced, and no property is stated of it.
* Uploads without a Content-Type (`request/request.cpp:303` dereferences
  `end()`), multipart uploads without a boundary, two uploads to one path.
* Files do not change while they are streamed, and headers fit into a block.
* Generated file names: the clock and a counter of the process make them; the
  counter keeps those of one process apart, and nothing else is to be said.
* The environment a script gets (`buildEnv`), and the console: text only.

## Plan

1. Core: `EventLoop`, its runs, `IInv` proved. Done.
2. Parsers, `Handlers`, `ResponseSender`, `RequestReader`. Done.
3. `Config`, `ListenTable`, `Locations`, `Sessions` and their composition
   `Site`. Done.
4. `UploadFds`: the copies of `vector<Client>`. Done.
5. Proofs: the event loop's invariants and its refinement, both parsers,
   `Handlers`, `ResponseSender`, `RequestReader` with `StoredWhole`. Done.
6. `SiteProofs`: `BoundOnce`, `EntriesServed` and `KeepsSession`. Done.
7. What is left is out of the prover's reach or a statement about the files of
   one run; see above.
