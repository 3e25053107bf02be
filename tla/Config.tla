-------------------------------- MODULE Config --------------------------------
(* The configuration file as the program reads it: Lexer.cpp makes tokens of  *)
(* the text and ConfigParser (Config.cpp) reads blocks and directives with one*)
(* index into them. A word is a sequence of letters; the name of a directive  *)
(* is a single letter, since the parser never looks into it. Any throw ends   *)
(* the program ("refused"), whatever its message.                             *)
EXTENDS Integers, Sequences, FiniteSets, SequencesExt

CONSTANTS
  Files,       \* the texts the program may be started with
  IntModulus,  \* 2^w for the width of int, which atoi() wraps at
  SizeMax      \* std::numeric_limits<size_t>::max()

ASSUME ModulusAssumption == IntModulus \in Nat /\ IntModulus > 2 * 86400
ASSUME TextAssumption == Files \subseteq Seq(Seq(STRING))
ASSUME SizeMaxAssumption == SizeMax \in Nat \ {0}

VARIABLES
  text,     \* the file: a sequence of words, blanks, and marks { } ; #
  tokens,   \* what tokenize() returned
  index,    \* ConfigParser::_index
  block,    \* which of the nested loops the parser is in
  serv,     \* the ServerEntry being read
  loc,      \* the Location being read
  servers,  \* Data::_servers
  result    \* "reading", "done", "refused" or, past the last token, "beyond"

configVars == <<text, tokens, index, block, serv, loc, servers, result>>

None == "none"

(***************************************************************************)
(* Words and numbers                                                       *)
(***************************************************************************)
Digits == <<"0", "1", "2", "3", "4", "5", "6", "7", "8", "9">>
DigitValue == [d \in ToSet(Digits) |-> CHOOSE v \in 0..9 : Digits[v + 1] = d]
IsNum(w) == w # <<>> /\ ToSet(w) \subseteq DOMAIN DigitValue

Number(w) == FoldLeft(LAMBDA v, d : 10 * v + DigitValue[d], 0, w)
\* std::atoi: the low bits of the number, as a signed integer.
Atoi(w) ==
  LET n == FoldLeft(LAMBDA v, d : (10 * v + DigitValue[d]) % IntModulus, 0, w)
  IN IF 2 * n >= IntModulus THEN n - IntModulus ELSE n

StartsWithSlash(w) == w # <<>> /\ w[1] = "/"

\* normPath: without the slashes at both ends, and "/" for nothing else.
NormPath(w) ==
  LET other(c) == c # "/"
      first == SelectInSeq(w, other)
  IN IF first = 0 THEN <<"/">> ELSE SubSeq(w, first, SelectLastInSeq(w, other))

\* The order of std::string: a word of the hosts' letters before the names.
Rank(c) ==
  IF c \in DOMAIN DigitValue THEN 1 + DigitValue[c] ELSE IF c = "." THEN 0 ELSE 11
Less(a, b) ==
  \E i \in DOMAIN b :
    /\ Len(a) >= i - 1 /\ SubSeq(a, 1, i - 1) = SubSeq(b, 1, i - 1)
    /\ Len(a) = i - 1 \/ Rank(a[i]) < Rank(b[i])

\* What is before and behind the first c of a word that has one.
Before(w, c) == SubSeq(w, 1, SelectInSeq(w, LAMBDA x : x = c) - 1)
Behind(w, c) == SubSeq(w, SelectInSeq(w, LAMBDA x : x = c) + 1, Len(w))

\* validHost: localhost, or four numbers of up to three digits and 255.
ValidHost(h) ==
  \/ h = <<"localhost">>
  \/ /\ Len(SelectSeq(h, LAMBDA c : c = ".")) = 3
     /\ \A i \in 0..Len(h) : \A j \in (i + 1)..(Len(h) + 1) :
          (/\ i = 0 \/ h[i] = "."
           /\ j = Len(h) + 1 \/ h[j] = "."
           /\ \A k \in (i + 1)..(j - 1) : h[k] # ".")
          => /\ IsNum(SubSeq(h, i + 1, j - 1)) /\ j - i - 1 <= 3
             /\ Atoi(SubSeq(h, i + 1, j - 1)) <= 255

\* validatePort: atoi of the digits. An empty port is the number 0.
Ports == 1024..65535
ValidPort(p) == ToSet(p) \subseteq DOMAIN DigitValue /\ Atoi(p) \in Ports

(***************************************************************************)
(* Lexer::tokenize                                                         *)
(***************************************************************************)
Blank == {<<" ">>, <<"\n">>}
MarkType == (<<"{">> :> "LBRACE") @@ (<<"}">> :> "RBRACE") @@ (<<";">> :> "SEMI")
Token(w) ==
  [type |-> IF w \in DOMAIN MarkType THEN MarkType[w] ELSE IF IsNum(w) THEN "NUM" ELSE "STR",
   word |-> w]
EOF == [type |-> "EOF", word |-> <<>>]

\* skip: what follows a # up to the end of its line.
InComment(p, i) == \E j \in 1..i : p[j] = <<"#">> /\ \A k \in j..i : p[k] # <<"\n">>
Tokenize(p) ==
  LET kept == {i \in DOMAIN p : ~InComment(p, i) /\ p[i] \notin Blank}
      place == [i \in kept |-> Cardinality({j \in kept : j <= i})]
  IN Append([k \in 1..Cardinality(kept) |-> Token(p[CHOOSE i \in kept : place[i] = k])], EOF)

(***************************************************************************)
(* The directives: which tokens they take, and what they make of them      *)
(***************************************************************************)
Shape ==
  [listen |-> <<"STR">>, server_name |-> <<"STR">>, root |-> <<"STR">>,
   client_max_body_size |-> <<"STR">>, error_page |-> <<"NUM", "STR">>,
   header_timeout |-> <<"NUM">>, cgi_timeout |-> <<"NUM">>,
   upload_store |-> <<"STR">>, autoindex |-> <<"STR">>,
   redirect |-> <<"NUM", "STR">>, cgi |-> <<"STR">>]
InServer ==
  {"listen", "server_name", "root", "index", "client_max_body_size", "error_page",
   "header_timeout", "cgi_timeout"}
InLocation ==
  {"root", "index", "error_page", "client_max_body_size", "upload_store",
   "allowed_methods", "autoindex", "redirect", "cgi"}
Methods == {<<"GET">>, <<"POST">>, <<"DELETE">>}
Multiple == [k |-> 1024, K |-> 1024, m |-> 1048576, M |-> 1048576, g |-> 1073741824, G |-> 1073741824]
On == {<<"on">>, <<"true">>}
Off == {<<"off">>, <<"false">>}

\* fetchBodySize: digits and one unit, and no product beyond size_t.
ValidSize(w) ==
  /\ Len(w) > 1 /\ IsNum(Front(w)) /\ Last(w) \in DOMAIN Multiple
  /\ Number(Front(w)) <= SizeMax \div Multiple[Last(w)]

\* Mutant: the names are not looked at.
AnyMethods(s, a) == a # <<>> \/ s.methodSet
\* fetchMethods: known methods only, and at least one in the block.
LegalMethods(s, a) == ToSet(a) \subseteq Methods /\ (a # <<>> \/ s.methodSet)

\* The values a fetch function throws at; s is what the block holds so far.
Legal(s, d, a) ==
  /\ d = "listen" => /\ ":" \in ToSet(a[1])
                     /\ ValidHost(Before(a[1], ":")) /\ ValidPort(Behind(a[1], ":"))
  /\ d \in {"root", "upload_store"} => StartsWithSlash(a[1])
  /\ d = "client_max_body_size" => ValidSize(a[1])
  /\ d = "error_page" => Len(a[1]) = 3
  /\ d \in {"header_timeout", "cgi_timeout"} => Atoi(a[1]) \in 0..86400
  /\ d = "autoindex" => a[1] \in On \cup Off
  /\ d = "redirect" => Len(a[1]) = 3 /\ a[1][1] = "3"
  /\ d = "allowed_methods" => LegalMethods(s, a)

\* fetchListen: the first directive takes the place of the default.
WithListen(s, w) ==
  [s EXCEPT !.listen = (IF s.listenSet THEN @ ELSE {}) \cup {<<Before(w, ":"), Behind(w, ":")>>},
            !.listenSet = TRUE]
\* Mutant: every directive takes the place of the last.
WithMethodsAnew(s, a) == [s EXCEPT !.methods = ToSet(a), !.methodSet = TRUE]
\* fetchMethods: the first directive takes the place of GET, others add.
WithMethods(s, a) ==
  [s EXCEPT !.methods = (IF s.methodSet THEN @ ELSE {}) \cup ToSet(a), !.methodSet = TRUE]

With(s, d, a) ==
  CASE d = "listen"       -> WithListen(s, a[1])
    [] d = "server_name"  -> [s EXCEPT !.name = IF @ = <<>> THEN a[1] ELSE @]
    [] d = "root"         -> [s EXCEPT !.root = a[1]]
    [] d = "index"        -> [s EXCEPT !.index = @ \o a]
    [] d = "client_max_body_size" ->
         [s EXCEPT !.maxBodySize = Number(Front(a[1])) * Multiple[Last(a[1])]]
    [] d = "error_page"   -> [s EXCEPT !.errorPages = (Atoi(a[1]) :> a[2]) @@ @]
    [] d = "header_timeout" -> [s EXCEPT !.headerTimeout = Atoi(a[1])]
    [] d = "cgi_timeout"  -> [s EXCEPT !.cgiTimeout = Atoi(a[1])]
    [] d = "upload_store" -> [s EXCEPT !.uploadStore = a[1]]
    [] d = "allowed_methods" -> WithMethods(s, a)
    [] d = "autoindex"    -> [s EXCEPT !.autoIndex = a[1] \in On, !.autoIndexSet = TRUE]
    [] d = "redirect"     -> [s EXCEPT !.redirect = <<Atoi(a[1]), a[2]>>]
    [] d = "cgi"          -> [s EXCEPT !.cgi = Append(@, a[1])]

\* ServerEntry() and Location(); the location's _maxBodySize is left unset there.
AnyAddress == <<"0", ".", "0", ".", "0", ".", "0">>
DefaultListen == <<AnyAddress, <<"8", "0", "8", "0">>>>
NewServer ==
  [listen |-> {DefaultListen}, listenSet |-> FALSE, name |-> <<>>, root |-> <<"/", "html">>,
   index |-> <<>>, maxBodySize |-> 0, errorPages |-> <<>>, headerTimeout |-> 10,
   cgiTimeout |-> 10, locations |-> <<>>]
NewLocation(path) ==
  [path |-> path, root |-> <<>>, index |-> <<>>, maxBodySize |-> -1, errorPages |-> <<>>,
   uploadStore |-> <<>>, methods |-> {<<"GET">>}, methodSet |-> FALSE, autoIndex |-> FALSE,
   autoIndexSet |-> FALSE, redirect |-> <<>>, cgi |-> <<>>]

(***************************************************************************)
(* ConfigParser: one action per block opened or closed and per directive   *)
(***************************************************************************)
Current == tokens[index]
Is(i, type) == i \in DOMAIN tokens /\ tokens[i].type = type
IsWord(i, letter) == Is(i, "STR") /\ tokens[i].word = <<letter>>
Directive == IF Is(index, "STR") /\ Len(Current.word) = 1 THEN Current.word[1] ELSE None

\* Where the arguments of the directive at index end: a list of paths runs to
\* the next semicolon, whatever comes before it (0: there is none); methods
\* run as long as there are words.
ArgsEnd(d) ==
  CASE d = "index" -> SelectInSubSeq(tokens, index + 1, Len(tokens), LAMBDA t : t.type = "SEMI")
    [] d = "allowed_methods" ->
         SelectInSubSeq(tokens, index + 1, Len(tokens), LAMBDA t : t.type # "STR")
    [] OTHER -> index + 1 + Len(Shape[d])
Args(d) == [k \in 1..(ArgsEnd(d) - index - 1) |-> tokens[index + k].word]

\* The directive is known in its block, its arguments are of the right type
\* and value, and a semicolon follows.
Readable(s, d, known) ==
  /\ d \in known
  /\ d \in DOMAIN Shape => \A k \in DOMAIN Shape[d] : Is(index + k, Shape[d][k])
  /\ Is(ArgsEnd(d), "SEMI") /\ Legal(s, d, Args(d))
RunsOn == Directive = "index" /\ ArgsEnd("index") = 0

Duplicate(l) == \E i \in DOMAIN serv.locations : NormPath(serv.locations[i].path) = NormPath(l.path)

ConfigInit ==
  /\ text \in Files
  /\ tokens = Tokenize(text)
  /\ index = 1
  /\ block = "top"
  /\ serv = NewServer
  /\ loc = NewLocation(<<>>)
  /\ servers = <<>>
  /\ result = "reading"

\* Where the parser stands, by the branch of the loops that goes on from there.
AtServer    == block = "top" /\ IsWord(index, "server") /\ Is(index + 1, "LBRACE")
AtEnd       == block = "top" /\ Is(index, "EOF")
AtLocation  == /\ block = "server" /\ IsWord(index, "location")
               /\ Is(index + 1, "STR") /\ StartsWithSlash(tokens[index + 1].word)
               /\ Is(index + 2, "LBRACE")
AtServerDir == block = "server" /\ Readable(serv, Directive, InServer)
AtLocationDir == block = "location" /\ Readable(loc, Directive, InLocation)
AtServerEnd == block = "server" /\ Is(index, "RBRACE")
AtLocationEnd == block = "location" /\ Is(index, "RBRACE") /\ ~Duplicate(loc)
AtOpenList  == block # "top" /\ RunsOn

Reading == result = "reading"
OpenServer ==
  /\ Reading /\ AtServer
  /\ block' = "server" /\ serv' = NewServer /\ index' = index + 2
  /\ UNCHANGED <<text, tokens, loc, servers, result>>
OpenLocation ==
  /\ Reading /\ AtLocation
  /\ block' = "location" /\ loc' = NewLocation(tokens[index + 1].word) /\ index' = index + 3
  /\ UNCHANGED <<text, tokens, serv, servers, result>>
parseServerDir ==
  /\ Reading /\ AtServerDir
  /\ serv' = With(serv, Directive, Args(Directive))
  /\ index' = ArgsEnd(Directive) + 1
  /\ UNCHANGED <<text, tokens, block, loc, servers, result>>
parseLocationDir ==
  /\ Reading /\ AtLocationDir
  /\ loc' = With(loc, Directive, Args(Directive))
  /\ index' = ArgsEnd(Directive) + 1
  /\ UNCHANGED <<text, tokens, block, serv, servers, result>>
CloseLocation ==
  /\ Reading /\ AtLocationEnd
  /\ serv' = [serv EXCEPT !.locations = Append(@, loc)]
  /\ block' = "server" /\ index' = index + 1
  /\ UNCHANGED <<text, tokens, loc, servers, result>>

\* mapLocationsRoot: a location without a root takes that of its server.
MapLocationsRoot(s) ==
  [s EXCEPT !.locations =
    [i \in DOMAIN @ |-> IF @[i].root = <<>> THEN [@[i] EXCEPT !.root = s.root] ELSE @[i]]]
CloseServer ==
  /\ Reading /\ AtServerEnd
  /\ servers' = Append(servers, MapLocationsRoot(serv))
  /\ block' = "top" /\ index' = index + 1
  /\ UNCHANGED <<text, tokens, serv, loc, result>>

Stop(how) == result' = how /\ UNCHANGED <<text, tokens, index, block, serv, loc, servers>>
EndOfFile == Reading /\ AtEnd /\ Stop("done")
\* A list of paths without a semicolon: current() is read past the last token.
ReadBeyond == Reading /\ AtOpenList /\ Stop("beyond")
Refuse ==
  /\ Reading
  /\ ~(\/ AtServer \/ AtEnd \/ AtLocation \/ AtServerDir \/ AtLocationDir
       \/ AtServerEnd \/ AtLocationEnd \/ AtOpenList)
  /\ Stop("refused")

ConfigNext ==
  \/ OpenServer \/ OpenLocation \/ parseServerDir \/ parseLocationDir
  \/ CloseLocation \/ CloseServer \/ EndOfFile \/ ReadBeyond \/ Refuse
===============================================================================
