-------------------------------- MODULE MCSite --------------------------------
(* Files for Site, written from what they mean, and what is to hold of the     *)
(* program that reads them. A file is a sequence of servers, a server one of   *)
(* statements [d, args, body]; only a location has a body.                     *)
EXTENDS Site

L(s) == [i \in 1..Len(s) |-> SubSeq(s, i, i)]
St(d, args) == [d |-> d, args |-> args, body |-> <<>>]
In(path, body) == [d |-> "location", args |-> <<L(path)>>, body |-> body]
Listen(host, port) == St("listen", <<host \o <<":">> \o L(port)>>)
Name(n) == St("server_name", <<<<n>>>>)
Lan == L("10.0.0.1")
MCHostAddresses == {Loopback, Lan}

\* Two browsers with a connection each.
MCBrowser == {"b1", "b2"}
MCConnection == {"c1", "c2"}
MCOwner == ("c1" :> "b1") @@ ("c2" :> "b2")

(***************************************************************************)
(* The files                                                               *)
(***************************************************************************)
Rich ==
  <<<<Listen(LocalHost, "8080"), Listen(AnyAddress, "9000"), St("root", <<L("/w")>>),
      St("index", <<<<"a">>, <<"b">>>>),
      In("/", <<St("autoindex", <<<<"on">>>>), St("allowed_methods", <<<<"GET">>, <<"POST">>>>)>>),
      In("/up/", <<St("root", <<L("/v/")>>), St("upload_store", <<L("/s")>>),
                   St("allowed_methods", <<<<"GET">>>>), St("allowed_methods", <<<<"POST">>>>),
                   St("redirect", <<L("301"), L("/n")>>), St("cgi", <<<<".py">>>>),
                   St("cgi", <<<<".php">>>>), St("error_page", <<L("404"), L("/e")>>),
                   St("error_page", <<L("404"), L("/f")>>),
                   St("client_max_body_size", <<L("10K")>>), St("index", <<>>)>>),
      Name("n"), Name("m"), St("client_max_body_size", <<L("1g")>>),
      St("error_page", <<L("500"), L("/e")>>), St("header_timeout", <<L("5")>>),
      St("cgi_timeout", <<L("86400")>>)>>,
    <<Listen(Loopback, "8080"), Name("k")>>>>
Nested ==
  <<<<>>,
    <<Listen(AnyAddress, "8080"), Name("b"), St("root", <<L("/r/")>>), St("index", <<<<"i">>>>),
      In("/a", <<>>), In("/a/b/", <<St("root", <<L("/q")>>)>>),
      In("/ab", <<St("upload_store", <<L("/u")>>), St("index", <<<<"j">>>>)>>)>>>>
LocalFirst == <<<<Listen(LocalHost, "8080"), Name("a")>>, <<Listen(AnyAddress, "8080"), Name("b")>>>>
OneOfMany ==
  <<<<Listen(AnyAddress, "8080"), Listen(Lan, "8080"), Name("a"), In("/", <<>>), In("/b", <<>>)>>,
    <<Listen(Loopback, "8080"), Name("b")>>, <<Listen(Lan, "8080"), Name("b")>>,
    <<Listen(Lan, "8080"), Name("c")>>>>
Good == <<Rich, Nested, LocalFirst, OneOfMany, <<>>>>

\* Statements with one value out of bounds, in a server or in a location.
BadInServer ==
  <<Listen(LocalHost, "1023"), Listen(LocalHost, "65536"), Listen(LocalHost, "80a"),
   Listen(LocalHost, ""), Listen(L("1.2.3"), "8080"), Listen(L("1.2.3.256"), "8080"),
   Listen(L("1.2..3"), "8080"), St("listen", <<LocalHost>>), St("listen", <<L("8080")>>),
   St("root", <<L("w")>>), St("client_max_body_size", <<L("10")>>),
   St("client_max_body_size", <<L("k")>>), St("client_max_body_size", <<L("2g")>>),
   St("client_max_body_size", <<L("1kk")>>), St("error_page", <<L("4040"), L("/e")>>),
   St("error_page", <<L("404")>>), St("header_timeout", <<L("86401")>>),
   St("cgi_timeout", <<<<"x">>>>), St("autoindex", <<<<"on">>>>),
   In("up", <<>>), In("/dup", <<In("/in", <<>>)>>)>>
BadInLocation ==
  <<St("autoindex", <<<<"yes">>>>), St("redirect", <<L("200"), L("/n")>>),
   St("redirect", <<L("301")>>), St("allowed_methods", <<<<"PUT">>>>),
   St("allowed_methods", <<>>), St("listen", <<LocalHost \o L(":8080")>>), St("cgi", <<>>)>>
Bad ==
  [i \in DOMAIN BadInServer |-> <<<<BadInServer[i]>>>>]
  \o [i \in DOMAIN BadInLocation |-> <<<<In("/a", <<BadInLocation[i]>>)>>>>]
  \o <<<<<<In("/a", <<>>), In("/a//", <<>>)>>>>>>
\* A number that int cannot hold: its low bits are a timeout.
Wide == <<<<<<St("header_timeout", <<L("262149")>>)>>>>>>

(***************************************************************************)
(* A file as text: its tokens, with blanks or comments between them        *)
(***************************************************************************)
Tok(w, d, kind) == <<[word |-> w, d |-> d, kind |-> kind]>>
ArgToks(s) == [i \in DOMAIN s.args |-> Tok(s.args[i], s.d, "arg")[1]]
Flat(s) == Tok(<<s.d>>, s.d, "head") \o ArgToks(s) \o Tok(<<";">>, s.d, "end")
Deep(s) ==
  IF s.d # "location" THEN Flat(s)
  ELSE LET inner(x) == IF x.d # "location" THEN Flat(x)
                       ELSE Tok(<<x.d>>, x.d, "head") \o ArgToks(x) \o Tok(<<"{">>, x.d, "end")
       IN Tok(<<s.d>>, s.d, "head") \o ArgToks(s) \o Tok(<<"{">>, s.d, "mark")
          \o FlattenSeq([i \in DOMAIN s.body |-> inner(s.body[i])]) \o Tok(<<"}">>, s.d, "mark")
TokensOf(file) ==
  FlattenSeq([b \in DOMAIN file |->
    Tok(<<"server">>, "server", "head") \o Tok(<<"{">>, "server", "mark")
    \o FlattenSeq([i \in DOMAIN file[b] |-> Deep(file[b][i])]) \o Tok(<<"}">>, "server", "mark")])
Gap(layout) ==
  IF layout = "plain" THEN <<<<" ">>>>
  ELSE <<<<"#">>, <<"index">>, <<";">>, <<"#">>, <<"}">>, <<"\n">>, <<" ">>>>
Written(toks, layout) == FlattenSeq([i \in DOMAIN toks |-> <<toks[i].word>> \o Gap(layout)])
Layouts == {"plain", "commented"}
\* Every file whole, and two of them with each token left out.
WrittenFiles(files) ==
  {[file |-> i, text |-> Written(TokensOf(files[i]), layout)] : i \in DOMAIN files, layout \in Layouts}
GoodTexts == WrittenFiles(Good)
BadTexts == WrittenFiles(Bad)
DamagedTexts ==
  UNION {LET toks == TokensOf(Good[i])
         IN {[token |-> toks[k], text |-> Written(RemoveAt(toks, k), "plain")] : k \in DOMAIN toks}
         : i \in {1, 2}}
MCFiles == {k.text : k \in GoodTexts \cup BadTexts \cup WrittenFiles(Wide) \cup DamagedTexts}

(***************************************************************************)
(* What a file means: of each statement the first, the last or all, read   *)
(* off the list of statements and not from tokens                          *)
(***************************************************************************)
ArgsOf(items, d) ==
  LET of == SelectSeq(items, LAMBDA s : s.d = d) IN [i \in DOMAIN of |-> of[i].args]
Final(items, d, default) ==
  IF ArgsOf(items, d) = <<>> THEN default ELSE Last(ArgsOf(items, d))
First(items, d) == IF ArgsOf(items, d) = <<>> THEN <<>> ELSE ArgsOf(items, d)[1][1]
NumberOf == (L("5") :> 5) @@ (L("10") :> 10) @@ (L("86400") :> 86400) @@ (L("301") :> 301)
            @@ (L("404") :> 404) @@ (L("500") :> 500)
SizeOf == (L("10K") :> 10240) @@ (L("1g") :> 1073741824)
PagesOf(items) ==
  LET e == ArgsOf(items, "error_page")
      last(code) == SelectLastInSeq(e, LAMBDA a : NumberOf[a[1]] = code)
  IN [code \in {NumberOf[e[i][1]] : i \in DOMAIN e} |-> e[last(code)][2]]
MeantLocation(s, root) ==
  LET b == s.body
      size == Final(b, "client_max_body_size", <<>>)
      methods == UNION {ToSet(ArgsOf(b, "allowed_methods")[i]) : i \in DOMAIN ArgsOf(b, "allowed_methods")}
      redirect == Final(b, "redirect", <<>>)
  IN [path |-> s.args[1], root |-> Final(b, "root", root)[1],
      index |-> FlattenSeq(ArgsOf(b, "index")),
      maxBodySize |-> IF size = <<>> THEN -1 ELSE SizeOf[size[1]],
      errorPages |-> PagesOf(b), uploadStore |-> First(b, "upload_store"),
      methods |-> IF methods = {} THEN {<<"GET">>} ELSE methods, methodSet |-> methods # {},
      autoIndex |-> Final(b, "autoindex", <<<<"off">>>>) = <<<<"on">>>>,
      autoIndexSet |-> ArgsOf(b, "autoindex") # <<>>,
      redirect |-> IF redirect = <<>> THEN <<>> ELSE <<NumberOf[redirect[1]], redirect[2]>>,
      cgi |-> [i \in DOMAIN ArgsOf(b, "cgi") |-> ArgsOf(b, "cgi")[i][1]]]
MeantServer(items) ==
  LET root == Final(items, "root", <<<<"/", "html">>>>)
      listen == ArgsOf(items, "listen")
      locations == SelectSeq(items, LAMBDA s : s.d = "location")
  IN [listen |-> IF listen = <<>> THEN {<<AnyAddress, L("8080")>>}
                 ELSE {<<Before(listen[i][1], ":"), Behind(listen[i][1], ":")>> : i \in DOMAIN listen},
      listenSet |-> listen # <<>>, name |-> First(items, "server_name"), root |-> root[1],
      index |-> FlattenSeq(ArgsOf(items, "index")),
      maxBodySize |-> IF ArgsOf(items, "client_max_body_size") = <<>> THEN 0
                      ELSE SizeOf[Final(items, "client_max_body_size", <<>>)[1]],
      errorPages |-> PagesOf(items),
      headerTimeout |-> NumberOf[Final(items, "header_timeout", <<L("10")>>)[1]],
      cgiTimeout |-> NumberOf[Final(items, "cgi_timeout", <<L("10")>>)[1]],
      locations |-> [i \in DOMAIN locations |-> MeantLocation(locations[i], root)]]
Meant(file) == [b \in DOMAIN file |-> MeantServer(file[b])]

(***************************************************************************)
(* Properties of the parser                                                *)
(***************************************************************************)
\* The file has been read, and main() goes on from here or ends.
AtMain == result # "reading" /\ stage = "config"

\* A file that is well formed is read as what it means, comments and the order
\* of the statements notwithstanding, and one with a value out of bounds is
\* refused. Left out is a number that int cannot hold: atoi() passes it on as
\* another one (Config.cpp:255). (parseTokens and all it calls.)
AsWritten ==
  AtMain =>
    /\ \A k \in GoodTexts : k.text = text => result = "done" /\ servers = Meant(Good[k.file])
    /\ \A k \in BadTexts : k.text = text => result = "refused"

\* A file that lost one token is refused, unless the token was one of a list
\* or the semicolon behind a list of paths: then the next directive is read
\* as paths (Config.cpp:329). Only a lost semicolon of the last such list makes
\* the parser read past its tokens.
DamageSeen ==
  AtMain => \A k \in DamagedTexts : k.text = text =>
    /\ result = "done" => \/ k.token.d = "index" /\ k.token.kind \in {"arg", "end"}
                          \/ k.token.d = "allowed_methods" /\ k.token.kind = "arg"
    /\ result = "beyond" => k.token.d = "index" /\ k.token.kind = "end"

(***************************************************************************)
(* Properties of the paths                                                 *)
(***************************************************************************)
Uris ==
  {L(u) : u \in {"/", "/a", "/a/", "/ab", "/ab/x", "/abc", "/a/b", "/a/b/c", "//a//b", "/a/bc",
                 "/b/../a", "/a/../b/x", "/a/./x", "/..", "/x?y=/a", "/a?b/c", "/b/a/b", "/a/x/a",
                 "/up", "/up/x/", "/upx", "/c"}}
  \cup {L("/a") \o <<"%2F">> \o L("b"), L("/a/") \o <<"%2F">> \o L("b"), L("/a/") \o <<"%2E", ".">>}

\* The reference: by the parts of paths, the location that has most parts in
\* common, its root, and the parts behind it.
PartsOf(s, i) == splitPath(s.locations[i].path)
MeantFile(s, path) ==
  LET parts == splitPath(path)
      at == {i \in DOMAIN s.locations : IsPrefix(PartsOf(s, i), parts)}
      i == CHOOSE j \in at : \A k \in at : Len(PartsOf(s, k)) <= Len(PartsOf(s, j))
      lct == s.locations[i]
      root == IF lct.uploadStore # <<>> THEN lct.uploadStore ELSE lct.root
  IN IF at = {} THEN NoSource
     ELSE Resolved(splitPath(root) \o SubSeq(parts, Len(PartsOf(s, i)) + 1, Len(parts)))

\* The location's letters come once more behind it: getSource replaces them too.
Repeats(l, path) == l # Slash /\ \E i \in 2..Len(path) : OccursAt(l, path, i)
DoubleSlash(path) == \E i \in 2..Len(path) : path[i - 1] = "/" /\ path[i] = "/"

\* Whatever the location blocks, their order and their slashes, the file of a
\* request is that of the deepest location around its path. Left out are paths
\* in which the location's letters come again (utils.cpp:51) and those that
\* have two slashes only once they are decoded (request.cpp:107).
RightFile ==
  AtMain => \A b \in DOMAIN servers : \A u \in Uris :
    LET path == initPath(u)
    IN \/ Repeats(getLocation(servers[b], path), path) \/ DoubleSlash(path)
       \/ getSource(servers[b], path) = MeantFile(servers[b], path)
================================================================================
