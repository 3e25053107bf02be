------------------------------- MODULE Locations -------------------------------
(* From the path of a request to the file it means: initPath (request.cpp),    *)
(* getLocation and splitPath (location.cpp), getSource (utils.cpp). Paths are  *)
(* sequences of letters; an escape such as %2F is one letter, and Decoded says *)
(* what urlDecode makes of it.                                                 *)
EXTENDS Integers, Sequences, SequencesExt

Slash == <<"/">>
Decoded == ("%2F" :> "/") @@ ("%2E" :> ".") @@ ("+" :> " ")

\* normalizePath: no two slashes in a row.
normalizePath(p) ==
  FoldLeft(LAMBDA q, c : IF c = "/" /\ q # <<>> /\ Last(q) = "/" THEN q ELSE Append(q, c), <<>>, p)
urlDecode(p) == [i \in DOMAIN p |-> IF p[i] \in DOMAIN Decoded THEN Decoded[p[i]] ELSE p[i]]
\* initPath: up to the question mark, normalised first and decoded then.
initPath(uri) ==
  LET q == SelectInSeq(uri, LAMBDA c : c = "?")
  IN urlDecode(normalizePath(IF q = 0 THEN uri ELSE SubSeq(uri, 1, q - 1)))

\* splitPath: the parts between slashes that are not empty.
splitPath(p) ==
  LET Split(s, c) == IF c = "/" THEN Append(s, <<>>) ELSE Append(Front(s), Append(Last(s), c))
  IN SelectSeq(FoldLeft(Split, <<<<>>>>, p), LAMBDA part : part # <<>>)

(***************************************************************************)
(* getLocation                                                             *)
(***************************************************************************)
\* The location's path, without one slash at its end.
Trimmed(l) == IF Len(l) > 1 /\ Last(l) = "/" THEN Front(l) ELSE l
\* Mutant: a prefix is enough, also in the middle of a name.
MatchesPrefix(l, path) == l = Slash \/ IsPrefix(l, path)
Matches(l, path) ==
  \/ l = Slash
  \/ path = l
  \/ IsStrictPrefix(l, path) /\ path[Len(l) + 1] = "/"
Candidates(s, path) ==
  {l \in {Trimmed(s.locations[i].path) : i \in DOMAIN s.locations} : Matches(l, path)}
\* std::max_element of strings that are all prefixes of one path, but for "/":
\* the greatest is the longest. "" stands for no location.
getLocation(s, path) ==
  LET all == Candidates(s, path)
  IN IF all = {} THEN <<>> ELSE CHOOSE l \in all : \A k \in all : Len(k) <= Len(l)
LocationOf(s, l) == s.locations[SelectInSeq(s.locations, LAMBDA x : Trimmed(x.path) = l)]

(***************************************************************************)
(* getSource                                                               *)
(***************************************************************************)
RootOf(s, l) ==
  LET lct == LocationOf(s, l)
      root == IF lct.uploadStore # <<>> THEN lct.uploadStore
              ELSE IF lct.root # <<>> THEN lct.root ELSE s.root
  IN IF Last(root) = "/" THEN root ELSE Append(root, "/")

OccursAt(l, path, i) == i + Len(l) - 1 <= Len(path) /\ SubSeq(path, i, i + Len(l) - 1) = l
\* The loop of find() and replace(): every occurrence, from the left.
Replaced(path, l, root) ==
  LET from[i \in 1..(Len(path) + 1)] ==
        IF i > Len(path) THEN <<>>
        ELSE IF OccursAt(l, path, i) THEN root \o from[i + Len(l)]
        ELSE <<path[i]>> \o from[i + 1]
  IN from[1]

\* The parts of a path after the dots are taken out.
Resolved(parts) ==
  FoldLeft(LAMBDA s, p : IF p = <<".", ".">> THEN IF s = <<>> THEN s ELSE Front(s)
                         ELSE IF p = <<".">> THEN s ELSE Append(s, p),
           <<>>, parts)

\* The file as the parts of its path below ".". "" where there is no location, and
\* the root directory where a root of slashes alone takes the place of the path.
NoSource == <<"none">>
getSource(s, path) ==
  LET l == getLocation(s, path)
      whole == IF l # Slash THEN Replaced(path, l, RootOf(s, l))
               ELSE RootOf(s, l) \o Tail(path)
      parts == splitPath(whole)
  IN IF l = <<>> THEN NoSource ELSE IF parts = <<>> THEN Slash ELSE Resolved(parts)
================================================================================
