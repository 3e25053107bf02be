------------------------------ MODULE ConnTable ------------------------------
(***************************************************************************)
(* What the event loop promises of each connection, whatever the others    *)
(* do: requests and answers alternate, a request starts at most one        *)
(* script, the answer of a request that started one comes after the script *)
(* ended, and one step of the server concerns one connection.              *)
(***************************************************************************)
CONSTANT Fd
VARIABLE phase

Phases == {"none", "receiving", "answering", "script", "relaying"}
Init == phase = [f \in Fd |-> "none"]

Moves(f, from, to) == phase[f] \in from /\ phase' = [phase EXCEPT ![f] = to]

Open(f) == Moves(f, {"none"}, "receiving")
Request(f) == Moves(f, {"receiving"}, "answering")
StartScript(f) == Moves(f, {"answering"}, "script")
ScriptEnds(f) == Moves(f, {"script"}, "relaying")
Answered(f) == Moves(f, {"answering", "relaying"}, "receiving")
Close(f) == Moves(f, Phases \ {"none"}, "none")
Down == phase' = [f \in Fd |-> "none"]

Next ==
  \/ \E f \in Fd :
       /\ phase'[f] # phase[f]
       /\ Open(f) \/ Request(f) \/ StartScript(f) \/ ScriptEnds(f) \/ Answered(f) \/ Close(f)
  \/ Down
Spec == Init /\ [][Next]_phase
=============================================================================
