----------------------------- MODULE GypClosure -----------------------------
(***************************************************************************)
(* What loading build files promises: files are loaded one after another,  *)
(* each because it was asked for or a loaded file depends on it, and       *)
(* success is reported only once no such file is missing.                  *)
(***************************************************************************)

VARIABLES
  asked,    \* the files of the command line
  needs,    \* file -> the files its targets depend on
  loaded,   \* files loaded
  outcome   \* "loading", "ok", "error"

vars == <<asked, needs, loaded, outcome>>

Wanted == asked \union UNION {needs[f] : f \in loaded}

Init == loaded = {} /\ outcome = "loading"

LoadFile ==
  /\ outcome = "loading"
  /\ \E f \in Wanted \ loaded : loaded' = loaded \union {f}
  /\ UNCHANGED <<asked, needs, outcome>>

Succeed ==
  /\ outcome = "loading" /\ Wanted \subseteq loaded
  /\ outcome' = "ok"
  /\ UNCHANGED <<asked, needs, loaded>>

\* The file that cannot be loaded may have been entered already.
Fail ==
  /\ outcome = "loading" /\ outcome' = "error"
  /\ loaded' \in {loaded} \union {loaded \union {f} : f \in Wanted}
  /\ UNCHANGED <<asked, needs>>

Next == LoadFile \/ Succeed \/ Fail
Spec == Init /\ [][Next]_vars
=============================================================================
