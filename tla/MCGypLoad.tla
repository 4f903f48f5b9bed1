----------------------------- MODULE MCGypLoad ------------------------------
(* Model of GypLoad for TLC: every way two build files depend on three, and a
   third file that depends on at most one. *)
EXTENDS GypLoad
SeqsUpTo(S, n) == UNION {[1..k -> S] : k \in 0..n}
Init ==
  /\ deps \in [Files -> SeqsUpTo(Files, 2)] /\ Len(deps["c"]) <= 1
  /\ broken \in {{}} \union {{f} : f \in Files}
  /\ parallel \in BOOLEAN
  /\ asked \in SeqsUpTo(Files, MaxRoots) \ {<<>>}
  /\ LoadInit
Spec == Init /\ [][LoadNext]_loadVars /\ LoadFairness
=============================================================================
