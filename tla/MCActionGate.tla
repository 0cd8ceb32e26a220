---------------------------- MODULE MCActionGate ----------------------------
(* Values for ActionGate's constants that a cfg cannot write.               *)
EXTENDS ActionGate, TLC

CONSTANTS read, write, forbidden

\* One tool per branch of the gate; `write` has no rule and so needs approval.
MCRules == read :> "auto" @@ forbidden :> "deny"

Symmetric ==
  Permutations(Action) \cup Permutations(Ipc) \cup Permutations(Redriver)
=============================================================================
