--------------------------- MODULE MCActionLedger ---------------------------
(* Instances of ActionLedger for TLC. *)
EXTENDS ActionLedger, TLC

CONSTANTS o1, o2

(* The fields of action.Request that the ledger tells apart. *)
Request(i, k, risk, xe, re, par) ==
  [id |-> i, key |-> k, risk |-> risk, xe |-> xe, re |-> re, par |-> par]

(* Two requests that compete for one key under two operation ids, and one  *)
(* that reuses an operation id with another key.                           *)
MCMutations ==
  {Request(o1, 1, "CONTROLLED_MUTATION", 1, 0, 0),
   Request(o2, 1, "CONTROLLED_MUTATION", 1, 0, 0),
   Request(o1, 2, "CONTROLLED_MUTATION", 1, 0, 0)}

(* One operation of every risk class, asked for under either epoch. *)
MCRisks ==
  {Request(o1, 1, risk, 1, re, 0) : risk \in Risks, re \in {0, 1}}

MCLosePoints == CallPCs \ {"idle", "done", "lost"}

(* Callers are interchangeable, and so are principals; the safety runs use *)
(* both symmetries, the liveness run none.                                 *)
MCSymmetry == Permutations(Callers) \cup Permutations(Principals)
=============================================================================
