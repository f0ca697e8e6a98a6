------------------------------ MODULE MCRulesets ------------------------------
(***************************************************************************)
(* Values for TLC.  Five bundles over one table x, of which a run takes    *)
(* those its question needs:                                               *)
(*   root     no table; an Action and a View                               *)
(*   addX     its migration creates x; an Action                           *)
(*   dropX    its migration drops x; an Action and a View                  *)
(*   forgetX  declares x and has an empty migration                        *)
(*   broken   does not pass tsc                                            *)
(* addX and dropX conflict with themselves and undo each other, so whether *)
(* a migration runs depends on what has been committed before it.          *)
(***************************************************************************)
EXTENDS Rulesets, TLC

CONSTANTS x, root, addX, dropX, forgetX, broken

MCLoads == Bundles \ {broken}
MCFns == [b \in Bundles |->
            IF b = broken THEN {} ELSE IF b = addX THEN {"Action"} ELSE FnType]
MCDeclares == [b \in Bundles |-> IF b \in {addX, forgetX} THEN {x} ELSE {}]
MCDrops == [b \in Bundles |-> IF b = dropX THEN {x} ELSE {}]
MCAdds == [b \in Bundles |-> IF b = addX THEN {x} ELSE {}]

\* Requests and candidate ids are interchangeable; the paths are not quantified
\* over by any property in a way that tells them apart either.
MCSymmetry ==
  Permutations(CandidateIds) \cup Permutations(Requests) \cup Permutations(Tasks)
=============================================================================
