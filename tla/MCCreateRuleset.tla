---------------------------- MODULE MCCreateRuleset ----------------------------
(***************************************************************************)
(* The three models around the creation of rulesets for TLC: the calls     *)
(* that insert rows (CreateRuleset), the session their statements are      *)
(* executed in (Sessions), and what comes out of them is called (Names).   *)
(* They share no state, so a behaviour is one of one of them, its subject. *)
(*                                                                         *)
(*   CreateRuleset  two rulesets that would be the root and one below the  *)
(*                  first; a bundle that creates a table and one whose     *)
(*                  migration drops what a new schema does not have        *)
(*   Sessions       two rulesets, callers that come while messages of the  *)
(*                  callers before them are queued                         *)
(*   Names          names of one or two characters, one of which is spelt  *)
(*                  like a role type, and identifiers that paths exceed    *)
(***************************************************************************)
EXTENDS CreateRuleset, Sessions, Names, TLC

CONSTANTS tableX, addX, dropX, rootA, rootB, child, r1, r2

MCLoads == Bundles
MCFns == [b \in Bundles |-> FnType]
MCDeclares == [b \in Bundles |-> IF b = addX THEN {tableX} ELSE {}]
MCDrops == [b \in Bundles |-> IF b = dropX THEN {tableX} ELSE {}]
MCAdds == [b \in Bundles |-> IF b = addX THEN {tableX} ELSE {}]
MCParent == [p \in Paths |-> IF p = child THEN rootA ELSE None]

Letters == {"a", "action"}
ShortNames == UNION {[1..n -> Letters] : n \in 1..2}

\* The calls are interchangeable.
MCSymmetry == Permutations(Calls)

VARIABLE subject

MCInit ==
  /\ subject \in {"create", "sessions", "names"}
  /\ CreateInit /\ SessionsInit /\ NamesInit

\* There is nothing left to create when the bound of rows is reached.
NamesBounded == ~ENABLED NamesNext /\ UNCHANGED namesVars

CreateStep ==
  subject = "create" /\ CreateNext /\ UNCHANGED <<subject, sessionsVars, namesVars>>
SessionsStep ==
  subject = "sessions" /\ SessionsNext /\ UNCHANGED <<subject, createVars, namesVars>>
NamesStep ==
  subject = "names" /\ (NamesNext \/ NamesBounded) /\ UNCHANGED <<subject, createVars, sessionsVars>>

MCNext == CreateStep \/ SessionsStep \/ NamesStep

MCSpec == MCInit /\ [][MCNext]_<<subject, createVars, sessionsVars, namesVars>>

\* The variables of all three have their types.
MCTypeOK == CreateTypeOK /\ SessionsTypeOK /\ NamesTypeOK
=============================================================================
