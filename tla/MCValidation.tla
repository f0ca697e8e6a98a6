------------------------------ MODULE MCValidation ------------------------------
(***************************************************************************)
(* The validation of a bundle (Validation) and the temporary containers it *)
(* rests on (Containers) for TLC.  Containers has what Validation leaves   *)
(* out - ports, process ids, clients - and any user of it; Validation has  *)
(* the one user.  A behaviour is one of one of them, its subject.          *)
(*                                                                         *)
(*   Validation  one table x, a bundle that creates it, one that drops it, *)
(*               and one for each stage that may reject                    *)
(*   Containers  two databases, of which one is in a network, and fewer    *)
(*               ports and process ids than would keep them apart          *)
(***************************************************************************)
EXTENDS Validation, Containers

CONSTANTS x, addX, dropX, noTypes, noRun, noSchema, p1, p2

MCTypechecks == Bundles \ {noTypes}
MCEvaluates == Bundles \ {noRun}
MCSchemaRuns == Bundles \ {noSchema}
MCLoads == Bundles \ {noTypes, noRun, noSchema}
MCFns == [b \in Bundles |-> FnType]
MCDeclares == [b \in Bundles |-> IF b = addX THEN {x} ELSE {}]
MCDrops == [b \in Bundles |-> IF b = dropX THEN {x} ELSE {}]
MCAdds == [b \in Bundles |-> IF b = addX THEN {x} ELSE {}]

VARIABLE subject

MCInit == subject \in {"validation", "containers"} /\ ValidationInit /\ ContainersInit

ValidationStep == subject = "validation" /\ ValidationNext /\ UNCHANGED <<subject, containersVars>>
ContainersStep == subject = "containers" /\ ContainersNext /\ UNCHANGED <<subject, validationVars>>

MCNext == ValidationStep \/ ContainersStep

\* The fairness of ValidationFairSpec.
MCValidationFair ==
  /\ WF_validationVars(subject = "validation" /\ Future)
  /\ WF_validationVars(subject = "validation" /\ NetworkCreated)
  /\ \A d \in Dbs : WF_validationVars(subject = "validation" /\ Interrupted(d) /\ BoxGone(d))
  /\ \A h \in Helpers : WF_validationVars(subject = "validation" /\ HelperEnds(h))

\* The fairness of ContainersFairSpec.
MCContainersFair ==
  /\ \A p \in Pgs :
       /\ WF_containersVars(subject = "containers" /\ New(p))
       /\ WF_containersVars(subject = "containers" /\ proc[p].sig /\ Exits(p))
       /\ WF_containersVars(subject = "containers" /\ Reap(p))
  /\ \A c \in [by : Pgs, to : Pgs] : WF_containersVars(subject = "containers" /\ Closed(c))

MCSpec ==
  /\ MCInit /\ [][MCNext]_<<subject, validationVars, containersVars>>
  /\ MCValidationFair /\ MCContainersFair
=============================================================================
