--------------------------- MODULE ValidationProofs ---------------------------
(***************************************************************************)
(* Theorems about Validation, for every set of objects and bundles, and    *)
(* about the temporary Containers it rests on, for any number of           *)
(* databases, ports, process ids and retries.                              *)
(***************************************************************************)
EXTENDS MCValidation, TLAPS

\* The types of the validation's future.
ValType == [pc : ValPcs, prev : (SUBSET Objects) \cup {None},
            bundle : Bundles \cup {None}, result : Results \cup {None},
            fault : BOOLEAN]

\* A step that only moves the future leaves its arguments and its result.
LEMMA ToStep ==
  ASSUME ValidationTypeOK, NEW pc \in ValPcs, To(pc)
  PROVE  /\ val' \in ValType
         /\ val'.pc = pc
         /\ val'.prev = val.prev
         /\ val'.bundle = val.bundle
         /\ val'.result = val.result /\ val'.fault = val.fault
         /\ Before' = Before
BY DEF ValidationTypeOK, To, ValType, Before

\* The schema a migration starts from, and what it makes of it, are schemas.
LEMMA SchemasAreSets ==
  ASSUME ValidationTypeOK, val.bundle \in Bundles
  PROVE  /\ Before \in SUBSET Objects
         /\ Migrate(Before, val.bundle) \in SUBSET Objects
         /\ Declares[val.bundle] \in SUBSET Objects
BY BundlesAssumption DEF ValidationTypeOK, Before, Migrate

\* Whatever ends a validation that has its network keeps the invariant, if the
\* verdict is right.
LEMMA EndsStep ==
  ASSUME ValidationInv, NEW result \in Results \ {"abandoned"}, NEW fault \in BOOLEAN,
         Ends(result, fault),
         val.pc \notin {"idle", "network", "drop", "done"},
         result = "ok" => Validates(Before, val.bundle),
         result \in {"RuntimeRejected", "InvalidMigration"} => ~Validates(Before, val.bundle),
         result \in Reported /\ ~fault => ~Validates(Before, val.bundle),
         helper' \subseteq Helpers
  PROVE  ValidationInv'
<1>1. /\ val' \in ValType
      /\ val'.pc = "drop" /\ val'.prev = val.prev /\ val'.bundle = val.bundle
      /\ val'.result = result /\ val'.fault = fault
      /\ Before' = Before
  BY DEF ValidationInv, ValidationTypeOK, Ends, ValType, ValPcs, Before
<1>2. /\ sig' \subseteq Dbs /\ pg' \in [Dbs -> {"none", "health", "setup", "ready"}]
      /\ UNCHANGED <<creating, network, box>>
  BY DEF ValidationInv, ValidationTypeOK, Ends, Nothing
<1>3. /\ db' \in [Dbs -> [committed : SUBSET Objects, tx : SUBSET Objects]]
      /\ \A d \in Dbs : db'[d].committed = db[d].committed
  BY DEF ValidationInv, ValidationTypeOK, Ends
<1>4. ValidationTypeOK'
  BY <1>1, <1>2, <1>3 DEF ValidationInv, ValidationTypeOK, ValType
<1>5. VerdictIsValidates'
  BY <1>1 DEF VerdictIsValidates
<1>6. OnlyAbandonedLeaves' /\ Undecided'
  BY <1>1 DEF OnlyAbandonedLeaves, Undecided
<1>7. Stages'
  BY <1>1 DEF ValidationInv, Stages
<1>8. NothingCommitted'
  BY <1>3 DEF ValidationInv, NothingCommitted
<1>9. NetworkOwned'
  BY <1>1, <1>2 DEF ValidationInv, NetworkOwned
<1> QED BY <1>4, <1>5, <1>6, <1>7, <1>8, <1>9 DEF ValidationInv

\* A step of podman that leaves the future alone keeps the invariant, if it
\* starts no database of a validation that has ended.
LEMMA PodmanStep ==
  ASSUME ValidationInv, ValidationTypeOK',
         UNCHANGED <<val, db>>,
         val.pc \notin {"network", "done"} => creating' = creating,
         val.pc = "idle" \/ creating' => ~network',
         val.pc \in {"idle", "network"} => box' = Nothing,
         val.pc = "done" /\ val.result # "abandoned" => ~network' /\ ~creating',
         val.pc = "done" => IF val.result = "abandoned" THEN box' = Nothing
                            ELSE \A d \in Dbs : box'[d] # "up"
  PROVE  ValidationInv'
BY DEF ValidationInv, VerdictIsValidates, OnlyAbandonedLeaves, Stages, Undecided,
       NothingCommitted, NetworkOwned, Before

\* A step of the future from one await to the next keeps the invariant, if the
\* bundle has passed what the later stage stands for.
LEMMA AdvanceStep ==
  ASSUME ValidationInv, ValidationTypeOK',
         NEW pc \in ValPcs \ {"idle", "network", "drop", "done"}, To(pc),
         val.pc \notin {"idle", "drop", "done"}, ~creating, creating' = creating,
         \A d \in Dbs : db'[d].committed = db[d].committed,
         pc \in {"evaluate", "schema", "migration", "diff"} => val.bundle \in Typechecks,
         pc \in {"schema", "migration", "diff"} => val.bundle \in Evaluates,
         pc \in {"migration", "diff"} => val.bundle \in SchemaRuns,
         pc = "diff" => MigrationRuns(Before, val.bundle)
  PROVE  ValidationInv'
<1>1. /\ val'.pc = pc /\ val'.bundle = val.bundle /\ val'.result = val.result
      /\ Before' = Before
  BY ToStep DEF ValidationInv
<1>2. val.result = None /\ val.bundle \in Bundles
  BY DEF ValidationInv, Undecided, Stages
<1>3. VerdictIsValidates' /\ Undecided'
  BY <1>1, <1>2, NoneAssumption DEF VerdictIsValidates, Undecided, Results, Reported
<1>4. Stages'
  BY <1>1, <1>2 DEF Stages
<1>5. OnlyAbandonedLeaves' /\ NetworkOwned' /\ NothingCommitted'
  BY <1>1 DEF ValidationInv, OnlyAbandonedLeaves, NetworkOwned, NothingCommitted
<1> QED BY <1>3, <1>4, <1>5 DEF ValidationInv

\* The initial state satisfies the invariant.
LEMMA ValidationInvInit == ValidationInit => ValidationInv
<1> SUFFICES ASSUME ValidationInit PROVE ValidationInv
  OBVIOUS
<1>1. /\ val.pc = "idle" /\ val.result = None /\ ~creating /\ ~network /\ box = Nothing
      /\ \A d \in Dbs : db[d].committed = {}
  BY DEF ValidationInit, EmptyDbs
<1>2. ValidationTypeOK
  BY DEF ValidationInit, ValidationTypeOK, Nothing, EmptyDbs, ValPcs
<1>3. VerdictIsValidates /\ Undecided
  BY <1>1, NoneAssumption DEF VerdictIsValidates, Undecided, Results, Reported
<1>4. OnlyAbandonedLeaves /\ Stages /\ NothingCommitted /\ NetworkOwned
  BY <1>1 DEF OnlyAbandonedLeaves, Stages, NothingCommitted, NetworkOwned
<1> QED BY <1>2, <1>3, <1>4 DEF ValidationInv

\* Every step keeps the invariant: a step is one of podman's, one from an await
\* to the next, an end of the validation, or the removal of the network.
LEMMA ValidationInvStep == ValidationInv /\ [ValidationNext]_validationVars => ValidationInv'
<1> SUFFICES ASSUME ValidationInv, [ValidationNext]_validationVars
             PROVE  ValidationInv'
  OBVIOUS
<1>t. ValidationTypeOK
  BY DEF ValidationInv
<1>d. /\ Dbs = {"schema", "migration"}
      /\ \A d \in Dbs : db[d].committed = {}
  BY DEF ValidationInv, NothingCommitted, Dbs
<1>1. CASE UNCHANGED validationVars
  BY <1>1 DEF validationVars, ValidationInv, ValidationTypeOK, VerdictIsValidates,
     OnlyAbandonedLeaves, Stages, Undecided, NothingCommitted, NetworkOwned, Before
<1>2. ASSUME NEW prev \in (SUBSET Objects) \cup {None}, NEW b \in Bundles, Start(prev, b)
      PROVE  ValidationInv'
  <2>1. /\ val' \in ValType /\ val'.pc = "network" /\ val'.bundle = b
        /\ val'.result = None
    BY <1>2 DEF Start, At, ValidationInv, ValidationTypeOK, Undecided, ValType, ValPcs
  <2>2. creating' = TRUE /\ UNCHANGED <<network, pg, box, sig, helper, db>>
        /\ box = Nothing /\ ~network
    BY <1>2 DEF Start, At, ValidationInv, NetworkOwned
  <2>3. ValidationTypeOK'
    BY <1>t, <2>1, <2>2 DEF ValidationTypeOK, ValType
  <2>4. VerdictIsValidates' /\ OnlyAbandonedLeaves' /\ Stages' /\ Undecided'
    BY <2>1, NoneAssumption DEF VerdictIsValidates, OnlyAbandonedLeaves, Stages, Undecided,
       Results, Reported
  <2>5. NothingCommitted' /\ NetworkOwned'
    BY <2>1, <2>2 DEF ValidationInv, NothingCommitted, NetworkOwned
  <2> QED BY <2>3, <2>4, <2>5 DEF ValidationInv
<1>3. CASE SpawnBoth
  <2>1. val'.pc = "spawn" /\ val' \in ValType
    BY <1>3, <1>t, ToStep DEF SpawnBoth, ValPcs
  <2>2. ValidationTypeOK'
    BY <1>3, <1>t, <2>1 DEF SpawnBoth, ValidationTypeOK, ValType
  <2> QED BY <1>3, <2>2, AdvanceStep DEF SpawnBoth, At, ValPcs
<1>4. ASSUME NEW d \in Dbs, Healthy(d) \/ SetUp(d)
      PROVE  ValidationInv'
  <2>1. ValidationTypeOK' /\ UNCHANGED <<val, creating, network, box, db>>
    BY <1>4, <1>t DEF Healthy, SetUp, ValidationTypeOK
  <2> QED BY <2>1, PodmanStep DEF ValidationInv, NetworkOwned, OnlyAbandonedLeaves
<1>5. CASE Joined
  <2>1. val' \in ValType
    BY <1>5, <1>t, ToStep DEF Joined, ValPcs
  <2>2. ValidationTypeOK'
    BY <1>5, <1>t, <2>1 DEF Joined, ValidationTypeOK, ValType, Helpers
  <2> QED BY <1>5, <2>2, AdvanceStep DEF Joined, At, ValPcs, ValidationInv, NetworkOwned
<1>6. CASE TscAccepts
  <2>1. val' \in ValType
    BY <1>6, <1>t, ToStep DEF TscAccepts, ValPcs
  <2>2. ValidationTypeOK'
    BY <1>6, <1>t, <2>1 DEF TscAccepts, ValidationTypeOK, ValType, Helpers
  <2> QED BY <1>6, <2>2, AdvanceStep DEF TscAccepts, At, ValPcs, ValidationInv, NetworkOwned
<1>7. CASE RuntimeAccepts
  <2>1. val' \in ValType
    BY <1>7, <1>t, ToStep DEF RuntimeAccepts, ValPcs
  <2>2. ValidationTypeOK'
    BY <1>7, <1>t, <2>1 DEF RuntimeAccepts, ValidationTypeOK, ValType
  <2>3. val.bundle \in Typechecks
    BY <1>7 DEF RuntimeAccepts, At, ValidationInv, Stages
  <2> QED BY <1>7, <2>2, <2>3, AdvanceStep
          DEF RuntimeAccepts, At, ValPcs, ValidationInv, NetworkOwned
<1>8. CASE ExecSchema
  <2>1. val' \in ValType
    BY <1>8, <1>t, ToStep DEF ExecSchema, ValPcs
  <2>2. Declares[val.bundle] \in SUBSET Objects
    BY <1>8, <1>t, SchemasAreSets DEF ExecSchema, At, ValidationInv, Stages
  <2>3. /\ db' \in [Dbs -> [committed : SUBSET Objects, tx : SUBSET Objects]]
        /\ \A d \in Dbs : db'[d].committed = db[d].committed
    BY <1>8, <1>t, <1>d, <2>2 DEF ExecSchema, ValidationTypeOK
  <2>4. ValidationTypeOK'
    BY <1>8, <1>t, <2>1, <2>3 DEF ExecSchema, ValidationTypeOK, ValType
  <2>5. val.bundle \in Typechecks /\ val.bundle \in Evaluates
    BY <1>8 DEF ExecSchema, At, ValidationInv, Stages
  <2> QED BY <1>8, <2>3, <2>4, <2>5, AdvanceStep
          DEF ExecSchema, At, ValPcs, ValidationInv, NetworkOwned
<1>9. CASE ExecMigration
  <2>1. val' \in ValType
    BY <1>9, <1>t, ToStep DEF ExecMigration, ValPcs
  <2>2. Migrate(Before, val.bundle) \in SUBSET Objects
    BY <1>9, <1>t, SchemasAreSets DEF ExecMigration, At, ValidationInv, Stages
  <2>3. /\ db' \in [Dbs -> [committed : SUBSET Objects, tx : SUBSET Objects]]
        /\ \A d \in Dbs : db'[d].committed = db[d].committed
    BY <1>9, <1>t, <1>d, <2>2 DEF ExecMigration, ValidationTypeOK
  <2>4. ValidationTypeOK'
    BY <1>9, <1>t, <2>1, <2>3 DEF ExecMigration, ValidationTypeOK, ValType, Helpers
  <2>5. val.bundle \in Typechecks /\ val.bundle \in Evaluates /\ val.bundle \in SchemaRuns
    BY <1>9 DEF ExecMigration, At, ValidationInv, Stages
  <2> QED BY <1>9, <2>3, <2>4, <2>5, AdvanceStep
          DEF ExecMigration, At, ValPcs, ValidationInv, NetworkOwned
<1>10. CASE TscRejects
  <2>1. ~Validates(Before, val.bundle)
    BY <1>10, LoadsAssumption DEF TscRejects, Validates
  <2> QED BY <1>10, <1>t, <2>1, EndsStep
          DEF TscRejects, At, Results, Reported, ValidationTypeOK
<1>11. CASE RuntimeRejects
  <2>1. ~Validates(Before, val.bundle)
    BY <1>11, LoadsAssumption DEF RuntimeRejects, Validates
  <2> QED BY <1>11, <1>t, <2>1, EndsStep
          DEF RuntimeRejects, At, Results, Reported, ValidationTypeOK
<1>12. CASE SchemaRejected
  <2>1. ~Validates(Before, val.bundle)
    BY <1>12, LoadsAssumption DEF SchemaRejected, Validates
  <2> QED BY <1>12, <1>t, <2>1, EndsStep
          DEF SchemaRejected, At, Results, Reported, ValidationTypeOK
<1>13. CASE MigrationRejected
  <2>1. ~Validates(Before, val.bundle)
    BY <1>13 DEF MigrationRejected, Validates
  <2> QED BY <1>13, <1>t, <2>1, EndsStep
          DEF MigrationRejected, At, Results, Reported, ValidationTypeOK
<1>14. CASE DiffEnds
  <2>1. Validates(Before, val.bundle)
    BY <1>14, LoadsAssumption
       DEF DiffEnds, At, ValidationInv, Stages, Validates, DiffIsEmpty, VisibleToDiff
  <2>2. Committed("schema") = Committed("migration")
    BY <1>d DEF Committed
  <2>3. Ends("ok", FALSE) /\ helper' \subseteq Helpers
    BY <1>14, <1>t, <2>2 DEF DiffEnds, ValidationTypeOK
  <2> QED BY <1>14, <2>1, <2>3, EndsStep DEF DiffEnds, At, Results, Reported
<1>15. CASE Fails
  <2>1. PICK error \in Reported : <<val.pc, error>> \in FailsWith /\ Ends(error, TRUE)
    BY <1>15 DEF Fails
  <2>2. helper' \subseteq Helpers /\ val.pc \in {"spawn", "tsc", "schema", "migration", "diff"}
    BY <1>15, <1>t, <2>1 DEF Fails, FailsWith, ValidationTypeOK
  <2>3. error \in Results \ {"abandoned"} /\ error \notin {"ok", "RuntimeRejected", "InvalidMigration"}
    BY <2>1 DEF FailsWith, Results, Reported
  <2> QED BY <2>1, <2>2, <2>3, EndsStep
<1>16. CASE Cancelled
  BY <1>16, <1>t, EndsStep DEF Cancelled, Results, Reported, ValidationTypeOK
<1>17. CASE NoPodman \/ Abandoned
  <2>1. /\ val' \in ValType /\ val'.pc = "done" /\ val'.bundle = val.bundle
        /\ val'.result \in {"Io", "abandoned"}
        /\ val'.result = "Io" => NoPodman /\ val'.fault
    BY <1>17, <1>t
       DEF NoPodman, Abandoned, ValidationTypeOK, ValType, ValPcs, Results, Reported
  <2>2. creating' \in BOOLEAN /\ UNCHANGED <<network, pg, box, sig, helper, db>>
    BY <1>17, <1>t DEF NoPodman, Abandoned, ValidationTypeOK
  <2>3. /\ box = Nothing /\ val.bundle \in Bundles
        /\ creating => ~network
        /\ creating' => creating
        /\ NoPodman => creating' = FALSE /\ ~network'
    BY <1>17 DEF NoPodman, Abandoned, At, ValidationInv, NetworkOwned, Stages
  <2>4. ValidationTypeOK'
    BY <1>t, <2>1, <2>2 DEF ValidationTypeOK, ValType
  <2>5. VerdictIsValidates' /\ Stages' /\ Undecided'
    BY <2>1, <2>3 DEF VerdictIsValidates, Reported, Stages, Undecided
  <2>6. OnlyAbandonedLeaves'
    BY <2>1, <2>3 DEF OnlyAbandonedLeaves
  <2>7. NothingCommitted' /\ NetworkOwned'
    BY <2>1, <2>2, <2>3 DEF ValidationInv, NothingCommitted, NetworkOwned, Nothing
  <2> QED BY <2>4, <2>5, <2>6, <2>7 DEF ValidationInv
<1>18. CASE RemoveNetwork
  <2>1. /\ val'.pc = "done" /\ val' \in ValType /\ val'.prev = val.prev
        /\ val'.bundle = val.bundle /\ val'.result = val.result /\ val'.fault = val.fault /\ Before' = Before
    BY <1>18, <1>t, ToStep DEF RemoveNetwork, ValPcs
  <2>2. /\ network' = FALSE /\ creating' = creating /\ db' = db
        /\ box' \in [Dbs -> {"none", "starting"}]
    BY <1>18, <1>t DEF RemoveNetwork, ValidationTypeOK
  <2>3. ValidationTypeOK'
    BY <1>18, <1>t, <2>1, <2>2 DEF RemoveNetwork, ValidationTypeOK, ValType
  <2>4. VerdictIsValidates' /\ Stages' /\ Undecided' /\ NothingCommitted'
    BY <1>18, <2>1, <2>2 DEF RemoveNetwork, At, ValidationInv, VerdictIsValidates, Stages,
       Undecided, NothingCommitted
  <2>5. ~creating
    BY <1>18 DEF RemoveNetwork, At, ValidationInv, NetworkOwned
  <2>6. val.result # "abandoned"
    BY <1>18 DEF RemoveNetwork, At, ValidationInv, Undecided
  <2> QED BY <2>1, <2>2, <2>3, <2>4, <2>5, <2>6 DEF ValidationInv, OnlyAbandonedLeaves, NetworkOwned
<1>19. CASE NetworkCreated
  <2>1. ValidationTypeOK' /\ UNCHANGED <<val, box, db>>
    BY <1>19, <1>t DEF NetworkCreated, ValidationTypeOK
  <2> QED BY <1>19, <2>1, PodmanStep
          DEF NetworkCreated, ValidationInv, NetworkOwned, OnlyAbandonedLeaves
<1>20. ASSUME NEW d \in Dbs, BoxUp(d) \/ BoxGone(d)
       PROVE  ValidationInv'
  <2>1. ValidationTypeOK' /\ UNCHANGED <<val, creating, network, db>>
    BY <1>20, <1>t DEF BoxUp, BoxGone, ValidationTypeOK
  <2>2. box # Nothing
    BY <1>20 DEF BoxUp, BoxGone, Nothing
  <2>3. \A c \in Dbs : box'[c] = "up" => box[c] = "up" \/ network
    BY <1>20, <1>t DEF BoxUp, BoxGone, ValidationTypeOK
  <2> QED BY <2>1, <2>2, <2>3, PodmanStep DEF ValidationInv, NetworkOwned, OnlyAbandonedLeaves
<1>21. ASSUME NEW h \in Helpers, HelperEnds(h)
       PROVE  ValidationInv'
  <2>1. ValidationTypeOK' /\ UNCHANGED <<val, creating, network, box, db>>
    BY <1>21, <1>t DEF HelperEnds, ValidationTypeOK
  <2> QED BY <2>1, PodmanStep DEF ValidationInv, NetworkOwned, OnlyAbandonedLeaves
<1> QED
  BY <1>1, <1>2, <1>3, <1>4, <1>5, <1>6, <1>7, <1>8, <1>9, <1>10, <1>11, <1>12, <1>13,
     <1>14, <1>15, <1>16, <1>17, <1>18, <1>19, <1>20, <1>21
     DEF ValidationNext, Future

-----------------------------------------------------------------------------
\* A validation, put together from its stages, its two databases and everything
\* that may fail or be cancelled between them, accepts only what Validates, which
\* Rulesets takes for a whole one, and refuses nothing else unless podman or a
\* database fails (validate_bundled_ruleset_top).
THEOREM VerdictSound == ValidationSpec => []VerdictIsValidates
<1>1. ValidationInv => VerdictIsValidates
  BY DEF ValidationInv
<1> QED BY <1>1, ValidationInvInit, ValidationInvStep, PTL DEF ValidationSpec

\* The validation, its two databases and what it started keep their types.
THEOREM ValidationTyped == ValidationSpec => []ValidationTypeOK
<1>1. ValidationInv => ValidationTypeOK
  BY DEF ValidationInv
<1> QED BY <1>1, ValidationInvInit, ValidationInvStep, PTL DEF ValidationSpec

\* The network of a validation goes away with it, however it ends, unless the
\* future is dropped in TempPodmanNetwork::new.
THEOREM NetworkGoes == ValidationSpec => []OnlyAbandonedLeaves
<1>1. ValidationInv => OnlyAbandonedLeaves
  BY DEF ValidationInv
<1> QED BY <1>1, ValidationInvInit, ValidationInvStep, PTL DEF ValidationSpec

\* No database of a validation that has ended comes up later: the "podman run"
\* that was interrupted too early finds no network.
THEOREM StartsNothing == ValidationSpec => NothingStartsLater
<1> DEFINE Later == val.pc = "done" => \A d \in Dbs : box'[d] = "up" => box[d] = "up"
<1>1. ValidationInv /\ [ValidationNext]_validationVars => [Later]_validationVars
  <2> SUFFICES ASSUME ValidationInv, ValidationNext, val.pc = "done"
               PROVE  \A d \in Dbs : box'[d] = "up" => box[d] = "up"
    OBVIOUS
  <2>1. box \in [Dbs -> {"none", "starting", "up"}]
    BY DEF ValidationInv, ValidationTypeOK
  <2>2. \A d \in Dbs : ~BoxUp(d)
    BY DEF BoxUp, ValidationInv, NetworkOwned, OnlyAbandonedLeaves, Nothing
  <2>3. CASE UNCHANGED box
    BY <2>3
  <2>4. ASSUME NEW d \in Dbs, BoxGone(d)
        PROVE  \A c \in Dbs : box'[c] = "up" => box[c] = "up"
    BY <2>1, <2>4 DEF BoxGone
  <2>5. ~Future
    BY DEF Future, SpawnBoth, Healthy, SetUp, Joined, TscAccepts, TscRejects, RuntimeAccepts,
       RuntimeRejects, ExecSchema, SchemaRejected, ExecMigration, MigrationRejected,
       DiffEnds, Fails, FailsWith, RemoveNetwork, At
  <2>6. ~Cancelled
    BY DEF Cancelled
  <2>7. (\E prev \in (SUBSET Objects) \cup {None}, b \in Bundles : Start(prev, b)) \/ NoPodman
          \/ Abandoned \/ NetworkCreated \/ (\E h \in Helpers : HelperEnds(h))
        => UNCHANGED box
    BY DEF Start, NoPodman, Abandoned, NetworkCreated, HelperEnds
  <2> QED BY <2>2, <2>3, <2>4, <2>5, <2>6, <2>7 DEF ValidationNext
<1> QED
  BY <1>1, ValidationInvInit, ValidationInvStep, PTL DEF ValidationSpec, NothingStartsLater

\* What a validation's databases are while it runs, and after it: both futures
\* have their "podman run", and one that is still there after the end, however it
\* came, has its SIGINT or no network any more.
Running == {"spawn", "tsc", "evaluate", "schema", "migration", "diff"}
EndedInterrupts ==
  /\ val.pc \in Running => \A d \in Dbs : pg[d] # "none"
  /\ val.pc \in {"drop", "done"} => \A d \in Dbs : box[d] # "none" => Interrupted(d)

\* The end of a validation interrupts what it has started, or takes its network:
\* what is left of it has been told to stop (GracefulChild::drop, lib.rs:38).
THEOREM LeavesInterrupted == ValidationSpec => []EndedInterrupts
<1>1. ValidationInit => EndedInterrupts
  BY DEF ValidationInit, EndedInterrupts, Running
<1>2. ValidationInv /\ EndedInterrupts /\ [ValidationNext]_validationVars => EndedInterrupts'
  <2> SUFFICES ASSUME ValidationInv, EndedInterrupts, [ValidationNext]_validationVars
               PROVE  EndedInterrupts'
    OBVIOUS
  <2>t. /\ val \in ValType
        /\ pg \in [Dbs -> {"none", "health", "setup", "ready"}]
        /\ box \in [Dbs -> {"none", "starting", "up"}]
    BY DEF ValidationInv, ValidationTypeOK, ValType
  <2>1. CASE UNCHANGED validationVars
    BY <2>1 DEF validationVars, EndedInterrupts, Interrupted
  <2>2. ASSUME NEW prev \in (SUBSET Objects) \cup {None}, NEW b \in Bundles, Start(prev, b)
        PROVE  EndedInterrupts'
    <3>1. val'.pc = "network"
      BY <2>t, <2>2 DEF Start, ValType
    <3> QED BY <3>1 DEF EndedInterrupts, Running
  <2>3. CASE SpawnBoth
    <3>1. val'.pc = "spawn" /\ pg' = [d \in Dbs |-> "health"]
      BY <2>t, <2>3 DEF SpawnBoth, To, ValType
    <3> QED BY <3>1 DEF EndedInterrupts, Running
  <2>4. ASSUME NEW d \in Dbs, Healthy(d) \/ SetUp(d)
        PROVE  EndedInterrupts'
    <3>1. At("spawn") /\ val' = val /\ \A c \in Dbs : pg'[c] \in {pg[c], "setup", "ready"}
      BY <2>t, <2>4 DEF Healthy, SetUp
    <3> QED BY <3>1 DEF EndedInterrupts, Running, At
  <2>5. CASE \E pc \in Running : To(pc) /\ val.pc \in Running /\ pg' = pg
    <3>1. val'.pc \in Running
      BY <2>t, <2>5 DEF To, ValType
    <3> QED BY <2>5, <3>1 DEF EndedInterrupts, Running
  <2>6. ASSUME NEW result \in Results, NEW fault \in BOOLEAN, Ends(result, fault),
                val.pc \in Running
        PROVE  EndedInterrupts'
    <3>1. val'.pc = "drop" /\ sig' = sig \cup {d \in Dbs : pg[d] # "none"}
      BY <2>t, <2>6 DEF Ends, ValType
    <3>2. Dbs \subseteq sig'
      BY <2>6, <3>1 DEF EndedInterrupts
    <3> QED BY <3>1, <3>2 DEF EndedInterrupts, Running, Interrupted
  <2>7. CASE NoPodman \/ Abandoned
    <3>1. val'.pc = "done" /\ box' = Nothing
      BY <2>t, <2>7 DEF NoPodman, Abandoned, At, ValType, ValidationInv, NetworkOwned
    <3> QED BY <3>1 DEF EndedInterrupts, Running, Nothing
  <2>8. CASE RemoveNetwork
    <3>1. val'.pc = "done" /\ ~network'
      BY <2>t, <2>8 DEF RemoveNetwork, To, ValType
    <3> QED BY <3>1 DEF EndedInterrupts, Running, Interrupted
  <2>9. CASE NetworkCreated
    <3>1. UNCHANGED <<val, pg, box, sig>>
      BY <2>9 DEF NetworkCreated
    <3>2. val.pc \in {"drop", "done"} => \A d \in Dbs : box[d] = "none"
      BY <2>9 DEF NetworkCreated, ValidationInv, NetworkOwned, OnlyAbandonedLeaves, Nothing
    <3> QED BY <3>1, <3>2 DEF EndedInterrupts
  <2>10. ASSUME NEW d \in Dbs, BoxUp(d) \/ BoxGone(d)
         PROVE  EndedInterrupts'
    <3>1. /\ UNCHANGED <<val, pg, sig, network>>
          /\ \A c \in Dbs : box'[c] # "none" => box[c] # "none"
      BY <2>t, <2>10 DEF BoxUp, BoxGone
    <3> QED BY <3>1 DEF EndedInterrupts, Interrupted
  <2>11. ASSUME NEW h \in Helpers, HelperEnds(h)
         PROVE  EndedInterrupts'
    BY <2>11 DEF HelperEnds, EndedInterrupts, Interrupted
  <2>12. Joined \/ TscAccepts \/ RuntimeAccepts \/ ExecSchema \/ ExecMigration
           => \E pc \in Running : To(pc) /\ val.pc \in Running /\ pg' = pg
    BY DEF Joined, TscAccepts, RuntimeAccepts, ExecSchema, ExecMigration, At, Running
  <2>13. TscRejects \/ RuntimeRejects \/ SchemaRejected \/ MigrationRejected \/ DiffEnds
            \/ Cancelled
           => val.pc \in Running /\ \E result \in Results : Ends(result, FALSE)
    BY DEF TscRejects, RuntimeRejects, SchemaRejected, MigrationRejected, DiffEnds,
           Cancelled, At, Running, Results, Reported
  <2>14. Fails => val.pc \in Running /\ \E result \in Results : Ends(result, TRUE)
    BY DEF Fails, FailsWith, Running, Results, Reported
  <2> QED
    BY <2>1, <2>2, <2>3, <2>4, <2>5, <2>6, <2>7, <2>8, <2>9, <2>10, <2>11, <2>12, <2>13,
       <2>14
       DEF ValidationNext, Future
<1> QED
  BY <1>1, <1>2, ValidationInvInit, ValidationInvStep, PTL DEF ValidationSpec

-----------------------------------------------------------------------------
(* Temporary databases: a connection reaches the container of the value   *)
(* that lends it, and only processes spawned here are interrupted          *)

USE DEF Ended

LEMMA ContainersInvInit == ContainersInit => ContainersInv
<1>. SUFFICES ASSUME ContainersInit PROVE ContainersInv
  OBVIOUS
<1>1. 0 \in 0..MaxPolls
  BY ContainersAssumption
<1>2. ContainersTypeOK
  BY <1>1 DEF ContainersInit, ContainersTypeOK, PgValues, PgPcs, Processes, Boxes
<1>3. OwnDatabase /\ SignalsOwn /\ PortsDiffer /\ PortKnown /\ IdsKept /\ RemovedWithNetwork
  BY DEF ContainersInit, OwnDatabase, SignalsOwn, PortsDiffer, PortKnown, IdsKept,
         RemovedWithNetwork, Holds
<1>. QED
  BY <1>2, <1>3 DEF ContainersInv

\* A value's end interrupts its own process, and nobody else's.
LEMMA KillsOwn ==
  ASSUME ContainersInv, NEW p \in Pgs, temp[p].pc \in {"port", "health", "ready"}, Kill(p)
  PROVE  /\ hit' = hit
         /\ proc' \in [Pgs -> Processes]
         /\ \A q \in Pgs : proc'[q].at = proc[q].at /\ proc'[q].pid = proc[q].pid
         /\ \A q \in Pgs : q # p => proc'[q].sig = proc[q].sig
         /\ proc[p].at = "running" => proc'[p].sig
<1>1. proc[p].pid \in Pids /\ owner[proc[p].pid] = p
  BY DEF ContainersInv, IdsKept
<1>2. hit' = hit
  <2>1. owner[proc[p].pid] # Other
    BY <1>1, ContainersAssumption
  <2>2. hit' = (hit \/ owner[proc[p].pid] = Other)
    BY DEF Kill
  <2>. QED
    BY <2>1, <2>2 DEF ContainersInv, ContainersTypeOK
<1>3. proc' = [q \in Pgs |-> IF q = p /\ proc[q].at = "running"
                             THEN [at |-> "running", pid |-> proc[q].pid, sig |-> TRUE]
                             ELSE proc[q]]
  BY <1>1 DEF Kill
<1>4. hit' = hit /\ proc' \in [Pgs -> Processes]
  BY <1>2, <1>3 DEF ContainersInv, ContainersTypeOK, Processes
<1>. QED
  BY <1>3, <1>4 DEF ContainersInv, ContainersTypeOK, Processes

LEMMA PcTyped ==
  ASSUME ContainersTypeOK, NEW p \in Pgs, NEW pc \in PgPcs, temp' = [temp EXCEPT ![p].pc = pc]
  PROVE  temp' \in [Pgs -> PgValues]
BY DEF ContainersTypeOK, PgValues

LEMMA PollsTyped ==
  ASSUME ContainersTypeOK, NEW p \in Pgs, temp[p].polls < MaxPolls,
         temp' = [temp EXCEPT ![p].polls = @ + 1]
  PROVE  temp' \in [Pgs -> PgValues]
<1>1. temp[p].polls + 1 \in 0..MaxPolls
  BY ContainersAssumption DEF ContainersTypeOK, PgValues
<1>. QED
  BY <1>1 DEF ContainersTypeOK, PgValues

LEMMA ProcTyped ==
  ASSUME ContainersTypeOK, NEW p \in Pgs, NEW at \in {"exited", "reaped"},
         proc' = [proc EXCEPT ![p].at = at]
  PROVE  proc' \in [Pgs -> Processes]
BY DEF ContainersTypeOK, Processes

LEMMA BoxTyped ==
  ASSUME ContainersTypeOK, NEW p \in Pgs, NEW at \in {"serving", "removed", "died"},
         container' = [container EXCEPT ![p].at = at]
  PROVE  container' \in [Pgs -> Boxes]
BY DEF ContainersTypeOK, Boxes

LEMMA StepKeepsInv ==
  ASSUME ContainersInv, ContainersNext
  PROVE  ContainersInv'
<1>. USE ContainersAssumption DEF ContainersInv
<1>1. ASSUME NewNetwork
      PROVE  ContainersInv'
  <2>1. ContainersTypeOK'
    BY <1>1 DEF NewNetwork, ContainersTypeOK, PgValues, PgPcs, Processes, Boxes, containersVars
  <2>2. OwnDatabase'
    BY <1>1 DEF NewNetwork, ContainersTypeOK, PgValues, Processes, Boxes, OwnDatabase, Holds
  <2>3. SignalsOwn' /\ PortsDiffer'
    BY <1>1 DEF NewNetwork, ContainersTypeOK, PgValues, Processes, Boxes, SignalsOwn, PortsDiffer, Holds
  <2>4. PortKnown'
    BY <1>1 DEF NewNetwork, ContainersTypeOK, PgValues, Processes, Boxes, PortKnown, Holds
  <2>5. IdsKept'
    BY <1>1 DEF NewNetwork, ContainersTypeOK, PgValues, Processes, Boxes, IdsKept
  <2>6. RemovedWithNetwork'
    BY <1>1 DEF NewNetwork, ContainersTypeOK, PgValues, Processes, Boxes, RemovedWithNetwork, Holds
  <2>. QED
    BY <2>1, <2>2, <2>3, <2>4, <2>5, <2>6
<1>2. ASSUME DropNetwork
      PROVE  ContainersInv'
  <2>1. ContainersTypeOK'
    BY <1>2 DEF DropNetwork, ContainersTypeOK, PgValues, PgPcs, Processes, Boxes, containersVars
  <2>2. OwnDatabase'
    BY <1>2 DEF DropNetwork, ContainersTypeOK, PgValues, Processes, Boxes, OwnDatabase, Holds
  <2>3. SignalsOwn' /\ PortsDiffer'
    BY <1>2 DEF DropNetwork, ContainersTypeOK, PgValues, Processes, Boxes, SignalsOwn, PortsDiffer, Holds
  <2>4. PortKnown'
    BY <1>2 DEF DropNetwork, ContainersTypeOK, PgValues, Processes, Boxes, PortKnown, Holds
  <2>5. IdsKept'
    <3>1. UNCHANGED <<temp, proc, owner>>
      BY <1>2 DEF DropNetwork
    <3>2. ASSUME NEW q \in Pgs
          PROVE  container'[q] = container[q] \/ (container[q].at # "none" /\ container'[q].at = "removed")
      <4>1. container'[q] = IF q \in Networked /\ Holds(q)
                      THEN [at |-> "removed", port |-> container[q].port] ELSE container[q]
        BY <1>2 DEF DropNetwork
      <4>. QED
        BY <4>1 DEF Holds
    <3>. QED
      BY <3>1, <3>2 DEF IdsKept
  <2>6. RemovedWithNetwork'
    BY <1>2 DEF DropNetwork, ContainersTypeOK, PgValues, Processes, Boxes, RemovedWithNetwork, Holds
  <2>. QED
    BY <2>1, <2>2, <2>3, <2>4, <2>5, <2>6
<1>3. ASSUME NEW p \in Pgs, NotSpawned(p)
      PROVE  ContainersInv'
  <2>1. ContainersTypeOK'
    BY <1>3 DEF NotSpawned, Usable, ContainersTypeOK, PgValues, PgPcs, Processes, Boxes, containersVars
  <2>2. OwnDatabase'
    BY <1>3 DEF NotSpawned, Usable, ContainersTypeOK, PgValues, Processes, Boxes, OwnDatabase, Holds
  <2>3. SignalsOwn' /\ PortsDiffer'
    <3>1. /\ UNCHANGED <<proc, container, hit>> /\ proc[p].at = "none"
          /\ \A q \in Pgs : q # p => temp'[q] = temp[q]
      BY <1>3 DEF NotSpawned, IdsKept
    <3>. QED
      BY <3>1 DEF SignalsOwn, PortsDiffer, Holds
  <2>4. PortKnown'
    BY <1>3 DEF NotSpawned, Usable, ContainersTypeOK, PgValues, Processes, Boxes, PortKnown, Holds
  <2>5. IdsKept'
    <3>1. /\ UNCHANGED <<proc, owner, container>>
          /\ \A q \in Pgs : q # p => temp'[q] = temp[q]
          /\ temp'[p].pc = "failed"
      BY <1>3 DEF NotSpawned, ContainersTypeOK, PgValues
    <3>2. proc[p].at = "none" /\ "failed" \in Ended
      BY <1>3 DEF NotSpawned, IdsKept
    <3>. QED
      BY <3>1, <3>2 DEF IdsKept
  <2>6. RemovedWithNetwork'
    BY <1>3 DEF NotSpawned, Usable, ContainersTypeOK, PgValues, Processes, Boxes, RemovedWithNetwork, Holds
  <2>. QED
    BY <2>1, <2>2, <2>3, <2>4, <2>5, <2>6
<1>4. ASSUME NEW p \in Pgs, PortFound(p)
      PROVE  ContainersInv'
  <2>1. ContainersTypeOK'
    BY <1>4 DEF PortFound, ContainersTypeOK, PgValues, PgPcs, Processes, Boxes, containersVars
  <2>2. OwnDatabase'
    BY <1>4 DEF PortFound, ContainersTypeOK, PgValues, Processes, Boxes, OwnDatabase, Holds
  <2>3. SignalsOwn' /\ PortsDiffer'
    BY <1>4 DEF PortFound, ContainersTypeOK, PgValues, Processes, Boxes, SignalsOwn, PortsDiffer, Holds
  <2>4. PortKnown'
    BY <1>4 DEF PortFound, ContainersTypeOK, PgValues, Processes, Boxes, PortKnown, Holds
  <2>5. IdsKept'
    BY <1>4 DEF PortFound, ContainersTypeOK, PgValues, Processes, Boxes, IdsKept
  <2>6. RemovedWithNetwork'
    BY <1>4 DEF PortFound, ContainersTypeOK, PgValues, Processes, Boxes, RemovedWithNetwork, Holds
  <2>. QED
    BY <2>1, <2>2, <2>3, <2>4, <2>5, <2>6
<1>5. ASSUME NEW p \in Pgs, Waits(p)
      PROVE  ContainersInv'
  <2>1. ContainersTypeOK'
    <3>1. temp' = [temp EXCEPT ![p].polls = @ + 1] /\ temp[p].polls < MaxPolls
      BY <1>5 DEF Waits, PollAgain
    <3>2. temp' \in [Pgs -> PgValues]
      BY <3>1, PollsTyped
    <3>. QED
      BY <1>5, <3>2 DEF Waits, PollAgain, ContainersTypeOK
  <2>2. OwnDatabase'
    BY <1>5 DEF Waits, PollAgain, ContainersTypeOK, PgValues, Processes, Boxes, OwnDatabase, Holds
  <2>3. SignalsOwn' /\ PortsDiffer'
    <3>1. temp' = [temp EXCEPT ![p].polls = @ + 1] /\ UNCHANGED <<proc, container, hit>>
      BY <1>5 DEF Waits, PollAgain
    <3>2. \A q \in Pgs : temp'[q].pc = temp[q].pc
      BY <3>1 DEF ContainersTypeOK, PgValues
    <3>. QED
      BY <3>1, <3>2 DEF SignalsOwn, PortsDiffer, Holds
  <2>4. PortKnown'
    <3>1. temp' = [temp EXCEPT ![p].polls = @ + 1]
      BY <1>5 DEF Waits, PollAgain
    <3>2. \A q \in Pgs : temp'[q].pc = temp[q].pc /\ temp'[q].port = temp[q].port
      BY <3>1 DEF ContainersTypeOK, PgValues
    <3>. QED
      BY <1>5, <3>2 DEF Waits, PollAgain, PortKnown, Holds
  <2>5. IdsKept'
    <3>1. temp' = [temp EXCEPT ![p].polls = @ + 1] /\ UNCHANGED <<proc, owner, container>>
      BY <1>5 DEF Waits, PollAgain
    <3>2. \A q \in Pgs : temp'[q].pc = temp[q].pc
      BY <3>1 DEF ContainersTypeOK, PgValues
    <3>. QED
      BY <3>1, <3>2 DEF IdsKept
  <2>6. RemovedWithNetwork'
    BY <1>5 DEF Waits, PollAgain, ContainersTypeOK, PgValues, Processes, Boxes, RemovedWithNetwork, Holds
  <2>. QED
    BY <2>1, <2>2, <2>3, <2>4, <2>5, <2>6
<1>6. ASSUME NEW p \in Pgs, FoundHealthy(p)
      PROVE  ContainersInv'
  <2>1. ContainersTypeOK'
    BY <1>6 DEF FoundHealthy, ContainersTypeOK, PgValues, PgPcs, Processes, Boxes, containersVars
  <2>2. OwnDatabase'
    BY <1>6 DEF FoundHealthy, ContainersTypeOK, PgValues, Processes, Boxes, OwnDatabase, Holds
  <2>3. SignalsOwn' /\ PortsDiffer'
    BY <1>6 DEF FoundHealthy, ContainersTypeOK, PgValues, Processes, Boxes, SignalsOwn, PortsDiffer, Holds
  <2>4. PortKnown'
    BY <1>6 DEF FoundHealthy, ContainersTypeOK, PgValues, Processes, Boxes, PortKnown, Holds
  <2>5. IdsKept'
    BY <1>6 DEF FoundHealthy, ContainersTypeOK, PgValues, Processes, Boxes, IdsKept
  <2>6. RemovedWithNetwork'
    BY <1>6 DEF FoundHealthy, ContainersTypeOK, PgValues, Processes, Boxes, RemovedWithNetwork, Holds
  <2>. QED
    BY <2>1, <2>2, <2>3, <2>4, <2>5, <2>6
<1>7. ASSUME NEW p \in Pgs, Started(p)
      PROVE  ContainersInv'
  <2>1. ContainersTypeOK'
    BY <1>7 DEF Started, ContainersTypeOK, PgValues, PgPcs, Processes, Boxes, containersVars
  <2>2. OwnDatabase'
    BY <1>7 DEF Started, ContainersTypeOK, PgValues, Processes, Boxes, OwnDatabase, Holds
  <2>3. SignalsOwn' /\ PortsDiffer'
    BY <1>7 DEF Started, ContainersTypeOK, PgValues, Processes, Boxes, SignalsOwn, PortsDiffer, Holds
  <2>4. PortKnown'
    BY <1>7 DEF Started, ContainersTypeOK, PgValues, Processes, Boxes, PortKnown, Holds
  <2>5. IdsKept'
    BY <1>7 DEF Started, ContainersTypeOK, PgValues, Processes, Boxes, IdsKept
  <2>6. RemovedWithNetwork'
    BY <1>7 DEF Started, ContainersTypeOK, PgValues, Processes, Boxes, RemovedWithNetwork, Holds
  <2>. QED
    BY <2>1, <2>2, <2>3, <2>4, <2>5, <2>6
<1>8. ASSUME NEW p \in Pgs, Exits(p)
      PROVE  ContainersInv'
  <2>0. /\ proc[p].at = "running" /\ UNCHANGED <<net, temp, owner, conn, hit>>
        /\ \A q \in Pgs : /\ q # p => container'[q] = container[q] /\ proc'[q] = proc[q]
                          /\ container'[q].port = container[q].port
                          /\ proc'[q].pid = proc[q].pid /\ proc'[q].sig = proc[q].sig
        /\ proc'[p].at = "exited"
        /\ \/ container'[p].at = "died" /\ container[p].at # "removed" /\ ~proc[p].sig
           \/ container'[p].at = "removed" /\ (container[p].at = "removed" \/ proc[p].sig)
    BY <1>8 DEF Exits, ContainersTypeOK, Boxes, Processes
  <2>1. ContainersTypeOK'
    <3>1. container' \in [Pgs -> Boxes]
      BY <1>8, BoxTyped DEF Exits
    <3>2. proc' \in [Pgs -> Processes]
      BY <1>8, ProcTyped DEF Exits
    <3>. QED
      BY <2>0, <3>1, <3>2 DEF ContainersTypeOK
  <2>2. OwnDatabase'
    BY <2>0 DEF ContainersTypeOK, PgValues, Processes, Boxes, OwnDatabase, IdsKept
  <2>3. SignalsOwn' /\ PortsDiffer'
    BY <1>8 DEF Exits, ContainersTypeOK, PgValues, Processes, Boxes, SignalsOwn, PortsDiffer, Holds
  <2>4. PortKnown'
    <3>1. ASSUME NEW q \in Pgs, temp[q].pc \in {"health", "ready"}, q # p PROVE container'[q] = container[q]
      BY <2>0, <3>1
    <3>2. ASSUME temp[p].pc \in {"health", "ready"}
          PROVE  container'[p].at = "died" \/ (p \in Networked /\ net = "removed" /\ temp[p].pc = "ready")
      <4>1. ~proc[p].sig
        BY <3>2 DEF IdsKept
      <4>2. CASE container[p].at = "removed"
        BY <3>2, <4>2 DEF PortKnown, Holds
      <4>. QED
        BY <2>0, <4>1, <4>2
    <3>. QED
      BY <2>0, <3>1, <3>2 DEF PortKnown, Holds
  <2>5. IdsKept'
    BY <2>0 DEF ContainersTypeOK, PgValues, Processes, Boxes, IdsKept
  <2>6. RemovedWithNetwork'
    BY <2>0 DEF ContainersTypeOK, PgValues, Processes, Boxes, RemovedWithNetwork, IdsKept
  <2>. QED
    BY <2>1, <2>2, <2>3, <2>4, <2>5, <2>6
<1>9. ASSUME NEW p \in Pgs, Reap(p)
      PROVE  ContainersInv'
  <2>1. ContainersTypeOK'
    <3>1. proc' \in [Pgs -> Processes]
      BY <1>9, ProcTyped DEF Reap
    <3>2. owner' \in [Pids -> Pgs \cup {Other, Unset}]
      BY <1>9 DEF Reap, ContainersTypeOK, IdsKept
    <3>3. temp' \in [Pgs -> PgValues]
      BY <1>9, PcTyped DEF Reap, ContainersTypeOK, PgPcs
    <3>. QED
      BY <1>9, <3>1, <3>2, <3>3 DEF Reap, ContainersTypeOK
  <2>2. OwnDatabase'
    BY <1>9 DEF Reap, ContainersTypeOK, PgValues, Processes, Boxes, OwnDatabase, Holds
  <2>3. SignalsOwn' /\ PortsDiffer'
    BY <1>9 DEF Reap, ContainersTypeOK, PgValues, Processes, Boxes, SignalsOwn, PortsDiffer, Holds
  <2>4. PortKnown'
    BY <1>9 DEF Reap, ContainersTypeOK, PgValues, Processes, Boxes, PortKnown, Holds
  <2>5. IdsKept'
    BY <1>9 DEF Reap, ContainersTypeOK, PgValues, Processes, Boxes, IdsKept
  <2>6. RemovedWithNetwork'
    BY <1>9 DEF Reap, ContainersTypeOK, PgValues, Processes, Boxes, RemovedWithNetwork, Holds
  <2>. QED
    BY <2>1, <2>2, <2>3, <2>4, <2>5, <2>6
<1>10. ASSUME NEW p \in Pgs, NEW i \in Pids, Spawn(p, i)
      PROVE  ContainersInv'
  <2>1. ContainersTypeOK'
    <3>1. proc' \in [Pgs -> Processes]
      BY <1>10 DEF Spawn, ContainersTypeOK, Processes
    <3>2. owner' \in [Pids -> Pgs \cup {Other, Unset}]
      BY <1>10 DEF Spawn, ContainersTypeOK
    <3>3. temp' \in [Pgs -> PgValues]
      BY <1>10, PcTyped DEF Spawn, ContainersTypeOK, PgPcs
    <3>. QED
      BY <1>10, <3>1, <3>2, <3>3 DEF Spawn, ContainersTypeOK
  <2>2. OwnDatabase'
    BY <1>10 DEF Spawn, Usable, ContainersTypeOK, PgValues, Processes, Boxes, OwnDatabase, Holds
  <2>3. SignalsOwn' /\ PortsDiffer'
    BY <1>10 DEF Spawn, Usable, ContainersTypeOK, PgValues, Processes, Boxes, SignalsOwn, PortsDiffer, Holds
  <2>4. PortKnown'
    <3>1. \A q \in Pgs : temp'[q].pc \in {"health", "ready"} => q # p /\ temp'[q] = temp[q]
      BY <1>10 DEF Spawn, ContainersTypeOK, PgValues
    <3>. QED
      BY <1>10, <3>1 DEF Spawn, PortKnown, Holds
  <2>5. IdsKept'
    <3>1. \A q \in Pgs : q # p => temp'[q] = temp[q] /\ proc'[q] = proc[q]
      BY <1>10 DEF Spawn, ContainersTypeOK
    <3>2. temp'[p].pc = "port" /\ proc'[p] = [at |-> "running", pid |-> i, sig |-> FALSE]
      BY <1>10 DEF Spawn, ContainersTypeOK, PgValues
    <3>3. \A q \in Pgs : q # p /\ proc[q].at \in {"running", "exited"} => proc[q].pid # i
      BY <1>10, ContainersAssumption DEF Spawn, IdsKept
    <3>4. owner'[i] = p /\ \A j \in Pids : j # i => owner'[j] = owner[j]
      BY <1>10 DEF Spawn, ContainersTypeOK
    <3>5. container[p].at = "none" /\ container' = container
      BY <1>10 DEF Spawn, IdsKept
    <3>6. ASSUME NEW q \in Pgs, q # p
          PROVE  /\ proc'[q].at \in {"running", "exited"} => proc'[q].pid \in Pids /\ owner'[proc'[q].pid] = q
                 /\ temp'[q].pc \in {"port", "health", "ready"} => proc'[q].at \in {"running", "exited"}
                 /\ proc'[q].sig => temp'[q].pc \in Ended
                 /\ container'[q].at \in {"created", "serving"} => proc'[q].at = "running"
                 /\ container'[q].at = "died" => proc'[q].at \in {"exited", "reaped"}
                 /\ temp'[q].pc = "none" => proc'[q].at = "none"
                 /\ proc'[q].at = "none" => container'[q].at = "none"
      <4>1. temp'[q] = temp[q] /\ proc'[q] = proc[q] /\ container'[q] = container[q]
        BY <3>1, <3>5, <3>6
      <4>. QED
        BY <3>3, <3>4, <3>6, <4>1 DEF IdsKept
    <3>. QED
      BY <1>10, <3>2, <3>4, <3>5, <3>6 DEF IdsKept
  <2>6. RemovedWithNetwork'
    BY <1>10 DEF Spawn, Usable, ContainersTypeOK, PgValues, Processes, Boxes, RemovedWithNetwork, Holds
  <2>. QED
    BY <2>1, <2>2, <2>3, <2>4, <2>5, <2>6
<1>11. ASSUME NEW p \in Pgs, NEW port \in Ports, Created(p, port)
      PROVE  ContainersInv'
  <2>1. ContainersTypeOK'
    BY <1>11 DEF Created, ContainersTypeOK, PgValues, PgPcs, Processes, Boxes, containersVars
  <2>2. OwnDatabase'
    BY <1>11 DEF Created, ContainersTypeOK, PgValues, Processes, Boxes, OwnDatabase, Holds
  <2>3. SignalsOwn' /\ PortsDiffer'
    BY <1>11 DEF Created, ContainersTypeOK, PgValues, Processes, Boxes, SignalsOwn, PortsDiffer, Holds
  <2>4. PortKnown'
    BY <1>11 DEF Created, ContainersTypeOK, PgValues, Processes, Boxes, PortKnown, Holds
  <2>5. IdsKept'
    BY <1>11 DEF Created, ContainersTypeOK, PgValues, Processes, Boxes, IdsKept
  <2>6. RemovedWithNetwork'
    BY <1>11 DEF Created, ContainersTypeOK, PgValues, Processes, Boxes, RemovedWithNetwork, Holds
  <2>. QED
    BY <2>1, <2>2, <2>3, <2>4, <2>5, <2>6
<1>12. ASSUME NEW p \in Pgs, NEW q \in Pgs, Connect(p, q)
      PROVE  ContainersInv'
  <2>1. /\ UNCHANGED <<net, temp, proc, owner, container, hit>>
        /\ conn' = conn \cup {[by |-> p, to |-> q]}
    BY <1>12 DEF Connect
  <2>2. q = p \/ container[p].at = "died"
    BY <1>12 DEF Connect, Usable, Serves, PortsDiffer, PortKnown, Holds
  <2>3. ContainersTypeOK'
    BY <2>1 DEF ContainersTypeOK
  <2>4. OwnDatabase'
    BY <2>1, <2>2 DEF OwnDatabase
  <2>5. SignalsOwn' /\ PortsDiffer' /\ PortKnown'
    BY <2>1 DEF SignalsOwn, PortsDiffer, PortKnown, Holds
  <2>6. IdsKept' /\ RemovedWithNetwork'
    BY <2>1 DEF IdsKept, RemovedWithNetwork
  <2>. QED
    BY <2>3, <2>4, <2>5, <2>6
<1>13. ASSUME NEW i \in Pids, OtherProcess(i)
      PROVE  ContainersInv'
  <2>1. ContainersTypeOK'
    BY <1>13 DEF OtherProcess, ContainersTypeOK, PgValues, PgPcs, Processes, Boxes, containersVars
  <2>2. OwnDatabase'
    BY <1>13 DEF OtherProcess, ContainersTypeOK, PgValues, Processes, Boxes, OwnDatabase, Holds
  <2>3. SignalsOwn' /\ PortsDiffer'
    BY <1>13 DEF OtherProcess, ContainersTypeOK, PgValues, Processes, Boxes, SignalsOwn, PortsDiffer, Holds
  <2>4. PortKnown'
    BY <1>13 DEF OtherProcess, ContainersTypeOK, PgValues, Processes, Boxes, PortKnown, Holds
  <2>5. IdsKept'
    BY <1>13 DEF OtherProcess, ContainersTypeOK, PgValues, Processes, Boxes, IdsKept
  <2>6. RemovedWithNetwork'
    BY <1>13 DEF OtherProcess, ContainersTypeOK, PgValues, Processes, Boxes, RemovedWithNetwork, Holds
  <2>. QED
    BY <2>1, <2>2, <2>3, <2>4, <2>5, <2>6
<1>14. ASSUME NEW c \in conn, Disconnect(c)
      PROVE  ContainersInv'
  <2>1. ContainersTypeOK'
    BY <1>14 DEF Disconnect, ContainersTypeOK, PgValues, PgPcs, Processes, Boxes, containersVars
  <2>2. OwnDatabase'
    BY <1>14 DEF Disconnect, ContainersTypeOK, PgValues, Processes, Boxes, OwnDatabase, Holds
  <2>3. SignalsOwn' /\ PortsDiffer'
    BY <1>14 DEF Disconnect, ContainersTypeOK, PgValues, Processes, Boxes, SignalsOwn, PortsDiffer, Holds
  <2>4. PortKnown'
    BY <1>14 DEF Disconnect, ContainersTypeOK, PgValues, Processes, Boxes, PortKnown, Holds
  <2>5. IdsKept'
    BY <1>14 DEF Disconnect, ContainersTypeOK, PgValues, Processes, Boxes, IdsKept
  <2>6. RemovedWithNetwork'
    BY <1>14 DEF Disconnect, ContainersTypeOK, PgValues, Processes, Boxes, RemovedWithNetwork, Holds
  <2>. QED
    BY <2>1, <2>2, <2>3, <2>4, <2>5, <2>6
<1>15. ASSUME NEW p \in Pgs, NEW how \in Ended, temp[p].pc \in {"port", "health", "ready"}, Finishes(p, how)
      PROVE  ContainersInv'
  <2>1. Kill(p)
    BY <1>15 DEF Finishes
  <2>2. /\ hit' = hit
        /\ proc' \in [Pgs -> Processes]
        /\ \A q \in Pgs : proc'[q].at = proc[q].at /\ proc'[q].pid = proc[q].pid
        /\ \A q \in Pgs : q # p => proc'[q].sig = proc[q].sig
        /\ proc[p].at = "running" => proc'[p].sig
    BY <1>15, <2>1, KillsOwn
  <2>3. ContainersTypeOK'
    <3>1. temp' \in [Pgs -> PgValues]
      BY <1>15, PcTyped DEF Finishes, PgPcs
    <3>. QED
      BY <1>15, <2>2, <3>1 DEF Finishes, ContainersTypeOK
  <2>4. OwnDatabase' /\ PortsDiffer'
    BY <1>15 DEF Finishes, OwnDatabase, PortsDiffer, Holds
  <2>7. SignalsOwn'
    <3>1. \A q \in Pgs : q # p => temp'[q] = temp[q]
      BY <1>15 DEF Finishes, ContainersTypeOK
    <3>. QED
      BY <2>2, <3>1 DEF SignalsOwn
  <2>5. PortKnown' /\ RemovedWithNetwork'
    BY <1>15 DEF Finishes, ContainersTypeOK, PgValues, Processes, Boxes, PortKnown, RemovedWithNetwork, Holds
  <2>6. IdsKept'
    BY <1>15, <2>2 DEF Finishes, ContainersTypeOK, PgValues, Processes, Boxes, IdsKept
  <2>. QED
    BY <2>3, <2>4, <2>5, <2>6, <2>7
<1>16. ASSUME NEW p \in Pgs, TimesOut(p) \/ PortFails(p) \/ DropPg(p)
      PROVE  ContainersInv'
  BY <1>16, <1>15 DEF TimesOut, PortFails, DropPg
<1>. QED
  BY <1>1, <1>2, <1>3, <1>4, <1>5, <1>6, <1>7, <1>8, <1>9, <1>10, <1>11, <1>12, <1>13, <1>14, <1>16 DEF ContainersNext, New

\* The values' bookkeeping is sound in every reachable state.
THEOREM ContainersInvariant == ContainersSpec => []ContainersInv
<1>1. ContainersInit => ContainersInv
  BY ContainersInvInit
<1>2. ContainersInv /\ [ContainersNext]_containersVars => ContainersInv'
  <2>1. ASSUME ContainersInv, UNCHANGED containersVars PROVE ContainersInv'
    BY <2>1 DEF containersVars, ContainersInv, ContainersTypeOK, OwnDatabase, SignalsOwn, PortsDiffer, PortKnown, IdsKept, RemovedWithNetwork, Holds
  <2>. QED
    BY <2>1, StepKeepsInv
<1>. QED
  BY <1>1, <1>2, PTL DEF ContainersSpec

\* A connection goes to the container of the value that lends it, unless that
\* container has failed, and no other program is interrupted.
THEOREM ContainersSafe == ContainersSpec => [](ContainersTypeOK /\ OwnDatabase /\ SignalsOwn)
<1>1. ContainersInv => ContainersTypeOK /\ OwnDatabase /\ SignalsOwn
  BY DEF ContainersInv
<1>. QED
  BY <1>1, ContainersInvariant, PTL

\* Only processes that were spawned here are interrupted, however soon the system
\* uses their ids again, and the end of a value does interrupt its own.
THEOREM InterruptsOwn == ContainersSpec => []SignalsOwn
BY ContainersSafe, PTL

\* A container that a value has left is that of a process with its SIGINT.
LeftToPodman ==
  \A p \in Pgs : temp[p].pc \in Ended /\ Holds(p) => proc[p].at = "running" /\ proc[p].sig

\* So podman stops it, and nothing else in the program has to: dropping the value,
\* or its future at any await, is enough (GracefulChild::drop, temp_containers.rs).
THEOREM DroppedAreStopped == ContainersSpec => []LeftToPodman
<1>1. ContainersInv => LeftToPodman
  BY DEF ContainersInv, SignalsOwn, IdsKept, LeftToPodman, Holds
<1>. QED
  BY <1>1, ContainersInvariant, PTL

\* Values, processes, containers and connections keep their types.
THEOREM ContainersTyped == ContainersSpec => []ContainersTypeOK
BY ContainersSafe, PTL

-----------------------------------------------------------------------------
\* A behaviour of the run of MCValidation is one of a validation (rulesets.rs)
\* and one of the temporary containers (temp_containers.rs): what is proved of
\* either by itself holds in the run, which adds fairness and takes no step
\* from them.
THEOREM ValidationsAreBoth == MCSpec => ValidationSpec /\ ContainersSpec
<1>1. MCInit => ValidationInit /\ ContainersInit
  BY DEF MCInit
<1>2. [MCNext]_<<subject, validationVars, containersVars>> => [ValidationNext]_validationVars
  BY DEF MCNext, ValidationStep, ContainersStep
<1>3. [MCNext]_<<subject, validationVars, containersVars>> => [ContainersNext]_containersVars
  BY DEF MCNext, ValidationStep, ContainersStep
<1> QED BY <1>1, <1>2, <1>3, PTL DEF MCSpec, ValidationSpec, ContainersSpec
=============================================================================
