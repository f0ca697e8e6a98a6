------------------------------ MODULE Validation ------------------------------
(***************************************************************************)
(* One validation of a bundle (validate_bundled_ruleset_top) and what it   *)
(* starts outside the server: a podman network, two databases in it, and   *)
(* the containers of tsc and of the schema diff.  The validation's future  *)
(* may be dropped at any await; the processes it has started go on by      *)
(* themselves, and podman's daemon-less commands take effect in any order. *)
(*                                                                         *)
(* What podman does is modelled from how the code uses it: "run" needs the *)
(* network, an interrupted "run" stops and removes its container, and      *)
(* "network rm -f" removes the network with the containers in it.          *)
(***************************************************************************)
EXTENDS Migrations

CONSTANTS
  Typechecks,  \* the bundles whose code tsc accepts
  Evaluates,   \* the bundles whose code Runtime::new evaluates without error
  SchemaRuns,  \* the bundles whose db_schema runs in an empty schema
  None

ASSUME LoadsAssumption == Loads = Typechecks \cap Evaluates \cap SchemaRuns

Dbs == {"schema", "migration"}
Helpers == {"tsc", "diff"}

VARIABLES
  val,       \* the validation's future: where it is, its arguments, its result,
             \* and whether it was podman or a database that failed (history)
  creating,  \* whether "podman network create" is running
  network,   \* whether the network exists
  pg,        \* pg[d]: how far the future that spawns database d has come
  box,       \* box[d]: the "podman run" of database d
  sig,       \* the databases whose process has been sent SIGINT
  helper,    \* the helper containers that are running
  db         \* db[d]: what d has committed, and what an open transaction adds

validationVars == <<val, creating, network, pg, box, sig, helper, db>>

ValPcs == {"idle", "network", "spawn", "tsc", "evaluate", "schema", "migration",
           "diff", "drop", "done"}

\* The variants of ValidationError it ends with ("Io" with Container, whose errors
\* are the same here).  apply_candidate_top wraps every one of them as Invalid.
Reported == {"InvalidTs", "RuntimeRejected", "Db", "InvalidMigration", "Io"}
Results == Reported \cup {"ok", "cancelled", "abandoned"}

ASSUME NoneAssumption == None \notin Results

Nothing == [d \in Dbs |-> "none"]
EmptyDbs == [d \in Dbs |-> [committed |-> {}, tx |-> {}]]

ValidationTypeOK ==
  /\ val \in [pc : ValPcs, prev : (SUBSET Objects) \cup {None},
              bundle : Bundles \cup {None}, result : Results \cup {None},
              fault : BOOLEAN]
  /\ creating \in BOOLEAN
  /\ network \in BOOLEAN
  /\ pg \in [Dbs -> {"none", "health", "setup", "ready"}]
  /\ box \in [Dbs -> {"none", "starting", "up"}]
  /\ sig \subseteq Dbs
  /\ helper \subseteq Helpers
  /\ db \in [Dbs -> [committed : SUBSET Objects, tx : SUBSET Objects]]

ValidationInit ==
  /\ val = [pc |-> "idle", prev |-> None, bundle |-> None, result |-> None,
            fault |-> FALSE]
  /\ creating = FALSE /\ network = FALSE
  /\ pg = Nothing /\ box = Nothing
  /\ sig = {} /\ helper = {}
  /\ db = EmptyDbs

-----------------------------------------------------------------------------
At(pc) == val.pc = pc
To(pc) == val' = [val EXCEPT !.pc = pc]

\* The schema the migration starts from: without a predecessor, an empty one.
Before == IF val.prev = None THEN {} ELSE val.prev

\* The values of validate_bundled_ruleset_top are dropped, the last one first:
\* the transactions roll back, the children are sent SIGINT, and the network,
\* dropped last, is still to be removed.
Ends(result, fault) ==
  /\ val' = [val EXCEPT !.pc = "drop", !.result = result, !.fault = fault]
  /\ sig' = sig \cup {d \in Dbs : pg[d] # "none"}
  /\ pg' = Nothing
  /\ db' = [d \in Dbs |-> [db[d] EXCEPT !.tx = {}]]
  /\ UNCHANGED <<creating, network, box>>

Start(prev, b) ==
  /\ At("idle")
  /\ val' = [val EXCEPT !.pc = "network", !.prev = prev, !.bundle = b]
  /\ creating' = TRUE
  /\ UNCHANGED <<network, pg, box, sig, helper, db>>

\* The command that creates the network does not start.
NoPodman ==
  /\ At("network") /\ creating
  /\ val' = [val EXCEPT !.pc = "done", !.result = "Io", !.fault = TRUE]
  /\ creating' = FALSE
  /\ UNCHANGED <<network, pg, box, sig, helper, db>>

\* TempPodmanNetwork::new does not look at the exit status: it is the databases
\* that fail without a network.
SpawnBoth ==
  /\ At("network") /\ ~creating
  /\ To("spawn")
  /\ pg' = [d \in Dbs |-> "health"]
  /\ box' = [d \in Dbs |-> "starting"]
  /\ UNCHANGED <<creating, network, sig, helper, db>>

\* healthcheck_postgres, then the admin's connection, the catalog's schema and
\* the server's connection.
Healthy(d) ==
  /\ At("spawn")
  /\ pg[d] = "health" /\ box[d] = "up"
  /\ pg' = [pg EXCEPT ![d] = "setup"]
  /\ UNCHANGED <<val, creating, network, box, sig, helper, db>>

SetUp(d) ==
  /\ At("spawn")
  /\ pg[d] = "setup" /\ box[d] = "up"
  /\ pg' = [pg EXCEPT ![d] = "ready"]
  /\ UNCHANGED <<val, creating, network, box, sig, helper, db>>

\* try_join ends with both, and podman_votebase_tsc begins.
Joined ==
  /\ At("spawn")
  /\ \A d \in Dbs : pg[d] = "ready"
  /\ To("tsc")
  /\ helper' = helper \cup {"tsc"}
  /\ UNCHANGED <<creating, network, pg, box, sig, db>>

TscAccepts ==
  /\ At("tsc")
  /\ val.bundle \in Typechecks
  /\ To("evaluate")
  /\ helper' = helper \ {"tsc"}
  /\ UNCHANGED <<creating, network, pg, box, sig, db>>

TscRejects ==
  /\ At("tsc")
  /\ val.bundle \notin Typechecks
  /\ Ends("InvalidTs", FALSE)
  /\ helper' = helper \ {"tsc"}

RuntimeAccepts ==
  /\ At("evaluate")
  /\ val.bundle \in Evaluates
  /\ To("schema")
  /\ UNCHANGED <<creating, network, pg, box, sig, helper, db>>

RuntimeRejects ==
  /\ At("evaluate")
  /\ val.bundle \notin Evaluates
  /\ Ends("RuntimeRejected", FALSE)
  /\ UNCHANGED helper

ExecSchema ==
  /\ At("schema") /\ box["schema"] = "up"
  /\ val.bundle \in SchemaRuns
  /\ To("migration")
  /\ db' = [db EXCEPT !["schema"].tx = Declares[val.bundle]]
  /\ UNCHANGED <<creating, network, pg, box, sig, helper>>

SchemaRejected ==
  /\ At("schema") /\ box["schema"] = "up"
  /\ val.bundle \notin SchemaRuns
  /\ Ends("Db", FALSE)
  /\ UNCHANGED helper

\* Mutant: the predecessor's schema is not executed first.
ExecMigrationAlone ==
  /\ At("migration") /\ box["migration"] = "up"
  /\ MigrationRuns({}, val.bundle)
  /\ To("diff")
  /\ db' = [db EXCEPT !["migration"].tx = Migrate({}, val.bundle)]
  /\ helper' = helper \cup {"diff"}
  /\ UNCHANGED <<creating, network, pg, box, sig>>

ExecMigration ==
  /\ At("migration") /\ box["migration"] = "up"
  /\ MigrationRuns(Before, val.bundle)
  /\ To("diff")
  /\ db' = [db EXCEPT !["migration"].tx = Migrate(Before, val.bundle)]
  /\ helper' = helper \cup {"diff"}
  /\ UNCHANGED <<creating, network, pg, box, sig>>

MigrationRejected ==
  /\ At("migration") /\ box["migration"] = "up"
  /\ ~MigrationRuns(Before, val.bundle)
  /\ Ends("Db", FALSE)
  /\ UNCHANGED helper

\* Connections of its own: it sees what is committed, and finds no difference.
Committed(d) == db[d].committed

DiffEnds ==
  /\ At("diff")
  /\ \A d \in Dbs : box[d] = "up"
  /\ Ends(IF Committed("schema") = Committed("migration") THEN "ok" ELSE "InvalidMigration",
          FALSE)
  /\ helper' = helper \ {"diff"}

\* What an await of each stage returns when podman or a database fails: the
\* health check has run out of retries, a container has gone, a connection is
\* lost, a spawn fails.  A "podman run" of tsc that is unsuccessful for any
\* reason is InvalidTs, and a statement that fails for any reason is Db.
FailsWith ==
  {<<"spawn", "Io">>, <<"tsc", "InvalidTs">>, <<"tsc", "Io">>, <<"schema", "Db">>,
   <<"migration", "Db">>, <<"diff", "Io">>}

\* In try_join it drops the other database's future as well.
Fails ==
  /\ \E error \in Reported : <<val.pc, error>> \in FailsWith /\ Ends(error, TRUE)
  /\ helper' = helper \ Helpers

\* The future is dropped; a process it was waiting for goes on.
Cancelled ==
  /\ val.pc \in {"spawn", "tsc", "evaluate", "schema", "migration", "diff"}
  /\ Ends("cancelled", FALSE)
  /\ UNCHANGED helper

\* The same while the network is being created: nobody owns it yet.
Abandoned ==
  /\ At("network")
  /\ val' = [val EXCEPT !.pc = "done", !.result = "abandoned"]
  /\ UNCHANGED <<creating, network, pg, box, sig, helper, db>>

\* Mutants: no -f, which fails on a network in use; no removal.
RemoveUnforced ==
  /\ At("drop")
  /\ To("done")
  /\ network' = (network /\ \E d \in Dbs : box[d] = "up")
  /\ UNCHANGED <<creating, pg, box, sig, helper, db>>
RemoveNothing ==
  /\ At("drop")
  /\ To("done")
  /\ UNCHANGED <<creating, network, pg, box, sig, helper, db>>

\* The network's drop waits for "podman network rm -f".
RemoveNetwork ==
  /\ At("drop")
  /\ To("done")
  /\ network' = FALSE
  /\ box' = [d \in Dbs |-> IF box[d] = "up" THEN "none" ELSE box[d]]
  /\ helper' = helper \ {"diff"}
  /\ UNCHANGED <<creating, pg, sig, db>>

-----------------------------------------------------------------------------
(* podman *)

NetworkCreated ==
  /\ creating
  /\ creating' = FALSE
  /\ network' \in {network, TRUE}
  /\ UNCHANGED <<val, pg, box, sig, helper, db>>

BoxUp(d) ==
  /\ box[d] = "starting" /\ network
  /\ box' = [box EXCEPT ![d] = "up"]
  /\ UNCHANGED <<val, creating, network, pg, sig, helper, db>>

\* It was interrupted, it has no network, or it fails.
BoxGone(d) ==
  /\ box[d] # "none"
  /\ box' = [box EXCEPT ![d] = "none"]
  /\ UNCHANGED <<val, creating, network, pg, sig, helper, db>>

\* A helper that nobody waits for any more ends by itself.
HelperEnds(h) ==
  /\ h \in helper /\ val.pc \in {"drop", "done"}
  /\ helper' = helper \ {h}
  /\ UNCHANGED <<val, creating, network, pg, box, sig, db>>

Future ==
  \/ SpawnBoth \/ \E d \in Dbs : Healthy(d) \/ SetUp(d)
  \/ Joined \/ TscAccepts \/ TscRejects \/ RuntimeAccepts \/ RuntimeRejects
  \/ ExecSchema \/ SchemaRejected \/ ExecMigration \/ MigrationRejected
  \/ DiffEnds \/ Fails \/ RemoveNetwork

ValidationNext ==
  \/ \E prev \in (SUBSET Objects) \cup {None}, b \in Bundles : Start(prev, b)
  \/ Future \/ NoPodman \/ Cancelled \/ Abandoned
  \/ NetworkCreated
  \/ \E d \in Dbs : BoxUp(d) \/ BoxGone(d)
  \/ \E h \in Helpers : HelperEnds(h)

ValidationSpec == ValidationInit /\ [][ValidationNext]_validationVars

\* The future is polled until it ends: every retry loop in it is bounded.  What
\* is interrupted, or runs a bounded program, ends.
Interrupted(d) == d \in sig \/ ~network
ValidationFairSpec ==
  /\ ValidationSpec
  /\ WF_validationVars(Future)
  /\ WF_validationVars(NetworkCreated)
  /\ \A d \in Dbs : WF_validationVars(Interrupted(d) /\ BoxGone(d))
  /\ \A h \in Helpers : WF_validationVars(HelperEnds(h))

-----------------------------------------------------------------------------
(* Properties *)

\* The verdict is the one Migrations!Validates states, which Rulesets uses for a
\* whole validation.  What is accepted validates, whatever fails or is cancelled
\* on the way; the runtime's refusal and a difference of schemas are the bundle's
\* own, and so is any other error as long as podman and the databases work.
VerdictIsValidates ==
  /\ val.result = "ok" => Validates(Before, val.bundle)
  /\ val.result \in {"RuntimeRejected", "InvalidMigration"} => ~Validates(Before, val.bundle)
  /\ val.result \in Reported /\ ~val.fault => ~Validates(Before, val.bundle)

\* What CandidateApplyError::Invalid says of the candidate it is made for, which
\* always has a predecessor: it "was found to be invalid for the current state"
\* (rulesets.rs:102), so it does not validate.
ReportedIsInvalid ==
  val.prev # None /\ val.result \in Reported => ~Validates(Before, val.bundle)

\* A validation that has ended, however it ended, leaves no network behind,
\* unless it was dropped while the network was being created.
OnlyAbandonedLeaves ==
  val.pc = "done" /\ val.result # "abandoned" => ~network /\ ~creating

\* And it leaves no database that has yet to come up: one whose process was
\* interrupted too early to have a container finds no network any more.
NothingStartsLater ==
  [][val.pc = "done" => \A d \in Dbs : box'[d] = "up" => box[d] = "up"]_validationVars

\* Every validation ends, and everything it has started goes away.
Gone == box = Nothing /\ helper = {} /\ (val.result # "abandoned" => ~network)
Cleaned == (val.pc # "idle") ~> (val.pc = "done" /\ Gone)

-----------------------------------------------------------------------------
(* The inductive invariant *)

\* A stage is reached by a bundle that has passed the ones before it.
Stages ==
  /\ val.pc # "idle" => val.bundle \in Bundles
  /\ val.pc \in {"evaluate", "schema", "migration", "diff"} => val.bundle \in Typechecks
  /\ val.pc \in {"schema", "migration", "diff"} => val.bundle \in Evaluates
  /\ val.pc \in {"migration", "diff"} => val.bundle \in SchemaRuns
  /\ val.pc = "diff" => MigrationRuns(Before, val.bundle)

\* Only a validation that drops its values, or has none any more, has a result;
\* one that is abandoned has none to drop.
Undecided ==
  /\ val.pc \notin {"drop", "done"} => val.result = None
  /\ val.pc = "drop" => val.result # "abandoned"

\* Neither transaction is ever committed.
NothingCommitted == \A d \in Dbs : db[d].committed = {}

\* The network is created before anything runs in it, and a validation that has
\* ended has nothing running in one it has removed.
NetworkOwned ==
  /\ val.pc \notin {"network", "done"} => ~creating
  /\ val.pc = "idle" \/ creating => ~network
  /\ val.pc \in {"idle", "network"} => box = Nothing
  /\ val.pc = "done" => IF val.result = "abandoned" THEN box = Nothing
                        ELSE \A d \in Dbs : box[d] # "up"

ValidationInv ==
  /\ ValidationTypeOK
  /\ VerdictIsValidates
  /\ OnlyAbandonedLeaves
  /\ Stages
  /\ Undecided
  /\ NothingCommitted
  /\ NetworkOwned
=============================================================================
