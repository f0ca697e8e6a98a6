------------------------------ MODULE Migrations ------------------------------
(***************************************************************************)
(* Bundled rulesets and what the server does with their SQL.               *)
(*                                                                         *)
(* A BundledRuleset (common/src/rulesets.rs) is a triple of strings: the   *)
(* typescript code, the declared db_schema and the db_migration.  Here a   *)
(* bundle is an element of Bundles, and its strings are constants:         *)
(*   Fns[b]       the types of the functions its code registers            *)
(*   Declares[b]  the database objects its db_schema creates               *)
(*   Drops[b]     the objects its db_migration drops                       *)
(*   Adds[b]      the objects its db_migration then creates                *)
(*   Loads        the bundles whose code passes tsc, evaluates without     *)
(*                error, and whose db_schema runs in an empty schema       *)
(***************************************************************************)
CONSTANTS Objects, Bundles, Loads, Fns, Declares, Drops, Adds

FnType == {"Action", "View"}

ASSUME BundlesAssumption ==
  /\ Loads \subseteq Bundles
  /\ Fns \in [Bundles -> SUBSET FnType]
  /\ Declares \in [Bundles -> SUBSET Objects]
  /\ Drops \in [Bundles -> SUBSET Objects]
  /\ Adds \in [Bundles -> SUBSET Objects]

-----------------------------------------------------------------------------
\* The statements of a migration fail on an object that is not there to drop
\* or is already there when created.
MigrationRuns(schema, b) ==
  /\ Drops[b] \subseteq schema
  /\ Adds[b] \cap (schema \ Drops[b]) = {}

Migrate(schema, b) == (schema \ Drops[b]) \cup Adds[b]

\* podman_compute_diff opens connections of its own to the two temporary
\* databases.  It sees what they have committed, and validation keeps both of
\* its transactions open: whatever was executed in them, it sees nothing.
VisibleToDiff(uncommitted) == {}

DiffIsEmpty(prev, b) ==
  VisibleToDiff(Declares[b]) = VisibleToDiff(Migrate(prev, b))

\* validate_bundled_ruleset for a ruleset that has a predecessor, prev being
\* the predecessor's declared db_schema.
Validates(prev, b) ==
  /\ b \in Loads
  /\ MigrationRuns(prev, b)
  /\ DiffIsEmpty(prev, b)
=============================================================================
