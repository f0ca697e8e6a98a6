---------------------------- MODULE CreateRuleset ----------------------------
(***************************************************************************)
(* create_ruleset (common/src/rulesets.rs): the row of a new ruleset is    *)
(* inserted by a statement of its own, and its schema, its roles and its   *)
(* first migration follow in a transaction.  Any number of calls run at    *)
(* once, from any number of processes, each of which may die at any await. *)
(*                                                                         *)
(* Paths are the full paths of rulesets, Parent their tree.  What this     *)
(* leaves behind is what Rulesets starts from.                             *)
(***************************************************************************)
EXTENDS Migrations

CONSTANTS Paths, Parent, Calls, None

ASSUME ParentAssumption == Parent \in [Paths -> Paths \cup {None}]
ASSUME NoneAssumption == /\ None \notin Paths
                         /\ None \notin Bundles
                         /\ \A S \in SUBSET Objects : None # S

VARIABLES
  row,      \* row[p]: the bundle in votebase_catalog.ruleset, or None
  schema,   \* schema[p]: the objects in the database schema of p, or None
  call,     \* call[c]: a call of create_ruleset
  created   \* the rulesets a call has returned Ok for

createVars == <<row, schema, call, created>>

CallPcs == {"idle", "insert", "create", "migrate", "commit", "return"}
NoCall == [pc |-> "idle", path |-> None, bundle |-> None]

CreateTypeOK ==
  /\ row \in [Paths -> Bundles \cup {None}]
  /\ schema \in [Paths -> (SUBSET Objects) \cup {None}]
  /\ call \in [Calls -> [pc : CallPcs, path : Paths \cup {None},
                         bundle : Bundles \cup {None}]]
  /\ created \subseteq Paths

CreateInit ==
  /\ row = [p \in Paths |-> None]
  /\ schema = [p \in Paths |-> None]
  /\ call = [c \in Calls |-> NoCall]
  /\ created = {}

-----------------------------------------------------------------------------
Step(c, from, to) ==
  /\ call[c].pc = from
  /\ call' = [call EXCEPT ![c].pc = to]

CallEnds(c) ==
  /\ call' = [call EXCEPT ![c] = NoCall]
  /\ UNCHANGED <<row, schema, created>>

Begin(c, p, b) ==
  /\ call[c].pc = "idle"
  /\ call' = [call EXCEPT ![c] = [pc |-> "insert", path |-> p, bundle |-> b]]
  /\ UNCHANGED <<row, schema, created>>

\* Mutant: a row that is there is no error.
RowReplaced(p) ==
  IF Parent[p] = None
    THEN \A q \in Paths \ {p} : Parent[q] = None => row[q] = None
    ELSE row[Parent[p]] # None

\* The constraints of votebase_catalog.ruleset: the primary key, the reference
\* to the parent, and the index that lets one row have no parent.
RowAllowed(p) ==
  /\ row[p] = None
  /\ IF Parent[p] = None
       THEN \A q \in Paths : Parent[q] = None => row[q] = None
       ELSE row[Parent[p]] # None

\* insert_ruleset takes effect at once: no transaction has begun.
InsertRuleset(c) ==
  /\ Step(c, "insert", "create")
  /\ RowAllowed(call[c].path)
  /\ row' = [row EXCEPT ![call[c].path] = call[c].bundle]
  /\ UNCHANGED <<schema, created>>

InsertFails(c) ==
  /\ call[c].pc = "insert"
  /\ ~RowAllowed(call[c].path)
  /\ CallEnds(c)

\* create-ruleset.sql, in the transaction: the schema and the roles must not
\* be there.
CreateSchema(c) ==
  /\ Step(c, "create", "migrate")
  /\ schema[call[c].path] = None
  /\ UNCHANGED <<row, schema, created>>

\* The migration of a new ruleset runs in its empty schema.
RunMigration(c) ==
  /\ Step(c, "migrate", "commit")
  /\ MigrationRuns({}, call[c].bundle)
  /\ UNCHANGED <<row, schema, created>>

\* Either batch fails: the transaction rolls back, and the row stays.
TransactionFails(c) ==
  /\ \/ call[c].pc = "create" /\ schema[call[c].path] # None
     \/ call[c].pc = "migrate" /\ ~MigrationRuns({}, call[c].bundle)
  /\ CallEnds(c)

\* Mutant: Ok without commit(): the transaction is dropped and rolls back.
CommitForgotten(c) ==
  /\ Step(c, "commit", "return")
  /\ UNCHANGED <<row, schema, created>>

Commit(c) ==
  /\ Step(c, "commit", "return")
  /\ schema' = [schema EXCEPT ![call[c].path] = Migrate({}, call[c].bundle)]
  /\ UNCHANGED <<row, created>>

\* Mutant: the ruleset returned for is the parent.
ReturnParent(c) ==
  /\ call[c].pc = "return"
  /\ call' = [call EXCEPT ![c] = NoCall]
  /\ created' = created \cup {Parent[call[c].path]}
  /\ UNCHANGED <<row, schema>>

Return(c) ==
  /\ call[c].pc = "return"
  /\ call' = [call EXCEPT ![c] = NoCall]
  /\ created' = created \cup {call[c].path}
  /\ UNCHANGED <<row, schema>>

\* The connection or the process is gone: the transaction rolls back, and what
\* has been committed stays.
Crash(c) ==
  /\ call[c].pc # "idle"
  /\ CallEnds(c)

CreateNext ==
  \E c \in Calls :
    \/ \E p \in Paths, b \in Bundles : Begin(c, p, b)
    \/ InsertRuleset(c) \/ InsertFails(c) \/ CreateSchema(c)
    \/ RunMigration(c) \/ TransactionFails(c)
    \/ Commit(c) \/ Return(c) \/ Crash(c)

CreateSpec == CreateInit /\ [][CreateNext]_createVars

-----------------------------------------------------------------------------
\* The catalog is one tree, in any order and interleaving of the calls: one
\* ruleset without a parent, and no ruleset before its parent.
RowsAreATree ==
  /\ \A p, q \in Paths :
       row[p] # None /\ row[q] # None /\ Parent[p] = None /\ Parent[q] = None => p = q
  /\ \A p \in Paths : row[p] # None /\ Parent[p] # None => row[Parent[p]] # None

\* A schema belongs to the row that was inserted for it, whatever other calls
\* for the same path did meanwhile: it is what that bundle's migration makes of
\* an empty schema, in which it runs.  And create_ruleset returns Ok only for a
\* ruleset whose row and schema are both there.
SchemaMatchesRow ==
  /\ \A p \in Paths :
       schema[p] # None => /\ row[p] # None
                           /\ MigrationRuns({}, row[p])
                           /\ schema[p] = Migrate({}, row[p])
  /\ \A p \in created : schema[p] # None

\* A row whose call has failed after the insert, or died.
Stranded(p) ==
  /\ row[p] # None
  /\ schema[p] = None
  /\ \A c \in Calls : call[c].path = p => call[c].pc = "insert"

\* Whoever creates a path again changes nothing.  A stranded row is for good: every
\* further call fails at the insert, and nothing else creates its schema.  And who
\* has not heard that create_ruleset was done and calls it again, with whatever
\* bundle and however that call ends, leaves the row and the schema as they are.
CreatedOnce ==
  [][\A p \in Paths :
       /\ Stranded(p) => Stranded(p)'
       /\ schema[p] # None => row'[p] = row[p] /\ schema'[p] = schema[p]]_createVars

-----------------------------------------------------------------------------
\* The inductive invariant: past the insert a call owns its path, alone and
\* until it ends, and from its commit on the schema is there.
InTransaction(c) == call[c].pc \in {"create", "migrate", "commit"}

CallsOK ==
  /\ \A c \in Calls : call[c].pc # "idle" => /\ call[c].path \in Paths
                                            /\ call[c].bundle \in Bundles
  /\ \A c \in Calls : InTransaction(c) => /\ row[call[c].path] = call[c].bundle
                                         /\ schema[call[c].path] = None
  /\ \A c \in Calls : call[c].pc = "commit" => MigrationRuns({}, call[c].bundle)
  /\ \A c, d \in Calls :
       InTransaction(c) /\ InTransaction(d) /\ call[c].path = call[d].path => c = d
  /\ \A c \in Calls : call[c].pc = "return" => schema[call[c].path] # None

CreateInv == CreateTypeOK /\ CallsOK /\ RowsAreATree /\ SchemaMatchesRow
=============================================================================
