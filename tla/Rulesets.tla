------------------------------- MODULE Rulesets -------------------------------
(***************************************************************************)
(* The request handlers of the server, from the pool's first connection to *)
(* the transaction that replaces a ruleset.                                *)
(*                                                                         *)
(*   Requests  slots for HTTP requests in progress: a read of the catalog, *)
(*             a View or an Action; a slot is used again when its request  *)
(*             has ended                                                   *)
(*   Tasks     calls of proposeSelfReplacement in progress: the promises a *)
(*             running ruleset function has started                        *)
(*                                                                         *)
(* Every await in the code is a point where others run, so every step here *)
(* is the code between two awaits.  The database is PostgreSQL at READ     *)
(* COMMITTED: a statement outside a transaction takes effect at once, one  *)
(* inside it is kept in the request until the commit, and the locks it     *)
(* takes are read off the program counters.                                *)
(***************************************************************************)
EXTENDS Registry, Naturals, FiniteSets

CONSTANTS Requests, Tasks, PoolSize

ASSUME PoolAssumption ==
  /\ PoolSize \in Nat \ {0}
  /\ IsFiniteSet(Requests)
  /\ IsFiniteSet(Tasks)

VARIABLES
  held,   \* the pool's connections that are out, each by what holds it
  req,    \* req[r]: the handler of request r
  task    \* task[t]: the op_propose_self_replacement future t

vars == <<row, live, cand, held, req, task>>

Kinds == FnType \cup {"Read"}

\* A connection is out for a handler, for its replacement, or for a proposal.
Conns == (Requests \X {"handler", "apply"}) \cup (Tasks \X {"propose"})

ApplyPcs ==
  {"read_candidate", "read_prev", "validate", "migrate", "update", "delete",
   "commit", "committed"}
RequestPcs ==
  {"idle", "want_handler", "lookup", "script", "await", "want_apply"} \cup ApplyPcs
TaskPcs == {"idle", "want_conn", "read_prev", "validate", "insert"}

\* id, others: the ReplaceSelfStruct the Action returned.  prev: the db_schema
\* read as the predecessor's.  dels: the candidates the transaction deletes.
Request ==
  [pc : RequestPcs, kind : Kinds, path : Paths \cup {None},
   id : CandidateIds \cup {None}, others : BOOLEAN,
   prev : SUBSET Objects, dels : SUBSET CandidateIds]
IdleRequest ==
  [pc |-> "idle", kind |-> "Read", path |-> None, id |-> None, others |-> FALSE,
   prev |-> {}, dels |-> {}]

Task ==
  [pc : TaskPcs, owner : Requests \cup {None}, bundle : Bundles \cup {None},
   prev : SUBSET Objects]
IdleTask == [pc |-> "idle", owner |-> None, bundle |-> None, prev |-> {}]

-----------------------------------------------------------------------------
\* The ruleset and the bundle a replacement is about: candidate rows are never
\* updated, so reading them once or again is the same.
For(r) == cand[req[r].id].for
BundleOf(r) == cand[req[r].id].bundle

TasksOf(r) == {t \in Tasks : task[t].pc # "idle" /\ task[t].owner = r}

ConnFree == Cardinality(held) < PoolSize

\* The migration of r is executed and not committed.
Migrated(r) == req[r].pc \in {"update", "delete", "commit"}
\* r has updated the ruleset's row and not committed: the row is locked.
RowLocked(p) ==
  \E r \in Requests : req[r].pc \in {"delete", "commit"} /\ For(r) = p

\* Two migrations touch the same object: the second waits for the transaction
\* of the first.
ObjectsLocked(r) ==
  \E q \in Requests \ {r} :
    /\ Migrated(q)
    /\ For(q) = For(r)
    /\ \/ Drops[BundleOf(q)] \cap Drops[BundleOf(r)] # {}
       \/ Adds[BundleOf(q)] \cap Adds[BundleOf(r)] # {}

-----------------------------------------------------------------------------
TypeOK ==
  /\ row \in [Paths -> Bundles]
  /\ live \in [Paths -> SUBSET Objects]
  /\ cand \in [CandidateIds -> Candidate]
  /\ held \subseteq Conns
  /\ req \in [Requests -> Request]
  /\ task \in [Tasks -> Task]

\* Rulesets exist, made by create_ruleset before the server starts.
Init ==
  /\ RegistryInit
  /\ held = {}
  /\ req = [r \in Requests |-> IdleRequest]
  /\ task = [t \in Tasks |-> IdleTask]

\* Mutant: the connection of the replacement stays out.
EndKeepsApply(r) ==
  /\ held' = held \ (({r} \X {"handler"}) \cup (TasksOf(r) \X {"propose"}))
  /\ req' = [req EXCEPT ![r] = IdleRequest]
  /\ task' = [t \in Tasks |-> IF t \in TasksOf(r) THEN IdleTask ELSE task[t]]
  /\ UNCHANGED <<row, live, cand>>

\* The handler's future ends, with a response or dropped: its connections go
\* back to the pool, its transaction rolls back, and the runtime is dropped
\* with the op futures the function never awaited.
End(r) ==
  /\ held' = held \ (({r} \X {"handler", "apply"}) \cup (TasksOf(r) \X {"propose"}))
  /\ req' = [req EXCEPT ![r] = IdleRequest]
  /\ task' = [t \in Tasks |-> IF t \in TasksOf(r) THEN IdleTask ELSE task[t]]
  /\ UNCHANGED <<row, live, cand>>

Goto(r, from, to) ==
  /\ req[r].pc = from
  /\ req' = [req EXCEPT ![r].pc = to]

-----------------------------------------------------------------------------
(* The handlers of server/src/main.rs *)

Arrive(r) ==
  /\ req[r].pc = "idle"
  /\ \E k \in Kinds, p \in Paths :
       req' = [req EXCEPT ![r] = [IdleRequest EXCEPT !.pc = "want_handler",
                                                     !.kind = k, !.path = p]]
  /\ UNCHANGED <<row, live, cand, held, task>>

\* pool.get(): no timeout is configured, a request waits as long as it takes.
GetHandlerConn(r) ==
  /\ Goto(r, "want_handler", "lookup")
  /\ ConnFree
  /\ held' = held \cup {<<r, "handler">>}
  /\ UNCHANGED <<row, live, cand, task>>

\* get_action_details, get_view_details: the function is found, and its code
\* is what the row holds now.  The connection stays with the handler.
LookupFound(r) ==
  /\ Goto(r, "lookup", "script")
  /\ req[r].kind \in Fns[row[req[r].path]]
  /\ UNCHANGED <<row, live, cand, held, task>>

\* FnNotFoundError, or the response of one of the handlers that only read.
LookupEnds(r) ==
  /\ req[r].pc = "lookup"
  /\ req[r].kind \notin Fns[row[req[r].path]]
  /\ End(r)

-----------------------------------------------------------------------------
(* run_function: the ruleset's code runs *)

\* The code calls proposeSelfReplacement, in a View as in an Action.  Bound:
\* a call is started only while an unused candidate id is left for it.
IdLeft ==
  Cardinality({c \in CandidateIds : cand[c].state = "unused"})
    > Cardinality({t \in Tasks : task[t].pc # "idle"})

StartPropose(r, t, b) ==
  /\ req[r].pc = "script"
  /\ task[t].pc = "idle"
  /\ IdLeft
  /\ task' = [task EXCEPT ![t] = [pc |-> "want_conn", owner |-> r, bundle |-> b,
                                  prev |-> {}]]
  /\ UNCHANGED <<row, live, cand, held, req>>

\* The code awaits what it has started, and goes on when all of it is done.
Await(r) ==
  /\ TasksOf(r) # {}
  /\ Goto(r, "script", "await")
  /\ UNCHANGED <<row, live, cand, held, task>>

Resume(r) ==
  /\ TasksOf(r) = {}
  /\ Goto(r, "await", "script")
  /\ UNCHANGED <<row, live, cand, held, task>>

\* The function returns and asks for no replacement, or it throws.
ScriptEnds(r) ==
  /\ req[r].pc = "script"
  /\ End(r)

\* Mutant: the proposals in progress are cancelled and keep their connections.
ScriptReplacesKeeps(r, c, others) ==
  /\ req[r].pc = "script"
  /\ req[r].kind = "Action"
  /\ req' = [req EXCEPT ![r].pc = "want_apply", ![r].id = c, ![r].others = others]
  /\ task' = [t \in Tasks |-> IF t \in TasksOf(r) THEN IdleTask ELSE task[t]]
  /\ UNCHANGED <<row, live, cand, held>>

\* An Action returns a ReplaceSelfStruct, with an id it got from anywhere.  The
\* runtime is dropped, and the op futures in progress with it.
ScriptReplaces(r, c, others) ==
  /\ req[r].pc = "script"
  /\ req[r].kind = "Action"
  /\ req' = [req EXCEPT ![r].pc = "want_apply", ![r].id = c, ![r].others = others]
  /\ task' = [t \in Tasks |-> IF t \in TasksOf(r) THEN IdleTask ELSE task[t]]
  /\ held' = held \ (TasksOf(r) \X {"propose"})
  /\ UNCHANGED <<row, live, cand>>

-----------------------------------------------------------------------------
(* op_propose_self_replacement and propose_candidate_ruleset *)

\* run_info.pg_pool.get(), while the handler keeps its own connection.
ProposeGetConn(t) ==
  /\ task[t].pc = "want_conn"
  /\ ConnFree
  /\ held' = held \cup {<<t, "propose">>}
  /\ task' = [task EXCEPT ![t].pc = "read_prev"]
  /\ UNCHANGED <<row, live, cand, req>>

ProposeReadPrev(t) ==
  /\ task[t].pc = "read_prev"
  /\ task' = [task EXCEPT ![t].pc = "validate",
                          ![t].prev = Declares[row[req[task[t].owner].path]]]
  /\ UNCHANGED <<row, live, cand, held, req>>

\* Mutant: the connection stays out when the op is done.
ProposeEndsKeeps(t) ==
  /\ task' = [task EXCEPT ![t] = IdleTask]
  /\ UNCHANGED <<row, live, req, held>>

\* The op's future is done: its connection goes back.
ProposeEnds(t) ==
  /\ task' = [task EXCEPT ![t] = IdleTask]
  /\ held' = held \ {<<t, "propose">>}
  /\ UNCHANGED <<row, live, req>>

ProposeValidate(t) ==
  /\ task[t].pc = "validate"
  /\ Validates(task[t].prev, task[t].bundle)
  /\ task' = [task EXCEPT ![t].pc = "insert"]
  /\ UNCHANGED <<row, live, cand, held, req>>

\* A ValidationError: the op's promise is rejected.
ProposeInvalid(t) ==
  /\ task[t].pc = "validate"
  /\ ~Validates(task[t].prev, task[t].bundle)
  /\ ProposeEnds(t)
  /\ UNCHANGED cand

\* The same for an error of the pool, of podman or of the database, anywhere.
ProposeFails(t) ==
  /\ task[t].pc # "idle"
  /\ ProposeEnds(t)
  /\ UNCHANGED cand

\* Mutant: the row is inserted without its ruleset.
ProposeInsertForNone(t, c) ==
  /\ task[t].pc = "insert"
  /\ cand[c].state = "unused"
  /\ cand' = [cand EXCEPT ![c] = [state |-> "stored", for |-> None,
                                  bundle |-> task[t].bundle]]
  /\ ProposeEnds(t)

\* insert_candidate_replacement, outside any transaction.
ProposeInsert(t, c) ==
  /\ task[t].pc = "insert"
  /\ cand[c].state = "unused"
  /\ cand' = [cand EXCEPT ![c] = [state |-> "stored", for |-> req[task[t].owner].path,
                                  bundle |-> task[t].bundle]]
  /\ ProposeEnds(t)

-----------------------------------------------------------------------------
(* run_action and apply_candidate_top *)

\* The second connection of the request: the handler still holds the first.
GetApplyConn(r) ==
  /\ Goto(r, "want_apply", "read_candidate")
  /\ ConnFree
  /\ held' = held \cup {<<r, "apply">>}
  /\ UNCHANGED <<row, live, cand, task>>

ReadCandidate(r) ==
  /\ Goto(r, "read_candidate", "read_prev")
  /\ Stored(req[r].id)
  /\ UNCHANGED <<row, live, cand, held, task>>

CandidateNotFound(r) ==
  /\ req[r].pc = "read_candidate"
  /\ ~Stored(req[r].id)
  /\ End(r)

\* The predecessor is the candidate's, whatever ruleset the Action belongs to.
ReadPrev(r) ==
  /\ req[r].pc = "read_prev"
  /\ req' = [req EXCEPT ![r].pc = "validate", ![r].prev = Declares[row[For(r)]]]
  /\ UNCHANGED <<row, live, cand, held, task>>

ValidateApply(r) ==
  /\ Goto(r, "validate", "migrate")
  /\ Validates(req[r].prev, BundleOf(r))
  /\ UNCHANGED <<row, live, cand, held, task>>

CandidateInvalid(r) ==
  /\ req[r].pc = "validate"
  /\ ~Validates(req[r].prev, BundleOf(r))
  /\ End(r)

\* Mutant: the migration is executed on the client, outside the transaction.
ApplyMigrationAtOnce(r) ==
  /\ Goto(r, "migrate", "update")
  /\ ~ObjectsLocked(r)
  /\ MigrationRuns(live[For(r)], BundleOf(r))
  /\ live' = [live EXCEPT ![For(r)] = Migrate(@, BundleOf(r))]
  /\ UNCHANGED <<row, cand, held, task>>

\* The transaction begins and the migration runs on what is committed now: the
\* predecessor is not read again.
ApplyMigration(r) ==
  /\ Goto(r, "migrate", "update")
  /\ ~ObjectsLocked(r)
  /\ MigrationRuns(live[For(r)], BundleOf(r))
  /\ UNCHANGED <<row, live, cand, held, task>>

MigrationFails(r) ==
  /\ req[r].pc = "migrate"
  /\ ~MigrationRuns(live[For(r)], BundleOf(r))
  /\ End(r)

\* Mutant: the statement runs on another connection of the pool.
UpdateRulesetElsewhere(r) ==
  /\ Goto(r, "update", "delete")
  /\ ~RowLocked(For(r))
  /\ ConnFree
  /\ UNCHANGED <<row, live, cand, held, task>>

UpdateRuleset(r) ==
  /\ Goto(r, "update", "delete")
  /\ ~RowLocked(For(r))
  /\ UNCHANGED <<row, live, cand, held, task>>

\* Mutant: whatever the candidate's row was, its id counts as deleted.
DeleteSetUnread(r) ==
  IF req[r].others THEN StoredFor(For(r)) ELSE {req[r].id}

\* delete_candidate_and_others finds the ruleset through the candidate's own
\* row: when that row is gone it deletes nothing.
DeleteSet(r) ==
  IF ~Stored(req[r].id) THEN {}
  ELSE IF req[r].others THEN StoredFor(For(r)) ELSE {req[r].id}

DeleteCandidates(r) ==
  /\ req[r].pc = "delete"
  /\ req' = [req EXCEPT ![r].pc = "commit", ![r].dels = DeleteSet(r)]
  /\ UNCHANGED <<row, live, cand, held, task>>

\* Mutant: the row updated is the one of the Action's own ruleset.
CommitOwnRow(r) ==
  /\ Goto(r, "commit", "committed")
  /\ row' = [row EXCEPT ![req[r].path] = BundleOf(r)]
  /\ live' = [live EXCEPT ![For(r)] = Migrate(@, BundleOf(r))]
  /\ cand' = WithDeleted(req[r].dels)
  /\ UNCHANGED <<held, task>>

Commit(r) ==
  /\ Goto(r, "commit", "committed")
  /\ row' = [row EXCEPT ![For(r)] = BundleOf(r)]
  /\ live' = [live EXCEPT ![For(r)] = Migrate(@, BundleOf(r))]
  /\ cand' = WithDeleted(req[r].dels)
  /\ UNCHANGED <<held, task>>

Respond(r) ==
  /\ req[r].pc = "committed"
  /\ End(r)

-----------------------------------------------------------------------------
\* An await returns an error the steps above do not name (the database, podman,
\* the pool), the client goes away, or the process dies.
Drop(r) ==
  /\ req[r].pc # "idle"
  /\ End(r)

\* The steps of a handler that the server, PostgreSQL or podman answer for.
Advance(r) ==
  \/ GetHandlerConn(r) \/ LookupFound(r) \/ LookupEnds(r) \/ Resume(r)
  \/ GetApplyConn(r) \/ ReadCandidate(r) \/ CandidateNotFound(r) \/ ReadPrev(r)
  \/ ValidateApply(r) \/ CandidateInvalid(r)
  \/ ApplyMigration(r) \/ MigrationFails(r) \/ UpdateRuleset(r)
  \/ DeleteCandidates(r) \/ Commit(r) \/ Respond(r)

\* The steps of the ruleset's code.
ScriptCalls(r) ==
  \/ \E t \in Tasks, b \in Bundles : StartPropose(r, t, b)
  \/ Await(r)

ScriptReturns(r) ==
  \/ ScriptEnds(r)
  \/ \E c \in CandidateIds, others \in BOOLEAN : ScriptReplaces(r, c, others)

Perform(t) ==
  \/ ProposeGetConn(t) \/ ProposeReadPrev(t) \/ ProposeValidate(t)
  \/ ProposeInvalid(t) \/ \E c \in CandidateIds : ProposeInsert(t, c)

Next ==
  \/ \E r \in Requests :
       Arrive(r) \/ Advance(r) \/ ScriptCalls(r) \/ ScriptReturns(r) \/ Drop(r)
  \/ \E t \in Tasks : Perform(t) \/ ProposeFails(t)

Spec == Init /\ [][Next]_vars

(***************************************************************************)
(* Fairness.  An await that can complete does.  The pool's semaphore and   *)
(* PostgreSQL's lock queues serve their waiters in order, so no waiter is  *)
(* passed over for ever: strong fairness.  And ruleset functions return:   *)
(* the code does not bound how long one runs, so Served below is about     *)
(* functions that do.  Nothing obliges a client to send a request or an    *)
(* await to fail.                                                          *)
(***************************************************************************)
Fairness ==
  /\ \A r \in Requests : SF_vars(Advance(r)) /\ SF_vars(ScriptReturns(r))
  /\ \A t \in Tasks : SF_vars(Perform(t))

FairSpec == Spec /\ Fairness

-----------------------------------------------------------------------------
(* Properties *)

\* Pool accounting: what is out of the pool is exactly what the handlers,
\* replacements and proposals in progress hold, one connection each, and never
\* more than the pool has.  A path that ends without giving its connection
\* back, or gives back another's, breaks it.
ConnsAccounted ==
  /\ held = {<<r, "handler">> : r \in {q \in Requests :
                                        req[q].pc \notin {"idle", "want_handler"}}}
       \cup {<<r, "apply">> : r \in {q \in Requests : req[q].pc \in ApplyPcs}}
       \cup {<<t, "propose">> : t \in {u \in Tasks :
                                        task[u].pc \notin {"idle", "want_conn"}}}
  /\ Cardinality(held) <= PoolSize

\* Every request in progress waits for the pool, and the pool is empty.
WaitsForPool(r) ==
  \/ req[r].pc \in {"want_handler", "want_apply"}
  \/ /\ req[r].pc = "await"
     /\ TasksOf(r) # {}
     /\ \A t \in TasksOf(r) : task[t].pc = "want_conn"
PoolStuck ==
  /\ ~ConnFree
  /\ \A r \in Requests : req[r].pc # "idle" => WaitsForPool(r)

\* The pool alone never stops the server as long as fewer requests are admitted
\* than it has connections: those who keep one while they wait for a second
\* cannot all be waiting for each other's.
NeverStuck == Cardinality(Requests) < PoolSize => ~PoolStuck

\* r waits for a lock that another transaction has.
WaitsForLock(r) ==
  \/ req[r].pc = "migrate" /\ ObjectsLocked(r)
  \/ req[r].pc = "update" /\ RowLocked(For(r))
Waits(r) == WaitsForLock(r) \/ (WaitsForPool(r) /\ ~ConnFree)

\* Locks and pool together: who waits for a lock keeps two connections, and who
\* waits for a connection keeps one.  With fewer requests than connections there
\* is still always one in progress that waits for neither.
SomebodyProceeds ==
  /\ Cardinality(Requests) < PoolSize
  /\ \E r \in Requests : req[r].pc # "idle"
  => \E r \in Requests : req[r].pc # "idle" /\ ~Waits(r)

\* What a transaction's migration did when it was executed is what its commit
\* will do: whatever commits in between, the migration of an open transaction
\* still runs on the schema that is committed.
PendingStillApplies ==
  \A r \in Requests : Migrated(r) => MigrationRuns(live[For(r)], BundleOf(r))

\* The one way the pool can hold everybody up has no database side: all its
\* connections are those handlers keep while they wait for a second one.  No
\* transaction is open, no lock is held, and no proposal is half done.
StuckHoldsNoLocks ==
  PoolStuck => /\ held \subseteq Requests \X {"handler"}
               /\ \A r \in Requests : req[r].pc \notin ApplyPcs
               /\ \A t \in Tasks : task[t].pc \in {"idle", "want_conn"}

\* What a transaction is about to delete is still there when it commits.
DeletionsPending ==
  \A r \in Requests : req[r].pc = "commit" =>
    /\ req[r].dels \subseteq StoredFor(For(r))
    /\ Stored(req[r].id) => req[r].id \in req[r].dels

\* Every request ends, if there are fewer requests than connections: checked
\* with the fairness above, and with PoolSize larger than the set of requests.
Served ==
  \A r \in Requests : (req[r].pc # "idle") ~> (req[r].pc = "idle")

\* However many requests are admitted, a replacement that has got its connection
\* ends: from there to the commit it needs nothing more from the pool.
ApplyEnds ==
  \A r \in Requests : (req[r].pc \in ApplyPcs) ~> (req[r].pc = "idle")

\* rulesets_test.rs: validation succeeding implies application succeeding.
ValidatedApplies ==
  \A r \in Requests :
    req[r].pc = "migrate" => MigrationRuns(live[For(r)], BundleOf(r))

\* runtime.ts: the migration is checked to go from the current state of the
\* database to the one db_schema declares.
RecordedSchemaIsLive == \A p \in Paths : live[p] = Declares[row[p]]

\* runtime.ts: an Action's ReplaceSelfStruct replaces the current Ruleset.
ReplacesOwnRuleset ==
  \A r \in Requests : Migrated(r) => For(r) = req[r].path

-----------------------------------------------------------------------------
(* The inductive invariant behind the safety properties *)

\* A request has a ruleset, a replacement has a candidate that was proposed, and
\* only candidates that were proposed are deleted.
RequestsOK ==
  \A r \in Requests :
    /\ req[r].pc # "idle" => req[r].path \in Paths
    /\ req[r].pc \in ApplyPcs \cup {"want_apply"} => req[r].id \in CandidateIds
    /\ req[r].pc \in ApplyPcs \ {"read_candidate"}
         => cand[req[r].id].state # "unused"
    /\ \A c \in req[r].dels : cand[c].state # "unused"

\* A proposal in progress belongs to a request whose function is running.
TasksOK ==
  \A t \in Tasks :
    /\ task[t].pc # "idle"
         => /\ task[t].owner \in Requests
            /\ task[t].bundle \in Bundles
            /\ req[task[t].owner].pc \in {"script", "await"}
    /\ task[t].pc = "insert" => task[t].bundle \in Loads

TypeInv == TypeOK /\ RequestsOK /\ TasksOK

\* Open transactions on one ruleset touch different objects.
MigrationsApart ==
  \A r, q \in Requests :
    Migrated(r) /\ Migrated(q) /\ For(r) = For(q) /\ r # q
      => /\ Drops[BundleOf(r)] \cap Drops[BundleOf(q)] = {}
         /\ Adds[BundleOf(r)] \cap Adds[BundleOf(q)] = {}

\* The row's lock, which a transaction keeps from its update to its commit, has
\* one holder: what another commits while r deletes is of another ruleset.
OneWriter ==
  \A r, q \in Requests :
    /\ req[r].pc \in {"delete", "commit"}
    /\ req[q].pc \in {"delete", "commit"}
    /\ For(r) = For(q)
    => r = q

TxInv ==
  TypeInv /\ MigrationsApart /\ PendingStillApplies /\ OneWriter /\ DeletionsPending
=============================================================================
