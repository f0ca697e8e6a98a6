# votebase in TLA+

votebase serves *rulesets*: TypeScript programs with a PostgreSQL schema of their own, whose
Actions may replace the very ruleset they belong to. This directory holds TLA+ models of the
server around them, the TLC runs that check the models, and TLAPS proofs of what matters most.
Paths below are relative to `src/`.

## The system

| part | state it keeps | operations | talks to |
|---|---|---|---|
| HTTP server (`server/src/main.rs`) | one future per request, the pool | five handlers | pool, runtime, PostgreSQL |
| Connection pool (deadpool, size `DATABASE_MAX_CONNECTIONS`, 5 by default, no wait timeout) | connections that are out, waiters | `get`, drop of a client | everyone |
| Candidate registry (`common/src/rulesets.rs`, `db_schema_utils`) | tables `ruleset` and `candidate_replacement_ruleset`, one database schema per ruleset | propose, apply | PostgreSQL, validation |
| Creation of rulesets (`create_ruleset`) | the same tables, schemas and roles | create | PostgreSQL |
| Script runtime (`common/src/runtime`) | Deno's `OpState`: function map, flag, `RunInfo`; op futures | evaluate, register, call, ops | pool, registry |
| Validation (`validate_bundled_ruleset_top`) | a network, two temporary databases, a directory | validate | podman |
| Temporary containers (`utils/src/temp_containers.rs`) | containers, networks, child processes | create, poll, drop | podman |
| Scheduler (`runtime/scheduling.rs`, `queries/scheduled.sql`), disabled at this commit | a queue of sleeping tasks, rows with a mark "executing" | create, remove, wake, acquire, run, release, startup | PostgreSQL, runtime |
| Names (`common/src/lib.rs`, `schema.sql`) | none: full paths, identifiers of schemas and roles, URLs | format, split | everyone who reads the catalog |
| Query generation (`gen_queries.rs`) | one future per `.sql` file, the generated text | number parameters, prepare, generate | PostgreSQL |
| Frontend (`frontend/utils/index.ts`) | a ref per component | fetch when an input changes, show the answer | HTTP server |
| SQL and member ops, bootstrap and other commands, sample rulesets | files | sequential, or disabled | |

How they interact. A request takes a connection, reads the catalog, and keeps the connection. For
an Action or a View it evaluates the ruleset's code in a new runtime and calls a function of it.
The function may start any number of `proposeSelfReplacement` calls; each takes a connection of
its own, reads the ruleset's row, validates the bundle in containers and inserts a candidate row.
An Action may return the id of a candidate: the handler takes a second connection, reads the
candidate and its ruleset, validates again, and runs migration, row update and deletions in one
transaction.

What is hard here: each `await` is a place where any other request runs; a request holds one
connection while it waits for another; what is validated is not what is locked; a handler's
future may be dropped at any `await`, with op futures inside it; and several statements of one
operation are not one transaction (`create_ruleset`).

What makes each part correct:

* pool: every connection that is out belongs to someone who will give it back, and the requests
  admitted can never all wait for each other;
* registry: a replacement is one step that installs a proposed bundle, runs its migration on the
  schema that is really there, and removes candidates of the same ruleset only;
* creation: the catalog is one tree, and a schema is the one its row's migration made;
* runtime: code has effects only inside a call, and a name means one function;
* containers: nothing outlives the value that owns it, a connection reaches the container it was
  asked of, and no foreign process is interrupted;
* scheduler: every occurrence runs at most once and not before its time, and what can run is waited
  for by somebody;
* sessions: a connection carries no role and no transaction from one user to the next;
* names: what is put together can be taken apart, and one ruleset's identifiers are not another's;
* query generation: an argument arrives at the place that has its name;
* frontend: nothing loads for ever, and what is shown was asked for and answered.

## The modules

| module | models | its state and actions in the code |
|---|---|---|
| `Migrations` | what a bundle's strings do | `Declares`, `Drops`, `Adds` are the objects `db_schema` and `db_migration` name; `Validates` is `validate_bundled_ruleset_top` |
| `Registry` | the abstract specification: what the server promises about rulesets and candidates | `row`, `live`, `cand` are the two tables and the schemas; `Propose`, `Install` |
| `Rulesets` | handlers, pool, proposals, transactions | `req[r].pc` is the `await` the handler is at, `task[t].pc` the one the op is at, `held` the connections that are out |
| `CreateRuleset` | `create_ruleset` by any number of callers | `call[c].pc` is the `await`; `row`, `schema` what is committed |
| `Validation` | one `validate_bundled_ruleset_top` and what it starts outside the server | `val.pc` is the `await`, `pg[d]` the future of one database, `box[d]` its `podman run`, `network` and `creating` podman's network, `helper` the containers of tsc and of the diff, `db[d]` what is committed and what a transaction adds |
| `Runtime` | one runtime from `Runtime::new` to the end of the call | `external`, `fnMap`, `runInfo` are the values in the `OpState`, `op[o]` an async op's future |
| `Sessions` | one connection from caller to caller, and the session behind it | `holder` is the caller (`get_rulesets`, `apply_candidate_top`, `create_ruleset`) and how much of its program it has sent, `inbox` what tokio-postgres has queued, `session`, `saved`, `tx` what the server keeps |
| `Names` | paths, schema names, role names, PostgreSQL's truncation | `rows`, `schemas`, `roles` are what `create_ruleset` leaves in the database |
| `Occurrences` | the abstract specification of the scheduler: what may happen to one action | `job[a]` is submitted, waiting, running, held or gone |
| `Scheduling` | `ScheduledActionQueue`, the four ops, the startup in `main.rs`, restarts | `row[a]` is the row in one of the two tables, `task[a][s]` the task that the op or the startup has queued, `boot` how far the startup is |
| `Containers` | `TempPodmanNetwork`, `TempPodmanPg`, `GracefulChild`, with podman, ports and process ids | `temp[p]` is the future of `new` and then its value, `proc[p]` the child process, `container[p]` the container, `owner[i]` whose process has the id `i`, `conn` the tasks of open connections |
| `Queries` | `generate_queries` | `task[f]` is the future of a file, `made[f]` its `FullStatement`, `fields` the generated executors |
| `FetchRace` | `computedFetch` | `inner` is the ref, `sent` and `flight` the requests, `queued` the rerun of `watchEffect` |
| `RulesetsProofs`, `RulesetsSafety` | theorems about `Rulesets`, `Registry`, and the refinement between them | |
| `CreateRulesetProofs` | theorems about `CreateRuleset` and `Names` | |
| `SessionsProofs`, `RuntimeProofs`, `SchedulingProofs` | theorems about `Sessions`, `Runtime`, `Scheduling`; the first two also about the runs `create` and `runtime` | |
| `ValidationProofs` | theorems about `Validation`, `Containers` and the run `validation` | |
| `ToolsProofs` | theorems about `Queries`, `FetchRace` and the run `tools` | |
| `MCRulesets`, `MCCreateRuleset`, `MCRuntime`, `MCValidation`, `MCTools` | values for TLC | |

`Rulesets` extends `Registry`, which extends `Migrations`: the detailed specification has the
abstract one's variables and some more, so the refinement mapping is the identity, and
`RegistrySpec` itself is the property. `CreateRuleset` produces the states `Rulesets` starts in:
a row, and the objects its first migration adds; that it produces no others is the theorem
`CreatedIsInitial`. `Rulesets` takes a validation as one step whose
result is `Migrations!Validates`; `Validation` is that step in detail, and `VerdictIsValidates`
says that it comes to the same result as long as podman and the databases work. When they do not,
the code reports the bundle as invalid all the same, which in `Rulesets` is `ProposeFails` or `Drop`. `Containers` in turn has what `Validation` takes for granted
of a database: which port it is reached at, whose process is interrupted. `Scheduling` has other
variables than `Occurrences`; `Jobs` is the refinement mapping (`INSTANCE Occurrences WITH
job <- Jobs`), and `PromiseSpec` the property.

Modules that share no state, and only have a part of the system in common, are checked in one run:
`MCCreateRuleset` has `CreateRuleset`, `Sessions` and `Names`, `MCRuntime` has `Runtime` and
`Scheduling`, `MCValidation` has `Validation` and `Containers`, `MCTools` has `Queries` and
`FetchRace`. Their variable `subject` says which of the modules a behaviour is about; the others
stay in their initial state, so the states of a run are the sum, and not the product, of those of
its modules, and no property is true because of a step of another module. That a behaviour of such
a run is one of each of its modules is proved (`CreationsAreAll`, `RunsAreBoth`, `ValidationsAreBoth`,
`ToolsAreBoth`).

Conventions. One step is the code between two `await`s. A statement outside a transaction
changes the database variables at once; the statements inside one are remembered in the program
counter and the request's record, their locks are read off the program counters (`RowLocked`,
`ObjectsLocked`), and they take effect at `Commit`. Operators named as mutants in a comment are
plausible bugs; nothing uses them except the runs that show that a property would notice.

## What is abstracted

* Bundles are model values. A schema is the set of objects in it; rows of ruleset tables are not
  modelled, so a migration that only fails on data does not occur.
* A migration is one batch; it takes the locks of the objects it drops and creates together.
* PostgreSQL's deadlock detector, errors of podman, of the pool and of the network, a client that
  goes away and the death of the process are all `Drop` (of a request) or `ProposeFails` (of an
  op): the future ends, its connections go back, its transaction rolls back. A proposal cancelled
  while its `INSERT` is in flight is taken to be either not sent or done.
* The database and its tables survive a restart, requests and pool do not: a restart is `Drop` of
  every request.
* The pool serves waiters in order. The model lets any waiter go next and states the order as
  strong fairness, so it has more behaviours than the code.
* What `await` in the script means is reduced to `Await` and `Resume`: the script waits for all
  that it has started, or for nothing. A script that awaits some of its calls is one that starts
  fewer.
* A candidate id is used once (`gen_random_uuid`); `CandidateIds` bounds how many are proposed in
  a behaviour, and the script starts a proposal only while an id is left for it.
* The diff of the two validated schemas is empty, because the program that computes it cannot see
  uncommitted objects (see the findings). If the validation is corrected, `VisibleToDiff` becomes
  the identity.
* `deno_core` reports a panic in an op by aborting: what happens to the rest of the process after
  `Runtime`'s state `panicked` is not modelled.
* The commit is in the middle of a change: `podman_fns.rs` uses `PodmanNetwork` and
  `generate_temp_config`, which `temp_containers.rs` does not define any more. The models follow
  the callers, and take `PodmanNetwork` to be today's `TempPodmanNetwork`.
* `Scheduling` is of code that is commented out where it would be used, as it stands. `Period` is a
  number where the code has calendar intervals (in a run 1, the finest), `MaxTime` bounds the clock
  and `MaxCrashes` the restarts. `executed_count` does not overflow. The two tables of actions are one
  `row` with a `kind`, since an id is in one of them. The database survives the server.
* `Sessions` has one connection: callers on different connections meet in `Rulesets`, not in a
  session. The `search_path` that `sql_as_role` sets is never reset; statements on the catalog are
  qualified, so `CatalogAsServer` is about the role. SQL of a migration that itself changes role or
  transaction is not modelled.
* In `Names` a string is a sequence of characters, of which the fixed parts of identifiers
  ("role:", "ruleset:", the types) count as one each; `MaxIdentifier` is PostgreSQL's 63 bytes.
* In `Containers`, podman gives a free port, and the system a free process id, to whoever asks: a
  run has fewer of both than databases, so that both are used again.
* SQL in `Queries` is the placeholders of a statement in the order the visitor finds them, and for a
  column whether the catalog query lists its relation.
* `FetchRace` is about a component that stays while its input changes. A page that Nuxt sets up anew
  for each path has a ref of its own. Answers need not come, so there is no liveness to state.
* podman is modelled from how the code uses it: `run` needs its network and is stopped by an
  interrupt, `network rm -f` removes the network with what runs in it, and succeeds. `podman`
  commands of one validation take effect in any order the code does not forbid. Death of the server
  process, which runs no `Drop` at all, and a database that fills the pipes nobody reads are not
  modelled; neither is the temporary directory.

## The runs

| run | instance | question | result |
|---|---|---|---|
| `rulesets` | 3 requests, 2 proposals, 2 ids, 1 ruleset, 4 bundles, pool 5 | safety of handlers, pool and transactions; does somebody always proceed? | holds, about 300 000 states |
| `paths` | 2 requests, 1 proposal, 2 ids, 2 rulesets, 5 bundles, pool 4 | `RegistrySpec` and `InstalledIsLive`: the registry with several rulesets and every kind of bundle | holds, 495 000 states |
| `live` | 2 requests, 2 proposals, 2 ids, pool 3, fair | every request ends | holds, 43 000 states |
| `crowded` | 3 requests, 1 proposal, pool 2, fair | what remains true when the pool can run dry | holds |
| `create` | 3 calls, 2 roots and a child, 2 bundles; a connection with up to 4 queued messages when a caller comes, 2 rulesets; 4 rulesets with names of up to 2 characters and identifiers of 7 | creation, the sessions it happens in, and the names it gives | holds, 26 000 states |
| `runtime` | 2 names, 3 ops, 3 registrations; 1 action, 5 points in time, 2 restarts, fair | the life of the op state; the scheduler and its promise | holds, 116 000 states |
| `validation` | 1 table, 5 bundles (one rejected at each stage), every predecessor, fair; 2 databases, 1 of them in a network, 1 port, 2 process ids, 2 polls, fair | verdict and clean-up of a validation; whose container, whose process, and what is left | holds, 229 000 states |
| `tools` | 2 files out of 164 texts; 3 urls, 4 requests | parameters of generated queries; answers out of order | holds, 903 000 states |
| `validated_applies`, `recorded_schema`, `own_ruleset`, `reported_invalid` | the smallest instance that shows it | a statement of the documentation | violated |

Why the bounds are enough. Two requests already give every race of two replacements; the third
lets a third party commit between two steps of the others, and holds connections the two wait for.
Two candidate ids give a replacement that deletes another's candidate, and an id applied twice.
The bundles over one table contain every relation two migrations can have: in conflict with
itself (`addX` twice), undone by the other (`addX`, `dropX`), empty while it declares something
(`forgetX`), rejected (`broken`). The pool sizes are the two sides of the condition in
`SomebodyProceeds`. In `live` the pool is the smallest one the claim is about, one connection more than
there are requests: two proposals and the handlers' second connections compete for what is left, so
that each of them waits, and with weak instead of strong fairness of `Advance` and `Perform`, that is with
waiters passed over, `Served` fails. The theorems remove the bounds from the safety properties.

One validation is enough in `validation`: names of networks and containers are random, so two
validations share nothing. With one table, the migrations of `addX` and of
`dropX` each run on one predecessor and fail on the other, and the rest run on both.

One action is enough in `runtime`: actions meet only in the startup, where an overdue one keeps the
ones after it from being queued (`BootPanics`), and `fault` blames that on each of those; `SchedulingSafe`,
`SchedulingKeepsPromise` and `SchedulingAttends` are proved for any number. Four points after the first hold four occurrences
of a recurring action, and two restarts give a mark that outlives a task and a second startup that
meets it. In `validation`, one port makes the second database get the first one's, and two ids make
another program get a process id of ours. Two polls are one that fails and one that is the last.
Four messages are more than any caller leaves behind at once. Identifiers of 7 hold a schema and a role of a root
whole, and cut those of its descendants, some of them to the same identifier. Three placeholders
give a name twice with another between, or beside a number. Three urls and four requests are
three requests of which each may be answered after a newer one, and a url that is asked for again.

Deadlock is checked in all runs except `runtime`, `validation` and `tools`, whose subjects end; in
`create`, `NamesBounded` lets the catalog stay as it is when the bound of rows is reached.

### Properties worth a word

* `SomebodyProceeds`, `StuckHoldsNoLocks`: the handler keeps its connection while it waits for another
  (hold and wait), and a transaction waits for locks while it keeps two. With fewer requests than
  connections that is harmless, however many proposals they start: the waiters themselves cannot
  fill the pool, and who waits for a lock waits for somebody who needs neither. With as many requests
  the server can stop; then no transaction is open.
* `InstalledIsLive`: `RecordedSchemaIsLive` fails (below), because nobody compares what a migration
  makes with `db_schema`. What is left of it is this: the bundle in a ruleset's row was proposed for
  that ruleset, and its migration is the one in force on the live schema. Row and schema are
  written by different statements of transactions that other replacements interleave with.
* `PendingStillApplies`: between the execution of a migration and its commit other transactions on
  the same schema commit; locks are what keeps the migration applicable.
  Migrations that do not conflict do run at once; that one of them at a time is past the update of the
  row is PostgreSQL's doing, a conjunct of the invariant (`OneWriter`) and no property of this code.
* `DeletionsPending`: what is remembered as deleted is still there at the commit, although
  other replacements delete and other proposals insert meanwhile.
* `EvaluationIsPure`: async ops are lazy, so an op called during the evaluation is polled later. It
  is refused only because `Runtime::new` runs the event loop to its end before the flag is set.
* `CreatedOnce`: a row inserted by a `create_ruleset` that then fails can never become a
  ruleset, and keeps its path. Who tries again, not knowing that the first call committed, cannot
  damage the ruleset, though the row is inserted outside the transaction.

* `VerdictIsValidates`: the verdict is put together from five stages in two databases, any of which
  may fail or be dropped. What is accepted validates, always: a stage that is skipped, or run on the wrong
  schema, or a failure taken for success would be noticed. What is refused does not validate as long as podman
  and the databases work (`fault` is a history variable that says they did not); the rest is the fourth
  violation below.
* `OnlyAbandonedLeaves`, `NothingStartsLater`, `Cleaned`: children are interrupted and not waited
  for, so a `podman run` may outlive the validation. Because `network rm -f` comes after the
  interrupts, one that has no container yet cannot start it any more. The exception is a future
  that is dropped inside `TempPodmanNetwork::new`: `podman network create` goes on, and nobody owns
  the network.
* `PromiseSpec`: the op that creates an action and the startup that reads its row can both queue it,
  and tasks die with the server while marks do not. Still no occurrence begins twice, none begins
  early, and the next one begins only after the one before is counted. The price is in
  the promise too: an action that is *held* (marked, with nobody executing it) never begins again.
* `Attended`: after any sequence of ops, runs and restarts, what can be acquired has a task, unless
  something has gone wrong with that very action since the server was started: it was overdue when it was
  queued, the request that created it went away, its statement failed, or the startup did not come to it.
  The exceptions are real ones, and each of them can leave an action to the next startup; what goes wrong
  with one action does not excuse another, except in a startup that ends early.
* `OwnDatabase`: a value remembers a port, not a container. The exception is a container that has
  failed by itself, whose port podman may give away while the value is alive.
* `SignalsOwn`: a child is interrupted by its process id. It is still its id only because nobody has
  waited for the process before the value is dropped; so the signal reaches the right process, and
  no other.
* `NoOthersTransaction`, `CatalogAsServer`: dropping a transaction only queues a `ROLLBACK`, and
  an error in a migration skips the `reset role` after it; both are right because the
  server executes the messages of a connection in order and undoes `SET` with the transaction.
* `RolesOwn`, `NamesFreeToChoose`: PostgreSQL cuts identifiers, so that two rulesets may want the
  same role. `create role` then fails, where a "create if not exists" would share it.
* `NothingUnbound`: positions go on from statement to statement of a file while each statement is
  prepared by itself; what would have an unbound parameter is refused by the server before the
  executor is written.
* `RefFollowsRequests`: answers come in any order, and each writes the ref. Still nothing is left loading once
  everything is answered, and what is shown was asked for and answered. More is not true: the last answer
  stays, so content of another url is on the page while the newest request is in flight, when the url has
  gone, and for good when an older request is answered after the newest.

### Fairness

`FairSpec` assumes that an `await` which can complete does (tokio, PostgreSQL and podman make
progress), that nobody who waits for the pool or a lock is passed over for ever (both queues are
served in order), hence strong fairness of `Advance` and `Perform`, and that the ruleset's function
returns (`ScriptReturns`). The last one is not the server's doing: a function that never returns
keeps its request for ever, and `Served` is about those that do. No client has to send a request,
and no failure has to happen. `ValidationFairSpec` assumes that the validation's future is polled
(its retry loops are bounded, so each `await` ends or fails; the evaluation of the bundle's code is
taken to return), that `podman network create` ends, that an interrupted process or one without its
network goes away, and that a helper container nobody waits for ends: tsc and the diff are bounded
programs. `SchedulingFairSpec` assumes that time passes and that a task that is awake is polled and
gets an answer to its statement; not that an execution ends, or that the server stays up.
`ContainersFairSpec` assumes that the future of `new` is polled (its loops are bounded), that a
process that got SIGINT ends and the task that waits for it is polled, and that the connections of a server that has
gone are closed. The runs state these for the steps of their subject.

### What the violations show

1. `ValidatedApplies`: a validated candidate need not apply, since the validation is not repeated
   in the transaction. The transaction then fails as a whole, so `RegistrySpec` is untouched.
2. `RecordedSchemaIsLive`: validation compares two databases whose changes are not committed, so a
   migration that does not reach `db_schema` passes.
3. `ReplacesOwnRuleset`: an Action may return a candidate of another ruleset, which is replaced.
4. `ReportedIsInvalid`: `apply_candidate_top` makes `CandidateApplyError::Invalid` ("was found to be invalid
   for the current state", `rulesets.rs:102`) of every error of the validation (`rulesets.rs:690-693`). Some of
   them say nothing of the candidate: a network or a database that does not come up, a connection that is
   lost (`ValidationError::Db`), and podman's own failure to run tsc, which is reported as errors in the
   bundle's TypeScript (`rulesets.rs:118-128`).

Seen while modelling, and part of the models as it is, without a run of its own:

* `runtime/rulesets.rs:10`: `proposeSelfReplacement` asks only whether calls are allowed, so a View may
  propose a replacement too, although `runtime.ts:158` says that Views only read data (`ScriptCalls`).
* `scheduling.rs:157`: an action whose time has moved on is acquired, queued again ("not doing it
  yet") and not released, so it is never acquired again (`PutOff`; it is held in `Occurrences`).
* `scheduling.rs:66`: the delay to an overdue action is negative and its conversion is unwrapped; the
  startup panics there and sets up no timers for it and the actions after it (`notes.md:357` says that the
  server sets up timers at startup) (`BootPanics`).
* `temp_containers.rs:329`: the health check connects to the port, whosever it is, so a value can be
  made of a container that has failed (`Answers`).
* `gen_queries.rs:259`: a column of a relation that the catalog query leaves out panics (`PrepareSingle`).
* `gen_queries.rs:70`: executors are in the order of the directory walk, which is the file system's,
  while `cmd_dev_check.rs:90` compares the text with a file (`listed`).
* `sql.rs:364` (disabled): "set role" in a transaction that commits is not undone by the commit.
* `schema.sql:228`: the arguments of `starts_with` are swapped, so `unformat_schema_name` returns what
  it is given.

## The proofs

Every theorem is for arbitrary constants under the assumptions in the modules: requests and tasks
are finite sets, the pool has at least one connection (`PoolAssumption`), the functions on
bundles have the types `BundlesAssumption` says, periods are positive (`SchedulingAssumption`), and
the values that stand for nobody are no databases, ports or processes (`ContainersAssumption`).
Callers use a connection for one of the three programs, and the server's role is no ruleset's
(`SessionsAssumption`). Names are non-empty sequences without the delimiter, which is what
`valid_name` lets into the catalog, of any length and over any characters (`NamesAssumption`). A
directory has finitely many files; what a file parses to is a sequence of statements, each with a
sequence of placeholders that have a name or a number from 1 (`QueriesAssumption`).

* `RulesetsProofs`: `TypeInv` is inductive: types, and what the program counters say of the rest
  of a record (a replacement past its read has a candidate that was proposed; a proposal belongs
  to a request whose function runs; what is deleted was proposed). `TypeCorrect` is `[]TypeOK`.
  For the pool, `ConnsAccounted` speaks of sets, and is awkward to carry through a step; `PoolInv` says the same of each connection, plus that `held` is finite and no larger than the
  pool. From it `PoolAccounting`, `StuckIsHarmless`, and `PoolSuffices` by counting: in a stuck
  state the connections that are out are at most one per request, so the pool alone never stops the
  server (`NeverStuck`).
* `RulesetsSafety`: `TxInv` adds `MigrationsApart` (open transactions on one ruleset touch
  different objects), which is what makes `PendingStillApplies` survive another's commit
  (`MigrationsCommute`). `OpenTransactions` are `PendingStillApplies` and `DeletionsPending`, and
  `ImplementsRegistry` the refinement: a step is a `Propose`, an `Install` or a stutter.
  The locks are taken in order, objects before the row (`LocksInOrder`): whoever waits for one waits for a
  transaction of the same ruleset that waits for none, or for one that waits for that. With
  `PoolSuffices` this is `NeverAllWaiting`, which is `SomebodyProceeds` for any number of requests and
  rulesets. `ReplacementsOnlyAdvance` is about the candidate, which is read once and not
  locked: from one statement to the next a replacement stays with the same candidate and bundle, for rows
  are removed and never rewritten (`RowsStay`). `RegistryRecords` proves `InstalledIsLive` of the
  abstract `Registry`; it is inductive with the types (`RegistryInv`), because only candidates that were
  proposed can be stored for a ruleset (`ProposedCandidate`).
  `InstalledStaysLive` carries it over to the handlers by the refinement.
* `CreateRulesetProofs`: `CreateInv` adds that past its insert a call owns its path alone
  (`CallsOK`), from which `CatalogSound`, `CreatedAtMostOnce` and `CreatedIsInitial`. `OneTree`
  (parents before children, one root) is a part of `CatalogSound` that no run checks by itself.
  For `Names`, what paths and identifiers are made of is first computed character by character
  (`SplitsBack`, `SchemaIdentifier`, `RoleIdentifier`). Two identifiers that Postgres has cut agree
  only as far as they are kept; from that, a role of a path that fits can be another path's only
  if one path continues the other at a delimiter (`RoleNameOwn`). `NamesInv` therefore adds that every
  beginning of a row's path that ends before a delimiter is a row too (`Rooted`), that identifiers are the ones of
  their path (`Labelled`), and that what has a schema has its three roles. `PathsSplitBack`, `FittingNamesAreFree` and
  `RolesAreOwn` follow; `NamesFreeToChoose` is not inductive without `Rooted`.
* `SessionsProofs`: `SessionsInv` says what can be queued: in front a message of the shapes
  a program sends, or the rest of one (`FrontInStep`), behind it at most the ROLLBACK of a dropped
  transaction and reads of those who took the connection later (`Queued`); what the holder waits
  for is the last message (`HolderInStep`); and somebody always ends a transaction that is open
  (`Ended`), which resets the role (`Settled`). `CatalogIsServers`, `MigrationsAreOwn` and
  `TransactionsAreOwn` follow, for any number of callers, rulesets and queued messages.
* `RuntimeProofs`: `RuntimeInv` says that flag, `RunInfo` and map change together with the call, and
  that no op is left from the evaluation by then: `EvaluationSound`, `OpsAllowedInCalls`.
* `ValidationProofs`: `ValidationInv` says which stages the bundle has passed at each point
  (`Stages`), that nothing is ever committed in the two databases (`NothingCommitted`, which is why
  the diff is empty), and who owns the network and what runs in it (`NetworkOwned`). `VerdictSound`,
  `NetworkGoes` and `StartsNothing` follow, and `LeavesInterrupted`: what is left of a validation that has
  ended has its SIGINT or no network any more. They assume `Loads` to be the bundles that pass the three
  stages (`LoadsAssumption`).

* `SchedulingProofs`: `SchedulingInv` adds that who executes an action whose row is there has its
  mark (`Marked`), that a task of a single action wakes at its time (`OnTime`), and that the startup has no
  task for an action it has yet to read (`BootedOnce`). It speaks of each action by itself
  (`InvByAction`), so a step of one action is a lemma about one row and two tasks (`OneTask`). From it
  `SchedulingSafe` and the refinement `SchedulingKeepsPromise`: a step is one of
  `Occurrences` or a stutter, and a crash is `Hold` of all that was running. `StuckIsHeld` follows
  from the refinement. `SchedulingAttends` needs what the startup has still to read (`ToBoot`): it either comes to an
  action or is to blame for it (`BlamedFacts`, `BootAttends`).
* `ValidationProofs` again, for `Containers`: `ContainersInv` adds that containers have different ports (`PortsDiffer`), that
  the port a value knows is its container's unless that has failed or gone with its network
  (`PortKnown`), and that a process has its id until somebody waits for it, which happens only after its value has
  ended (`IdsKept`). `ContainersSafe` and `InterruptsOwn` follow, and `DroppedAreStopped`: a container
  that a value has left belongs to a process that got its SIGINT.
* `ToolsProofs`, for `FetchRace`: `FetchInv`, which is the types and `RefFollowsRequests`, is inductive; hence `RefSound`.
  For `Queries`, the numbering of parameters is a fold over the placeholders of a statement, inside one over the
  statements of a file. The library's induction over operators cannot be used, so induction is
  stated for sets of naturals (`Induction`, from well-foundedness), and a fold over positions `1..n`
  is shown to be a walk: a function `w` with `w[0]` the base and `w[k]` the step from `w[k - 1]`
  (`FoldExists`: the recursion over sets of positions that `FoldLeft` chooses a solution of has
  one; `FoldWalks`: any solution is the walk). `VisitFold` and `StatementsFold` state that for the two folds of the model, and
  from there it is ordinary induction: after `k` placeholders, each name's position is one that has its name,
  and positions of names rise (`Placed`). `QueriesInv` adds that the statements a future has passed have
  no parameters (`OneByOne`), and that what was made of a file is what its conversion says (`MadeOfSource`). `NamesReach` and
  `NothingIsUnbound` follow, for files of any number of statements and placeholders.

* The runs with a `subject`: their steps are steps of one of the modules and leave the variables of the
  others alone, so `MCSpec` implies the specification of each (`CreationsAreAll`, `RunsAreBoth`,
  `ValidationsAreBoth`, `ToolsAreBoth`). What is proved of a module thus holds in the run, and
  `MCTypeOK` is proved of the runs themselves (`CreationsTyped`, `ToolsTyped`). The proof modules extend the
  MC modules for this, and are still about arbitrary constants: the values are only in the .cfg.

Only model-checked: liveness under fairness, which is out of the prover's reach, and so are the
`ENABLED` conditions it rests on (`Served`, `ApplyEnds`, `Cleaned`, `WaitsEnd`, `NewEnds`, `NothingLeft`). Every
other property of the passing runs is a theorem. Of the liveness properties, what safety can say is proved:
somebody always waits for nobody (`NeverAllWaiting`) and a replacement only goes forward
(`ReplacementsOnlyAdvance`), for `Served` and `ApplyEnds`; what is left is interrupted (`LeavesInterrupted`,
`DroppedAreStopped`), for `Cleaned` and `NothingLeft`; what can be acquired has a task
(`SchedulingAttends`), for `WaitsEnd`. That the actions are then enabled is read off their guards: `WaitsForLock`
and `WaitsForPool` are the conditions under which they are not.

## Plan

1. Done: the registry, the handlers and the pool; the creation of rulesets; the runtime; the
   validation with its network and databases; the scheduler and its promise; containers, ports and
   processes; sessions; names; query generation; requests of the frontend.
2. Done: theorems for every safety property of every module, and for the runs that combine modules.
3. Left open: rulesets that are created while others are replaced. At this commit `create_ruleset` is
   called by tests and by a disabled command (`cmd_dev_check.rs:38`) only, never by the server beside its
   handlers. What it hands over to them is `CreatedIsInitial`.
4. Left open: `Sessions` inside `Rulesets`. There, `Drop` ends a transaction at once; in the code the
   `ROLLBACK` is queued on the connection and its locks are kept a little longer, which `Sessions`
   shows for one connection (`NoOthersTransaction`).

Not modelled, and not planned, with the reason:

* connection strings and `outer_join`: pure functions; the latter is used by commented-out code only;
* the uses of a ruleset (`rulesets.rs:303-545`, commented out): the code does not compile;
* SQL and member ops: commented out, and `check_sql_safety` is `unimplemented!()`;
* type generation and `parse_uses`: sequential text; transpiling: one call of a library;
* the command line: reading and writing files in sequence, most of it disabled;
* reflection queries: PostgreSQL's catalogs, read only;
* pages and styling of the frontend; `Async.create`, whose one request has no other to race with;
* sample rulesets (the schema of `three-yes-proposals` does not run at this commit: a select list in
  `update_proposal_status` ends in a comma).
