---------------------------- MODULE RulesetsSafety ----------------------------
(***************************************************************************)
(* What the transactions of replacements guarantee each other, and that    *)
(* the server implements Registry, for every value of the constants.       *)
(***************************************************************************)
EXTENDS RulesetsProofs

-----------------------------------------------------------------------------
(* Transactions *)

\* A step that starts, advances and commits no transaction, and changes no
\* candidate row that was there, keeps the invariant of the transactions.
LEMMA QuietStep ==
  ASSUME TxInv, TypeInv', live' = live,
         \A c \in CandidateIds : cand[c].state # "unused" => cand'[c] = cand[c],
         \A r \in Requests :
           req'[r].pc \in {"update", "delete", "commit"}
             => /\ req'[r].pc = req[r].pc
                /\ req'[r].id = req[r].id
                /\ req'[r].dels = req[r].dels
  PROVE  TxInv'
<1> DEFINE Open(r) == req[r].pc \in {"update", "delete", "commit"}
<1>1. \A r \in Requests : Open(r) => /\ req[r].id \in CandidateIds
                                     /\ cand[req[r].id].state # "unused"
  BY DEF TxInv, TypeInv, RequestsOK, ApplyPcs
<1>2. \A r \in Requests : Open(r)' => /\ Open(r)
                                      /\ req'[r].pc = req[r].pc
                                      /\ req'[r].id = req[r].id
                                      /\ req'[r].dels = req[r].dels
                                      /\ cand'[req'[r].id] = cand[req[r].id]
  BY <1>1
<1>3. \A r \in Requests : Open(r)' => /\ Migrated(r)' /\ Migrated(r)
                                      /\ For(r)' = For(r) /\ BundleOf(r)' = BundleOf(r)
                                      /\ Stored(req[r].id)' = Stored(req[r].id)
  BY <1>2 DEF Migrated, For, BundleOf, Stored
<1>4. MigrationsApart'
  BY <1>3 DEF TxInv, MigrationsApart, Migrated
<1>5. PendingStillApplies'
  BY <1>3 DEF TxInv, PendingStillApplies, Migrated
<1>6. OneWriter'
  BY <1>2, <1>3 DEF TxInv, OneWriter
<1>7. DeletionsPending'
  <2> SUFFICES ASSUME NEW r \in Requests, req'[r].pc = "commit"
               PROVE  /\ req'[r].dels \subseteq StoredFor(For(r))'
                      /\ Stored(req[r].id)' => req[r].id \in req'[r].dels
    BY <1>2 DEF DeletionsPending, Stored
  <2>1. req[r].dels \subseteq StoredFor(For(r)) /\ (Stored(req[r].id) => req[r].id \in req[r].dels)
    BY <1>2 DEF TxInv, DeletionsPending
  <2>2. StoredFor(For(r)) \subseteq StoredFor(For(r))'
    BY <1>3 DEF StoredFor, Stored
  <2> QED BY <2>1, <2>2, <1>2, <1>3
<1> QED BY <1>4, <1>5, <1>6, <1>7 DEF TxInv

\* Which request moved, and where the others are.
LEMMA GotoStep ==
  ASSUME TypeOK, NEW r \in Requests, NEW from, NEW to \in RequestPcs, Goto(r, from, to)
  PROVE  /\ req[r].pc = from /\ req'[r].pc = to
         /\ req'[r].id = req[r].id /\ req'[r].dels = req[r].dels
         /\ \A q \in Requests : q # r => req'[q] = req[q]
BY DEF TypeOK, Goto, Request

\* A transaction begins: its migration is apart from the open ones.
LEMMA ApplyMigrationStep ==
  ASSUME TxInv, TypeInv', NEW r \in Requests, ApplyMigration(r)
  PROVE  TxInv'
<1>1. /\ req[r].pc = "migrate" /\ req'[r].pc = "update"
      /\ \A q \in Requests : /\ req'[q].id = req[q].id /\ req'[q].dels = req[q].dels
                             /\ q # r => req'[q] = req[q]
      /\ live' = live /\ cand' = cand
  BY GotoStep DEF ApplyMigration, TxInv, TypeInv, RequestPcs, ApplyPcs
<1>2. \A q \in Requests : /\ For(q)' = For(q) /\ BundleOf(q)' = BundleOf(q)
                          /\ Migrated(q)' => q = r \/ Migrated(q)
                          /\ StoredFor(For(q))' = StoredFor(For(q))
  BY <1>1 DEF For, BundleOf, Migrated, StoredFor, Stored
<1>3. MigrationsApart'
  BY <1>2 DEF ApplyMigration, ObjectsLocked, TxInv, MigrationsApart
<1>4. PendingStillApplies'
  BY <1>1, <1>2 DEF ApplyMigration, TxInv, PendingStillApplies
<1>5. OneWriter'
  BY <1>1, <1>2 DEF TxInv, OneWriter
<1>6. DeletionsPending'
  BY <1>1, <1>2 DEF TxInv, DeletionsPending, Stored
<1> QED BY <1>3, <1>4, <1>5, <1>6 DEF TxInv

\* The ruleset's row is updated by one transaction at a time.
LEMMA UpdateRulesetStep ==
  ASSUME TxInv, TypeInv', NEW r \in Requests, UpdateRuleset(r)
  PROVE  TxInv'
<1>1. /\ req[r].pc = "update" /\ req'[r].pc = "delete"
      /\ \A q \in Requests : /\ req'[q].id = req[q].id /\ req'[q].dels = req[q].dels
                             /\ q # r => req'[q] = req[q]
      /\ live' = live /\ cand' = cand
  BY GotoStep DEF UpdateRuleset, TxInv, TypeInv, RequestPcs, ApplyPcs
<1>2. \A q \in Requests : /\ For(q)' = For(q) /\ BundleOf(q)' = BundleOf(q)
                          /\ Migrated(q)' = Migrated(q)
                          /\ StoredFor(For(q))' = StoredFor(For(q))
  BY <1>1 DEF For, BundleOf, Migrated, StoredFor, Stored
<1>3. MigrationsApart' /\ PendingStillApplies'
  BY <1>1, <1>2 DEF TxInv, MigrationsApart, PendingStillApplies
<1>4. OneWriter'
  BY <1>1, <1>2 DEF UpdateRuleset, RowLocked, TxInv, OneWriter
<1>5. DeletionsPending'
  BY <1>1, <1>2 DEF TxInv, DeletionsPending, Stored
<1> QED BY <1>3, <1>4, <1>5 DEF TxInv

\* What the delete statement finds is what it deletes.
LEMMA DeleteCandidatesStep ==
  ASSUME TxInv, TypeInv', NEW r \in Requests, DeleteCandidates(r)
  PROVE  TxInv'
<1>1. /\ req[r].pc = "delete" /\ req'[r].pc = "commit" /\ req'[r].dels = DeleteSet(r)
      /\ \A q \in Requests : /\ req'[q].id = req[q].id
                             /\ q # r => req'[q] = req[q]
      /\ live' = live /\ cand' = cand
  <2> DEFINE D == DeleteSet(r)
             R == [[req[r] EXCEPT !.pc = "commit"] EXCEPT !.dels = D]
  <2>1. R.pc = "commit" /\ R.dels = D /\ R.id = req[r].id
    BY DEF TxInv, TypeInv, TypeOK, Request
  <2>2. req[r].pc = "delete" /\ req' = [req EXCEPT ![r] = R] /\ live' = live /\ cand' = cand
    BY DEF DeleteCandidates
  <2> HIDE DEF R
  <2> QED BY <2>1, <2>2 DEF TxInv, TypeInv, TypeOK
<1>2. \A q \in Requests : /\ For(q)' = For(q) /\ BundleOf(q)' = BundleOf(q)
                          /\ Migrated(q)' = Migrated(q)
                          /\ StoredFor(For(q))' = StoredFor(For(q))
  BY <1>1 DEF For, BundleOf, Migrated, StoredFor, Stored
<1>3. MigrationsApart' /\ PendingStillApplies'
  BY <1>1, <1>2 DEF TxInv, MigrationsApart, PendingStillApplies
<1>4. OneWriter'
  BY <1>1, <1>2 DEF TxInv, OneWriter
<1>5. req[r].id \in CandidateIds
  BY <1>1 DEF TxInv, TypeInv, RequestsOK, ApplyPcs
<1>6. /\ DeleteSet(r) \subseteq StoredFor(For(r))
      /\ Stored(req[r].id) => req[r].id \in DeleteSet(r)
  BY <1>5 DEF DeleteSet, StoredFor, For
<1>7. DeletionsPending'
  BY <1>1, <1>2, <1>6 DEF TxInv, DeletionsPending, Stored
<1> QED BY <1>3, <1>4, <1>7 DEF TxInv

\* Two migrations that touch different objects do not disturb each other.
LEMMA MigrationsCommute ==
  ASSUME NEW s \in SUBSET Objects, NEW a \in Bundles, NEW b \in Bundles,
         MigrationRuns(s, b),
         Drops[a] \cap Drops[b] = {}, Adds[a] \cap Adds[b] = {}
  PROVE  MigrationRuns(Migrate(s, a), b)
BY DEF MigrationRuns, Migrate

\* A commit changes one schema and one row, and the candidates its transaction
\* deletes: no other open transaction counted on any of it.
LEMMA CommitStep ==
  ASSUME TxInv, TypeInv', NEW r \in Requests, Commit(r)
  PROVE  TxInv'
<1>1. /\ req[r].pc = "commit" /\ req'[r].pc = "committed"
      /\ \A q \in Requests : /\ req'[q].id = req[q].id /\ req'[q].dels = req[q].dels
                             /\ q # r => req'[q] = req[q]
  BY GotoStep DEF Commit, TxInv, TypeInv, RequestPcs, ApplyPcs
<1>2. \A q \in Requests : Migrated(q) => /\ req[q].id \in CandidateIds
                                         /\ cand[req[q].id].state # "unused"
                                         /\ For(q) \in Paths /\ BundleOf(q) \in Bundles
  BY CandidateOf DEF TxInv, TypeInv, RequestsOK, ApplyPcs, Migrated, For, BundleOf
<1>3. \A c \in CandidateIds :
        cand[c].state # "unused" => cand'[c].for = cand[c].for /\ cand'[c].bundle = cand[c].bundle
  BY DEF Commit, WithDeleted, TxInv, TypeInv, TypeOK, Candidate, NoCandidate
<1>4. \A q \in Requests : Migrated(q)' => /\ q # r /\ Migrated(q)
                                          /\ For(q)' = For(q) /\ BundleOf(q)' = BundleOf(q)
  <2> SUFFICES ASSUME NEW q \in Requests, Migrated(q)'
               PROVE  /\ q # r /\ Migrated(q)
                      /\ For(q)' = For(q) /\ BundleOf(q)' = BundleOf(q)
    OBVIOUS
  <2>1. q # r /\ Migrated(q)
    BY <1>1 DEF Migrated
  <2> QED BY <2>1, <1>1, <1>2, <1>3 DEF For, BundleOf
<1>5. MigrationsApart'
  BY <1>4 DEF TxInv, MigrationsApart
<1>6. PendingStillApplies'
  <2> SUFFICES ASSUME NEW q \in Requests, Migrated(q)'
               PROVE  MigrationRuns(live'[For(q)], BundleOf(q))
    BY <1>4 DEF PendingStillApplies
  <2>1. MigrationRuns(live[For(q)], BundleOf(q)) /\ q # r /\ For(q) \in Paths
    BY <1>2, <1>4 DEF TxInv, PendingStillApplies
  <2>2. live' = [live EXCEPT ![For(r)] = Migrate(live[For(r)], BundleOf(r))]
    BY DEF Commit
  <2>3. CASE For(q) # For(r)
    BY <2>1, <2>2, <2>3 DEF TxInv, TypeInv, TypeOK
  <2>4. CASE For(q) = For(r)
    <3>1. Migrated(r) /\ Migrated(q)
      BY <1>1, <1>4 DEF Migrated
    <3>2. /\ Drops[BundleOf(r)] \cap Drops[BundleOf(q)] = {}
          /\ Adds[BundleOf(r)] \cap Adds[BundleOf(q)] = {}
      BY <3>1, <2>1, <2>4 DEF TxInv, MigrationsApart
    <3>3. live[For(r)] \in SUBSET Objects /\ BundleOf(r) \in Bundles /\ BundleOf(q) \in Bundles
      BY <3>1, <1>2 DEF TxInv, TypeInv, TypeOK
    <3>4. MigrationRuns(Migrate(live[For(r)], BundleOf(r)), BundleOf(q))
      BY <3>2, <3>3, <2>1, <2>4, MigrationsCommute
    <3>5. live'[For(q)] = Migrate(live[For(r)], BundleOf(r))
      BY <2>1, <2>2, <2>4 DEF TxInv, TypeInv, TypeOK
    <3> QED BY <3>4, <3>5
  <2> QED BY <2>3, <2>4
<1>7. OneWriter'
  BY <1>1, <1>4 DEF TxInv, OneWriter, Migrated
<1>8. DeletionsPending'
  <2> SUFFICES ASSUME NEW q \in Requests, req'[q].pc = "commit"
               PROVE  /\ req[q].dels \subseteq StoredFor(For(q))'
                      /\ Stored(req[q].id)' => req[q].id \in req[q].dels
    BY <1>1 DEF DeletionsPending, Stored
  <2>1. q # r /\ req[q].pc = "commit" /\ Migrated(q) /\ For(q)' = For(q)
    BY <1>1, <1>4 DEF Migrated
  <2>2. /\ req[q].dels \subseteq StoredFor(For(q))
        /\ Stored(req[q].id) => req[q].id \in req[q].dels
    BY <2>1 DEF TxInv, DeletionsPending
  <2>3. req[r].dels \subseteq StoredFor(For(r)) /\ For(q) # For(r)
    BY <1>1, <2>1 DEF TxInv, DeletionsPending, OneWriter
  <2>4. \A c \in CandidateIds : c \notin req[r].dels => cand'[c] = cand[c]
    BY DEF Commit, WithDeleted
  <2>5. StoredFor(For(q)) \subseteq StoredFor(For(q))'
    BY <2>1, <2>3, <2>4 DEF StoredFor, Stored
  <2>6. Stored(req[q].id)' => Stored(req[q].id)
    <3>1. req[q].id \in CandidateIds
      BY <1>2, <2>1
    <3>2. CASE req[q].id \notin req[r].dels
      BY <3>1, <3>2, <2>4, <1>1 DEF Stored
    <3>3. CASE req[q].id \in req[r].dels
      BY <3>3, <2>3 DEF StoredFor
    <3> QED BY <3>2, <3>3
  <2> QED BY <2>2, <2>5, <2>6
<1> QED BY <1>5, <1>6, <1>7, <1>8 DEF TxInv

\* Ending a request is a quiet step.
LEMMA EndStep ==
  ASSUME TxInv, TypeInv', NEW r \in Requests, End(r)
  PROVE  TxInv'
<1>1. \A q \in Requests : req'[q] = IF q = r THEN IdleRequest ELSE req[q]
  BY DEF End, TxInv, TypeInv, TypeOK
<1>2. live' = live /\ cand' = cand
  BY DEF End
<1> QED BY <1>1, <1>2, QuietStep DEF IdleRequest

\* So is a step of the request before its transaction.
LEMMA BeforeStep ==
  ASSUME TxInv, TypeInv', NEW r \in Requests,
         req' \in [Requests -> Request],
         \A q \in Requests : q # r => req'[q] = req[q],
         req'[r].pc \notin {"update", "delete", "commit"},
         UNCHANGED <<live, cand>>
  PROVE  TxInv'
BY QuietStep

\* Every step keeps the invariant of the transactions.
LEMMA TxStep == TxInv /\ TypeInv' /\ [Next]_vars => TxInv'
<1> SUFFICES ASSUME TxInv, TypeInv', [Next]_vars PROVE TxInv'
  OBVIOUS
<1> USE DEF TypeInv, TypeOK
<1>1. ASSUME NEW r \in Requests,
             \/ Arrive(r) \/ GetHandlerConn(r) \/ LookupFound(r) \/ Await(r) \/ Resume(r)
             \/ (\E c \in CandidateIds, others \in BOOLEAN : ScriptReplaces(r, c, others))
             \/ GetApplyConn(r) \/ ReadCandidate(r) \/ ReadPrev(r) \/ ValidateApply(r)
      PROVE  TxInv'
  <2>1. /\ \A q \in Requests : q # r => req'[q] = req[q]
        /\ UNCHANGED <<live, cand>>
    BY <1>1 DEF TxInv, Arrive, GetHandlerConn, LookupFound, Await, Resume, ScriptReplaces,
       GetApplyConn, ReadCandidate, ReadPrev, ValidateApply, Goto
  <2>2. req'[r].pc \in {"want_handler", "lookup", "script", "await", "want_apply",
                        "read_candidate", "read_prev", "validate", "migrate"}
    <3>1. CASE Arrive(r)
      BY <3>1, IdleTypes DEF TxInv, Arrive, IdleRequest
    <3>2. CASE \/ GetHandlerConn(r) \/ LookupFound(r) \/ Await(r) \/ Resume(r)
               \/ GetApplyConn(r) \/ ReadCandidate(r) \/ ValidateApply(r)
      BY <3>2 DEF TxInv, GetHandlerConn, LookupFound, Await, Resume, GetApplyConn,
         ReadCandidate, ValidateApply, Goto, Request
    <3>3. ASSUME NEW c \in CandidateIds, NEW others \in BOOLEAN, ScriptReplaces(r, c, others)
          PROVE  req'[r].pc = "want_apply"
      <4> DEFINE R == [[[req[r] EXCEPT !.pc = "want_apply"] EXCEPT !.id = c]
                                        EXCEPT !.others = others]
      <4>1. R.pc = "want_apply"
        BY DEF TxInv, Request
      <4>2. req' = [req EXCEPT ![r] = R]
        BY <3>3 DEF ScriptReplaces
      <4> HIDE DEF R
      <4> QED BY <4>1, <4>2 DEF TxInv
    <3>4. CASE ReadPrev(r)
      <4> DEFINE P == Declares[row[For(r)]]
                 R == [[req[r] EXCEPT !.pc = "validate"] EXCEPT !.prev = P]
      <4>1. R.pc = "validate"
        BY DEF TxInv, Request
      <4>2. req' = [req EXCEPT ![r] = R]
        BY <3>4 DEF ReadPrev
      <4> HIDE DEF R
      <4> QED BY <4>1, <4>2 DEF TxInv
    <3> QED BY <1>1, <3>1, <3>2, <3>3, <3>4
  <2> QED BY <2>1, <2>2, BeforeStep
<1>2. ASSUME NEW r \in Requests,
             \/ LookupEnds(r) \/ ScriptEnds(r) \/ CandidateNotFound(r) \/ CandidateInvalid(r)
             \/ MigrationFails(r) \/ Respond(r) \/ Drop(r)
      PROVE  TxInv'
  BY <1>2, EndStep DEF LookupEnds, ScriptEnds, CandidateNotFound, CandidateInvalid,
     MigrationFails, Respond, Drop
<1>3. ASSUME NEW r \in Requests,
             ApplyMigration(r) \/ UpdateRuleset(r) \/ DeleteCandidates(r) \/ Commit(r)
      PROVE  TxInv'
  BY <1>3, ApplyMigrationStep, UpdateRulesetStep, DeleteCandidatesStep, CommitStep
<1>4. ASSUME NEW r \in Requests, NEW t \in Tasks, NEW b \in Bundles, StartPropose(r, t, b)
      PROVE  TxInv'
  BY <1>4, QuietStep DEF StartPropose
<1>5. ASSUME NEW t \in Tasks,
             \/ ProposeGetConn(t) \/ ProposeReadPrev(t) \/ ProposeValidate(t)
             \/ ProposeInvalid(t) \/ ProposeFails(t)
      PROVE  TxInv'
  BY <1>5, QuietStep DEF ProposeGetConn, ProposeReadPrev, ProposeValidate, ProposeInvalid,
     ProposeFails, ProposeEnds
<1>6. ASSUME NEW t \in Tasks, NEW c \in CandidateIds, ProposeInsert(t, c) PROVE TxInv'
  <2>1. \A d \in CandidateIds : cand[d].state # "unused" => cand'[d] = cand[d]
    BY <1>6 DEF ProposeInsert, TxInv
  <2> QED BY <1>6, <2>1, QuietStep DEF ProposeInsert, ProposeEnds
<1>7. CASE UNCHANGED vars
  BY <1>7, QuietStep DEF vars
<1> QED
  BY <1>1, <1>2, <1>3, <1>4, <1>5, <1>6, <1>7
     DEF Next, Advance, ScriptCalls, ScriptReturns, Perform

\* No transaction is open when the server starts.
LEMMA TxInit == Init => TxInv
<1> SUFFICES ASSUME Init PROVE TxInv
  OBVIOUS
<1>1. \A r \in Requests : req[r].pc = "idle"
  BY DEF Init, IdleRequest
<1> QED BY <1>1, TypeInit
        DEF TxInv, MigrationsApart, PendingStillApplies, OneWriter, DeletionsPending, Migrated

\* Open transactions stay apart and stay applicable, in every state.
THEOREM TxInvariant == Spec => []TxInv
<1>1. TxInv /\ [Next]_vars => TxInv'
  BY TypeStep, TxStep DEF TxInv
<1> QED BY TxInit, <1>1, PTL DEF Spec

\* Of any number of replacements in progress, in any order of their statements:
\* the migration of an open transaction keeps applying to what is committed
\* meanwhile, and the candidates a transaction deletes are there when it commits.
THEOREM OpenTransactions ==
  Spec => [](PendingStillApplies /\ DeletionsPending)
BY TxInvariant, PTL DEF TxInv

\* What a transaction has remembered as deleted is still stored when it commits,
\* whatever other replacements delete and proposals insert until then.
THEOREM DeletionsStay == Spec => []DeletionsPending
BY OpenTransactions, PTL

-----------------------------------------------------------------------------
(* The server implements Registry *)

\* Only the insert of a proposal and the commit of a replacement change what
\* Registry speaks of, and they are its two steps.
LEMMA RegistryStep == TxInv /\ [Next]_vars => [RegistryNext]_registryVars
<1> SUFFICES ASSUME TxInv, [Next]_vars PROVE [RegistryNext]_registryVars
  OBVIOUS
<1> USE DEF registryVars
<1>1. ASSUME NEW r \in Requests, Commit(r) PROVE RegistryNext
  <2> DEFINE c == req[r].id
             S == req[r].dels
  <2>1. req[r].pc = "commit"
    BY <1>1 DEF Commit, Goto
  <2>2. c \in CandidateIds /\ cand[c].state # "unused" /\ S \subseteq CandidateIds
    BY <2>1 DEF TxInv, TypeInv, TypeOK, Request, RequestsOK, ApplyPcs
  <2>3. S \subseteq StoredFor(cand[c].for) /\ (Stored(c) => c \in S)
    BY <2>1 DEF TxInv, DeletionsPending, For
  <2>4. MigrationRuns(live[cand[c].for], cand[c].bundle)
    BY <2>1 DEF TxInv, PendingStillApplies, Migrated, For, BundleOf
  <2>5. Install(c, S)
    BY <1>1, <2>2, <2>3, <2>4 DEF Install, Commit, For, BundleOf
  <2> QED BY <2>2, <2>5 DEF RegistryNext
<1>2. ASSUME NEW t \in Tasks, NEW c \in CandidateIds, ProposeInsert(t, c)
      PROVE  RegistryNext
  <2> DEFINE p == req[task[t].owner].path
             b == task[t].bundle
  <2>1. task[t].pc = "insert"
    BY <1>2 DEF ProposeInsert
  <2>2. p \in Paths /\ b \in Bundles /\ b \in Loads
    BY <2>1 DEF TxInv, TypeInv, TasksOK, RequestsOK
  <2>3. Propose(c, p, b)
    BY <1>2, <2>2 DEF Propose, ProposeInsert, ProposeEnds
  <2> QED BY <2>2, <2>3 DEF RegistryNext
<1>3. ASSUME NEW r \in Requests,
             \/ Arrive(r) \/ GetHandlerConn(r) \/ LookupFound(r) \/ Await(r) \/ Resume(r)
             \/ (\E c \in CandidateIds, others \in BOOLEAN : ScriptReplaces(r, c, others))
             \/ GetApplyConn(r) \/ ReadCandidate(r) \/ ReadPrev(r) \/ ValidateApply(r)
             \/ ApplyMigration(r) \/ UpdateRuleset(r) \/ DeleteCandidates(r)
             \/ (\E t \in Tasks, b \in Bundles : StartPropose(r, t, b))
      PROVE  UNCHANGED registryVars
  BY <1>3 DEF Arrive, GetHandlerConn, LookupFound, Await, Resume, ScriptReplaces,
     GetApplyConn, ReadCandidate, ReadPrev, ValidateApply, ApplyMigration, UpdateRuleset,
     DeleteCandidates, StartPropose
<1>4. ASSUME NEW r \in Requests,
             \/ LookupEnds(r) \/ ScriptEnds(r) \/ CandidateNotFound(r) \/ CandidateInvalid(r)
             \/ MigrationFails(r) \/ Respond(r) \/ Drop(r)
      PROVE  UNCHANGED registryVars
  BY <1>4 DEF LookupEnds, ScriptEnds, CandidateNotFound, CandidateInvalid,
     MigrationFails, Respond, Drop, End
<1>5. ASSUME NEW t \in Tasks,
             \/ ProposeGetConn(t) \/ ProposeReadPrev(t) \/ ProposeValidate(t)
             \/ ProposeInvalid(t) \/ ProposeFails(t)
      PROVE  UNCHANGED registryVars
  BY <1>5 DEF ProposeGetConn, ProposeReadPrev, ProposeValidate, ProposeInvalid,
     ProposeFails, ProposeEnds
<1>6. CASE UNCHANGED vars
  BY <1>6 DEF vars
<1> QED
  BY <1>1, <1>2, <1>3, <1>4, <1>5, <1>6
     DEF Next, Advance, ScriptCalls, ScriptReturns, Perform

\* The handlers, with their pool, their awaits, their transactions and their
\* failures, do to rulesets and candidates only what Registry allows: whole
\* replacements of one ruleset by a proposed bundle whose migration ran on the
\* schema that was there.
THEOREM ImplementsRegistry == Spec => RegistrySpec
<1>1. Init => RegistryInit
  BY DEF Init
<1>2. TxInv /\ [Next]_vars => [RegistryNext]_registryVars
  BY RegistryStep
<1> QED BY TxInvariant, <1>1, <1>2, PTL DEF Spec, RegistrySpec

-----------------------------------------------------------------------------
(* What Registry promises holds of the server *)

RegistryInv ==
  /\ row \in [Paths -> Bundles]
  /\ live \in [Paths -> SUBSET Objects]
  /\ cand \in [CandidateIds -> Candidate]
  /\ InstalledIsLive

\* Only candidates that were proposed have a ruleset and a bundle.
LEMMA ProposedCandidate ==
  ASSUME cand \in [CandidateIds -> Candidate],
         NEW c \in CandidateIds, cand[c].state # "unused"
  PROVE  /\ cand[c].for \in Paths /\ cand[c].bundle \in Bundles
         /\ cand[c] \in [state : {"stored", "deleted"}, for : Paths, bundle : Bundles]
BY DEF Candidate, NoCandidate

LEMMA RegistryInvInit == RegistryInit => RegistryInv
BY RegistryAssumption, BundlesAssumption
   DEF RegistryInit, RegistryInv, InstalledIsLive, Candidate

\* A proposal adds a row for an id that was unused.
LEMMA ProposeKeeps ==
  ASSUME RegistryInv, NEW c \in CandidateIds, NEW p \in Paths, NEW b \in Bundles,
         Propose(c, p, b)
  PROVE  RegistryInv'
<1>1. \A d \in CandidateIds : cand[d].state # "unused" => cand'[d] = cand[d]
  BY DEF Propose, RegistryInv
<1>2. cand' \in [CandidateIds -> Candidate]
  BY DEF Propose, RegistryInv, Candidate
<1>3. InstalledIsLive'
  BY <1>1 DEF Propose, RegistryInv, InstalledIsLive
<1> QED BY <1>2, <1>3 DEF Propose, RegistryInv

\* A replacement brings row, schema and candidate of one ruleset together.
LEMMA InstallKeeps ==
  ASSUME RegistryInv, NEW c \in CandidateIds, NEW S \in SUBSET CandidateIds,
         Install(c, S)
  PROVE  RegistryInv'
<1> DEFINE p == cand[c].for
           b == cand[c].bundle
<1>1. p \in Paths /\ b \in Bundles /\ cand[c].state # "unused"
  BY ProposedCandidate DEF Install, RegistryInv
<1>2. /\ row' = [row EXCEPT ![p] = b]
      /\ live' = [live EXCEPT ![p] = Migrate(live[p], b)]
      /\ S \subseteq StoredFor(p)
      /\ cand' = WithDeleted(S)
  BY DEF Install
<1>3. \A d \in CandidateIds : cand[d].state # "unused" =>
        /\ cand'[d].state # "unused"
        /\ cand'[d].for = cand[d].for /\ cand'[d].bundle = cand[d].bundle
  BY <1>2, ProposedCandidate DEF WithDeleted, RegistryInv
<1>4. cand' \in [CandidateIds -> Candidate]
  BY <1>2, ProposedCandidate DEF WithDeleted, StoredFor, Stored, RegistryInv, Candidate
<1> HIDE DEF p, b
<1>5. /\ Migrate(live[p], b) \in SUBSET Objects
      /\ Adds[b] \subseteq Migrate(live[p], b)
      /\ Migrate(live[p], b) \cap (Drops[b] \ Adds[b]) = {}
  BY <1>1, BundlesAssumption DEF RegistryInv, Migrate
<1>6. InstalledIsLive'
  <2> SUFFICES ASSUME NEW q \in Paths
               PROVE  /\ Adds[row'[q]] \subseteq live'[q]
                      /\ row'[q] # Root =>
                           /\ live'[q] \cap (Drops[row'[q]] \ Adds[row'[q]]) = {}
                           /\ \E d \in CandidateIds : /\ cand'[d].state # "unused"
                                                      /\ cand'[d].for = q
                                                      /\ cand'[d].bundle = row'[q]
    BY DEF InstalledIsLive
  <2>1. CASE q = p
    <3>1. row'[q] = b /\ live'[q] = Migrate(live[p], b)
      BY <1>1, <1>2, <2>1 DEF RegistryInv
    <3>2. /\ cand'[c].state # "unused" /\ cand'[c].for = q /\ cand'[c].bundle = b
      BY <1>1, <1>3, <2>1 DEF p, b
    <3> QED BY <3>1, <3>2, <1>5
  <2>2. CASE q # p
    BY <1>2, <1>3, <2>2 DEF RegistryInv, InstalledIsLive
  <2> QED BY <2>1, <2>2
<1> QED BY <1>1, <1>2, <1>4, <1>5, <1>6 DEF RegistryInv

LEMMA RegistryInvStep == RegistryInv /\ [RegistryNext]_registryVars => RegistryInv'
<1> SUFFICES ASSUME RegistryInv, [RegistryNext]_registryVars PROVE RegistryInv'
  OBVIOUS
<1>1. CASE UNCHANGED registryVars
  BY <1>1 DEF registryVars, RegistryInv, InstalledIsLive
<1> QED BY <1>1, ProposeKeeps, InstallKeeps DEF RegistryNext

\* Registry!InstalledIsLive, of the abstract specification: after any proposals
\* and replacements a ruleset's row records what was done to its schema.
THEOREM RegistryRecords == RegistrySpec => []InstalledIsLive
<1>1. RegistryInv => InstalledIsLive
  BY DEF RegistryInv
<1> QED BY RegistryInvInit, RegistryInvStep, <1>1, PTL DEF RegistrySpec

\* The same of the server, which implements Registry: however requests, their
\* transactions and their failures interleave, what apply_candidate_top leaves
\* in votebase_catalog.ruleset is the bundle whose migration made the schema.
THEOREM InstalledStaysLive == Spec => []InstalledIsLive
BY ImplementsRegistry, RegistryRecords, PTL

-----------------------------------------------------------------------------
(* What Served and ApplyEnds rest on *)

\* The statement that comes after each of a replacement's.
After ==
  [read_candidate |-> "read_prev", read_prev |-> "validate", validate |-> "migrate",
   migrate |-> "update", update |-> "delete", delete |-> "commit",
   commit |-> "committed", committed |-> "idle"]

\* A replacement goes on by its own next statement or ends, and is about the
\* same ruleset and bundle all the way.
Advances(r) ==
  /\ req'[r].pc \in {req[r].pc, After[req[r].pc], "idle"}
  /\ req[r].pc # "read_candidate" /\ req'[r].pc # "idle"
       => For(r)' = For(r) /\ BundleOf(r)' = BundleOf(r)
OnlyForward == [][\A r \in Requests : req[r].pc \in ApplyPcs => Advances(r)]_vars

\* A candidate row is never updated, whoever replaces or deletes what.
LEMMA RowsStay ==
  ASSUME TxInv, [Next]_vars, NEW c \in CandidateIds, cand[c].state # "unused"
  PROVE  cand'[c].for = cand[c].for /\ cand'[c].bundle = cand[c].bundle
<1>1. cand \in [CandidateIds -> Candidate]
  BY DEF TxInv, TypeInv, TypeOK
<1>2. CASE UNCHANGED registryVars
  BY <1>2 DEF registryVars
<1>3. ASSUME NEW d \in CandidateIds, NEW p \in Paths, NEW b \in Bundles, Propose(d, p, b)
      PROVE  cand'[c] = cand[c]
  BY <1>1, <1>3 DEF Propose
<1>4. ASSUME NEW d \in CandidateIds, NEW S \in SUBSET CandidateIds, Install(d, S)
      PROVE  cand'[c].for = cand[c].for /\ cand'[c].bundle = cand[c].bundle
  <2>1. cand[c] \in [state : {"stored", "deleted"}, for : Paths, bundle : Bundles]
    BY <1>1, ProposedCandidate
  <2>2. cand' = WithDeleted(S)
    BY <1>4 DEF Install
  <2> QED BY <2>1, <2>2 DEF WithDeleted
<1> QED BY <1>2, <1>3, <1>4, RegistryStep DEF RegistryNext

\* A step is its request's next one, or the end of it, or another's.
LEMMA NextStatement ==
  ASSUME TxInv, [Next]_vars, NEW r \in Requests, req[r].pc \in ApplyPcs
  PROVE  /\ req'[r].pc \in {req[r].pc, After[req[r].pc], "idle"}
         /\ req'[r].pc # "idle" => req'[r].id = req[r].id
<1> USE DEF ApplyPcs, TypeInv, TypeOK
<1>1. ASSUME NEW q \in Requests,
             \/ LookupEnds(q) \/ ScriptEnds(q) \/ CandidateNotFound(q) \/ CandidateInvalid(q)
             \/ MigrationFails(q) \/ Respond(q) \/ Drop(q)
      PROVE  req'[r] = req[r] \/ req'[r].pc = "idle"
  BY <1>1 DEF LookupEnds, ScriptEnds, CandidateNotFound, CandidateInvalid, MigrationFails,
     Respond, Drop, End, IdleRequest, TxInv
<1>2. ASSUME NEW q \in Requests,
             \/ Arrive(q) \/ GetHandlerConn(q) \/ LookupFound(q) \/ Await(q) \/ Resume(q)
             \/ (\E c \in CandidateIds, others \in BOOLEAN : ScriptReplaces(q, c, others))
             \/ GetApplyConn(q)
             \/ (\E t \in Tasks, b \in Bundles : StartPropose(q, t, b))
      PROVE  req'[r] = req[r]
  BY <1>2 DEF Arrive, GetHandlerConn, LookupFound, Await, Resume, ScriptReplaces,
     GetApplyConn, StartPropose, Goto, TxInv
<1>3. ASSUME NEW t \in Tasks, Perform(t) \/ ProposeFails(t)
      PROVE  req'[r] = req[r]
  BY <1>3 DEF Perform, ProposeGetConn, ProposeReadPrev, ProposeValidate, ProposeInvalid,
     ProposeInsert, ProposeFails, ProposeEnds
<1>4. ASSUME NEW q \in Requests,
             ReadCandidate(q) \/ ValidateApply(q) \/ ApplyMigration(q) \/ UpdateRuleset(q) \/ Commit(q)
      PROVE  req'[r] = req[r] \/ (req'[r].pc = After[req[r].pc] /\ req'[r].id = req[r].id)
  <2>1. CASE q # r
    BY <1>4, <2>1 DEF ReadCandidate, ValidateApply, ApplyMigration, UpdateRuleset, Commit,
       Goto, TxInv
  <2>2. CASE q = r
    BY <1>4, <2>2, GotoStep DEF ReadCandidate, ValidateApply, ApplyMigration, UpdateRuleset,
       Commit, After, TxInv, RequestPcs
  <2> QED BY <2>1, <2>2
<1>5. ASSUME NEW q \in Requests, ReadPrev(q)
      PROVE  req'[r] = req[r] \/ (req'[r].pc = After[req[r].pc] /\ req'[r].id = req[r].id)
  <2> DEFINE R == [[req[q] EXCEPT !.pc = "validate"] EXCEPT !.prev = Declares[row[For(q)]]]
  <2>1. R.pc = "validate" /\ R.id = req[q].id
    BY DEF TxInv, Request
  <2>2. req' = [req EXCEPT ![q] = R] /\ req[q].pc = "read_prev"
    BY <1>5 DEF ReadPrev
  <2> HIDE DEF R
  <2> QED BY <2>1, <2>2 DEF After, TxInv
<1>6. ASSUME NEW q \in Requests, DeleteCandidates(q)
      PROVE  req'[r] = req[r] \/ (req'[r].pc = After[req[r].pc] /\ req'[r].id = req[r].id)
  <2> DEFINE R == [[req[q] EXCEPT !.pc = "commit"] EXCEPT !.dels = DeleteSet(q)]
  <2>1. R.pc = "commit" /\ R.id = req[q].id
    BY DEF TxInv, Request
  <2>2. req' = [req EXCEPT ![q] = R] /\ req[q].pc = "delete"
    BY <1>6 DEF DeleteCandidates
  <2> HIDE DEF R
  <2> QED BY <2>1, <2>2 DEF After, TxInv
<1>7. CASE UNCHANGED vars
  BY <1>7 DEF vars
<1> QED
  BY <1>1, <1>2, <1>3, <1>4, <1>5, <1>6, <1>7
     DEF Next, Advance, ScriptCalls, ScriptReturns

\* A replacement takes its statements in order, whatever the others do, and the
\* candidate it read is the one it commits: apply_candidate_top may read the row
\* once and rely on it, though it is not locked.
THEOREM ReplacementsOnlyAdvance == Spec => OnlyForward
<1>1. TxInv /\ [Next]_vars
        => [\A r \in Requests : req[r].pc \in ApplyPcs => Advances(r)]_vars
  <2> SUFFICES ASSUME TxInv, [Next]_vars, NEW r \in Requests, req[r].pc \in ApplyPcs
               PROVE  Advances(r)
    OBVIOUS
  <2>1. /\ req'[r].pc \in {req[r].pc, After[req[r].pc], "idle"}
        /\ req'[r].pc # "idle" => req'[r].id = req[r].id
    BY NextStatement
  <2>2. ASSUME req[r].pc # "read_candidate", req'[r].pc # "idle"
        PROVE  For(r)' = For(r) /\ BundleOf(r)' = BundleOf(r)
    <3>1. req[r].id \in CandidateIds /\ cand[req[r].id].state # "unused"
      BY <2>2 DEF TxInv, TypeInv, RequestsOK, ApplyPcs
    <3> QED BY <2>1, <2>2, <3>1, RowsStay DEF For, BundleOf
  <2> QED BY <2>1, <2>2 DEF Advances
<1> QED BY TxInvariant, <1>1, PTL DEF Spec, OnlyForward

\* A transaction that has its row's lock waits for nobody.
LEMMA WritersDoNotWait ==
  ASSUME NEW q \in Requests, req[q].pc \in {"delete", "commit"}
  PROVE  Migrated(q) /\ ~WaitsForLock(q)
BY DEF Migrated, WaitsForLock

\* Whoever waits for a lock does so for a transaction of the same ruleset that
\* waits for none, or for one that waits for that: objects are locked before the
\* row, and with the row there is nothing left to wait for.
LEMMA LocksInOrder ==
  ASSUME NEW r \in Requests, WaitsForLock(r)
  PROVE  \E q \in Requests : Migrated(q) /\ For(q) = For(r) /\ ~WaitsForLock(q)
<1>1. ASSUME NEW p, RowLocked(p)
      PROVE  \E q \in Requests : Migrated(q) /\ For(q) = p /\ ~WaitsForLock(q)
  BY <1>1, WritersDoNotWait DEF RowLocked
<1>2. CASE req[r].pc = "update" /\ RowLocked(For(r))
  BY <1>1, <1>2
<1>3. CASE req[r].pc = "migrate" /\ ObjectsLocked(r)
  <2>1. PICK q \in Requests : Migrated(q) /\ For(q) = For(r)
    BY <1>3 DEF ObjectsLocked
  <2>2. CASE WaitsForLock(q)
    <3>1. RowLocked(For(q))
      BY <2>1, <2>2 DEF WaitsForLock, Migrated
    <3> QED BY <1>1, <2>1, <3>1
  <2> QED BY <2>1, <2>2
<1> QED BY <1>2, <1>3 DEF WaitsForLock

\* Rulesets!SomebodyProceeds, for any number of requests and rulesets: with fewer
\* requests than connections there is always one that waits neither for a lock
\* nor for an empty pool (execute_action, apply_candidate_top).
THEOREM NeverAllWaiting == Spec => []SomebodyProceeds
<1>1. NeverStuck => SomebodyProceeds
  <2> SUFFICES ASSUME NeverStuck, Cardinality(Requests) < PoolSize,
                      NEW r \in Requests, req[r].pc # "idle"
               PROVE  \E q \in Requests : req[q].pc # "idle" /\ ~Waits(q)
    BY DEF SomebodyProceeds
  <2>1. PICK s \in Requests : req[s].pc # "idle" /\ ~(WaitsForPool(s) /\ ~ConnFree)
    BY DEF NeverStuck, PoolStuck
  <2>2. CASE ~WaitsForLock(s)
    BY <2>1, <2>2 DEF Waits
  <2>3. CASE WaitsForLock(s)
    <3>1. PICK q \in Requests : Migrated(q) /\ ~WaitsForLock(q)
      BY <2>3, LocksInOrder
    <3>2. req[q].pc # "idle" /\ ~WaitsForPool(q)
      BY <3>1 DEF Migrated, WaitsForPool
    <3> QED BY <3>1, <3>2 DEF Waits
  <2> QED BY <2>2, <2>3
<1> QED BY PoolSuffices, <1>1, PTL
=============================================================================
