---------------------------- MODULE RulesetsProofs ----------------------------
(***************************************************************************)
(* Theorems about Rulesets, for every value of the constants: the types,   *)
(* the connection pool, who holds what of it and when everybody waits for  *)
(* it, and that those who wait hold no locks.                              *)
(***************************************************************************)
EXTENDS Rulesets, FiniteSetTheorems, TLAPS

-----------------------------------------------------------------------------
(* Types *)

\* A step that only moves a request's program counter keeps it a request.
LEMMA GotoType ==
  ASSUME req \in [Requests -> Request], NEW r \in Requests, NEW to \in RequestPcs,
         req' = [req EXCEPT ![r].pc = to]
  PROVE  /\ req' \in [Requests -> Request]
         /\ \A q \in Requests : q # r => req'[q] = req[q]
         /\ req'[r] = [req[r] EXCEPT !.pc = to]
BY DEF Request

\* What a slot is between requests, and between calls, is of its type.
LEMMA IdleTypes == IdleRequest \in Request /\ IdleTask \in Task
BY DEF IdleRequest, Request, RequestPcs, Kinds, IdleTask, Task, TaskPcs

\* Ending a request keeps the types, and the other requests as they are.
LEMMA EndType ==
  ASSUME TypeInv, NEW r \in Requests, End(r)
  PROVE  TypeInv'
<1>1. /\ req' \in [Requests -> Request]
      /\ \A q \in Requests : req'[q] = IF q = r THEN IdleRequest ELSE req[q]
  BY IdleTypes DEF TypeInv, TypeOK, End
<1>2. /\ task' \in [Tasks -> Task]
      /\ \A t \in Tasks : task'[t] = IF t \in TasksOf(r) THEN IdleTask ELSE task[t]
  BY IdleTypes DEF TypeInv, TypeOK, End
<1>3. UNCHANGED <<row, live, cand>> /\ held' \subseteq held
  BY DEF End
<1>4. TypeOK'
  BY <1>1, <1>2, <1>3 DEF TypeInv, TypeOK
<1>5. RequestsOK'
  BY <1>1, <1>3 DEF TypeInv, RequestsOK, IdleRequest, ApplyPcs
<1>6. TasksOK'
  BY <1>1, <1>2, <1>3 DEF TypeInv, TasksOK, TasksOf, IdleTask
<1> QED BY <1>4, <1>5, <1>6 DEF TypeInv

\* What a used candidate row holds.
LEMMA CandidateOf ==
  ASSUME TypeOK, NEW c \in CandidateIds, cand[c].state # "unused"
  PROVE  cand[c].for \in Paths /\ cand[c].bundle \in Bundles
BY DEF TypeOK, Candidate, NoCandidate

\* A migration of a schema is a schema.
LEMMA MigrateType ==
  ASSUME NEW s \in SUBSET Objects, NEW b \in Bundles
  PROVE  Migrate(s, b) \in SUBSET Objects
BY BundlesAssumption DEF Migrate

\* Deleting candidates keeps the table's type, and never makes an id unused.
LEMMA DeletedType ==
  ASSUME TypeOK, NEW S, \A c \in S : cand[c].state # "unused"
  PROVE  /\ WithDeleted(S) \in [CandidateIds -> Candidate]
         /\ \A c \in CandidateIds : (WithDeleted(S))[c].state = "unused"
                                      => cand[c].state = "unused"
<1>1. ASSUME NEW c \in CandidateIds, c \in S
      PROVE  /\ [cand[c] EXCEPT !.state = "deleted"] \in Candidate
             /\ [cand[c] EXCEPT !.state = "deleted"].state = "deleted"
  <2>1. cand[c] \in [state : {"stored", "deleted"}, for : Paths, bundle : Bundles]
    BY <1>1 DEF TypeOK, Candidate, NoCandidate
  <2> QED BY <2>1 DEF Candidate
<1> QED BY <1>1 DEF TypeOK, WithDeleted

\* A request r moves on, with the database and the tasks as they are.
LEMMA MoveType ==
  ASSUME TypeInv, NEW r \in Requests, req[r].pc # "idle",
         NEW R \in Request, req' = [req EXCEPT ![r] = R],
         R.path = req[r].path,
         \A c \in R.dels : c \in req[r].dels \/ cand[c].state # "unused",
         R.id = req[r].id, req[r].pc \in ApplyPcs => R.pc \in ApplyPcs,
         R.pc \in ApplyPcs \cup {"want_apply"} => req[r].pc \in ApplyPcs \cup {"want_apply"},
         R.pc \in ApplyPcs \ {"read_candidate"}
           => \/ req[r].pc \in ApplyPcs \ {"read_candidate"}
              \/ cand[req[r].id].state # "unused",
         req[r].pc \in {"script", "await"} => R.pc \in {"script", "await"},
         held' \subseteq Conns, UNCHANGED <<row, live, cand, task>>
  PROVE  TypeInv'
<1>1. /\ req' \in [Requests -> Request]
      /\ \A q \in Requests : req'[q] = IF q = r THEN R ELSE req[q]
  BY DEF TypeInv, TypeOK
<1>2. TypeOK'
  BY <1>1 DEF TypeInv, TypeOK
<1>3. RequestsOK'
  BY <1>1 DEF TypeInv, TypeOK, RequestsOK
<1>4. TasksOK'
  BY <1>1 DEF TypeInv, TypeOK, TasksOK
<1> QED BY <1>2, <1>3, <1>4 DEF TypeInv

\* A task of a running function moves on; only its own record changes.
LEMMA TaskType ==
  ASSUME TypeInv, NEW t \in Tasks, NEW T \in Task, task' = [task EXCEPT ![t] = T],
         T.pc # "idle" => /\ T.owner \in Requests
                          /\ T.bundle \in Bundles
                          /\ req[T.owner].pc \in {"script", "await"},
         T.pc = "insert" => T.bundle \in Loads,
         held' \subseteq Conns, UNCHANGED <<row, live, cand, req>>
  PROVE  TypeInv'
<1>1. /\ task' \in [Tasks -> Task]
      /\ \A u \in Tasks : task'[u] = IF u = t THEN T ELSE task[u]
  BY DEF TypeInv, TypeOK
<1>2. TypeOK' /\ RequestsOK'
  BY <1>1 DEF TypeInv, TypeOK, RequestsOK
<1>3. TasksOK'
  BY <1>1 DEF TypeInv, TypeOK, TasksOK
<1> QED BY <1>2, <1>3 DEF TypeInv

\* Every step keeps the type invariant.
LEMMA TypeStep == TypeInv /\ [Next]_vars => TypeInv'
<1> SUFFICES ASSUME TypeInv, [Next]_vars PROVE TypeInv'
  OBVIOUS
<1> USE DEF TypeInv, TypeOK
<1>1. ASSUME NEW r \in Requests, Arrive(r) PROVE TypeInv'
  <2>1. PICK k \in Kinds, p \in Paths :
          req' = [req EXCEPT ![r] = [IdleRequest EXCEPT !.pc = "want_handler",
                                                        !.kind = k, !.path = p]]
    BY <1>1 DEF Arrive
  <2> DEFINE R == [IdleRequest EXCEPT !.pc = "want_handler", !.kind = k, !.path = p]
  <2>a. R \in Request /\ R.pc = "want_handler" /\ R.path = p /\ R.dels = {}
    BY IdleTypes DEF Request, RequestPcs, IdleRequest
  <2>2. req' \in [Requests -> Request]
    BY <2>1, <2>a
  <2>3. \A q \in Requests :
          IF q = r THEN req'[q].pc = "want_handler" /\ req'[q].path = p /\ req'[q].dels = {}
                   ELSE req'[q] = req[q]
    BY <2>1, <2>a
  <2>4. req[r].pc = "idle" /\ UNCHANGED <<row, live, cand, held, task>>
    BY <1>1 DEF Arrive
  <2>5. TypeOK'
    BY <2>2, <2>4
  <2>6. RequestsOK'
    BY <2>3, <2>4 DEF RequestsOK, ApplyPcs
  <2>7. TasksOK'
    BY <2>3, <2>4 DEF TasksOK
  <2> QED BY <2>5, <2>6, <2>7
<1>2. ASSUME NEW r \in Requests, GetHandlerConn(r) \/ GetApplyConn(r)
      PROVE  TypeInv'
  <2> DEFINE R == [req[r] EXCEPT !.pc = IF req[r].pc = "want_handler"
                                         THEN "lookup" ELSE "read_candidate"]
  <2>1. R \in Request /\ req' = [req EXCEPT ![r] = R]
    BY <1>2 DEF GetHandlerConn, GetApplyConn, Goto, Request, RequestPcs, ApplyPcs
  <2>2. held' \subseteq Conns /\ UNCHANGED <<row, live, cand, task>>
    BY <1>2 DEF GetHandlerConn, GetApplyConn, Conns
  <2>3. req[r].pc \in {"want_handler", "want_apply"}
    BY <1>2 DEF GetHandlerConn, GetApplyConn, Goto
  <2>4. /\ R.path = req[r].path /\ R.id = req[r].id /\ R.dels = req[r].dels
        /\ req[r].pc = "want_handler" => R.pc = "lookup"
        /\ req[r].pc = "want_apply" => R.pc = "read_candidate"
    BY <2>3 DEF Request
  <2> HIDE DEF R
  <2> QED BY <2>1, <2>2, <2>3, <2>4, MoveType DEF ApplyPcs
<1>3. ASSUME NEW r \in Requests, LookupFound(r) PROVE TypeInv'
  <2> DEFINE R == [req[r] EXCEPT !.pc = "script"]
  <2>1. R \in Request /\ R.pc = "script" /\ R.path = req[r].path /\ R.id = req[r].id
       /\ R.dels = req[r].dels
    BY DEF Request, RequestPcs, ApplyPcs
  <2>2. /\ req[r].pc = "lookup" /\ req' = [req EXCEPT ![r] = R]
        /\ held' = held /\ UNCHANGED <<row, live, cand, task>>
    BY <1>3 DEF LookupFound, Goto
  <2>3. TRUE
    BY <1>3 DEF LookupFound, Stored
  <2> HIDE DEF R
  <2> QED BY <2>1, <2>2, <2>3, MoveType DEF ApplyPcs
<1>4. ASSUME NEW r \in Requests, Await(r) PROVE TypeInv'
  <2> DEFINE R == [req[r] EXCEPT !.pc = "await"]
  <2>1. R \in Request /\ R.pc = "await" /\ R.path = req[r].path /\ R.id = req[r].id
       /\ R.dels = req[r].dels
    BY DEF Request, RequestPcs, ApplyPcs
  <2>2. /\ req[r].pc = "script" /\ req' = [req EXCEPT ![r] = R]
        /\ held' = held /\ UNCHANGED <<row, live, cand, task>>
    BY <1>4 DEF Await, Goto
  <2>3. TRUE
    BY <1>4 DEF Await, Stored
  <2> HIDE DEF R
  <2> QED BY <2>1, <2>2, <2>3, MoveType DEF ApplyPcs
<1>5. ASSUME NEW r \in Requests, Resume(r) PROVE TypeInv'
  <2> DEFINE R == [req[r] EXCEPT !.pc = "script"]
  <2>1. R \in Request /\ R.pc = "script" /\ R.path = req[r].path /\ R.id = req[r].id
       /\ R.dels = req[r].dels
    BY DEF Request, RequestPcs, ApplyPcs
  <2>2. /\ req[r].pc = "await" /\ req' = [req EXCEPT ![r] = R]
        /\ held' = held /\ UNCHANGED <<row, live, cand, task>>
    BY <1>5 DEF Resume, Goto
  <2>3. TRUE
    BY <1>5 DEF Resume, Stored
  <2> HIDE DEF R
  <2> QED BY <2>1, <2>2, <2>3, MoveType DEF ApplyPcs
<1>6. ASSUME NEW r \in Requests, ReadCandidate(r) PROVE TypeInv'
  <2> DEFINE R == [req[r] EXCEPT !.pc = "read_prev"]
  <2>1. R \in Request /\ R.pc = "read_prev" /\ R.path = req[r].path /\ R.id = req[r].id
       /\ R.dels = req[r].dels
    BY DEF Request, RequestPcs, ApplyPcs
  <2>2. /\ req[r].pc = "read_candidate" /\ req' = [req EXCEPT ![r] = R]
        /\ held' = held /\ UNCHANGED <<row, live, cand, task>>
    BY <1>6 DEF ReadCandidate, Goto
  <2>3. cand[req[r].id].state # "unused"
    BY <1>6 DEF ReadCandidate, Stored
  <2> HIDE DEF R
  <2> QED BY <2>1, <2>2, <2>3, MoveType DEF ApplyPcs
<1>7. ASSUME NEW r \in Requests, ValidateApply(r) PROVE TypeInv'
  <2> DEFINE R == [req[r] EXCEPT !.pc = "migrate"]
  <2>1. R \in Request /\ R.pc = "migrate" /\ R.path = req[r].path /\ R.id = req[r].id
       /\ R.dels = req[r].dels
    BY DEF Request, RequestPcs, ApplyPcs
  <2>2. /\ req[r].pc = "validate" /\ req' = [req EXCEPT ![r] = R]
        /\ held' = held /\ UNCHANGED <<row, live, cand, task>>
    BY <1>7 DEF ValidateApply, Goto
  <2>3. TRUE
    BY <1>7 DEF ValidateApply, Stored
  <2> HIDE DEF R
  <2> QED BY <2>1, <2>2, <2>3, MoveType DEF ApplyPcs
<1>8. ASSUME NEW r \in Requests, ApplyMigration(r) PROVE TypeInv'
  <2> DEFINE R == [req[r] EXCEPT !.pc = "update"]
  <2>1. R \in Request /\ R.pc = "update" /\ R.path = req[r].path /\ R.id = req[r].id
       /\ R.dels = req[r].dels
    BY DEF Request, RequestPcs, ApplyPcs
  <2>2. /\ req[r].pc = "migrate" /\ req' = [req EXCEPT ![r] = R]
        /\ held' = held /\ UNCHANGED <<row, live, cand, task>>
    BY <1>8 DEF ApplyMigration, Goto
  <2>3. TRUE
    BY <1>8 DEF ApplyMigration, Stored
  <2> HIDE DEF R
  <2> QED BY <2>1, <2>2, <2>3, MoveType DEF ApplyPcs
<1>9. ASSUME NEW r \in Requests, UpdateRuleset(r) PROVE TypeInv'
  <2> DEFINE R == [req[r] EXCEPT !.pc = "delete"]
  <2>1. R \in Request /\ R.pc = "delete" /\ R.path = req[r].path /\ R.id = req[r].id
       /\ R.dels = req[r].dels
    BY DEF Request, RequestPcs, ApplyPcs
  <2>2. /\ req[r].pc = "update" /\ req' = [req EXCEPT ![r] = R]
        /\ held' = held /\ UNCHANGED <<row, live, cand, task>>
    BY <1>9 DEF UpdateRuleset, Goto
  <2>3. TRUE
    BY <1>9 DEF UpdateRuleset, Stored
  <2> HIDE DEF R
  <2> QED BY <2>1, <2>2, <2>3, MoveType DEF ApplyPcs
<1>10. ASSUME NEW r \in Requests, ReadPrev(r) PROVE TypeInv'
  <2> DEFINE P == Declares[row[For(r)]]
             R == [[req[r] EXCEPT !.pc = "validate"] EXCEPT !.prev = P]
  <2>1. req[r].pc = "read_prev" /\ cand[req[r].id].state # "unused"
    BY <1>10 DEF ReadPrev, RequestsOK, ApplyPcs
  <2>2. For(r) \in Paths
    BY <2>1, CandidateOf DEF RequestsOK, ApplyPcs, For
  <2>3. P \in SUBSET Objects
    BY <2>2, BundlesAssumption
  <2>4. R \in Request /\ R.pc = "validate" /\ R.path = req[r].path /\ R.id = req[r].id
       /\ R.dels = req[r].dels
    BY <2>3 DEF Request, RequestPcs, ApplyPcs
  <2>5. req' = [req EXCEPT ![r] = R] /\ UNCHANGED <<row, live, cand, held, task>>
    BY <1>10 DEF ReadPrev
  <2> HIDE DEF R
  <2> QED BY <2>1, <2>4, <2>5, MoveType DEF ApplyPcs
<1>11. ASSUME NEW r \in Requests, DeleteCandidates(r) PROVE TypeInv'
  <2> DEFINE D == DeleteSet(r)
             R == [[req[r] EXCEPT !.pc = "commit"] EXCEPT !.dels = D]
  <2>1. req[r].pc = "delete"
    BY <1>11 DEF DeleteCandidates
  <2>2. D \in SUBSET CandidateIds /\ \A c \in D : cand[c].state # "unused"
    BY <2>1 DEF DeleteSet, StoredFor, Stored, RequestsOK, ApplyPcs
  <2>3. R \in Request /\ R.pc = "commit" /\ R.path = req[r].path /\ R.id = req[r].id
       /\ R.dels = D
    BY <2>2 DEF Request, RequestPcs, ApplyPcs
  <2>4. req' = [req EXCEPT ![r] = R] /\ UNCHANGED <<row, live, cand, held, task>>
    BY <1>11 DEF DeleteCandidates
  <2> HIDE DEF R
  <2> HIDE DEF D
  <2> QED BY <2>1, <2>2, <2>3, <2>4, MoveType DEF ApplyPcs
<1>12. ASSUME NEW r \in Requests,
              \/ LookupEnds(r) \/ ScriptEnds(r) \/ CandidateNotFound(r) \/ CandidateInvalid(r)
              \/ MigrationFails(r) \/ Respond(r) \/ Drop(r)
      PROVE  TypeInv'
  BY <1>12, EndType DEF LookupEnds, ScriptEnds, CandidateNotFound, CandidateInvalid,
     MigrationFails, Respond, Drop
<1>13. ASSUME NEW r \in Requests, NEW t \in Tasks, NEW b \in Bundles, StartPropose(r, t, b)
      PROVE  TypeInv'
  <2> DEFINE T == [pc |-> "want_conn", owner |-> r, bundle |-> b, prev |-> {}]
  <2>1. T \in Task
    BY DEF Task, TaskPcs
  <2> QED BY <1>13, <2>1, TaskType DEF StartPropose
<1>14. ASSUME NEW r \in Requests, NEW c \in CandidateIds, NEW others \in BOOLEAN,
              ScriptReplaces(r, c, others)
      PROVE  TypeInv'
  <2> DEFINE R == [[[req[r] EXCEPT !.pc = "want_apply"] EXCEPT !.id = c]
                                    EXCEPT !.others = others]
  <2>1. R \in Request /\ R.pc = "want_apply" /\ R.path = req[r].path /\ R.id = c
       /\ R.dels = req[r].dels
    BY DEF Request, RequestPcs
  <2>2. /\ req[r].pc = "script" /\ req' = [req EXCEPT ![r] = R]
        /\ held' \subseteq held /\ UNCHANGED <<row, live, cand>>
    BY <1>14 DEF ScriptReplaces
  <2>3. \A t \in Tasks : task'[t] = IF t \in TasksOf(r) THEN IdleTask ELSE task[t]
    BY <1>14 DEF ScriptReplaces
  <2>4. \A q \in Requests : req'[q] = IF q = r THEN R ELSE req[q]
    BY <2>2
  <2> HIDE DEF R
  <2>5. task' \in [Tasks -> Task]
    BY <1>14, IdleTypes DEF ScriptReplaces
  <2>6. TypeOK'
    BY <2>1, <2>2, <2>5
  <2>7. RequestsOK'
    BY <2>1, <2>2, <2>4 DEF RequestsOK, ApplyPcs
  <2>8. TasksOK'
    BY <2>3, <2>4 DEF TasksOK, TasksOf, IdleTask
  <2> QED BY <2>6, <2>7, <2>8
<1>15. ASSUME NEW r \in Requests, Commit(r) PROVE TypeInv'
  <2> DEFINE R == [req[r] EXCEPT !.pc = "committed"]
  <2>1. R \in Request /\ R.pc = "committed" /\ R.path = req[r].path /\ R.id = req[r].id
       /\ R.dels = req[r].dels
    BY DEF Request, RequestPcs, ApplyPcs
  <2>2. /\ req[r].pc = "commit" /\ req' = [req EXCEPT ![r] = R]
        /\ UNCHANGED <<held, task>>
    BY <1>15 DEF Commit, Goto
  <2>3. req[r].id \in CandidateIds /\ cand[req[r].id].state # "unused"
    BY <2>2 DEF RequestsOK, ApplyPcs
  <2>4. For(r) \in Paths /\ BundleOf(r) \in Bundles
    BY <2>3, CandidateOf DEF For, BundleOf
  <2>5. row' \in [Paths -> Bundles]
    BY <1>15, <2>4 DEF Commit
  <2>6. live' \in [Paths -> SUBSET Objects]
    BY <1>15, <2>4, MigrateType DEF Commit
  <2>7. cand' \in [CandidateIds -> Candidate]
        /\ \A c \in CandidateIds : cand[c].state # "unused" => cand'[c].state # "unused"
    BY <1>15, DeletedType DEF Commit, RequestsOK
  <2>8. \A q \in Requests : req'[q] = IF q = r THEN R ELSE req[q]
    BY <2>2
  <2> HIDE DEF R
  <2>9. TypeOK'
    BY <2>1, <2>2, <2>5, <2>6, <2>7
  <2>10. RequestsOK'
    <3>1. \A q \in Requests : req[q].dels \subseteq CandidateIds
      BY DEF Request
    <3> SUFFICES ASSUME NEW q \in Requests
                 PROVE  /\ req'[q].pc # "idle" => req'[q].path \in Paths
                        /\ req'[q].pc \in ApplyPcs \cup {"want_apply"}
                             => req'[q].id \in CandidateIds
                        /\ req'[q].pc \in ApplyPcs \ {"read_candidate"}
                             => cand'[req'[q].id].state # "unused"
                        /\ \A c \in req'[q].dels : cand'[c].state # "unused"
      BY DEF RequestsOK
    <3>2. CASE q = r
      BY <3>1, <3>2, <2>1, <2>2, <2>3, <2>7, <2>8 DEF RequestsOK, ApplyPcs
    <3>3. CASE q # r
      BY <3>1, <3>3, <2>7, <2>8 DEF RequestsOK, ApplyPcs
    <3> QED BY <3>2, <3>3
  <2>11. TasksOK'
    BY <2>1, <2>2, <2>8 DEF TasksOK
  <2> QED BY <2>9, <2>10, <2>11
<1>16. ASSUME NEW t \in Tasks, ProposeGetConn(t) \/ ProposeValidate(t)
      PROVE  TypeInv'
  <2> DEFINE T == [task[t] EXCEPT !.pc = IF task[t].pc = "want_conn"
                                          THEN "read_prev" ELSE "insert"]
  <2>1. T \in Task /\ task' = [task EXCEPT ![t] = T]
    BY <1>16 DEF ProposeGetConn, ProposeValidate, Task, TaskPcs
  <2>2. /\ T.owner = task[t].owner /\ T.bundle = task[t].bundle
        /\ task[t].pc = "want_conn" => T.pc = "read_prev"
    BY DEF Task
  <2>3. /\ task[t].pc \in {"want_conn", "validate"}
        /\ task[t].pc = "validate" => task[t].bundle \in Loads
        /\ held' \subseteq Conns /\ UNCHANGED <<row, live, cand, req>>
    BY <1>16 DEF ProposeGetConn, ProposeValidate, Validates, Conns
  <2> HIDE DEF T
  <2> QED BY <2>1, <2>2, <2>3, TaskType DEF TasksOK
<1>17. ASSUME NEW t \in Tasks, ProposeReadPrev(t) PROVE TypeInv'
  <2> DEFINE P == Declares[row[req[task[t].owner].path]]
             T == [[task[t] EXCEPT !.pc = "validate"] EXCEPT !.prev = P]
  <2>1. task[t].pc = "read_prev"
    BY <1>17 DEF ProposeReadPrev
  <2>2. req[task[t].owner].path \in Paths
    BY <2>1 DEF TasksOK, RequestsOK
  <2>3. P \in SUBSET Objects
    BY <2>2, BundlesAssumption
  <2>4. /\ T \in Task /\ T.pc = "validate"
        /\ T.owner = task[t].owner /\ T.bundle = task[t].bundle
    BY <2>3 DEF Task, TaskPcs
  <2>5. task' = [task EXCEPT ![t] = T] /\ UNCHANGED <<row, live, cand, held, req>>
    BY <1>17 DEF ProposeReadPrev
  <2> HIDE DEF T
  <2> QED BY <2>1, <2>4, <2>5, TaskType DEF TasksOK
<1>18. ASSUME NEW t \in Tasks, ProposeInvalid(t) \/ ProposeFails(t) PROVE TypeInv'
  <2>1. task' = [task EXCEPT ![t] = IdleTask] /\ held' \subseteq Conns
        /\ UNCHANGED <<row, live, cand, req>>
    BY <1>18 DEF ProposeInvalid, ProposeFails, ProposeEnds
  <2> QED BY <2>1, IdleTypes, TaskType DEF IdleTask
<1>19. ASSUME NEW t \in Tasks, NEW c \in CandidateIds, ProposeInsert(t, c) PROVE TypeInv'
  <2> DEFINE C == [state |-> "stored", for |-> req[task[t].owner].path,
                   bundle |-> task[t].bundle]
  <2>1. /\ task[t].pc = "insert" /\ cand' = [cand EXCEPT ![c] = C]
        /\ task' = [task EXCEPT ![t] = IdleTask] /\ held' \subseteq Conns
        /\ UNCHANGED <<row, live, req>>
    BY <1>19 DEF ProposeInsert, ProposeEnds
  <2>2. C \in Candidate /\ C.state = "stored"
    BY <2>1 DEF Candidate, TasksOK, RequestsOK
  <2> HIDE DEF C
  <2>3. TypeOK'
    BY <2>1, <2>2, IdleTypes
  <2>4. RequestsOK'
    BY <2>1, <2>2 DEF RequestsOK
  <2>5. TasksOK'
    BY <2>1 DEF TasksOK, IdleTask
  <2> QED BY <2>3, <2>4, <2>5
<1>20. CASE UNCHANGED vars
  BY <1>20 DEF vars, RequestsOK, TasksOK
<1> QED
  BY <1>1, <1>2, <1>3, <1>4, <1>5, <1>6, <1>7, <1>8, <1>9, <1>10, <1>11, <1>12, <1>13,
     <1>14, <1>15, <1>16, <1>17, <1>18, <1>19, <1>20
     DEF Next, Advance, ScriptCalls, ScriptReturns, Perform

\* The initial state satisfies the type invariant.
LEMMA TypeInit == Init => TypeInv
BY IdleTypes, BundlesAssumption, RegistryAssumption
   DEF Init, RegistryInit, TypeInv, TypeOK, RequestsOK, TasksOK, IdleRequest, IdleTask,
       Candidate, NoCandidate, ApplyPcs

\* Types, and what a program counter says of the rest of its record: a replacement
\* has a candidate that was proposed, a proposal a request whose function runs.
THEOREM TypeInvariant == Spec => []TypeInv
BY TypeInit, TypeStep, PTL DEF Spec

\* Every variable of the handlers, the pool and the tables keeps to the type
\* the model gives it, for any number of rulesets, requests and connections.
THEOREM TypeCorrect == Spec => []TypeOK
BY TypeInvariant, PTL DEF TypeInv

-----------------------------------------------------------------------------
(* Accounting *)

\* ConnsAccounted, connection by connection.
RequestHolds(r) ==
  /\ <<r, "handler">> \in held <=> req[r].pc \notin {"idle", "want_handler"}
  /\ <<r, "apply">> \in held <=> req[r].pc \in ApplyPcs
TaskHolds(t) ==
  <<t, "propose">> \in held <=> task[t].pc \notin {"idle", "want_conn"}
PoolInv ==
  /\ \A r \in Requests : RequestHolds(r)
  /\ \A t \in Tasks : TaskHolds(t)
  /\ IsFiniteSet(held)
  /\ Cardinality(held) <= PoolSize

\* The invariant is about single connections; together they are the whole of held.
LEMMA PoolInvAccounts == TypeOK /\ PoolInv => ConnsAccounted
<1> SUFFICES ASSUME TypeOK, PoolInv PROVE ConnsAccounted
  OBVIOUS
<1> DEFINE H == {<<r, "handler">> : r \in {q \in Requests :
                                            req[q].pc \notin {"idle", "want_handler"}}}
           A == {<<r, "apply">> : r \in {q \in Requests : req[q].pc \in ApplyPcs}}
           P == {<<t, "propose">> : t \in {u \in Tasks :
                                            task[u].pc \notin {"idle", "want_conn"}}}
<1>1. ASSUME NEW x \in held PROVE x \in H \cup A \cup P
  <2>1. CASE x \in Requests \X {"handler", "apply"}
    <3>1. PICK r \in Requests : x = <<r, "handler">> \/ x = <<r, "apply">>
      BY <2>1
    <3> QED BY <1>1, <3>1 DEF PoolInv, RequestHolds
  <2>2. CASE x \in Tasks \X {"propose"}
    <3>1. PICK t \in Tasks : x = <<t, "propose">>
      BY <2>2
    <3> QED BY <1>1, <3>1 DEF PoolInv, TaskHolds
  <2> QED BY <2>1, <2>2 DEF TypeOK, Conns
<1>2. H \cup A \cup P \subseteq held
  BY DEF PoolInv, RequestHolds, TaskHolds
<1>3. held = H \cup A \cup P
  BY <1>1, <1>2
<1> QED BY <1>3 DEF ConnsAccounted, PoolInv

\* Giving connections back keeps the pool's bound, taking one out when one is
\* free does too.
LEMMA HeldLess ==
  ASSUME IsFiniteSet(held), Cardinality(held) <= PoolSize, held' \subseteq held
  PROVE  IsFiniteSet(held') /\ Cardinality(held') <= PoolSize
<1>1. Cardinality(held) \in Nat /\ Cardinality(held') \in Nat /\ IsFiniteSet(held')
      /\ Cardinality(held') <= Cardinality(held)
  BY FS_Subset, FS_CardinalityType
<1> QED BY <1>1, PoolAssumption

\* A connection taken while one is free leaves no more out than the pool has.
LEMMA HeldMore ==
  ASSUME IsFiniteSet(held), ConnFree, NEW x, held' = held \cup {x}
  PROVE  IsFiniteSet(held') /\ Cardinality(held') <= PoolSize
<1>1. /\ IsFiniteSet(held \cup {x})
      /\ Cardinality(held \cup {x}) = IF x \in held THEN Cardinality(held)
                                                    ELSE Cardinality(held) + 1
  BY FS_AddElement
<1>2. Cardinality(held) \in Nat
  BY FS_CardinalityType
<1> QED BY <1>1, <1>2, PoolAssumption DEF ConnFree

\* A request moves between two places where it holds the same.
LEMMA SameHolds ==
  ASSUME TypeOK, PoolInv, NEW r \in Requests, NEW R, req' = [req EXCEPT ![r] = R],
         R.pc \in {"idle", "want_handler"} <=> req[r].pc \in {"idle", "want_handler"},
         R.pc \in ApplyPcs <=> req[r].pc \in ApplyPcs,
         UNCHANGED <<held, task>>
  PROVE  PoolInv'
<1>1. \A q \in Requests : req'[q] = IF q = r THEN R ELSE req[q]
  BY DEF TypeOK
<1>2. \A q \in Requests : RequestHolds(q)'
  BY <1>1 DEF PoolInv, RequestHolds
<1>3. \A t \in Tasks : TaskHolds(t)'
  BY DEF PoolInv, TaskHolds
<1> QED BY <1>2, <1>3 DEF PoolInv

\* A request's end gives back its connections, and its proposals'.
LEMMA EndPool ==
  ASSUME TypeOK, PoolInv, NEW r \in Requests, End(r)
  PROVE  PoolInv'
<1>1. \A q \in Requests : req'[q] = IF q = r THEN IdleRequest ELSE req[q]
  BY DEF TypeOK, End
<1>2. \A t \in Tasks : task'[t] = IF t \in TasksOf(r) THEN IdleTask ELSE task[t]
  BY DEF End
<1>3. held' = held \ (({r} \X {"handler", "apply"}) \cup (TasksOf(r) \X {"propose"}))
  BY DEF End
<1>4. \A q \in Requests : RequestHolds(q)'
  <2> SUFFICES ASSUME NEW q \in Requests PROVE RequestHolds(q)'
    OBVIOUS
  <2>1. /\ <<q, "handler">> \in held' <=> q # r /\ <<q, "handler">> \in held
        /\ <<q, "apply">> \in held' <=> q # r /\ <<q, "apply">> \in held
    BY <1>3
  <2> QED BY <1>1, <2>1 DEF PoolInv, RequestHolds, IdleRequest, ApplyPcs
<1>5. \A t \in Tasks : TaskHolds(t)'
  <2> SUFFICES ASSUME NEW t \in Tasks PROVE TaskHolds(t)'
    OBVIOUS
  <2>1. <<t, "propose">> \in held' <=> t \notin TasksOf(r) /\ <<t, "propose">> \in held
    BY <1>3
  <2> QED BY <1>2, <2>1 DEF PoolInv, TaskHolds, IdleTask
<1> QED BY <1>3, <1>4, <1>5, HeldLess DEF PoolInv

\* A task moves, and the requests' connections stay as they are.
LEMMA TaskPool ==
  ASSUME TypeOK, PoolInv, NEW t \in Tasks, NEW T, task' = [task EXCEPT ![t] = T],
         req' = req,
         IF T.pc \in {"idle", "want_conn"}
           THEN held' = held \ {<<t, "propose">>}
           ELSE held' = held \cup {<<t, "propose">>},
         IsFiniteSet(held'), Cardinality(held') <= PoolSize
  PROVE  PoolInv'
<1>1. \A u \in Tasks : task'[u] = IF u = t THEN T ELSE task[u]
  BY DEF TypeOK
<1>2. \A u \in Tasks : TaskHolds(u)'
  <2> SUFFICES ASSUME NEW u \in Tasks PROVE TaskHolds(u)'
    OBVIOUS
  <2>1. CASE u = t
    BY <1>1, <2>1 DEF TaskHolds
  <2>2. CASE u # t
    <3>1. <<u, "propose">> \in held' <=> <<u, "propose">> \in held
      BY <2>2
    <3> QED BY <1>1, <2>2, <3>1 DEF PoolInv, TaskHolds
  <2> QED BY <2>1, <2>2
<1>3. \A q \in Requests : RequestHolds(q)'
  <2>1. \A q \in Requests : /\ <<q, "handler">> \in held' <=> <<q, "handler">> \in held
                            /\ <<q, "apply">> \in held' <=> <<q, "apply">> \in held
    OBVIOUS
  <2> QED BY <2>1 DEF PoolInv, RequestHolds
<1> QED BY <1>2, <1>3 DEF PoolInv

\* Every step keeps the accounts: what it takes and gives back is its own.
LEMMA PoolStep == TypeInv /\ PoolInv /\ [Next]_vars => PoolInv'
<1> SUFFICES ASSUME TypeInv, PoolInv, [Next]_vars PROVE PoolInv'
  OBVIOUS
<1> USE DEF TypeInv, TypeOK
<1>1. ASSUME NEW r \in Requests, Arrive(r) PROVE PoolInv'
  <2>1. PICK k \in Kinds, p \in Paths :
          req' = [req EXCEPT ![r] = [IdleRequest EXCEPT !.pc = "want_handler",
                                                        !.kind = k, !.path = p]]
    BY <1>1 DEF Arrive
  <2> DEFINE R == [IdleRequest EXCEPT !.pc = "want_handler", !.kind = k, !.path = p]
  <2>2. R.pc = "want_handler"
    BY IdleTypes DEF IdleRequest
  <2>3. req[r].pc = "idle" /\ req' = [req EXCEPT ![r] = R] /\ UNCHANGED <<held, task>>
    BY <1>1, <2>1 DEF Arrive
  <2> HIDE DEF R
  <2> QED BY <2>2, <2>3, SameHolds DEF ApplyPcs
<1>2. ASSUME NEW r \in Requests, GetHandlerConn(r) PROVE PoolInv'
  <2>1. req[r].pc = "want_handler" /\ req'[r].pc = "lookup"
        /\ \A q \in Requests : q # r => req'[q] = req[q]
    BY <1>2 DEF GetHandlerConn, Goto, Request
  <2>2. held' = held \cup {<<r, "handler">>} /\ task' = task /\ ConnFree
    BY <1>2 DEF GetHandlerConn
  <2>3. \A q \in Requests : RequestHolds(q)'
    BY <2>1, <2>2 DEF PoolInv, RequestHolds, ApplyPcs
  <2>4. \A t \in Tasks : TaskHolds(t)'
    BY <2>2 DEF PoolInv, TaskHolds
  <2> QED BY <2>2, <2>3, <2>4, HeldMore DEF PoolInv
<1>3. ASSUME NEW r \in Requests, GetApplyConn(r) PROVE PoolInv'
  <2>1. req[r].pc = "want_apply" /\ req'[r].pc = "read_candidate"
        /\ \A q \in Requests : q # r => req'[q] = req[q]
    BY <1>3 DEF GetApplyConn, Goto, Request
  <2>2. held' = held \cup {<<r, "apply">>} /\ task' = task /\ ConnFree
    BY <1>3 DEF GetApplyConn
  <2>3. \A q \in Requests : RequestHolds(q)'
    BY <2>1, <2>2 DEF PoolInv, RequestHolds, ApplyPcs
  <2>4. \A t \in Tasks : TaskHolds(t)'
    BY <2>2 DEF PoolInv, TaskHolds
  <2> QED BY <2>2, <2>3, <2>4, HeldMore DEF PoolInv
<1>4. ASSUME NEW r \in Requests, NEW from, NEW to, Goto(r, from, to),
             from \notin {"idle", "want_handler"}, to \notin {"idle", "want_handler"},
             from \in ApplyPcs <=> to \in ApplyPcs, UNCHANGED <<held, task>>
      PROVE  PoolInv'
  <2> DEFINE R == [req[r] EXCEPT !.pc = to]
  <2>1. R.pc = to /\ req[r].pc = from /\ req' = [req EXCEPT ![r] = R]
    BY <1>4 DEF Goto, Request
  <2> HIDE DEF R
  <2> QED BY <1>4, <2>1, SameHolds
<1>5. ASSUME NEW r \in Requests,
             \/ LookupFound(r) \/ Await(r) \/ Resume(r) \/ ReadCandidate(r)
             \/ ValidateApply(r) \/ ApplyMigration(r) \/ UpdateRuleset(r) \/ Commit(r)
      PROVE  PoolInv'
  BY <1>4, <1>5 DEF LookupFound, Await, Resume, ReadCandidate, ValidateApply,
     ApplyMigration, UpdateRuleset, Commit, ApplyPcs
<1>6. ASSUME NEW r \in Requests, ReadPrev(r) PROVE PoolInv'
  <2> DEFINE P == Declares[row[For(r)]]
             R == [[req[r] EXCEPT !.pc = "validate"] EXCEPT !.prev = P]
  <2>1. R.pc = "validate"
    BY DEF Request
  <2>2. /\ req[r].pc = "read_prev" /\ req' = [req EXCEPT ![r] = R]
        /\ UNCHANGED <<held, task>>
    BY <1>6 DEF ReadPrev
  <2> HIDE DEF R
  <2> QED BY <2>1, <2>2, SameHolds DEF ApplyPcs
<1>7. ASSUME NEW r \in Requests, DeleteCandidates(r) PROVE PoolInv'
  <2> DEFINE D == DeleteSet(r)
             R == [[req[r] EXCEPT !.pc = "commit"] EXCEPT !.dels = D]
  <2>1. R.pc = "commit"
    BY DEF Request
  <2>2. /\ req[r].pc = "delete" /\ req' = [req EXCEPT ![r] = R]
        /\ UNCHANGED <<held, task>>
    BY <1>7 DEF DeleteCandidates
  <2> HIDE DEF R
  <2> QED BY <2>1, <2>2, SameHolds DEF ApplyPcs
<1>8. ASSUME NEW r \in Requests, NEW c \in CandidateIds, NEW others \in BOOLEAN,
             ScriptReplaces(r, c, others)
      PROVE  PoolInv'
  <2> DEFINE R == [[[req[r] EXCEPT !.pc = "want_apply"] EXCEPT !.id = c]
                                    EXCEPT !.others = others]
  <2>1. R.pc = "want_apply"
    BY DEF Request
  <2>2. /\ req[r].pc = "script" /\ req' = [req EXCEPT ![r] = R]
        /\ held' = held \ (TasksOf(r) \X {"propose"})
    BY <1>8 DEF ScriptReplaces
  <2>3. \A t \in Tasks : task'[t] = IF t \in TasksOf(r) THEN IdleTask ELSE task[t]
    BY <1>8 DEF ScriptReplaces
  <2> HIDE DEF R
  <2>4. \A q \in Requests : req'[q] = IF q = r THEN R ELSE req[q]
    BY <2>2
  <2>5. \A q \in Requests : RequestHolds(q)'
    <3>1. \A q \in Requests : /\ <<q, "handler">> \in held' <=> <<q, "handler">> \in held
                              /\ <<q, "apply">> \in held' <=> <<q, "apply">> \in held
      BY <2>2
    <3> QED BY <2>1, <2>2, <2>4, <3>1 DEF PoolInv, RequestHolds, ApplyPcs
  <2>6. \A t \in Tasks : TaskHolds(t)'
    <3> SUFFICES ASSUME NEW t \in Tasks PROVE TaskHolds(t)'
      OBVIOUS
    <3>1. <<t, "propose">> \in held' <=> t \notin TasksOf(r) /\ <<t, "propose">> \in held
      BY <2>2
    <3> QED BY <2>3, <3>1 DEF PoolInv, TaskHolds, IdleTask
  <2> QED BY <2>2, <2>5, <2>6, HeldLess DEF PoolInv
<1>9. ASSUME NEW r \in Requests,
             \/ LookupEnds(r) \/ ScriptEnds(r) \/ CandidateNotFound(r) \/ CandidateInvalid(r)
             \/ MigrationFails(r) \/ Respond(r) \/ Drop(r)
      PROVE  PoolInv'
  BY <1>9, EndPool DEF LookupEnds, ScriptEnds, CandidateNotFound, CandidateInvalid,
     MigrationFails, Respond, Drop
<1>10. ASSUME NEW r \in Requests, NEW t \in Tasks, NEW b \in Bundles, StartPropose(r, t, b)
       PROVE  PoolInv'
  <2> DEFINE T == [pc |-> "want_conn", owner |-> r, bundle |-> b, prev |-> {}]
  <2>1. T.pc = "want_conn" /\ task' = [task EXCEPT ![t] = T] /\ req' = req
    BY <1>10 DEF StartPropose
  <2>2. task[t].pc = "idle" /\ held' = held /\ held = held \ {<<t, "propose">>}
    BY <1>10 DEF StartPropose, PoolInv, TaskHolds
  <2> HIDE DEF T
  <2> QED BY <2>1, <2>2, TaskPool DEF PoolInv
<1>11. ASSUME NEW t \in Tasks, ProposeGetConn(t) PROVE PoolInv'
  <2> DEFINE T == [task[t] EXCEPT !.pc = "read_prev"]
  <2>1. T.pc = "read_prev" /\ task' = [task EXCEPT ![t] = T] /\ req' = req
    BY <1>11 DEF ProposeGetConn, Task
  <2>2. held' = held \cup {<<t, "propose">>} /\ ConnFree
    BY <1>11 DEF ProposeGetConn
  <2> HIDE DEF T
  <2> QED BY <2>1, <2>2, TaskPool, HeldMore DEF PoolInv
<1>12. ASSUME NEW t \in Tasks, ProposeReadPrev(t) PROVE PoolInv'
  <2> DEFINE P == Declares[row[req[task[t].owner].path]]
             T == [[task[t] EXCEPT !.pc = "validate"] EXCEPT !.prev = P]
  <2>1. T.pc = "validate"
    BY DEF Task
  <2>2. task[t].pc = "read_prev" /\ task' = [task EXCEPT ![t] = T] /\ req' = req
    BY <1>12 DEF ProposeReadPrev
  <2>3. held' = held /\ held = held \cup {<<t, "propose">>}
    BY <1>12, <2>2 DEF ProposeReadPrev, PoolInv, TaskHolds
  <2> HIDE DEF T
  <2> QED BY <2>1, <2>2, <2>3, TaskPool DEF PoolInv
<1>13. ASSUME NEW t \in Tasks, ProposeValidate(t) PROVE PoolInv'
  <2> DEFINE T == [task[t] EXCEPT !.pc = "insert"]
  <2>1. T.pc = "insert"
    BY DEF Task
  <2>2. task[t].pc = "validate" /\ task' = [task EXCEPT ![t] = T] /\ req' = req
    BY <1>13 DEF ProposeValidate
  <2>3. held' = held /\ held = held \cup {<<t, "propose">>}
    BY <1>13, <2>2 DEF ProposeValidate, PoolInv, TaskHolds
  <2> HIDE DEF T
  <2> QED BY <2>1, <2>2, <2>3, TaskPool DEF PoolInv
<1>14. ASSUME NEW t \in Tasks,
              \/ ProposeInvalid(t) \/ ProposeFails(t)
              \/ \E c \in CandidateIds : ProposeInsert(t, c)
       PROVE  PoolInv'
  <2>1. /\ task' = [task EXCEPT ![t] = IdleTask] /\ req' = req
        /\ held' = held \ {<<t, "propose">>}
    BY <1>14 DEF ProposeInvalid, ProposeFails, ProposeInsert, ProposeEnds
  <2> QED BY <2>1, TaskPool, HeldLess DEF PoolInv, IdleTask
<1>15. CASE UNCHANGED vars
  BY <1>15 DEF vars, PoolInv, RequestHolds, TaskHolds
<1> QED
  BY <1>1, <1>2, <1>3, <1>5, <1>6, <1>7, <1>8, <1>9, <1>10, <1>11, <1>12, <1>13, <1>14,
     <1>15 DEF Next, Advance, ScriptCalls, ScriptReturns, Perform

\* The server starts with a full pool.
LEMMA PoolInit == Init => PoolInv
BY FS_EmptySet, PoolAssumption
   DEF Init, PoolInv, RequestHolds, TaskHolds, IdleRequest, IdleTask, ApplyPcs

\* The connections that are out are those the program counters say, in every state.
THEOREM PoolInvariant == Spec => [](TypeInv /\ PoolInv)
<1>1. Init => TypeInv /\ PoolInv
  BY TypeInit, PoolInit
<1>2. TypeInv /\ PoolInv /\ [Next]_vars => (TypeInv /\ PoolInv)'
  BY TypeStep, PoolStep
<1> QED BY <1>1, <1>2, PTL DEF Spec

\* A connection is out of the pool exactly while a handler, a replacement or a
\* proposal is at an await that needs it, on every path out of every handler,
\* the dropped ones included.
THEOREM PoolAccounting == Spec => []ConnsAccounted
<1>1. TypeInv /\ PoolInv => ConnsAccounted
  BY PoolInvAccounts DEF TypeInv
<1> QED BY PoolInvariant, <1>1, PTL

-----------------------------------------------------------------------------
(* Waiting *)

\* When everybody waits, what is out is what handlers keep while they wait.
LEMMA StuckHandlers ==
  ASSUME TypeInv, PoolInv, PoolStuck
  PROVE  /\ held \subseteq Requests \X {"handler"}
         /\ \A r \in Requests : req[r].pc \notin ApplyPcs
         /\ \A t \in Tasks : task[t].pc \in {"idle", "want_conn"}
<1>1. \A r \in Requests : req[r].pc \notin ApplyPcs
  BY DEF PoolStuck, WaitsForPool, ApplyPcs
<1>2. ASSUME NEW t \in Tasks, task[t].pc # "idle" PROVE task[t].pc = "want_conn"
  <2> DEFINE o == task[t].owner
  <2>1. o \in Requests /\ req[o].pc \in {"script", "await"} /\ t \in TasksOf(o)
    BY <1>2 DEF TypeInv, TasksOK, TasksOf
  <2> HIDE DEF o
  <2>2. WaitsForPool(o)
    BY <2>1 DEF PoolStuck
  <2> QED BY <2>1, <2>2 DEF WaitsForPool
<1>3. ASSUME NEW x \in held PROVE x \in Requests \X {"handler"}
  <2>1. CASE x \in Requests \X {"handler", "apply"}
    <3>1. PICK r \in Requests : x = <<r, "handler">> \/ x = <<r, "apply">>
      BY <2>1
    <3>2. <<r, "apply">> \notin held
      BY <1>1 DEF PoolInv, RequestHolds
    <3> QED BY <3>1, <3>2
  <2>2. CASE x \in Tasks \X {"propose"}
    <3>1. PICK t \in Tasks : x = <<t, "propose">>
      BY <2>2
    <3> QED BY <1>2, <1>3, <3>1 DEF PoolInv, TaskHolds
  <2> QED BY <2>1, <2>2 DEF TypeInv, TypeOK, Conns
<1> QED BY <1>1, <1>2, <1>3

\* With fewer requests admitted than the pool has connections, some request in
\* progress can always go on.
THEOREM PoolSuffices == Spec => []NeverStuck
<1>1. ASSUME TypeInv, PoolInv PROVE NeverStuck
  <2> SUFFICES ASSUME Cardinality(Requests) < PoolSize, PoolStuck PROVE FALSE
    BY DEF NeverStuck
  <2>1. held \subseteq Requests \X {"handler"}
    BY <1>1, StuckHandlers
  <2> DEFINE f == [x \in held |-> x[1]]
  <2>2. f \in Injection(held, Requests)
    <3>1. f \in [held -> Requests]
      BY <2>1
    <3>2. \A x, y \in held : f[x] = f[y] => x = y
      BY <2>1
    <3> QED BY <3>1, <3>2 DEF Injection, IsInjective
  <2>3. Cardinality(held) <= Cardinality(Requests)
    BY <2>2, FS_Injection, PoolAssumption
  <2>4. /\ Cardinality(held) \in Nat /\ Cardinality(Requests) \in Nat /\ PoolSize \in Nat
        /\ ~(Cardinality(held) < PoolSize)
    BY <1>1, FS_CardinalityType, PoolAssumption DEF PoolInv, PoolStuck, ConnFree
  <2> QED BY <2>3, <2>4
<1> QED BY PoolInvariant, <1>1, PTL

\* However many requests are admitted: a pool that everybody waits for is held
\* up by handlers alone, with no transaction, lock or proposal half done.
THEOREM StuckIsHarmless == Spec => []StuckHoldsNoLocks
<1>1. TypeInv /\ PoolInv => StuckHoldsNoLocks
  BY StuckHandlers DEF StuckHoldsNoLocks
<1> QED BY PoolInvariant, <1>1, PTL
=============================================================================
