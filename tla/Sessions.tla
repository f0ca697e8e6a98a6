-------------------------------- MODULE Sessions --------------------------------
(***************************************************************************)
(* One connection of the pool and its session: the role and the            *)
(* search_path that sql_as_role sets for a migration, with the transaction *)
(* around it (rulesets.rs), from one caller of the connection to the next. *)
(*                                                                         *)
(* A caller sends one message at a time and waits for the answer.  When it *)
(* is dropped, or returns an error, the transaction's Drop only queues a   *)
(* ROLLBACK: the connection is another caller's at once, and the server    *)
(* still executes what was queued before.  Callers on different            *)
(* connections do not meet here.  The server's part, that SET is undone    *)
(* with the transaction and lasts beyond a commit, is Postgres'.           *)
(***************************************************************************)
EXTENDS SequencesExt

CONSTANTS
  Rulesets,
  Ops,        \* what the callers do
  MaxQueued,  \* how many messages may be queued when a caller comes
  Server,     \* the role of the pool's connections, and no search_path
  NoOp

ASSUME SessionsAssumption ==
  /\ Ops \subseteq {"read", "apply", "create"}
  /\ Server \notin Rulesets

VARIABLES
  session,  \* the role (a ruleset's or the server's) and the search_path
  saved,    \* the session when the transaction began
  tx,       \* the transaction of the session
  inbox,    \* the messages queued for the server, each one or more commands
  holder      \* the caller that holds the connection

sessionsVars == <<session, saved, tx, inbox, holder>>

Work == {"catalog", "create", "migrate"}
Commands == [what : Work \cup {"begin", "role", "path", "reset", "commit", "rollback"},
             for : Rulesets \cup {Server}]
Settings == [role : Rulesets \cup {Server}, path : Rulesets \cup {Server}]
Nobody == [op |-> NoOp, for |-> Server, sent |-> 0, at |-> "ready"]

SessionsTypeOK ==
  /\ session \in Settings /\ saved \in Settings
  /\ tx \in {"none", "open", "failed"}
  /\ inbox \in Seq([cmds : Seq(Commands), heard : BOOLEAN])
  /\ holder \in [op : Ops \cup {NoOp}, for : Rulesets \cup {Server}, sent : 0..7,
               at : {"ready", "waiting", "failed"}]
  \* Only the last message is waited for.
  /\ \A i \in DOMAIN inbox : inbox[i].cmds # <<>> /\ (inbox[i].heard <=> i = Len(inbox) /\ holder.at = "waiting")

SessionsInit ==
  /\ session = [role |-> Server, path |-> Server]
  /\ saved = session
  /\ tx = "none"
  /\ inbox = <<>>
  /\ holder = Nobody

-----------------------------------------------------------------------------
(* The callers *)

Cmd(what, r) == [what |-> what, for |-> r]

\* Mutants: the role is not reset; the search_path is left as it is.
SqlAsRoleNoReset(r) == <<Cmd("role", r), Cmd("path", r), Cmd("migrate", r)>>
SqlAsRoleNoPath(r) == <<Cmd("role", r), Cmd("migrate", r), Cmd("reset", r)>>

\* sql_as_role sends one text: an error leaves out the rest, "reset role" too.
SqlAsRole(r) == <<Cmd("role", r), Cmd("path", r), Cmd("migrate", r), Cmd("reset", r)>>

\* What each operation sends: a handler's query; apply_candidate_top (the
\* candidate and the ruleset are read, then validated elsewhere); and
\* create_ruleset.
Program(op, r) ==
  CASE op = "read" -> << <<Cmd("catalog", r)>> >>
    [] op = "apply" -> << <<Cmd("catalog", r)>>, <<Cmd("catalog", r)>>, <<Cmd("begin", r)>>,
                          SqlAsRole(r), <<Cmd("catalog", r)>>, <<Cmd("catalog", r)>>,
                          <<Cmd("commit", r)>> >>
    [] op = "create" -> << <<Cmd("catalog", r)>>, <<Cmd("begin", r)>>, <<Cmd("create", r)>>,
                           SqlAsRole(r), <<Cmd("commit", r)>> >>

Sends == Program(holder.op, holder.for)

Take(op, r) ==
  /\ holder = Nobody /\ Len(inbox) <= MaxQueued
  /\ holder' = [op |-> op, for |-> r, sent |-> 0, at |-> "ready"]
  /\ UNCHANGED <<session, saved, tx, inbox>>

Send ==
  /\ holder # Nobody /\ holder.at = "ready" /\ holder.sent < Len(Sends)
  /\ inbox' = Append(inbox, [cmds |-> Sends[holder.sent + 1], heard |-> TRUE])
  /\ holder' = [holder EXCEPT !.sent = @ + 1, !.at = "waiting"]
  /\ UNCHANGED <<session, saved, tx>>

GiveBack ==
  /\ holder # Nobody /\ holder.at = "ready" /\ holder.sent = Len(Sends)
  /\ holder' = Nobody
  /\ UNCHANGED <<session, saved, tx, inbox>>

\* BEGIN has been sent and COMMIT has not.
Inside ==
  /\ \E i \in 1..holder.sent : Sends[i][1].what = "begin"
  /\ holder.sent < Len(Sends)

\* Mutant: the next caller gets the answers to the messages of this one.
StillHeard == inbox

Unheard == [i \in DOMAIN inbox |-> [inbox[i] EXCEPT !.heard = FALSE]]

\* Mutant: the transaction is not rolled back by Drop.
GoWithTransaction ==
  /\ holder # Nobody
  /\ inbox' = Unheard
  /\ holder' = Nobody
  /\ UNCHANGED <<session, saved, tx>>

\* The caller returns an error, or its future is dropped at an await.
Go ==
  /\ holder # Nobody
  /\ inbox' = IF Inside
                THEN Append(Unheard, [cmds |-> <<Cmd("rollback", holder.for)>>, heard |-> FALSE])
                ELSE Unheard
  /\ holder' = Nobody
  /\ UNCHANGED <<session, saved, tx>>

-----------------------------------------------------------------------------
(* The server *)

Executes(whats) == inbox # <<>> /\ inbox[1].cmds[1].what \in whats

Answers(at) == holder' = IF inbox[1].heard THEN [holder EXCEPT !.at = at] ELSE holder

\* The next command of the message follows, or the message is answered.
Succeeds ==
  IF Len(inbox[1].cmds) > 1
    THEN inbox' = [inbox EXCEPT ![1].cmds = Tail(@)] /\ UNCHANGED holder
    ELSE inbox' = Tail(inbox) /\ Answers("ready")
Fails == inbox' = Tail(inbox) /\ Answers("failed")

Begins ==
  /\ Executes({"begin"}) /\ Succeeds
  /\ tx' = IF tx = "none" THEN "open" ELSE tx
  /\ saved' = IF tx = "none" THEN session ELSE saved
  /\ UNCHANGED session

Sets ==
  /\ Executes({"role", "path", "reset"}) /\ tx # "failed"
  /\ Succeeds /\ UNCHANGED <<saved, tx>>
  /\ LET r == inbox[1].cmds[1].for IN
     \/ Executes({"role"}) /\ session' = [session EXCEPT !.role = r]
     \/ Executes({"path"}) /\ session' = [session EXCEPT !.path = r]
     \/ Executes({"reset"}) /\ session' = [session EXCEPT !.role = Server]

Works ==
  /\ Executes(Work) /\ tx # "failed" /\ Succeeds
  /\ UNCHANGED <<session, saved, tx>>

Breaks ==
  /\ Executes(Work) /\ Fails
  /\ tx' = IF tx = "open" THEN "failed" ELSE tx
  /\ UNCHANGED <<session, saved>>

Ends == tx' = "none" /\ UNCHANGED saved

\* Deferred constraints may still refuse the transaction.
Commits ==
  /\ Executes({"commit"}) /\ tx = "open" /\ Ends
  /\ \/ Succeeds /\ UNCHANGED session
     \/ Fails /\ session' = saved

RollsBack ==
  /\ Executes({"rollback"}) /\ Succeeds /\ Ends
  /\ session' = IF tx = "none" THEN session ELSE saved

SessionsNext ==
  \/ \E op \in Ops, r \in Rulesets : Take(op, r)
  \/ Send \/ GiveBack \/ Go
  \/ Begins \/ Sets \/ Works \/ Breaks \/ Commits \/ RollsBack

SessionsSpec == SessionsInit /\ [][SessionsNext]_sessionsVars

-----------------------------------------------------------------------------
(* Properties *)

\* The catalog is read and written with the server's role, and a ruleset is
\* created with it, whatever the callers before have left.
CatalogAsServer ==
  Executes({"catalog", "create"}) /\ tx # "failed" => session.role = Server

\* A migration runs with the role and the search_path of its ruleset, and in a
\* transaction.
MigratesItsOwn ==
  Executes({"migrate"}) /\ tx # "failed" =>
    /\ session = [role |-> inbox[1].cmds[1].for, path |-> inbox[1].cmds[1].for]
    /\ tx = "open"

\* What a caller sends outside its transactions is not part of one that an
\* earlier caller has left, and its own transaction is a new one.
NoOthersTransaction ==
  /\ Executes({"begin"}) => tx = "none"
  /\ Executes({"catalog"}) /\ inbox[1].heard /\ ~Inside => tx = "none"
=============================================================================
