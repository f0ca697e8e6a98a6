----------------------------- MODULE SessionsProofs -----------------------------
(***************************************************************************)
(* Theorems about Sessions, for any set of rulesets and any number of      *)
(* queued messages: what a caller leaves behind - a transaction, a role, a *)
(* message nobody waits for - never reaches the next one.                  *)
(***************************************************************************)
EXTENDS CreateRulesetProofs

-----------------------------------------------------------------------------
(* The invariant *)

One(what, r) == <<Cmd(what, r)>>
Alone(cmds, whats) == \E w \in whats, r \in Rulesets : cmds = One(w, r)

\* The message that the server executes, and the session it does so in: of a
\* migration, the commands before those that are left have been executed.
InFront(cmds) ==
  \/ Alone(cmds, {"catalog"}) /\ tx # "failed" /\ session.role = Server
  \/ Alone(cmds, {"begin"}) /\ tx = "none"
  \/ Alone(cmds, {"create", "commit"}) /\ tx = "open" /\ session.role = Server
  \/ /\ tx = "open"
     /\ \E r \in Rulesets :
          \/ cmds = SqlAsRole(r) /\ session.role = Server
          \/ cmds = <<Cmd("path", r), Cmd("migrate", r), Cmd("reset", r)>> /\ session.role = r
          \/ /\ cmds = <<Cmd("migrate", r), Cmd("reset", r)>>
             /\ session.role = r /\ session.path = r
          \/ cmds = One("reset", r)
  \/ Alone(cmds, {"rollback"})

FrontInStep == inbox # <<>> => InFront(inbox[1].cmds)

\* Behind it there is at most the ROLLBACK of its caller, and then only the
\* first messages of others, which read the catalog.
Queued ==
  \A i \in DOMAIN inbox : i > 1 =>
    \/ Alone(inbox[i].cmds, {"catalog"})
    \/ i = 2 /\ Alone(inbox[i].cmds, {"rollback"})

\* The message that the holder waits for is one it sends inside its
\* transaction, the COMMIT, or one that it sends before.
OwnMessage(cmds) ==
  /\ \/ Inside /\ cmds[1].what \notin {"commit", "rollback"}
     \/ ~Inside /\ cmds[1].what \in {"catalog", "commit"}
  /\ cmds[1].what = "catalog" /\ Len(inbox) = 1 => tx = IF Inside THEN "open" ELSE "none"

HolderInStep ==
  /\ holder.sent = 0 => holder.at = "ready"
  /\ holder # Nobody => holder.op \in Ops /\ holder.for \in Rulesets /\ holder.sent <= Len(Sends)
  /\ holder.at = "waiting" =>
       /\ inbox # <<>> /\ OwnMessage(inbox[Len(inbox)].cmds)
       /\ Len(inbox) > 1 => holder.sent = 1
  /\ holder.at # "waiting" /\ holder.sent > 0 => inbox = <<>>
  /\ holder.at = "ready" /\ holder.sent > 0 =>
       session.role = Server /\ tx = IF Inside THEN "open" ELSE "none"

\* Somebody ends the transaction: its COMMIT or ROLLBACK is queued, or the
\* holder is inside.
Ended ==
  IF inbox = <<>> THEN tx # "none" => Inside
  ELSE tx # "none" \/ inbox[1].cmds[1].what = "begin" =>
         \/ inbox[1].cmds[1].what \in {"commit", "rollback"}
         \/ Len(inbox) > 1 /\ Alone(inbox[2].cmds, {"rollback"})
         \/ Len(inbox) = 1 /\ inbox[1].heard /\ Inside

Settled == saved.role = Server /\ (tx = "none" => session.role = Server)

SessionsInv ==
  SessionsTypeOK /\ FrontInStep /\ Queued /\ HolderInStep /\ Ended /\ Settled

-----------------------------------------------------------------------------
(* Programs and messages *)

Message == [cmds : Seq(Commands), heard : BOOLEAN]

\* What a caller sends, step by step.
LEMMA ProgramSteps ==
  ASSUME NEW op \in Ops, NEW r \in Rulesets
  PROVE  /\ op = "read" => Program(op, r) = <<One("catalog", r)>>
         /\ op = "apply" => Program(op, r) =
              <<One("catalog", r), One("catalog", r), One("begin", r), SqlAsRole(r),
                One("catalog", r), One("catalog", r), One("commit", r)>>
         /\ op = "create" => Program(op, r) =
              <<One("catalog", r), One("begin", r), One("create", r), SqlAsRole(r),
                One("commit", r)>>
         /\ op \in {"read", "apply", "create"}
BY SessionsAssumption DEF Program, One

\* The steps inside the transaction are those from BEGIN to before COMMIT.
Start(op) == IF op = "apply" THEN 3 ELSE 2

LEMMA InsideMeans ==
  ASSUME NEW op \in Ops, NEW r \in Rulesets, NEW k \in Nat, k <= Len(Program(op, r))
  PROVE  /\ op = "read" => Len(Program(op, r)) = 1
         /\ op = "apply" => Len(Program(op, r)) = 7
         /\ op = "create" => Len(Program(op, r)) = 5
         /\ (\E i \in 1..k : Program(op, r)[i][1].what = "begin") <=> op # "read" /\ Start(op) <= k
<1> DEFINE P == Program(op, r)
           Has == \E i \in 1..k : P[i][1].what = "begin"
<1>1. CASE op = "read"
  <2>1. P = <<One("catalog", r)>>
    BY <1>1, ProgramSteps
  <2> QED BY <1>1, <2>1 DEF One, Cmd
<1>2. CASE op \in {"apply", "create"}
  <2>1. /\ Len(P) = IF op = "apply" THEN 7 ELSE 5
        /\ Start(op) \in {2, 3} /\ P[Start(op)][1].what = "begin"
        /\ P[1][1].what = "catalog" /\ (Start(op) = 3 => P[2][1].what = "catalog")
    BY <1>2, ProgramSteps DEF One, Cmd, Start
  <2>2. ASSUME Has PROVE Start(op) <= k
    <3>1. PICK i \in 1..k : P[i][1].what = "begin"
      BY <2>2
    <3>2. ~(i < Start(op))
      BY <2>1, <3>1
    <3> QED BY <2>1, <3>1, <3>2
  <2>3. ASSUME Start(op) <= k PROVE Has
    BY <2>1, <2>3
  <2> QED BY <1>2, <2>1, <2>2, <2>3
<1> QED BY <1>1, <1>2, ProgramSteps

LEMMA InsideOf ==
  ASSUME SessionsTypeOK, HolderInStep
  PROVE  /\ holder.sent < 2 => ~Inside
         /\ holder = Nobody => ~Inside
         /\ holder # Nobody =>
              /\ Len(Sends) \in {1, 5, 7}
              /\ Inside <=> /\ holder.op # "read"
                            /\ Start(holder.op) <= holder.sent /\ holder.sent < Len(Sends)
<1>1. holder.sent \in Nat
  BY DEF SessionsTypeOK
<1>2. holder.sent = 0 => ~Inside
  BY <1>1 DEF Inside
<1>3. ASSUME holder # Nobody
      PROVE  /\ Len(Sends) \in {1, 5, 7}
             /\ Inside <=> /\ holder.op # "read"
                           /\ Start(holder.op) <= holder.sent /\ holder.sent < Len(Sends)
  <2>1. /\ holder.op \in Ops /\ holder.for \in Rulesets
        /\ holder.sent <= Len(Program(holder.op, holder.for))
    BY <1>3 DEF HolderInStep, Sends
  <2> QED BY <1>1, <2>1, InsideMeans, ProgramSteps DEF Inside, Sends
<1>4. holder = Nobody => holder.sent = 0
  BY DEF Nobody
<1> QED BY <1>1, <1>2, <1>3, <1>4 DEF Start

\* What is in front of the queue, by its first command.
LEMMA FrontIs ==
  ASSUME SessionsInv, inbox # <<>>
  PROVE  LET cmds == inbox[1].cmds
             what == cmds[1].what
             r == cmds[1].for
         IN
         /\ r \in Rulesets
         /\ what = "catalog" => cmds = One("catalog", r) /\ tx # "failed" /\ session.role = Server
         /\ what = "begin" => cmds = One("begin", r) /\ tx = "none"
         /\ what \in {"create", "commit"} =>
              cmds = One(what, r) /\ tx = "open" /\ session.role = Server
         /\ what \in {"role", "path", "migrate", "reset"} => tx = "open"
         /\ what = "role" => cmds = SqlAsRole(r)
         /\ what = "path" => /\ cmds = <<Cmd("path", r), Cmd("migrate", r), Cmd("reset", r)>>
                             /\ session.role = r
         /\ what = "migrate" => /\ cmds = <<Cmd("migrate", r), Cmd("reset", r)>>
                                /\ session.role = r /\ session.path = r
         /\ what = "reset" => cmds = One("reset", r)
         /\ what = "rollback" => cmds = One("rollback", r)
<1> DEFINE cmds == inbox[1].cmds
<1> USE DEF Cmd, One
<1>1. InFront(cmds)
  BY DEF SessionsInv, FrontInStep
<1>2. ASSUME NEW w, NEW r \in Rulesets, cmds = One(w, r)
      PROVE  cmds[1].what = w /\ cmds[1].for = r
  BY <1>2
<1>3. CASE Alone(cmds, {"catalog"}) /\ tx # "failed" /\ session.role = Server
  BY <1>2, <1>3 DEF Alone
<1>4. CASE Alone(cmds, {"begin"}) /\ tx = "none"
  BY <1>2, <1>4 DEF Alone
<1>5. CASE Alone(cmds, {"create", "commit"}) /\ tx = "open" /\ session.role = Server
  BY <1>2, <1>5 DEF Alone
<1>6. ASSUME tx = "open", NEW r \in Rulesets, cmds = SqlAsRole(r)
      PROVE  cmds[1].what = "role" /\ cmds[1].for = r
  BY <1>6 DEF SqlAsRole
<1>7. ASSUME NEW r \in Rulesets,
             cmds = <<Cmd("path", r), Cmd("migrate", r), Cmd("reset", r)>>
      PROVE  cmds[1].what = "path" /\ cmds[1].for = r
  BY <1>7
<1>8. ASSUME NEW r \in Rulesets, cmds = <<Cmd("migrate", r), Cmd("reset", r)>>
      PROVE  cmds[1].what = "migrate" /\ cmds[1].for = r
  BY <1>8
<1>9. CASE Alone(cmds, {"rollback"})
  BY <1>2, <1>9 DEF Alone
<1>10. CASE tx = "open" /\ \E r \in Rulesets : cmds = SqlAsRole(r)
  BY <1>6, <1>10
<1>11. CASE /\ tx = "open"
            /\ \E r \in Rulesets :
                 /\ cmds = <<Cmd("path", r), Cmd("migrate", r), Cmd("reset", r)>>
                 /\ session.role = r
  <2> HIDE DEF Cmd
  <2> QED BY <1>7, <1>11
<1>12. CASE /\ tx = "open"
            /\ \E r \in Rulesets :
                 /\ cmds = <<Cmd("migrate", r), Cmd("reset", r)>>
                 /\ session.role = r /\ session.path = r
  <2> HIDE DEF Cmd
  <2> QED BY <1>8, <1>12
<1>13. CASE tx = "open" /\ \E r \in Rulesets : cmds = One("reset", r)
  BY <1>2, <1>13
<1> HIDE DEF Cmd, One
<1> QED BY <1>1, <1>3, <1>4, <1>5, <1>9, <1>10, <1>11, <1>12, <1>13 DEF InFront

\* The queue as a sequence, and its messages.
LEMMA QueueIs ==
  ASSUME SessionsInv
  PROVE  /\ inbox \in Seq(Message) /\ Len(inbox) \in Nat
         /\ DOMAIN inbox = 1..Len(inbox)
         /\ inbox # <<>> <=> Len(inbox) > 0
         /\ inbox = <<>> <=> Len(inbox) = 0
BY DEF SessionsInv, SessionsTypeOK, Message

\* A queued message has at least one command.
LEMMA MessageIs ==
  ASSUME SessionsInv, NEW i \in 1..Len(inbox)
  PROVE  /\ inbox[i] \in Message /\ inbox[i].cmds # <<>>
         /\ inbox[i].heard <=> i = Len(inbox) /\ holder.at = "waiting"
<1>1. i \in DOMAIN inbox /\ inbox \in Seq(Message)
  BY DEF SessionsInv, SessionsTypeOK, Message
<1> QED BY <1>1 DEF SessionsInv, SessionsTypeOK

-----------------------------------------------------------------------------
(* The steps of the callers *)

LEMMA InvInit == SessionsInit => SessionsInv
<1> SUFFICES ASSUME SessionsInit PROVE SessionsInv
  OBVIOUS
<1>1. inbox = <<>> /\ DOMAIN inbox = {} /\ holder = Nobody /\ tx = "none"
      /\ session = [role |-> Server, path |-> Server] /\ saved = session
  BY DEF SessionsInit
<1>2. SessionsTypeOK
  BY <1>1 DEF SessionsTypeOK, Settings, Nobody
<1>3. Queued /\ FrontInStep /\ Ended /\ Settled
  BY <1>1 DEF Queued, FrontInStep, Ended, Settled
<1>4. HolderInStep
  BY <1>1 DEF HolderInStep, Nobody
<1> QED BY <1>2, <1>3, <1>4 DEF SessionsInv

LEMMA TakeStep ==
  ASSUME SessionsInv, NEW op \in Ops, NEW r \in Rulesets, Take(op, r)
  PROVE  SessionsInv'
<1>1. /\ holder = Nobody /\ holder' = [op |-> op, for |-> r, sent |-> 0, at |-> "ready"]
      /\ UNCHANGED <<session, saved, tx, inbox>>
  BY DEF Take
<1>2. ~Inside /\ ~Inside'
  BY <1>1, InsideOf DEF SessionsInv, Inside
<1>3. SessionsTypeOK'
  BY <1>1 DEF SessionsInv, SessionsTypeOK, Nobody
<1>4. FrontInStep' /\ Queued' /\ Settled'
  BY <1>1 DEF SessionsInv, FrontInStep, InFront, Queued, Settled
<1>5. Ended'
  BY <1>1, <1>2 DEF SessionsInv, Ended
<1>6. HolderInStep'
  <2>1. Len(Sends') \in Nat
    BY <1>1, ProgramSteps DEF Sends
  <2> QED BY <1>1, <2>1 DEF HolderInStep
<1> QED BY <1>3, <1>4, <1>5, <1>6 DEF SessionsInv

LEMMA GiveBackStep == ASSUME SessionsInv, GiveBack PROVE SessionsInv'
<1>1. /\ holder # Nobody /\ holder.at = "ready" /\ holder.sent = Len(Sends) /\ holder' = Nobody
      /\ UNCHANGED <<session, saved, tx, inbox>>
  BY DEF GiveBack
<1>2. holder.sent > 0
  <2>1. Len(Sends) \in {1, 5, 7} /\ holder.sent \in Nat
    BY <1>1, InsideOf DEF SessionsInv, SessionsTypeOK
  <2>2. holder.sent \in {1, 5, 7}
    BY <1>1, <2>1
  <2> QED BY <2>2
<1>3. ~Inside /\ ~Inside'
  BY <1>1, InsideOf DEF SessionsInv, Inside, Nobody
<1>4. inbox = <<>> /\ tx = "none"
  BY <1>1, <1>2, <1>3 DEF SessionsInv, HolderInStep
<1>5. SessionsTypeOK'
  BY <1>1 DEF SessionsInv, SessionsTypeOK, Nobody
<1>6. FrontInStep' /\ Queued' /\ Settled' /\ Ended'
  BY <1>1, <1>4 DEF SessionsInv, FrontInStep, Queued, Settled, Ended
<1>7. HolderInStep'
  BY <1>1 DEF HolderInStep, Nobody
<1> QED BY <1>5, <1>6, <1>7 DEF SessionsInv

\* Nobody waits for the messages of a caller that has gone.
LEMMA UnheardIs ==
  ASSUME SessionsInv
  PROVE  /\ Unheard \in Seq(Message) /\ Len(Unheard) = Len(inbox)
         /\ DOMAIN Unheard = 1..Len(inbox)
         /\ \A i \in 1..Len(inbox) : Unheard[i] = [cmds |-> inbox[i].cmds, heard |-> FALSE]
<1>1. DOMAIN inbox = 1..Len(inbox) /\ Len(inbox) \in Nat
      /\ \A i \in 1..Len(inbox) : inbox[i] \in Message
  BY QueueIs, MessageIs
<1>2. \A i \in 1..Len(inbox) : Unheard[i] = [cmds |-> inbox[i].cmds, heard |-> FALSE]
  BY <1>1 DEF Unheard, Message
<1>3. Unheard = [i \in 1..Len(inbox) |-> [inbox[i] EXCEPT !.heard = FALSE]]
  BY <1>1 DEF Unheard
<1>4. \A i \in 1..Len(inbox) : [inbox[i] EXCEPT !.heard = FALSE] \in Message
  BY <1>1 DEF Message
<1> QED BY <1>1, <1>2, <1>3, <1>4

LEMMA GoStep == ASSUME SessionsInv, Go PROVE SessionsInv'
<1>1. holder # Nobody /\ holder' = Nobody /\ UNCHANGED <<session, saved, tx>>
  BY DEF Go
<1>2. holder.for \in Rulesets
  BY <1>1 DEF SessionsInv, HolderInStep
<1> DEFINE rollback == [cmds |-> One("rollback", holder.for), heard |-> FALSE]
<1>3. HolderInStep'
  BY <1>1 DEF HolderInStep, Nobody
<1>4. Settled'
  BY <1>1 DEF SessionsInv, Settled
<1>5. rollback \in Message /\ rollback.cmds # <<>> /\ Alone(rollback.cmds, {"rollback"})
  BY <1>2 DEF Message, One, Cmd, Commands, Alone
<1>6. CASE ~Inside
  <2>1. inbox' = Unheard
    BY <1>6 DEF Go
  <2>2. /\ inbox' \in Seq(Message) /\ DOMAIN inbox' = 1..Len(inbox) /\ Len(inbox') = Len(inbox)
        /\ \A i \in 1..Len(inbox) : /\ inbox'[i].cmds = inbox[i].cmds
                                    /\ inbox'[i].heard = FALSE
        /\ inbox' = <<>> <=> inbox = <<>>
    <3>1. inbox' \in Seq(Message) /\ DOMAIN inbox' = 1..Len(inbox) /\ Len(inbox') = Len(inbox)
      BY <2>1, UnheardIs
    <3>2. inbox' = <<>> <=> Len(inbox') = 0
      BY <3>1
    <3>3. inbox = <<>> <=> Len(inbox) = 0
      BY QueueIs
    <3> QED BY <2>1, <3>1, <3>2, <3>3, UnheardIs
  <2>3. SessionsTypeOK'
    <3>1. \A i \in DOMAIN inbox' : inbox'[i].cmds # <<>> /\ inbox'[i].heard = FALSE
      BY <2>2, QueueIs, MessageIs
    <3> QED BY <1>1, <2>2, <3>1 DEF SessionsInv, SessionsTypeOK, Message, Nobody
  <2>4. FrontInStep'
    <3>1. inbox' # <<>> => inbox # <<>> /\ inbox'[1].cmds = inbox[1].cmds
      BY <2>2, QueueIs
    <3> QED BY <1>1, <3>1 DEF SessionsInv, FrontInStep, InFront
  <2>6. Queued'
    BY <1>1, <2>2, QueueIs DEF SessionsInv, Queued
  <2>5. Ended'
    BY <1>1, <1>6, <2>2, QueueIs DEF SessionsInv, Ended
  <2> QED BY <1>3, <1>4, <2>3, <2>4, <2>5, <2>6 DEF SessionsInv
<1>7. CASE Inside
  <2>1. inbox' = Append(Unheard, rollback)
    BY <1>7 DEF Go, One
  <2>2. Len(inbox) <= 1
    <3>1. holder.sent >= 2 /\ holder.sent \in Nat
      BY <1>7, InsideOf DEF SessionsInv, SessionsTypeOK, Start
    <3>2. Len(inbox) \in Nat /\ (inbox = <<>> => Len(inbox) = 0)
      BY QueueIs
    <3> QED BY <3>1, <3>2 DEF SessionsInv, HolderInStep
  <2>3. /\ inbox' \in Seq(Message) /\ Len(inbox') = Len(inbox) + 1
        /\ DOMAIN inbox' = 1..Len(inbox) + 1
        /\ \A i \in 1..Len(inbox) : inbox'[i] = [cmds |-> inbox[i].cmds, heard |-> FALSE]
        /\ inbox'[Len(inbox) + 1] = rollback
        /\ inbox' # <<>>
    <3>1. /\ inbox' \in Seq(Message) /\ Len(inbox') = Len(inbox) + 1 /\ inbox' # <<>>
          /\ \A i \in 1..Len(inbox) : inbox'[i] = Unheard[i]
          /\ inbox'[Len(inbox) + 1] = rollback
      BY <1>5, <2>1, UnheardIs, AppendProperties
    <3>2. Len(inbox) \in Nat
      BY QueueIs
    <3>3. DOMAIN inbox' = 1..Len(inbox')
      BY <3>1
    <3> QED BY <3>1, <3>2, <3>3, UnheardIs
  <2>4. SessionsTypeOK'
    <3>1. \A i \in DOMAIN inbox' : inbox'[i].cmds # <<>> /\ inbox'[i].heard = FALSE
      <4> SUFFICES ASSUME NEW i \in DOMAIN inbox'
                   PROVE  inbox'[i].cmds # <<>> /\ inbox'[i].heard = FALSE
        OBVIOUS
      <4>1. Len(inbox) \in Nat /\ i \in 1..Len(inbox) + 1
        BY <2>3, QueueIs
      <4>2. CASE i \in 1..Len(inbox)
        <5>1. inbox[i].cmds # <<>>
          BY <4>2, MessageIs
        <5>2. inbox'[i] = [cmds |-> inbox[i].cmds, heard |-> FALSE]
          BY <2>3, <4>2
        <5> QED BY <5>1, <5>2
      <4>3. CASE i = Len(inbox) + 1
        BY <1>5, <2>3, <4>3
      <4>4. i \in 1..Len(inbox) \/ i = Len(inbox) + 1
        BY <4>1
      <4> QED BY <4>2, <4>3, <4>4
    <3> QED BY <1>1, <2>3, <3>1 DEF SessionsInv, SessionsTypeOK, Message, Nobody
  <2>5. CASE inbox = <<>>
    <3>1. Len(inbox) = 0 /\ inbox'[1] = rollback /\ Len(inbox') = 1
      BY <2>3, <2>5, QueueIs
    <3>2. inbox'[1].cmds[1].what = "rollback"
      BY <3>1 DEF One, Cmd
    <3>3. FrontInStep' /\ Queued' /\ Ended'
      BY <1>5, <2>3, <3>1, <3>2 DEF FrontInStep, InFront, Queued, Ended
    <3> QED BY <1>3, <1>4, <2>4, <3>3 DEF SessionsInv
  <2>6. CASE inbox # <<>>
    <3>1. Len(inbox) = 1 /\ inbox'[1].cmds = inbox[1].cmds /\ inbox'[2] = rollback
          /\ Len(inbox') = 2
      <4>1. Len(inbox) > 0 /\ Len(inbox) \in Nat
        BY <2>6, QueueIs
      <4>2. Len(inbox) = 1
        BY <2>2, <4>1
      <4> QED BY <2>3, <4>2
    <3>2. FrontInStep'
      BY <1>1, <2>6, <3>1 DEF SessionsInv, FrontInStep, InFront
    <3>3. Queued' /\ Ended'
      BY <1>5, <2>3, <3>1 DEF Queued, Ended
    <3> QED BY <1>3, <1>4, <2>4, <3>2, <3>3 DEF SessionsInv
  <2> QED BY <2>5, <2>6
<1> QED BY <1>6, <1>7

\* What a caller sends next, and what it waits for with it.
LEMMA SendsMessage ==
  ASSUME NEW op \in Ops, NEW r \in Rulesets, NEW k \in Nat, 0 < k, k <= Len(Program(op, r))
  PROVE  LET cmds == Program(op, r)[k] IN
         /\ cmds \in Seq(Commands) /\ cmds # <<>>
         /\ k < Start(op) => cmds = One("catalog", r)
         /\ op # "read" /\ k = Start(op) => cmds = One("begin", r)
         /\ Start(op) < k /\ k < Len(Program(op, r)) =>
              cmds \in {One("catalog", r), One("create", r), SqlAsRole(r)}
         /\ Start(op) < k /\ k = Len(Program(op, r)) => cmds = One("commit", r)
<1>1. /\ \A w \in Work \cup {"begin", "commit"} : One(w, r) \in Seq(Commands) /\ One(w, r) # <<>>
      /\ SqlAsRole(r) \in Seq(Commands) /\ SqlAsRole(r) # <<>>
  BY DEF One, Cmd, Commands, Work, SqlAsRole
<1>2. CASE op = "read"
  <2>1. Len(Program(op, r)) = 1 /\ Program(op, r)[1] = One("catalog", r)
    BY <1>2, ProgramSteps
  <2> QED BY <1>1, <1>2, <2>1 DEF Work, Start
<1>3. CASE op = "apply"
  <2>1. /\ Len(Program(op, r)) = 7
        /\ Program(op, r)[1] = One("catalog", r) /\ Program(op, r)[2] = One("catalog", r)
        /\ Program(op, r)[3] = One("begin", r) /\ Program(op, r)[4] = SqlAsRole(r)
        /\ Program(op, r)[5] = One("catalog", r) /\ Program(op, r)[6] = One("catalog", r)
        /\ Program(op, r)[7] = One("commit", r)
    BY <1>3, ProgramSteps
  <2>2. k \in {1, 2, 3, 4, 5, 6, 7}
    BY <2>1
  <2>s. Start(op) = 3
    BY <1>3 DEF Start
  <2>3. k \in {1, 2} => Program(op, r)[k] = One("catalog", r)
    BY <2>1
  <2>4. k \in {4, 5, 6} => Program(op, r)[k] \in {One("catalog", r), SqlAsRole(r)}
    BY <2>1
  <2> QED BY <1>1, <2>1, <2>2, <2>s, <2>3, <2>4 DEF Work
<1>4. CASE op = "create"
  <2>1. /\ Len(Program(op, r)) = 5
        /\ Program(op, r)[1] = One("catalog", r) /\ Program(op, r)[2] = One("begin", r)
        /\ Program(op, r)[3] = One("create", r) /\ Program(op, r)[4] = SqlAsRole(r)
        /\ Program(op, r)[5] = One("commit", r)
    BY <1>4, ProgramSteps
  <2>2. k \in {1, 2, 3, 4, 5}
    BY <2>1
  <2>s. Start(op) = 2
    BY <1>4 DEF Start
  <2>3. k \in {3, 4} => Program(op, r)[k] \in {One("create", r), SqlAsRole(r)}
    BY <2>1
  <2> QED BY <1>1, <2>1, <2>2, <2>s, <2>3 DEF Work
<1> QED BY <1>2, <1>3, <1>4, ProgramSteps

LEMMA SendStep == ASSUME SessionsInv, Send PROVE SessionsInv'
<1> DEFINE cmds == Sends[holder.sent + 1]
           msg == [cmds |-> cmds, heard |-> TRUE]
           r == holder.for
           start == Start(holder.op)
<1>1. /\ holder # Nobody /\ holder.at = "ready" /\ holder.sent < Len(Sends)
      /\ inbox' = Append(inbox, msg)
      /\ holder' = [holder EXCEPT !.sent = @ + 1, !.at = "waiting"]
      /\ UNCHANGED <<session, saved, tx>>
  BY DEF Send
<1>2. /\ holder.op \in Ops /\ r \in Rulesets /\ holder.sent \in Nat
      /\ Len(Sends) \in {1, 5, 7} /\ start \in {2, 3}
      /\ holder \in [op : Ops, for : Rulesets, sent : 0..7, at : {"ready", "waiting", "failed"}]
  BY <1>1, InsideOf DEF SessionsInv, HolderInStep, SessionsTypeOK, Start
<1>3. /\ holder' \in [op : Ops, for : Rulesets, sent : 0..7, at : {"ready", "waiting", "failed"}]
      /\ holder'.op = holder.op /\ holder'.for = r
      /\ holder'.sent = holder.sent + 1 /\ holder'.at = "waiting"
      /\ holder' # Nobody /\ Sends' = Sends
  <2>1. holder.sent + 1 \in 0..7
    BY <1>1, <1>2
  <2> QED BY <1>1, <1>2, <2>1 DEF Nobody, Sends
<1>4. /\ holder.sent + 1 <= Len(Sends)
      /\ Inside' <=> holder.op # "read" /\ start <= holder.sent + 1 /\ holder.sent + 1 < Len(Sends)
  <2>1. holder.sent + 1 \in Nat /\ holder.sent + 1 <= Len(Program(holder.op, r))
    BY <1>1, <1>2 DEF Sends
  <2>2. (\E i \in 1..holder.sent + 1 : Program(holder.op, r)[i][1].what = "begin")
        <=> holder.op # "read" /\ start <= holder.sent + 1
    BY <1>2, <2>1, InsideMeans
  <2> QED BY <1>3, <2>1, <2>2 DEF Inside, Sends
<1>5. /\ cmds \in Seq(Commands) /\ cmds # <<>> /\ msg \in Message
      /\ holder.sent + 1 < start => cmds = One("catalog", r)
      /\ holder.op # "read" /\ holder.sent + 1 = start => cmds = One("begin", r)
      /\ start < holder.sent + 1 /\ holder.sent + 1 < Len(Sends) =>
           cmds \in {One("catalog", r), One("create", r), SqlAsRole(r)}
      /\ start < holder.sent + 1 /\ holder.sent + 1 = Len(Sends) => cmds = One("commit", r)
  <2>1. holder.sent + 1 \in Nat /\ 0 < holder.sent + 1
        /\ holder.sent + 1 <= Len(Program(holder.op, r))
    BY <1>1, <1>2 DEF Sends
  <2> QED BY <1>2, <2>1, SendsMessage DEF Sends, Message
<1>6. /\ inbox' \in Seq(Message) /\ inbox' # <<>> /\ Len(inbox') = Len(inbox) + 1
      /\ \A i \in 1..Len(inbox) : inbox'[i] = inbox[i]
      /\ inbox'[Len(inbox) + 1] = msg
      /\ DOMAIN inbox' = 1..Len(inbox) + 1
  <2>1. /\ inbox' \in Seq(Message) /\ inbox' # <<>> /\ Len(inbox') = Len(inbox) + 1
        /\ \A i \in 1..Len(inbox) : inbox'[i] = inbox[i]
        /\ inbox'[Len(inbox) + 1] = msg
    BY <1>1, <1>5, QueueIs, AppendProperties
  <2> QED BY <2>1
<1>7. SessionsTypeOK'
  <2>1. ASSUME NEW i \in DOMAIN inbox'
        PROVE  inbox'[i].cmds # <<>> /\ (inbox'[i].heard <=> i = Len(inbox'))
    <3>1. Len(inbox) \in Nat
      BY QueueIs
    <3>2. i \in 1..Len(inbox) \/ i = Len(inbox) + 1
      BY <1>6, <3>1
    <3>3. CASE i \in 1..Len(inbox)
      <4>1. inbox[i].cmds # <<>> /\ ~inbox[i].heard
        BY <1>1, <3>3, MessageIs
      <4>2. inbox'[i] = inbox[i] /\ i # Len(inbox')
        BY <1>6, <3>1, <3>3
      <4> QED BY <4>1, <4>2
    <3>4. CASE i = Len(inbox) + 1
      BY <1>5, <1>6, <3>4
    <3> QED BY <3>2, <3>3, <3>4
  <2> QED BY <1>1, <1>3, <1>6, <2>1 DEF SessionsInv, SessionsTypeOK, Message
<1>8. Settled'
  BY <1>1 DEF SessionsInv, Settled
<1>9. CASE holder.sent = 0
  <2>1. cmds = One("catalog", r) /\ cmds[1].what = "catalog" /\ Alone(cmds, {"catalog"})
    BY <1>2, <1>5, <1>9 DEF One, Cmd, Alone
  <2>2. ~Inside /\ ~Inside'
    BY <1>2, <1>4, <1>9, InsideOf DEF SessionsInv
  <2>3. CASE inbox = <<>>
    <3>1. Len(inbox') = 1 /\ inbox'[1] = msg /\ tx = "none" /\ DOMAIN inbox' = {1}
      BY <1>6, <2>2, <2>3, QueueIs DEF SessionsInv, Ended
    <3>2. session.role = Server
      BY <3>1 DEF SessionsInv, Settled
    <3>3. FrontInStep' /\ Queued' /\ Ended'
      BY <1>1, <2>1, <3>1, <3>2 DEF FrontInStep, InFront, Queued, Ended
    <3>4. OwnMessage(inbox[Len(inbox)].cmds)'
      BY <1>1, <1>3, <1>9, <2>1, <2>2, <3>1 DEF OwnMessage
    <3>5. HolderInStep'
      BY <1>3, <1>4, <1>2, <1>6, <1>9, <3>1, <3>4 DEF HolderInStep
    <3> QED BY <1>7, <1>8, <3>3, <3>5 DEF SessionsInv
  <2>4. CASE inbox # <<>>
    <3>1. Len(inbox) \in Nat /\ Len(inbox) > 0
      BY <2>4, QueueIs
    <3>2. Len(inbox') > 1 /\ inbox'[1] = inbox[1] /\ inbox'[Len(inbox')] = msg
      BY <1>6, <3>1
    <3>3. FrontInStep'
      BY <1>1, <2>4, <3>2 DEF SessionsInv, FrontInStep, InFront
    <3>4. Queued'
      <4> SUFFICES ASSUME NEW i \in DOMAIN inbox', i > 1
                   PROVE  \/ Alone(inbox'[i].cmds, {"catalog"})
                          \/ i = 2 /\ Alone(inbox'[i].cmds, {"rollback"})
        BY DEF Queued
      <4>1. i \in 1..Len(inbox) \/ i = Len(inbox) + 1
        BY <1>6, <3>1
      <4>2. CASE i \in 1..Len(inbox)
        BY <1>6, <4>2, QueueIs DEF SessionsInv, Queued
      <4>3. CASE i = Len(inbox) + 1
        BY <1>6, <2>1, <4>3
      <4> QED BY <4>1, <4>2, <4>3
    <3>5. Ended'
      <4>1. Len(inbox) > 1 => inbox'[2] = inbox[2]
        BY <1>6, <3>1
      <4> QED BY <1>1, <1>6, <2>2, <2>4, <3>2, <4>1 DEF SessionsInv, Ended
    <3>6. OwnMessage(inbox[Len(inbox)].cmds)'
      BY <1>3, <1>9, <2>1, <2>2, <3>2 DEF OwnMessage
    <3>7. HolderInStep'
      BY <1>2, <1>3, <1>4, <1>6, <1>9, <3>2, <3>6 DEF HolderInStep
    <3> QED BY <1>7, <1>8, <3>3, <3>4, <3>5, <3>7 DEF SessionsInv
  <2> QED BY <2>3, <2>4
<1>10. CASE holder.sent > 0
  <2>1. inbox = <<>> /\ session.role = Server /\ tx = IF Inside THEN "open" ELSE "none"
    BY <1>1, <1>10 DEF SessionsInv, HolderInStep
  <2>2. Len(inbox') = 1 /\ inbox'[1] = msg /\ inbox'[1].cmds = cmds /\ DOMAIN inbox' = {1}
    BY <1>6, <2>1, QueueIs
  <2>3. holder.op # "read" /\ Len(Sends) > 4
    BY <1>1, <1>2, <1>10, InsideMeans, ProgramSteps DEF Sends
  <2>4. Inside <=> start <= holder.sent
    BY <1>1, <1>2, <2>3, InsideOf DEF SessionsInv
  <2>5. Inside' <=> start <= holder.sent + 1 /\ holder.sent + 1 < Len(Sends)
    BY <1>2, <1>4, <1>10, <2>3
  <2>6. \/ holder.sent + 1 < start \/ holder.sent + 1 = start
        \/ (start < holder.sent + 1 /\ holder.sent + 1 < Len(Sends))
        \/ (start < holder.sent + 1 /\ holder.sent + 1 = Len(Sends))
    BY <1>1, <1>2, <1>4, <1>10
  <2>7. InFront(inbox[1].cmds)' /\ OwnMessage(inbox[1].cmds)'
        /\ (tx # "none" \/ cmds[1].what = "begin" => cmds[1].what = "commit" \/ Inside')
    <3>0. CASE holder.sent + 1 < start
      <4>1. cmds = One("catalog", r) /\ cmds[1].what = "catalog" /\ Alone(cmds, {"catalog"})
        BY <1>2, <1>5, <3>0 DEF One, Cmd, Alone
      <4>2. tx = "none" /\ ~Inside'
        BY <1>2, <2>1, <2>4, <2>5, <3>0
      <4> QED BY <1>1, <2>1, <2>2, <4>1, <4>2 DEF InFront, OwnMessage
    <3>1. CASE holder.sent + 1 = start
      <4>1. cmds = One("begin", r) /\ cmds[1].what = "begin" /\ Alone(cmds, {"begin"})
        BY <1>2, <1>5, <2>3, <3>1 DEF One, Cmd, Alone
      <4>2. tx = "none" /\ Inside'
        BY <1>2, <2>1, <2>3, <2>4, <2>5, <3>1
      <4> QED BY <1>1, <2>2, <4>1, <4>2 DEF InFront, OwnMessage
    <3>2. CASE start < holder.sent + 1 /\ holder.sent + 1 < Len(Sends)
      <4>1. tx = "open" /\ Inside'
        BY <1>2, <2>1, <2>4, <2>5, <3>2
      <4>2. cmds \in {One("catalog", r), One("create", r), SqlAsRole(r)}
        BY <1>5, <3>2
      <4>3. cmds[1].what \in {"catalog", "create", "role"}
        BY <4>2 DEF One, Cmd, SqlAsRole
      <4>4. Alone(cmds, {"catalog"}) \/ Alone(cmds, {"create", "commit"}) \/ cmds = SqlAsRole(r)
        BY <1>2, <4>2 DEF Alone
      <4> QED BY <1>1, <2>2, <1>2, <2>1, <4>1, <4>3, <4>4 DEF InFront, OwnMessage
    <3>3. CASE start < holder.sent + 1 /\ holder.sent + 1 = Len(Sends)
      <4>1. cmds = One("commit", r) /\ cmds[1].what = "commit"
            /\ Alone(cmds, {"create", "commit"})
        BY <1>2, <1>5, <3>3 DEF One, Cmd, Alone
      <4>2. tx = "open" /\ ~Inside'
        BY <1>2, <2>1, <2>4, <2>5, <3>3
      <4> QED BY <1>1, <2>2, <2>1, <4>1, <4>2 DEF InFront, OwnMessage
    <3> QED BY <2>6, <3>0, <3>1, <3>2, <3>3
  <2>8. FrontInStep' /\ Queued'
    BY <2>2, <2>7 DEF FrontInStep, Queued
  <2>9. Ended'
    BY <1>1, <1>6, <2>2, <2>7 DEF Ended
  <2>10. HolderInStep'
    <3>1. inbox' # <<>> /\ OwnMessage(inbox[Len(inbox)].cmds)' /\ Len(inbox') = 1
      BY <1>6, <2>2, <2>7
    <3>2. holder'.sent # 0 /\ holder'.sent <= Len(Sends')
      BY <1>2, <1>3, <1>4
    <3>3. ~(Len(inbox') > 1)
      BY <3>1
    <3> QED BY <1>2, <1>3, <3>1, <3>2, <3>3 DEF HolderInStep
  <2> QED BY <1>7, <1>8, <2>8, <2>9, <2>10 DEF SessionsInv
<1> QED BY <1>2, <1>9, <1>10

-----------------------------------------------------------------------------
(* The steps of the server *)

\* The queue behind a message that is answered.
LEMMA Popped ==
  ASSUME SessionsInv, inbox # <<>>, inbox' = Tail(inbox)
  PROVE  /\ inbox' \in Seq(Message) /\ Len(inbox') \in Nat /\ Len(inbox') = Len(inbox) - 1
         /\ DOMAIN inbox' = 1..Len(inbox')
         /\ inbox' = <<>> <=> Len(inbox) = 1
         /\ Len(inbox) \in Nat /\ Len(inbox) > 0
         /\ \A i \in 1..Len(inbox') : i + 1 \in 1..Len(inbox) /\ inbox'[i] = inbox[i + 1]
<1>1. inbox \in Seq(Message) /\ Len(inbox) \in Nat /\ Len(inbox) > 0
  BY QueueIs
<1>2. /\ inbox' \in Seq(Message) /\ Len(inbox') = Len(inbox) - 1
      /\ \A i \in 1..Len(inbox') : inbox'[i] = inbox[i + 1]
  BY <1>1, HeadTailProperties
<1>3. Len(inbox') \in Nat /\ DOMAIN inbox' = 1..Len(inbox') /\ (inbox' = <<>> <=> Len(inbox') = 0)
  BY <1>2
<1> QED BY <1>1, <1>2, <1>3

\* A message that is answered leaves the session to whoever is next: what is
\* asked of the step is that it ends the transaction, or that somebody does.
LEMMA PopKeeps ==
  ASSUME SessionsInv, inbox # <<>>, inbox' = Tail(inbox),
         NEW at \in {"ready", "failed"}, Answers(at),
         session' \in Settings, saved' \in Settings, tx' \in {"none", "open", "failed"},
         Settled',
         tx' # "none" => \/ Len(inbox) > 1 /\ Alone(inbox[2].cmds, {"rollback"})
                         \/ Len(inbox) = 1 /\ inbox[1].heard /\ Inside,
         inbox[1].heard /\ at = "ready" =>
           session'.role = Server /\ tx' = IF Inside THEN "open" ELSE "none"
  PROVE  SessionsInv'
<1>1. /\ inbox' \in Seq(Message) /\ Len(inbox') \in Nat /\ Len(inbox') = Len(inbox) - 1
      /\ DOMAIN inbox' = 1..Len(inbox')
      /\ inbox' = <<>> <=> Len(inbox) = 1
      /\ Len(inbox) \in Nat /\ Len(inbox) > 0
      /\ \A i \in 1..Len(inbox') : i + 1 \in 1..Len(inbox) /\ inbox'[i] = inbox[i + 1]
  BY Popped
<1>2. inbox[1].heard <=> Len(inbox) = 1 /\ holder.at = "waiting"
  <2>1. 1 \in 1..Len(inbox)
    BY <1>1
  <2> QED BY <2>1, MessageIs
<1>3. holder' = IF inbox[1].heard THEN [holder EXCEPT !.at = at] ELSE holder
  BY DEF Answers
<1>4. holder \in [op : Ops \cup {NoOp}, for : Rulesets \cup {Server}, sent : 0..7,
                  at : {"ready", "waiting", "failed"}]
  BY DEF SessionsInv, SessionsTypeOK
<1>5. /\ holder' \in [op : Ops \cup {NoOp}, for : Rulesets \cup {Server}, sent : 0..7,
                      at : {"ready", "waiting", "failed"}]
      /\ holder'.op = holder.op /\ holder'.for = holder.for /\ holder'.sent = holder.sent
      /\ holder'.at = IF inbox[1].heard THEN at ELSE holder.at
  BY <1>3, <1>4
<1>6. Inside' = Inside /\ Sends' = Sends
  BY <1>5 DEF Inside, Sends
<1>7. SessionsTypeOK'
  <2>1. ASSUME NEW i \in DOMAIN inbox'
        PROVE  /\ inbox'[i].cmds # <<>>
               /\ inbox'[i].heard <=> i = Len(inbox') /\ holder'.at = "waiting"
    <3>1. i + 1 \in 1..Len(inbox) /\ inbox'[i] = inbox[i + 1] /\ Len(inbox) # 1
      BY <1>1
    <3>2. /\ inbox'[i].cmds # <<>>
          /\ inbox'[i].heard <=> i + 1 = Len(inbox) /\ holder.at = "waiting"
      BY <3>1, MessageIs
    <3>3. holder'.at = holder.at
      BY <1>2, <1>5, <3>1
    <3>4. i + 1 = Len(inbox) <=> i = Len(inbox')
      BY <1>1
    <3> QED BY <3>2, <3>3, <3>4
  <2> QED BY <1>1, <1>5, <2>1 DEF SessionsTypeOK, Message
<1>8. ASSUME Len(inbox) > 1
      PROVE  /\ inbox'[1] = inbox[2]
             /\ Alone(inbox[2].cmds, {"catalog"}) \/ Alone(inbox[2].cmds, {"rollback"})
             /\ Alone(inbox[2].cmds, {"catalog"}) => inbox[2].cmds[1].what = "catalog"
             /\ Alone(inbox[2].cmds, {"rollback"}) => inbox[2].cmds[1].what = "rollback"
  <2>1. 1 \in 1..Len(inbox') /\ 2 \in DOMAIN inbox
    BY <1>1, <1>8, QueueIs
  <2>2. inbox'[1] = inbox[2]
    BY <1>1, <2>1
  <2>3. Alone(inbox[2].cmds, {"catalog"}) \/ Alone(inbox[2].cmds, {"rollback"})
    BY <2>1 DEF SessionsInv, Queued
  <2>4. \A w \in {"catalog", "rollback"} :
          Alone(inbox[2].cmds, {w}) => inbox[2].cmds[1].what = w
    BY DEF Alone, One, Cmd
  <2> QED BY <2>2, <2>3, <2>4
<1>9. FrontInStep'
  <2>1. CASE Len(inbox) = 1
    BY <1>1, <2>1 DEF FrontInStep
  <2>2. CASE Len(inbox) > 1
    <3>1. CASE Alone(inbox[2].cmds, {"catalog"})
      <4>1. tx' = "none"
        BY <1>8, <2>2, <3>1
      <4>2. session'.role = Server
        BY <4>1 DEF Settled
      <4> QED BY <1>8, <2>2, <3>1, <4>1, <4>2 DEF FrontInStep, InFront
    <3>2. CASE Alone(inbox[2].cmds, {"rollback"})
      BY <1>8, <2>2, <3>2 DEF FrontInStep, InFront
    <3> QED BY <1>8, <2>2, <3>1, <3>2
  <2> QED BY <1>1, <2>1, <2>2
<1>10. Queued'
  <2> SUFFICES ASSUME NEW i \in DOMAIN inbox', i > 1
               PROVE  Alone(inbox'[i].cmds, {"catalog"})
    BY DEF Queued
  <2>1. i + 1 \in DOMAIN inbox /\ i + 1 > 2 /\ inbox'[i] = inbox[i + 1]
    BY <1>1, QueueIs
  <2> QED BY <2>1 DEF SessionsInv, Queued
<1>11. Ended'
  <2>1. CASE Len(inbox) = 1
    BY <1>1, <1>6, <2>1 DEF Ended
  <2>2. CASE Len(inbox) > 1
    <3>1. tx' # "none" => Alone(inbox[2].cmds, {"rollback"})
      BY <2>2
    <3> QED BY <1>1, <1>8, <2>2, <3>1 DEF Ended
  <2> QED BY <1>1, <2>1, <2>2
<1>12. HolderInStep'
  <2>1. CASE inbox[1].heard
    <3>1. inbox' = <<>> /\ holder'.at = at
      BY <1>1, <1>2, <1>5, <2>1
    <3>2. holder.sent # 0 /\ holder # Nobody
      BY <1>2, <2>1 DEF SessionsInv, HolderInStep, Nobody
    <3>3. holder.op \in Ops /\ holder.for \in Rulesets /\ holder.sent <= Len(Sends)
      BY <3>2 DEF SessionsInv, HolderInStep
    <3> QED BY <1>5, <1>6, <2>1, <3>1, <3>2, <3>3 DEF HolderInStep
  <2>2. CASE ~inbox[1].heard
    <3>1. holder' = holder
      BY <1>3, <2>2
    <3>2. holder.at # "waiting" => holder.sent = 0
      BY <1>4 DEF SessionsInv, HolderInStep
    <3>3. ASSUME holder.at = "waiting"
          PROVE  /\ inbox' # <<>> /\ OwnMessage(inbox[Len(inbox)].cmds)'
                 /\ holder.sent = 1
      <4>1. Len(inbox) > 1 /\ inbox' # <<>>
        BY <1>1, <1>2, <2>2, <3>3
      <4>2. holder.sent = 1 /\ OwnMessage(inbox[Len(inbox)].cmds)
        BY <3>3, <4>1 DEF SessionsInv, HolderInStep
      <4>3. inbox'[Len(inbox')] = inbox[Len(inbox)]
        BY <1>1, <4>1
      <4>4. ~Inside
        BY <4>2, InsideOf DEF SessionsInv
      <4>5. ASSUME inbox[Len(inbox)].cmds[1].what = "catalog", Len(inbox') = 1
            PROVE  tx' = "none"
        <5>1. Len(inbox) = 2
          <6>1. Len(inbox') = Len(inbox) - 1 /\ Len(inbox) \in Nat
            BY <1>1
          <6> QED BY <4>5, <6>1
        <5>2. ~Alone(inbox[2].cmds, {"rollback"})
          BY <1>8, <4>1, <4>5, <5>1
        <5> QED BY <5>1, <5>2
      <4> QED BY <1>6, <3>1, <4>1, <4>2, <4>3, <4>4, <4>5 DEF OwnMessage
    <3> QED BY <1>4, <1>6, <3>1, <3>2, <3>3 DEF SessionsInv, HolderInStep
  <2> QED BY <2>1, <2>2
<1> QED BY <1>7, <1>9, <1>10, <1>11, <1>12 DEF SessionsInv

\* The next command of a migration: the messages stay the same otherwise.
LEMMA AdvanceKeeps ==
  ASSUME SessionsInv, inbox # <<>>, NEW cmds \in Seq(Commands), cmds # <<>>,
         inbox' = [inbox EXCEPT ![1].cmds = cmds],
         inbox[1].cmds[1].what \in {"role", "path", "migrate"},
         cmds[1].what \in {"path", "migrate", "reset"},
         session' \in Settings, UNCHANGED <<holder, saved, tx>>,
         InFront(cmds)' 
  PROVE  SessionsInv'
<1>1. /\ inbox \in Seq(Message) /\ Len(inbox) \in Nat /\ Len(inbox) > 0
      /\ DOMAIN inbox = 1..Len(inbox)
  BY QueueIs
<1>2. 1 \in 1..Len(inbox)
  BY <1>1
<1>3. inbox[1] \in Message
  BY <1>1, <1>2
<1>4. /\ inbox' \in Seq(Message) /\ Len(inbox') = Len(inbox) /\ DOMAIN inbox' = 1..Len(inbox)
      /\ inbox' # <<>>
      /\ inbox'[1] = [cmds |-> cmds, heard |-> inbox[1].heard]
      /\ \A i \in 1..Len(inbox) : i # 1 => inbox'[i] = inbox[i]
  <2> DEFINE m == [cmds |-> cmds, heard |-> inbox[1].heard]
  <2>1. m \in Message
    BY <1>3 DEF Message
  <2>2. inbox' = [inbox EXCEPT ![1] = m]
    <3>1. [inbox[1] EXCEPT !.cmds = cmds] = m
      BY <1>3 DEF Message
    <3> QED BY <3>1
  <2>3. /\ inbox' \in Seq(Message) /\ Len(inbox') = Len(inbox)
        /\ \A j \in 1..Len(inbox) : inbox'[j] = IF j = 1 THEN m ELSE inbox[j]
    BY <1>1, <1>2, <2>1, <2>2, ExceptSeq
  <2> QED BY <1>1, <1>2, <2>3
<1>5. tx = "open" /\ tx' = "open"
  BY FrontIs
<1>6. Inside' = Inside /\ Sends' = Sends
  BY DEF Inside, Sends
<1>7. SessionsTypeOK'
  <2>1. ASSUME NEW i \in DOMAIN inbox'
        PROVE  /\ inbox'[i].cmds # <<>>
               /\ inbox'[i].heard <=> i = Len(inbox') /\ holder.at = "waiting"
    <3>1. i \in 1..Len(inbox) /\ Len(inbox') = Len(inbox)
      BY <1>4
    <3>2. inbox'[i].heard = inbox[i].heard /\ inbox'[i].cmds # <<>>
      BY <1>4, <3>1, MessageIs
    <3> QED BY <3>1, <3>2, MessageIs
  <2> QED BY <1>4, <2>1 DEF SessionsInv, SessionsTypeOK, Message
<1>8. FrontInStep'
  BY <1>4 DEF FrontInStep
<1>9. Queued'
  <2> SUFFICES ASSUME NEW i \in DOMAIN inbox', i > 1
               PROVE  \/ Alone(inbox'[i].cmds, {"catalog"})
                      \/ i = 2 /\ Alone(inbox'[i].cmds, {"rollback"})
    BY DEF Queued
  <2>1. i \in DOMAIN inbox /\ i # 1
    BY <1>1, <1>4
  <2>2. inbox'[i] = inbox[i]
    BY <1>1, <1>4, <2>1
  <2> QED BY <2>1, <2>2 DEF SessionsInv, Queued
<1>10. Ended'
  <2>1. \/ Len(inbox) > 1 /\ Alone(inbox[2].cmds, {"rollback"})
        \/ Len(inbox) = 1 /\ inbox[1].heard /\ Inside
    BY <1>5 DEF SessionsInv, Ended
  <2>2. Len(inbox) > 1 => inbox'[2] = inbox[2]
    BY <1>1, <1>4
  <2> QED BY <1>4, <1>6, <2>1, <2>2 DEF Ended
<1>11. HolderInStep'
  <2>1. ASSUME holder.at = "waiting"
        PROVE  OwnMessage(inbox[Len(inbox)].cmds)'
    <3>1. OwnMessage(inbox[Len(inbox)].cmds)
      BY <2>1 DEF SessionsInv, HolderInStep
    <3>2. CASE Len(inbox) = 1
      <4>1. inbox[Len(inbox)].cmds[1].what \in {"role", "path", "migrate"}
        BY <3>2
      <4>2. Inside
        BY <3>1, <4>1 DEF OwnMessage
      <4>3. inbox'[Len(inbox')].cmds = cmds
        BY <1>4, <3>2
      <4> QED BY <1>6, <4>2, <4>3 DEF OwnMessage
    <3>3. CASE Len(inbox) # 1
      <4>1. inbox'[Len(inbox')] = inbox[Len(inbox)]
        BY <1>1, <1>4, <3>3
      <4> QED BY <1>4, <1>6, <3>1, <3>3, <4>1 DEF OwnMessage
    <3> QED BY <3>2, <3>3
  <2>2. holder.at # "waiting" => holder.sent = 0
    BY DEF SessionsInv, HolderInStep, SessionsTypeOK
  <2> QED BY <1>4, <1>6, <2>1, <2>2 DEF SessionsInv, HolderInStep
<1>12. Settled'
  BY <1>5 DEF SessionsInv, Settled
<1> QED BY <1>7, <1>8, <1>9, <1>10, <1>11, <1>12 DEF SessionsInv

\* Whose the message in front is, when it has an answer.
LEMMA HeardIs ==
  ASSUME SessionsInv, inbox # <<>>, inbox[1].heard
  PROVE  Len(inbox) = 1 /\ OwnMessage(inbox[1].cmds)
<1>1. Len(inbox) \in Nat /\ Len(inbox) > 0
  BY QueueIs
<1>2. 1 \in 1..Len(inbox)
  BY <1>1
<1>3. 1 = Len(inbox) /\ holder.at = "waiting"
  BY <1>2, MessageIs
<1> QED BY <1>3 DEF SessionsInv, HolderInStep

LEMMA BeginsStep == ASSUME SessionsInv, Begins PROVE SessionsInv'
<1>1. inbox # <<>> /\ inbox[1].cmds[1].what = "begin"
  BY DEF Begins, Executes
<1>2. inbox[1].cmds = One("begin", inbox[1].cmds[1].for) /\ tx = "none"
  BY <1>1, FrontIs
<1>3. Len(inbox[1].cmds) = 1
  BY <1>2 DEF One
<1>4. /\ inbox' = Tail(inbox) /\ Answers("ready")
      /\ tx' = "open" /\ saved' = session /\ session' = session
  BY <1>2, <1>3 DEF Begins, Succeeds
<1>5. session.role = Server /\ session \in Settings
  BY <1>2 DEF SessionsInv, Settled, SessionsTypeOK
<1>6. \/ Len(inbox) > 1 /\ Alone(inbox[2].cmds, {"rollback"})
      \/ Len(inbox) = 1 /\ inbox[1].heard /\ Inside
  BY <1>1 DEF SessionsInv, Ended
<1>7. inbox[1].heard => Inside
  BY <1>1, HeardIs DEF OwnMessage
<1>8. Settled'
  BY <1>4, <1>5 DEF Settled
<1> QED BY <1>1, <1>4, <1>5, <1>6, <1>7, <1>8, PopKeeps

\* What is left of a migration.
LEMMA Rests ==
  ASSUME NEW r \in Rulesets
  PROVE  /\ <<Cmd("path", r), Cmd("migrate", r), Cmd("reset", r)>> \in Seq(Commands) \ {<<>>}
         /\ <<Cmd("migrate", r), Cmd("reset", r)>> \in Seq(Commands) \ {<<>>}
         /\ <<Cmd("reset", r)>> \in Seq(Commands) \ {<<>>}
         /\ \A w : Cmd(w, r).what = w
<1>1. \A w \in {"path", "migrate", "reset"} : Cmd(w, r) \in Commands
  BY DEF Cmd, Commands, Work
<1> QED BY <1>1 DEF Cmd

\* A command of a migration is left behind, or the last of them.
LEMMA Following ==
  ASSUME NEW r \in Rulesets, inbox # <<>>, Succeeds
  PROVE  /\ inbox[1].cmds = SqlAsRole(r) =>
              /\ inbox' = [inbox EXCEPT ![1].cmds =
                             <<Cmd("path", r), Cmd("migrate", r), Cmd("reset", r)>>]
              /\ holder' = holder
         /\ inbox[1].cmds = <<Cmd("path", r), Cmd("migrate", r), Cmd("reset", r)>> =>
              /\ inbox' = [inbox EXCEPT ![1].cmds = <<Cmd("migrate", r), Cmd("reset", r)>>]
              /\ holder' = holder
         /\ inbox[1].cmds = <<Cmd("migrate", r), Cmd("reset", r)>> =>
              inbox' = [inbox EXCEPT ![1].cmds = <<Cmd("reset", r)>>] /\ holder' = holder
         /\ \A w : inbox[1].cmds = One(w, r) => inbox' = Tail(inbox) /\ Answers("ready")
<1>1. \A a, b, c, d : /\ Len(<<a, b, c, d>>) > 1 /\ Tail(<<a, b, c, d>>) = <<b, c, d>>
                      /\ Len(<<b, c, d>>) > 1 /\ Tail(<<b, c, d>>) = <<c, d>>
                      /\ Len(<<c, d>>) > 1 /\ Tail(<<c, d>>) = <<d>>
                      /\ ~(Len(<<d>>) > 1)
  OBVIOUS
<1>2. Len(inbox[1].cmds) > 1 =>
        inbox' = [inbox EXCEPT ![1].cmds = Tail(inbox[1].cmds)] /\ holder' = holder
  BY DEF Succeeds
<1>3. ~(Len(inbox[1].cmds) > 1) => inbox' = Tail(inbox) /\ Answers("ready")
  BY DEF Succeeds
<1>4. ASSUME inbox[1].cmds = SqlAsRole(r)
      PROVE  /\ Len(inbox[1].cmds) > 1
             /\ Tail(inbox[1].cmds) = <<Cmd("path", r), Cmd("migrate", r), Cmd("reset", r)>>
  BY <1>1, <1>4 DEF SqlAsRole
<1>5. ASSUME inbox[1].cmds = <<Cmd("path", r), Cmd("migrate", r), Cmd("reset", r)>>
      PROVE  /\ Len(inbox[1].cmds) > 1
             /\ Tail(inbox[1].cmds) = <<Cmd("migrate", r), Cmd("reset", r)>>
  BY <1>1, <1>5
<1>6. ASSUME inbox[1].cmds = <<Cmd("migrate", r), Cmd("reset", r)>>
      PROVE  Len(inbox[1].cmds) > 1 /\ Tail(inbox[1].cmds) = <<Cmd("reset", r)>>
  BY <1>1, <1>6
<1>7. ASSUME NEW w, inbox[1].cmds = One(w, r) PROVE ~(Len(inbox[1].cmds) > 1)
  BY <1>1, <1>7 DEF One
<1> QED BY <1>2, <1>3, <1>4, <1>5, <1>6, <1>7

LEMMA SetsStep == ASSUME SessionsInv, Sets PROVE SessionsInv'
<1> DEFINE what == inbox[1].cmds[1].what
<1>1. inbox # <<>> /\ what \in {"role", "path", "reset"} /\ saved' = saved /\ tx' = tx
      /\ Succeeds
  BY DEF Sets, Executes
<1>2. /\ inbox[1].cmds[1].for \in Rulesets /\ tx = "open"
      /\ session \in Settings /\ saved \in Settings /\ saved.role = Server
  BY <1>1, FrontIs DEF SessionsInv, SessionsTypeOK, Settled
<1>3. PICK r \in Rulesets : r = inbox[1].cmds[1].for
  BY <1>2
<1>4. CASE what = "role"
  <2> DEFINE rest == <<Cmd("path", r), Cmd("migrate", r), Cmd("reset", r)>>
  <2>1. inbox[1].cmds = SqlAsRole(r) /\ session' = [session EXCEPT !.role = r]
    BY <1>1, <1>3, <1>4, FrontIs DEF Sets, Executes
  <2>2. inbox' = [inbox EXCEPT ![1].cmds = rest] /\ holder' = holder
    BY <1>1, <2>1, Following
  <2>3. session' \in Settings /\ session'.role = r
    BY <1>2, <2>1 DEF Settings
  <2>4. rest \in Seq(Commands) /\ rest # <<>> /\ rest[1].what = "path"
    BY Rests
  <2>5. InFront(rest)'
    BY <1>1, <1>2, <2>3 DEF InFront
  <2> HIDE DEF rest
  <2> QED BY <1>1, <1>4, <2>2, <2>3, <2>4, <2>5, AdvanceKeeps
<1>5. CASE what = "path"
  <2> DEFINE rest == <<Cmd("migrate", r), Cmd("reset", r)>>
  <2>1. /\ inbox[1].cmds = <<Cmd("path", r), Cmd("migrate", r), Cmd("reset", r)>>
        /\ session' = [session EXCEPT !.path = r] /\ session.role = r
    BY <1>1, <1>3, <1>5, FrontIs DEF Sets, Executes
  <2>2. inbox' = [inbox EXCEPT ![1].cmds = rest] /\ holder' = holder
    BY <1>1, <2>1, Following
  <2>3. session' \in Settings /\ session'.role = r /\ session'.path = r
    BY <1>2, <2>1 DEF Settings
  <2>4. rest \in Seq(Commands) /\ rest # <<>> /\ rest[1].what = "migrate"
    BY Rests
  <2>5. InFront(rest)'
    BY <1>1, <1>2, <2>3 DEF InFront
  <2> HIDE DEF rest
  <2> QED BY <1>1, <1>5, <2>2, <2>3, <2>4, <2>5, AdvanceKeeps
<1>6. CASE what = "reset"
  <2>1. inbox[1].cmds = One("reset", r) /\ session' = [session EXCEPT !.role = Server]
    BY <1>1, <1>3, <1>6, FrontIs DEF Sets, Executes
  <2>2. inbox' = Tail(inbox) /\ Answers("ready")
    BY <1>1, <2>1, Following
  <2>3. session' \in Settings /\ session'.role = Server
    BY <1>2, <2>1 DEF Settings
  <2>4. \/ Len(inbox) > 1 /\ Alone(inbox[2].cmds, {"rollback"})
        \/ Len(inbox) = 1 /\ inbox[1].heard /\ Inside
    BY <1>1, <1>2, <1>6 DEF SessionsInv, Ended
  <2>5. inbox[1].heard => Inside
    BY <1>1, <1>6, HeardIs DEF OwnMessage
  <2>6. Settled'
    BY <1>1, <1>2, <2>3 DEF Settled
  <2> QED BY <1>1, <1>2, <2>2, <2>3, <2>4, <2>5, <2>6, PopKeeps
<1> QED BY <1>1, <1>4, <1>5, <1>6

LEMMA WorksStep == ASSUME SessionsInv, Works PROVE SessionsInv'
<1> DEFINE what == inbox[1].cmds[1].what
<1>1. inbox # <<>> /\ what \in Work /\ tx # "failed" /\ Succeeds
      /\ UNCHANGED <<session, saved, tx>>
  BY DEF Works, Executes
<1>2. /\ inbox[1].cmds[1].for \in Rulesets /\ Settled'
      /\ session \in Settings /\ saved \in Settings /\ tx \in {"none", "open", "failed"}
  BY <1>1, FrontIs DEF SessionsInv, SessionsTypeOK, Settled
<1>3. PICK r \in Rulesets : r = inbox[1].cmds[1].for
  BY <1>2
<1>4. CASE what \in {"catalog", "create"}
  <2>1. inbox[1].cmds = One(what, r) /\ session.role = Server
    BY <1>1, <1>3, <1>4, FrontIs
  <2>2. inbox' = Tail(inbox) /\ Answers("ready")
    BY <1>1, <2>1, Following
  <2>3. tx # "none" => \/ Len(inbox) > 1 /\ Alone(inbox[2].cmds, {"rollback"})
                       \/ Len(inbox) = 1 /\ inbox[1].heard /\ Inside
    BY <1>1, <1>4 DEF SessionsInv, Ended
  <2>4. inbox[1].heard => tx = IF Inside THEN "open" ELSE "none"
    <3>1. what = "create" => tx = "open"
      BY <1>1, FrontIs
    <3> QED BY <1>1, <1>4, <3>1, HeardIs, InsideOf DEF SessionsInv, OwnMessage
  <2> QED BY <1>1, <1>2, <2>1, <2>2, <2>3, <2>4, PopKeeps
<1>5. CASE what = "migrate"
  <2> DEFINE rest == <<Cmd("reset", r)>>
  <2>1. inbox[1].cmds = <<Cmd("migrate", r), Cmd("reset", r)>> /\ tx = "open"
    BY <1>1, <1>3, <1>5, FrontIs
  <2>2. inbox' = [inbox EXCEPT ![1].cmds = rest] /\ holder' = holder
    BY <1>1, <2>1, Following
  <2>3. rest \in Seq(Commands) /\ rest # <<>> /\ rest[1].what = "reset"
    BY Rests
  <2>4. InFront(rest)'
    BY <1>1, <2>1 DEF InFront, One
  <2> HIDE DEF rest
  <2> QED BY <1>1, <1>2, <1>5, <2>2, <2>3, <2>4, AdvanceKeeps
<1> QED BY <1>1, <1>4, <1>5 DEF Work

LEMMA BreaksStep == ASSUME SessionsInv, Breaks PROVE SessionsInv'
<1>1. /\ inbox # <<>> /\ inbox[1].cmds[1].what \in Work
      /\ inbox' = Tail(inbox) /\ Answers("failed")
      /\ tx' = (IF tx = "open" THEN "failed" ELSE tx) /\ UNCHANGED <<session, saved>>
  BY DEF Breaks, Executes, Fails
<1>2. session \in Settings /\ saved \in Settings /\ tx \in {"none", "open", "failed"}
  BY DEF SessionsInv, SessionsTypeOK
<1>3. Settled'
  BY <1>1, <1>2 DEF SessionsInv, Settled
<1>4. tx' # "none" => \/ Len(inbox) > 1 /\ Alone(inbox[2].cmds, {"rollback"})
                      \/ Len(inbox) = 1 /\ inbox[1].heard /\ Inside
  BY <1>1, <1>2 DEF SessionsInv, Ended, Work
<1> QED BY <1>1, <1>2, <1>3, <1>4, PopKeeps

\* COMMIT and ROLLBACK end the transaction, and leave the server's role.
LEMMA TxEndsStep == ASSUME SessionsInv, Commits \/ RollsBack PROVE SessionsInv'
<1>1. inbox # <<>> /\ inbox[1].cmds[1].what \in {"commit", "rollback"}
      /\ tx' = "none" /\ saved' = saved
  BY DEF Commits, RollsBack, Executes, Ends
<1>2. session \in Settings /\ saved \in Settings /\ saved.role = Server
      /\ (tx = "none" => session.role = Server)
  BY DEF SessionsInv, SessionsTypeOK, Settled
<1>3. PICK r \in Rulesets : inbox[1].cmds = One(inbox[1].cmds[1].what, r)
  BY <1>1, FrontIs
<1>4. session' \in {session, saved} /\ session'.role = Server
  <2>1. CASE Commits
    <3>1. session.role = Server /\ session' \in {session, saved}
      BY <1>1, <2>1, FrontIs DEF Commits, Executes
    <3> QED BY <1>2, <3>1
  <2>2. CASE RollsBack
    BY <1>2, <2>2 DEF RollsBack
  <2> QED BY <2>1, <2>2
<1>5. PICK at \in {"ready", "failed"} : inbox' = Tail(inbox) /\ Answers(at)
  BY <1>1, <1>3, Following DEF Commits, RollsBack, Fails
<1>6. inbox[1].heard => ~Inside
  BY <1>1, HeardIs DEF OwnMessage
<1>7. Settled'
  BY <1>1, <1>2, <1>4 DEF Settled
<1> QED BY <1>1, <1>2, <1>4, <1>5, <1>6, <1>7, PopKeeps

LEMMA InvStep == SessionsInv /\ [SessionsNext]_sessionsVars => SessionsInv'
<1> SUFFICES ASSUME SessionsInv, [SessionsNext]_sessionsVars PROVE SessionsInv'
  OBVIOUS
<1>1. CASE UNCHANGED sessionsVars
  BY <1>1 DEF sessionsVars, SessionsInv, SessionsTypeOK, FrontInStep, InFront, Queued,
     HolderInStep, OwnMessage, Ended, Settled, Inside, Sends
<1>2. CASE \E op \in Ops, r \in Rulesets : Take(op, r)
  BY <1>2, TakeStep
<1>3. CASE Send \/ GiveBack \/ Go
  BY <1>3, SendStep, GiveBackStep, GoStep
<1>4. CASE Begins \/ Sets \/ Works \/ Breaks \/ Commits \/ RollsBack
  BY <1>4, BeginsStep, SetsStep, WorksStep, BreaksStep, TxEndsStep
<1> QED BY <1>1, <1>2, <1>3, <1>4 DEF SessionsNext

-----------------------------------------------------------------------------
(* The theorems *)

\* The invariant of a connection, its session and its callers.
THEOREM SessionsInvariant == SessionsSpec => []SessionsInv
BY InvInit, InvStep, PTL DEF SessionsSpec

\* The session, the queue and its holder keep their types, and only the last
\* message is waited for.
THEOREM SessionsTyped == SessionsSpec => []SessionsTypeOK
<1>1. SessionsInv => SessionsTypeOK
  BY DEF SessionsInv
<1> QED BY <1>1, SessionsInvariant, PTL

\* The catalog is read and written with the server's role: neither a SET of a
\* migration that has failed nor a rollback that is still queued reaches it.
THEOREM CatalogIsServers == SessionsSpec => []CatalogAsServer
<1>1. SessionsInv => CatalogAsServer
  BY FrontIs DEF CatalogAsServer, Executes
<1> QED BY <1>1, SessionsInvariant, PTL

\* A migration has the role and the search_path of its own ruleset and a
\* transaction around it, whoever used the connection before.
THEOREM MigrationsAreOwn == SessionsSpec => []MigratesItsOwn
<1>1. SessionsInv => MigratesItsOwn
  <2> SUFFICES ASSUME SessionsInv, inbox # <<>>, inbox[1].cmds[1].what = "migrate"
               PROVE  /\ session = [role |-> inbox[1].cmds[1].for, path |-> inbox[1].cmds[1].for]
                      /\ tx = "open"
    BY DEF MigratesItsOwn, Executes
  <2> QED BY FrontIs DEF SessionsInv, SessionsTypeOK, Settings
<1> QED BY <1>1, SessionsInvariant, PTL

\* No caller works in a transaction that another has left, although a dropped
\* transaction is rolled back by a message nobody waits for.
THEOREM TransactionsAreOwn == SessionsSpec => []NoOthersTransaction
<1>1. SessionsInv => NoOthersTransaction
  <2> SUFFICES ASSUME SessionsInv
               PROVE  NoOthersTransaction
    OBVIOUS
  <2>1. Executes({"begin"}) => tx = "none"
    BY FrontIs DEF Executes
  <2>2. ASSUME Executes({"catalog"}), inbox[1].heard, ~Inside
        PROVE  tx = "none"
    BY <2>2, HeardIs DEF Executes, OwnMessage
  <2> QED BY <2>1, <2>2 DEF NoOthersTransaction
<1> QED BY <1>1, SessionsInvariant, PTL

-----------------------------------------------------------------------------
(* Together with CreateRuleset and Names, as the run of MCCreateRuleset has them *)

\* A behaviour of the run is one of create_ruleset (rulesets.rs), one of a
\* connection and one of the names in the catalog: none of them takes a step
\* that another could need, so what holds of each by itself holds in the run.
THEOREM CreationsAreAll == MCSpec => CreateSpec /\ SessionsSpec /\ NamesSpec
<1> DEFINE all == <<subject, createVars, sessionsVars, namesVars>>
<1>1. MCInit => CreateInit /\ SessionsInit /\ NamesInit
  BY DEF MCInit
<1>2. NamesBounded => UNCHANGED namesVars
  BY DEF NamesBounded
<1>3. [MCNext]_all => [CreateNext]_createVars
  BY DEF MCNext, CreateStep, SessionsStep, NamesStep
<1>4. [MCNext]_all => [SessionsNext]_sessionsVars
  BY DEF MCNext, CreateStep, SessionsStep, NamesStep
<1>5. [MCNext]_all => [NamesNext]_namesVars
  BY <1>2 DEF MCNext, CreateStep, SessionsStep, NamesStep
<1> QED BY <1>1, <1>3, <1>4, <1>5, PTL DEF MCSpec, CreateSpec, SessionsSpec, NamesSpec

\* The catalog, its calls, the session and the names keep their types,
\* whichever of the three a behaviour is about.
THEOREM CreationsTyped == MCSpec => []MCTypeOK
BY CreationsAreAll, CatalogTyped, SessionsTyped, NamesTyped, PTL DEF MCTypeOK
=============================================================================
