-------------------------- MODULE CreateRulesetProofs --------------------------
(***************************************************************************)
(* Theorems about CreateRuleset, for every tree of paths, every set of     *)
(* bundles and any number of calls, and about the Names that come out of   *)
(* it, for any names and any length of identifiers that Postgres keeps.    *)
(***************************************************************************)
EXTENDS MCCreateRuleset, SequenceTheorems, TLAPS

\* The first migration of a ruleset leaves objects, which None is not.
LEMMA FirstMigration ==
  ASSUME NEW b \in Bundles
  PROVE  Migrate({}, b) \in SUBSET Objects /\ Migrate({}, b) # None
BY BundlesAssumption, NoneAssumption DEF Migrate

\* The initial state satisfies the invariant.
LEMMA CreateInvInit == CreateInit => CreateInv
BY DEF CreateInit, CreateInv, CreateTypeOK, CallsOK, RowsAreATree, SchemaMatchesRow,
       NoCall, CallPcs, InTransaction

\* A call that only ends leaves the rows and the schemas to the others.
LEMMA EndsStep ==
  ASSUME CreateInv, NEW c \in Calls, CallEnds(c)
  PROVE  CreateInv'
<1>1. /\ \A d \in Calls : call'[d] = IF d = c THEN NoCall ELSE call[d]
      /\ UNCHANGED <<row, schema, created>>
  BY DEF CallEnds, CreateInv, CreateTypeOK
<1>2. CreateTypeOK'
  BY DEF CallEnds, CreateInv, CreateTypeOK, NoCall, CallPcs
<1>3. CallsOK'
  BY <1>1 DEF CreateInv, CallsOK, InTransaction, NoCall
<1>4. RowsAreATree' /\ SchemaMatchesRow'
  BY <1>1 DEF CreateInv, RowsAreATree, SchemaMatchesRow
<1> QED BY <1>2, <1>3, <1>4 DEF CreateInv

\* A step that only moves a call to a later program counter keeps it a call.
LEMMA StepType ==
  ASSUME CreateTypeOK, NEW c \in Calls, NEW from, NEW to \in CallPcs,
         Step(c, from, to)
  PROVE  /\ call' \in [Calls -> [pc : CallPcs, path : Paths \cup {None},
                                 bundle : Bundles \cup {None}]]
         /\ \A d \in Calls : d # c => call'[d] = call[d]
         /\ call[c].pc = from
         /\ call'[c].pc = to
         /\ call'[c].path = call[c].path
         /\ call'[c].bundle = call[c].bundle
BY DEF CreateTypeOK, Step

\* Every step keeps the invariant.
LEMMA CreateInvStep == CreateInv /\ [CreateNext]_createVars => CreateInv'
<1> SUFFICES ASSUME CreateInv, [CreateNext]_createVars
             PROVE  CreateInv'
  OBVIOUS
<1> USE DEF CallPcs
<1>1. CASE UNCHANGED createVars
  BY <1>1 DEF createVars, CreateInv, CreateTypeOK, CallsOK, RowsAreATree,
     SchemaMatchesRow, InTransaction
<1>2. ASSUME NEW c \in Calls, NEW p \in Paths, NEW b \in Bundles, Begin(c, p, b)
      PROVE  CreateInv'
  <2>1. /\ \A d \in Calls : call'[d] = IF d = c THEN [pc |-> "insert", path |-> p,
                                                     bundle |-> b]
                                      ELSE call[d]
        /\ UNCHANGED <<row, schema, created>>
    BY <1>2 DEF Begin, CreateInv, CreateTypeOK
  <2>2. CreateTypeOK'
    BY <1>2 DEF Begin, CreateInv, CreateTypeOK
  <2>3. CallsOK'
    BY <2>1 DEF CreateInv, CallsOK, InTransaction
  <2>4. RowsAreATree' /\ SchemaMatchesRow'
    BY <2>1 DEF CreateInv, RowsAreATree, SchemaMatchesRow
  <2> QED BY <2>2, <2>3, <2>4 DEF CreateInv
<1>3. ASSUME NEW c \in Calls, InsertRuleset(c)
      PROVE  CreateInv'
  <2> DEFINE p == call[c].path
             b == call[c].bundle
  <2>1. /\ call' \in [Calls -> [pc : CallPcs, path : Paths \cup {None},
                                bundle : Bundles \cup {None}]]
        /\ \A d \in Calls : d # c => call'[d] = call[d]
        /\ call[c].pc = "insert" /\ call'[c].pc = "create"
        /\ call'[c].path = p /\ call'[c].bundle = b
    BY <1>3, StepType DEF InsertRuleset, CreateInv
  <2>2. p \in Paths /\ b \in Bundles /\ b # None
    BY <2>1, NoneAssumption DEF CreateInv, CallsOK
  <2>3. /\ \A q \in Paths : row'[q] = IF q = p THEN b ELSE row[q]
        /\ row' \in [Paths -> Bundles \cup {None}]
        /\ UNCHANGED <<schema, created>>
        /\ RowAllowed(p)
    BY <1>3, <2>2 DEF InsertRuleset, CreateInv, CreateTypeOK
  <2>4. schema[p] = None
    BY <2>2, <2>3 DEF CreateInv, SchemaMatchesRow, RowAllowed
  <2>5. CreateTypeOK'
    BY <2>1, <2>3 DEF CreateInv, CreateTypeOK
  <2>6. CallsOK'
    <3>1. \A d \in Calls : InTransaction(d) => call[d].path # p
      BY <2>2, <2>3, NoneAssumption DEF CreateInv, CallsOK, RowAllowed, InTransaction
    <3> QED BY <2>1, <2>2, <2>3, <2>4, <3>1 DEF CreateInv, CallsOK, InTransaction
  <2>7. RowsAreATree'
    BY <2>2, <2>3, ParentAssumption DEF CreateInv, RowsAreATree, RowAllowed
  <2>8. SchemaMatchesRow'
    BY <2>3, <2>4 DEF CreateInv, SchemaMatchesRow
  <2> QED BY <2>5, <2>6, <2>7, <2>8 DEF CreateInv
<1>4. ASSUME NEW c \in Calls, CreateSchema(c) \/ RunMigration(c)
      PROVE  CreateInv'
  <2>1. /\ call' \in [Calls -> [pc : CallPcs, path : Paths \cup {None},
                                bundle : Bundles \cup {None}]]
        /\ \A d \in Calls : d # c => call'[d] = call[d]
        /\ call[c].pc \in {"create", "migrate"} /\ call'[c].pc \in {"migrate", "commit"}
        /\ call'[c].path = call[c].path /\ call'[c].bundle = call[c].bundle
        /\ call'[c].pc = "commit" => MigrationRuns({}, call[c].bundle)
        /\ UNCHANGED <<row, schema, created>>
    BY <1>4, StepType DEF CreateSchema, RunMigration, CreateInv
  <2>2. CreateTypeOK'
    BY <2>1 DEF CreateInv, CreateTypeOK
  <2>3. CallsOK'
    BY <2>1 DEF CreateInv, CallsOK, InTransaction, MigrationRuns
  <2>4. RowsAreATree' /\ SchemaMatchesRow'
    BY <2>1 DEF CreateInv, RowsAreATree, SchemaMatchesRow
  <2> QED BY <2>2, <2>3, <2>4 DEF CreateInv
<1>5. ASSUME NEW c \in Calls, Commit(c)
      PROVE  CreateInv'
  <2> DEFINE p == call[c].path
             b == call[c].bundle
  <2>1. /\ call' \in [Calls -> [pc : CallPcs, path : Paths \cup {None},
                                bundle : Bundles \cup {None}]]
        /\ \A d \in Calls : d # c => call'[d] = call[d]
        /\ call[c].pc = "commit" /\ call'[c].pc = "return"
        /\ call'[c].path = p /\ call'[c].bundle = b
    BY <1>5, StepType DEF Commit, CreateInv
  <2>2. p \in Paths /\ b \in Bundles /\ row[p] = b /\ row[p] # None /\ MigrationRuns({}, b)
    BY <2>1, NoneAssumption DEF CreateInv, CallsOK, InTransaction
  <2>3. Migrate({}, b) \in SUBSET Objects /\ Migrate({}, b) # None
    BY <2>2, FirstMigration
  <2>4. /\ \A q \in Paths : schema'[q] = IF q = p THEN Migrate({}, b) ELSE schema[q]
        /\ schema' \in [Paths -> (SUBSET Objects) \cup {None}]
        /\ UNCHANGED <<row, created>>
    BY <1>5, <2>2, <2>3 DEF Commit, CreateInv, CreateTypeOK
  <2>5. CreateTypeOK'
    BY <2>1, <2>4 DEF CreateInv, CreateTypeOK
  <2>6. CallsOK'
    <3>1. \A d \in Calls : InTransaction(d) /\ d # c => call[d].path # p
      BY <2>1 DEF CreateInv, CallsOK, InTransaction
    <3> QED BY <2>1, <2>2, <2>3, <2>4, <3>1 DEF CreateInv, CallsOK, InTransaction
  <2>7. RowsAreATree'
    BY <2>4 DEF CreateInv, RowsAreATree
  <2>8. SchemaMatchesRow'
    BY <2>2, <2>3, <2>4 DEF CreateInv, CreateTypeOK, SchemaMatchesRow
  <2> QED BY <2>5, <2>6, <2>7, <2>8 DEF CreateInv
<1>6. ASSUME NEW c \in Calls, Return(c)
      PROVE  CreateInv'
  <2>1. /\ \A d \in Calls : call'[d] = IF d = c THEN NoCall ELSE call[d]
        /\ UNCHANGED <<row, schema>>
        /\ created' = created \cup {call[c].path}
        /\ call[c].path \in Paths
        /\ schema[call[c].path] # None
    BY <1>6 DEF Return, CreateInv, CreateTypeOK, CallsOK
  <2>2. CreateTypeOK'
    BY <1>6, <2>1 DEF Return, CreateInv, CreateTypeOK, NoCall
  <2>3. CallsOK'
    BY <2>1 DEF CreateInv, CallsOK, InTransaction, NoCall
  <2>4. RowsAreATree' /\ SchemaMatchesRow'
    BY <2>1 DEF CreateInv, RowsAreATree, SchemaMatchesRow
  <2> QED BY <2>2, <2>3, <2>4 DEF CreateInv
<1>7. ASSUME NEW c \in Calls, InsertFails(c) \/ TransactionFails(c) \/ Crash(c)
      PROVE  CreateInv'
  BY <1>7, EndsStep DEF InsertFails, TransactionFails, Crash
<1> QED BY <1>1, <1>2, <1>3, <1>4, <1>5, <1>6, <1>7 DEF CreateNext

\* The invariant holds in every state, in any interleaving of the calls.
THEOREM CreateInvariant == CreateSpec => []CreateInv
BY CreateInvInit, CreateInvStep, PTL DEF CreateSpec

\* The catalog is one tree, and every schema is the one its row's migration
\* made: rows, schemas and what create_ruleset has returned Ok for agree.
THEOREM CatalogSound == CreateSpec => [](CreateTypeOK /\ RowsAreATree /\ SchemaMatchesRow)
<1>1. CreateInv => CreateTypeOK /\ RowsAreATree /\ SchemaMatchesRow
  BY DEF CreateInv
<1> QED BY <1>1, CreateInvariant, PTL

\* However many calls insert at once, there is one root, and no child is there
\* without its parent's row.
THEOREM OneTree == CreateSpec => []RowsAreATree
BY CatalogSound, PTL

\* Rows, schemas and calls keep their types for every tree of paths.
THEOREM CatalogTyped == CreateSpec => []CreateTypeOK
BY CatalogSound, PTL

\* The state Registry begins with: a ruleset's schema is what its row's migration
\* adds, and that migration runs on an empty one.
CreatedForRegistry ==
  \A p \in Paths : schema[p] # None =>
    row[p] \in Bundles /\ MigrationRuns({}, row[p]) /\ schema[p] = Adds[row[p]]

\* Every ruleset that create_ruleset has completed is as Registry and Rulesets take
\* it to begin with, whatever calls came in between.
THEOREM CreatedIsInitial == CreateSpec => []CreatedForRegistry
<1>1. CreateTypeOK /\ SchemaMatchesRow => CreatedForRegistry
  BY DEF CreateTypeOK, SchemaMatchesRow, CreatedForRegistry, Migrate
<1> QED BY <1>1, CatalogSound, PTL

\* A row whose creation has failed after the insert stays without its schema,
\* whoever tries again: nothing in the code completes or removes it.
LEMMA StrandedStays ==
  CreateInv /\ [CreateNext]_createVars => [\A p \in Paths : Stranded(p) => Stranded(p)']_createVars
<1> SUFFICES ASSUME CreateInv, CreateNext, NEW p \in Paths, Stranded(p)
             PROVE  Stranded(p)'
  BY DEF createVars
<1>1. ASSUME NEW c \in Calls, NEW q \in Paths, NEW b \in Bundles, Begin(c, q, b)
      PROVE  Stranded(p)'
  BY <1>1 DEF Begin, Stranded, CreateInv, CreateTypeOK
<1>2. ASSUME NEW c \in Calls, InsertRuleset(c)
      PROVE  Stranded(p)'
  <2>1. call[c].path # p
    BY <1>2 DEF InsertRuleset, RowAllowed, Stranded
  <2>2. call[c].path \in Paths
    BY <1>2 DEF InsertRuleset, Step, CreateInv, CallsOK
  <2> QED BY <1>2, <2>1, <2>2 DEF InsertRuleset, Step, Stranded, CreateInv, CreateTypeOK
<1>3. ASSUME NEW c \in Calls, CreateSchema(c) \/ RunMigration(c) \/ Commit(c) \/ Return(c)
      PROVE  Stranded(p)'
  <2>1. call[c].pc # "insert"
    BY <1>3 DEF CreateSchema, RunMigration, Commit, Return, Step
  <2>2. call[c].path # p
    BY <2>1 DEF Stranded
  <2>3. /\ row' = row
        /\ schema'[p] = schema[p]
        /\ \A d \in Calls : d # c => call'[d] = call[d]
        /\ call'[c].path \in {call[c].path, None}
    BY <1>3, <2>2 DEF CreateSchema, RunMigration, Commit, Return, Step, CreateInv,
       CreateTypeOK, NoCall
  <2>4. p # None
    BY NoneAssumption
  <2> QED BY <2>2, <2>3, <2>4 DEF Stranded
<1>4. ASSUME NEW c \in Calls, InsertFails(c) \/ TransactionFails(c) \/ Crash(c)
      PROVE  Stranded(p)'
  <2>1. /\ row' = row /\ schema' = schema
        /\ \A d \in Calls : call'[d] = IF d = c THEN NoCall ELSE call[d]
    BY <1>4 DEF InsertFails, TransactionFails, Crash, CallEnds, CreateInv, CreateTypeOK
  <2> QED BY <2>1, NoneAssumption DEF Stranded, NoCall
<1> QED BY <1>1, <1>2, <1>3, <1>4 DEF CreateNext

\* A ruleset that is there keeps its row and its schema: a second insert is refused,
\* and a commit is for a path that has no schema yet.
LEMMA CompleteStays ==
  CreateInv /\ [CreateNext]_createVars
    => [\A p \in Paths : schema[p] # None => row'[p] = row[p] /\ schema'[p] = schema[p]]_createVars
<1> SUFFICES ASSUME CreateInv, CreateNext, NEW p \in Paths, schema[p] # None
             PROVE  row'[p] = row[p] /\ schema'[p] = schema[p]
  BY DEF createVars
<1>1. ASSUME NEW c \in Calls, InsertRuleset(c)
      PROVE  row'[p] = row[p] /\ schema'[p] = schema[p]
  <2>1. row[p] # None
    BY DEF CreateInv, SchemaMatchesRow
  <2>2. call[c].path # p
    BY <1>1, <2>1 DEF InsertRuleset, RowAllowed
  <2> QED BY <1>1, <2>2 DEF InsertRuleset, CreateInv, CreateTypeOK
<1>2. ASSUME NEW c \in Calls, Commit(c)
      PROVE  row'[p] = row[p] /\ schema'[p] = schema[p]
  <2>1. call[c].path # p
    BY <1>2 DEF Commit, Step, CreateInv, CallsOK, InTransaction
  <2> QED BY <1>2, <2>1 DEF Commit, CreateInv, CreateTypeOK
<1>3. ASSUME NEW c \in Calls, \/ \E q \in Paths, b \in Bundles : Begin(c, q, b)
                              \/ InsertFails(c) \/ CreateSchema(c) \/ RunMigration(c)
                              \/ TransactionFails(c) \/ Return(c) \/ Crash(c)
      PROVE  row'[p] = row[p] /\ schema'[p] = schema[p]
  BY <1>3 DEF Begin, InsertFails, CreateSchema, RunMigration, TransactionFails, Return,
     Crash, CallEnds
<1> QED BY <1>1, <1>2, <1>3 DEF CreateNext

\* CreateRuleset!CreatedOnce: create_ruleset, called again for a path that has a row,
\* neither completes a stranded one nor changes a complete one.
THEOREM CreatedAtMostOnce == CreateSpec => CreatedOnce
<1>1. CreateInv /\ [CreateNext]_createVars
        => [\A p \in Paths :
              /\ Stranded(p) => Stranded(p)'
              /\ schema[p] # None => row'[p] = row[p] /\ schema'[p] = schema[p]]_createVars
  BY StrandedStays, CompleteStays
<1> QED BY <1>1, CreateInvariant, PTL DEF CreateSpec, CreatedOnce

-----------------------------------------------------------------------------
(* Names *)

Strings == Seq(Characters)

\* Names, delimiters and the fixed parts of identifiers are made of Characters.
LEMMA MadeOf ==
  /\ Bar \in Characters /\ "role:" \in Characters /\ "ruleset:" \in Characters
  /\ \A t \in RoleTypes : t \in Characters
  /\ \A n \in Names : n \in Strings
<1>1. ASSUME NEW n \in Names PROVE n \in Strings
  <2>1. Range(n) \subseteq Characters
    BY DEF Characters
  <2> QED BY <2>1, NamesAssumption, SeqMonotonic DEF Strings
<1> QED BY <1>1 DEF Characters

LEMMA MinOfTwo ==
  ASSUME NEW a \in Nat, NEW b \in Nat
  PROVE  Min({a, b}) = IF a <= b THEN a ELSE b
<1> DEFINE m == IF a <= b THEN a ELSE b
<1>1. m \in {a, b} /\ \A y \in {a, b} : m <= y
  OBVIOUS
<1>2. \A x \in {a, b} : (\A y \in {a, b} : x <= y) => x = m
  OBVIOUS
<1> QED BY <1>1, <1>2 DEF Min

\* What one string after another is, character by character.
LEMMA Concatenated ==
  ASSUME NEW a \in Strings, NEW b \in Strings
  PROVE  /\ Len(a) \in Nat /\ Len(b) \in Nat
         /\ a \o b \in Strings /\ Len(a \o b) = Len(a) + Len(b)
         /\ \A i \in 1..Len(a) : (a \o b)[i] = a[i]
         /\ \A i \in 1..Len(b) : (a \o b)[Len(a) + i] = b[i]
<1>1. Len(a) \in Nat /\ Len(b) \in Nat
  BY DEF Strings
<1>2. a \o b \in Strings /\ Len(a \o b) = Len(a) + Len(b)
  BY ConcatProperties DEF Strings
<1>3. ASSUME NEW i \in 1..Len(a) PROVE (a \o b)[i] = a[i]
  <2>1. i \in 1..Len(a) + Len(b) /\ i <= Len(a)
    BY <1>1
  <2> QED BY <2>1, ConcatProperties DEF Strings
<1>4. ASSUME NEW i \in 1..Len(b) PROVE (a \o b)[Len(a) + i] = b[i]
  <2>1. Len(a) + i \in 1..Len(a) + Len(b) /\ ~(Len(a) + i <= Len(a)) /\ Len(a) + i - Len(a) = i
    BY <1>1
  <2> QED BY <2>1, ConcatProperties DEF Strings
<1> QED BY <1>1, <1>2, <1>3, <1>4

\* A path and a name, joined by the delimiter.
LEMMA Joined ==
  ASSUME NEW p \in Strings, NEW f \in Strings
  PROVE  LET s == p \o <<Bar>> \o f IN
         /\ s \in Strings /\ Len(p) \in Nat /\ Len(f) \in Nat
         /\ Len(s) = Len(p) + 1 + Len(f) /\ DOMAIN s = 1..Len(s)
         /\ \A i \in 1..Len(p) : s[i] = p[i]
         /\ s[Len(p) + 1] = Bar
         /\ \A i \in 1..Len(f) : s[Len(p) + 1 + i] = f[i]
<1> DEFINE bar == <<Bar>>
           q == p \o bar
           s == q \o f
<1>1. bar \in Strings /\ Len(bar) = 1 /\ bar[1] = Bar
  BY MadeOf DEF Strings
<1> HIDE DEF bar
<1>2. /\ Len(p) \in Nat /\ q \in Strings /\ Len(q) = Len(p) + 1
      /\ \A i \in 1..Len(p) : q[i] = p[i]
      /\ q[Len(p) + 1] = Bar
  <2>1. /\ Len(p) \in Nat /\ q \in Strings /\ Len(q) = Len(p) + Len(bar)
        /\ \A i \in 1..Len(p) : q[i] = p[i]
        /\ \A i \in 1..Len(bar) : q[Len(p) + i] = bar[i]
    BY <1>1, Concatenated
  <2> HIDE DEF q
  <2> QED BY <1>1, <2>1
<1> HIDE DEF q
<1>4. /\ Len(f) \in Nat /\ s \in Strings /\ Len(s) = Len(p) + 1 + Len(f)
      /\ \A i \in 1..Len(p) + 1 : s[i] = q[i]
      /\ \A i \in 1..Len(f) : s[Len(p) + 1 + i] = f[i]
  <2>1. /\ Len(f) \in Nat /\ s \in Strings /\ Len(s) = Len(q) + Len(f)
        /\ \A i \in 1..Len(q) : s[i] = q[i]
        /\ \A i \in 1..Len(f) : s[Len(q) + i] = f[i]
    BY <1>2, Concatenated
  <2> HIDE DEF s
  <2> QED BY <1>2, <2>1
<1> HIDE DEF s
<1>5. ASSUME NEW i \in 1..Len(p) PROVE s[i] = p[i]
  <2>1. i \in 1..Len(p) + 1
    BY <1>2
  <2> QED BY <1>2, <1>4, <2>1
<1>6. s[Len(p) + 1] = Bar
  <2>1. Len(p) + 1 \in 1..Len(p) + 1
    BY <1>2
  <2> QED BY <1>2, <1>4, <2>1
<1>7. DOMAIN s = 1..Len(s)
  BY <1>4 DEF Strings
<1> QED BY <1>2, <1>4, <1>5, <1>6, <1>7 DEF s, q, bar

\* What is before the last delimiter, and what after it, when the name has none.
LEMMA SplitsBack ==
  ASSUME NEW p \in Strings, NEW f \in Strings, ~Contains(f, Bar)
  PROVE  Split(p \o <<Bar>> \o f) = [parent |-> p, name |-> f]
<1> DEFINE s == p \o <<Bar>> \o f
           at == Len(p) + 1
           bars == {i \in DOMAIN s : s[i] = Bar}
<1>1. /\ s \in Strings /\ Len(p) \in Nat /\ Len(f) \in Nat
      /\ Len(s) = Len(p) + 1 + Len(f) /\ DOMAIN s = 1..Len(s)
      /\ \A i \in 1..Len(p) : s[i] = p[i]
      /\ s[at] = Bar
      /\ \A i \in 1..Len(f) : s[at + i] = f[i]
  BY Joined
<1> HIDE DEF s
<1>5. at \in bars
  BY <1>1
<1>6. ASSUME NEW i \in bars PROVE i <= at
  <2>1. i \in 1..Len(s) /\ s[i] = Bar
    BY <1>1
  <2>2. SUFFICES ASSUME i > at PROVE FALSE
    BY <2>1, <1>1
  <2>3. i - at \in 1..Len(f) /\ at + (i - at) = i
    <3>1. Len(p) \in Nat /\ Len(f) \in Nat /\ i \in 1..Len(p) + 1 + Len(f)
      BY <1>1, <2>1
    <3> QED BY <2>2, <3>1
  <2>4. f[i - at] = Bar
    BY <1>1, <2>1, <2>3
  <2> QED BY <2>3, <2>4 DEF Contains
<1>7. Max(bars) = at
  <2>1. \A x \in bars : (\A y \in bars : x >= y) => x = at
    BY <1>1, <1>5, <1>6
  <2>2. \A y \in bars : at >= y
    BY <1>1, <1>6
  <2> QED BY <1>5, <2>1, <2>2 DEF Max
<1>8. LastBar(s) = at
  BY <1>1, <1>7 DEF LastBar, Contains
<1>9. SubSeq(s, 1, at - 1) = p
  <2>1. SubSeq(s, 1, at - 1) \in Strings /\ Len(SubSeq(s, 1, at - 1)) = Len(p)
    BY <1>1 DEF Strings
  <2>2. \A i \in 1..Len(p) : SubSeq(s, 1, at - 1)[i] = p[i]
    BY <1>1 DEF Strings
  <2> QED BY <2>1, <2>2, SeqEqual DEF Strings
<1>10. SubSeq(s, at + 1, Len(s)) = f
  <2>1. SubSeq(s, at + 1, Len(s)) \in Strings /\ Len(SubSeq(s, at + 1, Len(s))) = Len(f)
    BY <1>1 DEF Strings
  <2>2. \A i \in 1..Len(f) : SubSeq(s, at + 1, Len(s))[i] = f[i]
    BY <1>1 DEF Strings
  <2> QED BY <2>1, <2>2, SeqEqual DEF Strings
<1>11. Split(s) = [parent |-> SubSeq(s, 1, at - 1), name |-> SubSeq(s, at + 1, Len(s))]
  <2>1. at # 0
    BY <1>1
  <2> QED BY <1>8, <2>1 DEF Split
<1>12. Split(s) = [parent |-> p, name |-> f]
  BY <1>9, <1>10, <1>11
<1> QED BY <1>12 DEF s

\* A name without a delimiter has no parent.
LEMMA SplitsName ==
  ASSUME NEW f \in Strings, ~Contains(f, Bar)
  PROVE  Split(f) = [parent |-> NoParent, name |-> f]
<1>1. LastBar(f) = 0
  BY DEF LastBar
<1>2. SubSeq(f, 0 + 1, Len(f)) = f
  BY SubSeqFull DEF Strings
<1> QED BY <1>1, <1>2 DEF Split

\* What Postgres keeps of an identifier is a prefix of it.
LEMMA KeptIs ==
  ASSUME NEW id \in Strings
  PROVE  /\ Kept(id) \in Strings
         /\ Len(Kept(id)) <= MaxIdentifier
         /\ Len(id) <= MaxIdentifier => Kept(id) = id
         /\ Len(id) > MaxIdentifier => Len(Kept(id)) = MaxIdentifier
         /\ Len(Kept(id)) <= Len(id)
         /\ \A i \in 1..Len(Kept(id)) : Kept(id)[i] = id[i]
<1> DEFINE n == IF Len(id) <= MaxIdentifier THEN Len(id) ELSE MaxIdentifier
<1>1. Len(id) \in Nat /\ MaxIdentifier \in Nat /\ n \in 0..Len(id)
  BY NamesAssumption DEF Strings
<1>2. Kept(id) = SubSeq(id, 1, n)
  BY <1>1, MinOfTwo DEF Kept
<1> HIDE DEF n
<1>3. SubSeq(id, 1, n) \in Strings /\ Len(SubSeq(id, 1, n)) = n
  BY <1>1 DEF Strings
<1>4. \A i \in 1..n : SubSeq(id, 1, n)[i] = id[i]
  BY <1>1 DEF Strings
<1>5. n = Len(id) => SubSeq(id, 1, n) = id
  BY SubSeqFull DEF Strings
<1> QED BY <1>1, <1>2, <1>3, <1>4, <1>5 DEF n
\* The identifiers of a full path, character by character.
LEMMA SchemaIdentifier ==
  ASSUME NEW p \in Strings
  PROVE  /\ FormatSchema(p) \in Strings
         /\ Len(FormatSchema(p)) = 1 + Len(p)
         /\ \A i \in 1..Len(p) : FormatSchema(p)[1 + i] = p[i]
<1> DEFINE head == <<"ruleset:">>
<1>1. head \in Strings /\ Len(head) = 1
  BY MadeOf DEF Strings
<1> HIDE DEF head
<1>2. /\ head \o p \in Strings /\ Len(head \o p) = 1 + Len(p)
      /\ \A i \in 1..Len(p) : (head \o p)[1 + i] = p[i]
  <2> DEFINE s == head \o p
  <2>1. /\ Len(p) \in Nat /\ s \in Strings /\ Len(s) = Len(head) + Len(p)
        /\ \A i \in 1..Len(p) : s[Len(head) + i] = p[i]
    BY <1>1, Concatenated
  <2> HIDE DEF s
  <2>2. s \in Strings /\ Len(s) = 1 + Len(p) /\ \A i \in 1..Len(p) : s[1 + i] = p[i]
    BY <1>1, <2>1
  <2> QED BY <2>2 DEF s
<1> QED BY <1>2 DEF FormatSchema, head

LEMMA RoleIdentifier ==
  ASSUME NEW p \in Strings, NEW t \in RoleTypes
  PROVE  /\ FormatRole(p, t) \in Strings
         /\ Len(FormatRole(p, t)) = Len(p) + 3
         /\ \A i \in 1..Len(p) : FormatRole(p, t)[1 + i] = p[i]
         /\ FormatRole(p, t)[Len(p) + 2] = Bar
         /\ FormatRole(p, t)[Len(p) + 3] = t
<1> DEFINE head == <<"role:">>
           tail == <<Bar, t>>
           s == head \o p
           id == s \o tail
<1>1. head \in Strings /\ Len(head) = 1
  BY MadeOf DEF Strings
<1>2. tail \in Strings /\ Len(tail) = 2 /\ tail[1] = Bar /\ tail[2] = t
  BY MadeOf DEF Strings
<1> HIDE DEF head, tail
<1>3. /\ Len(p) \in Nat /\ s \in Strings /\ Len(s) = 1 + Len(p)
      /\ \A i \in 1..Len(p) : s[1 + i] = p[i]
  <2>1. /\ Len(p) \in Nat /\ s \in Strings /\ Len(s) = Len(head) + Len(p)
        /\ \A i \in 1..Len(p) : s[Len(head) + i] = p[i]
    BY <1>1, Concatenated
  <2> HIDE DEF s
  <2> QED BY <1>1, <2>1
<1> HIDE DEF s
<1>4. /\ id \in Strings /\ Len(id) = 1 + Len(p) + 2
      /\ \A i \in 1..1 + Len(p) : id[i] = s[i]
      /\ \A i \in 1..2 : id[1 + Len(p) + i] = tail[i]
  <2>1. /\ id \in Strings /\ Len(id) = Len(s) + Len(tail)
        /\ \A i \in 1..Len(s) : id[i] = s[i]
        /\ \A i \in 1..Len(tail) : id[Len(s) + i] = tail[i]
    BY <1>2, <1>3, Concatenated
  <2> HIDE DEF id
  <2> QED BY <1>2, <1>3, <2>1
<1> HIDE DEF id
<1>5. ASSUME NEW i \in 1..Len(p) PROVE id[1 + i] = p[i]
  <2>1. 1 + i \in 1..1 + Len(p)
    BY <1>3
  <2> QED BY <1>3, <1>4, <2>1
<1>6. id[Len(p) + 2] = Bar /\ id[Len(p) + 3] = t
  <2>1. Len(p) + 2 = 1 + Len(p) + 1 /\ Len(p) + 3 = 1 + Len(p) + 2
    BY <1>3
  <2> QED BY <1>2, <1>4, <2>1
<1>7. Len(id) = Len(p) + 3
  BY <1>3, <1>4
<1> QED BY <1>4, <1>5, <1>6, <1>7 DEF FormatRole, id, s, head, tail

\* The schema of a path that fits is no other path's, cut or not.
LEMMA SchemaNameOwn ==
  ASSUME NEW p \in Strings, Fits(p), NEW q \in Strings, SchemaName(p) = SchemaName(q)
  PROVE  p = q
<1> DEFINE a == FormatSchema(p)
           b == FormatSchema(q)
<1>1. Len(p) \in Nat /\ Len(q) \in Nat /\ MaxIdentifier \in Nat /\ Len(p) + 3 <= MaxIdentifier
  BY NamesAssumption DEF Fits, Strings
<1>2. /\ a \in Strings /\ Len(a) = 1 + Len(p) /\ \A i \in 1..Len(p) : a[1 + i] = p[i]
      /\ b \in Strings /\ Len(b) = 1 + Len(q) /\ \A i \in 1..Len(q) : b[1 + i] = q[i]
  BY SchemaIdentifier
<1>3. Kept(a) = Kept(b)
  BY DEF SchemaName
<1> HIDE DEF a, b
<1>4. Len(a) \in Nat /\ Len(b) \in Nat /\ Len(a) <= MaxIdentifier /\ Len(a) # MaxIdentifier
  BY <1>1, <1>2
<1>5. a \in Strings /\ b \in Strings
  BY <1>2
<1>6. Kept(a) = a
  BY <1>5, <1>4, KeptIs
<1>7. Kept(b) = b
  <2>1. Len(b) > MaxIdentifier => Len(Kept(b)) = MaxIdentifier
    BY <1>5, KeptIs
  <2>2. Len(b) <= MaxIdentifier
    BY <1>1, <1>3, <1>4, <1>6, <2>1
  <2> QED BY <1>5, <2>2, KeptIs
<1>8. Len(p) = Len(q)
  <2>1. Len(a) = Len(b)
    BY <1>3, <1>6, <1>7
  <2> QED BY <1>1, <1>2, <2>1
<1>9. \A i \in 1..Len(p) : p[i] = q[i]
  <2>1. a = b
    BY <1>3, <1>6, <1>7
  <2> QED BY <1>2, <1>8, <2>1
<1> QED BY <1>8, <1>9, SeqEqual DEF Strings

\* A role of a path that fits is that of another path, or of another type, only
\* if the path is a parent or an ancestor of the other: its role is cut to it.
LEMMA RoleNameOwn ==
  ASSUME NEW p \in Strings, Fits(p), NEW t \in RoleTypes, NEW q \in Strings,
         NEW u \in RoleTypes, RoleName(p, t) = RoleName(q, u)
  PROVE  \/ p = q /\ t = u
         \/ Len(p) + 1 \in 1..Len(q) /\ q[Len(p) + 1] = Bar /\ SubSeq(q, 1, Len(p)) = p
<1> DEFINE a == FormatRole(p, t)
           b == FormatRole(q, u)
<1>1. Len(p) \in Nat /\ Len(q) \in Nat /\ MaxIdentifier \in Nat /\ Len(p) + 3 <= MaxIdentifier
  BY NamesAssumption DEF Fits, Strings
<1>2. /\ a \in Strings /\ Len(a) = Len(p) + 3 /\ \A i \in 1..Len(p) : a[1 + i] = p[i]
      /\ a[Len(p) + 2] = Bar /\ a[Len(p) + 3] = t
  BY RoleIdentifier
<1>3. /\ b \in Strings /\ Len(b) = Len(q) + 3 /\ \A i \in 1..Len(q) : b[1 + i] = q[i]
      /\ b[Len(q) + 2] = Bar /\ b[Len(q) + 3] = u
  BY RoleIdentifier
<1>4. Kept(a) = Kept(b)
  BY DEF RoleName
<1> HIDE DEF a, b
<1>5. Kept(a) = a
  BY <1>1, <1>2, KeptIs
<1>6. Len(a) <= Len(b) /\ \A i \in 1..Len(a) : a[i] = b[i]
  <2>1. Len(Kept(b)) <= Len(b) /\ \A i \in 1..Len(Kept(b)) : Kept(b)[i] = b[i]
    BY <1>3, KeptIs
  <2> QED BY <1>4, <1>5, <2>1
<1>7. Len(p) <= Len(q)
  BY <1>1, <1>2, <1>3, <1>6
<1>8. ASSUME NEW i \in 1..Len(p) PROVE p[i] = q[i]
  <2>1. 1 + i \in 1..Len(a) /\ i \in 1..Len(q)
    BY <1>1, <1>2, <1>7
  <2> QED BY <1>2, <1>3, <1>6, <2>1
<1>9. CASE Len(p) = Len(q)
  <2>1. p = q
    BY <1>8, <1>9, SeqEqual DEF Strings
  <2>2. a[Len(p) + 3] = b[Len(p) + 3]
    BY <1>1, <1>2, <1>6
  <2> QED BY <1>2, <1>3, <1>9, <2>1, <2>2
<1>10. CASE Len(p) < Len(q)
  <2>1. Len(p) + 1 \in 1..Len(q) /\ Len(p) + 2 \in 1..Len(a) /\ Len(p) + 1 + 1 = Len(p) + 2
    BY <1>1, <1>2, <1>10
  <2>2. q[Len(p) + 1] = Bar
    BY <1>2, <1>3, <1>6, <2>1
  <2>3. /\ SubSeq(q, 1, Len(p)) \in Strings /\ Len(SubSeq(q, 1, Len(p))) = Len(p)
        /\ \A i \in 1..Len(p) : SubSeq(q, 1, Len(p))[i] = q[i]
    BY <1>1, <1>10 DEF Strings
  <2>4. SubSeq(q, 1, Len(p)) = p
    BY <1>8, <2>3, SeqEqual DEF Strings
  <2> QED BY <2>1, <2>2, <2>4
<1> QED BY <1>1, <1>7, <1>9, <1>10

\* Names and paths are strings; every path that is cut at a delimiter is a row's,
\* which is how the roles of a row can be cut to those of an ancestor only.
Spelt ==
  /\ rows \subseteq Strings
  /\ parents \in Seq([parent : rows \cup {NoParent}, name : Names])
Rooted ==
  \A q \in rows : \A k \in 1..Len(q) : q[k] = Bar => SubSeq(q, 1, k - 1) \in rows

\* Schemas and roles have the names that come of their path, and those that have a
\* schema have all their roles.
Labelled ==
  /\ \A s \in schemas : s.name = SchemaName(s.of)
  /\ \A r \in roles : r.name = RoleName(r.of, r.type)
  /\ \A s \in schemas : \A t \in RoleTypes : \E r \in roles : r.name = RoleName(s.of, t)

NamesInv ==
  NamesTypeOK /\ Spelt /\ Rooted /\ Labelled /\ NamesFreeToChoose /\ RolesOwn

LEMMA NamesInvInit == NamesInit => NamesInv
BY DEF NamesInit, NamesInv, NamesTypeOK, Spelt, Rooted, Labelled, NamesFreeToChoose, RolesOwn

\* The path of a new row ends in a delimiter only where its parent, or a path
\* above that, does.
LEMMA NewPath ==
  ASSUME NamesInv, NEW parent \in rows \cup {NoParent}, NEW name \in Names
  PROVE  LET path == FormatFullPath(parent, name) IN
         /\ path \in Strings
         /\ \A k \in 1..Len(path) : path[k] = Bar => SubSeq(path, 1, k - 1) \in rows
<1> DEFINE path == FormatFullPath(parent, name)
<1>1. name \in Strings /\ ~Contains(name, Bar) /\ NoParent \notin rows /\ rows \subseteq Strings
  BY MadeOf, NamesAssumption DEF NamesInv, Spelt, Strings
<1>2. CASE parent = NoParent
  BY <1>1, <1>2 DEF FormatFullPath, Contains
<1>3. CASE parent \in rows
  <2>1. /\ path = parent \o <<Bar>> \o name /\ parent \in Strings
    BY <1>1, <1>3 DEF FormatFullPath
  <2> HIDE DEF path
  <2>2. /\ path \in Strings /\ Len(parent) \in Nat /\ Len(name) \in Nat
        /\ Len(path) = Len(parent) + 1 + Len(name)
        /\ \A i \in 1..Len(parent) : path[i] = parent[i]
        /\ \A i \in 1..Len(name) : path[Len(parent) + 1 + i] = name[i]
    BY <1>1, <2>1, Joined
  <2>3. ASSUME NEW k \in 1..Len(path), path[k] = Bar PROVE SubSeq(path, 1, k - 1) \in rows
    <3>1. k <= Len(parent) + 1
      <4>1. SUFFICES ASSUME k > Len(parent) + 1 PROVE FALSE
        BY <2>2
      <4>2. k - (Len(parent) + 1) \in 1..Len(name)
            /\ Len(parent) + 1 + (k - (Len(parent) + 1)) = k
        <5>1. k \in 1..Len(parent) + 1 + Len(name)
          BY <2>2
        <5> QED BY <2>2, <4>1, <5>1
      <4>3. name[k - (Len(parent) + 1)] = Bar
        BY <2>2, <2>3, <4>2
      <4> QED BY <1>1, <4>2, <4>3 DEF Contains
    <3>2. SubSeq(path, 1, k - 1) = SubSeq(parent, 1, k - 1)
      <4>1. k - 1 \in 0..Len(parent) /\ k - 1 \in 0..Len(path)
        BY <2>2, <3>1
      <4>2. /\ SubSeq(path, 1, k - 1) \in Strings /\ Len(SubSeq(path, 1, k - 1)) = k - 1
            /\ \A i \in 1..k - 1 : SubSeq(path, 1, k - 1)[i] = path[i]
        BY <2>2, <4>1 DEF Strings
      <4>3. /\ SubSeq(parent, 1, k - 1) \in Strings /\ Len(SubSeq(parent, 1, k - 1)) = k - 1
            /\ \A i \in 1..k - 1 : SubSeq(parent, 1, k - 1)[i] = parent[i]
        BY <2>1, <4>1 DEF Strings
      <4>4. \A i \in 1..k - 1 : path[i] = parent[i]
        BY <2>2, <4>1
      <4> QED BY <4>2, <4>3, <4>4, SeqEqual DEF Strings
    <3>3. CASE k = Len(parent) + 1
      <4>1. SubSeq(parent, 1, Len(parent)) = parent
        BY <2>1, SubSeqFull DEF Strings
      <4>2. k - 1 = Len(parent)
        BY <2>2, <3>3
      <4> QED BY <1>3, <3>2, <4>1, <4>2
    <3>4. CASE k \in 1..Len(parent)
      <4>1. parent[k] = Bar
        BY <2>2, <2>3, <3>4
      <4> QED BY <1>3, <3>2, <3>4, <4>1 DEF NamesInv, Rooted
    <3> QED BY <2>2, <3>1, <3>3, <3>4
  <2> QED BY <2>2, <2>3 DEF path
<1> QED BY <1>2, <1>3

\* If the identifiers of a new row are kept whole, nothing is in its way.
LEMMA FittingIsCreatable ==
  ASSUME NamesInv, NEW p \in Strings, p \notin rows, Fits(p)
  PROVE  Creatable(p)
<1>1. /\ \A s \in schemas : s.of \in rows /\ s.of \in Strings /\ s.name = SchemaName(s.of)
      /\ \A r \in roles : r.of \in rows /\ r.of \in Strings /\ r.type \in RoleTypes
                          /\ r.name = RoleName(r.of, r.type)
  BY DEF NamesInv, NamesTypeOK, Spelt, Labelled
<1>2. ASSUME NEW s \in schemas PROVE s.name # SchemaName(p)
  BY <1>1, SchemaNameOwn
<1>3. ASSUME NEW t \in RoleTypes, NEW r \in roles, r.name = RoleName(p, t) PROVE FALSE
  <2> DEFINE q == r.of
  <2>1. q \in rows /\ q \in Strings /\ q # p
    BY <1>1
  <2>2. Len(p) + 1 \in 1..Len(q) /\ q[Len(p) + 1] = Bar /\ SubSeq(q, 1, Len(p)) = p
    BY <1>1, <1>3, <2>1, RoleNameOwn
  <2> HIDE DEF q
  <2>3. Len(p) + 1 - 1 = Len(p)
    BY DEF Strings
  <2>4. SubSeq(q, 1, Len(p) + 1 - 1) \in rows
    BY <2>1, <2>2 DEF NamesInv, Rooted
  <2> QED BY <2>2, <2>3, <2>4
<1>4. ASSUME NEW t \in RoleTypes, NEW u \in RoleTypes, RoleName(p, t) = RoleName(p, u)
      PROVE  t = u
  <2>1. ~(Len(p) + 1 \in 1..Len(p))
    BY DEF Strings
  <2> QED BY <1>4, <2>1, RoleNameOwn
<1> QED BY <1>2, <1>3, <1>4 DEF Creatable

\* A row is added, and what the catalog builds its path from.
LEMMA RowAdded ==
  ASSUME NamesInv, NEW parent \in rows \cup {NoParent}, NEW name \in Names,
         CreateRuleset(parent, name)
  PROVE  /\ Spelt' /\ Rooted'
         /\ \A i \in DOMAIN parents' : /\ parents'[i].parent \in rows' \cup {NoParent}
                                       /\ parents'[i].name \in Names
         /\ rows' = {FormatFullPath(parents'[i].parent, parents'[i].name) : i \in DOMAIN parents'}
<1> DEFINE path == FormatFullPath(parent, name)
           new == [parent |-> parent, name |-> name]
           R == [parent : rows \cup {NoParent}, name : Names]
           R1 == [parent : rows' \cup {NoParent}, name : Names]
<1>1. rows' = rows \cup {path} /\ parents' = Append(parents, new)
  BY DEF CreateRuleset
<1>2. path \in Strings /\ \A k \in 1..Len(path) : path[k] = Bar => SubSeq(path, 1, k - 1) \in rows
  BY NewPath
<1>3. parents \in Seq(R) /\ rows \subseteq Strings
  BY DEF NamesInv, Spelt
<1>4. new \in R /\ FormatFullPath(new.parent, new.name) = path
  OBVIOUS
<1> HIDE DEF path, new
<1>5. R \subseteq R1
  BY <1>1
<1> HIDE DEF R, R1
<1>6. /\ parents' \in Seq(R) /\ Len(parents) \in Nat /\ Len(parents') = Len(parents) + 1
      /\ \A i \in 1..Len(parents) : parents'[i] = parents[i]
      /\ parents'[Len(parents) + 1] = new
      /\ DOMAIN parents' = 1..Len(parents') /\ DOMAIN parents = 1..Len(parents)
  BY <1>1, <1>3, <1>4, AppendProperties
<1>7. parents' \in Seq(R1)
  BY <1>5, <1>6, SeqMonotonic
<1>8. Spelt'
  BY <1>1, <1>2, <1>3, <1>7 DEF Spelt, R1
<1>9. Rooted'
  BY <1>1, <1>2 DEF Rooted, NamesInv
<1>10. \A i \in DOMAIN parents' : parents'[i] \in R1
  BY <1>6, <1>7, ElementOfSeq
<1>11. rows = {FormatFullPath(parents[i].parent, parents[i].name) : i \in DOMAIN parents}
  BY DEF NamesInv, NamesTypeOK
<1>12. rows' = {FormatFullPath(parents'[i].parent, parents'[i].name) : i \in DOMAIN parents'}
  <2>1. DOMAIN parents' = DOMAIN parents \cup {Len(parents) + 1}
    BY <1>6
  <2>2. \A i \in DOMAIN parents : parents'[i] = parents[i]
    BY <1>6
  <2> QED BY <1>1, <1>4, <1>6, <1>11, <2>1, <2>2
<1> QED BY <1>8, <1>9, <1>10, <1>12 DEF R1

\* A row that is added with its schema and its roles.
LEMMA CreatedStep ==
  ASSUME NamesInv, NEW path \in Strings, path \notin rows, Creatable(path),
         rows' = rows \cup {path},
         schemas' = schemas \cup {[name |-> SchemaName(path), of |-> path]},
         roles' = roles \cup {[name |-> RoleName(path, t), of |-> path, type |-> t] : t \in RoleTypes}
  PROVE  /\ Labelled' /\ NamesFreeToChoose' /\ RolesOwn'
         /\ \A s \in schemas' : s.of \in rows' /\ Len(s.name) <= MaxIdentifier
         /\ \A r \in roles' : r.of \in rows' /\ r.type \in RoleTypes /\ Len(r.name) <= MaxIdentifier
<1>1. \A t \in RoleTypes : /\ Len(RoleName(path, t)) <= MaxIdentifier
                           /\ Len(SchemaName(path)) <= MaxIdentifier
  BY KeptIs, SchemaIdentifier, RoleIdentifier DEF SchemaName, RoleName
<1>2. ASSUME NEW s \in schemas'
      PROVE  s \in schemas \/ (s.name = SchemaName(path) /\ s.of = path)
  <2>1. s \in schemas \/ s = [name |-> SchemaName(path), of |-> path]
    BY <1>2
  <2> QED BY <2>1
<1>3. ASSUME NEW r \in roles'
      PROVE  r \in roles \/ (r.type \in RoleTypes /\ r.of = path /\ r.name = RoleName(path, r.type))
  <2>1. r \in roles \/ r \in {[name |-> RoleName(path, t), of |-> path, type |-> t] : t \in RoleTypes}
    BY <1>3
  <2>2. r \in roles \/ \E t \in RoleTypes : r = [name |-> RoleName(path, t), of |-> path, type |-> t]
    BY <2>1
  <2> QED BY <2>2
<1>4. \A s \in schemas' : s.of \in rows' /\ Len(s.name) <= MaxIdentifier
  <2>1. "view" \in RoleTypes
    BY DEF RoleTypes
  <2> QED BY <1>1, <1>2, <2>1 DEF NamesInv, NamesTypeOK
<1>5. \A r \in roles' : r.of \in rows' /\ r.type \in RoleTypes /\ Len(r.name) <= MaxIdentifier
  BY <1>1, <1>3 DEF NamesInv, NamesTypeOK
<1>6. \A s \in schemas' : s.name = SchemaName(s.of)
  BY <1>2 DEF NamesInv, Labelled
<1>7. \A r \in roles' : r.name = RoleName(r.of, r.type)
  BY <1>3 DEF NamesInv, Labelled
<1>8. ASSUME NEW s \in schemas', NEW t \in RoleTypes
      PROVE  \E r \in roles' : r.name = RoleName(s.of, t)
  <2>1. CASE s \in schemas
    BY <2>1 DEF NamesInv, Labelled
  <2>2. CASE s.of = path
    <3>1. [name |-> RoleName(path, t), of |-> path, type |-> t] \in roles'
      OBVIOUS
    <3> QED BY <2>2, <3>1
  <2> QED BY <1>2, <2>1, <2>2
<1>9. NamesFreeToChoose'
  <2> SUFFICES ASSUME NEW p \in rows', Fits(p) PROVE \E s \in schemas' : s.of = p
    BY DEF NamesFreeToChoose, Fits
  <2>1. CASE p \in rows
    BY <2>1 DEF NamesInv, NamesFreeToChoose
  <2>2. CASE p = path
    <3>1. [name |-> SchemaName(path), of |-> path] \in schemas'
      OBVIOUS
    <3> QED BY <2>2, <3>1
  <2> QED BY <2>1, <2>2
<1>10. ASSUME NEW s \in schemas', NEW t \in RoleTypes, NEW r \in roles', r.name = RoleName(s.of, t)
       PROVE  r.of = s.of /\ r.type = t
  <2>1. CASE s \in schemas /\ r \in roles
    BY <1>10, <2>1 DEF NamesInv, RolesOwn
  <2>2. CASE s \in schemas /\ r.type \in RoleTypes /\ r.of = path /\ r.name = RoleName(path, r.type)
    <3>1. PICK own \in roles : own.name = RoleName(s.of, t)
      BY <2>2 DEF NamesInv, Labelled
    <3> QED BY <1>10, <2>2, <3>1 DEF Creatable
  <2>3. CASE s.of = path /\ r \in roles
    BY <1>10, <2>3 DEF Creatable
  <2>4. CASE s.of = path /\ r.type \in RoleTypes /\ r.of = path /\ r.name = RoleName(path, r.type)
    BY <1>10, <2>4 DEF Creatable
  <2> QED BY <1>2, <1>3, <2>1, <2>2, <2>3, <2>4
<1> QED BY <1>4, <1>5, <1>6, <1>7, <1>8, <1>9, <1>10 DEF Labelled, RolesOwn

\* A row that is added, with its schema and its roles or without.
LEMMA NamesInvStep ==
  ASSUME NamesInv, NEW parent \in rows \cup {NoParent}, NEW name \in Names,
         CreateRuleset(parent, name)
  PROVE  NamesInv'
<1> DEFINE path == FormatFullPath(parent, name)
<1>1. path \in Strings /\ path \notin rows /\ rows' = rows \cup {path}
  BY NewPath DEF CreateRuleset
<1>2. /\ Spelt' /\ Rooted'
      /\ \A i \in DOMAIN parents' : /\ parents'[i].parent \in rows' \cup {NoParent}
                                    /\ parents'[i].name \in Names
      /\ rows' = {FormatFullPath(parents'[i].parent, parents'[i].name) : i \in DOMAIN parents'}
  BY RowAdded
<1>3. \/ /\ Creatable(path)
         /\ schemas' = schemas \cup {[name |-> SchemaName(path), of |-> path]}
         /\ roles' = roles \cup {[name |-> RoleName(path, t), of |-> path, type |-> t] : t \in RoleTypes}
      \/ ~Creatable(path) /\ UNCHANGED <<schemas, roles>>
  BY DEF CreateRuleset
<1> HIDE DEF path
<1>4. CASE /\ Creatable(path)
           /\ schemas' = schemas \cup {[name |-> SchemaName(path), of |-> path]}
           /\ roles' = roles \cup {[name |-> RoleName(path, t), of |-> path, type |-> t] : t \in RoleTypes}
  BY <1>1, <1>2, <1>4, CreatedStep DEF NamesInv, NamesTypeOK
<1>5. CASE ~Creatable(path) /\ UNCHANGED <<schemas, roles>>
  <2>1. ~Fits(path)
    BY <1>1, <1>5, FittingIsCreatable
  <2>2. NamesFreeToChoose'
    BY <1>1, <1>5, <2>1 DEF NamesInv, NamesFreeToChoose, Fits
  <2>3. Labelled' /\ RolesOwn'
    BY <1>5 DEF NamesInv, Labelled, RolesOwn
  <2> QED BY <1>1, <1>2, <1>5, <2>2, <2>3 DEF NamesInv, NamesTypeOK
<1> QED BY <1>3, <1>4, <1>5

\* NamesInv is inductive, with any names, any bound of rows and any length that
\* Postgres keeps.
THEOREM NamesInvariant == NamesSpec => []NamesInv
<1>1. NamesInv /\ UNCHANGED namesVars => NamesInv'
  <2> SUFFICES ASSUME NamesInv, UNCHANGED namesVars PROVE NamesInv'
    OBVIOUS
  <2>1. NamesTypeOK'
    BY DEF namesVars, NamesInv, NamesTypeOK
  <2>2. Spelt' /\ Rooted' /\ Labelled'
    BY DEF namesVars, NamesInv, Spelt, Rooted, Labelled
  <2>3. NamesFreeToChoose' /\ RolesOwn'
    BY DEF namesVars, NamesInv, NamesFreeToChoose, RolesOwn
  <2> QED BY <2>1, <2>2, <2>3 DEF NamesInv
<1>2. NamesInv /\ [NamesNext]_namesVars => NamesInv'
  BY <1>1, NamesInvStep DEF NamesNext
<1> QED BY <1>2, NamesInvInit, PTL DEF NamesSpec

\* The variables of the names of rulesets have their types (lib.rs, schema.sql).
THEOREM NamesTyped == NamesSpec => []NamesTypeOK
<1>1. NamesInv => NamesTypeOK
  BY DEF NamesInv
<1> QED BY <1>1, NamesInvariant, PTL

\* What format_full_path makes of a parent and a name, split_full_path takes apart
\* again, and so does FnPath with the URL of a fn.
THEOREM PathsSplitBack == NamesSpec => []PathsSplit
<1>1. NamesInv => PathsSplit
  <2> SUFFICES ASSUME NamesInv PROVE PathsSplit
    OBVIOUS
  <2>1. /\ rows \subseteq Strings /\ NoParent \notin rows
        /\ \A n \in Names : n \in Strings /\ ~Contains(n, Bar)
        /\ \A i \in DOMAIN parents : parents[i] \in [parent : rows \cup {NoParent}, name : Names]
    <3>1. rows \subseteq Strings /\ NoParent \notin rows
      BY NamesAssumption DEF NamesInv, Spelt, Strings
    <3>2. \A n \in Names : n \in Strings /\ ~Contains(n, Bar)
      BY MadeOf, NamesAssumption
    <3>3. \A i \in DOMAIN parents : parents[i] \in [parent : rows \cup {NoParent}, name : Names]
      <4>1. parents \in Seq([parent : rows \cup {NoParent}, name : Names])
        BY DEF NamesInv, Spelt
      <4>2. DOMAIN parents = 1..Len(parents)
        BY <4>1, LenProperties
      <4> QED BY <4>1, <4>2, ElementOfSeq
    <3> QED BY <3>1, <3>2, <3>3
  <2>2. ASSUME NEW p \in rows, NEW f \in Names
        PROVE  Split(p \o <<Bar>> \o f) = [parent |-> p, name |-> f]
    BY <2>1, SplitsBack
  <2>3. ASSUME NEW f \in Names PROVE Split(f) = [parent |-> NoParent, name |-> f]
    BY <2>1, SplitsName
  <2>4. ASSUME NEW i \in DOMAIN parents
        PROVE  Split(FormatFullPath(parents[i].parent, parents[i].name)) = parents[i]
    <3>1. PICK p \in rows \cup {NoParent}, f \in Names : parents[i] = [parent |-> p, name |-> f]
      BY <2>1
    <3> QED BY <2>1, <2>2, <2>3, <3>1 DEF FormatFullPath
  <2> QED BY <2>2, <2>4 DEF PathsSplit
<1> QED BY <1>1, NamesInvariant, PTL

\* A ruleset whose identifiers Postgres keeps whole is created, whatever the others
\* are called: no identifier that was cut is in its way, those of its own
\* descendants included (create-ruleset.sql).
THEOREM FittingNamesAreFree == NamesSpec => []NamesFreeToChoose
<1>1. NamesInv => NamesFreeToChoose
  BY DEF NamesInv
<1> QED BY <1>1, NamesInvariant, PTL

\* The role that a fn or a migration of a ruleset runs with, by its name, is that
\* ruleset's and of that type, also where Postgres has cut it (lib.rs).
THEOREM RolesAreOwn == NamesSpec => []RolesOwn
<1>1. NamesInv => RolesOwn
  BY DEF NamesInv
<1> QED BY <1>1, NamesInvariant, PTL
====
