-------------------------------- MODULE Queries --------------------------------
(***************************************************************************)
(* generate_queries (common/src/gen_queries.rs): every .sql file becomes   *)
(* an executor in the generated TypeScript.  The names of parameters       *)
(* (":name", ":name?") are replaced by positions, the server prepares what *)
(* results, and the executor has one labelled hint per position, which is  *)
(* how callers and the runtime agree on the order of arguments.            *)
(*                                                                         *)
(* The files are handled concurrently (try_join_all); the first error or   *)
(* panic ends all of it.  SQL is reduced to what the visitor changes: the  *)
(* placeholders of a statement in the order they are visited, and what the *)
(* server says of its columns.                                             *)
(***************************************************************************)
EXTENDS Naturals, SequencesExt

CONSTANTS
  Files,    \* the .sql files of the directory
  Sources,  \* what a file may hold: a sequence of statements
  None

\* A placeholder is a name, which may be marked with "?", or a number that the
\* author has written; a column comes from a table the catalog query lists, from
\* one it leaves out, or from an expression.
Placeholder(t) == t.number \in Nat /\ (t.name = None <=> t.number > 0)
Columns == {"listed", "left out", "expression"}
Placeholders == UNION {UNION {Range(s[i].holes) : i \in DOMAIN s} : s \in Sources}

\* FullStatement: the generated text, with the hints of its positions.
FullStatements ==
  [kind : {"Statements", "Statement", "Query"},
   texts : Seq(Seq(Nat)),
   hints : Seq([name : {t.name : t \in Placeholders},
                nullable : {t.optional : t \in Placeholders}])]

ASSUME QueriesAssumption ==
  /\ IsFiniteSet(Files)
  /\ None \notin FullStatements
  /\ \A s \in Sources :
       /\ s \in Seq(Range(s))
       /\ \A i \in DOMAIN s :
            /\ s[i].holes \in Seq(Range(s[i].holes)) /\ s[i].columns \in Seq(Columns)
            /\ \A j \in DOMAIN s[i].holes : Placeholder(s[i].holes[j])

VARIABLES
  source,   \* source[f]: the statements of the file
  listed,   \* the files in the order of the directory walk
  task,     \* task[f]: the future of the file, and the statement it prepares
  made,     \* made[f]: the FullStatement
  outcome,  \* how generate_queries has ended
  fields    \* the executors in the generated text

queriesVars == <<source, listed, task, made, outcome, fields>>

Panics == {"unnamed parameter", "unknown column", "parameter among many"}

QueriesTypeOK ==
  /\ source \in [Files -> Sources]
  /\ listed \in SetToSeqs(Files)
  /\ \A f \in Files :
       /\ task[f].pc \in {"read", "prepare", "done"}
       /\ task[f].statement \in 0..Len(source[f]) + 1
       /\ made[f] \in FullStatements \cup {None}
       /\ task[f].pc = "done" <=> made[f] # None
  /\ outcome \in {"running", "ok", "error"} \cup Panics
  /\ Len(fields) = IF outcome = "ok" THEN Cardinality(Files) ELSE 0

QueriesInit ==
  /\ source \in [Files -> Sources]
  /\ listed \in SetToSeqs(Files)
  /\ task = [f \in Files |-> [pc |-> "read", statement |-> 0]]
  /\ made = [f \in Files |-> None]
  /\ outcome = "running"
  /\ fields = <<>>

-----------------------------------------------------------------------------
(* convert_named_params_to_positional *)

NoNames == [names |-> <<>>, texts |-> <<>>]

\* Mutant: a name that was seen before gets its position again, for which there
\* is an entry under the next index all the same.
PositionByName(r, t) ==
  LET seen == {i \in DOMAIN r.names : r.names[i].name = t.name}
  IN  IF seen = {} THEN Len(r.names) + 1 ELSE Max(seen)

\* get_position: a new one for every occurrence, counted from 1 in the text and
\* from 0 in param_map, which is a sequence here.
Position(r, t) == Len(r.names) + 1

\* post_visit_expr: numbers that the author wrote stay.
Visit(r, t) ==
  LET last == Len(r.texts)
      n == IF t.name = None THEN t.number ELSE Position(r, t)
  IN  [names |-> IF t.name = None THEN r.names ELSE Append(r.names, t),
       texts |-> [r.texts EXCEPT ![last] = Append(@, n)]]

\* One replacer visits all the statements of a file.
VisitStatement(r, s) == FoldLeft(Visit, [r EXCEPT !.texts = Append(@, <<>>)], s.holes)
Convert(statements) == FoldLeft(VisitStatement, NoNames, statements)

-----------------------------------------------------------------------------
(* The server's answer to PREPARE *)

Parameters(text) == Max(Range(text) \cup {0})

\* The type of a number that does not occur cannot be determined.
Preparable(text) == 1..Parameters(text) \subseteq Range(text)

-----------------------------------------------------------------------------
(* prepare_query *)

Goes(f, pc, k) == task' = [task EXCEPT ![f] = [pc |-> pc, statement |-> k]]

\* The whole of generate_queries ends, and with it the other futures.
EndsWith(how) ==
  /\ outcome' = how
  /\ UNCHANGED <<source, listed, task, made, fields>>

\* The file is read and parsed, or is not.
Read(f) ==
  /\ outcome = "running" /\ task[f].pc = "read"
  /\ \/ /\ Goes(f, "prepare", 1)
        /\ UNCHANGED <<source, listed, made, outcome, fields>>
     \/ EndsWith("error")

\* Mutant: the statement is lost.
MadeNothing(f, statement) ==
  /\ Goes(f, "done", task[f].statement)
  /\ UNCHANGED <<source, listed, made, outcome, fields>>

Made(f, statement) ==
  /\ Goes(f, "done", task[f].statement)
  /\ made' = [made EXCEPT ![f] = statement]
  /\ UNCHANGED <<source, listed, outcome, fields>>

\* Mutant: the hints of many statements are not looked at.
PrepareUnchecked(f) ==
  /\ outcome = "running" /\ task[f].pc = "prepare" /\ Len(source[f]) > 1
  /\ IF task[f].statement = Len(source[f])
       THEN Made(f, [kind |-> "Statements", texts |-> Convert(source[f]).texts, hints |-> <<>>])
       ELSE /\ Goes(f, "prepare", task[f].statement + 1)
            /\ UNCHANGED <<source, listed, made, outcome, fields>>

\* Several statements: each is prepared, and none may have a parameter.
PrepareOneOfMany(f) ==
  LET texts == Convert(source[f]).texts
      text == texts[task[f].statement]
  IN
  /\ outcome = "running" /\ task[f].pc = "prepare" /\ Len(source[f]) > 1
  /\ IF ~Preparable(text) THEN EndsWith("error")
     ELSE IF Parameters(text) # 0 THEN EndsWith("parameter among many")
     ELSE IF task[f].statement = Len(texts)
       THEN Made(f, [kind |-> "Statements", texts |-> texts, hints |-> <<>>])
     ELSE /\ Goes(f, "prepare", task[f].statement + 1)
          /\ UNCHANGED <<source, listed, made, outcome, fields>>

\* A single statement, or none: the server's parameters and columns are matched
\* with the names (query_vars.get(&index).unwrap()) and the catalog.
PrepareSingle(f) ==
  LET r == Convert(source[f])
      text == IF r.texts = <<>> THEN <<>> ELSE r.texts[1]
      columns == IF source[f] = <<>> THEN <<>> ELSE source[f][1].columns
  IN
  /\ outcome = "running" /\ task[f].pc = "prepare" /\ Len(source[f]) <= 1
  /\ IF ~Preparable(text) THEN EndsWith("error")
     ELSE IF Parameters(text) > Len(r.names) THEN EndsWith("unnamed parameter")
     ELSE IF Contains(columns, "left out") THEN EndsWith("unknown column")
     ELSE Made(f, [kind |-> IF columns = <<>> THEN "Statement" ELSE "Query",
                   texts |-> r.texts,
                   hints |-> [i \in 1..Parameters(text) |->
                                [name |-> r.names[i].name,
                                 nullable |-> r.names[i].optional]]])

\* The server refuses the statement for another reason, or cannot be reached.
PrepareFails(f) ==
  /\ outcome = "running" /\ task[f].pc = "prepare"
  /\ EndsWith("error")

\* try_join_all has all of them, in the order of the walk.
Generate ==
  /\ outcome = "running" /\ \A f \in Files : task[f].pc = "done"
  /\ outcome' = "ok"
  /\ fields' = [i \in 1..Len(listed) |-> made[listed[i]]]
  /\ UNCHANGED <<source, listed, task, made>>

QueriesNext ==
  \/ \E f \in Files : Read(f) \/ PrepareOneOfMany(f) \/ PrepareSingle(f) \/ PrepareFails(f)
  \/ Generate

QueriesSpec == QueriesInit /\ [][QueriesNext]_queriesVars

-----------------------------------------------------------------------------
(* Properties *)

SourceOf(i) == source[listed[i]]

\* The argument that a caller passes under a name is the one the server puts
\* where the author wrote that name, it is nullable exactly if the name was
\* marked, and every occurrence has an argument of its own.
NamesReachTheirPlaces ==
  \A i \in DOMAIN fields : Len(SourceOf(i)) = 1 =>
    LET holes == SourceOf(i)[1].holes
        text == fields[i].texts[1]
        named == {j \in DOMAIN holes : holes[j].name # None}
    IN  /\ \A j \in named :
             fields[i].hints[text[j]] = [name |-> holes[j].name, nullable |-> holes[j].optional]
        /\ \A j, k \in named : text[j] = text[k] => j = k

\* No executor has a placeholder that no argument is passed for.
NothingUnbound ==
  \A i \in DOMAIN fields : \A k \in DOMAIN fields[i].texts :
    Range(fields[i].texts[k]) \subseteq DOMAIN fields[i].hints
=============================================================================
