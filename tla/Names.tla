--------------------------------- MODULE Names ---------------------------------
(***************************************************************************)
(* What rulesets, their schemas and their roles are called: the full path  *)
(* that the catalog builds from a parent and a name, the functions of      *)
(* common/src/lib.rs that split it and make identifiers of it, and the URL *)
(* of a function, from which the server takes a full path again.           *)
(*                                                                         *)
(* A string is a sequence of characters; the fixed parts ("role:",         *)
(* "ruleset:", the role types) count as one character each.  Postgres cuts *)
(* identifiers, which can make two of them one.                            *)
(***************************************************************************)
EXTENDS Naturals, SequencesExt

CONSTANTS
  Names,        \* names that valid_name allows: letters and digits only
  MaxIdentifier,\* how much of an identifier Postgres keeps
  MaxRulesets,
  NoParent

Bar == "|"
RoleTypes == {"migrator", "action", "view"}

\* What full paths and identifiers are made of.
Characters ==
  (UNION {Range(n) : n \in Names}) \cup RoleTypes \cup {Bar, "role:", "ruleset:"}

ASSUME NamesAssumption ==
  /\ \A n \in Names : n \in Seq(Range(n)) /\ n # <<>> /\ ~Contains(n, Bar)
  /\ NoParent \notin Seq(Characters)
  /\ MaxIdentifier \in Nat

VARIABLES
  rows,     \* the full paths in votebase_catalog.ruleset
  parents,  \* the parent_full_path and the name of each row
  schemas,  \* the schemas: their name, and whose they are
  roles     \* the roles: their name, whose and what they are

namesVars == <<rows, parents, schemas, roles>>

-----------------------------------------------------------------------------
(* lib.rs and schema.sql *)

\* format_full_path, and the generated column full_path.
FormatFullPath(parent, name) ==
  IF parent = NoParent THEN name ELSE parent \o <<Bar>> \o name

\* Mutant: the first delimiter splits.
FirstBar(s) == IF Contains(s, Bar) THEN Min({i \in DOMAIN s : s[i] = Bar}) ELSE 0

\* rfind, rsplit_once: the position of the last delimiter, 0 if there is none.
LastBar(s) == IF Contains(s, Bar) THEN Max({i \in DOMAIN s : s[i] = Bar}) ELSE 0

\* split_full_path; FnPath splits a URL in the same way, and rejects it without
\* a delimiter.
Split(path) ==
  LET at == LastBar(path) IN
  [parent |-> IF at = 0 THEN NoParent ELSE SubSeq(path, 1, at - 1),
   name |-> SubSeq(path, at + 1, Len(path))]

\* Mutant: the name of the ruleset instead of its path.
FormatRoleOfName(path, type) == <<"role:">> \o Split(path).name \o <<Bar, type>>

FormatRole(path, type) == <<"role:">> \o path \o <<Bar, type>>
FormatSchema(path) == <<"ruleset:">> \o path

-----------------------------------------------------------------------------
Kept(identifier) == SubSeq(identifier, 1, Min({Len(identifier), MaxIdentifier}))

SchemaName(path) == Kept(FormatSchema(path))
RoleName(path, type) == Kept(FormatRole(path, type))

\* Mutant: "if not exists".
CreatableAgain(path) == TRUE

\* create-ruleset.sql: a schema or role that exists is an error.
Creatable(path) ==
  /\ \A s \in schemas : s.name # SchemaName(path)
  /\ \A t \in RoleTypes : \A r \in roles : r.name # RoleName(path, t)
  /\ \A t, u \in RoleTypes : RoleName(path, t) = RoleName(path, u) => t = u

NamesInit == rows = {} /\ parents = <<>> /\ schemas = {} /\ roles = {}

\* create_ruleset: the row first, by itself; then the schema and the roles, or
\* none of them.
CreateRuleset(parent, name) ==
  LET path == FormatFullPath(parent, name) IN
  /\ path \notin rows /\ Cardinality(rows) < MaxRulesets
  /\ IF parent = NoParent THEN rows = {} ELSE parent \in rows
  /\ rows' = rows \cup {path}
  /\ parents' = Append(parents, [parent |-> parent, name |-> name])
  /\ \/ /\ Creatable(path)
        /\ schemas' = schemas \cup {[name |-> SchemaName(path), of |-> path]}
        /\ roles' = roles \cup {[name |-> RoleName(path, t), of |-> path, type |-> t] : t \in RoleTypes}
     \/ ~Creatable(path) /\ UNCHANGED <<schemas, roles>>

NamesNext == \E parent \in rows \cup {NoParent}, name \in Names : CreateRuleset(parent, name)
NamesSpec == NamesInit /\ [][NamesNext]_namesVars

-----------------------------------------------------------------------------
(* Properties *)

\* Every row comes from one call, and schemas and roles are of rows, under names
\* that Postgres has kept.
NamesTypeOK ==
  /\ \A i \in DOMAIN parents : parents[i].parent \in rows \cup {NoParent} /\ parents[i].name \in Names
  /\ rows = {FormatFullPath(parents[i].parent, parents[i].name) : i \in DOMAIN parents}
  /\ \A s \in schemas : s.of \in rows /\ Len(s.name) <= MaxIdentifier
  /\ \A r \in roles : r.of \in rows /\ r.type \in RoleTypes /\ Len(r.name) <= MaxIdentifier

\* A row's full path splits into its parent and its name, whichever rows the
\* path was built from; a function's URL splits into its ruleset and its name.
PathsSplit ==
  /\ \A i \in DOMAIN parents :
       Split(FormatFullPath(parents[i].parent, parents[i].name)) = parents[i]
  /\ \A p \in rows, f \in Names :
       Split(p \o <<Bar>> \o f) = [parent |-> p, name |-> f]

\* A ruleset whose identifiers are kept whole is created whatever the others are
\* called, also if theirs were cut.
Fits(path) == Len(path) + 3 <= MaxIdentifier
NamesFreeToChoose ==
  \A p \in rows : Fits(p) => \E s \in schemas : s.of = p

\* The role that a fn or a migration of a ruleset runs with is its own and of its
\* type, cut or not.
RolesOwn ==
  \A s \in schemas : \A t \in RoleTypes : \A r \in roles :
    r.name = RoleName(s.of, t) => r.of = s.of /\ r.type = t
=============================================================================
