------------------------------- MODULE Registry -------------------------------
(***************************************************************************)
(* What the server promises about rulesets and candidates, with no         *)
(* connections, no transactions and no requests: candidates are proposed,  *)
(* and a replacement happens in one step that installs a proposed bundle,  *)
(* runs its migration on the schema that is there, and removes candidates  *)
(* of the same ruleset and no other.                                       *)
(***************************************************************************)
EXTENDS Migrations

CONSTANTS Paths, CandidateIds, Root, None

ASSUME RegistryAssumption == Root \in Bundles

VARIABLES
  row,    \* row[p]: the bundle in votebase_catalog.ruleset for p
  live,   \* live[p]: the objects in the database schema of p
  cand    \* cand[c]: the row of votebase_catalog.candidate_replacement_ruleset

registryVars == <<row, live, cand>>

\* A candidate id is unused until its row is inserted, and never used again.
NoCandidate == [state |-> "unused", for |-> None, bundle |-> None]

Candidate ==
  [state : {"stored", "deleted"}, for : Paths, bundle : Bundles] \cup {NoCandidate}

Stored(c) == cand[c].state = "stored"

StoredFor(p) == {c \in CandidateIds : Stored(c) /\ cand[c].for = p}

WithDeleted(S) ==
  [c \in CandidateIds |-> IF c \in S THEN [cand[c] EXCEPT !.state = "deleted"]
                                     ELSE cand[c]]

RegistryInit ==
  /\ row = [p \in Paths |-> Root]
  /\ live = [p \in Paths |-> Adds[Root]]
  /\ cand = [c \in CandidateIds |-> NoCandidate]

Propose(c, p, b) ==
  /\ cand[c].state = "unused"
  /\ b \in Loads
  /\ cand' = [cand EXCEPT ![c] = [state |-> "stored", for |-> p, bundle |-> b]]
  /\ UNCHANGED <<row, live>>

\* The installed candidate leaves the table with the step, unless an earlier
\* replacement had removed it already; S are the candidates removed.
Install(c, S) ==
  LET p == cand[c].for
      b == cand[c].bundle
  IN /\ cand[c].state # "unused"
     /\ S \subseteq StoredFor(p)
     /\ Stored(c) => c \in S
     /\ MigrationRuns(live[p], b)
     /\ row' = [row EXCEPT ![p] = b]
     /\ live' = [live EXCEPT ![p] = Migrate(@, b)]
     /\ cand' = WithDeleted(S)

RegistryNext ==
  \E c \in CandidateIds :
    \/ \E p \in Paths, b \in Bundles : Propose(c, p, b)
    \/ \E S \in SUBSET CandidateIds : Install(c, S)

RegistrySpec == RegistryInit /\ [][RegistryNext]_registryVars

-----------------------------------------------------------------------------
\* What a ruleset's row records is what was done to its schema.  A bundle that
\* replaced another had been proposed for this ruleset, what its migration
\* created is there, and what it only dropped is not, whatever was proposed and
\* replaced in other rulesets.  The db_schema it declares may well differ.
InstalledIsLive ==
  \A p \in Paths :
    /\ Adds[row[p]] \subseteq live[p]
    /\ row[p] # Root =>
         /\ live[p] \cap (Drops[row[p]] \ Adds[row[p]]) = {}
         /\ \E c \in CandidateIds : /\ cand[c].state # "unused"
                                    /\ cand[c].for = p
                                    /\ cand[c].bundle = row[p]
=============================================================================
