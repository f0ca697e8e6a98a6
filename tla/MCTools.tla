--------------------------------- MODULE MCTools ---------------------------------
(***************************************************************************)
(* The two models outside the server for TLC: the generation of queries by *)
(* the command line (Queries), and the frontend's requests (FetchRace).    *)
(* They share no state, so a behaviour is one of one of them, its subject. *)
(*                                                                         *)
(*   Queries    two files; single statements with up to three placeholders, *)
(*              several statements, and none                               *)
(*   FetchRace  three urls, or none, and four requests, of which three can *)
(*              be answered after one that is newer                        *)
(***************************************************************************)
EXTENDS Queries, FetchRace

CONSTANTS f1, f2, argA, argB

ByName(n, marked) == [name |-> n, optional |-> marked, number |-> 0]
ByNumber(k) == [name |-> None, optional |-> FALSE, number |-> k]
Holes == {ByName(argA, FALSE), ByName(argA, TRUE), ByName(argB, FALSE), ByNumber(1), ByNumber(2)}

Statement(holes, columns) == [holes |-> holes, columns |-> columns]
UpTo(n) == UNION {[1..k -> Holes] : k \in 0..n}

Singles == {<<Statement(h, <<"listed", "expression">>)>> : h \in UpTo(3)}
Many == {<<Statement(<<>>, <<>>), Statement(g, <<>>)>> :
           g \in {<<>>, <<ByName(argA, FALSE)>>, <<ByNumber(1)>>, <<ByNumber(2)>>}}
        \cup {<<Statement(<<ByName(argA, FALSE)>>, <<>>), Statement(<<ByName(argB, FALSE)>>, <<>>)>>}
Odd == {<<>>, <<Statement(<<>>, <<"left out">>)>>, <<Statement(<<>>, <<>>)>>}

AllSources == Singles \cup Many \cup Odd

VARIABLE subject

\* Of the files of Queries, a behaviour of FetchRace has one choice only.
MCInit ==
  /\ QueriesInit /\ FetchInit
  /\ \/ subject = "queries" /\ url = NoUrl
     \/ subject = "fetch" /\ source = [f \in Files |-> <<>>] /\ listed = <<f1, f2>>

QueriesStep == subject = "queries" /\ QueriesNext /\ UNCHANGED <<subject, fetchVars>>
FetchStep == subject = "fetch" /\ FetchNext /\ UNCHANGED <<subject, queriesVars>>

MCNext == QueriesStep \/ FetchStep

MCSpec == MCInit /\ [][MCNext]_<<subject, queriesVars, fetchVars>>

\* The variables of both have their types.
MCTypeOK == QueriesTypeOK /\ FetchTypeOK
=============================================================================
