------------------------------ MODULE ToolsProofs ------------------------------
(***************************************************************************)
(* Theorems about the two models outside the server, for every value of    *)
(* the constants: the frontend's requests (FetchRace) and the generation   *)
(* of queries (Queries).                                                   *)
(***************************************************************************)
EXTENDS MCTools, FiniteSetTheorems, SequenceTheorems,
        WellFoundedInduction, TLAPS

-----------------------------------------------------------------------------
(* FetchRace *)

FetchInv == FetchTypeOK /\ RefFollowsRequests

LEMMA FetchInvInit == FetchInit => FetchInv
<1> SUFFICES ASSUME FetchInit PROVE FetchInv
  OBVIOUS
<1>1. sent \in Seq(Urls) /\ Newest = 0 /\ MaxRequests \in Nat
  BY FetchAssumption DEF FetchInit, Newest
<1>2. FetchTypeOK
  <2>1. Newest <= MaxRequests /\ flight \subseteq 1..Newest
    BY <1>1 DEF FetchInit
  <2>2. inner.state \in Shown /\ inner.of \in Urls \union {NoUrl}
    BY DEF FetchInit, Shown
  <2> QED BY <1>1, <2>1, <2>2 DEF FetchInit, FetchTypeOK
<1>3. RefFollowsRequests
  BY <1>1 DEF RefFollowsRequests, FetchInit
<1> QED BY <1>2, <1>3 DEF FetchInv

\* What navigating, and an effect without a url, leave alone is all that
\* RefFollowsRequests speaks of.
LEMMA FetchInvElsewhere ==
  ASSUME FetchInv, url' \in Urls \union {NoUrl}, queued' \in BOOLEAN,
         UNCHANGED <<sent, flight, inner>>
  PROVE  FetchInv'
BY DEF FetchInv, FetchTypeOK, RefFollowsRequests, Newest

\* A new request is the newest, is in flight, and the ref is loading for it.
LEMMA FetchInvRun == FetchInv /\ Run => FetchInv'
<1> SUFFICES ASSUME FetchInv, Run PROVE FetchInv'
  OBVIOUS
<1>1. url \in Urls /\ sent \in Seq(Urls) /\ Newest < MaxRequests /\ MaxRequests \in Nat
  BY FetchAssumption DEF Run, FetchInv, FetchTypeOK
<1>2. sent' \in Seq(Urls) /\ Newest' = Newest + 1 /\ Newest \in Nat /\ sent'[Newest'] = url
  BY <1>1 DEF Run, Newest
<1>3. Newest' <= MaxRequests
  BY <1>1, <1>2
<1>4. flight' \subseteq 1..Newest' /\ Newest' \in flight'
  BY <1>2 DEF Run, FetchInv, FetchTypeOK
<1>5. FetchTypeOK'
  BY <1>1, <1>2, <1>3, <1>4 DEF Run, FetchInv, FetchTypeOK, Shown
<1>6. RefFollowsRequests'
  BY <1>2, <1>4 DEF Run, RefFollowsRequests
<1> QED BY <1>5, <1>6 DEF FetchInv

\* An answer is that of a request which is in flight no more.
LEMMA FetchInvAnswer ==
  ASSUME FetchInv, NEW i \in flight, NEW state \in {"ok", "error"}, Answer(i, state)
  PROVE  FetchInv'
<1>1. sent \in Seq(Urls) /\ flight \subseteq 1..Len(sent) /\ sent[i] \in Urls
  BY DEF FetchInv, FetchTypeOK, Newest
<1>2. inner' = [state |-> state, of |-> sent[i]] /\ Newest' = Newest /\ sent' = sent
  BY DEF Answer, Written, Newest
<1>3. FetchTypeOK'
  BY <1>1, <1>2 DEF Answer, FetchInv, FetchTypeOK, Shown, Newest
<1>4. i \in (1..Newest') \ flight' /\ inner'.of = sent'[i] /\ inner'.state \in {"ok", "error"}
  BY <1>1, <1>2 DEF Answer, Newest
<1>5. RefFollowsRequests'
  BY <1>4 DEF RefFollowsRequests
<1> QED BY <1>3, <1>5 DEF FetchInv

\* FetchInv is inductive, with any urls and any number of requests.
THEOREM FetchInvariant == FetchSpec => []FetchInv
<1>1. FetchInv /\ [FetchNext]_fetchVars => FetchInv'
  <2> SUFFICES ASSUME FetchInv, [FetchNext]_fetchVars PROVE FetchInv'
    OBVIOUS
  <2>1. CASE \E u \in Urls \union {NoUrl} : Navigate(u)
    BY <2>1, FetchInvElsewhere DEF Navigate
  <2>2. CASE RunWithoutUrl
    <3>1. url \in Urls \union {NoUrl}
      BY DEF FetchInv, FetchTypeOK
    <3> QED BY <2>2, <3>1, FetchInvElsewhere DEF RunWithoutUrl
  <2>3. CASE Run
    BY <2>3, FetchInvRun
  <2>4. CASE \E i \in flight, state \in {"ok", "error"} : Answer(i, state)
    BY <2>4, FetchInvAnswer
  <2>5. CASE UNCHANGED fetchVars
    BY <2>5, FetchInvElsewhere DEF fetchVars, FetchInv, FetchTypeOK
  <2> QED BY <2>1, <2>2, <2>3, <2>4, <2>5 DEF FetchNext
<1> QED BY <1>1, FetchInvInit, PTL DEF FetchSpec

\* The variables of the frontend's requests have their types.
THEOREM FetchTyped == FetchSpec => []FetchTypeOK
<1>1. FetchInv => FetchTypeOK
  BY DEF FetchInv
<1> QED BY <1>1, FetchInvariant, PTL

\* Whatever is navigated to and in whichever order answers come: nothing loads
\* without a request that will end it, and what is shown was asked for and
\* answered (index.ts:46-54).
THEOREM RefSound == FetchSpec => []RefFollowsRequests
<1>1. FetchInv => RefFollowsRequests
  BY DEF FetchInv
<1> QED BY <1>1, FetchInvariant, PTL

-----------------------------------------------------------------------------
(* What a fold computes: Queries converts a file by folding over it *)

\* Induction over the naturals, for a set of them.
LEMMA Induction ==
  ASSUME NEW T, 0 \in T, \A k \in Nat : k \in T => k + 1 \in T
  PROVE  \A k \in Nat : k \in T
<1> DEFINE R == {ss \in Nat \X Nat : ss[1] < ss[2]}
           B == {k \in Nat : k \notin T}
<1>1. IsWellFoundedOn(R, Nat)
  BY NatLessThanWellFounded DEF OpToRel
<1>2. SUFFICES ASSUME B # {} PROVE FALSE
  OBVIOUS
<1>3. PICK x \in B : \A y \in B : <<y, x>> \notin R
  <2> HIDE DEF R, B
  <2>1. B \subseteq Nat
    BY DEF B
  <2> QED BY <1>1, <1>2, <2>1, WFMin
<1>4. x \in Nat /\ x \notin T
  OBVIOUS
<1>5. x - 1 \in Nat /\ x - 1 + 1 = x
  BY <1>4
<1>6. <<x - 1, x>> \in R
  BY <1>4, <1>5
<1>7. x - 1 \in T
  BY <1>3, <1>5, <1>6
<1> QED BY <1>4, <1>5, <1>7

\* What CHOOSE takes for the greatest is the greatest.
LEMMA MaxIs ==
  ASSUME NEW S, NEW m \in S, m \in Nat, \A y \in S : y \in Nat /\ y <= m
  PROVE  Max(S) = m
<1>1. \A y \in S : m >= y
  OBVIOUS
<1>2. ASSUME NEW x \in S, \A y \in S : x >= y PROVE x = m
  BY <1>2
<1> QED BY <1>1, <1>2 DEF Max

\* Of a set of numbers up to a bound that is not empty, one is the greatest.
LEMMA MaxExists ==
  ASSUME NEW n \in Nat, NEW S \in SUBSET (0..n), S # {}
  PROVE  Max(S) \in S /\ \A y \in S : y <= Max(S)
<1> DEFINE T == {k \in Nat : \A U \in SUBSET (0..k) : U # {} => \E m \in U : \A y \in U : y <= m}
<1>1. 0 \in T
  <2> SUFFICES ASSUME NEW U \in SUBSET (0..0), U # {} PROVE \E m \in U : \A y \in U : y <= m
    OBVIOUS
  <2>1. \A y \in U : y = 0
    OBVIOUS
  <2>2. 0 \in U
    BY <2>1
  <2> QED BY <2>1, <2>2
<1>2. ASSUME NEW k \in Nat, k \in T PROVE k + 1 \in T
  <2> SUFFICES ASSUME NEW U \in SUBSET (0..k + 1), U # {} PROVE \E m \in U : \A y \in U : y <= m
    OBVIOUS
  <2>1. CASE k + 1 \in U
    BY <2>1
  <2>2. CASE k + 1 \notin U
    <3>1. U \in SUBSET (0..k)
      BY <2>2
    <3> QED BY <1>2, <3>1
  <2> QED BY <2>1, <2>2
<1> HIDE DEF T
<1>3. n \in T
  BY <1>1, <1>2, Induction
<1>4. PICK m \in S : \A y \in S : y <= m
  BY <1>3 DEF T
<1>5. Max(S) = m
  <2>1. m \in Nat /\ \A y \in S : y \in Nat
    OBVIOUS
  <2> QED BY <1>4, <2>1, MaxIs
<1> QED BY <1>4, <1>5

\* v solves FoldLeft's recursion over sets of the positions 1..n, for a step st
\* from values in R to values in R; w is the walk of the fold, position by position.
Solves(v, base, n, st, R) ==
  /\ v[{}] = base
  /\ \A s \in SUBSET (1..n) :
       s # {} /\ v[s \ {Max(s)}] \in R => v[s] = st[<<Max(s), v[s \ {Max(s)}]>>]
Walks(w, base, n, st) ==
  w[0] = base /\ \A k \in 1..n : w[k] = st[<<k, w[k - 1]>>]
Walked(u, base, n, st, R) ==
  \E w \in [0..n -> R] : Walks(w, base, n, st) /\ u[1..n] = w[n]

\* The recursion's way from 1..k to 1..k - 1.
LEMMA UpToLast ==
  ASSUME NEW n \in Nat, NEW k \in 1..n
  PROVE  /\ 1..k \in SUBSET (1..n) /\ 1..k # {} /\ Max(1..k) = k
         /\ (1..k) \ {k} = 1..k - 1
<1>1. k \in Nat /\ k \in 1..k /\ \A y \in 1..k : y \in Nat /\ y <= k /\ y \in 1..n
  OBVIOUS
<1>2. Max(1..k) = k
  BY <1>1, MaxIs
<1>3. (1..k) \ {k} = 1..k - 1
  OBVIOUS
<1> QED BY <1>1, <1>2, <1>3

\* A fold over the positions 1..n, by a step that is a function: FoldLeft's own
\* recursion over sets of positions has a solution, and in it the fold of 1..k is
\* the step at k of the fold of 1..k - 1.
LEMMA FoldExists ==
  ASSUME NEW R, NEW base \in R, NEW n \in Nat, NEW st \in [(1..n) \X R -> R]
  PROVE  \E v \in [SUBSET (1..n) -> R] : Solves(v, base, n, st, R)
<1> DEFINE Eq(v, k) == Solves(v, base, k, st, R)
           Solved(k) == \E v \in [SUBSET (1..k) -> R] : Eq(v, k)
           T == {k \in Nat : k <= n => Solved(k)}
<1>1. 0 \in T
  <2> DEFINE v == [s \in SUBSET (1..0) |-> base]
  <2>1. \A s \in SUBSET (1..0) : s = {}
    OBVIOUS
  <2>2. v \in [SUBSET (1..0) -> R] /\ Eq(v, 0)
    BY <2>1 DEF Solves
  <2> HIDE DEF v, Eq
  <2>3. Solved(0)
    BY <2>2
  <2> QED BY <2>3
<1>2. ASSUME NEW k \in Nat, k \in T PROVE k + 1 \in T
  <2> HIDE DEF Solved
  <2> SUFFICES ASSUME k + 1 <= n PROVE Solved(k + 1)
    OBVIOUS
  <2>0. Solved(k)
    BY <1>2
  <2>1. PICK u \in [SUBSET (1..k) -> R] : Eq(u, k)
    BY <2>0 DEF Solved
  <2> DEFINE v == [s \in SUBSET (1..k + 1) |->
                     IF k + 1 \in s THEN st[<<k + 1, u[s \ {k + 1}]>>] ELSE u[s]]
  <2>2. ASSUME NEW s \in SUBSET (1..k + 1)
        PROVE  /\ k + 1 \in s => s \ {k + 1} \in SUBSET (1..k) /\ Max(s) = k + 1
               /\ k + 1 \notin s => s \in SUBSET (1..k)
    <3>1. \A i \in s : i \in Nat /\ i <= k + 1 /\ (i # k + 1 => i \in 1..k)
      OBVIOUS
    <3>2. k + 1 \in s => Max(s) = k + 1
      BY <3>1, MaxIs
    <3> QED BY <3>1, <3>2
  <2>3. k + 1 \in 1..n
    OBVIOUS
  <2>4. v \in [SUBSET (1..k + 1) -> R]
    <3>1. ASSUME NEW s \in SUBSET (1..k + 1)
          PROVE  (IF k + 1 \in s THEN st[<<k + 1, u[s \ {k + 1}]>>] ELSE u[s]) \in R
      BY <2>1, <2>2, <2>3
    <3> QED BY <3>1
  <2>5. ASSUME NEW s \in SUBSET (1..k) PROVE v[s] = u[s]
    BY <2>5
  <2>6. Eq(v, k + 1)
    <3>0. v[{}] = base
      BY <2>1, <2>5 DEF Solves
    <3> SUFFICES ASSUME NEW s \in SUBSET (1..k + 1), s # {}
                 PROVE  v[s] = st[<<Max(s), v[s \ {Max(s)}]>>]
      BY <3>0 DEF Solves
    <3>1. CASE k + 1 \in s
      <4>1. v[s] = st[<<k + 1, u[s \ {k + 1}]>>] /\ s # {} /\ Max(s) = k + 1
        BY <2>2, <3>1
      <4>2. v[s \ {k + 1}] = u[s \ {k + 1}]
        BY <2>2, <2>5, <3>1
      <4> HIDE DEF v
      <4> QED BY <4>1, <4>2
    <3>2. CASE k + 1 \notin s
      <4>1. s \in SUBSET (1..k) /\ v[s] = u[s]
        BY <2>2, <2>5, <3>2
      <4>2. u[s] = st[<<Max(s), u[s \ {Max(s)}]>>]
        <5>1. s \ {Max(s)} \in SUBSET (1..k)
          BY <4>1
        <5> QED BY <2>1, <4>1, <5>1 DEF Solves
      <4>3. v[s \ {Max(s)}] = u[s \ {Max(s)}]
        BY <2>5, <4>1
      <4> HIDE DEF v
      <4> QED BY <4>1, <4>2, <4>3
    <3> QED BY <3>1, <3>2
  <2> HIDE DEF v, Eq
  <2> QED BY <2>4, <2>6 DEF Solved
<1> HIDE DEF T
<1>3. n \in T
  BY <1>1, <1>2, Induction
<1>4. Solved(n)
  <2> HIDE DEF Solved
  <2> QED BY <1>3 DEF T
<1> QED BY <1>4

\* Whatever solves the recursion is the walk from base, position by position.
LEMMA FoldWalks ==
  ASSUME NEW R, NEW base \in R, NEW n \in Nat, NEW st \in [(1..n) \X R -> R], NEW u,
         Solves(u, base, n, st, R)
  PROVE  Walked(u, base, n, st, R)
<1>1. u[1..0] = base
  <2>1. 1..0 = {}
    OBVIOUS
  <2> QED BY <2>1 DEF Solves
<1>2. ASSUME NEW k \in 1..n, u[1..k - 1] \in R PROVE u[1..k] = st[<<k, u[1..k - 1]>>]
  <2>1. 1..k \in SUBSET (1..n) /\ 1..k # {} /\ Max(1..k) = k /\ (1..k) \ {k} = 1..k - 1
    BY UpToLast
  <2> QED BY <1>2, <2>1 DEF Solves
<1> DEFINE w == [k \in 0..n |-> u[1..k]]
           T == {k \in Nat : k <= n => u[1..k] \in R}
<1>3. 0 \in T
  BY <1>1
<1>4. ASSUME NEW k \in Nat, k \in T PROVE k + 1 \in T
  <2>1. SUFFICES ASSUME k + 1 <= n PROVE u[1..k + 1] \in R
    OBVIOUS
  <2>2. k + 1 \in 1..n /\ k + 1 - 1 = k /\ u[1..k] \in R
    BY <1>4, <2>1
  <2>3. u[1..k + 1] = st[<<k + 1, u[1..k]>>]
    BY <1>2, <2>2
  <2> QED BY <2>2, <2>3
<1>5. \A k \in Nat : k \in T
  <2> HIDE DEF T
  <2> QED BY <1>3, <1>4, Induction
<1>6. w \in [0..n -> R]
  BY <1>5
<1>7. w[0] = base /\ w[n] = u[1..n]
  BY <1>1
<1>8. ASSUME NEW k \in 1..n PROVE w[k] = st[<<k, w[k - 1]>>]
  <2>1. k \in 0..n /\ k - 1 \in 0..n /\ k - 1 \in Nat /\ k - 1 <= n
    OBVIOUS
  <2>2. u[1..k - 1] \in R
    BY <1>5, <2>1
  <2> QED BY <1>2, <2>1, <2>2
<1> HIDE DEF w
<1> QED BY <1>6, <1>7, <1>8 DEF Walks, Walked

-----------------------------------------------------------------------------
(* Folding Visit and VisitStatement *)

Visited(r, holes) == FoldLeft(Visit, r, holes)
VisitedStatements(r, statements) == FoldLeft(VisitStatement, r, statements)

VisitsBy(w, base, holes, n) ==
  /\ w[0] = base
  /\ \A k \in 1..n : w[k] = Visit(w[k - 1], holes[k])
  /\ Visited(base, holes) = w[n]
StatementsBy(w, base, statements, n) ==
  /\ w[0] = base
  /\ \A k \in 1..n : w[k] = VisitStatement(w[k - 1], statements[k])
  /\ VisitedStatements(base, statements) = w[n]

\* The fold of one statement's placeholders is the walk over them.
LEMMA VisitFold ==
  ASSUME NEW R, NEW base \in R, NEW holes, NEW n \in Nat, DOMAIN holes = 1..n,
         \A r \in R : \A i \in 1..n : Visit(r, holes[i]) \in R
  PROVE  \E w \in [0..n -> R] : VisitsBy(w, base, holes, n)
<1> DEFINE st == [x \in (1..n) \X R |-> Visit(x[2], holes[x[1]])]
           Body(v, s) == IF s = {} THEN base ELSE Visit(v[s \ {Max(s)}], holes[Max(s)])
           Eq(v) == v = [s \in SUBSET DOMAIN holes |-> Body(v, s)]
           u == CHOOSE v : Eq(v)
<1>1. st \in [(1..n) \X R -> R] /\ \A i \in 1..n, r \in R : st[<<i, r>>] = Visit(r, holes[i])
  OBVIOUS
<1>2. Visited(base, holes) = u[1..n]
  <2>1. Visited(base, holes) = u[DOMAIN holes]
    BY DEF Visited, FoldLeft, MapThenFoldSet
  <2> HIDE DEF u
  <2> QED BY <2>1
<1> HIDE DEF st
<1>3. \A s \in SUBSET (1..n) : s # {} => Max(s) \in 1..n
  <2>1. \A s \in SUBSET (1..n) : s \in SUBSET (0..n)
    OBVIOUS
  <2> QED BY <2>1, MaxExists
<1>4. \E v : Eq(v)
  <2>1. PICK v \in [SUBSET (1..n) -> R] : Solves(v, base, n, st, R)
    BY <1>1, FoldExists
  <2>2. ASSUME NEW s \in SUBSET (1..n) PROVE v[s] = Body(v, s)
    <3>1. v[s \ {Max(s)}] \in R
      OBVIOUS
    <3> QED BY <1>1, <1>3, <2>1, <3>1 DEF Solves
  <2> HIDE DEF Body
  <2> QED BY <2>2
<1>5. Eq(u)
  <2> HIDE DEF Eq
  <2> QED BY <1>4
<1>6. \A s \in SUBSET (1..n) : u[s] = Body(u, s)
  <2> HIDE DEF u, Body
  <2> QED BY <1>5
<1> HIDE DEF u, Eq
<1>7. PICK w \in [0..n -> R] : Walks(w, base, n, st) /\ u[1..n] = w[n]
  <2>1. u[{}] = base
    BY <1>6
  <2>2. ASSUME NEW s \in SUBSET (1..n), s # {}, u[s \ {Max(s)}] \in R
        PROVE  u[s] = st[<<Max(s), u[s \ {Max(s)}]>>]
    BY <1>1, <1>3, <1>6, <2>2
  <2>3. Solves(u, base, n, st, R)
    BY <2>1, <2>2 DEF Solves
  <2>4. st \in [(1..n) \X R -> R]
    BY <1>1
  <2>5. Walked(u, base, n, st, R)
    BY <2>3, <2>4, FoldWalks
  <2> QED BY <2>5 DEF Walked
<1>8. ASSUME NEW k \in 1..n PROVE w[k] = Visit(w[k - 1], holes[k])
  <2>1. w[k - 1] \in R
    OBVIOUS
  <2> QED BY <1>1, <1>7, <2>1 DEF Walks
<1> QED BY <1>2, <1>7, <1>8 DEF Walks, VisitsBy

\* The fold of a file's statements is the walk over them.  (A lemma for all steps
\* would have an operator as a parameter.)
LEMMA StatementsFold ==
  ASSUME NEW R, NEW base \in R, NEW statements, NEW n \in Nat, DOMAIN statements = 1..n,
         \A r \in R : \A i \in 1..n : VisitStatement(r, statements[i]) \in R
  PROVE  \E w \in [0..n -> R] : StatementsBy(w, base, statements, n)
<1> DEFINE st == [x \in (1..n) \X R |-> VisitStatement(x[2], statements[x[1]])]
           Body(v, s) == IF s = {} THEN base ELSE VisitStatement(v[s \ {Max(s)}], statements[Max(s)])
           Eq(v) == v = [s \in SUBSET DOMAIN statements |-> Body(v, s)]
           u == CHOOSE v : Eq(v)
<1>1. st \in [(1..n) \X R -> R] /\ \A i \in 1..n, r \in R : st[<<i, r>>] = VisitStatement(r, statements[i])
  OBVIOUS
<1>2. VisitedStatements(base, statements) = u[1..n]
  <2>1. VisitedStatements(base, statements) = u[DOMAIN statements]
    BY DEF VisitedStatements, FoldLeft, MapThenFoldSet
  <2> HIDE DEF u
  <2> QED BY <2>1
<1> HIDE DEF st
<1>3. \A s \in SUBSET (1..n) : s # {} => Max(s) \in 1..n
  <2>1. \A s \in SUBSET (1..n) : s \in SUBSET (0..n)
    OBVIOUS
  <2> QED BY <2>1, MaxExists
<1>4. \E v : Eq(v)
  <2>1. PICK v \in [SUBSET (1..n) -> R] : Solves(v, base, n, st, R)
    BY <1>1, FoldExists
  <2>2. ASSUME NEW s \in SUBSET (1..n) PROVE v[s] = Body(v, s)
    <3>1. v[s \ {Max(s)}] \in R
      OBVIOUS
    <3> QED BY <1>1, <1>3, <2>1, <3>1 DEF Solves
  <2> HIDE DEF Body
  <2> QED BY <2>2
<1>5. Eq(u)
  <2> HIDE DEF Eq
  <2> QED BY <1>4
<1>6. \A s \in SUBSET (1..n) : u[s] = Body(u, s)
  <2> HIDE DEF u, Body
  <2> QED BY <1>5
<1> HIDE DEF u, Eq
<1>7. PICK w \in [0..n -> R] : Walks(w, base, n, st) /\ u[1..n] = w[n]
  <2>1. u[{}] = base
    BY <1>6
  <2>2. ASSUME NEW s \in SUBSET (1..n), s # {}, u[s \ {Max(s)}] \in R
        PROVE  u[s] = st[<<Max(s), u[s \ {Max(s)}]>>]
    BY <1>1, <1>3, <1>6, <2>2
  <2>3. Solves(u, base, n, st, R)
    BY <2>1, <2>2 DEF Solves
  <2>4. st \in [(1..n) \X R -> R]
    BY <1>1
  <2>5. Walked(u, base, n, st, R)
    BY <2>3, <2>4, FoldWalks
  <2> QED BY <2>5 DEF Walked
<1>8. ASSUME NEW k \in 1..n PROVE w[k] = VisitStatement(w[k - 1], statements[k])
  <2>1. w[k - 1] \in R
    OBVIOUS
  <2> QED BY <1>1, <1>7, <2>1 DEF Walks
<1> QED BY <1>2, <1>7, <1>8 DEF Walks, StatementsBy
-----------------------------------------------------------------------------
(* What a file is converted to *)

Number == Nat \ {0}
Named(t) == t.name # None
Numberings == [names : Seq(Placeholders), texts : Seq(Seq(Number))]

\* A file of Sources is a sequence of statements, whose placeholders are Placeholders.
LEMMA SourceIs ==
  ASSUME NEW src \in Sources
  PROVE  /\ Len(src) \in Nat /\ DOMAIN src = 1..Len(src)
         /\ \A i \in 1..Len(src) :
              /\ src[i].holes \in Seq(Placeholders)
              /\ \A j \in 1..Len(src[i].holes) : Placeholder(src[i].holes[j])
              /\ src[i].columns \in Seq(Columns)
<1>1. src \in Seq(Range(src))
  BY QueriesAssumption
<1>2. Len(src) \in Nat /\ DOMAIN src = 1..Len(src)
  BY <1>1, LenProperties
<1>3. ASSUME NEW i \in 1..Len(src)
      PROVE  /\ src[i].holes \in Seq(Placeholders)
             /\ \A j \in 1..Len(src[i].holes) : Placeholder(src[i].holes[j])
             /\ src[i].columns \in Seq(Columns)
  <2> DEFINE h == src[i].holes
  <2>1. /\ h \in Seq(Range(h)) /\ src[i].columns \in Seq(Columns)
        /\ \A j \in DOMAIN h : Placeholder(h[j])
    BY <1>2, QueriesAssumption
  <2>2. DOMAIN h = 1..Len(h)
    BY <2>1, LenProperties
  <2>3. Range(h) \subseteq Placeholders
    BY <1>2 DEF Placeholders
  <2>4. h \in Seq(Placeholders)
    BY <2>1, <2>3, SeqMonotonic
  <2> QED BY <2>1, <2>2, <2>4
<1> QED BY <1>2, <1>3

\* What visiting a placeholder does to the text that is being written.
LEMMA VisitIs ==
  ASSUME NEW r \in Numberings, r.texts # <<>>, NEW t \in Placeholders, Placeholder(t)
  PROVE  LET last == Len(r.texts)
             n == IF Named(t) THEN Len(r.names) + 1 ELSE t.number
         IN  /\ last \in 1..Len(r.texts) /\ r.texts[last] \in Seq(Number) /\ n \in Number
             /\ Visit(r, t).names = IF Named(t) THEN Append(r.names, t) ELSE r.names
             /\ Visit(r, t).texts = [r.texts EXCEPT ![last] = Append(r.texts[last], n)]
             /\ Visit(r, t) \in Numberings
             /\ Len(Visit(r, t).texts) = last
<1> DEFINE last == Len(r.texts)
           n == IF Named(t) THEN Len(r.names) + 1 ELSE t.number
           text == Append(r.texts[last], n)
<1>1. r.names \in Seq(Placeholders) /\ r.texts \in Seq(Seq(Number))
  BY DEF Numberings
<1>2. last \in Nat /\ last \in 1..Len(r.texts) /\ r.texts[last] \in Seq(Number)
  BY <1>1
<1>3. n \in Number
  <2>1. Len(r.names) + 1 \in Nat \ {0}
    BY <1>1
  <2>2. ~Named(t) => t.number \in Nat \ {0}
    BY DEF Placeholder, Named
  <2> QED BY <2>1, <2>2 DEF Number
<1>4. text \in Seq(Number)
  BY <1>2, <1>3
<1>5. /\ Visit(r, t).names = IF Named(t) THEN Append(r.names, t) ELSE r.names
      /\ Visit(r, t).texts = [r.texts EXCEPT ![last] = text]
  BY DEF Visit, Position, Named
<1>6. /\ [r.texts EXCEPT ![last] = text] \in Seq(Seq(Number))
      /\ Len([r.texts EXCEPT ![last] = text]) = last
  <2> HIDE DEF text
  <2> QED BY <1>1, <1>2, <1>4, ExceptSeq
<1>7. (IF Named(t) THEN Append(r.names, t) ELSE r.names) \in Seq(Placeholders)
  BY <1>1
<1>8. Visit(r, t) = [names |-> Visit(r, t).names, texts |-> Visit(r, t).texts]
  BY DEF Visit
<1>9. Visit(r, t) \in Numberings
  BY <1>5, <1>6, <1>7, <1>8 DEF Numberings
<1> QED BY <1>2, <1>3, <1>5, <1>6, <1>9

\* A file's statements become as many texts.
LEMMA StatementIs ==
  ASSUME NEW r \in Numberings, NEW s, s.holes \in Seq(Placeholders),
         \A j \in 1..Len(s.holes) : Placeholder(s.holes[j])
  PROVE  /\ VisitStatement(r, s) \in Numberings
         /\ Len(VisitStatement(r, s).texts) = Len(r.texts) + 1
<1> DEFINE h == s.holes
           n == Len(r.texts) + 1
           R == {q \in Numberings : Len(q.texts) = n}
           base == [r EXCEPT !.texts = Append(@, <<>>)]
<1>1. n \in Nat /\ n # 0 /\ Len(h) \in Nat /\ DOMAIN h = 1..Len(h)
  BY LenProperties DEF Numberings
<1>2. base \in R
  <2>1. <<>> \in Seq(Number) /\ r.texts \in Seq(Seq(Number))
    BY DEF Numberings
  <2>2. Append(r.texts, <<>>) \in Seq(Seq(Number)) /\ Len(Append(r.texts, <<>>)) = n
    BY <2>1, AppendProperties
  <2> QED BY <2>2 DEF Numberings
<1>3. ASSUME NEW q \in R, NEW i \in 1..Len(h) PROVE Visit(q, h[i]) \in R
  <2>1. q.texts # <<>> /\ q.texts \in Seq(Seq(Number))
    BY <1>1 DEF Numberings
  <2>2. h[i] \in Placeholders /\ Placeholder(h[i])
    BY ElementOfSeq
  <2> QED BY <2>1, <2>2, VisitIs
<1> HIDE DEF R, base, h, n
<1>4. PICK w \in [0..Len(h) -> R] : VisitsBy(w, base, h, Len(h))
  BY <1>1, <1>2, <1>3, VisitFold
<1>5. VisitStatement(r, s) = w[Len(h)] /\ w[Len(h)] \in R
  <2>1. VisitStatement(r, s) = Visited(base, h)
    BY DEF VisitStatement, Visited, base, h
  <2> QED BY <1>1, <1>4, <2>1 DEF VisitsBy
<1> QED BY <1>5 DEF R, n

\* A file is converted statement by statement.
LEMMA ConvertWalk ==
  ASSUME NEW src \in Sources
  PROVE  /\ Convert(src) = VisitedStatements(NoNames, src)
         /\ \E w \in [0..Len(src) -> Numberings] : StatementsBy(w, NoNames, src, Len(src))
<1>1. Len(src) \in Nat /\ DOMAIN src = 1..Len(src)
  BY SourceIs
<1>2. NoNames \in Numberings
  BY DEF NoNames, Numberings
<1>3. \A r \in Numberings : \A i \in 1..Len(src) : VisitStatement(r, src[i]) \in Numberings
  BY SourceIs, StatementIs
<1>4. Convert(src) = VisitedStatements(NoNames, src)
  BY DEF Convert, VisitedStatements
<1> QED BY <1>1, <1>2, <1>3, <1>4, StatementsFold

\* Each statement has become a text.
LEMMA ConvertIs ==
  ASSUME NEW src \in Sources
  PROVE  Convert(src) \in Numberings /\ Len(Convert(src).texts) = Len(src)
<1>0. PICK w \in [0..Len(src) -> Numberings] : StatementsBy(w, NoNames, src, Len(src))
  BY ConvertWalk
<1>1. /\ w[0] = NoNames
      /\ \A k \in 1..Len(src) : w[k] = VisitStatement(w[k - 1], src[k])
      /\ Convert(src) = w[Len(src)]
  BY <1>0, ConvertWalk DEF StatementsBy
<1>2. Len(src) \in Nat
  BY SourceIs
<1> DEFINE T == {k \in Nat : k <= Len(src) => Len(w[k].texts) = k}
<1>3. 0 \in T
  BY <1>1 DEF NoNames
<1>4. ASSUME NEW k \in Nat, k \in T PROVE k + 1 \in T
  <2>1. SUFFICES ASSUME k + 1 <= Len(src) PROVE Len(w[k + 1].texts) = k + 1
    OBVIOUS
  <2>2. k + 1 \in 1..Len(src) /\ k + 1 - 1 = k /\ k \in 0..Len(src)
    BY <1>2, <2>1
  <2>3. w[k + 1] = VisitStatement(w[k], src[k + 1]) /\ Len(w[k].texts) = k
    BY <1>1, <1>4, <2>2
  <2>4. w[k] \in Numberings
    BY <2>2
  <2>5. Len(VisitStatement(w[k], src[k + 1]).texts) = Len(w[k].texts) + 1
    BY <2>2, <2>4, SourceIs, StatementIs
  <2> QED BY <2>3, <2>5
<1>5. Len(src) \in T
  <2> HIDE DEF T
  <2> QED BY <1>2, <1>3, <1>4, Induction
<1> QED BY <1>1, <1>2, <1>5

\* After k placeholders of the only statement: the position that each name was
\* given is one that has that name, and no two were given the same.
Placed(r, h, k) ==
  /\ r \in Numberings /\ Len(r.texts) = 1 /\ Len(r.texts[1]) = k
  /\ \A j \in 1..k : Named(h[j]) =>
       r.texts[1][j] \in 1..Len(r.names) /\ r.names[r.texts[1][j]] = h[j]
  /\ \A i, j \in 1..k : Named(h[i]) /\ Named(h[j]) /\ i < j =>
       r.texts[1][i] < r.texts[1][j]

\* The next placeholder gets a number after those of the names before it.
LEMMA PlacedStep ==
  ASSUME NEW h \in Seq(Placeholders), \A j \in 1..Len(h) : Placeholder(h[j]),
         NEW k \in Nat, k + 1 <= Len(h), NEW r, Placed(r, h, k)
  PROVE  Placed(Visit(r, h[k + 1]), h, k + 1)
<1> DEFINE t == h[k + 1]
           v == Visit(r, t)
           n == IF Named(t) THEN Len(r.names) + 1 ELSE t.number
           old == r.texts[1]
           new == v.texts[1]
<1>1. k + 1 \in 1..Len(h) /\ t \in Placeholders /\ Placeholder(t)
  BY ElementOfSeq
<1>2. /\ r \in Numberings /\ r.names \in Seq(Placeholders) /\ r.texts \in Seq(Seq(Number))
      /\ Len(r.texts) = 1 /\ r.texts # <<>> /\ Len(old) = k
  BY DEF Placed, Numberings
<1>3. /\ old \in Seq(Number) /\ n \in Number
      /\ v.names = IF Named(t) THEN Append(r.names, t) ELSE r.names
      /\ v.texts = [r.texts EXCEPT ![1] = Append(old, n)]
      /\ v \in Numberings /\ Len(v.texts) = 1
  <2> DEFINE last == Len(r.texts)
  <2>1. /\ r.texts[last] \in Seq(Number) /\ n \in Number
        /\ v.names = IF Named(t) THEN Append(r.names, t) ELSE r.names
        /\ v.texts = [r.texts EXCEPT ![last] = Append(r.texts[last], n)]
        /\ v \in Numberings /\ Len(v.texts) = last
    BY <1>1, <1>2, VisitIs
  <2>2. last = 1
    BY <1>2
  <2> HIDE DEF last, n, v, t
  <2> QED BY <2>1, <2>2
<1> HIDE DEF t, v, n, old
<1>4. new = Append(old, n)
  BY <1>2, <1>3
<1>5. /\ Len(new) = k + 1 /\ new[k + 1] = n
      /\ \A j \in 1..k : new[j] = old[j]
  <2>1. Append(old, n) \in Seq(Number) /\ Len(Append(old, n)) = Len(old) + 1
        /\ \A j \in 1..Len(old) : Append(old, n)[j] = old[j]
    BY <1>3, AppendProperties
  <2>2. Append(old, n)[Len(old) + 1] = n
    BY <1>3, AppendProperties
  <2> QED BY <1>2, <1>4, <2>1, <2>2
<1> HIDE DEF new
<1>6. /\ Len(r.names) \in Nat /\ Len(v.names) \in Nat /\ Len(r.names) <= Len(v.names)
      /\ \A i \in 1..Len(r.names) : v.names[i] = r.names[i]
      /\ Named(t) => n = Len(r.names) + 1 /\ Len(v.names) = n /\ v.names[n] = t
  <2>1. CASE Named(t)
    BY <1>1, <1>2, <1>3, <2>1, AppendProperties DEF n
  <2>2. CASE ~Named(t)
    BY <1>2, <1>3, <2>2
  <2> QED BY <2>1, <2>2
<1>7. /\ \A j \in 1..k : Named(h[j]) => old[j] \in 1..Len(r.names) /\ r.names[old[j]] = h[j]
      /\ \A i, j \in 1..k : Named(h[i]) /\ Named(h[j]) /\ i < j => old[i] < old[j]
  BY DEF Placed, old
<1>8. ASSUME NEW j \in 1..k + 1, Named(h[j])
      PROVE  new[j] \in 1..Len(v.names) /\ v.names[new[j]] = h[j]
  <2>1. CASE j \in 1..k
    BY <1>5, <1>6, <1>7, <1>8, <2>1
  <2>2. CASE j = k + 1
    BY <1>5, <1>6, <1>8, <2>2 DEF t
  <2> QED BY <2>1, <2>2
<1>9. ASSUME NEW i \in 1..k + 1, NEW j \in 1..k + 1, Named(h[i]), Named(h[j]), i < j
      PROVE  new[i] < new[j]
  <2>1. i \in 1..k
    BY <1>9
  <2>2. CASE j \in 1..k
    BY <1>5, <1>7, <1>9, <2>1, <2>2
  <2>3. CASE j = k + 1
    <3>1. new[j] = Len(r.names) + 1
      BY <1>5, <1>6, <1>9, <2>3 DEF t
    <3>2. new[i] \in 1..Len(r.names)
      BY <1>5, <1>7, <1>9, <2>1
    <3> QED BY <1>6, <3>1, <3>2
  <2> QED BY <2>2, <2>3
<1>10. Placed(v, h, k + 1)
  BY <1>3, <1>5, <1>8, <1>9 DEF Placed, new
<1> QED BY <1>10 DEF v, t

\* The only statement of a file: as many numbers as placeholders, each name's its own.
LEMMA ConvertSingle ==
  ASSUME NEW src \in Sources, Len(src) = 1
  PROVE  Placed(Convert(src), src[1].holes, Len(src[1].holes))
<1> DEFINE h == src[1].holes
           base == [NoNames EXCEPT !.texts = Append(@, <<>>)]
           R == {q \in Numberings : Len(q.texts) = 1}
<1>1. /\ h \in Seq(Placeholders) /\ \A j \in 1..Len(h) : Placeholder(h[j])
      /\ Len(h) \in Nat /\ DOMAIN h = 1..Len(h)
  BY SourceIs, LenProperties
<1>2. Convert(src) = Visited(base, h)
  <2>1. PICK w \in [0..Len(src) -> Numberings] : StatementsBy(w, NoNames, src, Len(src))
    BY ConvertWalk
  <2>2. 1 \in 1..Len(src) /\ 1 - 1 = 0
    OBVIOUS
  <2>3. Convert(src) = VisitStatement(NoNames, src[1])
    BY <2>1, <2>2, ConvertWalk DEF StatementsBy
  <2> QED BY <2>3 DEF VisitStatement, Visited
<1>3. base = [names |-> <<>>, texts |-> <<<<>>>>]
  BY DEF NoNames
<1>4. base \in R /\ Placed(base, h, 0)
  <2>1. base \in Numberings /\ Len(base.texts) = 1 /\ Len(base.texts[1]) = 0
    <3> DEFINE e == <<>>
    <3>1. e \in Seq(Number) /\ Len(e) = 0 /\ e \in Seq(Placeholders)
      OBVIOUS
    <3>2. base.names = e /\ base.texts = <<e>> /\ base = [names |-> e, texts |-> <<e>>]
      BY <1>3
    <3> HIDE DEF e
    <3>3. <<e>> \in Seq(Seq(Number)) /\ Len(<<e>>) = 1 /\ <<e>>[1] = e
      BY <3>1
    <3> QED BY <3>1, <3>2, <3>3 DEF Numberings
  <2>2. 1..0 = {}
    OBVIOUS
  <2> HIDE DEF base
  <2> QED BY <2>1, <2>2 DEF Placed
<1>5. ASSUME NEW q \in R, NEW i \in 1..Len(h) PROVE Visit(q, h[i]) \in R
  <2>1. q.texts # <<>> /\ q \in Numberings
    <3>1. q \in Numberings /\ Len(q.texts) = 1
      OBVIOUS
    <3>2. q.texts \in Seq(Seq(Number))
      BY <3>1 DEF Numberings
    <3>3. Len(<<>>) = 0
      BY EmptySeq
    <3> QED BY <3>1, <3>2, <3>3
  <2>2. h[i] \in Placeholders /\ Placeholder(h[i])
    BY <1>1, ElementOfSeq
  <2> QED BY <2>1, <2>2, VisitIs
<1> HIDE DEF R, base, h
<1>0. PICK w \in [0..Len(h) -> R] : VisitsBy(w, base, h, Len(h))
  BY <1>1, <1>4, <1>5, VisitFold
<1>6. /\ w[0] = base
      /\ \A k \in 1..Len(h) : w[k] = Visit(w[k - 1], h[k])
      /\ Visited(base, h) = w[Len(h)]
  BY <1>0 DEF VisitsBy
<1> DEFINE T == {k \in Nat : k <= Len(h) => Placed(w[k], h, k)}
<1>7. 0 \in T
  BY <1>4, <1>6
<1>8. ASSUME NEW k \in Nat, k \in T PROVE k + 1 \in T
  <2>1. SUFFICES ASSUME k + 1 <= Len(h) PROVE Placed(w[k + 1], h, k + 1)
    OBVIOUS
  <2>2. k + 1 \in 1..Len(h) /\ k + 1 - 1 = k /\ k <= Len(h)
    BY <1>1, <2>1
  <2>3. w[k + 1] = Visit(w[k], h[k + 1]) /\ Placed(w[k], h, k)
    BY <1>6, <1>8, <2>2
  <2> QED BY <1>1, <2>1, <2>3, PlacedStep
<1>9. Len(h) \in T
  <2> HIDE DEF T
  <2> QED BY <1>1, <1>7, <1>8, Induction
<1> QED BY <1>1, <1>2, <1>6, <1>9 DEF h

\* The greatest of a text's numbers.
LEMMA ParametersIs ==
  ASSUME NEW text \in Seq(Number)
  PROVE  /\ Parameters(text) \in Nat
         /\ \A i \in 1..Len(text) : text[i] \in 1..Parameters(text)
         /\ Range(text) \subseteq 1..Parameters(text)
         /\ Parameters(text) = 0 => text = <<>>
<1>1. Len(text) \in Nat /\ DOMAIN text = 1..Len(text) /\ \A i \in 1..Len(text) : text[i] \in Nat /\ text[i] > 0
  BY LenProperties DEF Number
<1> DEFINE Bounded(k) == \E b \in Nat : \A i \in 1..k : text[i] <= b
           T == {k \in Nat : k <= Len(text) => Bounded(k)}
<1>2. Bounded(Len(text))
  <2>1. 0 \in T
    <3>1. Bounded(0)
      OBVIOUS
    <3> QED BY <3>1
  <2>2. ASSUME NEW k \in Nat, k \in T PROVE k + 1 \in T
    <3>1. SUFFICES ASSUME k + 1 <= Len(text) PROVE Bounded(k + 1)
      OBVIOUS
    <3>2. PICK b \in Nat : \A i \in 1..k : text[i] <= b
      BY <1>1, <2>2, <3>1
    <3>3. text[k + 1] \in Nat
      BY <1>1, <3>1
    <3>4. \A i \in 1..k + 1 : i \in 1..k \/ i = k + 1
      OBVIOUS
    <3>5. b + text[k + 1] \in Nat /\ \A i \in 1..k + 1 : text[i] <= b + text[k + 1]
      <4>1. ASSUME NEW i \in 1..k + 1 PROVE text[i] <= b + text[k + 1]
        <5>1. text[i] \in Nat
          BY <1>1, <3>1
        <5>2. text[i] <= b \/ text[i] = text[k + 1]
          BY <3>2, <3>4
        <5> QED BY <3>3, <5>1, <5>2
      <4> QED BY <3>3, <4>1
    <3> QED BY <3>5
  <2> HIDE DEF T
  <2>3. Len(text) \in T
    BY <1>1, <2>1, <2>2, Induction
  <2> HIDE DEF Bounded
  <2> QED BY <1>1, <2>3 DEF T
<1>3. PICK b \in Nat : \A i \in 1..Len(text) : text[i] <= b
  BY <1>2
<1> DEFINE S == Range(text) \cup {0}
<1>4. S \in SUBSET (0..b) /\ S # {} /\ 0 \in S
  BY <1>1, <1>3 DEF Range
<1>5. Max(S) \in S /\ \A y \in S : y <= Max(S)
  <2> HIDE DEF S
  <2> QED BY <1>4, MaxExists
<1>6. Parameters(text) = Max(S)
  BY DEF Parameters
<1>7. \A i \in 1..Len(text) : text[i] \in S
  BY <1>1 DEF Range
<1>8. Range(text) \subseteq S /\ \A x \in Range(text) : x \in Nat /\ x > 0
  BY <1>1 DEF Range
<1> HIDE DEF S
<1>9. Parameters(text) \in Nat
  <2>1. Max(S) \in 0..b
    BY <1>4, <1>5
  <2> QED BY <1>6, <2>1
<1>10. \A i \in 1..Len(text) : text[i] \in 1..Parameters(text)
  BY <1>1, <1>5, <1>6, <1>7, <1>9
<1>11. Range(text) \subseteq 1..Parameters(text)
  BY <1>5, <1>6, <1>8, <1>9
<1>12. Parameters(text) = 0 => Len(text) = 0
  <2>1. SUFFICES ASSUME Parameters(text) = 0, Len(text) # 0 PROVE FALSE
    OBVIOUS
  <2>2. 1 \in 1..Len(text)
    BY <1>1, <2>1
  <2> QED BY <1>10, <2>1, <2>2
<1>13. Len(text) = 0 => text = <<>>
  BY EmptySeq
<1> QED BY <1>9, <1>10, <1>11, <1>12, <1>13

-----------------------------------------------------------------------------
(* What is made of a file *)

TextOf(src) == IF Convert(src).texts = <<>> THEN <<>> ELSE Convert(src).texts[1]
Hint(t) == [name |-> t.name, nullable |-> t.optional]

\* m is what the statements of src become: many have no parameters at all, and one
\* has a hint for each of its positions.
GoodFor(src, m) ==
  /\ m.texts = Convert(src).texts
  /\ Len(src) > 1 =>
       m.hints = <<>> /\ \A k \in 1..Len(m.texts) : m.texts[k] = <<>>
  /\ Len(src) <= 1 =>
       /\ Parameters(TextOf(src)) <= Len(Convert(src).names)
       /\ m.hints = [i \in 1..Parameters(TextOf(src)) |-> Hint(Convert(src).names[i])]

\* The hint of a name's position is the name's.
LEMMA GoodReaches ==
  ASSUME NEW src \in Sources, Len(src) = 1, NEW m, GoodFor(src, m)
  PROVE  LET holes == src[1].holes
             named == {j \in DOMAIN holes : Named(holes[j])}
         IN  /\ \A j \in named : m.hints[m.texts[1][j]] = Hint(holes[j])
             /\ \A j, k \in named : m.texts[1][j] = m.texts[1][k] => j = k
<1> DEFINE r == Convert(src)
           holes == src[1].holes
           text == r.texts[1]
<1>1. Placed(r, holes, Len(holes))
  BY ConvertSingle
<1>2. DOMAIN holes = 1..Len(holes) /\ Len(holes) \in Nat
  BY SourceIs, LenProperties
<1> HIDE DEF r, holes
<1>3. /\ r \in Numberings /\ r.texts \in Seq(Seq(Number)) /\ Len(r.texts) = 1 /\ Len(text) = Len(holes)
      /\ \A j \in 1..Len(holes) : Named(holes[j]) => r.names[text[j]] = holes[j]
      /\ \A i, j \in 1..Len(holes) : Named(holes[i]) /\ Named(holes[j]) /\ i < j => text[i] < text[j]
  BY <1>1 DEF Placed, Numberings
<1>4. text \in Seq(Number) /\ r.texts # <<>>
  BY <1>3, EmptySeq
<1>5. m.texts = r.texts /\ m.hints = [i \in 1..Parameters(text) |-> Hint(r.names[i])]
  BY <1>4 DEF GoodFor, TextOf, r
<1>6. \A j \in 1..Len(holes) : text[j] \in 1..Parameters(text) /\ text[j] \in Nat
  <2>1. \A j \in 1..Len(text) : text[j] \in 1..Parameters(text) /\ text[j] \in Number
    BY <1>4, ParametersIs, ElementOfSeq
  <2>2. \A j \in 1..Len(text) : text[j] \in 1..Parameters(text) /\ text[j] \in Nat
    BY <2>1 DEF Number
  <2> QED BY <1>3, <2>2
<1> HIDE DEF text
<1>7. ASSUME NEW j \in 1..Len(holes), Named(holes[j]) PROVE m.hints[text[j]] = Hint(holes[j])
  BY <1>3, <1>5, <1>6, <1>7
<1>8. ASSUME NEW j \in 1..Len(holes), NEW k \in 1..Len(holes), Named(holes[j]), Named(holes[k]),
             text[j] = text[k]
      PROVE  j = k
  <2>1. ~(j < k) /\ ~(k < j)
    BY <1>3, <1>6, <1>8
  <2> QED BY <1>2, <2>1
<1>9. m.texts[1] = text
  BY <1>5 DEF text
<1> QED BY <1>2, <1>7, <1>8, <1>9 DEF holes

\* Every position that is in a text has a hint.
LEMMA GoodBinds ==
  ASSUME NEW src \in Sources, NEW m, GoodFor(src, m), NEW k \in DOMAIN m.texts
  PROVE  Range(m.texts[k]) \subseteq DOMAIN m.hints
<1> DEFINE r == Convert(src)
<1>1. r \in Numberings /\ r.texts \in Seq(Seq(Number)) /\ Len(r.texts) = Len(src) /\ Len(src) \in Nat
  BY ConvertIs, SourceIs DEF Numberings
<1>2. m.texts = r.texts /\ DOMAIN r.texts = 1..Len(r.texts)
  BY <1>1, LenProperties DEF GoodFor
<1>3. CASE Len(src) > 1
  <2>1. m.texts[k] = <<>>
    BY <1>2, <1>3 DEF GoodFor
  <2>2. Range(<<>>) = {}
    BY DEF Range
  <2> QED BY <2>1, <2>2
<1>4. CASE Len(src) <= 1
  <2> HIDE DEF r
  <2>1. k = 1 /\ Len(src) = 1
    <3>0. Len(src) \in Nat
      BY <1>1
    <3>1. k \in 1..Len(src)
      BY <1>1, <1>2
    <3> HIDE DEF GoodFor
    <3> DEFINE n == Len(src)
    <3>2. n \in Nat /\ k \in 1..n /\ n <= 1
      BY <1>4, <3>0, <3>1
    <3> HIDE DEF n
    <3>3. k = 1 /\ n = 1
      BY <3>2
    <3> QED BY <3>3 DEF n
  <2>0. Len(r.texts) = 1 /\ r.texts # <<>>
    <3>1. Len(r.texts) = 1
      BY <1>1, <2>1
    <3> QED BY <3>1, EmptySeq
  <2>5. r.texts[1] \in Seq(Number)
    BY <1>1, <2>0
  <2>2. m.texts[k] = TextOf(src) /\ r.texts[1] \in Seq(Number) /\ r.texts # <<>>
    BY <1>2, <2>0, <2>1, <2>5 DEF TextOf, r
  <2>3. DOMAIN m.hints = 1..Parameters(TextOf(src))
    BY <1>4 DEF GoodFor
  <2>4. TextOf(src) \in Seq(Number)
    BY <2>2 DEF TextOf, r
  <2> QED BY <2>2, <2>3, <2>4, ParametersIs
<1> QED BY <1>1, <1>3, <1>4

-----------------------------------------------------------------------------
(* The invariant of Queries *)

Futures == [pc : {"read", "prepare", "done"}, statement : Nat]

\* A future prepares a statement of its file, and those before it have no parameters.
OneByOne ==
  \A f \in Files : task[f].pc = "prepare" /\ Len(source[f]) > 1 =>
    /\ task[f].statement \in 1..Len(source[f])
    /\ \A k \in 1..task[f].statement - 1 : Convert(source[f]).texts[k] = <<>>

MadeOfSource == \A f \in Files : task[f].pc = "done" => GoodFor(source[f], made[f])

Generated ==
  /\ outcome = "ok" => /\ \A f \in Files : task[f].pc = "done"
                       /\ fields = [i \in 1..Len(listed) |-> made[listed[i]]]
  /\ outcome # "ok" => fields = <<>>

QueriesInv ==
  /\ QueriesTypeOK
  /\ task \in [Files -> Futures] /\ made \in [Files -> FullStatements \cup {None}]
  /\ OneByOne /\ MadeOfSource /\ Generated

\* The length of a sequence is the last of its positions.
LEMMA LenIs ==
  ASSUME NEW S, NEW s \in Seq(S), NEW n \in Nat, DOMAIN s = 1..n
  PROVE  Len(s) = n
<1> DEFINE l == Len(s)
<1>1. l \in Nat /\ 1..l = 1..n
  BY LenProperties
<1> HIDE DEF l
<1>2. ~(l < n)
  <2>1. SUFFICES ASSUME l < n PROVE FALSE
    OBVIOUS
  <2>2. n \in 1..n /\ n \notin 1..l
    BY <1>1, <2>1
  <2> QED BY <1>1, <2>2
<1>3. ~(n < l)
  <2>1. SUFFICES ASSUME n < l PROVE FALSE
    OBVIOUS
  <2>2. l \in 1..l /\ l \notin 1..n
    BY <1>1, <2>1
  <2> QED BY <1>1, <2>2
<1>4. l = n
  BY <1>1, <1>2, <1>3
<1> QED BY <1>4 DEF l

\* The directory walk lists every file once.
LEMMA ListedIs ==
  ASSUME QueriesTypeOK
  PROVE  /\ Cardinality(Files) \in Nat /\ Len(listed) = Cardinality(Files)
         /\ \A i \in 1..Len(listed) : listed[i] \in Files
<1>1. Cardinality(Files) \in Nat
  BY QueriesAssumption, FS_CardinalityType
<1>2. listed \in [1..Cardinality(Files) -> Files]
  BY DEF QueriesTypeOK, SetToSeqs
<1>3. listed \in Seq(Files) /\ Len(listed) = Cardinality(Files)
  <2>1. listed \in Seq(Files)
    BY <1>1, <1>2
  <2>2. DOMAIN listed = 1..Cardinality(Files)
    BY <1>2
  <2> QED BY <1>1, <2>1, <2>2, LenIs
<1> QED BY <1>1, <1>2, <1>3

LEMMA QueriesInvInit == QueriesInit => QueriesInv
<1> SUFFICES ASSUME QueriesInit PROVE QueriesInv
  OBVIOUS
<1>1. /\ source \in [Files -> Sources] /\ listed \in SetToSeqs(Files)
      /\ \A f \in Files : task[f] = [pc |-> "read", statement |-> 0] /\ made[f] = None
      /\ outcome = "running" /\ fields = <<>>
  BY DEF QueriesInit
<1>2. \A f \in Files : Len(source[f]) \in Nat
  BY <1>1, SourceIs
<1>3. task \in [Files -> Futures] /\ made \in [Files -> FullStatements \cup {None}]
  BY DEF QueriesInit, Futures
<1>4. QueriesTypeOK
  BY <1>1, <1>2 DEF QueriesTypeOK
<1>5. OneByOne /\ MadeOfSource /\ Generated
  BY <1>1 DEF OneByOne, MadeOfSource, Generated
<1> QED BY <1>3, <1>4, <1>5 DEF QueriesInv

\* The end of all futures with an error leaves nothing generated.
LEMMA EndsKeeps ==
  ASSUME QueriesInv, outcome = "running", NEW how \in {"error"} \cup Panics, EndsWith(how)
  PROVE  QueriesInv'
<1>1. outcome' = how /\ how # "ok" /\ UNCHANGED <<source, listed, task, made, fields>>
  BY DEF EndsWith, Panics
<1>2. fields = <<>>
  BY DEF QueriesInv, Generated
<1>3. QueriesTypeOK'
  BY <1>1, <1>2 DEF QueriesInv, QueriesTypeOK
<1>4. OneByOne' /\ MadeOfSource'
  BY <1>1 DEF QueriesInv, OneByOne, MadeOfSource
<1>5. Generated'
  BY <1>1, <1>2 DEF Generated
<1> QED BY <1>1, <1>3, <1>4, <1>5 DEF QueriesInv

\* A future that goes on with a statement of its file.
LEMMA GoesKeeps ==
  ASSUME QueriesInv, outcome = "running", NEW f \in Files, task[f].pc # "done",
         NEW k \in Nat, k <= Len(source[f]) + 1,
         Len(source[f]) > 1 =>
           k \in 1..Len(source[f]) /\ \A i \in 1..k - 1 : Convert(source[f]).texts[i] = <<>>,
         Goes(f, "prepare", k), UNCHANGED <<source, listed, made, outcome, fields>>
  PROVE  QueriesInv'
<1>1. /\ task \in [Files -> Futures] /\ source \in [Files -> Sources]
      /\ task' = [task EXCEPT ![f] = [pc |-> "prepare", statement |-> k]]
  BY DEF QueriesInv, QueriesTypeOK, Goes
<1>2. /\ task'[f] = [pc |-> "prepare", statement |-> k]
      /\ \A g \in Files : g # f => task'[g] = task[g]
  BY <1>1
<1>3. task' \in [Files -> Futures]
  <2>1. [pc |-> "prepare", statement |-> k] \in Futures
    BY DEF Futures
  <2> QED BY <1>1, <2>1
<1>4. QueriesTypeOK'
  <2>1. k \in 0..Len(source[f]) + 1
    BY <1>1, SourceIs
  <2>2. made[f] = None
    BY DEF QueriesInv, QueriesTypeOK
  <2> QED BY <1>2, <2>1, <2>2 DEF QueriesInv, QueriesTypeOK
<1>5. OneByOne'
  BY <1>2 DEF QueriesInv, OneByOne
<1>6. MadeOfSource'
  BY <1>2 DEF QueriesInv, MadeOfSource
<1>7. Generated'
  BY DEF QueriesInv, Generated
<1> QED BY <1>3, <1>4, <1>5, <1>6, <1>7 DEF QueriesInv

\* A future that ends with what its file was to become.
LEMMA MadeKeeps ==
  ASSUME QueriesInv, outcome = "running", NEW f \in Files,
         NEW m \in FullStatements, GoodFor(source[f], m), Made(f, m)
  PROVE  QueriesInv'
<1> DEFINE k == task[f].statement
<1>1. /\ task \in [Files -> Futures] /\ made \in [Files -> FullStatements \cup {None}]
      /\ task' = [task EXCEPT ![f] = [pc |-> "done", statement |-> k]]
      /\ made' = [made EXCEPT ![f] = m]
      /\ UNCHANGED <<source, listed, outcome, fields>>
  BY DEF QueriesInv, Made, Goes
<1>2. /\ task'[f] = [pc |-> "done", statement |-> k] /\ made'[f] = m
      /\ \A g \in Files : g # f => task'[g] = task[g] /\ made'[g] = made[g]
  BY <1>1
<1>3. task' \in [Files -> Futures] /\ made' \in [Files -> FullStatements \cup {None}]
  <2>1. [pc |-> "done", statement |-> k] \in Futures
    BY <1>1 DEF Futures
  <2> HIDE DEF k
  <2> QED BY <1>1, <2>1
<1>4. QueriesTypeOK'
  <2>1. m # None
    BY QueriesAssumption
  <2>2. k \in 0..Len(source[f]) + 1
    BY DEF QueriesInv, QueriesTypeOK
  <2> HIDE DEF k
  <2> QED BY <1>1, <1>2, <2>1, <2>2 DEF QueriesInv, QueriesTypeOK
<1>5. OneByOne'
  BY <1>1, <1>2 DEF QueriesInv, OneByOne
<1>6. MadeOfSource'
  BY <1>1, <1>2 DEF QueriesInv, MadeOfSource
<1>7. Generated'
  BY <1>1 DEF QueriesInv, Generated
<1> QED BY <1>3, <1>4, <1>5, <1>6, <1>7 DEF QueriesInv

\* What is written for many statements, or for one, is a FullStatement.
LEMMA TextsAre ==
  ASSUME NEW src \in Sources
  PROVE  Convert(src).texts \in Seq(Seq(Nat)) /\ Convert(src).names \in Seq(Placeholders)
<1>1. Convert(src).texts \in Seq(Seq(Number)) /\ Convert(src).names \in Seq(Placeholders)
  BY ConvertIs DEF Numberings
<1>2. Seq(Number) \subseteq Seq(Nat)
  <2>1. Number \subseteq Nat
    BY DEF Number
  <2> QED BY <2>1, SeqMonotonic
<1> QED BY <1>1, <1>2, SeqMonotonic

Hints == Seq([name : {t.name : t \in Placeholders}, nullable : {t.optional : t \in Placeholders}])

\* The hints of the first n names.
LEMMA HintsAre ==
  ASSUME NEW names \in Seq(Placeholders), NEW n \in Nat, n <= Len(names)
  PROVE  [i \in 1..n |-> Hint(names[i])] \in Hints
<1>1. ASSUME NEW i \in 1..n
      PROVE  Hint(names[i]) \in [name : {t.name : t \in Placeholders},
                                 nullable : {t.optional : t \in Placeholders}]
  <2>1. names[i] \in Placeholders
    <3>1. i \in 1..Len(names)
      OBVIOUS
    <3> QED BY <3>1, ElementOfSeq
  <2> QED BY <2>1 DEF Hint
<1> QED BY <1>1 DEF Hints

LEMMA ReadKeeps ==
  ASSUME QueriesInv, NEW f \in Files, Read(f)
  PROVE  QueriesInv'
<1>1. outcome = "running" /\ task[f].pc = "read" /\ source[f] \in Sources
  BY DEF Read, QueriesInv, QueriesTypeOK
<1>2. CASE EndsWith("error")
  BY <1>1, <1>2, EndsKeeps
<1>3. CASE Goes(f, "prepare", 1) /\ UNCHANGED <<source, listed, made, outcome, fields>>
  <2>1. Len(source[f]) \in Nat
    BY <1>1, SourceIs
  <2>2. 1 <= Len(source[f]) + 1 /\ (Len(source[f]) > 1 => 1 \in 1..Len(source[f])) /\ 1..1 - 1 = {}
    BY <2>1
  <2> QED BY <1>1, <1>3, <2>2, GoesKeeps
<1> QED BY <1>2, <1>3 DEF Read

LEMMA PrepareOneOfManyKeeps ==
  ASSUME QueriesInv, NEW f \in Files, PrepareOneOfMany(f)
  PROVE  QueriesInv'
<1> DEFINE src == source[f]
           texts == Convert(src).texts
           k == task[f].statement
           m == [kind |-> "Statements", texts |-> texts, hints |-> <<>>]
<1>1. /\ outcome = "running" /\ task[f].pc = "prepare" /\ src \in Sources /\ Len(src) > 1
      /\ k \in 1..Len(src) /\ \A i \in 1..k - 1 : texts[i] = <<>>
  BY DEF PrepareOneOfMany, QueriesInv, QueriesTypeOK, OneByOne
<1>2. texts \in Seq(Seq(Number)) /\ texts \in Seq(Seq(Nat)) /\ Len(texts) = Len(src) /\ Len(src) \in Nat
  BY <1>1, ConvertIs, TextsAre, SourceIs DEF Numberings
<1>3. CASE EndsWith("error") \/ EndsWith("parameter among many")
  BY <1>1, <1>3, EndsKeeps DEF Panics
<1>4. ASSUME Parameters(texts[k]) = 0 PROVE \A i \in 1..k : texts[i] = <<>>
  <2>1. texts[k] \in Seq(Number)
    <3> HIDE DEF texts, k, src
    <3> QED BY <1>1, <1>2
  <2>2. texts[k] = <<>>
    BY <1>4, <2>1, ParametersIs
  <2>3. \A i \in 1..k : i \in 1..k - 1 \/ i = k
    BY <1>1, <1>2
  <2> QED BY <1>1, <2>2, <2>3
<1>5. CASE Parameters(texts[k]) = 0 /\ k = Len(texts) /\ Made(f, m)
  <2>1. m \in FullStatements
    BY <1>2 DEF FullStatements
  <2>2. \A i \in 1..Len(texts) : texts[i] = <<>>
    BY <1>4, <1>5
  <2>3. ~(Len(src) <= 1)
    <3> HIDE DEF src
    <3> QED BY <1>1, <1>2
  <2>4. GoodFor(src, m)
    BY <2>2, <2>3 DEF GoodFor
  <2> HIDE DEF m
  <2> QED BY <1>1, <1>5, <2>1, <2>4, MadeKeeps
<1>6. CASE /\ Parameters(texts[k]) = 0 /\ k # Len(texts)
           /\ Goes(f, "prepare", k + 1) /\ UNCHANGED <<source, listed, made, outcome, fields>>
  <2>1. \A i \in 1..k : texts[i] = <<>>
    BY <1>4, <1>6
  <2>2. k + 1 \in 1..Len(src) /\ k + 1 - 1 = k /\ k + 1 \in Nat /\ k + 1 <= Len(src) + 1
    <3> HIDE DEF k, src, texts
    <3> QED BY <1>1, <1>2, <1>6
  <2> QED BY <1>1, <1>6, <2>1, <2>2, GoesKeeps
<1> QED BY <1>3, <1>5, <1>6 DEF PrepareOneOfMany

LEMMA PrepareSingleKeeps ==
  ASSUME QueriesInv, NEW f \in Files, PrepareSingle(f)
  PROVE  QueriesInv'
<1> DEFINE src == source[f]
           r == Convert(src)
           text == TextOf(src)
           columns == IF src = <<>> THEN <<>> ELSE src[1].columns
           m == [kind |-> IF columns = <<>> THEN "Statement" ELSE "Query", texts |-> r.texts,
                 hints |-> [i \in 1..Parameters(text) |->
                              [name |-> r.names[i].name, nullable |-> r.names[i].optional]]]
<1>1. outcome = "running" /\ task[f].pc = "prepare" /\ src \in Sources /\ Len(src) <= 1
  BY DEF PrepareSingle, QueriesInv, QueriesTypeOK
<1>2. /\ r \in Numberings /\ r.texts \in Seq(Seq(Nat)) /\ r.names \in Seq(Placeholders)
      /\ Len(src) \in Nat
  BY <1>1, ConvertIs, TextsAre, SourceIs
<1>3. CASE EndsWith("error") \/ EndsWith("unnamed parameter") \/ EndsWith("unknown column")
  BY <1>1, <1>3, EndsKeeps DEF Panics
<1>4. CASE ~(Parameters(text) > Len(r.names)) /\ Made(f, m)
  <2>1. text \in Seq(Number)
    <3>1. r.texts \in Seq(Seq(Number)) /\ <<>> \in Seq(Number)
      BY <1>2 DEF Numberings
    <3>2. r.texts # <<>> => r.texts[1] \in Seq(Number)
      <4> HIDE DEF r
      <4> QED BY <3>1
    <3> QED BY <3>1, <3>2 DEF TextOf
  <2>2. Parameters(text) \in Nat /\ Len(r.names) \in Nat /\ Parameters(text) <= Len(r.names)
    <3>1. Parameters(text) \in Nat
      BY <2>1, ParametersIs
    <3>2. Len(r.names) \in Nat
      BY <1>2, LenProperties
    <3> HIDE DEF r, text
    <3> QED BY <1>4, <3>1, <3>2
  <2>3. m.texts = r.texts /\ m.hints = [i \in 1..Parameters(text) |-> Hint(r.names[i])]
    BY DEF Hint
  <2>4. m.hints \in Hints
    BY <1>2, <2>2, <2>3, HintsAre
  <2>5. m \in FullStatements
    BY <1>2, <2>4 DEF FullStatements, Hints
  <2>6. ~(Len(src) > 1)
    <3> HIDE DEF src
    <3> QED BY <1>1, <1>2
  <2>7. GoodFor(src, m)
    <3> HIDE DEF m
    <3> QED BY <2>2, <2>3, <2>6 DEF GoodFor
  <2> HIDE DEF m
  <2> QED BY <1>1, <1>4, <2>5, <2>7, MadeKeeps
<1> QED BY <1>3, <1>4 DEF PrepareSingle, TextOf

LEMMA GenerateKeeps ==
  ASSUME QueriesInv, Generate
  PROVE  QueriesInv'
<1>1. /\ \A f \in Files : task[f].pc = "done"
      /\ outcome' = "ok" /\ fields' = [i \in 1..Len(listed) |-> made[listed[i]]]
      /\ UNCHANGED <<source, listed, task, made>>
  BY DEF Generate
<1>2. QueriesTypeOK /\ Cardinality(Files) \in Nat /\ Len(listed) = Cardinality(Files)
  BY ListedIs DEF QueriesInv
<1>3. Len(fields') = Cardinality(Files)
  <2>1. DOMAIN fields' = 1..Cardinality(Files)
    BY <1>1, <1>2
  <2>2. fields' \in Seq(Range(fields'))
    BY <1>1, <1>2, <2>1 DEF Range
  <2> QED BY <1>2, <2>1, <2>2, LenIs
<1>4. QueriesTypeOK'
  BY <1>1, <1>2, <1>3 DEF QueriesTypeOK
<1>5. OneByOne' /\ MadeOfSource'
  BY <1>1 DEF QueriesInv, OneByOne, MadeOfSource
<1>6. Generated'
  BY <1>1 DEF Generated
<1> QED BY <1>1, <1>4, <1>5, <1>6 DEF QueriesInv

LEMMA QueriesInvNext == QueriesInv /\ [QueriesNext]_queriesVars => QueriesInv'
<1> SUFFICES ASSUME QueriesInv, [QueriesNext]_queriesVars PROVE QueriesInv'
  OBVIOUS
<1>1. ASSUME NEW f \in Files, PrepareFails(f) PROVE QueriesInv'
  BY <1>1, EndsKeeps DEF PrepareFails
<1>2. CASE UNCHANGED queriesVars
  BY <1>2 DEF queriesVars, QueriesInv, QueriesTypeOK, OneByOne, MadeOfSource, Generated
<1> QED
  BY <1>1, <1>2, ReadKeeps, PrepareOneOfManyKeeps, PrepareSingleKeeps, GenerateKeeps
     DEF QueriesNext

\* The invariant of generate_queries.
THEOREM QueriesInvariant == QueriesSpec => []QueriesInv
<1> QED BY QueriesInvInit, QueriesInvNext, PTL DEF QueriesSpec

\* The variables of Queries have their types.
THEOREM QueriesTyped == QueriesSpec => []QueriesTypeOK
<1>1. QueriesInv => QueriesTypeOK
  BY DEF QueriesInv
<1> QED BY <1>1, QueriesInvariant, PTL

\* The fields are what the listed files became.
LEMMA FieldsAre ==
  ASSUME QueriesInv, NEW i \in DOMAIN fields
  PROVE  SourceOf(i) \in Sources /\ GoodFor(SourceOf(i), fields[i])
<1>1. outcome = "ok"
  <2>1. DOMAIN <<>> = {}
    OBVIOUS
  <2> QED BY <2>1 DEF QueriesInv, Generated
<1>2. /\ fields = [j \in 1..Len(listed) |-> made[listed[j]]]
      /\ \A f \in Files : GoodFor(source[f], made[f])
  BY <1>1 DEF QueriesInv, Generated, MadeOfSource
<1>3. i \in 1..Len(listed) /\ listed[i] \in Files /\ source[listed[i]] \in Sources
  BY <1>2, ListedIs DEF QueriesInv, QueriesTypeOK
<1> QED BY <1>2, <1>3 DEF SourceOf

\* Queries!NamesReachTheirPlaces: an argument passed under a name is the one that
\* the server puts where the author wrote the name.
THEOREM NamesReach == QueriesSpec => []NamesReachTheirPlaces
<1>1. QueriesInv => NamesReachTheirPlaces
  <2> SUFFICES ASSUME QueriesInv, NEW i \in DOMAIN fields, Len(SourceOf(i)) = 1
               PROVE  LET holes == SourceOf(i)[1].holes
                          text == fields[i].texts[1]
                          named == {j \in DOMAIN holes : holes[j].name # None}
                      IN  /\ \A j \in named : fields[i].hints[text[j]] =
                               [name |-> holes[j].name, nullable |-> holes[j].optional]
                          /\ \A j, k \in named : text[j] = text[k] => j = k
    BY DEF NamesReachTheirPlaces
  <2>1. SourceOf(i) \in Sources /\ GoodFor(SourceOf(i), fields[i])
    BY FieldsAre
  <2> HIDE DEF SourceOf
  <2> QED BY <2>1, GoodReaches DEF Named, Hint
<1> QED BY <1>1, QueriesInvariant, PTL

\* Queries!NothingUnbound: no placeholder is left without an argument.
THEOREM NothingIsUnbound == QueriesSpec => []NothingUnbound
<1>1. QueriesInv => NothingUnbound
  BY FieldsAre, GoodBinds DEF NothingUnbound
<1> QED BY <1>1, QueriesInvariant, PTL

-----------------------------------------------------------------------------
(* The two together, as the run of MCTools has them *)

\* A behaviour of the run is one of generate_queries and one of computedFetch
\* (gen_queries.rs, index.ts): neither takes a step the other could need, so
\* what holds of each by itself holds in the run.
THEOREM ToolsAreBoth == MCSpec => QueriesSpec /\ FetchSpec
<1>1. MCInit => QueriesInit /\ FetchInit
  BY DEF MCInit
<1>2. [MCNext]_<<subject, queriesVars, fetchVars>> => [QueriesNext]_queriesVars
  BY DEF MCNext, QueriesStep, FetchStep
<1>3. [MCNext]_<<subject, queriesVars, fetchVars>> => [FetchNext]_fetchVars
  BY DEF MCNext, QueriesStep, FetchStep
<1> QED BY <1>1, <1>2, <1>3, PTL DEF MCSpec, QueriesSpec, FetchSpec

\* Files, futures and generated statements keep their types, and so do the ref,
\* the requests and the input, whichever of the two a behaviour is about.
THEOREM ToolsTyped == MCSpec => []MCTypeOK
BY ToolsAreBoth, QueriesTyped, FetchTyped, PTL DEF MCTypeOK
==============================================================================
