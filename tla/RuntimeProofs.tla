----------------------------- MODULE RuntimeProofs -----------------------------
(***************************************************************************)
(* Theorems about Runtime, for any names, any number of ops in progress    *)
(* and any number of registrations.                                        *)
(***************************************************************************)
EXTENDS MCRuntime, TLAPS

\* A runtime that ends has no ops in progress any more.
LEMMA EndsKeepsInv ==
  ASSUME RuntimeInv, NEW to \in {"returned", "failed", "panicked"}, Ends(to)
  PROVE  RuntimeInv'
<1>1. RuntimeTypeOK'
  BY DEF RuntimeInv, RuntimeTypeOK, Ends, Phases
<1>2. FirstRegistrationWins' /\ UntriedAreMissing'
  <2>1. \A n, t : FirstTry(n, t)' <=> FirstTry(n, t)
    BY DEF FirstTry, Ends
  <2> QED BY <2>1 DEF RuntimeInv, FirstRegistrationWins, UntriedAreMissing, Ends
<1>3. ~Borrowed'
  BY DEF Ends, Borrowed, NoOp
<1> QED BY <1>1, <1>2, <1>3 DEF RuntimeInv, Ends

\* What changes an op and nothing else keeps the invariant, if the op belongs
\* to a phase in which it may be what it becomes.
LEMMA OpStep ==
  ASSUME RuntimeInv, JsRuns, NEW o \in Ops, NEW new \in OpCall \cup {NoOp},
         op' = [op EXCEPT ![o] = new],
         UNCHANGED <<phase, wanted, fnMap, external, runInfo, tries>>,
         phase = "evaluate" => new.state # "performing",
         phase = "call" => new = NoOp \/ new.in = "call"
  PROVE  RuntimeInv'
<1>1. \A q \in Ops : op'[q] = IF q = o THEN new ELSE op[q]
  BY DEF RuntimeInv, RuntimeTypeOK
<1>2. RuntimeTypeOK'
  BY DEF RuntimeInv, RuntimeTypeOK
<1>3. FirstRegistrationWins' /\ UntriedAreMissing'
  <2>1. \A n, t : FirstTry(n, t)' <=> FirstTry(n, t)
    BY DEF FirstTry
  <2> QED BY <2>1 DEF RuntimeInv, FirstRegistrationWins, UntriedAreMissing
<1>4. phase = "evaluate" => ~Borrowed'
  BY <1>1 DEF RuntimeInv, Borrowed
<1>5. phase = "call" => \A q \in InProgress' : op'[q].in = "call"
  BY <1>1 DEF RuntimeInv, InProgress
<1> QED BY <1>2, <1>3, <1>4, <1>5 DEF RuntimeInv, JsRuns

\* A registration is added to those before it, and counts if it is the first of
\* its name.
LEMMA RegisterStep ==
  ASSUME RuntimeInv, NEW n \in Names, NEW t \in FnType, Register(n, t)
  PROVE  RuntimeInv'
<1>1. /\ tries \in Seq(Names \X FnType)
      /\ fnMap \in [Names -> FnType \cup {None}]
  BY DEF Register, RuntimeInv, RuntimeTypeOK
<1>2. /\ Len(tries') = Len(tries) + 1
      /\ tries'[Len(tries) + 1] = <<n, t>>
      /\ \A i \in 1..Len(tries) : tries'[i] = tries[i]
      /\ tries' \in Seq(Names \X FnType)
  BY <1>1 DEF Register
<1>3. /\ \A m \in Names : fnMap'[m] = IF m = n /\ fnMap[n] = None THEN t ELSE fnMap[m]
      /\ fnMap' \in [Names -> FnType \cup {None}]
  BY <1>1 DEF Register
<1>4. RuntimeTypeOK'
  BY <1>2, <1>3 DEF Register, RuntimeInv, RuntimeTypeOK
<1>5. ASSUME NEW m \in Names, NEW u \in FnType
      PROVE  fnMap'[m] = u <=> FirstTry(m, u)'
  <2>1. fnMap[m] = u <=> FirstTry(m, u)
    BY DEF Register, RuntimeInv, FirstRegistrationWins
  <2>2. ASSUME FirstTry(m, u)
        PROVE  FirstTry(m, u)'
    <3>1. PICK i \in 1..Len(tries) :
            tries[i] = <<m, u>> /\ \A j \in 1..(i - 1) : tries[j][1] # m
      BY <2>2 DEF FirstTry
    <3>2. i \in 1..Len(tries') /\ \A j \in 1..(i - 1) : j \in 1..Len(tries)
      BY <1>1, <1>2, <3>1
    <3> QED BY <1>2, <3>1, <3>2 DEF FirstTry
  <2>3. CASE m = n /\ fnMap[n] = None
    <3>1. \A i \in 1..Len(tries) : tries[i][1] # n
      BY <2>3 DEF Register, RuntimeInv, UntriedAreMissing
    <3>2. FirstTry(n, t)'
      <4>1. Len(tries) + 1 \in 1..Len(tries')
        BY <1>1, <1>2
      <4>2. \A j \in 1..(Len(tries) + 1 - 1) : tries'[j][1] # n
        BY <1>1, <1>2, <3>1
      <4> QED BY <1>2, <4>1, <4>2 DEF FirstTry
    <3>3. FirstTry(n, u)' => u = t
      <4> SUFFICES ASSUME NEW i \in 1..Len(tries'), tries'[i] = <<n, u>>
                   PROVE  u = t
        BY DEF FirstTry
      <4>1. i \notin 1..Len(tries)
        BY <1>2, <3>1
      <4>2. i = Len(tries) + 1
        BY <1>1, <1>2, <4>1
      <4> QED BY <1>2, <4>2
    <3> QED BY <2>3, <1>3, <3>2, <3>3
  <2>4. CASE ~(m = n /\ fnMap[n] = None)
    <3>1. fnMap'[m] = fnMap[m]
      BY <1>3, <2>4
    <3>2. ASSUME FirstTry(m, u)'
          PROVE  FirstTry(m, u)
      <4>1. PICK i \in 1..Len(tries') :
              tries'[i] = <<m, u>> /\ \A j \in 1..(i - 1) : tries'[j][1] # m
        BY <3>2 DEF FirstTry
      <4>2. CASE i \in 1..Len(tries)
        <5>1. \A j \in 1..(i - 1) : j \in 1..Len(tries)
          BY <1>1, <4>2
        <5> QED BY <1>2, <4>1, <4>2, <5>1 DEF FirstTry
      <4>3. CASE i = Len(tries) + 1
        <5>1. m = n /\ fnMap[n] # None
          BY <1>2, <2>4, <4>1, <4>3
        <5>2. fnMap[n] \in FnType
          BY <1>1, <5>1
        <5>3. FirstTry(n, fnMap[n])
          BY <5>2 DEF Register, RuntimeInv, FirstRegistrationWins
        <5>4. PICK k \in 1..Len(tries) : tries[k] = <<n, fnMap[n]>>
          BY <5>3 DEF FirstTry
        <5>5. k \in 1..(i - 1) /\ tries'[k][1] = n
          BY <1>1, <1>2, <4>3, <5>4
        <5> QED BY <4>1, <5>1, <5>5
      <4> QED BY <1>1, <1>2, <4>2, <4>3
    <3> QED BY <2>1, <2>2, <3>1, <3>2
  <2> QED BY <2>3, <2>4
<1>6. FirstRegistrationWins'
  BY <1>5 DEF Register, FirstRegistrationWins
<1>7. fnMap' # Taken
  BY <1>3, RuntimeValues
<1>8. UntriedAreMissing'
  <2> SUFFICES ASSUME NEW m \in Names, fnMap'[m] = None, NEW i \in 1..Len(tries')
               PROVE  tries'[i][1] # m
    BY DEF UntriedAreMissing
  <2>1. m # n /\ fnMap[m] = None
    BY <1>3, RuntimeValues
  <2>2. CASE i \in 1..Len(tries)
    BY <1>2, <2>1, <2>2 DEF Register, RuntimeInv, UntriedAreMissing
  <2>3. CASE i = Len(tries) + 1
    BY <1>2, <2>1, <2>3
  <2> QED BY <1>1, <1>2, <2>2, <2>3
<1> QED BY <1>4, <1>6, <1>7, <1>8 DEF RuntimeInv, Register, Borrowed

\* The initial state satisfies the invariant.
LEMMA RuntimeInvInit == RuntimeInit => RuntimeInv
<1> SUFFICES ASSUME RuntimeInit PROVE RuntimeInv
  OBVIOUS
<1>1. RuntimeTypeOK
  <2>1. tries \in Seq(Names \X FnType)
    BY DEF RuntimeInit
  <2>2. fnMap \in [Names -> FnType \cup {None}]
    BY DEF RuntimeInit
  <2>3. op \in [Ops -> OpCall \cup {NoOp}]
    BY DEF RuntimeInit
  <2> QED BY <2>1, <2>2, <2>3 DEF RuntimeInit, RuntimeTypeOK, Phases, ExternalInNew
<1>2. fnMap # Taken
  BY RuntimeValues DEF RuntimeInit
<1>3. \A n \in Names, t \in FnType : fnMap[n] # t /\ ~FirstTry(n, t)
  BY RuntimeValues DEF RuntimeInit, FirstTry
<1>4. FirstRegistrationWins /\ UntriedAreMissing
  BY <1>3 DEF RuntimeInit, FirstRegistrationWins, UntriedAreMissing
<1> QED BY <1>1, <1>2, <1>4 DEF RuntimeInit, RuntimeInv, Borrowed, NoOp, ExternalInNew

\* Every step keeps the invariant.
LEMMA RuntimeInvStep == RuntimeInv /\ [RuntimeNext]_runtimeVars => RuntimeInv'
<1> SUFFICES ASSUME RuntimeInv, [RuntimeNext]_runtimeVars
             PROVE  RuntimeInv'
  OBVIOUS
<1>1. CASE UNCHANGED runtimeVars
  BY <1>1 DEF runtimeVars, RuntimeInv, RuntimeTypeOK, FirstRegistrationWins, FirstTry,
     UntriedAreMissing, Borrowed, InProgress
<1>2. ASSUME NEW n \in Names, NEW t \in FnType, Register(n, t)
      PROVE  RuntimeInv'
  BY <1>2, RegisterStep
<1>3. CASE RegisterPanics \/ EvaluationFails \/ GetFns \/ NotFound \/ CallReturns
             \/ CallFails
  BY <1>3, EndsKeepsInv DEF RegisterPanics, EvaluationFails, GetFns, NotFound,
     CallReturns, CallFails
<1>4. ASSUME NEW o \in Ops, CallOp(o) \/ OpRefused(o) \/ OpDone(o)
      PROVE  RuntimeInv'
  <2>1. CASE CallOp(o)
    BY <2>1, OpStep DEF CallOp, JsRuns, OpCall, NoOp
  <2>2. CASE OpRefused(o) \/ OpDone(o)
    BY <2>2, OpStep DEF OpRefused, OpDone, NoOp
  <2> QED BY <1>4, <2>1, <2>2
<1>5. ASSUME NEW o \in Ops, OpPerforms(o)
      PROVE  RuntimeInv'
  <2>1. phase = "call" /\ runInfo
    BY <1>5 DEF OpPerforms, JsRuns, RuntimeInv
  <2>2. op[o] \in OpCall /\ op[o].in = "call"
    BY <1>5, <2>1 DEF OpPerforms, RuntimeInv, RuntimeTypeOK, InProgress, NoOp
  <2>3. [op[o] EXCEPT !.state = "performing"] \in OpCall
    BY <2>2 DEF OpCall
  <2>4. [op[o] EXCEPT !.state = "performing"].in = "call"
    BY <2>2 DEF OpCall
  <2>5. op' = [op EXCEPT ![o] = [op[o] EXCEPT !.state = "performing"]]
    BY <1>5, <2>1 DEF OpPerforms
  <2> QED BY <1>5, <2>1, <2>3, <2>4, <2>5, OpStep DEF OpPerforms
<1>6. CASE Evaluated
  <2>1. RuntimeTypeOK'
    BY <1>6 DEF Evaluated, RuntimeInv, RuntimeTypeOK, Phases
  <2>2. \A n, t : FirstTry(n, t)' <=> FirstTry(n, t)
    BY <1>6 DEF Evaluated, FirstTry
  <2>3. FirstRegistrationWins' /\ UntriedAreMissing'
    BY <1>6, <2>2 DEF Evaluated, RuntimeInv, FirstRegistrationWins, UntriedAreMissing
  <2>4. InProgress' = InProgress /\ (Borrowed' <=> Borrowed)
    BY <1>6 DEF Evaluated, InProgress, Borrowed
  <2> QED BY <1>6, <2>1, <2>3, <2>4 DEF Evaluated, RuntimeInv
<1>7. CASE Call
  <2>1. RuntimeTypeOK'
    BY <1>7 DEF Call, RuntimeInv, RuntimeTypeOK, Phases
  <2>2. FirstTry(wanted.name, wanted.type)
    BY <1>7 DEF Call, RuntimeInv, RuntimeTypeOK, FirstRegistrationWins
  <2>3. FirstRegistrationWins'
    BY <1>7, <2>2 DEF Call, FirstRegistrationWins, FirstTry
  <2> QED BY <1>7, <2>1, <2>3 DEF Call, RuntimeInv, UntriedAreMissing, InProgress,
         Borrowed
<1> QED BY <1>1, <1>2, <1>3, <1>4, <1>5, <1>6, <1>7 DEF RuntimeNext

\* The invariant holds in every state.
THEOREM RuntimeInvariant == RuntimeSpec => []RuntimeInv
BY RuntimeInvInit, RuntimeInvStep, PTL DEF RuntimeSpec

\* No op that the evaluation of the code called ever reaches the pool or the
\* database, and every name is the function that was first registered under it.
THEOREM EvaluationSound ==
  RuntimeSpec => [](RuntimeTypeOK /\ EvaluationIsPure /\ FirstRegistrationWins)
<1>1. RuntimeInv => RuntimeTypeOK /\ EvaluationIsPure /\ FirstRegistrationWins
  <2> SUFFICES ASSUME RuntimeInv, NEW o \in Ops, op[o].state = "performing"
               PROVE  op[o].in = "call" /\ phase = "call"
    BY DEF RuntimeInv, EvaluationIsPure
  <2>1. phase = "call"
    BY DEF RuntimeInv, RuntimeTypeOK, Phases, Borrowed
  <2> QED BY <2>1 DEF RuntimeInv, InProgress, NoOp
<1> QED BY <1>1, RuntimeInvariant, PTL

\* The function that is called under a name is the first that was registered
\* under it, in whatever phase the later registrations were tried.
THEOREM NamesMeanOne == RuntimeSpec => []FirstRegistrationWins
BY EvaluationSound, PTL

\* The values in the OpState and the op futures keep their types.
THEOREM RuntimeTyped == RuntimeSpec => []RuntimeTypeOK
BY EvaluationSound, PTL

\* Ops are refused to the evaluation and not to the call, and nothing panics
\* before the call: the flag, the RunInfo and the map change together.
THEOREM OpsAllowedInCalls == RuntimeSpec => CallsPerform /\ PanicsOnlyInCall
<1>1. RuntimeInv /\ [RuntimeNext]_runtimeVars
        => [phase' = "panicked" => phase = "call"]_runtimeVars
  <2> SUFFICES ASSUME RuntimeInv, RuntimeNext, phase' = "panicked"
               PROVE  phase = "call"
    BY DEF runtimeVars
  <2>1. CASE RegisterPanics
    BY <2>1 DEF RegisterPanics, JsRuns, RuntimeInv
  <2>2. ASSUME NEW o \in Ops, OpPerforms(o)
        PROVE  phase = "call"
    BY <2>2 DEF OpPerforms, JsRuns, RuntimeInv
  <2>3. phase # "panicked" => \/ RegisterPanics
                              \/ \E o \in Ops : OpPerforms(o)
    BY DEF RuntimeNext, Register, CallOp, OpRefused, OpDone, Evaluated, EvaluationFails,
       GetFns, Call, NotFound, CallReturns, CallFails, Ends
  <2>4. phase # "panicked"
    BY DEF RuntimeNext, Register, RegisterPanics, CallOp, OpRefused, OpPerforms, OpDone,
       Evaluated, EvaluationFails, GetFns, Call, NotFound, CallReturns, CallFails, JsRuns
  <2> QED BY <2>1, <2>2, <2>3, <2>4
<1>2. RuntimeInv /\ [RuntimeNext]_runtimeVars
        => [\A o \in Ops : op[o].state = "called" /\ op[o].in = "call" /\ phase' = "call"
                             => op'[o].state # "none"]_runtimeVars
  <2> SUFFICES ASSUME RuntimeInv, RuntimeNext, NEW o \in Ops, op[o].state = "called",
                      op[o].in = "call", phase' = "call"
               PROVE  op'[o].state # "none"
    BY DEF runtimeVars
  <2>1. ASSUME NEW q \in Ops, CallOp(q) \/ OpRefused(q) \/ OpPerforms(q) \/ OpDone(q)
        PROVE  op'[o].state # "none"
    <3>1. op'[o] = op[o] \/ q = o
      BY <2>1 DEF CallOp, OpRefused, OpPerforms, OpDone, Ends, RuntimeInv, RuntimeTypeOK
    <3>2. CASE q = o
      BY <2>1, <3>2 DEF CallOp, OpRefused, OpPerforms, OpDone, Ends, NoOp, OpCall,
         RuntimeInv, RuntimeTypeOK
    <3> QED BY <3>1, <3>2
  <2>2. CASE Evaluated \/ Call
    BY <2>2 DEF Evaluated, Call
  <2>3. ASSUME NEW n \in Names, NEW t \in FnType, Register(n, t)
        PROVE  op'[o].state # "none"
    BY <2>3 DEF Register
  <2> QED BY <2>1, <2>2, <2>3 DEF RuntimeNext, RegisterPanics, EvaluationFails, GetFns,
         NotFound, CallReturns, CallFails, Ends
<1> QED BY <1>1, <1>2, RuntimeInvariant, PTL DEF RuntimeSpec, CallsPerform,
       PanicsOnlyInCall

\* Runtime!PanicsOnlyInCall: no op or registration panics before the call.
THEOREM PanicsInCalls == RuntimeSpec => PanicsOnlyInCall
<1> QED BY OpsAllowedInCalls

-----------------------------------------------------------------------------
\* A behaviour of the run of MCRuntime is one of a runtime (runtime/mod.rs) and
\* one of the scheduler (scheduling.rs): what is proved of either by itself
\* holds in the run, which adds fairness and takes no step from them.
THEOREM RunsAreBoth == MCSpec => RuntimeSpec /\ SchedulingSpec
<1>1. MCInit => RuntimeInit /\ SchedulingInit
  BY DEF MCInit
<1>2. [MCNext]_<<subject, runtimeVars, schedulingVars>> => [RuntimeNext]_runtimeVars
  BY DEF MCNext, RuntimeStep, SchedulingStep
<1>3. [MCNext]_<<subject, runtimeVars, schedulingVars>> => [SchedulingNext]_schedulingVars
  BY DEF MCNext, RuntimeStep, SchedulingStep
<1> QED BY <1>1, <1>2, <1>3, PTL DEF MCSpec, RuntimeSpec, SchedulingSpec
=============================================================================
