------------------------------- MODULE Runtime -------------------------------
(***************************************************************************)
(* The life of one Runtime (common/src/runtime/mod.rs): the ruleset's code *)
(* is evaluated, registering its functions; then one of them is called.    *)
(* JavaScript runs in both parts, and in both it may call the two          *)
(* registering ops, which are synchronous, and the lazy async ops, which   *)
(* the event loop polls later than they were called.  What those find in   *)
(* the OpState when they get there is what this module is about.           *)
(*                                                                         *)
(* Deno's OpState is a RefCell of values by type: a value that is missing, *)
(* or a borrow_mut while an async op holds its borrow across an await, is  *)
(* a panic.                                                                *)
(***************************************************************************)
EXTENDS Naturals, Sequences, FiniteSets

CONSTANTS
  Names,      \* the names functions are registered under
  Ops,        \* slots for calls of async ops in progress
  MaxTries,   \* bound: registrations the code attempts
  None,
  Taken       \* there is no VotebaseFnMap any more

FnType == {"Action", "View"}

ASSUME TriesAssumption == MaxTries \in Nat
ASSUME RuntimeValues ==
  /\ None \notin FnType
  /\ Taken \notin [Names -> FnType \cup {None}]

VARIABLES
  phase,      \* how far Runtime::new and run_function have come
  wanted,     \* the function run_function is asked for, and its type
  fnMap,      \* VotebaseFnMap in the OpState, or Taken
  external,   \* the bool in the OpState
  runInfo,    \* whether the OpState has a RunInfo
  op,         \* op[o]: the async op call o, and the phase it was called in
  tries       \* the registrations attempted so far, in their order

runtimeVars == <<phase, wanted, fnMap, external, runInfo, op, tries>>

Phases == {"evaluate", "ready", "call", "returned", "failed", "panicked"}

\* An op that is performing holds its borrow of the OpState.
OpCall == [state : {"called", "performing"}, in : {"evaluate", "call"}]
NoOp == [state |-> "none", in |-> "evaluate"]

RuntimeTypeOK ==
  /\ phase \in Phases
  /\ wanted \in [name : Names, type : FnType]
  /\ fnMap \in [Names -> FnType \cup {None}] \cup {Taken}
  /\ external \in BOOLEAN
  /\ runInfo \in BOOLEAN
  /\ op \in [Ops -> OpCall \cup {NoOp}]
  /\ tries \in Seq(Names \X FnType)

\* Mutant: the flag is set once, for all of the runtime's life.
ExternalAtStart == TRUE

\* set_fn_map and set_external_allowed(false), before any code runs.
ExternalInNew == FALSE

RuntimeInit ==
  /\ phase = "evaluate"
  /\ wanted \in [name : Names, type : FnType]
  /\ fnMap = [n \in Names |-> None]
  /\ external = ExternalInNew
  /\ runInfo = FALSE
  /\ op = [o \in Ops |-> NoOp]
  /\ tries = <<>>

-----------------------------------------------------------------------------
JsRuns == phase \in {"evaluate", "call"}

InProgress == {o \in Ops : op[o] # NoOp}
Borrowed == \E o \in Ops : op[o].state = "performing"

\* The runtime is dropped, and the futures of its ops with it.
Ends(to) ==
  /\ phase' = to
  /\ op' = [o \in Ops |-> NoOp]
  /\ UNCHANGED <<wanted, fnMap, external, runInfo, tries>>

\* Mutant: the last registration of a name wins.
RegisterLast(n, t) ==
  /\ phase = "evaluate"
  /\ ~Borrowed
  /\ Len(tries) < MaxTries
  /\ tries' = Append(tries, <<n, t>>)
  /\ fnMap' = [fnMap EXCEPT ![n] = t]
  /\ UNCHANGED <<phase, wanted, external, runInfo, op>>

\* op_register_action and op_register_view: the second registration of a name
\* throws, in the code, which may catch it.
Register(n, t) ==
  /\ phase = "evaluate"
  /\ ~Borrowed
  /\ Len(tries) < MaxTries
  /\ tries' = Append(tries, <<n, t>>)
  /\ fnMap' = IF fnMap[n] = None THEN [fnMap EXCEPT ![n] = t] ELSE fnMap
  /\ UNCHANGED <<phase, wanted, external, runInfo, op>>

\* The same ops when the map has been taken, or the OpState is borrowed.
RegisterPanics ==
  /\ JsRuns
  /\ fnMap = Taken \/ Borrowed
  /\ Ends("panicked")

\* A lazy op is only queued by the call.
CallOp(o) ==
  /\ JsRuns
  /\ op[o] = NoOp
  /\ op' = [op EXCEPT ![o] = [state |-> "called", in |-> phase]]
  /\ UNCHANGED <<phase, wanted, fnMap, external, runInfo, tries>>

\* demand_external_allowed refuses: the op's promise is rejected.
OpRefused(o) ==
  /\ JsRuns
  /\ op[o].state = "called"
  /\ ~external
  /\ op' = [op EXCEPT ![o] = NoOp]
  /\ UNCHANGED <<phase, wanted, fnMap, external, runInfo, tries>>

\* state.borrow::<RunInfo>() must find one; then the op goes on to the pool and
\* to the database, with its borrow kept.
OpPerforms(o) ==
  /\ JsRuns
  /\ op[o].state = "called"
  /\ external
  /\ IF runInfo
       THEN /\ op' = [op EXCEPT ![o].state = "performing"]
            /\ UNCHANGED <<phase, wanted, fnMap, external, runInfo, tries>>
       ELSE Ends("panicked")

OpDone(o) ==
  /\ JsRuns
  /\ op[o].state = "performing"
  /\ op' = [op EXCEPT ![o] = NoOp]
  /\ UNCHANGED <<phase, wanted, fnMap, external, runInfo, tries>>

-----------------------------------------------------------------------------
\* Mutant: mod_evaluate's promise is awaited, and the event loop is left with
\* what it still has.
EvaluatedEarly ==
  /\ phase = "evaluate"
  /\ phase' = "ready"
  /\ UNCHANGED <<wanted, fnMap, external, runInfo, op, tries>>

\* run_event_loop comes to its end when nothing is pending, and the module's
\* promise is resolved.
Evaluated ==
  /\ phase = "evaluate"
  /\ InProgress = {}
  /\ phase' = "ready"
  /\ UNCHANGED <<wanted, fnMap, external, runInfo, op, tries>>

\* The code throws, or a promise of it is rejected and not handled.
EvaluationFails ==
  /\ phase = "evaluate"
  /\ Ends("failed")

\* validate_bundled_ruleset wants the list of functions, and no more.
GetFns ==
  /\ phase = "ready"
  /\ Ends("returned")

\* Mutants: the ops are not allowed for the call; the function is called
\* whatever type it was registered with.
CallRefusing ==
  /\ phase = "ready"
  /\ fnMap[wanted.name] = wanted.type
  /\ phase' = "call"
  /\ fnMap' = Taken
  /\ runInfo' = TRUE
  /\ UNCHANGED <<wanted, external, op, tries>>
CallUnchecked ==
  /\ phase = "ready"
  /\ fnMap[wanted.name] # None
  /\ phase' = "call"
  /\ fnMap' = Taken
  /\ external' = TRUE
  /\ runInfo' = TRUE
  /\ UNCHANGED <<wanted, op, tries>>

\* take_fn_map, the lookup, set_external_allowed(true), set_run_info and the
\* call: no await comes between them.
Call ==
  /\ phase = "ready"
  /\ fnMap[wanted.name] = wanted.type
  /\ phase' = "call"
  /\ fnMap' = Taken
  /\ external' = TRUE
  /\ runInfo' = TRUE
  /\ UNCHANGED <<wanted, op, tries>>

NotFound ==
  /\ phase = "ready"
  /\ fnMap[wanted.name] # wanted.type
  /\ Ends("failed")

\* with_event_loop_promise ends with the function's promise: what its code has
\* called and not awaited is dropped.
CallReturns ==
  /\ phase = "call"
  /\ Ends("returned")

CallFails ==
  /\ phase = "call"
  /\ Ends("failed")

RuntimeNext ==
  \/ \E n \in Names, t \in FnType : Register(n, t)
  \/ RegisterPanics
  \/ \E o \in Ops : CallOp(o) \/ OpRefused(o) \/ OpPerforms(o) \/ OpDone(o)
  \/ Evaluated \/ EvaluationFails \/ GetFns \/ Call \/ NotFound
  \/ CallReturns \/ CallFails

RuntimeSpec == RuntimeInit /\ [][RuntimeNext]_runtimeVars

-----------------------------------------------------------------------------
(* Properties *)

\* "runtime functions that interact with timers or the outside world ... aren't
\* allowed outside of an action or view": an op the code called while it was
\* evaluated never performs, however late the event loop comes to it.
EvaluationIsPure ==
  \A o \in Ops : op[o].state = "performing" => op[o].in = "call" /\ phase = "call"

\* And an op the function itself called is not refused: while the call goes on,
\* it leaves the queue only to perform.
CallsPerform ==
  [][\A o \in Ops : op[o].state = "called" /\ op[o].in = "call" /\ phase' = "call"
                      => op'[o].state # "none"]_runtimeVars

\* Evaluating a ruleset's code, which proposing and validating do with code
\* nobody has accepted yet, never panics, whatever it calls in whatever order.
PanicsOnlyInCall == [][phase' = "panicked" => phase = "call"]_runtimeVars

\* The type that was first registered for n.
FirstTry(n, t) ==
  \E i \in 1..Len(tries) : tries[i] = <<n, t>> /\ \A j \in 1..(i - 1) : tries[j][1] # n

\* One function per name, the first, in whatever order the code registers: the
\* list that get_fns returns names it with its type, and it is the one called.
FirstRegistrationWins ==
  /\ fnMap # Taken =>
       \A n \in Names, t \in FnType : fnMap[n] = t <=> FirstTry(n, t)
  /\ phase = "call" => FirstTry(wanted.name, wanted.type)

-----------------------------------------------------------------------------
\* A name the map does not have was never tried.
UntriedAreMissing ==
  fnMap # Taken =>
    \A n \in Names : fnMap[n] = None => \A i \in 1..Len(tries) : tries[i][1] # n

\* The inductive invariant: the flag, the RunInfo and the map change together,
\* with the call, and no op is left over from the evaluation by then.
RuntimeInv ==
  /\ RuntimeTypeOK
  /\ UntriedAreMissing
  /\ FirstRegistrationWins
  /\ phase \in {"evaluate", "ready"} => fnMap # Taken /\ ~external /\ ~Borrowed
  /\ phase = "ready" => InProgress = {}
  /\ phase = "call" => /\ external /\ runInfo /\ fnMap = Taken
                       /\ \A o \in InProgress : op[o].in = "call"
  /\ phase \notin {"evaluate", "call"} => ~Borrowed
=============================================================================
