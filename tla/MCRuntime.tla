-------------------------------- MODULE MCRuntime --------------------------------
(***************************************************************************)
(* The two models of common/src/runtime for TLC: a call of a function in   *)
(* its JsRuntime (Runtime), and the scheduler of actions (Scheduling).     *)
(* They share no state - the code that would execute an action is          *)
(* commented out (scheduling.rs) - so a behaviour is one of one of them.   *)
(*                                                                         *)
(*   Runtime     two names, three ops at once, and enough registrations    *)
(*               for both names and one of them again                      *)
(*   Scheduling  one action, time for several occurrences, and two deaths  *)
(*               of the server, so that marks and rows outlive tasks twice *)
(***************************************************************************)
EXTENDS Runtime, Scheduling

MCPeriod == [a \in Actions |-> 1]

VARIABLE subject

MCInit == subject \in {"runtime", "scheduling"} /\ RuntimeInit /\ SchedulingInit

RuntimeStep == subject = "runtime" /\ RuntimeNext /\ UNCHANGED <<subject, schedulingVars>>
SchedulingStep == subject = "scheduling" /\ SchedulingNext /\ UNCHANGED <<subject, runtimeVars>>

MCNext == RuntimeStep \/ SchedulingStep

\* The fairness of SchedulingFairSpec; Runtime has none.
MCSpec ==
  /\ MCInit /\ [][MCNext]_<<subject, runtimeVars, schedulingVars>>
  /\ WF_schedulingVars(subject = "scheduling" /\ Tick)
  /\ \A a \in Actions, s \in Sources : WF_schedulingVars(subject = "scheduling" /\ Polled(a, s))
=============================================================================
