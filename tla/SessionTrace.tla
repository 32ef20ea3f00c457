---------------------------- MODULE SessionTrace ----------------------------
(***************************************************************************)
(* The bookkeeping of packages/core/session/src/invariant.ts, which checks  *)
(* the relations between the events of one session: a trace is its          *)
(* SessionTrace after a prefix of the log, Accepts its validateEvent and    *)
(* Advance its applyTransition.                                             *)
(*                                                                         *)
(* Abstracted: sequence numbers (an event's position in the log),           *)
(* timestamps and payloads.  None is the code's null; turns and steps count *)
(* from 1.                                                                  *)
(***************************************************************************)
EXTENDS Naturals

None == 0

\* Events that name an open step but leave the bookkeeping alone.
StepScoped == {"assistant/chunk", "assistant/message"}

\* Events that need an open turn only (a surface replacement of an old tool
\* result is one of them).
TurnScoped == {"request/header", "request/context", "todo/write", "tool/replace"}

\* Events the validator does not constrain.
Unscoped == {"user/message", "session/end-seed"}

FreshTrace ==
    [openTurn |-> None, openStep |-> None, nextTurn |-> 1, nextStep |-> 1,
     pendingCalls |-> {}]

OpenStepIs(t, e) == t.openTurn = e.turn /\ t.openStep = e.step

\* validateEvent: whether the candidate passes every fail(...) of its case.
Accepts(t, e) ==
    \/ e.type = "turn/start" /\ t.openTurn = None /\ e.turn = t.nextTurn
    \/ e.type = "turn/end"   /\ t.openTurn = e.turn /\ t.openStep = None
    \/ /\ e.type = "step/start"
       /\ t.openTurn = e.turn /\ t.openStep = None /\ e.step = t.nextStep
    \/ e.type \in {"step/end", "tool/call"} \cup StepScoped /\ OpenStepIs(t, e)
    \/ /\ e.type = "tool/result" /\ OpenStepIs(t, e)
       /\ e.call \in t.pendingCalls \/ e.notStarted
    \/ e.type \in TurnScoped /\ t.openTurn # None
    \/ e.type \in Unscoped

\* The transition validateEvent returns and applyTransition commits.
Advance(t, e) ==
    CASE e.type = "turn/start"  -> [t EXCEPT !.openTurn = e.turn, !.nextStep = 1]
      [] e.type = "turn/end"    -> [t EXCEPT !.openTurn = None, !.nextTurn = @ + 1]
      [] e.type = "step/start"  -> [t EXCEPT !.openStep = e.step]
      [] e.type = "step/end"    -> [t EXCEPT !.openStep = None, !.nextStep = @ + 1,
                                             !.pendingCalls = {}]
      [] e.type = "tool/call"   -> [t EXCEPT !.pendingCalls = @ \cup {e.call}]
      [] e.type = "tool/result" -> [t EXCEPT !.pendingCalls = @ \ {e.call}]
      [] OTHER                  -> t
=============================================================================
