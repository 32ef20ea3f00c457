----------------------------- MODULE SessionLog -----------------------------
(***************************************************************************)
(* The abstract writer of a session log: it appends any event that the      *)
(* validator of packages/core/session/src/invariant.ts accepts.  This is    *)
(* what the agent loop, the tool-call scheduler and crash repair promise.   *)
(***************************************************************************)
EXTENDS SessionTrace

CONSTANT Calls          \* tool-call identities

VARIABLE trace

TurnEvents(n)    == [type: {"turn/start", "turn/end"}, turn: {n}]
StepEvents(n, k) == [type: {"step/start", "step/end"} \cup StepScoped, turn: {n}, step: {k}]
CallEvents(n, k) == [type: {"tool/call"}, turn: {n}, step: {k}, call: Calls]
ResultEvents(n, k) ==
    [type: {"tool/result"}, turn: {n}, step: {k}, call: Calls, notStarted: BOOLEAN]

\* The candidates the validator could accept in trace t.
Candidates(t) ==
    UNION {TurnEvents(n) \cup UNION {StepEvents(n, k) \cup CallEvents(n, k)
                                        \cup ResultEvents(n, k) :
                                     k \in {t.openStep, t.nextStep}} :
           n \in {t.openTurn, t.nextTurn}}

Init == trace = FreshTrace

Write == \E e \in Candidates(trace) : Accepts(trace, e) /\ trace' = Advance(trace, e)

Spec == Init /\ [][Write]_trace
=============================================================================
