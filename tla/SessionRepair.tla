---------------------------- MODULE SessionRepair ----------------------------
(***************************************************************************)
(* A session log across crashes: interruptedTurnClosers of                 *)
(* packages/core/session/src/repair.ts, the cold preparation of            *)
(* session-persistence/src/coordinator.ts that commits its closers, and the *)
(* checkpoint of session-checkpoint-policy/src/index.ts, which makes a      *)
(* tool/call durable before the tool body may run.                         *)
(*                                                                         *)
(* While a process owns the session, log is its in-memory log and its first *)
(* durable events are stored; a crash keeps a prefix that contains those.   *)
(* While nobody owns it, log is what a read of the store returns: its first *)
(* durable events from complete frames or lines, any others decoded from a  *)
(* torn final frame (session-persistence-jsonl/src/index.ts:390-411), which *)
(* a repair removes before it writes them again (index.ts:441-443).         *)
(*                                                                         *)
(* Abstracted: the driver (any events it could write, in any order the      *)
(* validator accepts), bytes that decode to no event (a repair only drops   *)
(* them), timestamps, and sequence numbers, which are positions.            *)
(*                                                                         *)
(* An operator whose name ends in Fault is a plausible bug: it stands in    *)
(* for the operator below it when a property's sensitivity is checked.      *)
(***************************************************************************)
EXTENDS SequencesExt, SessionTrace

CONSTANTS
    NumCalls,    \* bound: tool calls asked for, numbered in that order
    MaxTurns,    \* bound: turns in the log
    MaxSteps     \* bound: steps in a turn

ASSUME SessionRepairAssumption == NumCalls \in Nat /\ MaxTurns \in Nat /\ MaxSteps \in Nat

VARIABLES
    live,        \* a process owns the session
    log,         \* its events
    durable,     \* how many of them are certainly stored, in front of any torn frame

    ran          \* history: calls whose body was invoked

vars == <<live, log, durable, ran>>

-----------------------------------------------------------------------------
(* Events *)

Calls == 1..NumCalls

TurnStart(n)    == [type |-> "turn/start", turn |-> n]
TurnEnd(n)      == [type |-> "turn/end", turn |-> n]
StepStart(n, k) == [type |-> "step/start", turn |-> n, step |-> k]
StepEnd(n, k)   == [type |-> "step/end", turn |-> n, step |-> k]
Answer(n, k, blocks) ==
    [type |-> "assistant/message", turn |-> n, step |-> k, blocks |-> blocks]
ToolCall(n, k, c) == [type |-> "tool/call", turn |-> n, step |-> k, call |-> c]
ToolResult(n, k, c, code) ==
    [type |-> "tool/result", turn |-> n, step |-> k, call |-> c, code |-> code,
     notStarted |-> code = "TOOL_NOT_STARTED"]

\* The trace after each prefix of events, and the one after all of them.
Traces(events) ==
    LET f[i \in 0..Len(events)] == IF i = 0 THEN FreshTrace ELSE Advance(f[i - 1], events[i])
    IN  f
Trace(events) == Traces(events)[Len(events)]

\* seedSession: every event passes validateEvent.
IsValid(events) ==
    LET f == Traces(events) IN \A i \in DOMAIN events : Accepts(f[i - 1], events[i])

Announced(events, n, k) ==
    UNION {Range(events[i].blocks) :
           i \in {j \in DOMAIN events : /\ events[j].type = "assistant/message"
                                        /\ events[j].turn = n /\ events[j].step = k}}
Asked(events) ==
    UNION {Range(events[i].blocks) :
           i \in {j \in DOMAIN events : events[j].type = "assistant/message"}}
Of(events, type, c) ==
    {i \in DOMAIN events : events[i].type = type /\ events[i].call = c}

-----------------------------------------------------------------------------
(* interruptedTurnClosers *)

NoneOpen == [openTurn |-> None, openStep |-> None, pendingCalls |-> <<>>]

ForgetsAtStepEndFault(s) == [s EXCEPT !.openStep = None]
ForgetsAtStepEnd(s) == [s EXCEPT !.openStep = None, !.pendingCalls = <<>>]

\* tool/call: the result will cite it.
MarkStartedFault(s, c) == s
MarkStarted(s, c) ==
    [s EXCEPT !.pendingCalls =
        [i \in DOMAIN @ |-> IF @[i].call = c THEN [@[i] EXCEPT !.started = TRUE] ELSE @[i]]]

Answered(s, c) ==
    LET at == {i \in DOMAIN s.pendingCalls : s.pendingCalls[i].call = c}
    IN  IF at = {} THEN s
        ELSE [s EXCEPT !.pendingCalls = RemoveAt(@, CHOOSE i \in at : TRUE)]

\* The scan, one event at a time.
Scan(s, e) ==
    CASE e.type = "turn/start" -> [NoneOpen EXCEPT !.openTurn = e.turn]
      [] e.type = "turn/end"   -> NoneOpen
      [] e.type = "step/start" -> [s EXCEPT !.openStep = e.step]
      [] e.type = "step/end"   -> ForgetsAtStepEnd(s)
      [] e.type = "assistant/message" ->
            [s EXCEPT !.pendingCalls = @ \o [i \in DOMAIN e.blocks |->
                [call |-> e.blocks[i], step |-> e.step, started |-> FALSE]]]
      [] e.type = "tool/call"   -> MarkStarted(s, e.call)
      [] e.type = "tool/result" -> Answered(s, e.call)

\* Results for the unanswered calls in transcript order, then step and turn.
ClosersOf(s) ==
    [i \in DOMAIN s.pendingCalls |->
        LET p == s.pendingCalls[i]
        IN  ToolResult(s.openTurn, p.step, p.call,
                       IF p.started THEN "TOOL_OUTCOME_UNKNOWN" ELSE "TOOL_NOT_STARTED")]
    \o (IF s.openStep = None THEN <<>> ELSE <<StepEnd(s.openTurn, s.openStep)>>)
    \o <<TurnEnd(s.openTurn)>>

\* What the scan holds after each prefix of events, and after all of them.
Scans(events) ==
    LET f[i \in 0..Len(events)] == IF i = 0 THEN NoneOpen ELSE Scan(f[i - 1], events[i])
    IN  f
Scanned(events) == Scans(events)[Len(events)]

interruptedTurnClosers(events) ==
    IF Scanned(events).openTurn = None THEN <<>> ELSE ClosersOf(Scanned(events))

-----------------------------------------------------------------------------
(* The live session *)

Init == live = TRUE /\ log = <<>> /\ durable = 0 /\ ran = {}

\* What the resumed driver counts turns from: the last turn/start it finds.
Starts(events) == {i \in DOMAIN events : events[i].type = "turn/start"}

LastTurnFault(events) ==
    IF Starts(events) = {} THEN 0 ELSE events[CHOOSE i \in Starts(events) :
                                                \A j \in Starts(events) : i <= j].turn
LastTurn(events) ==
    IF Starts(events) = {} THEN 0 ELSE events[CHOOSE i \in Starts(events) :
                                                \A j \in Starts(events) : j <= i].turn

Write(e) == live /\ log' = Append(log, e) /\ UNCHANGED <<live, durable, ran>>

StartTurn ==
    /\ Trace(log).openTurn = None /\ LastTurn(log) < MaxTurns
    /\ Write(TurnStart(LastTurn(log) + 1))

StartStep ==
    LET t == Trace(log)
    IN  /\ t.openTurn # None /\ t.openStep = None /\ t.nextStep <= MaxSteps
        /\ Write(StepStart(t.openTurn, t.nextStep))

\* One assistant message per step, with the calls it asks for.
Answers ==
    LET t    == Trace(log)
        past == {i \in DOMAIN log : log[i].type = "assistant/message"}
        used == Cardinality(Asked(log))
    IN  /\ t.openStep # None
        /\ \A i \in past : ~(log[i].turn = t.openTurn /\ log[i].step = t.openStep)
        /\ \E n \in 0..(NumCalls - used) :
              Write(Answer(t.openTurn, t.openStep, [i \in 1..n |-> used + i]))

\* appendToolCall, for a call of the step's own message.
CallTool(c) ==
    LET t == Trace(log)
    IN  /\ t.openStep # None /\ c \in Announced(log, t.openTurn, t.openStep)
        /\ Of(log, "tool/call", c) = {}
        /\ Write(ToolCall(t.openTurn, t.openStep, c))

\* The body runs once the checkpoint has made its tool/call durable.
Checkpointed(c) == \E i \in Of(log, "tool/call", c) : i <= durable

RunBody(c) ==
    /\ live /\ c \in Trace(log).pendingCalls /\ Checkpointed(c)
    /\ c \notin ran /\ ran' = ran \cup {c}
    /\ UNCHANGED <<live, log, durable>>

EndCall(c) ==
    LET t == Trace(log)
    IN  /\ c \in t.pendingCalls
        /\ Write(ToolResult(t.openTurn, t.openStep, c, "none"))

\* A step may end with calls unanswered: the scheduler has failed.
EndStep ==
    LET t == Trace(log)
    IN  t.openStep # None /\ Write(StepEnd(t.openTurn, t.openStep))

EndTurn ==
    LET t == Trace(log)
    IN  t.openTurn # None /\ t.openStep = None /\ Write(TurnEnd(t.openTurn))

\* A batch of the write-behind, or a flush, is stored.
StoredFault == Len(log) + 1
Stored == Len(log)

Persist ==
    /\ live /\ durable' = Stored
    /\ UNCHANGED <<live, log, ran>>

-----------------------------------------------------------------------------
(* Crash and recovery *)

\* The one batch on its way to the disk has reached it in part: the events that a
\* read will find are in complete lines, or all in a torn frame.
Crash ==
    /\ live /\ live' = FALSE
    /\ \E n \in durable..Len(log) : log' = SubSeq(log, 1, n) /\ durable' \in {durable, n}
    /\ UNCHANGED ran

\* tornMarker !== undefined, with recovered events.
Torn == durable < Len(log)

Closers == interruptedTurnClosers(log)

\* The log that the prepared session shows, and that a repair makes durable.
RepairedFault == log
Repaired == log \o Closers

\* commitPrepared: there is something to repair.
NeedsRepair == ~live /\ (Torn \/ Closers # <<>>)

\* commitRepair: truncate the torn frame, then append the events recovered from
\* it and the closers as one batch.
CommitRepair ==
    /\ NeedsRepair
    /\ log' = Repaired /\ durable' = Len(log')
    /\ UNCHANGED <<live, ran>>

\* truncateTo: where the torn frame begins.
TruncateToFault == IF durable = 0 THEN 0 ELSE durable - 1
TruncateTo == durable

\* The process dies inside it: after the truncation, whose fsync is a step of its
\* own, or with part of the batch on the disk, as lines or in a torn frame.
CutRepair ==
    /\ NeedsRepair
    /\ \E kept \in Prefixes(Repaired) :
          /\ Len(kept) >= TruncateTo
          /\ log' = kept /\ durable' \in {TruncateTo, Len(kept)}
    /\ UNCHANGED <<live, ran>>

\* The prepared session is published once nothing is left to repair.
Resume ==
    /\ ~live /\ ~NeedsRepair /\ live' = TRUE
    /\ UNCHANGED <<log, durable, ran>>

Recover == CommitRepair \/ Resume

Next ==
    \/ StartTurn \/ StartStep \/ Answers
    \/ \E c \in Calls : CallTool(c) \/ RunBody(c) \/ EndCall(c)
    \/ EndStep \/ EndTurn \/ Persist \/ Crash \/ CutRepair \/ Recover

\* A session that is asked for again and again is recovered: not every attempt
\* is cut by a crash.
Spec == Init /\ [][Next]_vars /\ WF_vars(Recover)

-----------------------------------------------------------------------------
(* Properties *)

\* Types.  One invariant for the whole module.
TypeOK ==
    /\ live \in BOOLEAN /\ durable \in 0..Len(log) /\ ran \subseteq Calls
    /\ Trace(log) \in [openTurn: 0..MaxTurns, openStep: 0..MaxSteps, nextTurn: Nat,
                       nextStep: Nat, pendingCalls: SUBSET Calls]

\* The stored log of a session that has crashed any number of times, repaired
\* and resumed, still replays through the session validator.
LogIsValid == IsValid(log)

\* Wherever the crash fell, the closers are accepted one by one, close the turn,
\* and leave each call of the interrupted step with exactly one result.
ClosersBalance ==
    LET t == Trace(log)
    IN  ~live =>
          /\ IsValid(Repaired) /\ Trace(Repaired).openTurn = None
          /\ \A c \in Announced(log, t.openTurn, t.openStep) :
                t.openStep # None => Cardinality(Of(Repaired, "tool/result", c)) = 1

\* Repairs converge, whichever of them are cut: a repair either leaves a log from
\* which the next one goes on to exactly the log that was to be made, no closer
\* missing or doubled; or it has taken back some events of the torn frame, and
\* never one in front of it.
RepairConverges ==
    [][~live /\ ~live' =>
          \/ IsPrefix(log, log') /\ log' \o interruptedTurnClosers(log') = Repaired
          \/ IsPrefix(log', log) /\ Len(log') >= durable]_vars

\* A call reported as never started has never run: telling the model to retry
\* it cannot repeat a side effect.
NotStartedNeverRan ==
    \A i \in DOMAIN log : log[i].type = "tool/result" /\ log[i].notStarted => log[i].call \notin ran

\* An interrupted session is resumed.
RecoveryEnds == ~live ~> live
=============================================================================
