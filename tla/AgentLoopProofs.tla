--------------------------- MODULE AgentLoopProofs ---------------------------
(***************************************************************************)
(* Theorems about AgentLoop, for every value of its constants: its types,   *)
(* that one driver is up at a time (OneDriver), that a turn claims one      *)
(* prompt (OneOrdinaryMessage), that the log it writes is one the session   *)
(* validator accepts (WritesValidLog, a refinement of SessionLog), and that *)
(* the ending it logs is the one that happened (EndsHonestly).              *)
(*                                                                         *)
(* TypeOK is split in two because Boolean-valued variables and sequences    *)
(* are within reach of different provers.                                  *)
(***************************************************************************)
EXTENDS AgentLoop, SequenceTheorems, TLAPS

Traces == [openTurn: Nat, openStep: Nat, nextTurn: Nat, nextStep: Nat, pendingCalls: {{}}]

FlagsOK ==
    /\ compactBeforeFailing \in BOOLEAN /\ wakeRequested \in BOOLEAN
    /\ drains \in BOOLEAN /\ truncated \in BOOLEAN

DataOK ==
    /\ phase \in {"idle", "maintenance", "running"}
    /\ cause \in Causes \cup {"none"}
    /\ turn \in Nat /\ step \in Nat
    /\ nextTurn \in Seq(Items) /\ nextStep \in Seq(Items)
    /\ pc \in Points /\ target \in Targets
    /\ turnEnds \in TurnEnds /\ stepEnd \in StepEnds
    /\ detections \in [LoopKinds -> Nat]
    /\ activeTurnMessages \in Seq(Items) /\ pendingLoopCompaction \in Seq(Items)
    /\ tail \in Tails /\ activityDone \in Activities
    /\ waiter \in Activities \cup {"none", "done"}
    /\ trace \in Traces
    /\ sent \subseteq Messages /\ wake \in [Messages -> Wakes]
    /\ disposing \in {"no", "first", "late"} /\ ordinary \in Nat

\* The driver has a place in kick() exactly while the phase is running, the
\* recovery of a finished kick holds the maintenance phase, and a turn is opened
\* with the step counter reset.
DriverInv ==
    /\ pc # "none" <=> phase = "running"
    /\ tail = "compacting" => phase = "maintenance"
    /\ pc = "top" => step = 0

\* The log agrees with the driver's own counters.
LogInv ==
    /\ trace.openTurn = IF pc \in InTurn THEN turn ELSE 0
    /\ trace.openStep = IF pc \in InStep THEN step ELSE 0
    /\ trace.nextTurn = IF pc \in InTurn THEN turn ELSE turn + 1
    /\ pc \in InTurn => trace.nextStep = IF pc \in InStep THEN step ELSE step + 1

\* A turn has claimed no prompt before its first claim, and one at most.
ClaimInv ==
    /\ ordinary <= 1
    /\ pc = "opened" /\ target = "next-turn" => ordinary = 0

Inv == FlagsOK /\ DataOK /\ DriverInv /\ LogInv /\ ClaimInv

LEMMA InvTypes == Inv => TypeOK
BY DEF Inv, FlagsOK, DataOK, TypeOK, Traces

-----------------------------------------------------------------------------
(* Queues *)

LEMMA RemoveAtType ==
    ASSUME NEW S, NEW s \in Seq(S), NEW i \in DOMAIN s
    PROVE  RemoveAt(s, i) \in Seq(S)
BY DEF RemoveAt

LEMMA QueueAppend ==
    ASSUME NEW q \in Seq(Items), NEW m \in Messages \cup Notes
    PROVE  Append(q, m) \in Seq(Items)
BY DEF Items

\* What Inbox.claim takes from next-turn, and what it leaves there.
LEMMA PromptType ==
    ASSUME nextTurn \in Seq(Items)
    PROVE  Prompt \in Seq(Items) /\ AfterPrompt \in Seq(Items) /\ Len(Prompt) \in {0, 1}
BY DEF Prompt, AfterPrompt

LEMMA NoPrompt == target # "next-turn" => Len(Prompt) = 0
BY DEF Prompt

-----------------------------------------------------------------------------
(* What is owed *)

LEMMA WakeTypes ==
    ASSUME wake \in [Messages -> Wakes], NEW w \in Wakes, NEW S
    PROVE  /\ Become(S, w) \in [Messages -> Wakes] /\ NoWakes \in [Messages -> Wakes]
           /\ [k \in Messages |-> IF k \in S THEN w ELSE wake[k]] \in [Messages -> Wakes]
           /\ [k \in Messages |-> IF wake[k] # "none" /\ k \in S THEN w ELSE "none"]
                 \in [Messages -> Wakes]
BY DEF Become, NoWakes, Wakes

LEMMA WakeSent ==
    ASSUME wake \in [Messages -> Wakes], NEW m \in Messages, NEW to, NEW wakeup,
           NEW reentrant, Send(m, to, wakeup, reentrant)
    PROVE  wake' \in [Messages -> Wakes]
<1> DEFINE old == IF reentrant THEN NoWakes ELSE wake
           new == IF wakeup THEN Undertaking(reentrant) ELSE "none"
<1>1. old \in [Messages -> Wakes]
    BY DEF NoWakes, Wakes
<1>2. new \in Wakes
    BY DEF Undertaking, Wakes
<1>3. wake' = [old EXCEPT ![m] = new]
    BY Zenon DEF Send
<1> HIDE DEF old, new
<1> QED
    BY <1>1, <1>2, <1>3

-----------------------------------------------------------------------------
(* The validator's transitions *)

LEMMA TurnStartAdvances ==
    ASSUME NEW t \in Traces, NEW n \in Nat
    PROVE  LET u == Advance(t, [type |-> "turn/start", turn |-> n])
           IN  /\ u \in Traces
               /\ u.openTurn = n /\ u.openStep = t.openStep
               /\ u.nextTurn = t.nextTurn /\ u.nextStep = 1
BY DEF Advance, Traces

LEMMA TurnEndAdvances ==
    ASSUME NEW t \in Traces, NEW n \in Nat
    PROVE  LET u == Advance(t, [type |-> "turn/end", turn |-> n])
           IN  /\ u \in Traces
               /\ u.openTurn = 0 /\ u.openStep = t.openStep
               /\ u.nextTurn = t.nextTurn + 1 /\ u.nextStep = t.nextStep
<1> DEFINE u == Advance(t, [type |-> "turn/end", turn |-> n])
<1>1. PICK m \in Nat : m = t.nextTurn + 1
    BY DEF Traces
<1>2. u = [t EXCEPT !.openTurn = 0, !.nextTurn = m]
    BY <1>1 DEF Advance, None
<1>3. [t EXCEPT !.openTurn = 0, !.nextTurn = m] \in Traces
    BY DEF Traces
<1>4. u \in Traces
    BY <1>2, <1>3, Zenon
<1>5. /\ u.openTurn = 0 /\ u.openStep = t.openStep
      /\ u.nextTurn = t.nextTurn + 1 /\ u.nextStep = t.nextStep
    BY DEF Advance, None, Traces
<1> QED
    BY <1>4, <1>5, Zenon

LEMMA StepStartAdvances ==
    ASSUME NEW t \in Traces, NEW n \in Nat, NEW k \in Nat
    PROVE  LET u == Advance(t, [type |-> "step/start", turn |-> n, step |-> k])
           IN  /\ u \in Traces
               /\ u.openTurn = t.openTurn /\ u.openStep = k
               /\ u.nextTurn = t.nextTurn /\ u.nextStep = t.nextStep
BY DEF Advance, Traces

LEMMA StepEndAdvances ==
    ASSUME NEW t \in Traces, NEW n \in Nat, NEW k \in Nat
    PROVE  LET u == Advance(t, [type |-> "step/end", turn |-> n, step |-> k])
           IN  /\ u \in Traces
               /\ u.openTurn = t.openTurn /\ u.openStep = 0
               /\ u.nextTurn = t.nextTurn /\ u.nextStep = t.nextStep + 1
<1> DEFINE u == Advance(t, [type |-> "step/end", turn |-> n, step |-> k])
<1>1. PICK m \in Nat : m = t.nextStep + 1
    BY DEF Traces
<1>2. u = [t EXCEPT !.openStep = 0, !.nextStep = m, !.pendingCalls = {}]
    BY <1>1 DEF Advance, None
<1>3. [t EXCEPT !.openStep = 0, !.nextStep = m, !.pendingCalls = {}] \in Traces
    BY DEF Traces
<1>4. u \in Traces
    BY <1>2, <1>3, Zenon
<1>5. /\ u.openTurn = t.openTurn /\ u.openStep = 0
      /\ u.nextTurn = t.nextTurn /\ u.nextStep = t.nextStep + 1
    BY DEF Advance, None, Traces
<1> QED
    BY <1>4, <1>5, Zenon

-----------------------------------------------------------------------------
(* Initially *)

LEMMA InitInv == Init => Inv
<1> SUFFICES ASSUME Init PROVE Inv
    OBVIOUS
<1>1. FlagsOK
    BY AgentLoopAssumption, Zenon DEF AgentLoopAssumption, Init, FlagsOK
<1>2. DataOK
    BY DEF Init, DataOK, NoWakes, Wakes, Traces, FreshTrace, None, Causes, Targets, StepEnds, TurnEnds, InTurn,
           Points, Tails, Activities
<1>3. DriverInv /\ LogInv /\ ClaimInv
    BY DEF Init, DriverInv, LogInv, ClaimInv, FreshTrace, None, InTurn, InStep
<1> QED
    BY <1>1, <1>2, <1>3 DEF Inv

-----------------------------------------------------------------------------
(* Every step keeps the Boolean-valued variables Boolean *)

LEMMA FlagsStep == FlagsOK /\ [Next]_vars => FlagsOK'
<1> SUFFICES ASSUME FlagsOK, [Next]_vars PROVE FlagsOK'
    OBVIOUS
<1> USE DEF FlagsOK
<1>1. CASE StartTurn
    BY <1>1, Zenon DEF StartTurn, Publish, Aside
<1>2. CASE Claim
    BY <1>2, Zenon DEF Claim, Leave, Aside, Running, locals, inbox
<1>3. CASE RefuseStep
    BY <1>3, Zenon DEF RefuseStep, Leave, Aside, Running, inbox, recovery
<1>4. CASE EnterStep
    BY <1>4, Zenon DEF EnterStep, Publish, Aside, Running, inbox, locals, recovery
<1>5. CASE RequestFails
    BY <1>5, Zenon DEF RequestFails, EndRequest, Aside, Running, inbox
<1>6. CASE RequestAnswers
    BY <1>6, Zenon DEF RequestAnswers, EndRequest, Aside, Running, inbox
<1>7. CASE RequestCallsTools
    BY <1>7, Zenon DEF RequestCallsTools, Aside, Running, inbox, locals, recovery
<1>8. CASE \E k \in LoopKinds : LoopDetected(k)
    BY <1>8, Zenon DEF LoopDetected, EndRequest, Aside, Running, inbox
<1>9. CASE ToolsSettle
    BY <1>9, Zenon DEF ToolsSettle, EndRequest, Aside, Running
<1>10. CASE EndStep
    BY <1>10, Zenon DEF EndStep, Publish, NextEnding, Aside, Running, inbox, recovery
<1>11. CASE AfterStep
    BY <1>11, Zenon DEF AfterStep, Leave, Aside, Running, inbox, recovery
<1>12. CASE AfterStopping
    BY <1>12, Zenon DEF AfterStopping, Leave, Aside, Running, inbox, recovery
<1>13. CASE EndTurn
    BY <1>13, Zenon DEF EndTurn, Publish, Aside, Running, inbox, locals
<1>14. CASE Drain
    BY <1>14, Zenon DEF Drain, FreshRun, inbox, locals, recovery, promises
<1>15. CASE Exit
    BY <1>15, Zenon DEF Exit, GoIdle, Recovering, inbox, locals, recovery, history
<1>16. CASE Replay
    BY <1>16, Zenon DEF Replay, StartDriver, FreshRun, Settle, inbox, locals, recovery
<1>17. CASE BeginRecovery
    BY <1>17, Zenon DEF BeginRecovery, inbox, locals, recovery
<1>18. CASE RecoveryFails
    BY <1>18, Zenon
       DEF RecoveryFails, FinishRecovery, StartDriver, FreshRun, Settle, inbox, locals,
           recovery
<1>19. CASE SettleRecovery
    BY <1>19, Zenon DEF SettleRecovery, GoIdle, Settle, inbox, locals, recovery, history
<1>20. CASE ResumeAfterRecovery
    BY <1>20, Zenon
       DEF ResumeAfterRecovery, FinishRecovery, StartDriver, FreshRun, Settle, inbox,
           locals, recovery
<1>21. CASE EndMaintenance
    BY <1>21, Zenon
       DEF EndMaintenance, StartDriver, FreshRun, GoIdle, Settle, inbox, locals, recovery
<1>22. CASE WhenIdle
    BY <1>22, Zenon DEF WhenIdle, control, inbox, locals, recovery, history
<1>23. CASE WhenIdleChecks
    BY <1>23, Zenon DEF WhenIdleChecks, NextAwait, control, inbox, locals, recovery, history
<1>24. CASE StartMaintenance
    BY <1>24, Zenon DEF StartMaintenance, inbox, locals, recovery
<1>25. CASE \E by \in Causes, keepInbox \in BOOLEAN : Cancel(by, keepInbox)
    BY <1>25, Zenon DEF Cancel, inbox, locals, recovery, promises
<1>26. CASE \E m \in Queued : RemovePending(m)
    BY <1>26, Zenon DEF RemovePending, control, locals, recovery, promises
<1>27. ASSUME NEW m \in Messages, NEW to \in Targets, NEW wakeup \in BOOLEAN,
              NEW reentrant \in BOOLEAN, Send(m, to, wakeup, reentrant)
       PROVE  FlagsOK'
  <2>1. wakeRequested' \in BOOLEAN
    BY <1>27, Zenon DEF Send, StartDriver, FreshRun
  <2> QED
    BY <1>27, <2>1, Zenon DEF Send, locals
<1>28. CASE UNCHANGED vars
    BY <1>28, Zenon DEF vars
<1> QED
    BY <1>1, <1>2, <1>3, <1>4, <1>5, <1>6, <1>7, <1>8, <1>9, <1>10, <1>11, <1>12, <1>13,
       <1>14, <1>15, <1>16, <1>17, <1>18, <1>19, <1>20, <1>21, <1>22, <1>23, <1>24,
       <1>25, <1>26, <1>27, <1>28 DEF Next, Driver, KickTail, Callers

-----------------------------------------------------------------------------
(* Every step keeps the others in their types *)

LEMMA StartTurnTypes == DataOK /\ StartTurn => DataOK'
<1> SUFFICES ASSUME DataOK, StartTurn PROVE DataOK'
    OBVIOUS
<1>1. trace \in Traces /\ turn + 1 \in Nat /\ <<>> \in Seq(Items)
    BY DEF DataOK
<1>2. trace' \in Traces
    BY <1>1, TurnStartAdvances, Zenon DEF StartTurn, Publish
<1>3. turn' \in Nat /\ ordinary' \in Nat
    BY DEF StartTurn, DataOK
<1>6. wake' \in [Messages -> Wakes]
  <2>1. wake \in [Messages -> Wakes] /\ "handed" \in Wakes /\ "parked" \in Wakes
      BY DEF DataOK, Wakes
  <2>2. /\ Become(Owing, "parked") \in [Messages -> Wakes]
        /\ [k \in Messages |-> IF wake[k] # "none" /\ k \in Queued THEN "handed" ELSE "none"]
              \in [Messages -> Wakes]
      BY <2>1, WakeTypes
  <2> QED
      BY <2>1, <2>2, Zenon DEF StartTurn
<1>4. activeTurnMessages' \in Seq(Items)
    BY <1>1, Zenon DEF StartTurn, DataOK
<1>5. pc' \in Points /\ turnEnds' \in TurnEnds /\ target' \in Targets
    BY DEF StartTurn, DataOK, Points, InTurn, TurnEnds, Targets
<1> QED
    BY <1>2, <1>3, <1>4, <1>5, <1>6 DEF StartTurn, DataOK, Aside, inbox, promises

LEMMA ClaimTypes == DataOK /\ Claim => DataOK'
<1> SUFFICES ASSUME DataOK, Claim PROVE DataOK'
    OBVIOUS
<1>1. CASE Aborted
    BY <1>1, SMT DEF Claim, Leave, DataOK, Aside, Running, inbox, TurnEnds, InTurn, Points
<1>2. CASE ~Aborted
  <2>1. Prompt \in Seq(Items) /\ AfterPrompt \in Seq(Items) /\ Len(Prompt) \in Nat
    BY PromptType DEF DataOK
  <2>2. nextStep \o Prompt \in Seq(Items)
    BY <2>1 DEF DataOK
  <2>3. nextStep' \in Seq(Items) /\ nextTurn' \in Seq(Items)
    BY <1>2, <2>1 DEF Claim
  <2>4. activeTurnMessages' \in Seq(Items)
    BY <1>2, <2>2, Zenon DEF Claim, DataOK
  <2>5. ordinary' \in Nat
    BY <1>2, <2>1 DEF Claim, DataOK
  <2>6. detections' \in [LoopKinds -> Nat]
    BY <1>2 DEF Claim, DataOK
  <2>7. wake' \in [Messages -> Wakes]
    <3>1. wake \in [Messages -> Wakes] /\ "none" \in Wakes
        BY DEF DataOK, Wakes
    <3>2. [k \in Messages |-> IF k \in Range(nextStep \o Prompt) THEN "none" ELSE wake[k]]
             \in [Messages -> Wakes]
        BY <3>1, WakeTypes
    <3> QED
        BY <1>2, <3>2, Zenon DEF Claim
  <2> QED
    BY <1>2, <2>3, <2>4, <2>5, <2>6, <2>7, SMT DEF Claim, DataOK, Aside, Running, InTurn, Points
<1> QED
    BY <1>1, <1>2

LEMMA EnterStepTypes == DataOK /\ EnterStep => DataOK'
<1> SUFFICES ASSUME DataOK, EnterStep PROVE DataOK'
    OBVIOUS
<1>1. trace \in Traces /\ turn \in Nat /\ step + 1 \in Nat
    BY DEF DataOK
<1>2. trace' \in Traces
    BY <1>1, StepStartAdvances, Zenon DEF EnterStep, Publish
<1> QED
    BY <1>1, <1>2, SMT
       DEF EnterStep, Aside, Running, inbox, recovery, locals, DataOK, InTurn, Points

\* What a step that has just been answered leaves behind.
LEMMA EndRequestTypes ==
    ASSUME DataOK, NEW result \in StepEnds, EndRequest(result), UNCHANGED nextTurn,
           nextStep' \in Seq(Items), detections' \in [LoopKinds -> Nat],
           pendingLoopCompaction' \in Seq(Items)
    PROVE  DataOK'
BY SMT DEF EndRequest, Aside, Running, DataOK, InTurn, Points

LEMMA LoopDetectedTypes == ASSUME DataOK, NEW k \in LoopKinds, LoopDetected(k) PROVE DataOK'
<1>1. nextStep' \in Seq(Items)
  <2>1. CASE \E n \in Notes \ Queued : nextStep' = Append(nextStep, n)
    BY <2>1, QueueAppend DEF DataOK
  <2>2. CASE UNCHANGED nextStep
    BY <2>2 DEF DataOK
  <2> QED
    BY <2>1, <2>2, Zenon DEF LoopDetected
<1>2. detections' \in [LoopKinds -> Nat]
    BY DEF LoopDetected, DataOK
<1>3. pendingLoopCompaction' \in Seq(Items)
    BY Zenon DEF LoopDetected, DataOK
<1>4. UNCHANGED nextTurn
    BY DEF LoopDetected
<1>5. PICK result \in {"none", "recover", "error"} : EndRequest(result)
    BY Zenon DEF LoopDetected
<1>6. result \in StepEnds
    BY DEF StepEnds
<1> QED
    BY <1>1, <1>2, <1>3, <1>4, <1>5, <1>6, EndRequestTypes, Zenon

LEMMA ToolsSettleTypes == DataOK /\ ToolsSettle => DataOK'
<1> SUFFICES ASSUME DataOK, ToolsSettle PROVE DataOK'
    OBVIOUS
<1>1. nextStep' \in Seq(Items)
  <2>1. CASE \E n \in Notes \ Queued : nextStep' = Append(nextStep, n)
    BY <2>1, QueueAppend DEF DataOK
  <2>2. CASE UNCHANGED nextStep
    BY <2>2 DEF DataOK
  <2> QED
    BY <2>1, <2>2, Zenon DEF ToolsSettle
<1>2. detections' \in [LoopKinds -> Nat] /\ pendingLoopCompaction' \in Seq(Items)
    BY DEF ToolsSettle, DataOK
<1>3. UNCHANGED nextTurn
    BY DEF ToolsSettle
<1>4. PICK result \in {"none", "completed", "error"} : EndRequest(result)
    BY Zenon DEF ToolsSettle
<1>5. result \in StepEnds
    BY DEF StepEnds
<1> QED
    BY <1>1, <1>2, <1>3, <1>4, <1>5, EndRequestTypes, Zenon

LEMMA EndStepTypes == DataOK /\ EndStep => DataOK'
<1> SUFFICES ASSUME DataOK, EndStep PROVE DataOK'
    OBVIOUS
<1>1. trace \in Traces /\ turn \in Nat /\ step \in Nat
    BY DEF DataOK
<1>2. trace' \in Traces
    BY <1>1, StepEndAdvances, Zenon DEF EndStep, Publish
<1> QED
    BY <1>1, <1>2, SMT
       DEF EndStep, NextEnding, Aside, Running, inbox, recovery, DataOK, TurnEnds, InTurn,
           Points

LEMMA EndTurnTypes == DataOK /\ EndTurn => DataOK'
<1> SUFFICES ASSUME DataOK, EndTurn PROVE DataOK'
    OBVIOUS
<1>1. trace \in Traces /\ turn \in Nat
    BY DEF DataOK
<1>2. trace' \in Traces
    BY <1>1, TurnEndAdvances, Zenon DEF EndTurn, Publish
<1>3. wake' \in [Messages -> Wakes]
  <2>1. wake \in [Messages -> Wakes] /\ "unread" \in Wakes /\ "parked" \in Wakes
      BY DEF DataOK, Wakes
  <2>2. /\ Become({"handed"}, "unread") \in [Messages -> Wakes]
        /\ Become({"handed"}, "parked") \in [Messages -> Wakes]
      BY <2>1, WakeTypes
  <2> QED
      BY <2>1, <2>2, Zenon DEF EndTurn
<1> QED
    BY <1>1, <1>2, <1>3, SMT DEF EndTurn, Aside, Running, inbox, locals, DataOK, InTurn, Points

LEMMA FinishRecoveryTypes ==
    ASSUME DataOK, NEW replays \in BOOLEAN, FinishRecovery(replays)
    PROVE  DataOK'
<1>1. pendingLoopCompaction \o nextTurn \in Seq(Items)
    BY DEF DataOK
<1> QED
    BY <1>1, SMT
       DEF FinishRecovery, StartDriver, FreshRun, Settle, DataOK, locals, Points, Tails,
           Activities

LEMMA CancelTypes ==
    ASSUME DataOK, NEW by \in Causes, NEW keepInbox \in BOOLEAN, Cancel(by, keepInbox)
    PROVE  DataOK'
<1>1. nextTurn' \in Seq(Items) /\ nextStep' \in Seq(Items)
  <2>1. <<>> \in Seq(Items)
    OBVIOUS
  <2> QED
    BY <2>1, Zenon DEF Cancel, DataOK, inbox
<1>2. disposing' \in {"no", "first", "late"} /\ cause' \in Causes \cup {"none"}
    BY DEF Cancel, DataOK
<1>3. wake' \in [Messages -> Wakes]
  <2>1. wake \in [Messages -> Wakes] /\ "parked" \in Wakes
      BY DEF DataOK, Wakes
  <2>2. /\ Become(Owing, "parked") \in [Messages -> Wakes]
        /\ NoWakes \in [Messages -> Wakes]
      BY <2>1, WakeTypes
  <2> QED
      BY <2>1, <2>2, Zenon DEF Cancel
<1> QED
    BY <1>1, <1>2, <1>3, SMT DEF Cancel, DataOK, locals, recovery, promises

LEMMA SendTypes ==
    ASSUME DataOK, NEW m \in Messages, NEW to \in Targets, NEW wakeup \in BOOLEAN,
           NEW reentrant \in BOOLEAN, Send(m, to, wakeup, reentrant)
    PROVE  DataOK'
<1>1. nextTurn' \in Seq(Items) /\ nextStep' \in Seq(Items)
  <2>1. <<>> \in Seq(Items)
    OBVIOUS
  <2>2. Append(nextTurn, m) \in Seq(Items) /\ Append(nextStep, m) \in Seq(Items)
    BY QueueAppend DEF DataOK
  <2> QED
    BY <2>1, <2>2, Zenon DEF Send, DataOK
<1>2. wake' \in [Messages -> Wakes] /\ sent' \subseteq Messages
  <2>1. wake' \in [Messages -> Wakes]
      BY WakeSent DEF DataOK
  <2> QED
      BY <2>1 DEF Send, DataOK
<1>3. cause' \in Causes \cup {"none"}
    BY DEF Send, DataOK, StartDriver, FreshRun, Causes
<1>4. CASE wakeup /\ CanStart
    BY <1>1, <1>2, <1>3, <1>4, SMT
       DEF Send, DataOK, StartDriver, FreshRun, locals, recovery, Points, Activities
<1>5. CASE ~(wakeup /\ CanStart)
  <2>1. UNCHANGED <<phase, step, pc, activityDone, disposing>>
    BY <1>5, Zenon DEF Send
  <2> QED
    BY <1>1, <1>2, <1>3, <2>1, SMT DEF Send, DataOK, locals, recovery, Activities
<1> QED
    BY <1>4, <1>5

LEMMA DataStep == DataOK /\ [Next]_vars => DataOK'
<1> SUFFICES ASSUME DataOK, [Next]_vars PROVE DataOK'
    OBVIOUS
<1>1. CASE StartTurn
    BY <1>1, StartTurnTypes
<1>2. CASE Claim
    BY <1>2, ClaimTypes
<1>3. CASE RefuseStep
    BY <1>3, SMT
       DEF RefuseStep, Leave, Aside, Running, inbox, recovery, DataOK, TurnEnds, InTurn,
           Points
<1>4. CASE EnterStep
    BY <1>4, EnterStepTypes
<1>5. CASE RequestFails
    BY <1>5, SMT
       DEF RequestFails, EndRequest, Aside, Running, inbox, DataOK, StepEnds, InTurn, Points
<1>6. CASE RequestAnswers
    BY <1>6, SMT
       DEF RequestAnswers, EndRequest, Aside, Running, inbox, DataOK, StepEnds, InTurn,
           Points
<1>7. CASE RequestCallsTools
    BY <1>7, SMT
       DEF RequestCallsTools, Aside, Running, inbox, locals, recovery, DataOK, InTurn,
           Points
<1>8. CASE \E k \in LoopKinds : LoopDetected(k)
    BY <1>8, LoopDetectedTypes
<1>9. CASE ToolsSettle
    BY <1>9, ToolsSettleTypes
<1>10. CASE EndStep
    BY <1>10, EndStepTypes
<1>11. CASE AfterStep
    BY <1>11, SMT
       DEF AfterStep, Leave, Aside, Running, inbox, recovery, DataOK, TurnEnds, Targets,
           InTurn, Points
<1>12. CASE AfterStopping
    BY <1>12, SMT
       DEF AfterStopping, Leave, Aside, Running, inbox, recovery, DataOK, TurnEnds, Targets,
           InTurn, Points
<1>13. CASE EndTurn
    BY <1>13, EndTurnTypes
<1>14. CASE Drain
    BY <1>14, SMT DEF Drain, FreshRun, inbox, locals, recovery, promises, DataOK, Points
<1>15. CASE Exit
    BY <1>15, SMT
       DEF Exit, GoIdle, Recovering, inbox, locals, recovery, history, DataOK, Points,
           Tails, Activities
<1>16. CASE Replay
    BY <1>16, SMT
       DEF Replay, StartDriver, FreshRun, Settle, inbox, locals, recovery, DataOK, Points,
           Tails, Activities
<1>17. CASE BeginRecovery
    BY <1>17, SMT DEF BeginRecovery, inbox, locals, recovery, DataOK, Tails, Activities
<1>18. CASE RecoveryFails
    BY <1>18, FinishRecoveryTypes DEF RecoveryFails
<1>19. CASE SettleRecovery
    BY <1>19, SMT
       DEF SettleRecovery, GoIdle, Settle, inbox, locals, recovery, history, DataOK, Tails,
           Activities
<1>20. CASE ResumeAfterRecovery
  <2>1. (tail = "compacted") \in BOOLEAN
    OBVIOUS
  <2> QED
    BY <1>20, <2>1, FinishRecoveryTypes DEF ResumeAfterRecovery
<1>21. CASE EndMaintenance
    BY <1>21, SMT
       DEF EndMaintenance, StartDriver, FreshRun, GoIdle, Settle, inbox, locals, recovery,
           DataOK, Points, Activities
<1>22. CASE WhenIdle
    BY <1>22, SMT
       DEF WhenIdle, control, inbox, locals, recovery, history, DataOK, Activities
<1>23. CASE WhenIdleChecks
    BY <1>23, SMT
       DEF WhenIdleChecks, NextAwait, control, inbox, locals, recovery, history, DataOK,
           Activities
<1>24. CASE StartMaintenance
    BY <1>24, SMT DEF StartMaintenance, inbox, locals, recovery, DataOK, Activities
<1>25. CASE \E by \in Causes, keepInbox \in BOOLEAN : Cancel(by, keepInbox)
    BY <1>25, CancelTypes
<1>26. CASE \E m \in Queued : RemovePending(m)
  <2>1. PICK m \in Queued : RemovePending(m)
      BY <1>26
  <2>2. nextTurn' \in Seq(Items) /\ nextStep' \in Seq(Items)
      BY <2>1, RemoveAtType DEF RemovePending, DataOK
  <2>3. wake' \in [Messages -> Wakes]
      BY <2>1 DEF RemovePending, DataOK, Wakes
  <2> QED
      BY <2>1, <2>2, <2>3, SMT DEF RemovePending, control, locals, recovery, promises, DataOK
<1>27. CASE \E m \in Messages, to \in Targets, wakeup, reentrant \in BOOLEAN :
                 Send(m, to, wakeup, reentrant)
    BY <1>27, SendTypes
<1>28. CASE UNCHANGED vars
    BY <1>28, SMT DEF vars, DataOK
<1> QED
    BY <1>1, <1>2, <1>3, <1>4, <1>5, <1>6, <1>7, <1>8, <1>9, <1>10, <1>11, <1>12, <1>13,
       <1>14, <1>15, <1>16, <1>17, <1>18, <1>19, <1>20, <1>21, <1>22, <1>23, <1>24,
       <1>25, <1>26, <1>27, <1>28 DEF Next, Driver, KickTail, Callers

-----------------------------------------------------------------------------
(* Every step keeps the driver, its log and its claims in line *)

\* What send() does to the driver: start it from idle, or leave it alone.
LEMMA SendWakes ==
    ASSUME NEW m, NEW to, NEW wakeup, NEW reentrant, Send(m, to, wakeup, reentrant)
    PROVE  /\ UNCHANGED <<turn, target, tail, trace, ordinary>>
           /\ \/ phase = "idle" /\ phase' = "running" /\ pc' = "top" /\ step' = 0
              \/ UNCHANGED <<phase, pc, step>>
BY Zenon DEF Send, CanStart, StartDriver, FreshRun, locals

\* The second conjunct is the action of OneDriver.
LEMMA DriverStep ==
    DriverInv /\ [Next]_vars =>
        DriverInv' /\ (pc' = "top" => pc \in {"none", "ended", "top"})
<1> DEFINE Goal == DriverInv' /\ (pc' = "top" => pc \in {"none", "ended", "top"})
<1> SUFFICES ASSUME DriverInv, [Next]_vars PROVE Goal
    OBVIOUS
<1> USE DEF DriverInv
<1>1. CASE StartTurn
    BY <1>1, SMT DEF StartTurn, Aside
<1>2. CASE Claim
    BY <1>2, SMT DEF Claim, Leave, Aside, Running
<1>3. CASE RefuseStep
    BY <1>3, SMT DEF RefuseStep, Leave, Aside, Running, recovery
<1>4. CASE EnterStep
    BY <1>4, SMT DEF EnterStep, Aside, Running, recovery
<1>5. CASE RequestFails
    BY <1>5, SMT DEF RequestFails, EndRequest, Aside, Running
<1>6. CASE RequestAnswers
    BY <1>6, SMT DEF RequestAnswers, EndRequest, Aside, Running
<1>7. CASE RequestCallsTools
    BY <1>7, SMT DEF RequestCallsTools, Aside, Running, recovery
<1>8. CASE \E k \in LoopKinds : LoopDetected(k)
    BY <1>8, SMT DEF LoopDetected, EndRequest, Aside, Running
<1>9. CASE ToolsSettle
    BY <1>9, SMT DEF ToolsSettle, EndRequest, Aside, Running
<1>10. CASE EndStep
    BY <1>10, SMT DEF EndStep, Aside, Running, recovery
<1>11. CASE AfterStep
    BY <1>11, SMT DEF AfterStep, Leave, Aside, Running, recovery
<1>12. CASE AfterStopping
    BY <1>12, SMT DEF AfterStopping, Leave, Aside, Running, recovery
<1>13. CASE EndTurn
    BY <1>13, SMT DEF EndTurn, Aside, Running
<1>14. CASE Drain
    BY <1>14, SMT DEF Drain, FreshRun, recovery
<1>15. CASE Exit
    BY <1>15, SMT DEF Exit, GoIdle, recovery
<1>16. CASE Replay
    BY <1>16, SMT DEF Replay, StartDriver, FreshRun, recovery
<1>17. CASE BeginRecovery
    BY <1>17, SMT DEF BeginRecovery, recovery
<1>18. CASE RecoveryFails
    BY <1>18, SMT DEF RecoveryFails, FinishRecovery, StartDriver, FreshRun, recovery
<1>19. CASE SettleRecovery
    BY <1>19, SMT DEF SettleRecovery, GoIdle, recovery
<1>20. CASE ResumeAfterRecovery
    BY <1>20, SMT DEF ResumeAfterRecovery, FinishRecovery, StartDriver, FreshRun, recovery
<1>21. CASE EndMaintenance
    BY <1>21, SMT DEF EndMaintenance, StartDriver, FreshRun, GoIdle, recovery
<1>22. CASE WhenIdle
    BY <1>22, SMT DEF WhenIdle, control, recovery
<1>23. CASE WhenIdleChecks
    BY <1>23, SMT DEF WhenIdleChecks, control, recovery
<1>24. CASE StartMaintenance
    BY <1>24, SMT DEF StartMaintenance, recovery
<1>25. CASE \E by \in Causes, keepInbox \in BOOLEAN : Cancel(by, keepInbox)
    BY <1>25, SMT DEF Cancel, recovery
<1>26. CASE \E m \in Queued : RemovePending(m)
    BY <1>26, SMT DEF RemovePending, control, recovery
<1>27. CASE \E m \in Messages, to \in Targets, wakeup, reentrant \in BOOLEAN :
                 Send(m, to, wakeup, reentrant)
    BY <1>27, SendWakes, SMT
<1>28. CASE UNCHANGED vars
    BY <1>28, SMT DEF vars
<1> QED
    BY <1>1, <1>2, <1>3, <1>4, <1>5, <1>6, <1>7, <1>8, <1>9, <1>10, <1>11, <1>12, <1>13,
       <1>14, <1>15, <1>16, <1>17, <1>18, <1>19, <1>20, <1>21, <1>22, <1>23, <1>24,
       <1>25, <1>26, <1>27, <1>28 DEF Next, Driver, KickTail, Callers

LEMMA ClaimStep == DataOK /\ ClaimInv /\ [Next]_vars => ClaimInv'
<1> SUFFICES ASSUME DataOK, ClaimInv, [Next]_vars PROVE ClaimInv'
    OBVIOUS
<1> USE DEF ClaimInv
<1>0. ordinary \in Nat
    BY DEF DataOK
<1>1. CASE StartTurn
    BY <1>1, SMT DEF StartTurn, Aside
<1>2. CASE Claim
  <2>1. Len(Prompt) \in {0, 1} /\ (target # "next-turn" => Len(Prompt) = 0)
    BY PromptType, NoPrompt DEF DataOK
  <2> QED
    BY <1>0, <1>2, <2>1, SMT DEF Claim, Leave
<1>3. CASE RefuseStep
    BY <1>3, SMT DEF RefuseStep, Leave, Aside, Running
<1>4. CASE EnterStep
    BY <1>4, SMT DEF EnterStep, Aside, Running, locals
<1>5. CASE RequestFails
    BY <1>5, SMT DEF RequestFails, EndRequest, Aside, Running
<1>6. CASE RequestAnswers
    BY <1>6, SMT DEF RequestAnswers, EndRequest, Aside, Running
<1>7. CASE RequestCallsTools
    BY <1>7, SMT DEF RequestCallsTools, Aside, Running, locals
<1>8. CASE \E k \in LoopKinds : LoopDetected(k)
    BY <1>8, SMT DEF LoopDetected, EndRequest, Aside, Running
<1>9. CASE ToolsSettle
    BY <1>9, SMT DEF ToolsSettle, EndRequest, Aside, Running
<1>10. CASE EndStep
    BY <1>10, SMT DEF EndStep, Aside, Running
<1>11. CASE AfterStep
    BY <1>11, SMT DEF AfterStep, Leave, Aside, Running
<1>12. CASE AfterStopping
    BY <1>12, SMT DEF AfterStopping, Leave, Aside, Running
<1>13. CASE EndTurn
    BY <1>13, SMT DEF EndTurn, Aside, Running, locals
<1>14. CASE Drain
    BY <1>14, SMT DEF Drain, locals
<1>15. CASE Exit
    BY <1>15, SMT DEF Exit, locals, history
<1>16. CASE Replay
    BY <1>16, SMT DEF Replay, StartDriver, locals
<1>17. CASE BeginRecovery
    BY <1>17, SMT DEF BeginRecovery, locals
<1>18. CASE RecoveryFails
    BY <1>18, SMT DEF RecoveryFails, FinishRecovery, StartDriver, locals
<1>19. CASE SettleRecovery
    BY <1>19, SMT DEF SettleRecovery, locals, history
<1>20. CASE ResumeAfterRecovery
    BY <1>20, SMT DEF ResumeAfterRecovery, FinishRecovery, StartDriver, locals
<1>21. CASE EndMaintenance
    BY <1>21, SMT DEF EndMaintenance, StartDriver, locals
<1>22. CASE WhenIdle
    BY <1>22, SMT DEF WhenIdle, locals, history
<1>23. CASE WhenIdleChecks
    BY <1>23, SMT DEF WhenIdleChecks, locals, history
<1>24. CASE StartMaintenance
    BY <1>24, SMT DEF StartMaintenance, locals
<1>25. CASE \E by \in Causes, keepInbox \in BOOLEAN : Cancel(by, keepInbox)
    BY <1>25, SMT DEF Cancel, locals
<1>26. CASE \E m \in Queued : RemovePending(m)
    BY <1>26, SMT DEF RemovePending, locals
<1>27. CASE \E m \in Messages, to \in Targets, wakeup, reentrant \in BOOLEAN :
                 Send(m, to, wakeup, reentrant)
    BY <1>27, SendWakes, SMT
<1>28. CASE UNCHANGED vars
    BY <1>28, SMT DEF vars
<1> QED
    BY <1>1, <1>2, <1>3, <1>4, <1>5, <1>6, <1>7, <1>8, <1>9, <1>10, <1>11, <1>12, <1>13,
       <1>14, <1>15, <1>16, <1>17, <1>18, <1>19, <1>20, <1>21, <1>22, <1>23, <1>24,
       <1>25, <1>26, <1>27, <1>28 DEF Next, Driver, KickTail, Callers

LEMMA LogStep == DataOK /\ DriverInv /\ LogInv /\ [Next]_vars => LogInv'
<1> SUFFICES ASSUME DataOK, DriverInv, LogInv, [Next]_vars PROVE LogInv'
    OBVIOUS
<1>0. turn \in Nat /\ step \in Nat /\ trace \in Traces
    BY DEF DataOK
<1> USE DEF LogInv, InTurn, InStep
<1>1. CASE StartTurn
  <2>1. CASE /\ trace' = Advance(trace, [type |-> "turn/start", turn |-> turn + 1])
             /\ pc' = "opened"
    <3>1. /\ trace'.openTurn = turn + 1 /\ trace'.openStep = trace.openStep
          /\ trace'.nextTurn = trace.nextTurn /\ trace'.nextStep = 1
      BY <1>0, <2>1, turn + 1 \in Nat, TurnStartAdvances, Zenon
    <3>2. turn' = turn + 1 /\ step' = step /\ pc = "top" /\ step = 0
      BY <1>1, <2>1 DEF StartTurn, DriverInv
    <3> QED
      BY <1>0, <2>1, <3>1, <3>2
  <2>2. CASE UNCHANGED <<turn, trace>> /\ pc' = "exit"
    BY <1>1, <2>2 DEF StartTurn
  <2> QED
    BY <1>1, <2>1, <2>2, Zenon DEF StartTurn, Publish
<1>2. CASE Claim
    BY <1>2, SMT DEF Claim, Leave, Aside, Running
<1>3. CASE RefuseStep
    BY <1>3, SMT DEF RefuseStep, Leave, Aside, Running
<1>4. CASE EnterStep
  <2>1. /\ trace'.openTurn = trace.openTurn /\ trace'.openStep = step + 1
        /\ trace'.nextTurn = trace.nextTurn /\ trace'.nextStep = trace.nextStep
    BY <1>0, <1>4, step + 1 \in Nat, StepStartAdvances, Zenon DEF EnterStep, Publish
  <2> QED
    BY <1>0, <1>4, <2>1 DEF EnterStep, Running
<1>5. CASE RequestFails
    BY <1>5, SMT DEF RequestFails, EndRequest, Aside, Running
<1>6. CASE RequestAnswers
    BY <1>6, SMT DEF RequestAnswers, EndRequest, Aside, Running
<1>7. CASE RequestCallsTools
    BY <1>7, SMT DEF RequestCallsTools, Aside, Running
<1>8. CASE \E k \in LoopKinds : LoopDetected(k)
    BY <1>8, SMT DEF LoopDetected, EndRequest, Aside, Running
<1>9. CASE ToolsSettle
    BY <1>9, SMT DEF ToolsSettle, EndRequest, Aside, Running
<1>10. CASE EndStep
  <2>1. /\ trace'.openTurn = trace.openTurn /\ trace'.openStep = 0
        /\ trace'.nextTurn = trace.nextTurn /\ trace'.nextStep = trace.nextStep + 1
    BY <1>0, <1>10, StepEndAdvances, Zenon DEF EndStep, Publish
  <2> QED
    BY <1>0, <1>10, <2>1 DEF EndStep, Running
<1>11. CASE AfterStep
    BY <1>11, SMT DEF AfterStep, Leave, Aside, Running
<1>12. CASE AfterStopping
    BY <1>12, SMT DEF AfterStopping, Leave, Aside, Running
<1>13. CASE EndTurn
  <2>1. /\ trace'.openTurn = 0 /\ trace'.openStep = trace.openStep
        /\ trace'.nextTurn = trace.nextTurn + 1 /\ trace'.nextStep = trace.nextStep
    BY <1>0, <1>13, TurnEndAdvances, Zenon DEF EndTurn, Publish
  <2> QED
    BY <1>0, <1>13, <2>1 DEF EndTurn, Running
<1>14. CASE Drain
    BY <1>14, SMT DEF Drain, FreshRun, DriverInv
<1>15. CASE Exit
    BY <1>15, SMT DEF Exit, history, DriverInv
<1>16. CASE Replay
    BY <1>16, SMT DEF Replay, StartDriver, FreshRun, DriverInv
<1>17. CASE BeginRecovery
    BY <1>17, SMT DEF BeginRecovery, DriverInv
<1>18. CASE RecoveryFails
    BY <1>18, SMT DEF RecoveryFails, FinishRecovery, StartDriver, FreshRun, DriverInv
<1>19. CASE SettleRecovery
    BY <1>19, SMT DEF SettleRecovery, history, DriverInv
<1>20. CASE ResumeAfterRecovery
    BY <1>20, SMT DEF ResumeAfterRecovery, FinishRecovery, StartDriver, FreshRun, DriverInv
<1>21. CASE EndMaintenance
    BY <1>21, SMT DEF EndMaintenance, StartDriver, FreshRun, DriverInv
<1>22. CASE WhenIdle
    BY <1>22, SMT DEF WhenIdle, control, history
<1>23. CASE WhenIdleChecks
    BY <1>23, SMT DEF WhenIdleChecks, control, history
<1>24. CASE StartMaintenance
    BY <1>24, SMT DEF StartMaintenance, DriverInv
<1>25. CASE \E by \in Causes, keepInbox \in BOOLEAN : Cancel(by, keepInbox)
    BY <1>25, SMT DEF Cancel
<1>26. CASE \E m \in Queued : RemovePending(m)
    BY <1>26, SMT DEF RemovePending, control
<1>27. CASE \E m \in Messages, to \in Targets, wakeup, reentrant \in BOOLEAN :
                 Send(m, to, wakeup, reentrant)
    BY <1>27, SendWakes, SMT DEF DriverInv
<1>28. CASE UNCHANGED vars
    BY <1>28, SMT DEF vars
<1> QED
    BY <1>1, <1>2, <1>3, <1>4, <1>5, <1>6, <1>7, <1>8, <1>9, <1>10, <1>11, <1>12, <1>13,
       <1>14, <1>15, <1>16, <1>17, <1>18, <1>19, <1>20, <1>21, <1>22, <1>23, <1>24,
       <1>25, <1>26, <1>27, <1>28 DEF Next, Driver, KickTail, Callers

-----------------------------------------------------------------------------
(* Every step writes what the session validator accepts *)

LEMMA TurnEventWrites ==
    ASSUME NEW type \in {"turn/start", "turn/end"}, NEW n \in {trace.openTurn, trace.nextTurn},
           Log!Accepts(trace, [type |-> type, turn |-> n]),
           trace' = Advance(trace, [type |-> type, turn |-> n])
    PROVE  Log!Write
<1> DEFINE e == [type |-> type, turn |-> n]
<1>1. e \in Log!TurnEvents(n)
    BY DEF Log!TurnEvents
<1>2. e \in Log!Candidates(trace)
    BY <1>1, Zenon DEF Log!Candidates
<1>3. Advance(trace, e) = Log!Advance(trace, e)
    BY DEF Advance, Log!Advance, None, Log!None
<1> QED
    BY <1>2, <1>3, Zenon DEF Log!Write

LEMMA StepEventWrites ==
    ASSUME NEW type \in {"step/start", "step/end"}, NEW n \in {trace.openTurn, trace.nextTurn},
           NEW k \in {trace.openStep, trace.nextStep},
           Log!Accepts(trace, [type |-> type, turn |-> n, step |-> k]),
           trace' = Advance(trace, [type |-> type, turn |-> n, step |-> k])
    PROVE  Log!Write
<1> DEFINE e == [type |-> type, turn |-> n, step |-> k]
<1>1. e \in Log!StepEvents(n, k)
    BY DEF Log!StepEvents
<1>2. e \in Log!StepEvents(n, k) \cup Log!CallEvents(n, k) \cup Log!ResultEvents(n, k)
    BY <1>1
<1> HIDE DEF e
<1>3. e \in Log!Candidates(trace)
    BY <1>2 DEF Log!Candidates
<1>4. Advance(trace, e) = Log!Advance(trace, e)
    BY DEF e, Advance, Log!Advance, None, Log!None
<1> QED
    BY <1>3, <1>4, Zenon DEF e, Log!Write

LEMMA WriteStep == DataOK /\ LogInv /\ [Next]_vars => [Log!Write]_trace
<1> SUFFICES ASSUME DataOK, LogInv, [Next]_vars PROVE Log!Write \/ UNCHANGED trace
    OBVIOUS
<1>0. turn \in Nat /\ step \in Nat
    BY DEF DataOK
<1> USE DEF LogInv, InTurn, InStep
<1>1. CASE StartTurn
  <2>1. CASE UNCHANGED trace
    BY <2>1
  <2>2. CASE trace' = Advance(trace, [type |-> "turn/start", turn |-> turn + 1])
    <3>1. turn + 1 = trace.nextTurn /\ trace.openTurn = 0
      BY <1>1 DEF StartTurn
    <3>2. Log!Accepts(trace, [type |-> "turn/start", turn |-> turn + 1])
      BY <3>1 DEF Log!Accepts, Log!None
    <3> QED
      BY <2>2, <3>1, <3>2, TurnEventWrites, Zenon
  <2> QED
    BY <1>1, <2>1, <2>2, Zenon DEF StartTurn, Publish
<1>2. CASE Claim
    BY <1>2, Zenon DEF Claim
<1>3. CASE RefuseStep
    BY <1>3, Zenon DEF RefuseStep
<1>4. CASE EnterStep
  <2>1. turn = trace.openTurn /\ trace.openStep = 0 /\ step + 1 = trace.nextStep
    BY <1>4 DEF EnterStep
  <2>2. Log!Accepts(trace, [type |-> "step/start", turn |-> turn, step |-> step + 1])
    BY <2>1 DEF Log!Accepts, Log!None
  <2> QED
    BY <1>4, <2>1, <2>2, StepEventWrites, Zenon DEF EnterStep, Publish
<1>5. CASE RequestFails
    BY <1>5, Zenon DEF RequestFails, EndRequest
<1>6. CASE RequestAnswers
    BY <1>6, Zenon DEF RequestAnswers, EndRequest
<1>7. CASE RequestCallsTools
    BY <1>7, Zenon DEF RequestCallsTools
<1>8. CASE \E k \in LoopKinds : LoopDetected(k)
    BY <1>8, Zenon DEF LoopDetected, EndRequest
<1>9. CASE ToolsSettle
    BY <1>9, Zenon DEF ToolsSettle, EndRequest
<1>10. CASE EndStep
  <2>1. turn = trace.openTurn /\ step = trace.openStep
    BY <1>10 DEF EndStep
  <2>2. Log!Accepts(trace, [type |-> "step/end", turn |-> turn, step |-> step])
    BY <2>1 DEF Log!Accepts, Log!OpenStepIs
  <2> QED
    BY <1>10, <2>1, <2>2, StepEventWrites, Zenon DEF EndStep, Publish
<1>11. CASE AfterStep
    BY <1>11, Zenon DEF AfterStep
<1>12. CASE AfterStopping
    BY <1>12, Zenon DEF AfterStopping
<1>13. CASE EndTurn
  <2>1. turn = trace.openTurn /\ trace.openStep = 0
    BY <1>13 DEF EndTurn
  <2>2. Log!Accepts(trace, [type |-> "turn/end", turn |-> turn])
    BY <2>1 DEF Log!Accepts, Log!None
  <2> QED
    BY <1>13, <2>1, <2>2, TurnEventWrites, Zenon DEF EndTurn, Publish
<1>14. CASE Drain
    BY <1>14, Zenon DEF Drain
<1>15. CASE Exit
    BY <1>15, Zenon DEF Exit
<1>16. CASE Replay
    BY <1>16, Zenon DEF Replay
<1>17. CASE BeginRecovery
    BY <1>17, Zenon DEF BeginRecovery
<1>18. CASE RecoveryFails
    BY <1>18, Zenon DEF RecoveryFails, FinishRecovery
<1>19. CASE SettleRecovery
    BY <1>19, Zenon DEF SettleRecovery
<1>20. CASE ResumeAfterRecovery
    BY <1>20, Zenon DEF ResumeAfterRecovery, FinishRecovery
<1>21. CASE EndMaintenance
    BY <1>21, Zenon DEF EndMaintenance
<1>22. CASE WhenIdle
    BY <1>22, Zenon DEF WhenIdle
<1>23. CASE WhenIdleChecks
    BY <1>23, Zenon DEF WhenIdleChecks
<1>24. CASE StartMaintenance
    BY <1>24, Zenon DEF StartMaintenance
<1>25. CASE \E by \in Causes, keepInbox \in BOOLEAN : Cancel(by, keepInbox)
    BY <1>25, Zenon DEF Cancel
<1>26. CASE \E m \in Queued : RemovePending(m)
    BY <1>26, Zenon DEF RemovePending
<1>27. CASE \E m \in Messages, to \in Targets, wakeup, reentrant \in BOOLEAN :
                 Send(m, to, wakeup, reentrant)
    BY <1>27, SendWakes, Zenon
<1>28. CASE UNCHANGED vars
    BY <1>28, Zenon DEF vars
<1> QED
    BY <1>1, <1>2, <1>3, <1>4, <1>5, <1>6, <1>7, <1>8, <1>9, <1>10, <1>11, <1>12, <1>13,
       <1>14, <1>15, <1>16, <1>17, <1>18, <1>19, <1>20, <1>21, <1>22, <1>23, <1>24,
       <1>25, <1>26, <1>27, <1>28 DEF Next, Driver, KickTail, Callers

-----------------------------------------------------------------------------
(* Theorems *)

LEMMA InvStep == Inv /\ [Next]_vars => Inv'
BY FlagsStep, DataStep, DriverStep, ClaimStep, LogStep DEF Inv

\* The strengthening the theorems below rest on is an invariant of the agent
\* loop, for any messages, limits and bounds.
THEOREM Invariance == Spec => []Inv
BY InitInv, InvStep, PTL DEF Spec

\* Every variable of ReactLoopAgent and its inbox keeps its type.
THEOREM TypeCorrect == Spec => []TypeOK
BY Invariance, InvTypes, PTL

\* Only wakeDriver() from idle, and kick() between two turns, start a run of
\* turns: two drivers never share one session.
THEOREM OneDriverAtATime == Spec => OneDriver
<1>1. Inv /\ [Next]_vars => [pc' = "top" => pc \in {"none", "ended", "top"}]_vars
    BY DriverStep DEF Inv
<1> QED
    BY <1>1, Invariance, PTL DEF Spec, OneDriver

\* followup(): whatever is queued, steered or removed while a turn runs, the
\* turn claims at most one next-turn message (Inbox.claim).
THEOREM OnePromptPerTurn == Spec => []OneOrdinaryMessage
<1>1. Inv => OneOrdinaryMessage
    BY DEF Inv, ClaimInv, OneOrdinaryMessage
<1> QED
    BY <1>1, Invariance, PTL

\* turn() and step() append turn and step boundaries only where validateEvent
\* of session/src/invariant.ts accepts them: the loop implements the abstract
\* writer of SessionLog.
THEOREM LogRefinement == Spec => WritesValidLog
<1>1. Init => Log!Init
    BY DEF Init, Log!Init, FreshTrace, Log!FreshTrace, None, Log!None
<1>2. Inv /\ [Next]_vars => [Log!Write]_trace
    BY WriteStep DEF Inv
<1> QED
    BY <1>1, <1>2, Invariance, PTL DEF Spec, WritesValidLog, Log!Spec

-----------------------------------------------------------------------------
(* That turns end honestly *)

\* The recovery of a finished kick holds its reservation, which keeps wakes from
\* starting a driver beside it.
RecoveryInv == tail \notin {"none", "replay"} => phase # "running" /\ Recovering

\* How the driver has come to where it is in a turn: the ending a truncated step
\* sets is never overwritten, and only a recovery completes a turn after it.
EndingInv ==
    /\ pc \in InTurn \ {"ending"} =>
          /\ turnEnds \in {"none", "completed", "max-tokens"}
          /\ truncated => turnEnds = "max-tokens" \/ (pc = "closing" /\ stepEnd = "max-tokens")
    /\ pc \in {"closing", "closed"} /\ stepEnd = "recover" => Recovering
    /\ pc = "ending" =>
          /\ turnEnds = "aborted" => Aborted
          /\ truncated /\ ~Recovering => turnEnds # "completed"

LEMMA EndingInit == Init => RecoveryInv /\ EndingInv
BY DEF Init, RecoveryInv, EndingInv, InTurn

LEMMA RecoveryStep ==
    ASSUME DriverInv, RecoveryInv, [Next]_vars
    PROVE  RecoveryInv'
<1> USE DEF DriverInv, RecoveryInv, Recovering
<1>1. CASE StartTurn
    BY <1>1, SMT DEF StartTurn, Aside
<1>2. CASE Claim
    BY <1>2, SMT DEF Claim, Leave, Aside, Running
<1>3. CASE RefuseStep
    BY <1>3, SMT DEF RefuseStep, Leave, Aside, Running, recovery
<1>4. CASE EnterStep
    BY <1>4, SMT DEF EnterStep, Aside, Running, locals, recovery
<1>5. CASE RequestFails
    BY <1>5, SMT DEF RequestFails, EndRequest, Aside, Running
<1>6. CASE RequestAnswers
    BY <1>6, SMT DEF RequestAnswers, EndRequest, Aside, Running
<1>7. CASE RequestCallsTools
    BY <1>7, SMT DEF RequestCallsTools, Aside, Running, locals, recovery
<1>8. CASE \E k \in LoopKinds : LoopDetected(k)
    BY <1>8, SMT DEF LoopDetected, EndRequest, Aside, Running
<1>9. CASE ToolsSettle
    BY <1>9, SMT DEF ToolsSettle, EndRequest, Aside, Running
<1>10. CASE EndStep
    BY <1>10, SMT DEF EndStep, Aside, Running, recovery
<1>11. CASE AfterStep
    BY <1>11, SMT DEF AfterStep, Leave, Aside, Running, recovery
<1>12. CASE AfterStopping
    BY <1>12, SMT DEF AfterStopping, Leave, Aside, Running, recovery
<1>13. CASE EndTurn
    BY <1>13, SMT DEF EndTurn, Aside, Running, locals
<1>14. CASE Drain
    BY <1>14, SMT DEF Drain, FreshRun, locals, recovery
<1>15. CASE Exit
    BY <1>15, SMT DEF Exit, GoIdle, locals, recovery, history
<1>16. CASE Replay
    BY <1>16, SMT DEF Replay, StartDriver, FreshRun, Settle, locals, recovery
<1>17. CASE BeginRecovery
    BY <1>17, SMT DEF BeginRecovery, locals, recovery
<1>18. CASE RecoveryFails
    BY <1>18, SMT DEF RecoveryFails, FinishRecovery, StartDriver, FreshRun, Settle, locals
<1>19. CASE SettleRecovery
    BY <1>19, SMT DEF SettleRecovery, GoIdle, Settle, locals, recovery, history
<1>20. CASE ResumeAfterRecovery
    BY <1>20, SMT DEF ResumeAfterRecovery, FinishRecovery, StartDriver, FreshRun, Settle,
       locals
<1>21. CASE EndMaintenance
    BY <1>21, SMT DEF EndMaintenance, StartDriver, FreshRun, GoIdle, Settle, TailRunsNext,
       locals, recovery, Tails
<1>22. CASE WhenIdle
    BY <1>22, SMT DEF WhenIdle, control, locals, recovery, history
<1>23. CASE WhenIdleChecks
    BY <1>23, SMT DEF WhenIdleChecks, NextAwait, TailRunsNext, control, locals, recovery,
       history
<1>24. CASE StartMaintenance
    BY <1>24, SMT DEF StartMaintenance, locals, recovery
<1>25. CASE \E by \in Causes, keepInbox \in BOOLEAN : Cancel(by, keepInbox)
    BY <1>25, SMT DEF Cancel, locals, recovery
<1>26. CASE \E m \in Queued : RemovePending(m)
    BY <1>26, SMT DEF RemovePending, control, locals, recovery
<1>27. CASE \E m \in Messages, to \in Targets, wakeup, reentrant \in BOOLEAN :
                 Send(m, to, wakeup, reentrant)
    BY <1>27, SMT DEF Send, CanStart, StartDriver, FreshRun, locals, recovery
<1>28. CASE UNCHANGED vars
    BY <1>28, SMT DEF vars
<1> QED
    BY <1>1, <1>2, <1>3, <1>4, <1>5, <1>6, <1>7, <1>8, <1>9, <1>10, <1>11, <1>12, <1>13,
       <1>14, <1>15, <1>16, <1>17, <1>18, <1>19, <1>20, <1>21, <1>22, <1>23, <1>24, <1>25,
       <1>26, <1>27, <1>28 DEF Next, Driver, KickTail, Callers

\* What send() leaves alone, unless it starts a driver.
LEMMA SendLeaves ==
    ASSUME NEW m, NEW to, NEW wakeup, NEW reentrant, Send(m, to, wakeup, reentrant)
    PROVE  /\ UNCHANGED <<turnEnds, stepEnd, truncated, pendingLoopCompaction>>
           /\ pc' = "top" \/ (UNCHANGED pc /\ (Aborted => Aborted'))
<1>1. UNCHANGED <<turnEnds, stepEnd, truncated, pendingLoopCompaction>>
    BY Zenon DEF Send, locals, recovery
<1>2. pc' = "top" \/ (UNCHANGED pc /\ (cause' = "user" \/ cause' = cause))
    BY Zenon DEF Send, StartDriver
<1> QED
    BY <1>1, <1>2, SMT DEF Aborted

LEMMA EndingStep ==
    ASSUME DataOK, DriverInv, RecoveryInv, EndingInv, [Next]_vars
    PROVE  EndingInv'
<1> USE DEF DriverInv, RecoveryInv, EndingInv, Recovering, Aborted, InTurn
<1>1. CASE StartTurn
    BY <1>1, SMT DEF StartTurn, Aside
<1>2. CASE Claim
    BY <1>2, SMT DEF Claim, Leave, Aside, Running
<1>3. CASE RefuseStep
    BY <1>3, SMT DEF RefuseStep, Leave, Aside, Running, recovery
<1>4. CASE EnterStep
    BY <1>4, SMT DEF EnterStep, Aside, Running, locals, recovery
<1>5. CASE RequestFails
    BY <1>5, SMT DEF RequestFails, EndRequest, Aside, Running
<1>6. CASE RequestAnswers
    BY <1>6, SMT DEF RequestAnswers, EndRequest, Aside, Running
<1>7. CASE RequestCallsTools
    BY <1>7, SMT DEF RequestCallsTools, Aside, Running, locals, recovery
<1>8. CASE \E k \in LoopKinds : LoopDetected(k)
    BY <1>8, SMT DEF LoopDetected, EndRequest, Aside, Running
<1>9. CASE ToolsSettle
    BY <1>9, SMT DEF ToolsSettle, EndRequest, Aside, Running
<1>10. CASE EndStep
    BY <1>10, SMT DEF EndStep, NextEnding, Aside, Running, recovery
<1>11. CASE AfterStep
    BY <1>11, SMT DEF AfterStep, Leave, Aside, Running, recovery
<1>12. CASE AfterStopping
    BY <1>12, SMT DEF AfterStopping, Leave, Aside, Running, recovery
<1>13. CASE EndTurn
    BY <1>13, SMT DEF EndTurn, Aside, Running, locals
<1>14. CASE Drain
    BY <1>14, SMT DEF Drain, FreshRun, locals, recovery
<1>15. CASE Exit
    BY <1>15, SMT DEF Exit, GoIdle, locals, recovery, history
<1>16. CASE Replay
    BY <1>16, SMT DEF Replay, StartDriver, FreshRun, Settle, locals, recovery
<1>17. CASE BeginRecovery
    BY <1>17, SMT DEF BeginRecovery, locals, recovery
<1>18. CASE RecoveryFails
    BY <1>18, SMT DEF RecoveryFails, FinishRecovery, StartDriver, FreshRun, Settle, locals
<1>19. CASE SettleRecovery
    BY <1>19, SMT DEF SettleRecovery, GoIdle, Settle, locals, recovery, history
<1>20. CASE ResumeAfterRecovery
    BY <1>20, SMT DEF ResumeAfterRecovery, FinishRecovery, StartDriver, FreshRun, Settle,
       locals
<1>21. CASE EndMaintenance
    BY <1>21, SMT DEF EndMaintenance, StartDriver, FreshRun, GoIdle, Settle, TailRunsNext,
       locals, recovery
<1>22. CASE WhenIdle
    BY <1>22, SMT DEF WhenIdle, control, locals, recovery, history
<1>23. CASE WhenIdleChecks
    BY <1>23, SMT DEF WhenIdleChecks, NextAwait, TailRunsNext, control, locals, recovery,
       history
<1>24. CASE StartMaintenance
    BY <1>24, SMT DEF StartMaintenance, locals, recovery
<1>25. CASE \E by \in Causes, keepInbox \in BOOLEAN : Cancel(by, keepInbox)
    BY <1>25, SMT DEF Cancel, locals, recovery
<1>26. CASE \E m \in Queued : RemovePending(m)
    BY <1>26, SMT DEF RemovePending, control, locals, recovery
<1>27. CASE \E m \in Messages, to \in Targets, wakeup, reentrant \in BOOLEAN :
                 Send(m, to, wakeup, reentrant)
  <2>1. /\ UNCHANGED <<turnEnds, stepEnd, truncated, pendingLoopCompaction>>
        /\ pc' = "top" \/ (UNCHANGED pc /\ (Aborted => Aborted'))
      BY <1>27, SendLeaves
  <2> QED
      BY <2>1
<1>28. CASE UNCHANGED vars
    BY <1>28, SMT DEF vars
<1> QED
    BY <1>1, <1>2, <1>3, <1>4, <1>5, <1>6, <1>7, <1>8, <1>9, <1>10, <1>11, <1>12, <1>13,
       <1>14, <1>15, <1>16, <1>17, <1>18, <1>19, <1>20, <1>21, <1>22, <1>23, <1>24, <1>25,
       <1>26, <1>27, <1>28 DEF Next, Driver, KickTail, Callers

\* Only the finally of turn() leaves the place where a turn ends.
LEMMA EndingLeaves ==
    ASSUME EndingInv, [Next]_vars, pc = "ending", pc' # "ending"
    PROVE  /\ truncated /\ ~Recovering => turnEnds # "completed"
           /\ turnEnds = "aborted" => Aborted
BY DEF EndingInv

\* A turn that was truncated does not report completion, and one that reports
\* its cancellation was cancelled (the finally of turn(), agent.ts).
THEOREM HonestEndings == Spec => EndsHonestly
<1>1. Inv /\ RecoveryInv /\ EndingInv /\ [Next]_vars => RecoveryInv' /\ EndingInv'
    BY RecoveryStep, EndingStep DEF Inv
<1>2. Inv /\ RecoveryInv /\ EndingInv /\ [Next]_vars =>
          [pc = "ending" /\ pc' # "ending" =>
              /\ truncated /\ ~Recovering => turnEnds # "completed"
              /\ turnEnds = "aborted" => Aborted]_vars
    BY EndingLeaves DEF Inv
<1> QED
    BY Invariance, EndingInit, <1>1, <1>2, PTL DEF Spec, EndsHonestly
=============================================================================
