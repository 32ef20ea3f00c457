------------------------ MODULE AgentLoopWakeProofs ------------------------
(***************************************************************************)
(* That AgentLoop without loop recovery loses no promised wake (NoLostWake) *)
(* and that its whenIdle() does not answer early (IdleIsFinal), for every   *)
(* value of its constants.                                                 *)
(***************************************************************************)
EXTENDS AgentLoopProofs

\* Whose promise activityDone is follows from the phase, and a caller that has
\* been told that the agent is idle has been told at rest.
PlainInv == ~compactBeforeFailing =>
    /\ pendingLoopCompaction = <<>> /\ tail \in {"none", "replay"}
    /\ tail = "replay" => pc \in {"none", "top"}
    /\ phase = "running" => activityDone = "driver"
    /\ phase = "maintenance" => activityDone = "maintenance"
    /\ phase = "idle" /\ tail = "replay" => activityDone = "tail"
    /\ waiter = "done" => phase = "idle" /\ tail = "none"
    /\ phase = "idle" => cause = "none"

\* A promised wake has a driver coming up, or its message is queued and somebody
\* holds the latch for it.  What a live driver was handed is queued, and the
\* driver has its last look at the inbox before it.
Waiting ==
    \/ phase = "running" /\ Aborted /\ wakeRequested
    \/ phase = "maintenance" /\ cause # "disposed" /\ (wakeRequested \/ tail = "replay")
    \/ phase = "idle" /\ tail = "replay"

WakeInv ==
    ~compactBeforeFailing => \A m \in Messages :
        /\ wake[m] = "promised" => (pc = "top" /\ ~Aborted) \/ (m \in Queued /\ Waiting)
        /\ wake[m] = "handed" => m \in Queued /\ ~Aborted /\ pc \notin {"none", "exit"}

-----------------------------------------------------------------------------
(* Queues *)

\* Removing a position loses that element only.
LEMMA RemoveAtKeeps ==
    ASSUME NEW S, NEW s \in Seq(S), NEW i \in DOMAIN s, NEW x \in Range(s), x # s[i]
    PROVE  x \in Range(RemoveAt(s, i))
<1>1. PICK j \in 1..Len(s) : x = s[j]
    BY DEF Range
<1>2. i \in 1..Len(s) /\ j # i
    BY <1>1
<1> DEFINE a == SubSeq(s, 1, i - 1)
           b == SubSeq(s, i + 1, Len(s))
<1>0. RemoveAt(s, i) = a \o b
    BY DEF RemoveAt
<1>3. /\ a \in Seq(S) /\ Len(a) = i - 1 /\ \A k \in 1..(i - 1) : a[k] = s[k]
      /\ b \in Seq(S) /\ Len(b) = Len(s) - i /\ \A k \in 1..(Len(s) - i) : b[k] = s[i + k]
    BY <1>2
<1> HIDE DEF a, b
<1>4. /\ Len(a) + Len(b) = Len(s) - 1 /\ Len(s) \in Nat
      /\ a \o b \in Seq(S) /\ Len(a \o b) = Len(a) + Len(b)
      /\ \A k \in 1..(Len(a) + Len(b)) :
            (a \o b)[k] = IF k <= Len(a) THEN a[k] ELSE b[k - Len(a)]
  <2>1. Len(a) + Len(b) = Len(s) - 1 /\ Len(s) \in Nat
      BY <1>2, <1>3
  <2> QED
      BY <1>3, <2>1, ConcatProperties, Zenon
<1>5. CASE j < i
  <2>1. j \in 1..(i - 1) /\ j \in 1..(Len(a) + Len(b)) /\ j <= Len(a)
      BY <1>2, <1>3, <1>4, <1>5
  <2>2. (a \o b)[j] = x
      BY <1>1, <1>3, <1>4, <2>1
  <2>3. j \in DOMAIN (a \o b)
      BY <1>4, <2>1
  <2> QED
      BY <1>0, <2>2, <2>3, Zenon DEF Range
<1>6. CASE j > i
  <2>0. /\ i \in Int /\ j \in Int /\ Len(s) \in Int /\ i < j /\ 1 <= i /\ j <= Len(s)
        /\ Len(a) = i - 1 /\ Len(a) + Len(b) = Len(s) - 1
      BY <1>2, <1>3, <1>4, <1>6
  <2>1. /\ j - 1 \in 1..(Len(a) + Len(b)) /\ ~(j - 1 <= Len(a))
        /\ (j - 1) - Len(a) = j - i /\ j - i \in 1..(Len(s) - i) /\ i + (j - i) = j
      BY <2>0
  <2>2. (a \o b)[j - 1] = x
      BY <1>1, <1>3, <1>4, <2>1
  <2>3. j - 1 \in DOMAIN (a \o b)
      BY <1>4, <2>1
  <2> QED
      BY <1>0, <2>2, <2>3, Zenon DEF Range
<1> QED
    BY <1>1, <1>2, <1>5, <1>6

LEMMA AppendRange ==
    ASSUME NEW S, NEW q \in Seq(S), NEW m \in S
    PROVE  Range(q) \cup {m} \subseteq Range(Append(q, m))
<1>1. /\ DOMAIN q = 1..Len(q) /\ Len(q) \in Nat
      /\ DOMAIN Append(q, m) = 1..(Len(q) + 1)
      /\ \A k \in 1..Len(q) : Append(q, m)[k] = q[k]
      /\ Append(q, m)[Len(q) + 1] = m
    BY AppendProperties
<1>2. ASSUME NEW x \in Range(q) PROVE x \in Range(Append(q, m))
  <2>1. PICK k \in 1..Len(q) : x = q[k]
      BY <1>1 DEF Range
  <2>2. k \in 1..(Len(q) + 1) /\ Append(q, m)[k] = x
      BY <1>1, <2>1
  <2> QED
      BY <1>1, <2>2, Zenon DEF Range
<1>3. m \in Range(Append(q, m))
  <2>1. Len(q) + 1 \in 1..(Len(q) + 1)
      BY <1>1
  <2> QED
      BY <1>1, <2>1, Zenon DEF Range
<1> QED
    BY <1>2, <1>3

LEMMA PendingIffQueued ==
    ASSUME nextTurn \in Seq(Items), nextStep \in Seq(Items), Queued # {}
    PROVE  hasPending
BY DEF Queued, hasPending, Range

-----------------------------------------------------------------------------
(* Rest *)

\* What send() does besides queueing: it starts a driver, or moves nothing.
LEMMA SendStarts ==
    ASSUME NEW m, NEW to, NEW wakeup \in BOOLEAN,
           NEW reentrant \in BOOLEAN, Send(m, to, wakeup, reentrant)
    PROVE  /\ UNCHANGED <<compactBeforeFailing, pendingLoopCompaction, tail>>
           /\ waiter' # "done"
           /\ phase = "idle" => cause' \in {cause, "none"}
           /\ \/ phase' = "running" /\ pc' = "top" /\ activityDone' = "driver"
              \/ UNCHANGED <<phase, pc, activityDone>>
<1>1. UNCHANGED <<compactBeforeFailing, pendingLoopCompaction, tail>>
    BY Zenon DEF Send, recovery
<1>2. waiter' # "done"
    BY SMT DEF Send
<1>3. \/ phase' = "running" /\ pc' = "top" /\ activityDone' = "driver"
      \/ UNCHANGED <<phase, pc, activityDone>>
    BY Zenon DEF Send, StartDriver
<1>4. phase = "idle" => cause' \in {cause, "none"}
    BY Zenon DEF Send, StartDriver, FreshRun
<1> QED
    BY <1>1, <1>2, <1>3, <1>4

LEMMA PlainStep ==
    ASSUME DataOK, DriverInv, PlainInv, [Next]_vars
    PROVE  PlainInv'
<1> USE DEF DriverInv, PlainInv, Recovering
<1>1. CASE StartTurn
    BY <1>1, SMT DEF StartTurn, Aside, promises, TailRunsNext, DataOK, Tails
<1>2. CASE Claim
    BY <1>2, SMT DEF Claim, Leave, Aside, Running
<1>3. CASE RefuseStep
    BY <1>3, SMT DEF RefuseStep, Leave, Aside, Running, recovery
<1>4. CASE EnterStep
    BY <1>4, SMT DEF EnterStep, Aside, Running, locals, recovery
<1>5. CASE RequestFails
    BY <1>5, SMT DEF RequestFails, EndRequest, Aside, Running
<1>6. CASE RequestAnswers
    BY <1>6, SMT DEF RequestAnswers, EndRequest, Aside, Running
<1>7. CASE RequestCallsTools
    BY <1>7, SMT DEF RequestCallsTools, Aside, Running, locals, recovery
<1>8. CASE \E k \in LoopKinds : LoopDetected(k)
    BY <1>8, SMT DEF LoopDetected, EndRequest, Aside, Running
<1>9. CASE ToolsSettle
    BY <1>9, SMT DEF ToolsSettle, EndRequest, Aside, Running
<1>10. CASE EndStep
    BY <1>10, SMT DEF EndStep, Aside, Running, recovery
<1>11. CASE AfterStep
    BY <1>11, SMT DEF AfterStep, Leave, Aside, Running, recovery
<1>12. CASE AfterStopping
    BY <1>12, SMT DEF AfterStopping, Leave, Aside, Running, recovery
<1>13. CASE EndTurn
    BY <1>13, SMT DEF EndTurn, Aside, Running, locals
<1>14. CASE Drain
    BY <1>14, SMT DEF Drain, FreshRun, locals, recovery, promises
<1>15. CASE Exit
    BY <1>15, SMT DEF Exit, GoIdle, locals, recovery, Settle
<1>16. CASE Replay
    BY <1>16, SMT DEF Replay, StartDriver, FreshRun, Settle, locals, recovery
<1>17. CASE BeginRecovery
    BY <1>17, SMT DEF BeginRecovery, locals, recovery
<1>18. CASE RecoveryFails
    BY <1>18, SMT DEF RecoveryFails, FinishRecovery, StartDriver, FreshRun, Settle, locals
<1>19. CASE SettleRecovery
    BY <1>19, SMT DEF SettleRecovery, GoIdle, Settle, locals, recovery
<1>20. CASE ResumeAfterRecovery
    BY <1>20, SMT DEF ResumeAfterRecovery, FinishRecovery, StartDriver, FreshRun, Settle,
       locals
<1>21. CASE EndMaintenance
    BY <1>21, SMT DEF EndMaintenance, StartDriver, FreshRun, GoIdle, Settle, TailRunsNext,
       locals, recovery
<1>22. CASE WhenIdle
    BY <1>22, SMT DEF WhenIdle, control, locals, recovery, DataOK, Activities
<1>23. CASE WhenIdleChecks
    BY <1>23, SMT DEF WhenIdleChecks, NextAwait, TailRunsNext, control, locals, recovery,
       DataOK, Activities
<1>24. CASE StartMaintenance
    BY <1>24, SMT DEF StartMaintenance, locals, recovery
<1>25. CASE \E by \in Causes, keepInbox \in BOOLEAN : Cancel(by, keepInbox)
    BY <1>25, SMT DEF Cancel, locals, recovery, promises
<1>26. CASE \E m \in Queued : RemovePending(m)
    BY <1>26, SMT DEF RemovePending, control, locals, recovery, promises
<1>27. CASE \E m \in Messages, to \in Targets, wakeup, reentrant \in BOOLEAN :
                 Send(m, to, wakeup, reentrant)
  <2>1. /\ UNCHANGED <<compactBeforeFailing, pendingLoopCompaction, tail>>
        /\ waiter' # "done"
        /\ phase = "idle" => cause' \in {cause, "none"}
        /\ \/ phase' = "running" /\ pc' = "top" /\ activityDone' = "driver"
           \/ UNCHANGED <<phase, pc, activityDone>>
      BY <1>27, SendStarts
  <2> QED
      BY <2>1
<1>28. CASE UNCHANGED vars
    BY <1>28, SMT DEF vars
<1> QED
    BY <1>1, <1>2, <1>3, <1>4, <1>5, <1>6, <1>7, <1>8, <1>9, <1>10, <1>11, <1>12, <1>13,
       <1>14, <1>15, <1>16, <1>17, <1>18, <1>19, <1>20, <1>21, <1>22, <1>23, <1>24, <1>25,
       <1>26, <1>27, <1>28 DEF Next, Driver, KickTail, Callers

-----------------------------------------------------------------------------
(* Wakes *)

\* What is queued stays queued beside a step that queues something more.
LEMMA QueuedGrows ==
    ASSUME DataOK, NEW m \in Items,
           \/ nextTurn' = Append(nextTurn, m) /\ UNCHANGED nextStep
           \/ nextStep' = Append(nextStep, m) /\ UNCHANGED nextTurn
    PROVE  Queued \subseteq Queued' /\ m \in Queued'
<1>1. /\ Range(nextTurn) \cup {m} \subseteq Range(Append(nextTurn, m))
      /\ Range(nextStep) \cup {m} \subseteq Range(Append(nextStep, m))
    BY AppendRange DEF DataOK
<1>2. CASE nextTurn' = Append(nextTurn, m) /\ UNCHANGED nextStep
  <2>1. Range(nextTurn)' = Range(Append(nextTurn, m)) /\ Range(nextStep)' = Range(nextStep)
      BY <1>2
  <2> QED
      BY <1>1, <2>1, Zenon DEF Queued
<1>3. CASE nextStep' = Append(nextStep, m) /\ UNCHANGED nextTurn
  <2>1. Range(nextStep)' = Range(Append(nextStep, m)) /\ Range(nextTurn)' = Range(nextTurn)
      BY <1>3
  <2> QED
      BY <1>1, <2>1, Zenon DEF Queued
<1> QED
    BY <1>2, <1>3

\* A wake that send() promises has started a driver, or is latched behind
\* maintenance or an aborted turn with its message queued; one that it hands to
\* the driver is queued before that driver's last look.
LEMMA SendWakeKeeps ==
    ASSUME DataOK, DriverInv, PlainInv, WakeInv, ~compactBeforeFailing,
           NEW m \in Messages, NEW to \in Targets, NEW wakeup \in BOOLEAN,
           NEW reentrant \in BOOLEAN, Send(m, to, wakeup, reentrant), NEW k \in Messages
    PROVE  /\ wake'[k] = "promised" =>
                 (pc' = "top" /\ ~Aborted') \/ (k \in Queued' /\ Waiting')
           /\ wake'[k] = "handed" =>
                 k \in Queued' /\ ~Aborted' /\ pc' \notin {"none", "exit"}
<1> USE DEF DriverInv, PlainInv, Recovering
<1> DEFINE afterAbort == wakeup /\ Aborted
           latched == wakeup /\ cause # "disposed" /\ (phase = "maintenance" \/ afterAbort)
           mine == IF wakeup THEN Undertaking(reentrant) ELSE "none"
<1>0. wake'[k] = IF k = m THEN mine ELSE IF reentrant THEN "none" ELSE wake[k]
  <2>1. wake' = [(IF reentrant THEN NoWakes ELSE wake) EXCEPT ![m] = mine]
      BY Zenon DEF Send
  <2>2. CASE reentrant
      BY <2>1, <2>2 DEF NoWakes
  <2>3. CASE ~reentrant
    <3>1. wake' = [wake EXCEPT ![m] = mine]
        BY <2>1, <2>3, Zenon
    <3> HIDE DEF mine
    <3> QED
        BY <2>3, <3>1 DEF DataOK
  <2> QED
      BY <2>2, <2>3
<1>1. CASE wakeup /\ phase = "idle"
  <2>1. StartDriver
      BY <1>1, Zenon DEF Send, CanStart
  <2>2. pc' = "top" /\ cause' = "none"
      BY <2>1, Zenon DEF StartDriver, FreshRun
  <2>3. wake'[k] # "handed"
      BY <1>0, <1>1, SMT DEF WakeInv, Undertaking
  <2> QED
      BY <2>2, <2>3 DEF Aborted
<1>2. CASE ~(wakeup /\ phase = "idle") /\ ~reentrant
  <2>0. /\ wakeRequested => wakeRequested'
        /\ phase # "idle" /\ latched => wakeRequested'
    <3>1. wakeRequested' = (\/ wakeRequested /\ ~reentrant
                            \/ wakeup /\ phase # "idle" /\ Latches(cause, afterAbort))
        BY <1>2, Zenon DEF Send, CanStart
    <3> QED
        BY <1>2, <3>1, Zenon DEF Latches
  <2>1. /\ phase' = phase /\ pc' = pc /\ tail' = tail /\ cause' = cause
      BY <1>2, Zenon DEF Send, CanStart
  <2>2. /\ mine = "promised" => latched
        /\ mine = "handed" => phase = "running" /\ ~Aborted /\ pc # "exit"
      BY <1>2 DEF Undertaking, DataOK, Aborted
  <2>3. \/ nextTurn' = Append(nextTurn, m) /\ UNCHANGED nextStep
        \/ nextStep' = Append(nextStep, m) /\ UNCHANGED nextTurn
      BY <1>2, SMT DEF Send, Targets
  <2>4. Queued \subseteq Queued' /\ m \in Queued'
      BY <2>3, QueuedGrows, Zenon DEF Items
  <2>5. CASE k # m
    <3>1. wake'[k] = wake[k]
        BY <1>0, <1>2, <2>5
    <3> QED
        BY <2>0, <2>1, <2>4, <3>1 DEF WakeInv, Waiting, Aborted
  <2>6. CASE k = m
    <3>1. wake'[k] = mine
        BY <1>0, <2>6
    <3> HIDE DEF mine
    <3> QED
        BY <1>2, <2>0, <2>1, <2>2, <2>4, <2>6, <3>1 DEF DataOK, Waiting, Aborted
  <2> QED
      BY <2>5, <2>6
<1>3. CASE ~(wakeup /\ phase = "idle") /\ reentrant
    BY <1>0, <1>3 DEF Undertaking
<1> QED
    BY <1>1, <1>2, <1>3

\* What a claim leaves behind stays queued.
LEMMA ClaimKeeps ==
    ASSUME DataOK, nextStep' = <<>>, nextTurn' = AfterPrompt
    PROVE  Queued \ Range(nextStep \o Prompt) \subseteq Queued'
<1> SUFFICES ASSUME NEW x \in Queued, x \notin Range(nextStep \o Prompt)
             PROVE  x \in Range(AfterPrompt)
    BY DEF Queued, Range
<1>1. Prompt \in Seq(Items) /\ nextStep \in Seq(Items) /\ nextTurn \in Seq(Items)
    BY PromptType DEF DataOK
<1>2. /\ DOMAIN (nextStep \o Prompt) = 1..(Len(nextStep) + Len(Prompt))
      /\ Len(nextStep) \in Nat /\ Len(Prompt) \in Nat
      /\ \A i \in 1..Len(nextStep) : (nextStep \o Prompt)[i] = nextStep[i]
      /\ Len(Prompt) = 1 => (nextStep \o Prompt)[Len(nextStep) + 1] = Prompt[1]
    BY <1>1
<1>3. x \notin Range(nextStep)
  <2>1. SUFFICES ASSUME NEW i \in 1..Len(nextStep), x = nextStep[i] PROVE FALSE
      BY <1>1 DEF Range
  <2>2. i \in DOMAIN (nextStep \o Prompt) /\ (nextStep \o Prompt)[i] = x
      BY <1>2, <2>1
  <2> QED
      BY <2>2 DEF Range
<1>4. PICK i \in 1..Len(nextTurn) : x = nextTurn[i]
    BY <1>1, <1>3 DEF Queued, Range
<1>5. CASE Prompt = <<>>
    BY <1>1, <1>4, <1>5 DEF AfterPrompt, Range
<1>6. CASE Prompt # <<>>
  <2>1. Prompt = <<Head(nextTurn)>> /\ nextTurn # <<>>
      BY <1>6 DEF Prompt
  <2>2. Len(Prompt) = 1 /\ Prompt[1] = nextTurn[1]
      BY <1>1, <2>1
  <2>3. /\ Len(nextStep) + 1 \in DOMAIN (nextStep \o Prompt)
        /\ (nextStep \o Prompt)[Len(nextStep) + 1] = nextTurn[1]
      BY <1>2, <2>2
  <2>4. i # 1
      BY <1>4, <2>3 DEF Range
  <2>5. /\ i - 1 \in 1..(Len(nextTurn) - 1)
        /\ DOMAIN Tail(nextTurn) = 1..(Len(nextTurn) - 1)
        /\ Tail(nextTurn)[i - 1] = nextTurn[i]
      BY <1>1, <1>4, <2>1, <2>4
  <2> QED
      BY <1>4, <1>6, <2>5 DEF AfterPrompt, Range
<1> QED
    BY <1>5, <1>6

LEMMA RemoveKeeps ==
    ASSUME DataOK, NEW m, RemovePending(m)
    PROVE  Queued \ {m} \subseteq Queued'
<1>1. CASE \E i \in DOMAIN nextTurn : /\ nextTurn[i] = m /\ nextTurn' = RemoveAt(nextTurn, i)
                                    /\ UNCHANGED nextStep
    BY <1>1, RemoveAtKeeps DEF DataOK, Queued
<1>2. CASE \E i \in DOMAIN nextStep : /\ nextStep[i] = m /\ nextStep' = RemoveAt(nextStep, i)
                                    /\ UNCHANGED nextTurn
    BY <1>2, RemoveAtKeeps DEF DataOK, Queued
<1> QED
    BY <1>1, <1>2 DEF RemovePending

LEMMA WakeStep ==
    ASSUME DataOK, DriverInv, PlainInv, WakeInv, [Next]_vars
    PROVE  WakeInv'
<1> SUFFICES ASSUME ~compactBeforeFailing', NEW m \in Messages
             PROVE  /\ wake'[m] = "promised" =>
                          (pc' = "top" /\ ~Aborted') \/ (m \in Queued' /\ Waiting')
                    /\ wake'[m] = "handed" =>
                          m \in Queued' /\ ~Aborted' /\ pc' \notin {"none", "exit"}
    BY DEF WakeInv
<1> USE DEF DriverInv, PlainInv, Recovering, WakeInv, Waiting, Aborted
<1>0. Queued # {} => hasPending
    BY PendingIffQueued DEF DataOK
<1>1. CASE StartTurn
  <2>1. /\ UNCHANGED <<phase, cause, wakeRequested, tail, nextTurn, nextStep>>
        /\ UNCHANGED compactBeforeFailing /\ pc = "top"
      BY <1>1, Zenon DEF StartTurn, Aside, inbox
  <2>2. Queued' = Queued
      BY <2>1 DEF Queued
  <2>3. CASE pc' = "opened" /\ ~Aborted
    <3>1. wake' = [k \in Messages |-> IF wake[k] # "none" /\ k \in Queued
                                      THEN "handed" ELSE "none"]
        BY <1>1, <2>3, SMT DEF StartTurn
    <3> QED
        BY <2>1, <2>2, <2>3, <3>1
  <2>4. CASE pc' = "exit"
    <3>1. wake' = IF Aborted THEN wake ELSE Become(Owing, "parked")
        BY <1>1, <2>4, SMT DEF StartTurn
    <3>2. CASE Aborted
      <4>1. wake' = wake
          BY <3>1, <3>2
      <4> QED
          BY <2>1, <2>2, <3>2, <4>1
    <3>3. CASE ~Aborted
        BY <3>1, <3>3 DEF Become, Owing
    <3> QED
        BY <3>2, <3>3
  <2> QED
      BY <1>1, <2>3, <2>4, Zenon DEF StartTurn
<1>2. CASE Claim
  <2>1. /\ UNCHANGED <<compactBeforeFailing, phase, cause, wakeRequested, tail>>
        /\ pc = "opened" /\ pc' \in {"prestep", "ending"}
      BY <1>2, SMT DEF Claim, Leave, Aside, Running
  <2>2. CASE Aborted
    <3>1. UNCHANGED <<wake, nextTurn, nextStep>>
        BY <1>2, <2>2, Zenon DEF Claim, inbox
    <3>2. Queued' = Queued
        BY <3>1 DEF Queued
    <3> QED
        BY <2>1, <2>2, <3>1, <3>2
  <2>3. CASE ~Aborted
    <3>1. /\ nextStep' = <<>> /\ nextTurn' = AfterPrompt
          /\ wake' = [k \in Messages |-> IF k \in Range(nextStep \o Prompt)
                                          THEN "none" ELSE wake[k]]
        BY <1>2, <2>3, Zenon DEF Claim
    <3>2. Queued \ Range(nextStep \o Prompt) \subseteq Queued'
        BY <3>1, ClaimKeeps
    <3>3. wake'[m] = IF m \in Range(nextStep \o Prompt) THEN "none" ELSE wake[m]
        BY <3>1
    <3> QED
        BY <2>1, <2>3, <3>2, <3>3
  <2> QED
      BY <2>2, <2>3
<1>3. CASE RefuseStep
    BY <1>3, <1>0, SMT DEF RefuseStep, Leave, Aside, Running, inbox, recovery, Queued
<1>4. CASE EnterStep
    BY <1>4, <1>0, SMT DEF EnterStep, Aside, Running, inbox, recovery, Queued
<1>5. CASE RequestFails
    BY <1>5, <1>0, SMT DEF RequestFails, EndRequest, Aside, Running, inbox, Queued
<1>6. CASE RequestAnswers
    BY <1>6, <1>0, SMT DEF RequestAnswers, EndRequest, Aside, Running, inbox, Queued
<1>7. CASE RequestCallsTools
    BY <1>7, <1>0, SMT DEF RequestCallsTools, Aside, Running, inbox, recovery, Queued
<1>8. CASE \E k \in LoopKinds : LoopDetected(k)
  <2>1. Queued \subseteq Queued'
      BY <1>8, QueuedGrows DEF LoopDetected, Queued, Items
  <2> QED
      BY <1>8, <2>1 DEF LoopDetected, EndRequest, Aside, Running
<1>9. CASE ToolsSettle
  <2>1. Queued \subseteq Queued'
      BY <1>9, QueuedGrows DEF ToolsSettle, Queued, Items
  <2> QED
      BY <1>9, <2>1 DEF ToolsSettle, EndRequest, Aside, Running
<1>10. CASE EndStep
    BY <1>10, <1>0, SMT DEF EndStep, Aside, Running, inbox, recovery, Queued
<1>11. CASE AfterStep
    BY <1>11, <1>0, SMT DEF AfterStep, Leave, Aside, Running, inbox, recovery, Queued
<1>12. CASE AfterStopping
    BY <1>12, <1>0, SMT DEF AfterStopping, Leave, Aside, Running, inbox, recovery, Queued
<1>13. CASE EndTurn
  <2>1. /\ UNCHANGED <<compactBeforeFailing, phase, cause, wakeRequested, tail>>
        /\ UNCHANGED <<nextTurn, nextStep>> /\ pc = "ending"
        /\ pc' = IF drains THEN "ended" ELSE "exit"
      BY <1>13, Zenon DEF EndTurn, Aside, Running, inbox
  <2>2. Queued' = Queued
      BY <2>1 DEF Queued
  <2>3. CASE drains
    <3>1. wake' = wake
        BY <1>13, <2>3, Zenon DEF EndTurn
    <3> QED
        BY <2>1, <2>2, <2>3, <3>1
  <2>4. CASE ~drains
    <3>1. PICK w \in {"unread", "parked"} : wake' = Become({"handed"}, w)
        BY <1>13, <2>4, Zenon DEF EndTurn
    <3>2. wake'[m] = IF wake[m] = "handed" THEN w ELSE wake[m]
        BY <3>1 DEF Become
    <3> QED
        BY <2>1, <2>2, <2>4, <3>2
  <2> QED
      BY <2>3, <2>4
<1>14. CASE Drain
    BY <1>14, <1>0, SMT DEF Drain, FreshRun, inbox, recovery, Queued
<1>15. CASE Exit
    BY <1>15, <1>0, SMT DEF Exit, GoIdle, inbox, recovery, history, Queued
<1>16. CASE Replay
  <2>1. CASE hasPending /\ phase = "idle"
      BY <1>16, <2>1 DEF Replay, StartDriver, FreshRun
  <2>2. CASE ~(hasPending /\ phase = "idle")
    <3>1. /\ tail = "replay" /\ UNCHANGED <<compactBeforeFailing, phase, cause, pc, wake>>
          /\ UNCHANGED inbox
        BY <1>16, <2>2 DEF Replay, Settle
    <3>2. /\ wakeRequested => wakeRequested'
          /\ hasPending /\ phase = "maintenance" /\ cause # "disposed" => wakeRequested'
        BY <1>16, <2>2, Zenon DEF Replay
    <3>3. Queued' = Queued /\ Aborted' = Aborted
        BY <3>1 DEF Queued, inbox
    <3>4. CASE wake[m] = "promised" /\ ~(pc = "top" /\ ~Aborted)
      <4>1. m \in Queued /\ Waiting
          BY <3>1, <3>4
      <4>2. hasPending
          BY <1>0, <4>1
      <4>3. phase # "idle"
          BY <2>2, <4>2
      <4> QED
          BY <3>1, <3>2, <3>3, <4>1, <4>2, <4>3
    <3> QED
        BY <3>1, <3>3, <3>4
  <2> QED
      BY <2>1, <2>2
<1>17. CASE BeginRecovery
    BY <1>17, <1>0, SMT DEF BeginRecovery, inbox, recovery, Queued
<1>18. CASE RecoveryFails
    BY <1>18, <1>0, SMT DEF RecoveryFails, FinishRecovery, StartDriver, FreshRun, Settle,
       Queued
<1>19. CASE SettleRecovery
    BY <1>19, <1>0, SMT DEF SettleRecovery, GoIdle, Settle, inbox, recovery, history, Queued
<1>20. CASE ResumeAfterRecovery
    BY <1>20, <1>0, SMT DEF ResumeAfterRecovery, FinishRecovery, StartDriver, FreshRun,
       Settle, Queued
<1>21. CASE EndMaintenance
    BY <1>21, <1>0, SMT DEF EndMaintenance, StartDriver, FreshRun, GoIdle, Settle,
       TailRunsNext, inbox, recovery, Queued
<1>22. CASE WhenIdle
    BY <1>22, <1>0, SMT DEF WhenIdle, control, inbox, recovery, history, Queued
<1>23. CASE WhenIdleChecks
    BY <1>23, <1>0, SMT DEF WhenIdleChecks, NextAwait, TailRunsNext, control, inbox,
       recovery, history, Queued
<1>24. CASE StartMaintenance
    BY <1>24, <1>0, SMT DEF StartMaintenance, inbox, recovery, Queued
<1>25. CASE \E by \in Causes, keepInbox \in BOOLEAN : Cancel(by, keepInbox)
  <2>1. PICK by \in Causes, keepInbox \in BOOLEAN : Cancel(by, keepInbox)
      BY <1>25, Zenon
  <2>2. UNCHANGED <<compactBeforeFailing, phase, pc, tail>>
      BY <2>1, Zenon DEF Cancel
  <2>3. CASE ~keepInbox
    <3>1. wake' = NoWakes
        BY <2>1, <2>3, Zenon DEF Cancel
    <3> QED
        BY <3>1 DEF NoWakes
  <2>4. CASE keepInbox
    <3>1. /\ UNCHANGED <<nextTurn, nextStep, wakeRequested>> /\ by # "disposed"
          /\ cause' = IF phase # "idle" /\ ~Aborted THEN by ELSE cause
          /\ wake' = IF phase = "running" /\ ~Aborted THEN Become(Owing, "parked") ELSE wake
        BY <2>1, <2>4, Zenon DEF Cancel, inbox
    <3>2. Queued' = Queued
        BY <3>1 DEF Queued
    <3>3. CASE phase = "running" /\ ~Aborted
        BY <3>1, <3>3 DEF Become, Owing
    <3>4. CASE ~(phase = "running" /\ ~Aborted)
        BY <2>2, <3>1, <3>2, <3>4
    <3> QED
        BY <3>3, <3>4
  <2> QED
      BY <2>3, <2>4
<1>26. CASE \E n \in Queued : RemovePending(n)
  <2>1. PICK n \in Queued : RemovePending(n)
      BY <1>26
  <2>2. Queued \ {n} \subseteq Queued'
      BY <2>1, RemoveKeeps
  <2>3. wake'[m] = IF m = n THEN "none" ELSE wake[m]
      BY <2>1 DEF RemovePending
  <2>4. UNCHANGED <<compactBeforeFailing, phase, cause, wakeRequested, pc, tail>>
      BY <2>1, Zenon DEF RemovePending, control
  <2> QED
      BY <2>2, <2>3, <2>4
<1>27. CASE \E n \in Messages, to \in Targets, wakeup, reentrant \in BOOLEAN :
                 Send(n, to, wakeup, reentrant)
  <2>1. UNCHANGED compactBeforeFailing
      BY <1>27, SendStarts
  <2>2. PICK n \in Messages, to \in Targets, wakeup \in BOOLEAN, reentrant \in BOOLEAN :
              Send(n, to, wakeup, reentrant)
      BY <1>27, Zenon
  <2> QED
      BY <2>1, <2>2, SendWakeKeeps
<1>28. CASE UNCHANGED vars
    BY <1>28, <1>0, SMT DEF vars, Queued
<1> QED
    BY <1>1, <1>2, <1>3, <1>4, <1>5, <1>6, <1>7, <1>8, <1>9, <1>10, <1>11, <1>12, <1>13,
       <1>14, <1>15, <1>16, <1>17, <1>18, <1>19, <1>20, <1>21, <1>22, <1>23, <1>24, <1>25,
       <1>26, <1>27, <1>28 DEF Next, Driver, KickTail, Callers

-----------------------------------------------------------------------------
(* Theorems *)

LEMMA WakeInit == Init => PlainInv /\ WakeInv
BY DEF Init, PlainInv, WakeInv, NoWakes

LEMMA RestInvariance == Spec => [](Inv /\ PlainInv /\ WakeInv)
<1>1. Inv /\ PlainInv /\ WakeInv /\ [Next]_vars => PlainInv' /\ WakeInv'
    BY PlainStep, WakeStep DEF Inv
<1> QED
    BY Invariance, WakeInit, <1>1, PTL DEF Spec

\* With the agent at rest no promised wake is left: wakeDriver() starts a driver,
\* or latches the wake, and the latch is replayed by whoever lets go of it.
THEOREM WakesAreNotLost == Spec => []NoLostWake
<1>1. DriverInv /\ PlainInv /\ WakeInv => NoLostWake
    BY DEF DriverInv, WakeInv, Waiting, NoLostWake, Owed, Owing
<1>2. Inv /\ PlainInv /\ WakeInv => NoLostWake
    BY <1>1 DEF Inv
<1> QED
    BY RestInvariance, <1>2, PTL

\* Once whenIdle() has answered, no driver or job is up before the next send.
THEOREM IdleStaysIdle == Spec => []IdleIsFinal
<1>1. PlainInv => IdleIsFinal
    BY DEF PlainInv, IdleIsFinal
<1> QED
    BY RestInvariance, <1>1, PTL
=============================================================================
