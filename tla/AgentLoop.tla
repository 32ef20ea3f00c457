------------------------------ MODULE AgentLoop ------------------------------
(***************************************************************************)
(* The turn driver of one agent: packages/core/agent-loop/src/agent.ts     *)
(* (ReactLoopAgent) over the inbox of packages/core/agent/src/inbox.ts.    *)
(*                                                                         *)
(* JavaScript runs one callback at a time, so an action is the code between *)
(* two places where somebody else can run: an await, a listener called      *)
(* synchronously (agent/status, agent/error, an inbox notification), or a   *)
(* session/event observer.  The last kind runs inside Session.append, which *)
(* refuses to be re-entered (session/src/index.ts:627), so it may cancel    *)
(* but cannot change the inbox: those points are Publishing below.          *)
(*                                                                         *)
(* Actors: the driver (kick, turn, step), the tail of a finished kick       *)
(* (finally, finishLoopCompaction), a maintenance job of somebody else, one *)
(* whenIdle() caller, and everyone who sends, removes or cancels.           *)
(*                                                                         *)
(* Abstracted: message contents, prompt assembly and request construction,  *)
(* retries and pressure compaction inside a step (they change no driver     *)
(* state), and the tool-call scheduler, which is module ToolCalls.          *)
(*                                                                         *)
(* An operator whose name ends in Fault is a plausible bug: it stands in    *)
(* for the operator below it when a property's sensitivity is checked.      *)
(***************************************************************************)
EXTENDS SequencesExt, SessionTrace

CONSTANTS
    Messages,         \* identities of the messages callers may send, once each
    UserMessages,     \* those whose source.kind is "user"
    Notes,            \* messages the loop queues itself: nudges, tool contexts
    LoopKinds,        \* the streams loop detection counts separately
    LoopLimit,        \* detections in a row that end the turn, per kind
    RecoveryOptions,  \* values of compactBeforeFailing with a provider installed
    MaxTurns,         \* bound: a loop may reach its limit in turns below it only
    MaxSteps          \* bound: a turn asks for another step below it only

ASSUME AgentLoopAssumption ==
    /\ UserMessages \subseteq Messages
    /\ Messages \cap Notes = {}
    /\ LoopLimit \in [LoopKinds -> Nat \ {0}]
    /\ RecoveryOptions \subseteq BOOLEAN
    /\ MaxTurns \in Nat /\ MaxSteps \in Nat

VARIABLES
    compactBeforeFailing,   \* the option this agent was built with
    phase,                  \* Phase.kind
    cause,                  \* abort.signal.reason of the phase, or "none"
    wakeRequested,          \* Phase.wakeRequested
    turn, step,             \* Phase.turn (lastTurn when not running), Phase.step
    nextTurn, nextStep,     \* Inbox.state
    pc,                     \* where the driver is
    target, turnEnds, stepEnd,   \* locals of turn()
    drains,                 \* turn() left its loop by break, not by return or throw
    detections,             \* consecutiveLoopDetections, consecutiveToolCallDetections
    activeTurnMessages, pendingLoopCompaction,   \* <<>> is undefined
    tail,                   \* where the finally of a finished kick is
    activityDone,           \* whose promise activityDone is
    waiter,                 \* the whenIdle() caller: whose promise it awaits
    trace                   \* the session log, as its validator sees it

control  == <<phase, cause, wakeRequested, turn, step>>
inbox    == <<nextTurn, nextStep>>
locals   == <<target, turnEnds, stepEnd, drains>>
recovery == <<activeTurnMessages, pendingLoopCompaction>>
promises == <<activityDone, waiter>>

(* History, read by the properties only. *)
VARIABLES
    sent,        \* messages sent so far
    wake,        \* what is owed to each message sent to wake the driver
    disposing,   \* how the current activity was disposed of: "no", "first", "late"
    truncated,   \* a step of this turn ended with max-tokens
    ordinary     \* next-turn messages this turn has claimed

history == <<sent, wake, disposing, truncated, ordinary>>

vars == <<compactBeforeFailing, phase, cause, wakeRequested, turn, step,
          nextTurn, nextStep, pc, target, turnEnds, stepEnd, drains, detections,
          activeTurnMessages, pendingLoopCompaction, tail, activityDone, waiter,
          trace, sent, wake, disposing, truncated, ordinary>>

-----------------------------------------------------------------------------
(* Vocabulary *)

Items      == Messages \cup Notes
Targets    == {"next-turn", "next-step"}
Causes     == {"user", "disposed"}
StepEnds   == {"none", "completed", "max-tokens", "error", "recover", "aborted"}
TurnEnds   == {"none", "completed", "max-tokens", "blocked", "error", "aborted"}
InTurn     == {"opened", "prestep", "request", "tools", "closing", "closed",
               "stopping", "ending"}
InStep     == {"request", "tools", "closing"}
Points     == {"none", "top", "ended", "exit"} \cup InTurn
Tails      == {"none", "replay", "recover", "compacting", "compacted", "useless", "failed"}
Activities == {"driver", "tail", "maintenance", "resolved"}

\* A wake is promised (a driver is coming up, or the latch is set), handed to a
\* live driver, parked where a later wake will find it (a cancelled, refused,
\* rejected or failed turn, a disposal), or stranded: unread by an empty turn, or
\* sent after the last look of a driver that still counts as running.
Wakes      == {"none", "promised", "handed", "parked", "unread", "late"}
Owing      == {"promised", "handed"}

Aborted    == cause # "none"
hasPending == nextTurn # <<>> \/ nextStep # <<>>
Queued     == Range(nextTurn) \cup Range(nextStep)
Recovering == pendingLoopCompaction # <<>>
Owed       == {m \in Messages : wake[m] \in Owing}

\* The wakes of one state are now in another.
Become(old, new) == [m \in Messages |-> IF wake[m] \in old THEN new ELSE wake[m]]
NoWakes == [m \in Messages |-> "none"]

\* Inside Session.append, or between two statements with no callback at all.
\* Not "exit": between the return of turn() and the finally of kick() lies the
\* microtask of an await.
Publishing ==
    \/ pc \in {"opened", "closing", "closed", "ended"}
    \/ pc = "ending" /\ turnEnds # "error"

\* The kick's finally runs on at once after its agent/status listeners.
TailRunsNext == tail \in {"replay", "recover"}

\* A promise that settles: whoever awaits it is released.
SettleFault(p, w) == w
Settle(p, w) == IF w = p THEN "resolved" ELSE w

\* Session.append of one event the validator constrains.
Publish(e) == trace' = Advance(trace, e)

\* What the driver starts a run of turns with: a fresh abort controller, no
\* latch, and step 0.
FreshRunFault ==
    cause' = "none" /\ wakeRequested' = FALSE /\ disposing' = "no" /\ UNCHANGED step
FreshRun == cause' = "none" /\ wakeRequested' = FALSE /\ disposing' = "no" /\ step' = 0

\* wakeDriver(): a wake starts a kick from idle, unless recovery owns it.
CanStartFault == ~Recovering
CanStart == phase = "idle" /\ ~Recovering

StartDriver == FreshRun /\ phase' = "running" /\ pc' = "top" /\ activityDone' = "driver"

\* wakeDriver(): a wake that cannot start a kick is latched behind maintenance
\* or an aborted driver, and never behind disposal.
LatchesNotFault(reason, afterAbort) == ~Recovering /\ reason # "disposed" /\ afterAbort
Latches(reason, afterAbort) ==
    ~Recovering /\ reason # "disposed" /\ (phase = "maintenance" \/ afterAbort)

\* setPhase({kind: 'idle'}): abort controller and latch go with the old phase.
GoIdleFault == phase' = "disposed" /\ cause' = "none" /\ wakeRequested' = FALSE
GoIdle == phase' = "idle" /\ cause' = "none" /\ wakeRequested' = FALSE

Init ==
    /\ compactBeforeFailing \in RecoveryOptions
    /\ phase = "idle" /\ cause = "none" /\ wakeRequested = FALSE
    /\ turn = 0 /\ step = 0
    /\ nextTurn = <<>> /\ nextStep = <<>>
    /\ pc = "none" /\ target = "next-turn" /\ turnEnds = "none" /\ stepEnd = "none"
    /\ drains = FALSE
    /\ detections = [k \in LoopKinds |-> 0]
    /\ activeTurnMessages = <<>> /\ pendingLoopCompaction = <<>>
    /\ tail = "none" /\ activityDone = "resolved" /\ waiter = "none"
    /\ trace = FreshTrace
    /\ sent = {} /\ wake = NoWakes /\ disposing = "no" /\ truncated = FALSE
    /\ ordinary = 0

-----------------------------------------------------------------------------
(* Callers *)

\* What becomes of a waking message: maintenance and an aborted driver latch its
\* wake unless disposed, a live driver is left to find it.  A cleared message is
\* owed nothing, except the turn boundary of a wake sent while idle.
Undertaking(reentrant) ==
    IF phase = "idle" THEN "promised"
    ELSE IF reentrant THEN "none"
    ELSE IF cause = "disposed" THEN "parked"
    ELSE IF phase = "maintenance" \/ Aborted THEN "promised"
    ELSE IF pc = "exit" THEN "late" ELSE "handed"

\* send(): insert, then wake the driver or latch the wake.  "reentrant": a
\* listener of the insertion cancels (clearing the inbox) before send() gets to
\* wakeDriver, which still uses the classification taken before the insertion.
Send(m, to, wakeup, reentrant) ==
    LET afterAbort == wakeup /\ Aborted
        dest   == IF afterAbort THEN "next-turn" ELSE to
        aborts == reentrant /\ phase # "idle" /\ ~Aborted
        reason == IF aborts THEN "user" ELSE cause
    IN  /\ ~Publishing /\ m \notin sent
        /\ sent' = sent \cup {m}
        /\ IF reentrant
           THEN nextTurn' = <<>> /\ nextStep' = <<>>
           ELSE /\ nextTurn' = IF dest = "next-turn" THEN Append(nextTurn, m) ELSE nextTurn
                /\ nextStep' = IF dest = "next-step" THEN Append(nextStep, m) ELSE nextStep
        /\ IF wakeup /\ CanStart
           THEN StartDriver
           ELSE /\ cause' = reason
                /\ wakeRequested' =
                       \/ wakeRequested /\ ~reentrant
                       \/ wakeup /\ phase # "idle" /\ Latches(reason, afterAbort)
                /\ UNCHANGED <<phase, step, pc, activityDone, disposing>>
        /\ wake' = [(IF reentrant THEN NoWakes ELSE wake)
                       EXCEPT ![m] = IF wakeup THEN Undertaking(reentrant) ELSE "none"]
        /\ waiter' = IF waiter = "done" THEN "none" ELSE waiter
        /\ UNCHANGED <<compactBeforeFailing, turn, locals, detections, recovery, tail,
                       trace, truncated, ordinary>>

\* cancel(): the first cause of an activity wins; a clearing cancel also drops
\* the latch.  Clearing a non-empty inbox appends, so an observer cannot do it.
\* Teardown (agent-loop/src/index.ts) never keeps the inbox.
Cancel(by, keepInbox) ==
    /\ by = "disposed" => ~keepInbox
    /\ Publishing => keepInbox \/ ~hasPending
    /\ IF keepInbox
       THEN UNCHANGED <<inbox, wakeRequested>>
       ELSE nextTurn' = <<>> /\ nextStep' = <<>> /\ wakeRequested' = FALSE
    /\ cause' = IF phase # "idle" /\ ~Aborted THEN by ELSE cause
    /\ disposing' = IF phase # "idle" /\ by = "disposed" /\ disposing = "no"
                    THEN IF Aborted THEN "late" ELSE "first"
                    ELSE disposing
    /\ wake' = IF ~keepInbox THEN NoWakes
               ELSE IF phase = "running" /\ ~Aborted THEN Become(Owing, "parked") ELSE wake
    /\ UNCHANGED <<compactBeforeFailing, phase, turn, step, pc, locals, detections, recovery,
                   tail, promises, trace, sent, truncated, ordinary>>

\* Inbox.remove() of one pending message.
RemovePending(m) ==
    /\ ~Publishing /\ m \in Queued
    /\ \/ \E i \in DOMAIN nextTurn : /\ nextTurn[i] = m
                                     /\ nextTurn' = RemoveAt(nextTurn, i)
                                     /\ UNCHANGED nextStep
       \/ \E i \in DOMAIN nextStep : /\ nextStep[i] = m
                                     /\ nextStep' = RemoveAt(nextStep, i)
                                     /\ UNCHANGED nextTurn
    /\ wake' = [k \in Messages |-> IF k = m THEN "none" ELSE wake[k]]
    /\ UNCHANGED <<compactBeforeFailing, control, pc, locals, detections, recovery, tail,
                   promises, trace, sent, disposing, truncated, ordinary>>

\* runMaintenance() by somebody else (a /compact command, the scheduler).
StartMaintenance ==
    /\ phase = "idle"
    /\ phase' = "maintenance" /\ activityDone' = "maintenance"
    /\ disposing' = "no"
    /\ waiter' = IF waiter = "done" THEN "none" ELSE waiter
    /\ UNCHANGED <<compactBeforeFailing, cause, wakeRequested, turn, step, inbox, pc, locals,
                   detections, recovery, tail, trace, sent, wake, truncated, ordinary>>

\* The job settled: idle first, then the latched wake, then done.resolve().
EndMaintenance ==
    /\ phase = "maintenance" /\ tail # "compacting" /\ ~TailRunsNext
    /\ IF wakeRequested /\ hasPending /\ ~Recovering
       THEN StartDriver
       ELSE /\ GoIdle
            /\ activityDone' = Settle("maintenance", activityDone)
            /\ UNCHANGED <<step, pc, disposing>>
    /\ waiter' = Settle("maintenance", waiter)
    /\ UNCHANGED <<compactBeforeFailing, turn, inbox, locals, detections, recovery, tail,
                   trace, sent, wake, truncated, ordinary>>

\* whenIdle(): await activityDone, and again while it has been replaced.
WhenIdle ==
    /\ waiter = "none"
    /\ waiter' = activityDone
    /\ UNCHANGED <<compactBeforeFailing, control, inbox, pc, locals, detections, recovery,
                   tail, activityDone, trace, history>>

\* The do-while condition: stop only if the awaited activity is the current one.
NextAwaitFault == "done"
NextAwait == IF activityDone = "resolved" THEN "done" ELSE activityDone

WhenIdleChecks ==
    /\ waiter = "resolved" /\ ~TailRunsNext
    /\ waiter' = NextAwait
    /\ UNCHANGED <<compactBeforeFailing, control, inbox, pc, locals, detections, recovery,
                   tail, activityDone, trace, history>>

-----------------------------------------------------------------------------
(* The driver: kick(), turn(), preStep(), step() *)

\* What no driver action touches.
Aside == UNCHANGED <<compactBeforeFailing, sent, disposing>>

\* The driver moves on inside one running phase.
Running == UNCHANGED <<phase, cause, wakeRequested, turn, activityDone, waiter, tail>>

\* turn() is left through its finally: by break, or by return or throw.
Leave(reason, byBreak) == turnEnds' = reason /\ drains' = byBreak /\ pc' = "ending"

\* turn(): no turn opens under an aborted signal; turn/start is appended first.
\* The append may be vetoed, which opens no turn and ends the driver.  A turn
\* boundary takes charge of every wake whose message is queued.
StartTurn ==
    /\ pc = "top" /\ ~TailRunsNext
    /\ \/ /\ ~Aborted
          /\ Publish([type |-> "turn/start", turn |-> turn + 1])
          /\ turn' = turn + 1 /\ activeTurnMessages' = <<>>
          /\ turnEnds' = "none" /\ target' = "next-turn" /\ pc' = "opened"
          /\ wake' = [m \in Messages |-> IF wake[m] # "none" /\ m \in Queued
                                         THEN "handed" ELSE "none"]
          /\ truncated' = FALSE /\ ordinary' = 0
       \/ /\ pc' = "exit"
          /\ wake' = IF Aborted THEN wake ELSE Become(Owing, "parked")
          /\ UNCHANGED <<turn, activeTurnMessages, turnEnds, target, trace, truncated,
                         ordinary>>
    /\ drains' = FALSE
    /\ Aside
    /\ UNCHANGED <<phase, cause, wakeRequested, step, inbox, stepEnd, detections,
                   pendingLoopCompaction, tail, promises>>

\* The queued prompt a claim takes: one, at the first step of a turn.
PromptFault == IF nextTurn # <<>> THEN <<Head(nextTurn)>> ELSE <<>>
Prompt == IF target = "next-turn" /\ nextTurn # <<>> THEN <<Head(nextTurn)>> ELSE <<>>

AfterPrompt == IF Prompt = <<>> THEN nextTurn ELSE Tail(nextTurn)

\* The head of the loop and preStep() up to its first await: Inbox.claim takes
\* all next-step input, and one prompt at the first step of a turn.
Claim ==
    /\ pc = "opened"
    /\ IF Aborted
       THEN /\ Leave("aborted", FALSE)
            /\ UNCHANGED <<inbox, detections, activeTurnMessages, wake, ordinary>>
       ELSE LET claimed == nextStep \o Prompt
            IN  /\ nextStep' = <<>>
                /\ nextTurn' = AfterPrompt
                /\ activeTurnMessages' = IF target = "next-turn" THEN claimed
                                         ELSE activeTurnMessages
                /\ detections' = IF Range(claimed) \cap UserMessages # {}
                                 THEN [k \in LoopKinds |-> 0] ELSE detections
                /\ wake' = [m \in Messages |-> IF m \in Range(claimed) THEN "none" ELSE wake[m]]
                /\ ordinary' = ordinary + Len(Prompt)
                /\ pc' = "prestep" /\ UNCHANGED <<turnEnds, drains>>
    /\ Aside /\ Running
    /\ UNCHANGED <<step, target, stepEnd, pendingLoopCompaction, trace, truncated>>

\* preStep() ends without a step: its awaits throw, or a listener rejects, or
\* the listeners enter with no message when there is nothing left to do.
RefuseStep ==
    /\ pc = "prestep"
    /\ IF Aborted
       THEN Leave("aborted", FALSE)
       ELSE \/ Leave("error", FALSE)
            \/ Leave("blocked", FALSE)
            \/ turnEnds # "none" /\ Leave(turnEnds, TRUE)
            \/ turnEnds = "none" /\ step = 0 /\ Leave("completed", FALSE)
    /\ Aside /\ Running
    /\ UNCHANGED <<step, inbox, target, stepEnd, detections, recovery, trace, wake,
                   truncated, ordinary>>

\* The step opens.  Its user/message events constrain nothing.
EnterStep ==
    /\ pc = "prestep" /\ ~Aborted
    /\ Publish([type |-> "step/start", turn |-> turn, step |-> step + 1])
    /\ step' = step + 1 /\ pc' = "request"
    /\ Aside /\ Running
    /\ UNCHANGED <<inbox, locals, detections, recovery, wake, truncated, ordinary>>

\* step() returns or throws: result is what the finally of the step then sees.
EndRequest(result) ==
    /\ stepEnd' = result /\ pc' = "closing"
    /\ Aside /\ Running
    /\ UNCHANGED <<step, target, turnEnds, drains, activeTurnMessages, trace, wake, ordinary>>

\* The request is cancelled or fails for good.
RequestFails ==
    /\ pc = "request"
    /\ EndRequest(IF Aborted THEN "aborted" ELSE "error")
    /\ UNCHANGED <<inbox, detections, pendingLoopCompaction, truncated>>

\* The model answers without tool calls, or is cut off at its token limit.
RequestAnswers ==
    /\ pc = "request" /\ ~Aborted
    /\ detections' = [k \in LoopKinds |-> 0]
    /\ \/ EndRequest("completed") /\ UNCHANGED truncated
       \/ EndRequest("max-tokens") /\ truncated' = TRUE
    /\ UNCHANGED <<inbox, pendingLoopCompaction>>

\* The model asks for tools (bounded by MaxSteps).
RequestCallsTools ==
    /\ pc = "request" /\ ~Aborted /\ step < MaxSteps
    /\ detections' = [k \in LoopKinds |-> 0]
    /\ pc' = "tools"
    /\ Aside /\ Running
    /\ UNCHANGED <<step, inbox, locals, recovery, trace, wake, truncated, ordinary>>

\* The output repeats itself.  Nothing re-checks the signal after the capacity
\* refresh that is awaited first, so this also happens in an aborted turn.
LoopDetected(k) ==
    /\ pc = "request"
    /\ detections' = [detections EXCEPT ![k] = @ + 1]
    /\ IF detections[k] + 1 < LoopLimit[k]
       THEN \E n \in Notes \ Queued :
               /\ step < MaxSteps
               /\ nextStep' = Append(nextStep, n)
               /\ EndRequest("none")
               /\ UNCHANGED pendingLoopCompaction
       ELSE /\ IF compactBeforeFailing /\ activeTurnMessages # <<>>
               THEN /\ turn < MaxTurns
                    /\ pendingLoopCompaction' = activeTurnMessages
                    /\ EndRequest("recover")
               ELSE EndRequest("error") /\ UNCHANGED pendingLoopCompaction
            /\ UNCHANGED nextStep
    /\ UNCHANGED <<nextTurn, truncated>>

\* executeToolCalls settles; a result may carry context for the next step.
\* A cancelled batch returns normally, a failed scheduler throws.
ToolsSettle ==
    /\ pc = "tools"
    /\ \/ EndRequest("none")
       \/ EndRequest("completed")
       \/ EndRequest("error")
    /\ \/ UNCHANGED nextStep
       \/ \E n \in Notes \ Queued : nextStep' = Append(nextStep, n)
    /\ UNCHANGED <<nextTurn, detections, pendingLoopCompaction, truncated>>

\* A step that returned sets the turn's ending; max-tokens is sticky.
NextEndingFault == IF stepEnd \in {"none", "completed", "max-tokens"} THEN stepEnd ELSE turnEnds
NextEnding ==
    IF stepEnd \in {"none", "completed", "max-tokens"} /\ turnEnds # "max-tokens"
    THEN stepEnd ELSE turnEnds

\* The finally of the step.
EndStep ==
    /\ pc = "closing"
    /\ Publish([type |-> "step/end", turn |-> turn, step |-> step])
    /\ turnEnds' = NextEnding
    /\ pc' = "closed"
    /\ Aside /\ Running
    /\ UNCHANGED <<step, inbox, target, stepEnd, drains, detections, recovery, wake,
                   truncated, ordinary>>

\* After the step: the catch of turn(), or the stop and continue conditions.
AfterStep ==
    /\ pc = "closed"
    /\ \/ Aborted /\ Leave("aborted", FALSE) /\ UNCHANGED target
       \/ ~Aborted /\ stepEnd = "recover" /\ Leave("completed", FALSE) /\ UNCHANGED target
       \/ ~Aborted /\ stepEnd = "error" /\ Leave("error", FALSE) /\ UNCHANGED target
       \/ /\ ~Aborted /\ stepEnd \in {"none", "completed", "max-tokens"}
          /\ IF turnEnds # "none" /\ nextStep = <<>>
             THEN pc' = "stopping" /\ UNCHANGED target
             ELSE pc' = "opened" /\ target' = "next-step"
          /\ UNCHANGED <<turnEnds, drains>>
    /\ Aside /\ Running
    /\ UNCHANGED <<step, inbox, stepEnd, detections, recovery, trace, wake, truncated,
                   ordinary>>

\* The agent/turn-stopping listeners are done; they may have steered.
AfterStopping ==
    /\ pc = "stopping"
    /\ \/ Aborted /\ Leave("aborted", FALSE) /\ UNCHANGED target
       \/ ~Aborted /\ Leave("error", FALSE) /\ UNCHANGED target
       \/ ~Aborted /\ nextStep = <<>> /\ Leave(turnEnds, TRUE) /\ UNCHANGED target
       \/ /\ ~Aborted /\ nextStep # <<>>
          /\ pc' = "opened" /\ target' = "next-step" /\ UNCHANGED <<turnEnds, drains>>
    /\ Aside /\ Running
    /\ UNCHANGED <<step, inbox, stepEnd, detections, recovery, trace, wake, truncated,
                   ordinary>>

\* The finally of turn().  Left by return or throw it does not look at the inbox
\* again: what was handed to it stays, parked by a turn that failed, unread by an
\* empty one.
EndTurn ==
    /\ pc = "ending"
    /\ Publish([type |-> "turn/end", turn |-> turn])
    /\ activeTurnMessages' = <<>>
    /\ pc' = IF drains THEN "ended" ELSE "exit"
    /\ wake' = IF drains THEN wake
               ELSE Become({"handed"}, IF turnEnds = "completed" THEN "unread" ELSE "parked")
    /\ Aside /\ Running
    /\ UNCHANGED <<step, inbox, locals, detections, pendingLoopCompaction, truncated, ordinary>>

\* Pending input opens another turn of the same driver, with a fresh controller.
Drain ==
    /\ pc = "ended"
    /\ IF hasPending
       THEN FreshRun /\ pc' = "top"
       ELSE pc' = "exit" /\ UNCHANGED <<cause, wakeRequested, step, disposing>>
    /\ UNCHANGED <<compactBeforeFailing, phase, turn, inbox, locals, detections, recovery, tail,
                   promises, trace, sent, wake, truncated, ordinary>>

-----------------------------------------------------------------------------
(* The finally of kick() and finishLoopCompaction() *)

\* kick(): the phase goes idle, whose listeners run before the rest.
Exit ==
    /\ pc = "exit"
    /\ GoIdle /\ pc' = "none"
    /\ tail' = IF Recovering THEN "recover" ELSE IF wakeRequested THEN "replay" ELSE "none"
    /\ LET promise == IF tail' = "none" THEN "resolved" ELSE "tail"
       IN  /\ activityDone' = IF activityDone = "driver" THEN promise ELSE activityDone
           /\ waiter' = IF waiter = "driver" THEN promise ELSE waiter
    /\ UNCHANGED <<compactBeforeFailing, turn, step, inbox, locals, detections, recovery, trace,
                   history>>

\* A latched wake is replayed if the inbox still holds work; an idle listener
\* may have started a driver or a maintenance job meanwhile.
Replay ==
    /\ tail = "replay"
    /\ tail' = "none"
    /\ IF hasPending /\ phase = "idle"
       THEN StartDriver
       ELSE /\ wakeRequested' = (wakeRequested \/ (hasPending /\ phase = "maintenance"
                                                     /\ cause # "disposed"))
            /\ activityDone' = Settle("tail", activityDone)
            /\ UNCHANGED <<phase, cause, step, pc, disposing>>
    /\ waiter' = Settle("tail", waiter)
    /\ UNCHANGED <<compactBeforeFailing, turn, inbox, locals, detections, recovery, trace,
                   sent, wake, truncated, ordinary>>

\* The end of finishLoopCompaction(): put the messages back if the compaction
\* committed, clear the reservation, and wake the driver for whatever is queued.
FinishRecovery(replays) ==
    LET queue == IF replays THEN pendingLoopCompaction \o nextTurn ELSE nextTurn
    IN  /\ nextTurn' = queue /\ pendingLoopCompaction' = <<>> /\ tail' = "none"
        /\ IF phase = "idle" /\ (queue # <<>> \/ nextStep # <<>>)
           THEN StartDriver
           ELSE /\ activityDone' = Settle("tail", activityDone)
                /\ UNCHANGED <<phase, cause, wakeRequested, step, pc, disposing>>
        /\ waiter' = Settle("tail", waiter)
        /\ UNCHANGED <<compactBeforeFailing, turn, nextStep, locals, detections,
                       activeTurnMessages, trace, sent, wake, truncated, ordinary>>

\* compactNow() runs the recovery as a maintenance job of its own.
BeginRecovery ==
    /\ tail = "recover" /\ phase = "idle"
    /\ phase' = "maintenance" /\ activityDone' = "maintenance" /\ disposing' = "no"
    /\ tail' = "compacting"
    /\ UNCHANGED <<compactBeforeFailing, cause, wakeRequested, turn, step, inbox, pc, locals,
                   detections, recovery, waiter, trace, sent, wake, truncated, ordinary>>

\* It throws if an idle listener has started another job; the notice that is
\* appended first may be vetoed.
RecoveryFails == tail = "recover" /\ FinishRecovery(FALSE)

\* The job settles: committed (its last abort check passed), no useful range,
\* or failed.  The maintenance promise resolves before kick() resumes.
SettleRecovery ==
    /\ tail = "compacting"
    /\ \/ ~Aborted /\ tail' \in {"compacted", "useless"}
       \/ tail' = "failed"
    /\ GoIdle
    /\ activityDone' = Settle("maintenance", activityDone)
    /\ waiter' = Settle("maintenance", waiter)
    /\ UNCHANGED <<compactBeforeFailing, turn, step, inbox, pc, locals, detections, recovery,
                   trace, history>>

ResumeAfterRecovery ==
    /\ tail \in {"compacted", "useless", "failed"}
    /\ FinishRecovery(tail = "compacted")

-----------------------------------------------------------------------------
Driver ==
    \/ StartTurn \/ Claim \/ RefuseStep \/ EnterStep
    \/ RequestFails \/ RequestAnswers \/ RequestCallsTools
    \/ (\E k \in LoopKinds : LoopDetected(k))
    \/ ToolsSettle \/ EndStep \/ AfterStep \/ AfterStopping
    \/ EndTurn \/ Drain \/ Exit

KickTail ==
    Replay \/ BeginRecovery \/ RecoveryFails \/ SettleRecovery \/ ResumeAfterRecovery

Callers ==
    \/ \E m \in Messages, to \in Targets, wakeup, reentrant \in BOOLEAN :
          Send(m, to, wakeup, reentrant)
    \/ \E by \in Causes, keepInbox \in BOOLEAN : Cancel(by, keepInbox)
    \/ \E m \in Queued : RemovePending(m)
    \/ StartMaintenance

Next == Driver \/ KickTail \/ Callers \/ EndMaintenance \/ WhenIdle \/ WhenIdleChecks

Spec == Init /\ [][Next]_vars

\* Awaited work settles: a model request, a tool batch, the listeners and a
\* maintenance job end, and a runnable continuation is run.
Fairness ==
    /\ WF_vars(Driver) /\ WF_vars(KickTail)
    /\ WF_vars(EndMaintenance) /\ WF_vars(WhenIdleChecks)

FairSpec == Spec /\ Fairness

-----------------------------------------------------------------------------
(* Properties *)

\* Types.  One invariant for the whole module.
TypeOK ==
    /\ compactBeforeFailing \in BOOLEAN
    /\ phase \in {"idle", "maintenance", "running"}
    /\ cause \in Causes \cup {"none"} /\ wakeRequested \in BOOLEAN
    /\ turn \in Nat /\ step \in Nat
    /\ nextTurn \in Seq(Items) /\ nextStep \in Seq(Items)
    /\ pc \in Points /\ target \in Targets
    /\ turnEnds \in TurnEnds /\ stepEnd \in StepEnds /\ drains \in BOOLEAN
    /\ detections \in [LoopKinds -> Nat]
    /\ activeTurnMessages \in Seq(Items) /\ pendingLoopCompaction \in Seq(Items)
    /\ tail \in Tails /\ activityDone \in Activities
    /\ waiter \in Activities \cup {"none", "done"}
    /\ trace \in [openTurn: Nat, openStep: Nat, nextTurn: Nat, nextStep: Nat,
                  pendingCalls: {{}}]
    /\ sent \subseteq Messages /\ wake \in [Messages -> Wakes]
    /\ disposing \in {"no", "first", "late"} /\ truncated \in BOOLEAN /\ ordinary \in Nat

\* A driver comes up only where none is at work: two of them never share one
\* session, whatever wakes race with convergence, recovery and maintenance.
OneDriver == [][pc' = "top" => pc \in {"none", "ended", "top"}]_vars

\* With the agent at rest nothing is owed: a wake sent while idle, during
\* maintenance or after a cancellation has had its turn boundary
\* (agent/src/runtime-types.ts:140-147), and what a live driver was handed has
\* been claimed ("live drivers claim queued work themselves", agent.ts:277), or
\* a cancelled, refused, rejected or failed turn has left it parked.  It says
\* nothing of a wake that is "late" (the hole that tool-jobs/README.md:90
\* documents) or "unread" (TurnsReadTheirWakes).
NoLostWake == phase = "idle" /\ tail = "none" /\ ~compactBeforeFailing => Owed = {}

\* followup() queues a turn and wakes the driver; steer()ing is consumed by a
\* running driver at its next step boundary, a rejected step leaving it parked
\* (agent/src/runtime-types.ts:154-164): no turn that ends as completed leaves
\* what it was handed in the inbox of an idle agent.
TurnsReadTheirWakes ==
    phase = "idle" /\ tail = "none" /\ ~compactBeforeFailing =>
        \A m \in Messages : wake[m] # "unread"

\* followup(): a turn claims at most one next-turn message.
OneOrdinaryMessage == ordinary <= 1

\* The log the driver writes is one the session validator accepts: every step
\* is an accepted append or leaves the trace alone.
Log == INSTANCE SessionLog WITH Calls <- {}
WritesValidLog == Log!Spec

\* A turn that ends by itself after a truncated step does not report completion
\* (docs/subsystems/session.md:579); an aborted turn had been cancelled.
EndsHonestly ==
    [][pc = "ending" /\ pc' # "ending" =>
          /\ truncated /\ ~Recovering => turnEnds # "completed"
          /\ turnEnds = "aborted" => Aborted]_vars

\* A driver that starts though nobody has just sent anything: a latched wake or
\* a recovery brings it up.
Replays == phase # "running" /\ phase' = "running" /\ sent' = sent

\* A disposed activity is followed by no replayed driver, the disposal that
\* finds it already cancelled by the user included (agent.ts:276-279).
DisposalParks == [][Replays => disposing = "no"]_vars

\* Once whenIdle() has told its caller that the agent is idle, no driver is up
\* until somebody sends or starts a job (agent/src/runtime-types.ts:121-134),
\* in an agent without loop recovery.
IdleIsFinal == waiter = "done" /\ ~compactBeforeFailing => phase = "idle"

\* The same of every agent, as runtime-types.ts:133 has it: whenIdle() follows
\* both the task and any waking work released behind it.
WhenIdleMeansIdle == waiter = "done" => phase = "idle"

\* agent/turn-stopping runs, and the turn ends by itself, only when the model
\* owes no response (agent/src/runtime-types.ts:298-299): the step that has just
\* ended neither called tools without a conclusion nor was nudged out of a loop.
StopsOnlyWhenNothingIsOwed == [][pc = "closed" /\ pc' = "stopping" => stepEnd # "none"]_vars

\* What is owed is served, withdrawn or parked in the end, whatever turns,
\* cancellations and jobs come in between.
WakesAreAnswered == (Owed # {} /\ ~compactBeforeFailing) ~> (Owed = {})

\* A whenIdle() caller is released, however many drivers and jobs replace each
\* other while it waits, unless maintenance jobs never stop coming.
WaitersAreReleased ==
    <>[](phase # "maintenance") => (waiter \in Activities ~> waiter \in {"none", "done"})
=============================================================================
