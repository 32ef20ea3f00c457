------------------------------ MODULE ToolCalls ------------------------------
(***************************************************************************)
(* One step's tool calls: executeToolCalls and runGroup of                 *)
(* packages/core/agent-loop/src/tool-calls.ts over the staged execution of *)
(* packages/core/tools/src/index.ts (prepare, dispatch, finalize, finish). *)
(*                                                                         *)
(* Processes: the scheduler, which runs until it awaits (schedule is then  *)
(* one of Awaiting); one dispatch per call in the pool; the policy          *)
(* listeners; whoever cancels the turn; and the registry, whose             *)
(* classification of a call may change while the batch runs.  A call is its *)
(* index in model order.                                                   *)
(*                                                                         *)
(* Abstracted: arguments and content; a result is its class.  An exception *)
(* of the scheduler's own (a vetoed append, a rejecting stage, a context    *)
(* message the inbox refuses) may happen wherever the code could raise one. *)
(*                                                                         *)
(* An operator whose name ends in Fault is a plausible bug: it stands in    *)
(* for the operator below it when a property's sensitivity is checked.      *)
(***************************************************************************)
EXTENDS Naturals, Sequences, FiniteSets, SessionTrace

CONSTANTS
    NumCalls,               \* tool-call blocks of the assistant message
    maxParallelToolCalls,   \* agentLoop.config
    Attempts                \* bound: times the wrappers have one body invoked

ASSUME ToolCallsAssumption ==
    NumCalls \in Nat \ {0} /\ maxParallelToolCalls \in Nat \ {0} /\ Attempts \in Nat \ {0}

VARIABLES
    mode,          \* executionMode of each call, as the registry answers now
    signalled,     \* signal.aborted
    schedule,      \* where the scheduler is
    first, last, groupMode,     \* the running group: planned[first..last]
    nextToStart, committed,     \* absolute positions: everything below is done
    aborted, concluded, schedulerFailure,   \* locals of runGroup
    inFlight,      \* calls whose dispatch promise has not been raced out
    stage,         \* where each call is
    result,        \* its result so far
    needsPost,     \* whether the result still goes through post-execute
    trace,         \* the session log, as its validator sees it
    results        \* the tool/result events appended, in log order

group    == <<first, last, groupMode>>
position == <<nextToStart, committed>>
call     == <<stage, result, needsPost>>

(* Of bodies the code keeps only bodies[i] > 0, as state.bodyInvoked; the count  *)
(* bounds the retries.  startedAs is history, read by the properties only.     *)
VARIABLES
    bodies,        \* times each call's body was invoked
    startedAs      \* the mode each call was classified under when it started

vars == <<mode, signalled, schedule, first, last, groupMode, nextToStart, committed,
          aborted, concluded, schedulerFailure, inFlight, stage, result, needsPost,
          trace, results, bodies, startedAs>>

-----------------------------------------------------------------------------
(* Vocabulary *)

Calls    == 1..NumCalls
Modes    == {"parallel", "exclusive"}
Awaiting == {"open", "prepare", "race", "posting", "resume", "draining"}
Schedules == Awaiting \cup {"fill", "logged", "commit", "skip", "returned", "failed"}
Ended    == {"returned", "failed"}

\* dispatch() is under way: before the tool body, in it, past it, or past an
\* attempt that was refused before it.
Dispatched == {"wrapping", "running", "unwinding", "refused"}
Stages     == {"idle", "gating", "allowed", "decided", "settled", "rejected", "done"}
                  \cup Dispatched
Successes  == {"ok", "concluding"}
Results    == {"none", "error", "ABORTED", "ABORTED_BEFORE_DISPATCH"} \cup Successes

\* cancellationResult(): which code replaces a success after cancellation.
CancellationCodeFault(i) == IF bodies[i] > 0 THEN "AbortError" ELSE "ABORTED_BEFORE_DISPATCH"
CancellationResultFault(i) == "ABORTED_BEFORE_DISPATCH"
CancellationResult(i) == IF bodies[i] > 0 THEN "ABORTED" ELSE "ABORTED_BEFORE_DISPATCH"

\* Cancellation replaces a success only: a failure is more specific.
Cancelled(i, r) == IF signalled /\ r \in Successes THEN CancellationResult(i) ELSE r

CallEvent(i)   == [type |-> "tool/call", turn |-> 1, step |-> 1, call |-> i]
ResultEvent(i) == [type |-> "tool/result", turn |-> 1, step |-> 1, call |-> i,
                   notStarted |-> FALSE]
Publish(e)     == trace' = Advance(trace, e)

Init ==
    /\ mode \in [Calls -> Modes] /\ signalled = FALSE /\ schedule = "open"
    /\ first = 1 /\ last = 0 /\ groupMode = "parallel"
    /\ nextToStart = 1 /\ committed = 1
    /\ aborted = FALSE /\ concluded = FALSE /\ schedulerFailure = FALSE
    /\ inFlight = {}
    /\ stage = [i \in Calls |-> "idle"] /\ result = [i \in Calls |-> "none"]
    /\ needsPost = [i \in Calls |-> TRUE]
    /\ trace = [FreshTrace EXCEPT !.openTurn = 1, !.openStep = 1]
    /\ results = <<>>
    /\ bodies = [i \in Calls |-> 0] /\ startedAs = [i \in Calls |-> "none"]

-----------------------------------------------------------------------------
(* The scheduler *)

\* throwSchedulerFailure()
FailureSeen == schedulerFailure

\* executeToolCalls: classify the next call and open its group.
OpenGroup ==
    /\ schedule = "open"
    /\ IF first > NumCalls
       THEN schedule' = "returned" /\ UNCHANGED <<last, groupMode, aborted>>
       ELSE /\ groupMode' = mode[first]
            /\ last' = IF mode[first] = "parallel" THEN NumCalls ELSE first
            /\ aborted' = signalled
            /\ schedule' = "fill"
    /\ UNCHANGED <<mode, signalled, first, position, concluded, schedulerFailure, inFlight,
                   call, trace, results, bodies, startedAs>>

\* The condition of fillPool's loop, and its reclassification of a later call.
PoolHasRoom == Cardinality(inFlight) < maxParallelToolCalls

JoinsPoolFault(i) == TRUE
JoinsPool(i) == i = first \/ groupMode = "exclusive" \/ mode[i] = "parallel"

MayStart ==
    ~aborted /\ nextToStart <= last /\ PoolHasRoom /\ JoinsPool(nextToStart)

\* startCall: the tool/call event comes first, and its observers may cancel.
StartCall ==
    /\ schedule = "fill" /\ MayStart
    /\ \/ /\ Publish(CallEvent(nextToStart))
          /\ startedAs' = [startedAs EXCEPT ![nextToStart] = mode[nextToStart]]
          /\ schedule' = "logged"
          /\ UNCHANGED schedulerFailure
       \/ /\ schedulerFailure' = TRUE /\ schedule' = "draining"
          /\ UNCHANGED <<trace, startedAs>>
    /\ UNCHANGED <<mode, signalled, group, position, aborted, concluded, inFlight, call,
                   results, bodies>>

Decide(i, r, post) ==
    /\ stage' = [stage EXCEPT ![i] = "decided"]
    /\ result' = [result EXCEPT ![i] = r]
    /\ needsPost' = [needsPost EXCEPT ![i] = post]

\* prepareExecution up to its first await.  Bad arguments are reported even to
\* a cancelled call; everything else checks the caller's signal first.
BeginPrepare ==
    /\ schedule = "logged"
    /\ \/ Decide(nextToStart, "error", FALSE)
       \/ signalled /\ Decide(nextToStart, "ABORTED_BEFORE_DISPATCH", FALSE)
       \/ /\ ~signalled /\ stage' = [stage EXCEPT ![nextToStart] = "gating"]
          /\ UNCHANGED <<result, needsPost>>
    /\ schedule' = "prepare"
    /\ UNCHANGED <<mode, signalled, group, position, aborted, concluded, schedulerFailure,
                   inFlight, trace, results, bodies, startedAs>>

\* dispatch() up to its first await: in a tools/execute wrapper, or in the body.
Dispatch(i) ==
    \/ stage' = [stage EXCEPT ![i] = "wrapping"] /\ UNCHANGED bodies
    \/ ~signalled /\ stage' = [stage EXCEPT ![i] = "running"]
                  /\ bodies' = [bodies EXCEPT ![i] = @ + 1]

\* prepare() resolves: a denied call has its slot, an allowed one is dispatched.
PrepareReturns ==
    /\ schedule = "prepare" /\ stage[nextToStart] \in {"allowed", "decided"}
    /\ IF FailureSeen
       THEN schedule' = "draining" /\ UNCHANGED <<nextToStart, inFlight, stage, bodies>>
       ELSE /\ IF stage[nextToStart] = "allowed"
               THEN inFlight' = inFlight \cup {nextToStart} /\ Dispatch(nextToStart)
               ELSE /\ stage' = [stage EXCEPT ![nextToStart] = "settled"]
                    /\ UNCHANGED <<inFlight, bodies>>
            /\ nextToStart' = nextToStart + 1
            /\ schedule' = "commit"
    /\ UNCHANGED <<mode, signalled, group, committed, aborted, concluded, schedulerFailure,
                   result, needsPost, trace, results, startedAs>>

\* prepare() rejects.
PrepareFails ==
    /\ schedule = "prepare" /\ stage[nextToStart] = "gating"
    /\ schedulerFailure' = TRUE /\ schedule' = "draining"
    /\ stage' = [stage EXCEPT ![nextToStart] = "rejected"]
    /\ UNCHANGED <<mode, signalled, group, position, aborted, concluded, inFlight, result,
                   needsPost, trace, results, bodies, startedAs>>

\* commitReady's loop: only the next call in model order may commit.
ReadyFault(i) == i < nextToStart /\ stage[i] = "settled"
Ready(i) == i = committed /\ i <= last /\ stage[i] = "settled"

\* finalize() or finish() has made r final: append it, then hand over the
\* result's contexts, which the inbox may refuse.
Commit(i, r) ==
    /\ \/ /\ Publish(ResultEvent(i))
          /\ results' = Append(results, [call |-> i, result |-> r])
          /\ stage' = [stage EXCEPT ![i] = "done"] /\ result' = [result EXCEPT ![i] = r]
          /\ \/ /\ committed' = committed + 1
                /\ concluded' = (concluded \/ r = "concluding")
                /\ schedule' = "commit" /\ UNCHANGED schedulerFailure
             \/ /\ schedulerFailure' = TRUE /\ schedule' = "draining"
                /\ UNCHANGED <<committed, concluded>>
       \/ /\ schedulerFailure' = TRUE /\ schedule' = "draining"
          /\ UNCHANGED <<trace, results, stage, result, committed, concluded>>
    /\ UNCHANGED <<mode, signalled, group, nextToStart, aborted, inFlight, needsPost, bodies,
                   startedAs>>

\* finish(): definition-owned finalization only, which may fail the result.
CommitFinal(i) ==
    /\ schedule = "commit" /\ Ready(i) /\ ~needsPost[i]
    /\ \E r \in {result[i], "error"} : Commit(i, r)

\* finalize(): the post-execute listeners are awaited.
BeginPost(i) ==
    /\ schedule = "commit" /\ Ready(i) /\ needsPost[i]
    /\ schedule' = "posting"
    /\ UNCHANGED <<mode, signalled, group, position, aborted, concluded, schedulerFailure,
                   inFlight, call, trace, results, bodies, startedAs>>

\* They accept, or they block or throw; a late cancellation is applied last.
CommitPosted(i) ==
    /\ schedule = "posting" /\ Ready(i)
    /\ \E r \in {Cancelled(i, result[i]), "error"} : Commit(i, r)

NothingReady ==
    /\ schedule = "commit" /\ \A i \in Calls : ~Ready(i)
    /\ schedule' = "resume"
    /\ UNCHANGED <<mode, signalled, group, position, aborted, concluded, schedulerFailure,
                   inFlight, call, trace, results, bodies, startedAs>>

\* After commitReady(), in fillPool and in the main loop alike.
Resume ==
    /\ schedule = "resume"
    /\ IF FailureSeen
       THEN schedule' = "draining" /\ UNCHANGED aborted
       ELSE schedule' = "fill" /\ aborted' = (aborted \/ signalled)
    /\ UNCHANGED <<mode, signalled, group, position, concluded, schedulerFailure, inFlight,
                   call, trace, results, bodies, startedAs>>

\* Promise.race over the pool.
GroupDrained == inFlight = {}

BeginRace ==
    /\ schedule = "fill" /\ ~MayStart /\ ~GroupDrained
    /\ schedule' = "race"
    /\ UNCHANGED <<mode, signalled, group, position, aborted, concluded, schedulerFailure,
                   inFlight, call, trace, results, bodies, startedAs>>

RacedOutFault(i) == inFlight
RacedOut(i) == inFlight \ {i}

RaceWon(i) ==
    /\ schedule = "race" /\ i \in inFlight /\ stage[i] \in {"settled", "rejected", "done"}
    /\ inFlight' = RacedOut(i)
    /\ schedule' = IF FailureSeen THEN "draining" ELSE "commit"
    /\ UNCHANGED <<mode, signalled, group, position, aborted, concluded, schedulerFailure,
                   call, trace, results, bodies, startedAs>>

\* The group is over: the caller opens the next one, or skips what is left.
EndGroup ==
    /\ schedule = "fill" /\ ~MayStart /\ GroupDrained
    /\ IF aborted THEN schedule' = "skip" /\ UNCHANGED first
                  ELSE schedule' = "open" /\ first' = nextToStart
    /\ UNCHANGED <<mode, signalled, last, groupMode, position, aborted, concluded,
                   schedulerFailure, inFlight, call, trace, results, bodies, startedAs>>

\* appendSkippedToolCall: a call/result pair for each call that never started.
FirstSkippedFault == nextToStart + 1
FirstSkipped == nextToStart

LoggedFault(i) == TRUE
Logged(i) == i \in trace.pendingCalls

SkipCall(i) ==
    /\ schedule = "skip" /\ i >= FirstSkipped /\ i = Len(results) + 1
    /\ \/ /\ i \notin trace.pendingCalls /\ Publish(CallEvent(i))
          /\ UNCHANGED <<results, stage, result>>
       \/ /\ Logged(i) /\ Publish(ResultEvent(i))
          /\ results' = Append(results, [call |-> i, result |-> "ABORTED_BEFORE_DISPATCH"])
          /\ stage' = [stage EXCEPT ![i] = "done"]
          /\ result' = [result EXCEPT ![i] = "ABORTED_BEFORE_DISPATCH"]
    /\ UNCHANGED <<mode, signalled, schedule, group, position, aborted, concluded,
                   schedulerFailure, inFlight, needsPost, bodies, startedAs>>

SkipFails ==
    /\ schedule = "skip" /\ Len(results) < NumCalls
    /\ schedulerFailure' = TRUE /\ schedule' = "draining"
    /\ UNCHANGED <<mode, signalled, group, position, aborted, concluded, inFlight, call, trace,
                   results, bodies, startedAs>>

SkippedAll ==
    /\ schedule = "skip" /\ ~(\E i \in Calls : i >= FirstSkipped /\ i = Len(results) + 1)
    /\ schedule' = "returned"
    /\ UNCHANGED <<mode, signalled, group, position, aborted, concluded, schedulerFailure,
                   inFlight, call, trace, results, bodies, startedAs>>

\* The catch: Promise.allSettled(inFlight), then throw.
DispatchesSettledFault == TRUE
DispatchesSettled == \A i \in inFlight : stage[i] \notin Dispatched

Throw ==
    /\ schedule = "draining" /\ DispatchesSettled
    /\ schedule' = "failed"
    /\ UNCHANGED <<mode, signalled, group, position, aborted, concluded, schedulerFailure,
                   inFlight, call, trace, results, bodies, startedAs>>

-----------------------------------------------------------------------------
(* Policy, dispatches, and the outside *)

Yielded == schedule \in Awaiting

Beside == UNCHANGED <<mode, signalled, schedule, group, position, aborted, concluded, inFlight,
                      trace, results, startedAs>>

\* The pre-execute listeners, the approval and the guards have decided.
PolicySettles(i) ==
    /\ Yielded /\ stage[i] = "gating"
    /\ \/ /\ ~signalled /\ stage' = [stage EXCEPT ![i] = "allowed"]
          /\ UNCHANGED <<result, needsPost>>
       \/ signalled /\ Decide(i, "ABORTED_BEFORE_DISPATCH", TRUE)
       \/ \E post \in BOOLEAN : Decide(i, "error", post)
    /\ Beside /\ UNCHANGED <<schedulerFailure, bodies>>

\* dispatchToolBody: the caller's signal, re-fused with the wrapper's, is
\* checked before the tool is resolved and its body invoked.
BodyStarts(i) ==
    /\ Yielded /\ stage[i] = "wrapping"
    /\ \/ /\ ~signalled
          /\ stage' = [stage EXCEPT ![i] = "running"]
          /\ bodies' = [bodies EXCEPT ![i] = @ + 1]
          /\ UNCHANGED result
       \/ /\ stage' = [stage EXCEPT ![i] = "refused"]
          /\ \E r \in {"ABORTED_BEFORE_DISPATCH", "error"} :
                /\ r = "error" => ~signalled
                /\ result' = [result EXCEPT ![i] = r]
          /\ UNCHANGED bodies
    /\ Beside /\ UNCHANGED <<needsPost, schedulerFailure>>

\* The body returns or throws: a success is not reported under an aborted
\* signal, the caller's or the wrapper's.
BodySettles(i) ==
    /\ Yielded /\ stage[i] = "running"
    /\ \E r \in Successes \cup {"ABORTED", "error"} :
          /\ r \in Successes => ~signalled
          /\ result' = [result EXCEPT ![i] = r]
    /\ stage' = [stage EXCEPT ![i] = "unwinding"]
    /\ Beside /\ UNCHANGED <<needsPost, schedulerFailure, bodies>>

\* A retry wrapper calls next() again after an attempt whose body failed.
Retry(i) ==
    /\ Yielded /\ stage[i] = "unwinding" /\ result[i] \notin Successes
    /\ bodies[i] \in 1..(Attempts - 1)
    /\ stage' = [stage EXCEPT ![i] = "wrapping"]
    /\ result' = [result EXCEPT ![i] = "none"]
    /\ Beside /\ UNCHANGED <<needsPost, schedulerFailure, bodies>>

\* The wrappers unwind, or answer without calling next(), or throw.
DispatchSettles(i) ==
    /\ Yielded /\ stage[i] \in Dispatched \ {"running"}
    /\ \E r \in {result[i], "ok", "error"} \ {"none"}, post \in BOOLEAN :
          /\ ~post => r = "error"
          /\ result' = [result EXCEPT ![i] = Cancelled(i, r)]
          /\ needsPost' = [needsPost EXCEPT ![i] = post]
    /\ stage' = [stage EXCEPT ![i] = "settled"]
    /\ Beside /\ UNCHANGED <<schedulerFailure, bodies>>

DispatchRejects(i) ==
    /\ Yielded /\ stage[i] \in Dispatched \ {"running"}
    /\ stage' = [stage EXCEPT ![i] = "rejected"] /\ schedulerFailure' = TRUE
    /\ Beside /\ UNCHANGED <<result, needsPost, bodies>>

\* The turn is cancelled: by anybody while the scheduler awaits, by an observer
\* of an appended event otherwise.
Cancel ==
    /\ ~signalled /\ schedule \notin Ended \cup {"fill"}
    /\ signalled' = TRUE
    /\ UNCHANGED <<mode, schedule, group, position, aborted, concluded, schedulerFailure,
                   inFlight, call, trace, results, bodies, startedAs>>

\* A tool is registered, replaced or hidden: a later call changes class.
Reclassify(i) ==
    /\ Yielded /\ stage[i] = "idle"
    /\ mode' = [mode EXCEPT ![i] = CHOOSE m \in Modes : m # @]
    /\ UNCHANGED <<signalled, schedule, group, position, aborted, concluded, schedulerFailure,
                   inFlight, call, trace, results, bodies, startedAs>>

-----------------------------------------------------------------------------
Committing == \E i \in Calls : CommitFinal(i) \/ BeginPost(i) \/ CommitPosted(i)

Skipping == (\E i \in Calls : SkipCall(i)) \/ SkipFails \/ SkippedAll

Scheduler ==
    \/ OpenGroup \/ StartCall \/ BeginPrepare \/ PrepareReturns \/ PrepareFails
    \/ Committing \/ NothingReady \/ Resume \/ BeginRace
    \/ (\E i \in Calls : RaceWon(i))
    \/ EndGroup \/ Skipping \/ Throw

Execution(i) ==
    \/ PolicySettles(i) \/ BodyStarts(i) \/ BodySettles(i) \/ Retry(i)
    \/ DispatchSettles(i) \/ DispatchRejects(i)

Next ==
    \/ Scheduler
    \/ \E i \in Calls : Execution(i) \/ Reclassify(i)
    \/ Cancel

Spec == Init /\ [][Next]_vars

\* Tools are cooperative: listeners, wrappers and bodies settle, and a runnable
\* continuation is run.
Fairness == WF_vars(Scheduler) /\ \A i \in Calls : WF_vars(Execution(i))

FairSpec == Spec /\ Fairness

-----------------------------------------------------------------------------
(* Properties *)

Committed == {results[k].call : k \in DOMAIN results}
Started   == {i \in Calls : startedAs[i] # "none"}
Running   == {i \in Calls : stage[i] = "running"}

\* Types.  One invariant for the whole module.
TypeOK ==
    /\ mode \in [Calls -> Modes] /\ signalled \in BOOLEAN /\ schedule \in Schedules
    /\ first \in 1..(NumCalls + 1) /\ last \in 0..NumCalls /\ groupMode \in Modes
    /\ nextToStart \in 1..(NumCalls + 1) /\ committed \in 1..(NumCalls + 1)
    /\ aborted \in BOOLEAN /\ concluded \in BOOLEAN /\ schedulerFailure \in BOOLEAN
    /\ inFlight \subseteq Calls
    /\ stage \in [Calls -> Stages] /\ result \in [Calls -> Results]
    /\ needsPost \in [Calls -> BOOLEAN]
    /\ trace \in [openTurn: {1}, openStep: {1}, nextTurn: {1}, nextStep: {1},
                  pendingCalls: SUBSET Calls]
    /\ results \in Seq([call: Calls, result: Results])
    /\ bodies \in [Calls -> 0..Attempts] /\ startedAs \in [Calls -> Modes \cup {"none"}]

\* A batch that returns, cancelled or not, leaves every model call exactly one
\* result, and no call pending.
EveryCallAnswered ==
    schedule = "returned" =>
        /\ Len(results) = NumCalls /\ Committed = Calls
        /\ trace.pendingCalls = {}

\* Results are durable in model order whatever order the tools finish in.
ResultsInModelOrder == \A k \in DOMAIN results : results[k].call = k

\* A call that started as exclusive overlaps no other body and no uncommitted
\* call, though calls are reclassified while the batch runs.
ExclusiveRunsAlone ==
    \A i \in Calls : startedAs[i] = "exclusive" /\ stage[i] \in Dispatched =>
        \A j \in Started \ {i} : stage[j] = "done"

\* The result of a cancelled call tells the truth about its side effects: it
\* becomes ABORTED only if the tool body was invoked, ABORTED_BEFORE_DISPATCH
\* only if it never was (core/tools/src/index.ts:468-472), through prepare,
\* dispatch, post-execute and skipping.  The one exception is the moment at which
\* a further attempt, which a wrapper asked for after the body had run, is
\* refused before the body (index.ts:1540).
CancellationIsHonest ==
    [][\A i \in Calls : result'[i] # result[i] =>
          /\ result'[i] = "ABORTED_BEFORE_DISPATCH" =>
                bodies[i] = 0 \/ (stage[i] = "wrapping" /\ stage'[i] = "refused")
          /\ result'[i] = "ABORTED" => bodies[i] > 0]_vars

\* However the batch ends, no dispatch is left running behind it.
EndsQuiescent == schedule \in Ended => \A i \in Calls : stage[i] \notin Dispatched

\* The step's log stays one the session validator accepts: every append is one
\* of the abstract writer's, and a result always has its call before it.
Log == INSTANCE SessionLog
WritesValidLog ==
    [][/\ trace' # trace => Log!Write
       /\ results' # results =>
             Accepts(trace, ResultEvent(results'[Len(results')].call))]_<<trace, results>>

\* The batch ends, whatever is cancelled, reclassified, denied or failing.
BatchEnds == <>(schedule \in Ended)
=============================================================================
