--------------------------- MODULE ToolCallsProofs ---------------------------
(***************************************************************************)
(* Theorems about ToolCalls, for any number of calls, any pool size and any *)
(* number of attempts.                                                      *)
(***************************************************************************)
EXTENDS ToolCalls, SequenceTheorems, TLAPS

\* The batch is being left: no call starts or commits any more.
Over == {"skip", "draining", "returned", "failed"}

FlagsOK ==
    /\ signalled \in BOOLEAN /\ aborted \in BOOLEAN /\ concluded \in BOOLEAN
    /\ schedulerFailure \in BOOLEAN /\ needsPost \in [Calls -> BOOLEAN]

DataOK ==
    /\ mode \in [Calls -> Modes] /\ schedule \in Schedules
    /\ first \in 1..(NumCalls + 1) /\ last \in 0..NumCalls /\ groupMode \in Modes
    /\ nextToStart \in 1..(NumCalls + 1) /\ committed \in 1..(NumCalls + 1)
    /\ inFlight \subseteq Calls
    /\ stage \in [Calls -> Stages] /\ result \in [Calls -> Results]
    /\ trace \in [openTurn: {1}, openStep: {1}, nextTurn: {1}, nextStep: {1},
                  pendingCalls: SUBSET Calls]
    /\ results \in Seq([call: Calls, result: Results])
    /\ bodies \in [Calls -> 0..Attempts] /\ startedAs \in [Calls -> Modes \cup {"none"}]

\* The positions of the running group, and what the scheduler knows of them at
\* each of its places.
GroupInv ==
    /\ first <= committed /\ committed <= nextToStart
    /\ schedule = "open" => first = nextToStart
    /\ schedule \notin {"open", "returned"} =>
          /\ first <= last /\ nextToStart <= last + 1
          /\ groupMode = "exclusive" => last = first
    /\ schedule \in {"open", "skip", "returned"} => inFlight = {} /\ committed = nextToStart
    /\ schedule \in {"open", "fill"} => ~schedulerFailure
    /\ schedule \in {"logged", "prepare"} => nextToStart <= last
    /\ schedule \in {"commit", "posting", "resume", "race"} => first < nextToStart
    /\ schedule = "fill" /\ nextToStart = first => mode[first] = groupMode
    /\ schedule \in {"fill", "resume", "race"} /\ ~schedulerFailure =>
          committed = nextToStart \/ committed \in inFlight

\* Where a call can be, by its position.
StageOf(i) ==
    /\ i < committed => stage[i] = "done"
    /\ committed <= i /\ i < nextToStart =>
          \/ stage[i] \in Dispatched \cup {"settled", "rejected"}
          \/ stage[i] = "done" /\ schedule \in {"draining", "failed"}
    /\ i >= nextToStart => stage[i] \notin Dispatched \cup {"settled"}
    /\ i = nextToStart /\ schedule = "prepare" => stage[i] \in {"gating", "allowed", "decided"}
    /\ i > nextToStart \/ (i = nextToStart /\ schedule # "prepare") =>
          stage[i] = "idle" \/ schedule \in Over
    /\ stage[i] \in Dispatched => i \in inFlight
    /\ ~schedulerFailure => stage[i] # "rejected"

StageInv ==
    /\ \A i \in inFlight : first <= i /\ i < nextToStart
    /\ \A i \in Calls : StageOf(i)

\* A call is pending in the log from its tool/call to its tool/result.
PendingOf(i) ==
    /\ i < nextToStart /\ stage[i] # "done" => i \in trace.pendingCalls
    /\ i = nextToStart /\ schedule \in {"logged", "prepare"} => i \in trace.pendingCalls
    /\ i \in trace.pendingCalls =>
          /\ stage[i] # "done"
          /\ \/ i < nextToStart
             \/ i = nextToStart /\ schedule \in {"logged", "prepare", "draining", "failed"}
             \/ i = Len(results) + 1 /\ schedule \in {"skip", "draining", "failed"}

PendingInv == \A i \in Calls : PendingOf(i)

\* The results in the log are those of the first calls, in their order.
ResultsInv ==
    /\ Len(results) <= NumCalls
    /\ schedule \notin Over => Len(results) = committed - 1
    /\ schedule = "skip" => Len(results) >= committed - 1
    /\ schedule = "returned" => Len(results) = NumCalls
    /\ \A k \in 1..Len(results) :
        results[k].call = k /\ results[k].result = result[k] /\ stage[k] = "done"
    /\ \A i \in Calls : stage[i] = "done" => i <= Len(results)

\* A call starts in the class of its group.
StartedInv ==
    \A i \in Calls : startedAs[i] # "none" =>
        /\ i <= last
        /\ \/ i < nextToStart
           \/ i = nextToStart /\ schedule \in {"logged", "prepare", "draining", "failed"}
        /\ first <= i => startedAs[i] = groupMode

\* What the stage and the result of a call say of its body.
BodiesInv ==
    \A i \in Calls :
        /\ i >= nextToStart => bodies[i] = 0
        /\ stage[i] \in {"idle", "gating", "allowed", "wrapping", "running"} =>
              result[i] = "none"
        /\ stage[i] = "wrapping" => bodies[i] < Attempts
        /\ stage[i] \in {"running", "unwinding"} => bodies[i] > 0
        /\ result[i] = "ABORTED" => bodies[i] > 0

\* Two halves, which different provers take: what is integers, sets and
\* functions, and what is Boolean.  No clause of Data reads a Boolean but
\* schedulerFailure.
Data == DataOK /\ GroupInv /\ StageInv /\ PendingInv /\ ResultsInv /\ StartedInv
         /\ BodiesInv

Inv == FlagsOK /\ Data

-----------------------------------------------------------------------------
(* The appends *)

\* What publishing a call, and a result, does to the log's pending calls.
LEMMA CallAdvances ==
    ASSUME DataOK, NEW i \in Calls, Publish(CallEvent(i))
    PROVE  /\ trace' \in [openTurn: {1}, openStep: {1}, nextTurn: {1}, nextStep: {1},
                          pendingCalls: SUBSET Calls]
           /\ trace'.pendingCalls = trace.pendingCalls \cup {i}
BY DEF DataOK, Publish, CallEvent, Advance

LEMMA ResultAdvances ==
    ASSUME DataOK, NEW i \in Calls, Publish(ResultEvent(i))
    PROVE  /\ trace' \in [openTurn: {1}, openStep: {1}, nextTurn: {1}, nextStep: {1},
                          pendingCalls: SUBSET Calls]
           /\ trace'.pendingCalls = trace.pendingCalls \ {i}
BY DEF DataOK, Publish, ResultEvent, Advance

-----------------------------------------------------------------------------
(* The scheduler.  One lemma per action: the first steps say what the action *)
(* does, the others derive each part of the invariant from them.            *)

LEMMA OpenGroupKeeps ==
    ASSUME Data, OpenGroup
    PROVE  Data'
<1> USE ToolCallsAssumption DEF Data
<1>1. schedule = "open" /\ inFlight = {} /\ first = nextToStart /\ committed = nextToStart
    BY DEF OpenGroup, GroupInv
<1>2. UNCHANGED <<mode, first, nextToStart, committed, schedulerFailure, inFlight, stage,
              result, trace, results, bodies, startedAs>>
    BY DEF OpenGroup, position, call
<1>3. CASE first > NumCalls /\ schedule' = "returned" /\ UNCHANGED <<last, groupMode>>
  <2>1. DataOK'
      BY <1>1, <1>2, <1>3 DEF DataOK, Schedules, Awaiting, Stages, Dispatched, Results,
         Successes, Calls
  <2>2. GroupInv'
      BY <1>1, <1>2, <1>3 DEF DataOK, GroupInv, StageInv, StageOf, Calls, Dispatched,
         Awaiting
  <2>3. StageInv'
      BY <1>1, <1>2, <1>3 DEF DataOK, GroupInv, StageInv, StageOf, Calls, Dispatched, Over,
         Awaiting
  <2>4. PendingInv'
      BY <1>1, <1>2, <1>3 DEF DataOK, GroupInv, StageInv, StageOf, PendingInv, PendingOf,
         ResultsInv, Calls, Dispatched, Over, Awaiting
  <2>5. ResultsInv'
      BY <1>1, <1>2, <1>3 DEF DataOK, GroupInv, StageInv, StageOf, ResultsInv, Calls, Over,
         Awaiting, Dispatched
  <2>6. StartedInv'
      BY <1>1, <1>2, <1>3 DEF DataOK, GroupInv, StartedInv, StageInv, StageOf, Calls
  <2>7. BodiesInv'
      BY <1>1, <1>2, <1>3 DEF DataOK, GroupInv, StageInv, StageOf, BodiesInv, Calls,
         Dispatched, Successes, Awaiting
  <2> QED
      BY <2>1, <2>2, <2>3, <2>4, <2>5, <2>6, <2>7 DEF Data
<1>4. CASE /\ first <= NumCalls /\ schedule' = "fill" /\ groupMode' = mode[first]
           /\ last' = IF mode[first] = "parallel" THEN NumCalls ELSE first
  <2>1. first \in Calls /\ mode[first] \in Modes /\ last' \in first..NumCalls
      BY <1>4 DEF DataOK, Calls
  <2>2. groupMode' = "exclusive" => last' = first
      BY <1>4
  <2>3. DataOK'
      BY <1>1, <1>2, <1>4, <2>1, <2>2 DEF DataOK, Schedules, Awaiting, Stages, Dispatched,
         Results, Successes, Calls
  <2>4. GroupInv'
      BY <1>1, <1>2, <1>4, <2>1, <2>2 DEF DataOK, GroupInv, StageInv, StageOf, Calls,
         Dispatched, Awaiting, Modes
  <2>5. StageInv'
      BY <1>1, <1>2, <1>4, <2>1, <2>2 DEF DataOK, GroupInv, StageInv, StageOf, Calls,
         Dispatched, Over, Awaiting
  <2>6. PendingInv'
      BY <1>1, <1>2, <1>4, <2>1, <2>2 DEF DataOK, GroupInv, StageInv, StageOf, PendingInv,
         PendingOf, ResultsInv, Calls, Dispatched, Over, Awaiting
  <2>7. ResultsInv'
      BY <1>1, <1>2, <1>4, <2>1, <2>2 DEF DataOK, GroupInv, StageInv, StageOf, ResultsInv,
         Calls, Over, Awaiting, Dispatched
  <2>8. StartedInv'
      BY <1>1, <1>2, <1>4, <2>1, <2>2 DEF DataOK, GroupInv, StartedInv, StageInv, StageOf,
         Calls
  <2>9. BodiesInv'
      BY <1>1, <1>2, <1>4, <2>1, <2>2 DEF DataOK, GroupInv, StageInv, StageOf, BodiesInv,
         Calls, Dispatched, Successes, Awaiting
  <2> QED
      BY <2>3, <2>4, <2>5, <2>6, <2>7, <2>8, <2>9 DEF Data
<1> QED
    BY <1>3, <1>4 DEF OpenGroup, DataOK

LEMMA StartCallKeeps ==
    ASSUME Data, StartCall
    PROVE  Data'
<1> USE ToolCallsAssumption DEF Data
<1>1. nextToStart \in Calls /\ nextToStart <= last /\ schedule = "fill"
    BY DEF StartCall, MayStart, DataOK, Calls
<1>2. \/ /\ Publish(CallEvent(nextToStart))
            /\ startedAs' = [startedAs EXCEPT ![nextToStart] = groupMode]
            /\ schedule' = "logged" /\ UNCHANGED schedulerFailure
         \/ /\ schedulerFailure' = TRUE /\ schedule' = "draining"
            /\ UNCHANGED <<trace, startedAs>>
    BY <1>1 DEF StartCall, MayStart, JoinsPool, DataOK, GroupInv, Modes
<1>3. UNCHANGED <<mode, first, last, groupMode, nextToStart, committed, inFlight, stage,
              result, results, bodies>>
    BY DEF StartCall, group, position, call
<1>4. /\ trace' \in [openTurn: {1}, openStep: {1}, nextTurn: {1}, nextStep: {1},
                     pendingCalls: SUBSET Calls]
      /\ schedule' = "logged" => trace'.pendingCalls = trace.pendingCalls \cup {nextToStart}
    BY <1>1, <1>2, CallAdvances DEF DataOK
<1>5. startedAs' \in [Calls -> Modes \cup {"none"}]
    BY <1>1, <1>2 DEF DataOK
<1>6. \A k \in Calls : k \in trace'.pendingCalls <=>
            k \in trace.pendingCalls \/ (k = nextToStart /\ schedule' = "logged")
    BY <1>2, <1>4
<1>7. schedule' \in {"logged", "draining"}
    BY <1>2
<1>8. DataOK'
    BY <1>1, <1>2, <1>3, <1>4, <1>5, <1>6, <1>7 DEF DataOK, Schedules, Awaiting, Stages,
       Dispatched, Results, Successes
<1>9. GroupInv'
    BY <1>1, <1>2, <1>3, <1>4, <1>5, <1>6, <1>7 DEF DataOK, GroupInv, StageInv, StageOf,
       Calls, Dispatched, Awaiting
<1>10. StageInv'
    BY <1>1, <1>2, <1>3, <1>4, <1>5, <1>6, <1>7 DEF DataOK, GroupInv, StageInv, StageOf,
       Calls, Dispatched, Over, Awaiting
<1>11. PendingInv'
    BY <1>1, <1>3, <1>6, <1>7 DEF DataOK, GroupInv, StageInv, StageOf, PendingInv,
       PendingOf, ResultsInv, Calls, Dispatched, Over, Awaiting
<1>12. ResultsInv'
    BY <1>1, <1>2, <1>3, <1>4, <1>5, <1>6, <1>7 DEF DataOK, GroupInv, StageInv, StageOf,
       ResultsInv, Calls, Over, Awaiting, Dispatched
<1>13. StartedInv'
    BY <1>1, <1>2, <1>3, <1>4, <1>5, <1>6, <1>7 DEF DataOK, GroupInv, StartedInv, StageInv,
       StageOf, Calls
<1>14. BodiesInv'
    BY <1>1, <1>2, <1>3, <1>4, <1>5, <1>6, <1>7 DEF DataOK, GroupInv, StageInv, StageOf,
       BodiesInv, Calls, Dispatched, Successes, Awaiting
<1> QED
    BY <1>8, <1>9, <1>10, <1>11, <1>12, <1>13, <1>14 DEF Data

LEMMA BeginPrepareKeeps ==
    ASSUME Data, BeginPrepare
    PROVE  Data'
<1> USE ToolCallsAssumption DEF Data
<1>1. nextToStart \in Calls /\ nextToStart <= last
    BY DEF BeginPrepare, DataOK, GroupInv, Calls
<1>2. result[nextToStart] = "none" /\ bodies[nextToStart] = 0
    BY <1>1 DEF BeginPrepare, DataOK, StageInv, StageOf, BodiesInv, Over
<1>3. /\ stage' \in [Calls -> Stages] /\ result' \in [Calls -> Results]
      /\ \A k \in Calls \ {nextToStart} : stage'[k] = stage[k] /\ result'[k] = result[k]
      /\ \/ stage'[nextToStart] = "gating" /\ result'[nextToStart] = "none"
         \/ /\ stage'[nextToStart] = "decided"
            /\ result'[nextToStart] \in {"error", "ABORTED_BEFORE_DISPATCH"}
    BY <1>1, <1>2 DEF BeginPrepare, Decide, DataOK, Stages, Results
<1>4. /\ schedule = "logged" /\ schedule' = "prepare"
      /\ UNCHANGED <<mode, first, last, groupMode, nextToStart, committed, schedulerFailure,
                 inFlight, trace, results, bodies, startedAs>>
    BY DEF BeginPrepare, group, position
<1>5. DataOK'
    BY <1>1, <1>2, <1>3, <1>4 DEF DataOK, Schedules, Awaiting, Stages, Dispatched, Results,
       Successes
<1>6. GroupInv'
    BY <1>1, <1>2, <1>3, <1>4 DEF DataOK, GroupInv, StageInv, StageOf, Calls, Dispatched,
       Awaiting
<1>7. StageInv'
    BY <1>1, <1>2, <1>3, <1>4 DEF DataOK, GroupInv, StageInv, StageOf, Calls, Dispatched,
       Over, Awaiting
<1>8. PendingInv'
    BY <1>1, <1>2, <1>3, <1>4 DEF DataOK, GroupInv, StageInv, StageOf, PendingInv,
       PendingOf, ResultsInv, Calls, Dispatched, Over, Awaiting
<1>9. ResultsInv'
    BY <1>1, <1>2, <1>3, <1>4 DEF DataOK, GroupInv, StageInv, StageOf, ResultsInv, Calls,
       Over, Awaiting, Dispatched
<1>10. StartedInv'
    BY <1>1, <1>2, <1>3, <1>4 DEF DataOK, GroupInv, StartedInv, StageInv, StageOf, Calls
<1>11. BodiesInv'
    BY <1>1, <1>2, <1>3, <1>4 DEF DataOK, GroupInv, StageInv, StageOf, BodiesInv, Calls,
       Dispatched, Successes, Awaiting
<1> QED
    BY <1>5, <1>6, <1>7, <1>8, <1>9, <1>10, <1>11 DEF Data

LEMMA PrepareReturnsKeeps ==
    ASSUME Data, PrepareReturns
    PROVE  Data'
<1> USE ToolCallsAssumption DEF Data
<1>1. /\ nextToStart \in Calls /\ nextToStart <= last
      /\ bodies[nextToStart] = 0 /\ nextToStart \notin inFlight
    BY DEF PrepareReturns, DataOK, GroupInv, StageInv, StageOf, BodiesInv, Calls
<1>2. /\ schedule = "prepare"
      /\ UNCHANGED <<mode, first, last, groupMode, committed, schedulerFailure, result, trace,
                 results, startedAs>>
    BY DEF PrepareReturns, group
<1>3. CASE /\ schedule' = "draining" /\ schedulerFailure
           /\ UNCHANGED <<nextToStart, inFlight, stage, bodies>>
  <2>1. DataOK'
      BY <1>1, <1>2, <1>3 DEF DataOK, Schedules, Awaiting, Stages, Dispatched, Results,
         Successes, Calls
  <2>2. GroupInv'
      BY <1>1, <1>2, <1>3 DEF DataOK, GroupInv, StageInv, StageOf, Calls, Dispatched,
         Awaiting
  <2>3. StageInv'
      BY <1>1, <1>2, <1>3 DEF DataOK, GroupInv, StageInv, StageOf, Calls, Dispatched, Over,
         Awaiting
  <2>4. PendingInv'
      BY <1>1, <1>2, <1>3 DEF DataOK, GroupInv, StageInv, StageOf, PendingInv, PendingOf,
         ResultsInv, Calls, Dispatched, Over, Awaiting
  <2>5. ResultsInv'
      BY <1>1, <1>2, <1>3 DEF DataOK, GroupInv, StageInv, StageOf, ResultsInv, Calls, Over,
         Awaiting, Dispatched
  <2>6. StartedInv'
      BY <1>1, <1>2, <1>3 DEF DataOK, GroupInv, StartedInv, StageInv, StageOf, Calls
  <2>7. BodiesInv'
      BY <1>1, <1>2, <1>3 DEF DataOK, GroupInv, StageInv, StageOf, BodiesInv, Calls,
         Dispatched, Successes, Awaiting
  <2> QED
      BY <2>1, <2>2, <2>3, <2>4, <2>5, <2>6, <2>7 DEF Data
<1>4. CASE /\ nextToStart' = nextToStart + 1 /\ schedule' = "commit" /\ ~schedulerFailure
           /\ stage[nextToStart] = "decided" /\ stage' = [stage EXCEPT ![nextToStart] = "settled"]
           /\ UNCHANGED <<inFlight, bodies>>
  <2>1. DataOK'
      BY <1>1, <1>2, <1>4 DEF DataOK, Schedules, Awaiting, Stages, Dispatched, Results,
         Successes, Calls
  <2>2. GroupInv'
      BY <1>1, <1>2, <1>4 DEF DataOK, GroupInv, StageInv, StageOf, Calls, Dispatched,
         Awaiting
  <2>3. StageInv'
      BY <1>1, <1>2, <1>4 DEF DataOK, GroupInv, StageInv, StageOf, Calls, Dispatched, Over,
         Awaiting
  <2>4. PendingInv'
      BY <1>1, <1>2, <1>4 DEF DataOK, GroupInv, StageInv, StageOf, PendingInv, PendingOf,
         ResultsInv, Calls, Dispatched, Over, Awaiting
  <2>5. ResultsInv'
      BY <1>1, <1>2, <1>4 DEF DataOK, GroupInv, StageInv, StageOf, ResultsInv, Calls, Over,
         Awaiting, Dispatched
  <2>6. StartedInv'
      BY <1>1, <1>2, <1>4 DEF DataOK, GroupInv, StartedInv, StageInv, StageOf, Calls
  <2>7. BodiesInv'
      BY <1>1, <1>2, <1>4 DEF DataOK, GroupInv, StageInv, StageOf, BodiesInv, Calls,
         Dispatched, Successes, Awaiting
  <2> QED
      BY <2>1, <2>2, <2>3, <2>4, <2>5, <2>6, <2>7 DEF Data
<1>5. CASE /\ nextToStart' = nextToStart + 1 /\ schedule' = "commit" /\ ~schedulerFailure
           /\ stage[nextToStart] = "allowed" /\ inFlight' = inFlight \cup {nextToStart}
           /\ stage' = [stage EXCEPT ![nextToStart] = "wrapping"] /\ UNCHANGED bodies
  <2>1. DataOK'
      BY <1>1, <1>2, <1>5 DEF DataOK, Schedules, Awaiting, Stages, Dispatched, Results,
         Successes, Calls
  <2>2. GroupInv'
      BY <1>1, <1>2, <1>5 DEF DataOK, GroupInv, StageInv, StageOf, Calls, Dispatched,
         Awaiting
  <2>3. StageInv'
      BY <1>1, <1>2, <1>5 DEF DataOK, GroupInv, StageInv, StageOf, Calls, Dispatched, Over,
         Awaiting
  <2>4. PendingInv'
      BY <1>1, <1>2, <1>5 DEF DataOK, GroupInv, StageInv, StageOf, PendingInv, PendingOf,
         ResultsInv, Calls, Dispatched, Over, Awaiting
  <2>5. ResultsInv'
      BY <1>1, <1>2, <1>5 DEF DataOK, GroupInv, StageInv, StageOf, ResultsInv, Calls, Over,
         Awaiting, Dispatched
  <2>6. StartedInv'
      BY <1>1, <1>2, <1>5 DEF DataOK, GroupInv, StartedInv, StageInv, StageOf, Calls
  <2>7. BodiesInv'
      BY <1>1, <1>2, <1>5 DEF DataOK, GroupInv, StageInv, StageOf, BodiesInv, Calls,
         Dispatched, Successes, Awaiting
  <2> QED
      BY <2>1, <2>2, <2>3, <2>4, <2>5, <2>6, <2>7 DEF Data
<1>6. CASE /\ nextToStart' = nextToStart + 1 /\ schedule' = "commit" /\ ~schedulerFailure
           /\ stage[nextToStart] = "allowed" /\ inFlight' = inFlight \cup {nextToStart}
           /\ stage' = [stage EXCEPT ![nextToStart] = "running"]
           /\ bodies' = [bodies EXCEPT ![nextToStart] = @ + 1]
  <2>1. \A k \in Calls : stage'[k] = "done" <=> stage[k] = "done"
      BY <1>1, <1>6 DEF DataOK
  <2>2. DataOK'
      BY <1>1, <1>2, <1>6, <2>1 DEF DataOK, Schedules, Awaiting, Stages, Dispatched,
         Results, Successes, Calls
  <2>3. GroupInv'
      BY <1>1, <1>2, <1>6, <2>1 DEF DataOK, GroupInv, StageInv, StageOf, Calls, Dispatched,
         Awaiting
  <2>4. StageInv'
      BY <1>1, <1>2, <1>6, <2>1 DEF DataOK, GroupInv, StageInv, StageOf, Calls, Dispatched,
         Over, Awaiting
  <2>5. PendingInv'
      BY <1>1, <1>2, <1>6, <2>1 DEF DataOK, GroupInv, StageInv, StageOf, PendingInv,
         PendingOf, ResultsInv, Calls, Dispatched, Over, Awaiting
  <2>6. ResultsInv'
      BY <1>1, <1>2, <1>6, <2>1 DEF DataOK, GroupInv, StageInv, StageOf, ResultsInv, Calls,
         Over, Awaiting, Dispatched
  <2>7. StartedInv'
      BY <1>1, <1>2, <1>6, <2>1 DEF DataOK, GroupInv, StartedInv, StageInv, StageOf, Calls
  <2>8. BodiesInv'
      BY <1>1, <1>2, <1>6, <2>1 DEF DataOK, GroupInv, StageInv, StageOf, BodiesInv, Calls,
         Dispatched, Successes, Awaiting
  <2> QED
      BY <2>2, <2>3, <2>4, <2>5, <2>6, <2>7, <2>8 DEF Data
<1> QED
    BY <1>1, <1>3, <1>4, <1>5, <1>6, Zenon DEF PrepareReturns, Dispatch, FailureSeen

LEMMA PrepareFailsKeeps ==
    ASSUME Data, PrepareFails
    PROVE  Data'
<1> USE ToolCallsAssumption DEF Data
<1>1. nextToStart \in Calls /\ nextToStart <= last
    BY DEF PrepareFails, DataOK, GroupInv, Calls
<1>2. /\ schedule = "prepare" /\ stage[nextToStart] = "gating"
      /\ schedulerFailure' = TRUE /\ schedule' = "draining"
      /\ stage' = [stage EXCEPT ![nextToStart] = "rejected"]
      /\ UNCHANGED <<mode, first, last, groupMode, nextToStart, committed, inFlight, result,
                 trace, results, bodies, startedAs>>
    BY DEF PrepareFails, group, position
<1>3. DataOK'
    BY <1>1, <1>2 DEF DataOK, Schedules, Awaiting, Stages, Dispatched, Results, Successes
<1>4. GroupInv'
    BY <1>1, <1>2 DEF DataOK, GroupInv, StageInv, StageOf, Calls, Dispatched, Awaiting
<1>5. StageInv'
    BY <1>1, <1>2 DEF DataOK, GroupInv, StageInv, StageOf, Calls, Dispatched, Over, Awaiting
<1>6. PendingInv'
    BY <1>1, <1>2 DEF DataOK, GroupInv, StageInv, StageOf, PendingInv, PendingOf,
       ResultsInv, Calls, Dispatched, Over, Awaiting
<1>7. ResultsInv'
    BY <1>1, <1>2 DEF DataOK, GroupInv, StageInv, StageOf, ResultsInv, Calls, Over,
       Awaiting, Dispatched
<1>8. StartedInv'
    BY <1>1, <1>2 DEF DataOK, GroupInv, StartedInv, StageInv, StageOf, Calls
<1>9. BodiesInv'
    BY <1>1, <1>2 DEF DataOK, GroupInv, StageInv, StageOf, BodiesInv, Calls, Dispatched,
       Successes, Awaiting
<1> QED
    BY <1>3, <1>4, <1>5, <1>6, <1>7, <1>8, <1>9 DEF Data

\* finalize() or finish() has made r the result of the next call in model order.
LEMMA CommitKeeps ==
    ASSUME Data, NEW i \in Calls, NEW r \in Results, Commit(i, r), Ready(i),
           schedule \in {"commit", "posting"},
           r = "ABORTED" => bodies[i] > 0
    PROVE  Data'
<1> USE ToolCallsAssumption DEF Data
<1>1. /\ i = committed /\ i < nextToStart /\ i <= last /\ stage[i] = "settled"
      /\ Len(results) = i - 1 /\ i \in trace.pendingCalls
    BY DEF Ready, DataOK, StageInv, StageOf, PendingInv, PendingOf, ResultsInv, Calls, Over
<1>2. UNCHANGED <<mode, first, last, groupMode, nextToStart, inFlight, bodies, startedAs>>
    BY DEF Commit, group
<1>3. CASE /\ Publish(ResultEvent(i))
           /\ results' = Append(results, [call |-> i, result |-> r])
           /\ stage' = [stage EXCEPT ![i] = "done"] /\ result' = [result EXCEPT ![i] = r]
  <2>1. /\ trace' \in [openTurn: {1}, openStep: {1}, nextTurn: {1}, nextStep: {1},
                       pendingCalls: SUBSET Calls]
        /\ trace'.pendingCalls = trace.pendingCalls \ {i}
      BY <1>3, ResultAdvances
  <2>2. /\ results' \in Seq([call: Calls, result: Results]) /\ Len(results') = i
        /\ \A k \in 1..(i - 1) : results'[k] = results[k]
        /\ results'[i].call = i /\ results'[i].result = r
      BY <1>1, <1>3, AppendProperties DEF DataOK
  <2>3. /\ stage' \in [Calls -> Stages] /\ result' \in [Calls -> Results]
        /\ \A k \in Calls : k # i => stage'[k] = stage[k] /\ result'[k] = result[k]
        /\ stage'[i] = "done" /\ result'[i] = r
      BY <1>3 DEF DataOK, Stages
  <2>4. i <= NumCalls /\ \A k \in Calls : stage'[k] = "done" => k <= i
    <3>1. ASSUME NEW k \in Calls, k # i, stage'[k] = "done" PROVE k <= Len(results)
        BY <2>3, <3>1 DEF ResultsInv
    <3> QED
        BY <1>1, <3>1 DEF Calls
  <2>5. ASSUME NEW k \in 1..i
        PROVE  results'[k].call = k /\ results'[k].result = result'[k] /\ stage'[k] = "done"
    <3>1. CASE k = i
        BY <2>2, <2>3, <3>1
    <3>2. CASE k # i
      <4>1. k \in 1..(i - 1) /\ k \in Calls /\ k \in 1..Len(results)
          BY <1>1, <3>2 DEF Calls
      <4> QED
          BY <2>2, <2>3, <3>2, <4>1 DEF ResultsInv
    <3> QED
        BY <3>1, <3>2
  <2>6. CASE committed' = i + 1 /\ schedule' = "commit" /\ UNCHANGED schedulerFailure
    <3>1. DataOK'
      <4>1. committed' \in 1..(NumCalls + 1) /\ schedule' \in Schedules
          BY <1>1, <2>6 DEF DataOK, Schedules, Calls
      <4> QED
          BY <1>2, <4>1, <2>1, <2>2, <2>3 DEF DataOK
    <3>2. GroupInv'
        BY <1>1, <1>2, <2>6 DEF DataOK, GroupInv, StageInv, StageOf, Calls, Dispatched,
           Awaiting
    <3>3. ASSUME NEW k \in Calls PROVE StageOf(k)'
      <4>1. CASE k = i
          BY <1>1, <1>2, <2>6, <2>3, <4>1 DEF DataOK, GroupInv, StageInv, StageOf, Calls,
             Dispatched, Over, Awaiting
      <4>2. CASE k # i
        <5>1. StageOf(k) /\ stage'[k] = stage[k] /\ (k < i + 1 <=> k < i)
            BY <2>3, <4>2 DEF StageInv, Calls
        <5> QED
            BY <1>1, <1>2, <2>6, <5>1 DEF StageOf, DataOK, Calls, Dispatched, Over
      <4> QED
          BY <4>1, <4>2
    <3>4. StageInv'
        BY <1>2, <3>3 DEF StageInv
    <3>5. ASSUME NEW k \in Calls PROVE PendingOf(k)'
      <4>1. CASE k = i
          BY <1>1, <1>2, <2>6, <2>1, <2>2, <2>3, <4>1 DEF PendingOf, DataOK, Calls
      <4>2. CASE k # i
          BY <1>1, <1>2, <2>6, <2>1, <2>2, <2>3, <4>2 DEF PendingInv, PendingOf, DataOK,
             Calls
      <4> QED
          BY <4>1, <4>2
    <3>6. PendingInv'
        BY <3>5 DEF PendingInv
    <3>7. ResultsInv'
        BY <1>1, <2>2, <2>6, <2>4, <2>5 DEF ResultsInv, Over
    <3>8. StartedInv'
        BY <1>1, <1>2, <2>6 DEF DataOK, GroupInv, StartedInv, StageInv, StageOf, Calls
    <3>9. BodiesInv'
        BY <1>1, <1>2, <2>6, <2>3 DEF DataOK, GroupInv, StageInv, StageOf, BodiesInv, Calls,
           Dispatched, Successes, Awaiting
    <3> QED
        BY <3>1, <3>2, <3>4, <3>6, <3>7, <3>8, <3>9 DEF Data
  <2>7. CASE schedulerFailure' = TRUE /\ schedule' = "draining" /\ UNCHANGED committed
    <3>1. DataOK'
      <4>1. committed' \in 1..(NumCalls + 1) /\ schedule' \in Schedules
          BY <2>7 DEF DataOK, Schedules, Awaiting
      <4> QED
          BY <1>2, <4>1, <2>1, <2>2, <2>3 DEF DataOK
    <3>2. GroupInv'
        BY <1>1, <1>2, <2>7 DEF DataOK, GroupInv, StageInv, StageOf, Calls, Dispatched,
           Awaiting
    <3>3. ASSUME NEW k \in Calls PROVE StageOf(k)'
      <4>1. CASE k = i
          BY <1>1, <1>2, <2>7, <2>3, <4>1 DEF DataOK, GroupInv, StageInv, StageOf, Calls,
             Dispatched, Over, Awaiting
      <4>2. CASE k # i
        <5>1. StageOf(k) /\ stage'[k] = stage[k] /\ (k < i + 1 <=> k < i)
            BY <2>3, <4>2 DEF StageInv, Calls
        <5> QED
            BY <1>1, <1>2, <2>7, <5>1 DEF StageOf, DataOK, Calls, Dispatched, Over
      <4> QED
          BY <4>1, <4>2
    <3>4. StageInv'
        BY <1>2, <3>3 DEF StageInv
    <3>5. ASSUME NEW k \in Calls PROVE PendingOf(k)'
      <4>1. CASE k = i
          BY <1>1, <1>2, <2>7, <2>1, <2>2, <2>3, <4>1 DEF PendingOf, DataOK, Calls
      <4>2. CASE k # i
          BY <1>1, <1>2, <2>7, <2>1, <2>2, <2>3, <4>2 DEF PendingInv, PendingOf, DataOK,
             Calls
      <4> QED
          BY <4>1, <4>2
    <3>6. PendingInv'
        BY <3>5 DEF PendingInv
    <3>7. ResultsInv'
        BY <1>1, <2>2, <2>7, <2>4, <2>5 DEF ResultsInv, Over
    <3>8. StartedInv'
        BY <1>1, <1>2, <2>7 DEF DataOK, GroupInv, StartedInv, StageInv, StageOf, Calls
    <3>9. BodiesInv'
        BY <1>1, <1>2, <2>7, <2>3 DEF DataOK, GroupInv, StageInv, StageOf, BodiesInv, Calls,
           Dispatched, Successes, Awaiting
    <3> QED
        BY <3>1, <3>2, <3>4, <3>6, <3>7, <3>8, <3>9 DEF Data
  <2> QED
      BY <1>1, <1>3, <2>6, <2>7 DEF Commit, DataOK
<1>4. CASE schedulerFailure' = TRUE /\ schedule' = "draining"
           /\ UNCHANGED <<trace, results, stage, result, committed>>
  <2>1. DataOK'
      BY <1>1, <1>2, <1>4 DEF DataOK, Schedules, Awaiting, Stages, Dispatched, Results,
         Successes
  <2>2. GroupInv'
      BY <1>1, <1>2, <1>4 DEF DataOK, GroupInv, StageInv, StageOf, Calls, Dispatched,
         Awaiting
  <2>3. StageInv'
      BY <1>1, <1>2, <1>4 DEF DataOK, GroupInv, StageInv, StageOf, Calls, Dispatched, Over,
         Awaiting
  <2>4. PendingInv'
      BY <1>1, <1>2, <1>4 DEF DataOK, GroupInv, StageInv, StageOf, PendingInv, PendingOf,
         ResultsInv, Calls, Dispatched, Over, Awaiting
  <2>5. ResultsInv'
      BY <1>1, <1>2, <1>4 DEF DataOK, GroupInv, StageInv, StageOf, ResultsInv, Calls, Over,
         Awaiting, Dispatched
  <2>6. StartedInv'
      BY <1>1, <1>2, <1>4 DEF DataOK, GroupInv, StartedInv, StageInv, StageOf, Calls
  <2>7. BodiesInv'
      BY <1>1, <1>2, <1>4 DEF DataOK, GroupInv, StageInv, StageOf, BodiesInv, Calls,
         Dispatched, Successes, Awaiting
  <2> QED
      BY <2>1, <2>2, <2>3, <2>4, <2>5, <2>6, <2>7 DEF Data
<1> QED
    BY <1>3, <1>4 DEF Commit

LEMMA BeginPostKeeps ==
    ASSUME Data, NEW i \in Calls, BeginPost(i)
    PROVE  Data'
<1> USE ToolCallsAssumption DEF Data
<1>1. /\ schedule = "commit" /\ schedule' = "posting"
      /\ UNCHANGED <<mode, first, last, groupMode, nextToStart, committed, schedulerFailure,
                 inFlight, stage, result, trace, results, bodies, startedAs>>
    BY DEF BeginPost, group, position, call
<1>2. DataOK'
    BY <1>1 DEF DataOK, Schedules, Awaiting, Stages, Dispatched, Results, Successes
<1>3. GroupInv'
    BY <1>1 DEF DataOK, GroupInv, StageInv, StageOf, Calls, Dispatched, Awaiting
<1>4. StageInv'
    BY <1>1 DEF DataOK, GroupInv, StageInv, StageOf, Calls, Dispatched, Over, Awaiting
<1>5. PendingInv'
    BY <1>1 DEF DataOK, GroupInv, StageInv, StageOf, PendingInv, PendingOf, ResultsInv,
       Calls, Dispatched, Over, Awaiting
<1>6. ResultsInv'
    BY <1>1 DEF DataOK, GroupInv, StageInv, StageOf, ResultsInv, Calls, Over, Awaiting,
       Dispatched
<1>7. StartedInv'
    BY <1>1 DEF DataOK, GroupInv, StartedInv, StageInv, StageOf, Calls
<1>8. BodiesInv'
    BY <1>1 DEF DataOK, GroupInv, StageInv, StageOf, BodiesInv, Calls, Dispatched,
       Successes, Awaiting
<1> QED
    BY <1>2, <1>3, <1>4, <1>5, <1>6, <1>7, <1>8 DEF Data

LEMMA NothingReadyKeeps ==
    ASSUME Data, NothingReady
    PROVE  Data'
<1> USE ToolCallsAssumption DEF Data
<1>1. /\ schedule = "commit" /\ schedule' = "resume"
      /\ UNCHANGED <<mode, first, last, groupMode, nextToStart, committed, schedulerFailure,
                 inFlight, stage, result, trace, results, bodies, startedAs>>
    BY DEF NothingReady, group, position, call
<1>2. committed <= last => committed \in Calls /\ stage[committed] # "settled"
    BY DEF NothingReady, Ready, DataOK, Calls
<1>3. DataOK'
    BY <1>1, <1>2 DEF DataOK, Schedules, Awaiting, Stages, Dispatched, Results, Successes
<1>4. GroupInv'
    BY <1>1, <1>2 DEF DataOK, GroupInv, StageInv, StageOf, Calls, Dispatched, Awaiting
<1>5. StageInv'
    BY <1>1, <1>2 DEF DataOK, GroupInv, StageInv, StageOf, Calls, Dispatched, Over, Awaiting
<1>6. PendingInv'
    BY <1>1, <1>2 DEF DataOK, GroupInv, StageInv, StageOf, PendingInv, PendingOf,
       ResultsInv, Calls, Dispatched, Over, Awaiting
<1>7. ResultsInv'
    BY <1>1, <1>2 DEF DataOK, GroupInv, StageInv, StageOf, ResultsInv, Calls, Over,
       Awaiting, Dispatched
<1>8. StartedInv'
    BY <1>1, <1>2 DEF DataOK, GroupInv, StartedInv, StageInv, StageOf, Calls
<1>9. BodiesInv'
    BY <1>1, <1>2 DEF DataOK, GroupInv, StageInv, StageOf, BodiesInv, Calls, Dispatched,
       Successes, Awaiting
<1> QED
    BY <1>3, <1>4, <1>5, <1>6, <1>7, <1>8, <1>9 DEF Data

LEMMA ResumeKeeps ==
    ASSUME Data, Resume
    PROVE  Data'
<1> USE ToolCallsAssumption DEF Data
<1>1. /\ schedule = "resume"
      /\ schedule' = IF schedulerFailure THEN "draining" ELSE "fill"
      /\ UNCHANGED <<mode, first, last, groupMode, nextToStart, committed, schedulerFailure,
                 inFlight, stage, result, trace, results, bodies, startedAs>>
    BY DEF Resume, FailureSeen, group, position, call
<1>2. DataOK'
    BY <1>1 DEF DataOK, Schedules, Awaiting, Stages, Dispatched, Results, Successes
<1>3. GroupInv'
    BY <1>1 DEF DataOK, GroupInv, StageInv, StageOf, Calls, Dispatched, Awaiting
<1>4. StageInv'
    BY <1>1 DEF DataOK, GroupInv, StageInv, StageOf, Calls, Dispatched, Over, Awaiting
<1>5. PendingInv'
    BY <1>1 DEF DataOK, GroupInv, StageInv, StageOf, PendingInv, PendingOf, ResultsInv,
       Calls, Dispatched, Over, Awaiting
<1>6. ResultsInv'
    BY <1>1 DEF DataOK, GroupInv, StageInv, StageOf, ResultsInv, Calls, Over, Awaiting,
       Dispatched
<1>7. StartedInv'
    BY <1>1 DEF DataOK, GroupInv, StartedInv, StageInv, StageOf, Calls
<1>8. BodiesInv'
    BY <1>1 DEF DataOK, GroupInv, StageInv, StageOf, BodiesInv, Calls, Dispatched,
       Successes, Awaiting
<1> QED
    BY <1>2, <1>3, <1>4, <1>5, <1>6, <1>7, <1>8 DEF Data

LEMMA BeginRaceKeeps ==
    ASSUME Data, BeginRace
    PROVE  Data'
<1> USE ToolCallsAssumption DEF Data
<1>1. PICK i \in inFlight : TRUE
    BY DEF BeginRace, GroupDrained
<1>2. i < nextToStart /\ first <= i
    BY DEF StageInv, StageOf
<1>3. /\ schedule = "fill" /\ schedule' = "race"
      /\ UNCHANGED <<mode, first, last, groupMode, nextToStart, committed, schedulerFailure,
                 inFlight, stage, result, trace, results, bodies, startedAs>>
    BY DEF BeginRace, group, position, call
<1>4. DataOK'
    BY <1>1, <1>2, <1>3 DEF DataOK, Schedules, Awaiting, Stages, Dispatched, Results,
       Successes
<1>5. GroupInv'
    BY <1>1, <1>2, <1>3 DEF DataOK, GroupInv, StageInv, StageOf, Calls, Dispatched, Awaiting
<1>6. StageInv'
    BY <1>1, <1>2, <1>3 DEF DataOK, GroupInv, StageInv, StageOf, Calls, Dispatched, Over,
       Awaiting
<1>7. PendingInv'
    BY <1>1, <1>2, <1>3 DEF DataOK, GroupInv, StageInv, StageOf, PendingInv, PendingOf,
       ResultsInv, Calls, Dispatched, Over, Awaiting
<1>8. ResultsInv'
    BY <1>1, <1>2, <1>3 DEF DataOK, GroupInv, StageInv, StageOf, ResultsInv, Calls, Over,
       Awaiting, Dispatched
<1>9. StartedInv'
    BY <1>1, <1>2, <1>3 DEF DataOK, GroupInv, StartedInv, StageInv, StageOf, Calls
<1>10. BodiesInv'
    BY <1>1, <1>2, <1>3 DEF DataOK, GroupInv, StageInv, StageOf, BodiesInv, Calls,
       Dispatched, Successes, Awaiting
<1> QED
    BY <1>4, <1>5, <1>6, <1>7, <1>8, <1>9, <1>10 DEF Data

LEMMA RaceWonKeeps ==
    ASSUME Data, NEW i \in Calls, RaceWon(i)
    PROVE  Data'
<1> USE ToolCallsAssumption DEF Data
<1>1. /\ schedule = "race" /\ inFlight' = inFlight \ {i} /\ stage[i] \notin Dispatched
      /\ schedule' = IF schedulerFailure THEN "draining" ELSE "commit"
      /\ UNCHANGED <<mode, first, last, groupMode, nextToStart, committed, schedulerFailure,
                 stage, result, trace, results, bodies, startedAs>>
    BY DEF RaceWon, RacedOut, FailureSeen, Dispatched, group, position, call
<1>2. DataOK'
    BY <1>1 DEF DataOK, Schedules, Awaiting, Stages, Dispatched, Results, Successes
<1>3. GroupInv'
    BY <1>1 DEF DataOK, GroupInv, StageInv, StageOf, Calls, Dispatched, Awaiting
<1>4. StageInv'
    BY <1>1 DEF DataOK, GroupInv, StageInv, StageOf, Calls, Dispatched, Over, Awaiting
<1>5. PendingInv'
    BY <1>1 DEF DataOK, GroupInv, StageInv, StageOf, PendingInv, PendingOf, ResultsInv,
       Calls, Dispatched, Over, Awaiting
<1>6. ResultsInv'
    BY <1>1 DEF DataOK, GroupInv, StageInv, StageOf, ResultsInv, Calls, Over, Awaiting,
       Dispatched
<1>7. StartedInv'
    BY <1>1 DEF DataOK, GroupInv, StartedInv, StageInv, StageOf, Calls
<1>8. BodiesInv'
    BY <1>1 DEF DataOK, GroupInv, StageInv, StageOf, BodiesInv, Calls, Dispatched,
       Successes, Awaiting
<1> QED
    BY <1>2, <1>3, <1>4, <1>5, <1>6, <1>7, <1>8 DEF Data

LEMMA EndGroupKeeps ==
    ASSUME Data, EndGroup
    PROVE  Data'
<1> USE ToolCallsAssumption DEF Data
<1>1. inFlight = {} /\ schedule = "fill" /\ committed = nextToStart
    BY DEF EndGroup, GroupDrained, GroupInv
<1>2. /\ \/ schedule' = "skip" /\ UNCHANGED first
         \/ schedule' = "open" /\ first' = nextToStart
      /\ UNCHANGED <<mode, last, groupMode, nextToStart, committed, schedulerFailure, inFlight,
                 stage, result, trace, results, bodies, startedAs>>
    BY DEF EndGroup, position, call
<1>3. DataOK'
    BY <1>1, <1>2 DEF DataOK, Schedules, Awaiting, Stages, Dispatched, Results, Successes
<1>4. GroupInv'
    BY <1>1, <1>2 DEF DataOK, GroupInv, StageInv, StageOf, Calls, Dispatched, Awaiting
<1>5. StageInv'
    BY <1>1, <1>2 DEF DataOK, GroupInv, StageInv, StageOf, Calls, Dispatched, Over, Awaiting
<1>6. PendingInv'
    BY <1>1, <1>2 DEF DataOK, GroupInv, StageInv, StageOf, PendingInv, PendingOf,
       ResultsInv, Calls, Dispatched, Over, Awaiting
<1>7. ResultsInv'
    BY <1>1, <1>2 DEF DataOK, GroupInv, StageInv, StageOf, ResultsInv, Calls, Over,
       Awaiting, Dispatched
<1>8. StartedInv'
    BY <1>1, <1>2 DEF DataOK, GroupInv, StartedInv, StageInv, StageOf, Calls
<1>9. BodiesInv'
    BY <1>1, <1>2 DEF DataOK, GroupInv, StageInv, StageOf, BodiesInv, Calls, Dispatched,
       Successes, Awaiting
<1> QED
    BY <1>3, <1>4, <1>5, <1>6, <1>7, <1>8, <1>9 DEF Data

LEMMA SkipCallKeeps ==
    ASSUME Data, NEW i \in Calls, SkipCall(i)
    PROVE  Data'
<1> USE ToolCallsAssumption DEF Data
<1>1. /\ schedule = "skip" /\ i >= nextToStart /\ i = Len(results) + 1
      /\ stage[i] \notin Dispatched \cup {"done"} /\ inFlight = {} /\ committed = nextToStart
    BY DEF SkipCall, FirstSkipped, DataOK, GroupInv, StageInv, StageOf, ResultsInv, Calls,
       Dispatched
<1>2. UNCHANGED <<mode, schedule, first, last, groupMode, nextToStart, committed,
              schedulerFailure, inFlight, bodies, startedAs>>
    BY DEF SkipCall, group, position
<1>3. CASE /\ Publish(CallEvent(i)) /\ UNCHANGED <<results, stage, result>>
  <2>1. /\ trace' \in [openTurn: {1}, openStep: {1}, nextTurn: {1}, nextStep: {1},
                       pendingCalls: SUBSET Calls]
        /\ trace'.pendingCalls = trace.pendingCalls \cup {i}
      BY <1>3, CallAdvances
  <2>2. DataOK'
      BY <1>1, <1>2, <1>3, <2>1 DEF DataOK, Schedules, Awaiting, Stages, Dispatched,
         Results, Successes
  <2>3. GroupInv'
      BY <1>1, <1>2, <1>3, <2>1 DEF DataOK, GroupInv, StageInv, StageOf, Calls, Dispatched,
         Awaiting
  <2>4. StageInv'
      BY <1>1, <1>2, <1>3, <2>1 DEF DataOK, GroupInv, StageInv, StageOf, Calls, Dispatched,
         Over, Awaiting
  <2>5. PendingInv'
      BY <1>1, <1>2, <1>3, <2>1 DEF DataOK, GroupInv, StageInv, StageOf, PendingInv,
         PendingOf, ResultsInv, Calls, Dispatched, Over, Awaiting
  <2>6. ResultsInv'
      BY <1>1, <1>2, <1>3, <2>1 DEF DataOK, GroupInv, StageInv, StageOf, ResultsInv, Calls,
         Over, Awaiting, Dispatched
  <2>7. StartedInv'
      BY <1>1, <1>2, <1>3, <2>1 DEF DataOK, GroupInv, StartedInv, StageInv, StageOf, Calls
  <2>8. BodiesInv'
      BY <1>1, <1>2, <1>3, <2>1 DEF DataOK, GroupInv, StageInv, StageOf, BodiesInv, Calls,
         Dispatched, Successes, Awaiting
  <2> QED
      BY <2>2, <2>3, <2>4, <2>5, <2>6, <2>7, <2>8 DEF Data
<1>4. CASE /\ Publish(ResultEvent(i))
           /\ results' = Append(results, [call |-> i, result |-> "ABORTED_BEFORE_DISPATCH"])
           /\ stage' = [stage EXCEPT ![i] = "done"]
           /\ result' = [result EXCEPT ![i] = "ABORTED_BEFORE_DISPATCH"]
  <2>1. /\ trace' \in [openTurn: {1}, openStep: {1}, nextTurn: {1}, nextStep: {1},
                       pendingCalls: SUBSET Calls]
        /\ trace'.pendingCalls = trace.pendingCalls \ {i}
      BY <1>4, ResultAdvances
  <2>2. /\ results' \in Seq([call: Calls, result: Results]) /\ Len(results') = i
        /\ \A k \in 1..(i - 1) : results'[k] = results[k]
        /\ results'[i].call = i /\ results'[i].result = "ABORTED_BEFORE_DISPATCH"
      BY <1>1, <1>4, AppendProperties DEF DataOK, Results
  <2>3. /\ stage' \in [Calls -> Stages] /\ result' \in [Calls -> Results]
        /\ \A k \in Calls : k # i => stage'[k] = stage[k] /\ result'[k] = result[k]
        /\ stage'[i] = "done" /\ result'[i] = "ABORTED_BEFORE_DISPATCH"
      BY <1>4 DEF DataOK, Stages, Results
  <2>4. bodies[i] = 0
      BY <1>1 DEF BodiesInv
  <2>5. DataOK'
      BY <1>1, <1>2, <1>4, <2>1, <2>2, <2>3, <2>4 DEF DataOK, Schedules, Awaiting, Stages,
         Dispatched, Results, Successes
  <2>6. GroupInv'
      BY <1>1, <1>2, <1>4, <2>1, <2>2, <2>3, <2>4 DEF DataOK, GroupInv, StageInv, StageOf,
         Calls, Dispatched, Awaiting
  <2>7. StageInv'
      BY <1>1, <1>2, <1>4, <2>1, <2>2, <2>3, <2>4 DEF DataOK, GroupInv, StageInv, StageOf,
         Calls, Dispatched, Over, Awaiting
  <2>8. PendingInv'
      BY <1>1, <1>2, <1>4, <2>1, <2>2, <2>3, <2>4 DEF DataOK, GroupInv, StageInv, StageOf,
         PendingInv, PendingOf, ResultsInv, Calls, Dispatched, Over, Awaiting
  <2>9. ResultsInv'
      BY <1>1, <1>2, <1>4, <2>1, <2>2, <2>3, <2>4 DEF DataOK, GroupInv, StageInv, StageOf,
         ResultsInv, Calls, Over, Awaiting, Dispatched
  <2>10. StartedInv'
      BY <1>1, <1>2, <1>4, <2>1, <2>2, <2>3, <2>4 DEF DataOK, GroupInv, StartedInv,
         StageInv, StageOf, Calls
  <2>11. BodiesInv'
      BY <1>1, <1>2, <1>4, <2>1, <2>2, <2>3, <2>4 DEF DataOK, GroupInv, StageInv, StageOf,
         BodiesInv, Calls, Dispatched, Successes, Awaiting
  <2> QED
      BY <2>5, <2>6, <2>7, <2>8, <2>9, <2>10, <2>11 DEF Data
<1> QED
    BY <1>3, <1>4 DEF SkipCall

LEMMA SkipFailsKeeps ==
    ASSUME Data, SkipFails
    PROVE  Data'
<1> USE ToolCallsAssumption DEF Data
<1>1. /\ schedule = "skip" /\ schedulerFailure' = TRUE /\ schedule' = "draining"
      /\ UNCHANGED <<mode, first, last, groupMode, nextToStart, committed, inFlight, stage,
                 result, trace, results, bodies, startedAs>>
    BY DEF SkipFails, group, position, call
<1>2. DataOK'
    BY <1>1 DEF DataOK, Schedules, Awaiting, Stages, Dispatched, Results, Successes
<1>3. GroupInv'
    BY <1>1 DEF DataOK, GroupInv, StageInv, StageOf, Calls, Dispatched, Awaiting
<1>4. StageInv'
    BY <1>1 DEF DataOK, GroupInv, StageInv, StageOf, Calls, Dispatched, Over, Awaiting
<1>5. PendingInv'
    BY <1>1 DEF DataOK, GroupInv, StageInv, StageOf, PendingInv, PendingOf, ResultsInv,
       Calls, Dispatched, Over, Awaiting
<1>6. ResultsInv'
    BY <1>1 DEF DataOK, GroupInv, StageInv, StageOf, ResultsInv, Calls, Over, Awaiting,
       Dispatched
<1>7. StartedInv'
    BY <1>1 DEF DataOK, GroupInv, StartedInv, StageInv, StageOf, Calls
<1>8. BodiesInv'
    BY <1>1 DEF DataOK, GroupInv, StageInv, StageOf, BodiesInv, Calls, Dispatched,
       Successes, Awaiting
<1> QED
    BY <1>2, <1>3, <1>4, <1>5, <1>6, <1>7, <1>8 DEF Data

LEMMA SkippedAllKeeps ==
    ASSUME Data, SkippedAll
    PROVE  Data'
<1> USE ToolCallsAssumption DEF Data
<1>1. /\ schedule = "skip" /\ schedule' = "returned"
      /\ UNCHANGED <<mode, first, last, groupMode, nextToStart, committed, schedulerFailure,
                 inFlight, stage, result, trace, results, bodies, startedAs>>
    BY DEF SkippedAll, group, position, call
<1>2. /\ Len(results) \in Nat /\ Len(results) <= NumCalls
      /\ Len(results) >= committed - 1 /\ committed = nextToStart
    BY <1>1 DEF DataOK, GroupInv, ResultsInv
<1>3. Len(results) = NumCalls
    BY <1>2 DEF SkippedAll, FirstSkipped, DataOK, Calls
<1>4. DataOK'
    BY <1>1, <1>2, <1>3 DEF DataOK, Schedules, Awaiting, Stages, Dispatched, Results,
       Successes
<1>5. GroupInv'
    BY <1>1, <1>2, <1>3 DEF DataOK, GroupInv, StageInv, StageOf, Calls, Dispatched, Awaiting
<1>6. StageInv'
    BY <1>1, <1>2, <1>3 DEF DataOK, GroupInv, StageInv, StageOf, Calls, Dispatched, Over,
       Awaiting
<1>7. PendingInv'
    BY <1>1, <1>2, <1>3 DEF DataOK, GroupInv, StageInv, StageOf, PendingInv, PendingOf,
       ResultsInv, Calls, Dispatched, Over, Awaiting
<1>8. ResultsInv'
    BY <1>1, <1>2, <1>3 DEF DataOK, GroupInv, StageInv, StageOf, ResultsInv, Calls, Over,
       Awaiting, Dispatched
<1>9. StartedInv'
    BY <1>1, <1>2, <1>3 DEF DataOK, GroupInv, StartedInv, StageInv, StageOf, Calls
<1>10. BodiesInv'
    BY <1>1, <1>2, <1>3 DEF DataOK, GroupInv, StageInv, StageOf, BodiesInv, Calls,
       Dispatched, Successes, Awaiting
<1> QED
    BY <1>4, <1>5, <1>6, <1>7, <1>8, <1>9, <1>10 DEF Data

LEMMA ThrowKeeps ==
    ASSUME Data, Throw
    PROVE  Data'
<1> USE ToolCallsAssumption DEF Data
<1>1. /\ schedule = "draining" /\ schedule' = "failed"
      /\ UNCHANGED <<mode, first, last, groupMode, nextToStart, committed, schedulerFailure,
                 inFlight, stage, result, trace, results, bodies, startedAs>>
    BY DEF Throw, group, position, call
<1>2. DataOK'
    BY <1>1 DEF DataOK, Schedules, Awaiting, Stages, Dispatched, Results, Successes
<1>3. GroupInv'
    BY <1>1 DEF DataOK, GroupInv, StageInv, StageOf, Calls, Dispatched, Awaiting
<1>4. StageInv'
    BY <1>1 DEF DataOK, GroupInv, StageInv, StageOf, Calls, Dispatched, Over, Awaiting
<1>5. PendingInv'
    BY <1>1 DEF DataOK, GroupInv, StageInv, StageOf, PendingInv, PendingOf, ResultsInv,
       Calls, Dispatched, Over, Awaiting
<1>6. ResultsInv'
    BY <1>1 DEF DataOK, GroupInv, StageInv, StageOf, ResultsInv, Calls, Over, Awaiting,
       Dispatched
<1>7. StartedInv'
    BY <1>1 DEF DataOK, GroupInv, StartedInv, StageInv, StageOf, Calls
<1>8. BodiesInv'
    BY <1>1 DEF DataOK, GroupInv, StageInv, StageOf, BodiesInv, Calls, Dispatched,
       Successes, Awaiting
<1> QED
    BY <1>2, <1>3, <1>4, <1>5, <1>6, <1>7, <1>8 DEF Data

-----------------------------------------------------------------------------
(* The dispatches *)

\* A step of a dispatch that is under way: its call goes from one stage of the
\* dispatch to the next, or settles, or rejects.
LEMMA DispatchStepKeeps ==
    ASSUME Data, NEW i \in Calls, NEW s \in Dispatched \cup {"settled", "rejected"},
           NEW r \in Results, NEW n \in 0..Attempts,
           stage[i] \in Dispatched, Yielded, Beside,
           stage' = [stage EXCEPT ![i] = s],
           result' = [result EXCEPT ![i] = r],
           bodies' = [bodies EXCEPT ![i] = n],
           ~schedulerFailure' => ~schedulerFailure /\ s # "rejected",
           s \in {"wrapping", "running"} => r = "none",
           s = "wrapping" => n < Attempts,
           s \in {"running", "unwinding"} => n > 0,
           r = "ABORTED" => n > 0
    PROVE  Data'
<1> USE ToolCallsAssumption DEF Data
<1>1. /\ i \in inFlight /\ first <= i /\ i < nextToStart /\ ~(i < committed)
      /\ schedule \notin {"open", "fill"}
    BY DEF StageInv, StageOf, GroupInv, Dispatched, DataOK, Yielded, Awaiting
<1>2. UNCHANGED <<mode, schedule, first, last, groupMode, nextToStart, committed, inFlight,
                 trace, results, startedAs>>
    BY DEF Beside, group, position
<1>3. /\ stage' \in [Calls -> Stages] /\ result' \in [Calls -> Results]
      /\ bodies' \in [Calls -> 0..Attempts]
      /\ stage'[i] = s /\ result'[i] = r /\ bodies'[i] = n
      /\ \A k \in Calls : k # i => /\ stage'[k] = stage[k] /\ result'[k] = result[k]
                                  /\ bodies'[k] = bodies[k]
    BY DEF DataOK, Stages
<1>4. \A k \in Calls : stage'[k] = "done" <=> stage[k] = "done"
    BY <1>3 DEF Dispatched
<1>5. \A k \in 1..Len(results) : k \in Calls /\ k # i
    BY <1>3 DEF DataOK, ResultsInv, Calls, Dispatched
<1>6. /\ \A k \in 1..Len(results) :
            results[k].call = k /\ results[k].result = result'[k] /\ stage'[k] = "done"
      /\ \A k \in Calls : stage'[k] = "done" => k <= Len(results)
    BY <1>3, <1>4, <1>5 DEF ResultsInv
<1>7. DataOK'
    BY <1>1, <1>2, <1>3, <1>4, <1>5, <1>6 DEF DataOK, Schedules, Awaiting, Stages,
       Dispatched, Results, Successes
<1>8. GroupInv'
    BY <1>1, <1>2, <1>3, <1>4, <1>5, <1>6 DEF DataOK, GroupInv, StageInv, StageOf, Calls,
       Dispatched, Awaiting
<1>9. StageInv'
    BY <1>1, <1>2, <1>3, <1>4, <1>5, <1>6 DEF DataOK, GroupInv, StageInv, StageOf, Calls,
       Dispatched, Over, Awaiting
<1>10. PendingInv'
    BY <1>1, <1>2, <1>3, <1>4, <1>5, <1>6 DEF DataOK, GroupInv, StageInv, StageOf,
       PendingInv, PendingOf, ResultsInv, Calls, Dispatched, Over, Awaiting
<1>11. ResultsInv'
    BY <1>2, <1>6 DEF DataOK, GroupInv, StageInv, StageOf, ResultsInv, Calls, Over,
       Awaiting, Dispatched
<1>12. StartedInv'
    BY <1>1, <1>2, <1>3, <1>4, <1>5, <1>6 DEF DataOK, GroupInv, StartedInv, StageInv,
       StageOf, Calls
<1>13. BodiesInv'
    BY <1>1, <1>2, <1>3, <1>4, <1>5, <1>6 DEF DataOK, GroupInv, StageInv, StageOf,
       BodiesInv, Calls, Dispatched, Successes, Awaiting
<1> QED
    BY <1>7, <1>8, <1>9, <1>10, <1>11, <1>12, <1>13 DEF Data

LEMMA BodyStartsKeeps ==
    ASSUME Data, NEW i \in Calls, BodyStarts(i)
    PROVE  Data'
<1> USE ToolCallsAssumption DEF Data
<1>1. /\ result[i] \in Results /\ bodies[i] \in 0..Attempts
      /\ bodies = [bodies EXCEPT ![i] = bodies[i]] /\ result = [result EXCEPT ![i] = result[i]]
    BY DEF DataOK
<1>2. /\ stage[i] = "wrapping" /\ result[i] = "none" /\ bodies[i] < Attempts
      /\ Yielded /\ Beside /\ UNCHANGED schedulerFailure
    BY DEF BodyStarts, BodiesInv
<1>3. CASE /\ stage' = [stage EXCEPT ![i] = "running"] /\ UNCHANGED result
           /\ bodies' = [bodies EXCEPT ![i] = bodies[i] + 1]
  <2>1. bodies[i] + 1 \in 0..Attempts /\ bodies[i] + 1 > 0
      BY <1>1, <1>2
  <2> QED
      BY <1>1, <1>2, <1>3, <2>1, DispatchStepKeeps DEF Dispatched, Results
<1>4. ASSUME NEW r \in {"ABORTED_BEFORE_DISPATCH", "error"},
             stage' = [stage EXCEPT ![i] = "refused"],
             result' = [result EXCEPT ![i] = r], UNCHANGED bodies
      PROVE  Data'
    BY <1>1, <1>2, <1>4, DispatchStepKeeps DEF Dispatched, Results
<1> QED
    BY <1>3, <1>4 DEF BodyStarts

LEMMA BodySettlesKeeps ==
    ASSUME Data, NEW i \in Calls, BodySettles(i)
    PROVE  Data'
<1> USE ToolCallsAssumption DEF Data
<1>1. /\ result[i] \in Results /\ bodies[i] \in 0..Attempts
      /\ bodies = [bodies EXCEPT ![i] = bodies[i]] /\ result = [result EXCEPT ![i] = result[i]]
    BY DEF DataOK
<1>2. /\ stage[i] = "running" /\ bodies[i] > 0 /\ Yielded /\ Beside
      /\ stage' = [stage EXCEPT ![i] = "unwinding"] /\ UNCHANGED <<schedulerFailure, bodies>>
    BY DEF BodySettles, BodiesInv
<1>3. PICK r \in Successes \cup {"ABORTED", "error"} : result' = [result EXCEPT ![i] = r]
    BY DEF BodySettles
<1> QED
    BY <1>1, <1>2, <1>3, DispatchStepKeeps DEF Dispatched, Results, Successes

LEMMA RetryKeeps ==
    ASSUME Data, NEW i \in Calls, Retry(i)
    PROVE  Data'
<1> USE ToolCallsAssumption DEF Data
<1>1. /\ result[i] \in Results /\ bodies[i] \in 0..Attempts
      /\ bodies = [bodies EXCEPT ![i] = bodies[i]] /\ result = [result EXCEPT ![i] = result[i]]
    BY DEF DataOK
<1>2. /\ stage[i] = "unwinding" /\ bodies[i] < Attempts /\ Yielded /\ Beside
      /\ stage' = [stage EXCEPT ![i] = "wrapping"] /\ result' = [result EXCEPT ![i] = "none"]
      /\ UNCHANGED <<schedulerFailure, bodies>>
    BY DEF Retry
<1> QED
    BY <1>1, <1>2, DispatchStepKeeps DEF Dispatched, Results

LEMMA DispatchSettlesKeeps ==
    ASSUME Data, NEW i \in Calls, DispatchSettles(i)
    PROVE  Data'
<1> USE ToolCallsAssumption DEF Data
<1>1. /\ result[i] \in Results /\ bodies[i] \in 0..Attempts
      /\ bodies = [bodies EXCEPT ![i] = bodies[i]] /\ result = [result EXCEPT ![i] = result[i]]
    BY DEF DataOK
<1>2. /\ stage[i] \in Dispatched /\ Yielded /\ Beside
      /\ stage' = [stage EXCEPT ![i] = "settled"] /\ UNCHANGED <<schedulerFailure, bodies>>
    BY DEF DispatchSettles
<1>3. PICK r \in {result[i], "ok", "error"} : result' = [result EXCEPT ![i] = Cancelled(i, r)]
    BY DEF DispatchSettles
<1>4. /\ Cancelled(i, r) \in Results
      /\ Cancelled(i, r) = "ABORTED" => bodies[i] > 0
    BY <1>1 DEF Cancelled, CancellationResult, Results, Successes, BodiesInv
<1> QED
    BY <1>1, <1>2, <1>3, <1>4, DispatchStepKeeps

LEMMA DispatchRejectsKeeps ==
    ASSUME Data, NEW i \in Calls, DispatchRejects(i)
    PROVE  Data'
<1> USE ToolCallsAssumption DEF Data
<1>1. /\ result[i] \in Results /\ bodies[i] \in 0..Attempts
      /\ bodies = [bodies EXCEPT ![i] = bodies[i]] /\ result = [result EXCEPT ![i] = result[i]]
    BY DEF DataOK
<1>2. /\ stage[i] \in Dispatched /\ Yielded /\ Beside
      /\ stage' = [stage EXCEPT ![i] = "rejected"] /\ schedulerFailure' = TRUE
      /\ UNCHANGED <<result, bodies>>
    BY DEF DispatchRejects
<1>3. /\ result[i] = "ABORTED" => bodies[i] > 0
    BY DEF BodiesInv
<1> QED
    BY <1>1, <1>2, <1>3, DispatchStepKeeps

-----------------------------------------------------------------------------
(* The policy, and the outside *)

LEMMA PolicySettlesKeeps ==
    ASSUME Data, NEW i \in Calls, PolicySettles(i)
    PROVE  Data'
<1> USE ToolCallsAssumption DEF Data
<1>1. /\ UNCHANGED <<mode, schedule, first, last, groupMode, nextToStart, committed,
                 schedulerFailure, inFlight, trace, results, bodies, startedAs>>
    BY DEF PolicySettles, Beside, group, position
<1>2. stage[i] = "gating" /\ StageOf(i)
    BY DEF PolicySettles, StageInv
<1>3. /\ stage[i] = "gating" /\ result[i] = "none" /\ i >= nextToStart /\ bodies[i] = 0
      /\ i > nextToStart => schedule \in Over
    BY <1>2 DEF DataOK, StageOf, BodiesInv, Calls, Dispatched
<1>4. /\ stage' \in [Calls -> Stages] /\ result' \in [Calls -> Results]
      /\ \A k \in Calls : k # i => stage'[k] = stage[k] /\ result'[k] = result[k]
      /\ \/ stage'[i] = "allowed" /\ result'[i] = "none"
         \/ stage'[i] = "decided" /\ result'[i] \in {"ABORTED_BEFORE_DISPATCH", "error"}
    BY <1>3 DEF PolicySettles, Decide, DataOK, Stages, Results
<1>5. stage'[i] # "done"
    BY <1>4
<1>6. \A k \in 1..Len(results) : k \in Calls /\ k # i
    BY <1>2 DEF DataOK, ResultsInv, Calls, Dispatched
<1>7. /\ \A k \in 1..Len(results) :
            results[k].call = k /\ results[k].result = result'[k] /\ stage'[k] = "done"
      /\ \A k \in Calls : stage'[k] = "done" => k <= Len(results)
    BY <1>4, <1>5, <1>6 DEF ResultsInv
<1>8. DataOK'
    BY <1>1, <1>2, <1>3, <1>4, <1>5, <1>6, <1>7 DEF DataOK, Schedules, Awaiting, Stages,
       Dispatched, Results, Successes
<1>9. GroupInv'
    BY <1>1, <1>2, <1>3, <1>4, <1>5, <1>6, <1>7 DEF DataOK, GroupInv, StageInv, StageOf,
       Calls, Dispatched, Awaiting
<1>10. StageInv'
    BY <1>1, <1>2, <1>3, <1>4, <1>5, <1>6, <1>7 DEF DataOK, GroupInv, StageInv, StageOf,
       Calls, Dispatched, Over, Awaiting
<1>11. PendingInv'
    BY <1>1, <1>2, <1>3, <1>4, <1>5, <1>6, <1>7 DEF DataOK, GroupInv, StageInv, StageOf,
       PendingInv, PendingOf, ResultsInv, Calls, Dispatched, Over, Awaiting
<1>12. ResultsInv'
    BY <1>1, <1>2, <1>3, <1>4, <1>5, <1>6, <1>7 DEF DataOK, GroupInv, StageInv, StageOf,
       ResultsInv, Calls, Over, Awaiting, Dispatched
<1>13. StartedInv'
    BY <1>1, <1>2, <1>3, <1>4, <1>5, <1>6, <1>7 DEF DataOK, GroupInv, StartedInv, StageInv,
       StageOf, Calls
<1>14. BodiesInv'
    BY <1>1, <1>2, <1>3, <1>4, <1>5, <1>6, <1>7 DEF DataOK, GroupInv, StageInv, StageOf,
       BodiesInv, Calls, Dispatched, Successes, Awaiting
<1> QED
    BY <1>8, <1>9, <1>10, <1>11, <1>12, <1>13, <1>14 DEF Data

LEMMA CancelKeeps ==
    ASSUME Data, Cancel
    PROVE  Data'
<1> USE ToolCallsAssumption DEF Data
<1>1. /\ UNCHANGED <<mode, schedule, first, last, groupMode, nextToStart, committed,
                 schedulerFailure, inFlight, stage, result, trace, results, bodies, startedAs>>
    BY DEF Cancel, group, position, call
<1>2. DataOK'
    BY <1>1 DEF DataOK, Schedules, Awaiting, Stages, Dispatched, Results, Successes
<1>3. GroupInv'
    BY <1>1 DEF DataOK, GroupInv, StageInv, StageOf, Calls, Dispatched, Awaiting
<1>4. StageInv'
    BY <1>1 DEF DataOK, GroupInv, StageInv, StageOf, Calls, Dispatched, Over, Awaiting
<1>5. PendingInv'
    BY <1>1 DEF DataOK, GroupInv, StageInv, StageOf, PendingInv, PendingOf, ResultsInv,
       Calls, Dispatched, Over, Awaiting
<1>6. ResultsInv'
    BY <1>1 DEF DataOK, GroupInv, StageInv, StageOf, ResultsInv, Calls, Over, Awaiting,
       Dispatched
<1>7. StartedInv'
    BY <1>1 DEF DataOK, GroupInv, StartedInv, StageInv, StageOf, Calls
<1>8. BodiesInv'
    BY <1>1 DEF DataOK, GroupInv, StageInv, StageOf, BodiesInv, Calls, Dispatched,
       Successes, Awaiting
<1> QED
    BY <1>2, <1>3, <1>4, <1>5, <1>6, <1>7, <1>8 DEF Data

LEMMA ReclassifyKeeps ==
    ASSUME Data, NEW i \in Calls, Reclassify(i)
    PROVE  Data'
<1> USE ToolCallsAssumption DEF Data
<1>1. /\ UNCHANGED <<schedule, first, last, groupMode, nextToStart, committed,
                 schedulerFailure, inFlight, stage, result, trace, results, bodies, startedAs>>
    BY DEF Reclassify, group, position, call
<1>2. mode' \in [Calls -> Modes] /\ schedule # "fill"
    BY DEF Reclassify, DataOK, Modes, Yielded, Awaiting
<1>3. DataOK'
    BY <1>1, <1>2 DEF DataOK, Schedules, Awaiting, Stages, Dispatched, Results, Successes
<1>4. GroupInv'
    BY <1>1, <1>2 DEF DataOK, GroupInv, StageInv, StageOf, Calls, Dispatched, Awaiting
<1>5. StageInv'
    BY <1>1, <1>2 DEF DataOK, GroupInv, StageInv, StageOf, Calls, Dispatched, Over, Awaiting
<1>6. PendingInv'
    BY <1>1, <1>2 DEF DataOK, GroupInv, StageInv, StageOf, PendingInv, PendingOf,
       ResultsInv, Calls, Dispatched, Over, Awaiting
<1>7. ResultsInv'
    BY <1>1, <1>2 DEF DataOK, GroupInv, StageInv, StageOf, ResultsInv, Calls, Over,
       Awaiting, Dispatched
<1>8. StartedInv'
    BY <1>1, <1>2 DEF DataOK, GroupInv, StartedInv, StageInv, StageOf, Calls
<1>9. BodiesInv'
    BY <1>1, <1>2 DEF DataOK, GroupInv, StageInv, StageOf, BodiesInv, Calls, Dispatched,
       Successes, Awaiting
<1> QED
    BY <1>3, <1>4, <1>5, <1>6, <1>7, <1>8, <1>9 DEF Data

LEMMA StutterKeeps ==
    ASSUME Data, UNCHANGED vars
    PROVE  Data'
BY DEF vars, group, position, call, Data, DataOK, GroupInv, StageInv, StageOf, PendingInv,
   PendingOf, ResultsInv, StartedInv, BodiesInv

-----------------------------------------------------------------------------
(* The invariant *)

LEMMA CommitFinalKeeps ==
    ASSUME Data, NEW i \in Calls, CommitFinal(i)
    PROVE  Data'
<1>1. PICK r \in {result[i], "error"} : Commit(i, r)
    BY DEF CommitFinal
<1>2. /\ r \in Results
      /\ r = "ABORTED" => bodies[i] > 0
  <2>1. /\ result[i] \in Results
        /\ result[i] = "ABORTED" => bodies[i] > 0
      BY DEF Data, DataOK, BodiesInv
  <2> QED
      BY <1>1, <2>1 DEF Results
<1>3. Ready(i) /\ schedule = "commit"
    BY DEF CommitFinal
<1> QED
    BY <1>1, <1>2, <1>3, CommitKeeps

LEMMA CommitPostedKeeps ==
    ASSUME Data, NEW i \in Calls, CommitPosted(i)
    PROVE  Data'
<1>1. PICK r \in {Cancelled(i, result[i]), "error"} : Commit(i, r)
    BY DEF CommitPosted
<1>2. /\ r \in Results
      /\ r = "ABORTED" => bodies[i] > 0
  <2>1. /\ result[i] \in Results /\ bodies[i] \in 0..Attempts
        /\ result[i] = "ABORTED" => bodies[i] > 0
      BY DEF Data, DataOK, BodiesInv
  <2> QED
      BY <2>1, ToolCallsAssumption DEF Cancelled, CancellationResult, Results, Successes
<1>3. Ready(i) /\ schedule = "posting"
    BY DEF CommitPosted
<1> QED
    BY <1>1, <1>2, <1>3, CommitKeeps

LEMMA DataInit == Init => Data
<1> SUFFICES ASSUME Init PROVE Data
    OBVIOUS
<1> USE ToolCallsAssumption DEF Init
<1>1. DataOK
  <2>1. /\ mode \in [Calls -> Modes] /\ schedule \in Schedules /\ groupMode \in Modes
        /\ inFlight \subseteq Calls /\ results \in Seq([call: Calls, result: Results])
        /\ stage \in [Calls -> Stages] /\ result \in [Calls -> Results]
      BY DEF Modes, Schedules, Awaiting, Stages, Results
  <2>2. /\ first \in 1..(NumCalls + 1) /\ last \in 0..NumCalls
        /\ nextToStart \in 1..(NumCalls + 1) /\ committed \in 1..(NumCalls + 1)
        /\ bodies \in [Calls -> 0..Attempts] /\ startedAs \in [Calls -> Modes \cup {"none"}]
      OBVIOUS
  <2>3. trace \in [openTurn: {1}, openStep: {1}, nextTurn: {1}, nextStep: {1},
                  pendingCalls: SUBSET Calls]
      BY DEF FreshTrace
  <2> QED
      BY <2>1, <2>2, <2>3 DEF DataOK
<1>2. GroupInv /\ StartedInv
    BY DEF GroupInv, StartedInv
<1>3. StageInv
    BY DEF StageInv, StageOf, Calls, Dispatched
<1>4. PendingInv /\ ResultsInv
    BY DEF PendingInv, PendingOf, ResultsInv, FreshTrace
<1>5. BodiesInv
    BY DEF BodiesInv
<1> QED
    BY <1>1, <1>2, <1>3, <1>4, <1>5 DEF Data

LEMMA DataStep ==
    ASSUME Data, [Next]_vars
    PROVE  Data'
<1>1. CASE Scheduler
  <2>1. CASE Committing
      BY <2>1, CommitFinalKeeps, BeginPostKeeps, CommitPostedKeeps DEF Committing
  <2>2. CASE Skipping
      BY <2>2, SkipCallKeeps, SkipFailsKeeps, SkippedAllKeeps DEF Skipping
  <2>3. CASE OpenGroup \/ StartCall \/ BeginPrepare \/ PrepareReturns \/ PrepareFails
      BY <2>3, OpenGroupKeeps, StartCallKeeps, BeginPrepareKeeps, PrepareReturnsKeeps,
         PrepareFailsKeeps
  <2>4. CASE NothingReady \/ Resume \/ BeginRace \/ EndGroup \/ Throw
      BY <2>4, NothingReadyKeeps, ResumeKeeps, BeginRaceKeeps, EndGroupKeeps, ThrowKeeps
  <2>5. CASE \E i \in Calls : RaceWon(i)
      BY <2>5, RaceWonKeeps
  <2> QED
      BY <1>1, <2>1, <2>2, <2>3, <2>4, <2>5 DEF Scheduler
<1>2. ASSUME NEW i \in Calls, Execution(i)
      PROVE  Data'
    BY <1>2, PolicySettlesKeeps, BodyStartsKeeps, BodySettlesKeeps, RetryKeeps,
       DispatchSettlesKeeps, DispatchRejectsKeeps DEF Execution
<1>3. ASSUME NEW i \in Calls, Reclassify(i)
      PROVE  Data'
    BY <1>3, ReclassifyKeeps
<1> QED
    BY <1>1, <1>2, <1>3, CancelKeeps, StutterKeeps DEF Next

LEMMA FlagsInit == Init => FlagsOK
BY Zenon DEF Init, FlagsOK

\* Who sets a flag: each is a Boolean afterwards.
LEMMA FlagsStep ==
    ASSUME FlagsOK, [Next]_vars
    PROVE  FlagsOK'
<1> USE DEF FlagsOK
<1>1. CASE Scheduler
  <2>1. ASSUME NEW i \in Calls, NEW r, Commit(i, r)
        PROVE  FlagsOK'
      BY <2>1, Zenon DEF Commit
  <2>2. CASE Committing
    <3>1. PICK i \in Calls : CommitFinal(i) \/ BeginPost(i) \/ CommitPosted(i)
        BY <2>2 DEF Committing
    <3> QED
        BY <3>1, <2>1, Zenon DEF CommitFinal, BeginPost, CommitPosted, call
  <2>3. CASE Skipping
      BY <2>3, Zenon DEF Skipping, SkipCall, SkipFails, SkippedAll, call
  <2>4. CASE OpenGroup
      BY <2>4, Zenon DEF OpenGroup, call
  <2>5. CASE StartCall
      BY <2>5, Zenon DEF StartCall, call
  <2>6. CASE BeginPrepare
      BY <2>6, Zenon DEF BeginPrepare, Decide
  <2>7. CASE PrepareReturns \/ PrepareFails
      BY <2>7, Zenon DEF PrepareReturns, PrepareFails
  <2>8. CASE NothingReady \/ Resume \/ BeginRace \/ EndGroup \/ Throw
      BY <2>8, Zenon DEF NothingReady, Resume, BeginRace, EndGroup, Throw, call
  <2>9. CASE \E i \in Calls : RaceWon(i)
      BY <2>9, Zenon DEF RaceWon, call
  <2> QED
      BY <1>1, <2>2, <2>3, <2>4, <2>5, <2>6, <2>7, <2>8, <2>9, Zenon DEF Scheduler
<1>2. ASSUME NEW i \in Calls, Execution(i)
      PROVE  FlagsOK'
  <2>1. CASE PolicySettles(i)
      BY <2>1, Zenon DEF PolicySettles, Decide, Beside
  <2>2. CASE BodyStarts(i) \/ BodySettles(i) \/ Retry(i)
      BY <2>2, Zenon DEF BodyStarts, BodySettles, Retry, Beside
  <2>3. CASE DispatchSettles(i)
      BY <2>3, Zenon DEF DispatchSettles, Beside
  <2>4. CASE DispatchRejects(i)
      BY <2>4, Zenon DEF DispatchRejects, Beside
  <2> QED
      BY <1>2, <2>1, <2>2, <2>3, <2>4 DEF Execution
<1>3. ASSUME NEW i \in Calls, Reclassify(i)
      PROVE  FlagsOK'
    BY <1>3, Zenon DEF Reclassify, call
<1>4. CASE Cancel \/ UNCHANGED vars
    BY <1>4, Zenon DEF Cancel, vars, call
<1> QED
    BY <1>1, <1>2, <1>3, <1>4, Zenon DEF Next

\* Inv is inductive, so it holds in every reachable state.
THEOREM Invariance == Spec => []Inv
<1>1. Init => Inv
    BY DataInit, FlagsInit DEF Inv
<1>2. Inv /\ [Next]_vars => Inv'
    BY DataStep, FlagsStep DEF Inv
<1> QED
    BY <1>1, <1>2, PTL DEF Spec

LEMMA InvTypes == Inv => TypeOK
BY DEF Inv, FlagsOK, Data, DataOK, TypeOK

\* The module's type invariant.
THEOREM TypeCorrect == Spec => []TypeOK
BY Invariance, InvTypes, PTL

-----------------------------------------------------------------------------
(* What the batch promises *)

LEMMA InvOrders == Inv => ResultsInModelOrder
BY DEF Inv, Data, DataOK, ResultsInv, ResultsInModelOrder

\* Results are appended in model order, whatever order the tools finish in.
THEOREM ModelOrder == Spec => []ResultsInModelOrder
BY Invariance, InvOrders, PTL

LEMMA InvAnswers == Inv => EveryCallAnswered
<1> SUFFICES ASSUME Inv, schedule = "returned"
             PROVE  /\ Len(results) = NumCalls /\ Committed = Calls
                    /\ trace.pendingCalls = {}
    BY DEF EveryCallAnswered
<1> USE ToolCallsAssumption DEF Inv, Data
<1>1. Len(results) = NumCalls /\ DOMAIN results = Calls
    BY DEF DataOK, ResultsInv, Calls
<1>2. Committed = Calls
    BY <1>1 DEF Committed, ResultsInv, Calls
<1>3. ASSUME NEW i \in Calls PROVE i \notin trace.pendingCalls
  <2>1. StageOf(i) /\ PendingOf(i) /\ committed = nextToStart
      BY DEF StageInv, PendingInv, GroupInv
  <2> QED
      BY <2>1 DEF StageOf, PendingOf
<1>4. trace.pendingCalls \subseteq Calls
    BY DEF DataOK
<1> QED
    BY <1>1, <1>2, <1>3, <1>4

\* A batch that returns has given every call of the model exactly one result.
THEOREM Answered == Spec => []EveryCallAnswered
BY Invariance, InvAnswers, PTL

LEMMA InvExcludes == Inv => ExclusiveRunsAlone
<1> SUFFICES ASSUME Inv, NEW i \in Calls, startedAs[i] = "exclusive", stage[i] \in Dispatched,
                    NEW j \in Started \ {i}
             PROVE  stage[j] = "done"
    BY DEF ExclusiveRunsAlone
<1> USE ToolCallsAssumption DEF Inv, Data
<1>1. i \in inFlight /\ first <= i
    BY DEF StageInv, StageOf
<1>2. groupMode = "exclusive" /\ i <= last /\ last = first
    BY <1>1 DEF StartedInv, GroupInv
<1>3. j \in Calls /\ j <= last /\ j # i
    BY DEF Started, StartedInv
<1>4. j < committed
    BY <1>1, <1>2, <1>3 DEF DataOK, GroupInv, Calls
<1> QED
    BY <1>3, <1>4 DEF StageInv, StageOf

\* A call started as exclusive overlaps no other call that has started and not committed.
THEOREM ExclusiveAlone == Spec => []ExclusiveRunsAlone
BY Invariance, InvExcludes, PTL

\* A result that changes, at one call.
HonestAt(i) ==
    result'[i] # result[i] =>
        /\ result'[i] = "ABORTED_BEFORE_DISPATCH" =>
              bodies[i] = 0 \/ (stage[i] = "wrapping" /\ stage'[i] = "refused")
        /\ result'[i] = "ABORTED" => bodies[i] > 0

\* A step that only gives one call a result r, of the truth r has to tell.
LEMMA HonestUpdate ==
    ASSUME Data, NEW i \in Calls, NEW r, result' = [result EXCEPT ![i] = r],
           \/ r \in {result[i], "error", "none", "ok", "concluding"}
           \/ r = "ABORTED_BEFORE_DISPATCH" /\ bodies[i] = 0
           \/ r = "ABORTED_BEFORE_DISPATCH" /\ stage[i] = "wrapping" /\ stage'[i] = "refused"
           \/ r = "ABORTED" /\ bodies[i] > 0
    PROVE  \A j \in Calls : HonestAt(j)
BY DEF HonestAt, Data, DataOK

\* cancellationResult() reads whether the body was invoked.
LEMMA CancelledIsHonest ==
    ASSUME NEW i \in Calls, bodies[i] \in Nat, NEW r
    PROVE  \/ Cancelled(i, r) = r
           \/ Cancelled(i, r) = "ABORTED_BEFORE_DISPATCH" /\ bodies[i] = 0
           \/ Cancelled(i, r) = "ABORTED" /\ bodies[i] > 0
BY DEF Cancelled, CancellationResult

LEMMA CommitIsHonest ==
    ASSUME Data, NEW i \in Calls, CommitFinal(i) \/ CommitPosted(i)
    PROVE  \A j \in Calls : HonestAt(j)
<1>1. bodies[i] \in Nat
    BY ToolCallsAssumption DEF Data, DataOK
<1>2. PICK r \in {result[i], Cancelled(i, result[i]), "error"} : Commit(i, r)
    BY DEF CommitFinal, CommitPosted
<1>3. result' = [result EXCEPT ![i] = r] \/ result' = result
    BY <1>2 DEF Commit
<1>4. CASE result' = [result EXCEPT ![i] = r]
    BY <1>1, <1>2, <1>4, CancelledIsHonest, HonestUpdate
<1> QED
    BY <1>3, <1>4 DEF HonestAt

LEMMA SkipIsHonest ==
    ASSUME Data, NEW i \in Calls, SkipCall(i)
    PROVE  \A j \in Calls : HonestAt(j)
<1>1. bodies[i] = 0
    BY DEF SkipCall, FirstSkipped, Data, BodiesInv
<1>2. result' = [result EXCEPT ![i] = "ABORTED_BEFORE_DISPATCH"] \/ result' = result
    BY DEF SkipCall
<1> QED
    BY <1>1, <1>2, HonestUpdate DEF HonestAt

LEMMA ExecutionIsHonest ==
    ASSUME Data, NEW i \in Calls, Execution(i)
    PROVE  \A j \in Calls : HonestAt(j)
<1>1. bodies[i] \in Nat
    BY ToolCallsAssumption DEF Data, DataOK
<1>2. CASE PolicySettles(i)
  <2>1. bodies[i] = 0
    <3>1. stage[i] = "gating" /\ StageOf(i)
        BY <1>2 DEF PolicySettles, Data, StageInv
    <3>2. i >= nextToStart
        BY <3>1 DEF StageOf, Data, DataOK, GroupInv, Calls, Dispatched
    <3> QED
        BY <3>2 DEF Data, BodiesInv
  <2>2. \/ result' = result \/ result' = [result EXCEPT ![i] = "ABORTED_BEFORE_DISPATCH"]
        \/ result' = [result EXCEPT ![i] = "error"]
      BY <1>2 DEF PolicySettles, Decide
  <2> QED
      BY <2>1, <2>2, HonestUpdate DEF HonestAt
<1>3. CASE BodyStarts(i)
  <2>1. CASE result' = result
      BY <2>1 DEF HonestAt
  <2>2. CASE result' # result
    <3>1. PICK r \in {"ABORTED_BEFORE_DISPATCH", "error"} : result' = [result EXCEPT ![i] = r]
        BY <1>3, <2>2 DEF BodyStarts
    <3>2. stage[i] = "wrapping" /\ stage'[i] = "refused"
        BY <1>3, <2>2 DEF BodyStarts, Data, DataOK
    <3> QED
        BY <3>1, <3>2, HonestUpdate
  <2> QED
      BY <2>1, <2>2
<1>4. CASE BodySettles(i)
  <2>1. bodies[i] > 0
      BY <1>4 DEF BodySettles, Data, BodiesInv
  <2>2. PICK r \in Successes \cup {"ABORTED", "error"} : result' = [result EXCEPT ![i] = r]
      BY <1>4 DEF BodySettles
  <2> QED
      BY <2>1, <2>2, HonestUpdate DEF Successes
<1>5. CASE Retry(i)
    BY <1>5, HonestUpdate DEF Retry
<1>6. CASE DispatchSettles(i)
  <2>1. PICK r \in {result[i], "ok", "error"} :
            result' = [result EXCEPT ![i] = Cancelled(i, r)]
      BY <1>6 DEF DispatchSettles
  <2> QED
      BY <1>1, <2>1, CancelledIsHonest, HonestUpdate
<1>7. CASE DispatchRejects(i)
    BY <1>7 DEF DispatchRejects, HonestAt
<1> QED
    BY <1>2, <1>3, <1>4, <1>5, <1>6, <1>7 DEF Execution

LEMMA HonestStep ==
    ASSUME Data, [Next]_vars
    PROVE  \A j \in Calls : HonestAt(j)
<1>1. CASE result' = result
    BY <1>1 DEF HonestAt
<1>2. CASE BeginPrepare
  <2>1. nextToStart \in Calls
      BY <1>2, ToolCallsAssumption DEF BeginPrepare, Data, DataOK, GroupInv, Calls
  <2>2. bodies[nextToStart] = 0
      BY <2>1, ToolCallsAssumption DEF Data, DataOK, BodiesInv, Calls
  <2>3. \/ result' = result
        \/ result' = [result EXCEPT ![nextToStart] = "ABORTED_BEFORE_DISPATCH"]
        \/ result' = [result EXCEPT ![nextToStart] = "error"]
      BY <1>2 DEF BeginPrepare, Decide
  <2> QED
      BY <2>1, <2>2, <2>3, HonestUpdate DEF HonestAt
<1>3. ASSUME Scheduler, ~BeginPrepare, result' # result
      PROVE  \E i \in Calls : CommitFinal(i) \/ CommitPosted(i) \/ SkipCall(i)
    BY <1>3 DEF Scheduler, OpenGroup, StartCall, PrepareReturns, PrepareFails, Committing,
       BeginPost, NothingReady, Resume, BeginRace, RaceWon, EndGroup, Skipping, SkipFails,
       SkippedAll, Throw, call
<1>4. CASE Scheduler
    BY <1>1, <1>2, <1>3, <1>4, CommitIsHonest, SkipIsHonest
<1>5. CASE \E i \in Calls : Execution(i)
    BY <1>5, ExecutionIsHonest
<1>6. ASSUME ~Scheduler, ~\E i \in Calls : Execution(i)
      PROVE  result' = result
    BY <1>6 DEF Next, Reclassify, Cancel, call, vars
<1> QED
    BY <1>1, <1>4, <1>5, <1>6

\* The code of a cancelled result says whether the body of the call was invoked, whatever
\* is cancelled, denied, retried or skipped; a refused further attempt is the exception.
THEOREM HonestCancellation == Spec => CancellationIsHonest
<1>1. ASSUME Inv, [Next]_vars
      PROVE  [\A i \in Calls : result'[i] # result[i] =>
                /\ result'[i] = "ABORTED_BEFORE_DISPATCH" =>
                      bodies[i] = 0 \/ (stage[i] = "wrapping" /\ stage'[i] = "refused")
                /\ result'[i] = "ABORTED" => bodies[i] > 0]_vars
    BY <1>1, HonestStep DEF Inv, HonestAt
<1> QED
    BY <1>1, Invariance, PTL DEF Spec, CancellationIsHonest

LEMMA QuietInit == Init => EndsQuiescent
BY DEF Init, EndsQuiescent, Dispatched

\* Only throwing, once the dispatches have settled, enters "failed".
LEMMA FailedStep ==
    ASSUME [Next]_vars, schedule' = "failed"
    PROVE  Throw \/ (schedule = "failed" /\ UNCHANGED stage)
<1>1. CASE Scheduler
  <2>1. CASE Committing
      BY <2>1 DEF Committing, CommitFinal, BeginPost, CommitPosted, Commit
  <2>2. CASE Skipping
      BY <2>2 DEF Skipping, SkipCall, SkipFails, SkippedAll
  <2>3. CASE OpenGroup \/ StartCall \/ BeginPrepare \/ PrepareReturns \/ PrepareFails
      BY <2>3 DEF OpenGroup, StartCall, BeginPrepare, PrepareReturns, PrepareFails
  <2>4. CASE NothingReady \/ Resume \/ BeginRace \/ EndGroup \/ \E i \in Calls : RaceWon(i)
      BY <2>4 DEF NothingReady, Resume, BeginRace, EndGroup, RaceWon
  <2> QED
      BY <1>1, <2>1, <2>2, <2>3, <2>4 DEF Scheduler
<1>2. ASSUME NEW i \in Calls, Execution(i)
      PROVE  FALSE
    BY <1>2 DEF Execution, PolicySettles, BodyStarts, BodySettles, Retry, DispatchSettles,
       DispatchRejects, Yielded, Beside, Awaiting
<1>3. ASSUME NEW i \in Calls, Reclassify(i)
      PROVE  schedule = "failed" /\ UNCHANGED stage
    BY <1>3 DEF Reclassify, call
<1> QED
    BY <1>1, <1>2, <1>3 DEF Next, Cancel, vars, call

LEMMA QuietStep ==
    ASSUME Inv, Inv', EndsQuiescent, [Next]_vars
    PROVE  EndsQuiescent'
<1>1. CASE schedule' = "returned"
    BY <1>1 DEF Inv, Data, GroupInv, StageInv, StageOf, EndsQuiescent
<1>2. CASE schedule' = "failed"
  <2>1. CASE Throw
      BY <2>1 DEF Throw, DispatchesSettled, Inv, Data, StageInv, StageOf, EndsQuiescent, call
  <2> QED
      BY <1>2, <2>1, FailedStep DEF EndsQuiescent, Ended
<1> QED
    BY <1>1, <1>2 DEF EndsQuiescent, Ended

\* However the batch ends, no dispatch is left running behind it.
THEOREM Quiescence == Spec => []EndsQuiescent
<1>1. Inv /\ Inv' /\ EndsQuiescent /\ [Next]_vars => EndsQuiescent'
    BY QuietStep
<1> QED
    BY Invariance, QuietInit, <1>1, PTL DEF Spec

-----------------------------------------------------------------------------
(* The log *)

\* A step appends nothing, or a call's tool/call, or the tool/result of a
\* pending call.
LEMMA OneAppend ==
    ASSUME Inv, [Next]_vars
    PROVE  \/ UNCHANGED <<trace, results>>
           \/ \E i \in Calls : Publish(CallEvent(i)) /\ UNCHANGED results
           \/ \E i \in trace.pendingCalls, r \in Results :
                 /\ Publish(ResultEvent(i))
                 /\ results' = Append(results, [call |-> i, result |-> r])
<1> USE DEF Inv, Data
<1>1. CASE Scheduler
  <2>1. ASSUME NEW i \in Calls, NEW r \in Results, Commit(i, r), Ready(i),
               schedule \in {"commit", "posting"}
        PROVE  \/ UNCHANGED <<trace, results>>
               \/ \E q \in trace.pendingCalls, x \in Results :
                     /\ Publish(ResultEvent(q))
                     /\ results' = Append(results, [call |-> q, result |-> x])
    <3>1. i \in trace.pendingCalls
        BY <2>1 DEF Ready, DataOK, StageInv, StageOf, PendingInv, PendingOf, Calls
    <3> QED
        BY <2>1, <3>1 DEF Commit
  <2>2. CASE Committing
    <3>1. PICK i \in Calls : CommitFinal(i) \/ BeginPost(i) \/ CommitPosted(i)
        BY <2>2 DEF Committing
    <3>2. CASE CommitFinal(i)
      <4>1. PICK r \in {result[i], "error"} : Commit(i, r)
          BY <3>2 DEF CommitFinal
      <4>2. Ready(i) /\ schedule = "commit"
          BY <3>2 DEF CommitFinal
      <4>3. result[i] \in Results
          BY DEF DataOK
      <4>4. r \in Results
          BY <4>3 DEF Results
      <4> QED
          BY <2>1, <4>1, <4>2, <4>4
    <3>3. CASE CommitPosted(i)
      <4>1. PICK r \in {Cancelled(i, result[i]), "error"} : Commit(i, r)
          BY <3>3 DEF CommitPosted
      <4>2. Ready(i) /\ schedule = "posting"
          BY <3>3 DEF CommitPosted
      <4>3. result[i] \in Results
          BY DEF DataOK
      <4>4. r \in Results
          BY <4>3 DEF Cancelled, CancellationResult, Results
      <4> QED
          BY <2>1, <4>1, <4>2, <4>4
    <3> QED
        BY <3>1, <3>2, <3>3 DEF BeginPost
  <2>3. CASE Skipping
    <3>1. ASSUME NEW i \in Calls, SkipCall(i)
          PROVE  \/ Publish(CallEvent(i)) /\ UNCHANGED results
                 \/ /\ i \in trace.pendingCalls /\ Publish(ResultEvent(i))
                    /\ results' = Append(results,
                                         [call |-> i, result |-> "ABORTED_BEFORE_DISPATCH"])
        BY <3>1 DEF SkipCall, Logged
    <3> QED
        BY <2>3, <3>1 DEF Skipping, SkipFails, SkippedAll, Results
  <2>4. CASE StartCall
    <3>1. nextToStart \in Calls
        BY <2>4, ToolCallsAssumption DEF StartCall, MayStart, DataOK, Calls
    <3> QED
        BY <2>4, <3>1 DEF StartCall
  <2>5. CASE OpenGroup \/ BeginPrepare \/ PrepareReturns \/ PrepareFails
      BY <2>5 DEF OpenGroup, BeginPrepare, PrepareReturns, PrepareFails
  <2>6. CASE \/ NothingReady \/ Resume \/ BeginRace \/ EndGroup \/ Throw
             \/ \E i \in Calls : RaceWon(i)
      BY <2>6 DEF NothingReady, Resume, BeginRace, EndGroup, Throw, RaceWon
  <2> QED
      BY <1>1, <2>2, <2>3, <2>4, <2>5, <2>6 DEF Scheduler
<1>2. ASSUME NEW i \in Calls, Execution(i)
      PROVE  UNCHANGED <<trace, results>>
    BY <1>2 DEF Execution, PolicySettles, BodyStarts, BodySettles, Retry, DispatchSettles,
       DispatchRejects, Beside
<1>3. ASSUME NEW i \in Calls, Reclassify(i)
      PROVE  UNCHANGED <<trace, results>>
    BY <1>3 DEF Reclassify
<1> QED
    BY <1>1, <1>2, <1>3 DEF Next, Cancel, vars

LEMMA ValidWrite ==
    ASSUME Inv, [Next]_vars
    PROVE  /\ trace' # trace => Log!Write
           /\ results' # results =>
                 Accepts(trace, ResultEvent(results'[Len(results')].call))
<1>1. ASSUME NEW i \in Calls, Publish(CallEvent(i))
      PROVE  Log!Write
  <2>1. /\ trace.openTurn = 1 /\ trace.openStep = 1
      BY DEF Inv, Data, DataOK
  <2>2. CallEvent(i) \in Log!Candidates(trace)
      BY <2>1 DEF CallEvent, Log!Candidates, Log!CallEvents
  <2>3. Log!Accepts(trace, CallEvent(i))
      BY <2>1 DEF CallEvent, Log!Accepts, Log!OpenStepIs
  <2>4. trace' = Log!Advance(trace, CallEvent(i))
      BY <1>1 DEF Publish, CallEvent, Advance, Log!Advance
  <2> QED
      BY <2>2, <2>3, <2>4 DEF Log!Write
<1>2. ASSUME NEW i \in trace.pendingCalls, NEW r \in Results, Publish(ResultEvent(i)),
             results' = Append(results, [call |-> i, result |-> r])
      PROVE  Log!Write /\ Accepts(trace, ResultEvent(results'[Len(results')].call))
  <2>1. /\ trace.openTurn = 1 /\ trace.openStep = 1 /\ i \in Calls
      BY DEF Inv, Data, DataOK
  <2>2. ResultEvent(i) \in Log!Candidates(trace)
      BY <2>1 DEF ResultEvent, Log!Candidates, Log!ResultEvents
  <2>3. Log!Accepts(trace, ResultEvent(i)) /\ Accepts(trace, ResultEvent(i))
      BY <2>1 DEF ResultEvent, Accepts, OpenStepIs, Log!Accepts, Log!OpenStepIs
  <2>4. trace' = Log!Advance(trace, ResultEvent(i))
      BY <1>2 DEF Publish, ResultEvent, Advance, Log!Advance
  <2>5. results'[Len(results')].call = i
      BY <1>2, <2>1, AppendProperties DEF Inv, Data, DataOK
  <2> QED
      BY <2>2, <2>3, <2>4, <2>5 DEF Log!Write
<1> QED
    BY <1>1, <1>2, OneAppend

\* Every append of the scheduler is one the session validator accepts.
THEOREM ValidLog == Spec => WritesValidLog
<1>1. Inv /\ [Next]_vars =>
        [/\ trace' # trace => Log!Write
         /\ results' # results =>
               Accepts(trace, ResultEvent(results'[Len(results')].call))]_<<trace, results>>
    BY ValidWrite
<1> QED
    BY Invariance, <1>1, PTL DEF Spec, WritesValidLog
=============================================================================
