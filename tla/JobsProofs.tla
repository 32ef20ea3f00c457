----------------------------- MODULE JobsProofs -----------------------------
(***************************************************************************)
(* Theorems about Jobs, for any jobs, agents, waits and limits: its types,  *)
(* and that no work runs without a live record within its owner's limit     *)
(* (NoWorkIsUntracked).                                                     *)
(***************************************************************************)
EXTENDS Jobs, FiniteSetTheorems, TLAPS

\* The record of a job and the work behind it keep in step: a live record has
\* work behind it and is in the store, and a settled one has none left.
RecordsAgree ==
    \A j \in Jobs :
        /\ status[j] = "none" => producer[j] = "none" /\ j \notin stored
        /\ status[j] \in Live => producer[j] \in {"working", "cancelled"} /\ j \in stored
        /\ status[j] = "settled" => producer[j] = "stopped"

\* A record in the store has somebody left to remove it: the cleanup of its
\* owner's scope, or the teardown that already awaits it.
RemovalIsDue ==
    /\ \A j \in stored :
        LET o == owner[j] IN
        /\ o \in attached \/ life[o] = "draining"
        /\ life[o] = "draining" => j \in draining[o]
        /\ life[o] # "disposed"
    /\ \A o \in Owners : life[o] = "draining" \/ life[o] = "disposed" => o \notin attached

ActiveOf(o) == {j \in stored : owner[j] = o /\ status[j] \in Live}

WithinLimit == \A o \in Owners : Cardinality(ActiveOf(o)) <= maxConcurrentJobsPerOwner

Inv == TypeOK /\ RecordsAgree /\ RemovalIsDue /\ WithinLimit

-----------------------------------------------------------------------------
(* Types *)

LEMMA TypeInit == Init => TypeOK
BY Assumptions DEF Init, TypeOK, Live, Terminal

LEMMA TeardownType ==
    ASSUME TypeOK, NEW J \in SUBSET Jobs, NEW thrown, CancelForTeardown(J, thrown)
    PROVE  /\ status' \in [Jobs -> {"none"} \cup Live \cup Terminal]
           /\ reported' \in [Jobs -> BOOLEAN]
           /\ producer' \in [Jobs -> {"none", "working", "cancelled", "stopped"}]
           /\ wait' \in [Waiters -> [at : {"none", "waiting", "timedout", "released"},
                                     job : Jobs]]
           /\ torn' \subseteq Jobs
<1>1. status' \in [Jobs -> {"none"} \cup Live \cup Terminal]
    BY DEF TypeOK, CancelForTeardown, Live, Terminal
<1>2. reported' \in [Jobs -> BOOLEAN]
    BY Zenon DEF TypeOK, CancelForTeardown
<1>3. producer' \in [Jobs -> {"none", "working", "cancelled", "stopped"}]
    BY DEF TypeOK, CancelForTeardown
<1>4. wait' \in [Waiters -> [at : {"none", "waiting", "timedout", "released"}, job : Jobs]]
    BY DEF TypeOK, CancelForTeardown
<1>5. torn' \subseteq Jobs
    BY DEF TypeOK, CancelForTeardown, Active
<1> QED
    BY <1>1, <1>2, <1>3, <1>4, <1>5

LEMMA ReportType ==
    ASSUME TypeOK, NEW j \in Jobs, Report(j)
    PROVE  /\ turn' \in [Owners -> {"idle", "running", "retiring"}]
           /\ spentWakes' \in [Owners -> 0 .. wakeBudget]
           /\ notice' \in [Jobs -> {"none", "pending", "late", "claimed", "discarded"}]
<1> DEFINE o == owner[j]
<1>1. o \in Owners /\ spentWakes[o] \in 0 .. wakeBudget
    BY DEF TypeOK
<1>2. CASE Wakes(o)
    BY <1>1, <1>2, Assumptions DEF TypeOK, Report, Wakes
<1>3. CASE ~Wakes(o)
    BY <1>3 DEF TypeOK, Report
<1> QED
    BY <1>2, <1>3

LEMMA SettleType ==
    ASSUME TypeOK, NEW j \in Jobs, Settle(j)
    PROVE  TypeOK'
<1> DEFINE known == reported[j] \/ waiters(j) > 0
<1>1. CASE status[j] \in Terminal
    BY <1>1 DEF Settle, TypeOK, records
<1>2. CASE status[j] \notin Terminal
  <2>1. /\ status' = [status EXCEPT ![j] = "settled"]
        /\ reported' = [reported EXCEPT ![j] = known]
        /\ wait' = Released(j)
        /\ producer' = [producer EXCEPT ![j] = "stopped"]
        /\ UNCHANGED <<owner, stored, service, attached, draining, life, told, torn>>
    BY <1>2, Zenon DEF Settle
  <2>2. reported' \in [Jobs -> BOOLEAN]
    <3>1. known \in BOOLEAN
        BY Zenon
    <3> HIDE DEF known
    <3> QED
        BY <2>1, <3>1, Zenon DEF TypeOK
  <2>3. wait' \in [Waiters -> [at : {"none", "waiting", "timedout", "released"}, job : Jobs]]
    BY <2>1 DEF TypeOK, Released
  <2>4. /\ turn' \in [Owners -> {"idle", "running", "retiring"}]
        /\ spentWakes' \in [Owners -> 0 .. wakeBudget]
        /\ notice' \in [Jobs -> {"none", "pending", "late", "claimed", "discarded"}]
    <3>1. CASE Report(j)
        BY <3>1, ReportType
    <3>2. CASE UNCHANGED <<turn, spentWakes, notice>>
        BY <3>2 DEF TypeOK
    <3> QED
        BY <1>2, <3>1, <3>2, Zenon DEF Settle
  <2>5. /\ status' \in [Jobs -> {"none"} \cup Live \cup Terminal]
        /\ producer' \in [Jobs -> {"none", "working", "cancelled", "stopped"}]
    BY <2>1 DEF TypeOK, Terminal
  <2> QED
    BY <2>1, <2>2, <2>3, <2>4, <2>5, Zenon DEF TypeOK
<1> QED
    BY <1>1, <1>2

LEMMA WaitReturnsType ==
    ASSUME TypeOK, NEW w \in Waiters, WaitReturns(w)
    PROVE  TypeOK'
<1> DEFINE j == wait[w].job
<1>1. j \in Jobs
    BY DEF TypeOK
<1>2. wait' \in [Waiters -> [at : {"none", "waiting", "timedout", "released"}, job : Jobs]]
    BY DEF TypeOK, WaitReturns
<1>3. reported' = [reported EXCEPT ![j] = TRUE] \/ reported' = reported
    BY DEF WaitReturns
<1>4. reported' \in [Jobs -> BOOLEAN]
    BY <1>3, Zenon DEF TypeOK
<1>5. told' \subseteq Jobs
    BY <1>1 DEF TypeOK, WaitReturns
<1> QED
    BY <1>2, <1>4, <1>5, Zenon DEF TypeOK, WaitReturns, agents

LEMMA PromptType ==
    ASSUME TypeOK, NEW o \in Owners, Prompt(o)
    PROVE  TypeOK'
<1>1. PICK spent \in {0, spentWakes[o]} : spentWakes' = [spentWakes EXCEPT ![o] = spent]
    BY DEF Prompt
<1>2. spent \in 0 .. wakeBudget
    BY Assumptions DEF TypeOK
<1>3. spentWakes' \in [Owners -> 0 .. wakeBudget]
    BY <1>1, <1>2, Zenon DEF TypeOK
<1>4. turn' \in [Owners -> {"idle", "running", "retiring"}]
    BY DEF TypeOK, Prompt
<1> QED
    BY <1>3, <1>4, Zenon DEF TypeOK, Prompt, records

LEMMA DisposeOwnedType ==
    ASSUME TypeOK, NEW o \in Owners, DisposeOwned(o)
    PROVE  TypeOK'
<1>1. Owned(o) \in SUBSET Jobs
    BY DEF TypeOK, Owned
<1>2. /\ life' \in [Owners -> {"live", "leaving", "unwinding", "draining", "disposed"}]
      /\ attached' \subseteq Owners
    BY DEF TypeOK, DisposeOwned
<1>3. CASE o \in attached
  <2>1. PICK thrown \in SUBSET Active(Owned(o)) : CancelForTeardown(Owned(o), thrown)
      BY <1>3 DEF DisposeOwned
  <2>2. draining' \in [Owners -> SUBSET Jobs]
      BY <1>1, <1>3 DEF TypeOK, DisposeOwned
  <2> QED
      BY <1>1, <1>2, <2>1, <2>2, TeardownType, Zenon DEF TypeOK, DisposeOwned
<1>4. CASE o \notin attached
    BY <1>2, <1>4, Zenon DEF TypeOK, DisposeOwned
<1> QED
    BY <1>3, <1>4

LEMMA TypeStep == Inv /\ [Next]_vars => TypeOK'
<1> SUFFICES ASSUME Inv, [Next]_vars PROVE TypeOK'
    OBVIOUS
<1>1. CASE \E j \in Jobs : Start(j)
    BY <1>1 DEF Start, Inv, TypeOK, records, agents, Live, Terminal
<1>2. CASE \E j \in Jobs : Read(j)
    BY <1>2 DEF Read, Inv, TypeOK, records, agents, Live, Terminal
<1>3. CASE \E j \in Jobs : Kill(j)
    BY <1>3 DEF Kill, Inv, TypeOK, records, agents, Live, Terminal
<1>4. CASE \E j \in Jobs, w \in Waiters : Wait(w, j)
    BY <1>4 DEF Wait, Inv, TypeOK, records, agents, Live, Terminal
<1>5. CASE \E j \in Jobs : Settle(j)
    BY <1>5, SettleType, Zenon DEF Inv
<1>6. CASE \E w \in Waiters : TimeOut(w)
    BY <1>6 DEF TimeOut, Inv, TypeOK, records, agents, Live, Terminal
<1>7. CASE \E w \in Waiters : AbortWait(w)
    BY <1>7 DEF AbortWait, Inv, TypeOK, records, agents, Live, Terminal
<1>8. CASE \E w \in Waiters : WaitReturns(w)
    BY <1>8, WaitReturnsType, Zenon DEF Inv
<1>9. CASE \E o \in Owners : Prompt(o)
    BY <1>9, PromptType, Zenon DEF Inv
<1>10. CASE \E o \in Owners : Claim(o)
    BY <1>10 DEF Claim, Inv, TypeOK, records, agents, Live, Terminal
<1>11. CASE \E o \in Owners : Retire(o)
    BY <1>11 DEF Retire, Inv, TypeOK, records, agents, Live, Terminal
<1>12. CASE \E o \in Owners : GoIdle(o)
    BY <1>12 DEF GoIdle, Inv, TypeOK, records, agents, Live, Terminal
<1>13. CASE \E o \in Owners : Dispose(o)
    BY <1>13 DEF Dispose, Inv, TypeOK, records, agents, Live, Terminal
<1>14. CASE \E o \in Owners : Unwind(o)
    BY <1>14 DEF Unwind, Inv, TypeOK, records, agents, Live, Terminal
<1>15. CASE \E o \in Owners : DisposeOwned(o)
    BY <1>15, DisposeOwnedType, Zenon DEF Inv
<1>16. CASE \E o \in Owners : OwnedEnded(o)
    BY <1>16 DEF OwnedEnded, Inv, TypeOK, records, agents, Live, Terminal
<1>17. CASE DisposeAll
    BY <1>17, TeardownType DEF DisposeAll, Inv, TypeOK, agents
<1>18. CASE AllGone
    BY <1>18 DEF AllGone, Inv, TypeOK, records, agents, Live, Terminal
<1>19. CASE UNCHANGED vars
    BY <1>19, Zenon DEF Inv, TypeOK, vars, records, agents
<1> QED
    BY <1>1, <1>2, <1>3, <1>4, <1>5, <1>6, <1>7, <1>8, <1>9, <1>10, <1>11, <1>12,
       <1>13, <1>14, <1>15, <1>16, <1>17, <1>18, <1>19, Zenon DEF Next, Calls, Waits,
       Turns, Teardown

-----------------------------------------------------------------------------
(* The steps that move no record: most of the calls, waits and turns *)

Quiet ==
    \/ \E j \in Jobs : Read(j) \/ \E w \in Waiters : Wait(w, j)
    \/ \E w \in Waiters : Waits(w)
    \/ \E o \in Owners : Turns(o) \/ Dispose(o) \/ Unwind(o)
    \/ UNCHANGED vars

Moves ==
    \/ \E j \in Jobs : Start(j) \/ Kill(j) \/ Settle(j)
    \/ \E o \in Owners : DisposeOwned(o) \/ OwnedEnded(o)
    \/ DisposeAll \/ AllGone

LEMMA QuietOrMoves == [Next]_vars => Quiet \/ Moves
BY Zenon DEF Next, Calls, Teardown, Quiet, Moves

\* Only live agents and those that are leaving are moved on by a quiet step.
LEMMA QuietStep ==
    ASSUME TypeOK, Quiet
    PROVE  /\ UNCHANGED <<status, owner, stored, producer, attached, draining>>
           /\ \A o \in Owners :
                \/ life'[o] = life[o]
                \/ life[o] \in {"live", "leaving"} /\ life'[o] \in {"leaving", "unwinding"}
<1>1. CASE \E j \in Jobs : Read(j) \/ \E w \in Waiters : Wait(w, j)
    BY <1>1, Zenon DEF Read, Wait, records, agents
<1>2. CASE \E w \in Waiters : Waits(w)
    BY <1>2, Zenon DEF Waits, TimeOut, AbortWait, WaitReturns, records, agents
<1>3. CASE \E o \in Owners : Turns(o)
    BY <1>3, Zenon DEF Turns, Prompt, Claim, Retire, GoIdle, records, agents
<1>4. CASE \E o \in Owners : Dispose(o) \/ Unwind(o)
    BY <1>4 DEF TypeOK, Dispose, Unwind, records
<1>5. CASE UNCHANGED vars
    BY <1>5, Zenon DEF vars, records, agents
<1> QED
    BY <1>1, <1>2, <1>3, <1>4, <1>5, Zenon DEF Quiet

-----------------------------------------------------------------------------
(* Records and the work behind them *)

LEMMA TeardownKeepsRecords ==
    ASSUME TypeOK, RecordsAgree, NEW J \in SUBSET stored, NEW thrown,
           CancelForTeardown(J, thrown), stored' = stored
    PROVE  RecordsAgree'
BY DEF TypeOK, RecordsAgree, CancelForTeardown, Active, Live, Terminal

LEMMA RecordsStep == Inv /\ [Next]_vars => RecordsAgree'
<1> SUFFICES ASSUME Inv, [Next]_vars
             PROVE  RecordsAgree'
    OBVIOUS
<1>1. CASE Quiet
    BY <1>1, QuietStep, Zenon DEF Inv, RecordsAgree
<1>2. CASE \E j \in Jobs : Start(j)
    BY <1>2 DEF Inv, TypeOK, RecordsAgree, Start, Live
<1>3. CASE \E j \in Jobs : Kill(j)
    BY <1>3 DEF Inv, TypeOK, RecordsAgree, Kill, Live, Terminal
<1>4. CASE \E j \in Jobs : Settle(j)
  <2>1. PICK j \in Jobs : Settle(j)
      BY <1>4
  <2>2. producer' = [producer EXCEPT ![j] = "stopped"] /\ stored' = stored
      BY <2>1, Zenon DEF Settle, records
  <2>3. CASE status[j] \in Terminal
      BY <2>1, <2>2, <2>3 DEF Inv, TypeOK, RecordsAgree, Settle, Live, Terminal, records
  <2>4. CASE status[j] \notin Terminal
    <3>1. status' = [status EXCEPT ![j] = "settled"]
        BY <2>1, <2>4, Zenon DEF Settle
    <3> QED
        BY <2>2, <3>1 DEF Inv, TypeOK, RecordsAgree, Live
  <2> QED
      BY <2>3, <2>4
<1>5. CASE \E o \in Owners : DisposeOwned(o)
  <2>1. PICK o \in Owners : DisposeOwned(o)
      BY <1>5
  <2>2. Owned(o) \in SUBSET stored
      BY DEF Owned
  <2> QED
      BY <2>1, <2>2, TeardownKeepsRecords, Zenon DEF Inv, RecordsAgree, DisposeOwned
<1>6. CASE \E o \in Owners : OwnedEnded(o)
    BY <1>6 DEF Inv, TypeOK, RecordsAgree, OwnedEnded, AllEnded, Live, Terminal
<1>7. CASE DisposeAll
    BY <1>7, TeardownKeepsRecords, Zenon DEF Inv, DisposeAll
<1>8. CASE AllGone
    BY <1>8 DEF Inv, TypeOK, RecordsAgree, AllGone, AllEnded, Live, Terminal
<1> QED
    BY <1>1, <1>2, <1>3, <1>4, <1>5, <1>6, <1>7, <1>8, QuietOrMoves, Zenon DEF Moves

-----------------------------------------------------------------------------
(* Who removes a record *)

\* No cleanup is attached for an owner whose scope has unwound, so nothing
\* starts there any more.
LEMMA StartAttaches ==
    ASSUME Inv, NEW j \in Jobs, Start(j)
    PROVE  life[owner[j]] \notin {"draining", "disposed"}
BY DEF Inv, TypeOK, RemovalIsDue, Start, Admits

LEMMA RemovalStep == Inv /\ [Next]_vars => RemovalIsDue'
<1> SUFFICES ASSUME Inv, [Next]_vars
             PROVE  RemovalIsDue'
    OBVIOUS
<1>1. CASE Quiet
    BY <1>1, QuietStep DEF Inv, TypeOK, RemovalIsDue
<1>2. CASE \E j \in Jobs : Start(j)
    BY <1>2, StartAttaches DEF Inv, TypeOK, RemovalIsDue, Start, agents
<1>3. CASE \E j \in Jobs : Kill(j)
    BY <1>3, Zenon DEF Inv, RemovalIsDue, Kill, agents
<1>4. CASE \E j \in Jobs : Settle(j)
  <2>1. UNCHANGED <<owner, stored, attached, draining, life>>
      BY <1>4, Zenon DEF Settle, records
  <2> QED
      BY <2>1, Zenon DEF Inv, RemovalIsDue
<1>5. CASE \E o \in Owners : DisposeOwned(o)
  <2>1. PICK o \in Owners : DisposeOwned(o)
      BY <1>5
  <2>2. /\ owner' = owner /\ stored' = stored /\ life[o] = "unwinding"
        /\ life' = [life EXCEPT ![o] = "draining"] /\ attached' = attached \ {o}
        /\ draining' = IF o \in attached THEN [draining EXCEPT ![o] = Owned(o)] ELSE draining
      BY <2>1, Zenon DEF DisposeOwned
  <2> QED
      BY <2>2 DEF Inv, TypeOK, RemovalIsDue, Owned
<1>6. CASE \E o \in Owners : OwnedEnded(o)
    BY <1>6 DEF Inv, TypeOK, RemovalIsDue, OwnedEnded
<1>7. CASE DisposeAll
    BY <1>7, Zenon DEF Inv, RemovalIsDue, DisposeAll, agents
<1>8. CASE AllGone
    BY <1>8 DEF Inv, TypeOK, RemovalIsDue, AllGone, agents
<1> QED
    BY <1>1, <1>2, <1>3, <1>4, <1>5, <1>6, <1>7, <1>8, QuietOrMoves, Zenon DEF Moves

-----------------------------------------------------------------------------
(* The limit of an owner *)

LEMMA ActiveFinite ==
    ASSUME TypeOK, NEW o \in Owners
    PROVE  IsFiniteSet(ActiveOf(o)) /\ Cardinality(ActiveOf(o)) \in Nat
<1>1. ActiveOf(o) \in SUBSET Jobs
    BY DEF TypeOK, ActiveOf
<1>2. IsFiniteSet(ActiveOf(o))
    BY <1>1, FS_Subset, Assumptions
<1> QED
    BY <1>2, FS_CardinalityType

\* A step that makes no record live leaves every owner within its limit.
LEMMA FewerStayWithin ==
    ASSUME Inv, TypeOK', owner' = owner,
           \A o \in Owners : ActiveOf(o)' \subseteq ActiveOf(o)
    PROVE  WithinLimit'
<1> SUFFICES ASSUME NEW o \in Owners
             PROVE  Cardinality(ActiveOf(o)') <= maxConcurrentJobsPerOwner
    BY DEF WithinLimit
<1>1. IsFiniteSet(ActiveOf(o)) /\ Cardinality(ActiveOf(o)) \in Nat
    BY ActiveFinite DEF Inv
<1>2. ActiveOf(o)' \in SUBSET ActiveOf(o)
    OBVIOUS
<1>3. IsFiniteSet(ActiveOf(o)') /\ Cardinality(ActiveOf(o)') <= Cardinality(ActiveOf(o))
    BY <1>1, <1>2, FS_Subset
<1>4. Cardinality(ActiveOf(o)') \in Nat
    BY <1>3, FS_CardinalityType
<1>5. Cardinality(ActiveOf(o)) <= maxConcurrentJobsPerOwner
    BY DEF Inv, WithinLimit
<1> QED
    BY <1>1, <1>3, <1>4, <1>5, Assumptions

LEMMA StartStaysWithin ==
    ASSUME Inv, NEW j \in Jobs, Start(j)
    PROVE  WithinLimit'
<1> SUFFICES ASSUME NEW o \in Owners
             PROVE  Cardinality(ActiveOf(o)') <= maxConcurrentJobsPerOwner
    BY DEF WithinLimit
<1>1. CASE o = owner[j]
  <2>1. j \notin ActiveOf(o) /\ ActiveOf(o)' = ActiveOf(o) \cup {j}
      BY <1>1 DEF Inv, TypeOK, RecordsAgree, Start, ActiveOf, Live
  <2>2. Cardinality(ActiveOf(o)) < maxConcurrentJobsPerOwner
      BY <1>1 DEF Start, Admits, activeTaskCount, ActiveOf
  <2>3. IsFiniteSet(ActiveOf(o)) /\ Cardinality(ActiveOf(o)) \in Nat
      BY ActiveFinite DEF Inv
  <2>4. Cardinality(ActiveOf(o)') = Cardinality(ActiveOf(o)) + 1
      BY <2>1, <2>3, FS_AddElement
  <2> QED
      BY <2>2, <2>3, <2>4, Assumptions
<1>2. CASE o # owner[j]
  <2>1. ActiveOf(o)' = ActiveOf(o)
      BY <1>2 DEF Inv, TypeOK, Start, ActiveOf
  <2> QED
      BY <2>1 DEF Inv, WithinLimit
<1> QED
    BY <1>1, <1>2

\* A kill or a teardown stops live records and never revives one that ended.
LEMMA NoneRevived ==
    ASSUME Inv, Moves, ~ \E j \in Jobs : Start(j)
    PROVE  /\ owner' = owner /\ stored' \subseteq stored
           /\ \A j \in Jobs : status'[j] \in Live => status[j] \in Live
<1>1. CASE \E j \in Jobs : Kill(j)
    BY <1>1 DEF Inv, TypeOK, RecordsAgree, Kill, Live, Terminal
<1>2. CASE \E j \in Jobs : Settle(j)
    BY <1>2 DEF Inv, TypeOK, Settle, Live, Terminal, records
<1>3. CASE \E o \in Owners : DisposeOwned(o)
  <2>1. PICK o \in Owners : DisposeOwned(o)
      BY <1>3
  <2>2. CASE o \in attached
      BY <2>1, <2>2 DEF Inv, TypeOK, DisposeOwned, CancelForTeardown, Active, Live, Owned
  <2>3. CASE o \notin attached
      BY <2>1, <2>3 DEF DisposeOwned
  <2> QED
      BY <2>2, <2>3
<1>4. CASE \E o \in Owners : OwnedEnded(o)
    BY <1>4 DEF OwnedEnded
<1>5. CASE DisposeAll
    BY <1>5 DEF Inv, TypeOK, DisposeAll, CancelForTeardown, Active, Live
<1>6. CASE AllGone
    BY <1>6 DEF AllGone
<1> QED
    BY <1>1, <1>2, <1>3, <1>4, <1>5, <1>6, Zenon DEF Moves

LEMMA LimitStep == Inv /\ [Next]_vars => WithinLimit'
<1> SUFFICES ASSUME Inv, [Next]_vars
             PROVE  WithinLimit'
    OBVIOUS
<1>1. CASE Quiet
    BY <1>1, QuietStep, Zenon DEF Inv, WithinLimit, ActiveOf
<1>2. CASE \E j \in Jobs : Start(j)
    BY <1>2, StartStaysWithin
<1>3. CASE Moves /\ ~ \E j \in Jobs : Start(j)
  <2>1. TypeOK'
      BY TypeStep
  <2>2. \A o \in Owners : ActiveOf(o)' \subseteq ActiveOf(o)
      BY <1>3, NoneRevived DEF ActiveOf, Inv, TypeOK
  <2> QED
      BY <1>3, <2>1, <2>2, NoneRevived, FewerStayWithin
<1> QED
    BY <1>1, <1>2, <1>3, QuietOrMoves

-----------------------------------------------------------------------------
(* Theorems *)

LEMMA InvInit == Init => Inv
<1> SUFFICES ASSUME Init
             PROVE  Inv
    OBVIOUS
<1>1. TypeOK
    BY TypeInit
<1>2. RecordsAgree
    BY DEF Init, RecordsAgree, Live
<1>3. RemovalIsDue
    BY DEF Init, RemovalIsDue
<1>4. WithinLimit
  <2>1. ASSUME NEW o \in Owners
        PROVE  Cardinality(ActiveOf(o)) = 0
    <3>1. ActiveOf(o) = {}
        BY DEF Init, ActiveOf
    <3> QED
        BY <3>1, FS_EmptySet
  <2> QED
      BY <2>1, Assumptions DEF WithinLimit
<1> QED
    BY <1>1, <1>2, <1>3, <1>4 DEF Inv

\* The strengthening that the theorems below rest on is an invariant of the
\* registry, its callers and its teardown, for any jobs, owners and waits.
THEOREM Invariance == Spec => []Inv
<1>1. Inv /\ [Next]_vars => Inv'
    BY TypeStep, RecordsStep, RemovalStep, LimitStep DEF Inv
<1> QED
    BY <1>1, InvInit, PTL DEF Spec

\* Every variable of the registry, its waits and its owners keeps its type.
THEOREM TypeCorrect == Spec => []TypeOK
<1>1. Inv => TypeOK
    BY DEF Inv
<1> QED
    BY <1>1, Invariance, PTL

\* What the strengthening says of work in progress.
LEMMA InvTracks == Inv => NoWorkIsUntracked
<1> SUFFICES ASSUME Inv
             PROVE  NoWorkIsUntracked
    OBVIOUS
<1>1. \A j \in AtWork : j \in stored /\ status[j] \in Live
    BY DEF Inv, TypeOK, RecordsAgree, AtWork, Live, Terminal
<1>2. ASSUME NEW o \in Owners
      PROVE  /\ Cardinality({j \in AtWork : owner[j] = o}) <= maxConcurrentJobsPerOwner
             /\ life[o] = "disposed" => Owned(o) = {}
  <2>1. {j \in AtWork : owner[j] = o} \in SUBSET ActiveOf(o)
      BY <1>1 DEF ActiveOf
  <2>2. IsFiniteSet(ActiveOf(o)) /\ Cardinality(ActiveOf(o)) \in Nat
      BY ActiveFinite DEF Inv
  <2>3. Cardinality(ActiveOf(o)) <= maxConcurrentJobsPerOwner
      BY DEF Inv, WithinLimit
  <2>4. /\ Cardinality({j \in AtWork : owner[j] = o}) <= Cardinality(ActiveOf(o))
        /\ Cardinality({j \in AtWork : owner[j] = o}) \in Nat
      BY <2>1, <2>2, FS_Subset, FS_CardinalityType
  <2>5. life[o] = "disposed" => Owned(o) = {}
      BY DEF Inv, RemovalIsDue, Owned
  <2> QED
      BY <2>2, <2>3, <2>4, <2>5, Assumptions
<1> QED
    BY <1>1, <1>2 DEF NoWorkIsUntracked

\* start(), settle(), cancelForTeardown() and disposeOwned(): work in progress
\* always has a live record in the store, an owner never has more of it than
\* maxConcurrentJobsPerOwner, and a disposed owner has no record left.
THEOREM WorkIsTracked == Spec => []NoWorkIsUntracked
BY Invariance, InvTracks, PTL

=============================================================================
