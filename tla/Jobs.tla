-------------------------------- MODULE Jobs --------------------------------
(***************************************************************************)
(* Background jobs: the registry (jobs-local/src/index.ts), the tools and   *)
(* the completion reporter over it (tool-jobs/src/index.ts), the producers  *)
(* that do the work, and the agents that own jobs, with their turns and     *)
(* their teardown. A job is the record that start() tracks; an output, a    *)
(* label and the text of a notice are left out.                             *)
(***************************************************************************)
EXTENDS Naturals, FiniteSets

CONSTANTS Jobs,       \* job ids
          Owners,     \* agents
          Waiters,    \* job_output calls with wait: true
          maxConcurrentJobsPerOwner,
          wakeBudget  \* maxConsecutiveWakes of tool-jobs

ASSUME Assumptions ==
    /\ IsFiniteSet(Jobs) /\ Jobs # {}
    /\ maxConcurrentJobsPerOwner \in Nat \ {0} /\ wakeBudget \in Nat

VARIABLES
    status,     \* "none" before start; "forced" is a failure forced by teardown
    owner,      \* of each started job
    reported,
    stored,     \* the registry's store
    producer,   \* what the work behind a job is doing
    wait,       \* where each wait() stands, and on which job
    service,    \* the registry: active, draining in disposeAll, or gone
    attached,   \* ownerCleanups
    draining,   \* the jobs that disposeOwned awaits, of each owner
    life,       \* of each owner: live, and the stages of its teardown
    turn,       \* its driver: idle, running, or past its last inbox check
    spentWakes,
    notice,     \* where the completion notice of each job is
    told,       \* history: jobs whose end, or stop request, was answered
    torn        \* history: jobs that a teardown cancelled

records == <<status, owner, reported, stored>>
agents  == <<life, turn, spentWakes>>
vars    == <<records, producer, wait, service, attached, draining, agents, notice,
             told, torn>>

Live     == {"running", "stopping"}
Terminal == {"settled", "forced"}

\* "late" is a notice injected after the driver's last look at the inbox.
TypeOK ==
    /\ status \in [Jobs -> {"none"} \cup Live \cup Terminal]
    /\ owner \in [Jobs -> Owners]
    /\ reported \in [Jobs -> BOOLEAN]
    /\ stored \subseteq Jobs
    /\ producer \in [Jobs -> {"none", "working", "cancelled", "stopped"}]
    /\ wait \in [Waiters -> [at : {"none", "waiting", "timedout", "released"},
                             job : Jobs]]
    /\ service \in {"active", "draining", "gone"}
    /\ attached \subseteq Owners
    /\ draining \in [Owners -> SUBSET Jobs]
    /\ life \in [Owners -> {"live", "leaving", "unwinding", "draining", "disposed"}]
    /\ turn \in [Owners -> {"idle", "running", "retiring"}]
    /\ spentWakes \in [Owners -> 0 .. wakeBudget]
    /\ notice \in [Jobs -> {"none", "pending", "late", "claimed", "discarded"}]
    /\ told \subseteq Jobs /\ torn \subseteq Jobs

Init ==
    /\ status = [j \in Jobs |-> "none"] /\ owner \in [Jobs -> Owners]
    /\ reported = [j \in Jobs |-> FALSE] /\ stored = {}
    /\ producer = [j \in Jobs |-> "none"]
    /\ wait \in [Waiters -> [at : {"none"}, job : {CHOOSE j \in Jobs : TRUE}]]
    /\ service = "active" /\ attached = {} /\ draining = [o \in Owners |-> {}]
    /\ life = [o \in Owners |-> "live"] /\ turn = [o \in Owners |-> "idle"]
    /\ spentWakes = [o \in Owners |-> 0]
    /\ notice = [j \in Jobs |-> "none"] /\ told = {} /\ torn = {}

-----------------------------------------------------------------------------
(* start, read, kill and wait run inside a tool call of the owner's turn. *)

activeTaskCount(o) ==
    Cardinality({j \in stored : owner[j] = o /\ status[j] \in Live})

\* ctx.jobs resolves only while the registry is active, the effect that
\* cleans up is refused once the owner's scope unwinds, unless it is there.
Admits(o) ==
    /\ service = "active"
    /\ o \in attached \/ life[o] \in {"live", "leaving"}
    /\ activeTaskCount(o) < maxConcurrentJobsPerOwner

Start(j) ==
    /\ status[j] = "none" /\ turn[owner[j]] = "running" /\ Admits(owner[j])
    /\ status' = [status EXCEPT ![j] = "running"]
    /\ stored' = stored \cup {j}
    /\ producer' = [producer EXCEPT ![j] = "working"]
    /\ attached' = attached \cup {owner[j]}
    /\ UNCHANGED <<owner, reported, wait, service, draining, agents, notice, told, torn>>

Reachable(j) ==
    /\ j \in stored /\ service = "active" /\ turn[owner[j]] = "running"

\* read() of a job that ended. Before its end it changes nothing here.
Read(j) ==
    /\ Reachable(j) /\ status[j] \in Terminal
    /\ reported' = [reported EXCEPT ![j] = TRUE]
    /\ told' = told \cup {j}
    /\ UNCHANGED <<status, owner, stored, producer, wait, service, attached, draining,
                   agents, notice, torn>>

\* kill(): the producer's cancel returned. When it throws nothing changes.
Kill(j) ==
    /\ Reachable(j) /\ status[j] # "none"
    /\ reported' = [reported EXCEPT ![j] = TRUE]
    /\ told' = told \cup {j}
    /\ IF status[j] \in Terminal
       THEN UNCHANGED <<status, producer>>
       ELSE /\ status' = [status EXCEPT ![j] = "stopping"]
            /\ producer' = [producer EXCEPT ![j] = "cancelled"]
    /\ UNCHANGED <<owner, stored, wait, service, attached, draining, agents, notice, torn>>

\* A wait on a job that ended answers at once, as Read does; one whose signal
\* is aborted throws, and a disposed turn's is.
Wait(w, j) ==
    /\ Reachable(j) /\ status[j] \in Live /\ wait[w].at = "none"
    /\ life[owner[j]] = "live"
    /\ wait' = [wait EXCEPT ![w] = [at |-> "waiting", job |-> j]]
    /\ UNCHANGED <<records, producer, service, attached, draining, agents, notice, told,
                   torn>>

\* The deadline resolves the wait; it stays counted until it resumes.
TimeOut(w) ==
    /\ wait[w].at = "waiting"
    /\ wait' = [wait EXCEPT ![w].at = "timedout"]
    /\ UNCHANGED <<records, producer, service, attached, draining, agents, notice, told,
                   torn>>

\* The listener of the caller's signal is detached by a settlement or by the
\* deadline: the abort finds it only while the wait is pending.
AbortableFault == {"waiting", "timedout", "released"}
Abortable == {"waiting"}

AbortWait(w) ==
    /\ wait[w].at \in Abortable
    /\ wait' = [wait EXCEPT ![w].at = "none"]
    /\ UNCHANGED <<records, producer, service, attached, draining, agents, notice, told,
                   torn>>

\* The wait resumes, and job_output reads what it returned. The read throws,
\* with nobody told, when the record or the registry has gone meanwhile.
WaitReturns(w) ==
    LET j == wait[w].job IN
    /\ wait[w].at \in {"timedout", "released"}
    /\ wait' = [wait EXCEPT ![w].at = "none"]
    /\ IF status[j] \in Terminal
       THEN /\ reported' = [reported EXCEPT ![j] = TRUE]
            /\ told' = IF j \in stored /\ service = "active" THEN told \cup {j} ELSE told
       ELSE UNCHANGED <<reported, told>>
    /\ UNCHANGED <<status, owner, stored, producer, service, attached, draining, agents,
                   notice, torn>>

-----------------------------------------------------------------------------
(* Settlement and the reporter. *)

waiters(j) == Cardinality({w \in Waiters : wait[w].at # "none" /\ wait[w].job = j})

Released(j) ==
    [w \in Waiters |-> IF wait[w].at = "waiting" /\ wait[w].job = j
                       THEN [wait[w] EXCEPT !.at = "released"] ELSE wait[w]]

\* The completion reporter: an idle owner within its budget is woken, any
\* other owner finds the notice at its next look at the inbox.
WakesFault(o) == turn[o] = "idle"
Wakes(o) == turn[o] = "idle" /\ spentWakes[o] < wakeBudget

Report(j) ==
    LET o == owner[j] IN
    IF Wakes(o)
    THEN /\ turn' = [turn EXCEPT ![o] = "running"]
         /\ spentWakes' = [spentWakes EXCEPT ![o] = @ + 1]
         /\ notice' = [notice EXCEPT ![j] = "pending"]
    ELSE /\ notice' = [notice EXCEPT ![j] = IF turn[o] = "retiring" THEN "late" ELSE "pending"]
         /\ UNCHANGED <<turn, spentWakes>>

\* settle() by the producer's outcome, or by its rejection. The first
\* terminal record stands; an outcome that comes later changes nothing.
Settle(j) ==
    /\ producer[j] \in {"working", "cancelled"}
    /\ producer' = [producer EXCEPT ![j] = "stopped"]
    /\ IF status[j] \in Terminal
       THEN UNCHANGED <<records, wait, turn, spentWakes, notice>>
       ELSE LET known == reported[j] \/ waiters(j) > 0 IN
            /\ status' = [status EXCEPT ![j] = "settled"]
            /\ reported' = [reported EXCEPT ![j] = known]
            /\ wait' = Released(j)
            /\ IF known \/ service # "active"
               THEN UNCHANGED <<turn, spentWakes, notice>>
               ELSE Report(j)
            /\ UNCHANGED <<owner, stored>>
    /\ UNCHANGED <<service, attached, draining, life, told, torn>>

-----------------------------------------------------------------------------
(* Teardown. *)

Active(J) == {j \in J : status[j] \in Live}

\* A refused cancel leaves a record that nothing will ever end.
CancelForTeardownFault(J, thrown) ==
    /\ thrown \subseteq Active(J)
    /\ status' = [j \in Jobs |-> IF j \in Active(J) THEN "stopping" ELSE status[j]]
    /\ reported' = [j \in Jobs |-> reported[j] \/ j \in Active(J)]
    /\ producer' = [j \in Jobs |-> IF j \in Active(J) \ thrown THEN "cancelled"
                                   ELSE producer[j]]
    /\ torn' = torn \cup Active(J)
    /\ UNCHANGED wait

\* cancelForTeardown(J), where the producers of thrown refuse to be
\* cancelled: their records are forced to fail, and their waits released.
CancelForTeardown(J, thrown) ==
    /\ thrown \subseteq Active(J)
    /\ status' = [j \in Jobs |-> IF j \in thrown THEN "forced"
                                 ELSE IF j \in Active(J) THEN "stopping" ELSE status[j]]
    /\ reported' = [j \in Jobs |-> reported[j] \/ j \in Active(J)]
    /\ producer' = [j \in Jobs |-> IF j \in Active(J) \ thrown THEN "cancelled"
                                   ELSE producer[j]]
    /\ wait' = [w \in Waiters |-> IF wait[w].at = "waiting" /\ wait[w].job \in thrown
                                  THEN [wait[w] EXCEPT !.at = "released"] ELSE wait[w]]
    /\ torn' = torn \cup Active(J)

\* Disposal of an agent begins with a cancel, which discards what waits in
\* its inbox; the teardown goes on once the agent is quiescent.
Dispose(o) ==
    /\ life[o] = "live"
    /\ life' = [life EXCEPT ![o] = "leaving"]
    /\ notice' = [j \in Jobs |-> IF owner[j] = o /\ notice[j] \in {"pending", "late"}
                                 THEN "discarded" ELSE notice[j]]
    /\ UNCHANGED <<records, producer, wait, service, attached, draining, turn, spentWakes,
                   told, torn>>

Unwind(o) ==
    /\ life[o] = "leaving" /\ turn[o] = "idle"
    /\ life' = [life EXCEPT ![o] = "unwinding"]
    /\ UNCHANGED <<records, producer, wait, service, attached, draining, turn, spentWakes,
                   notice, told, torn>>

Owned(o) == {j \in stored : owner[j] = o}

\* The cleanup of the owner's scope, up to its await.
DisposeOwned(o) ==
    /\ life[o] = "unwinding"
    /\ life' = [life EXCEPT ![o] = "draining"]
    /\ attached' = attached \ {o}
    /\ IF o \in attached
       THEN /\ draining' = [draining EXCEPT ![o] = Owned(o)]
            /\ \E thrown \in SUBSET Active(Owned(o)) : CancelForTeardown(Owned(o), thrown)
       ELSE UNCHANGED <<draining, status, reported, producer, wait, torn>>
    /\ UNCHANGED <<owner, stored, service, turn, spentWakes, notice, told>>

AllEndedFault(J) == TRUE
AllEnded(J) == \A j \in J : status[j] \in Terminal

OwnedEnded(o) ==
    /\ life[o] = "draining" /\ AllEnded(draining[o])
    /\ life' = [life EXCEPT ![o] = "disposed"]
    /\ stored' = stored \ draining[o]
    /\ UNCHANGED <<status, owner, reported, producer, wait, service, attached, draining,
                   turn, spentWakes, notice, told, torn>>

\* The registry itself is disposed; no effect is pending for its owners after.
DisposeAll ==
    /\ service = "active"
    /\ service' = "draining"
    /\ \E thrown \in SUBSET Active(stored) : CancelForTeardown(stored, thrown)
    /\ UNCHANGED <<owner, stored, attached, draining, agents, notice, told>>

AllGone ==
    /\ service = "draining" /\ AllEnded(stored)
    /\ service' = "gone" /\ stored' = {} /\ attached' = {}
    /\ UNCHANGED <<status, owner, reported, producer, wait, draining, agents, notice, told,
                   torn>>

-----------------------------------------------------------------------------
(* The turns of the owners, as far as jobs can tell. *)

\* A message opens a turn. One of the user's restores the budget of wakes.
Prompt(o) ==
    /\ turn[o] = "idle" /\ life[o] = "live"
    /\ turn' = [turn EXCEPT ![o] = "running"]
    /\ \E spent \in {0, spentWakes[o]} : spentWakes' = [spentWakes EXCEPT ![o] = spent]
    /\ UNCHANGED <<records, producer, wait, service, attached, draining, life, notice,
                   told, torn>>

Unclaimed(o) == {j \in Jobs : owner[j] = o /\ notice[j] \in {"pending", "late"}}

Claim(o) ==
    /\ turn[o] = "running" /\ life[o] = "live" /\ Unclaimed(o) # {}
    /\ notice' = [j \in Jobs |-> IF j \in Unclaimed(o) THEN "claimed" ELSE notice[j]]
    /\ UNCHANGED <<records, producer, wait, service, attached, draining, agents, told, torn>>

\* The last look at the inbox. A cancelled turn ends whatever is there.
Retire(o) ==
    /\ turn[o] = "running"
    /\ \A w \in Waiters : wait[w].at = "none" \/ owner[wait[w].job] # o
    /\ life[o] = "live" => Unclaimed(o) = {}
    /\ turn' = [turn EXCEPT ![o] = "retiring"]
    /\ UNCHANGED <<records, producer, wait, service, attached, draining, life, spentWakes,
                   notice, told, torn>>

GoIdle(o) ==
    /\ turn[o] = "retiring"
    /\ turn' = [turn EXCEPT ![o] = "idle"]
    /\ UNCHANGED <<records, producer, wait, service, attached, draining, life, spentWakes,
                   notice, told, torn>>

Calls(j) == Start(j) \/ Read(j) \/ Kill(j) \/ (\E w \in Waiters : Wait(w, j))
Waits(w) == TimeOut(w) \/ AbortWait(w) \/ WaitReturns(w)
Turns(o) == Prompt(o) \/ Claim(o) \/ Retire(o) \/ GoIdle(o)
Teardown(o) == Dispose(o) \/ Unwind(o) \/ DisposeOwned(o) \/ OwnedEnded(o)

Next ==
    \/ \E j \in Jobs : Calls(j) \/ Settle(j)
    \/ \E w \in Waiters : Waits(w)
    \/ \E o \in Owners : Turns(o) \/ Teardown(o)
    \/ DisposeAll \/ AllGone

Spec == Init /\ [][Next]_vars

\* A wait has a deadline; promises that are resolved resume who awaits them;
\* a producer settles once it has accepted a cancellation (the contract of
\* JobHooks), a cancelled turn ends, and a disposal that has begun goes on.
\* Work that nobody cancels may go on for ever.
FairSpec ==
    /\ Spec
    /\ \A j \in Jobs : WF_vars(producer[j] = "cancelled" /\ Settle(j))
    /\ \A w \in Waiters : WF_vars(TimeOut(w)) /\ WF_vars(WaitReturns(w))
    /\ \A o \in Owners :
        /\ WF_vars(life[o] # "live" /\ Retire(o)) /\ WF_vars(GoIdle(o))
        /\ WF_vars(Unwind(o)) /\ WF_vars(DisposeOwned(o)) /\ WF_vars(OwnedEnded(o))
    /\ WF_vars(AllGone)

-----------------------------------------------------------------------------
(* Properties. *)

\* A wait that the settlement of job j released, or found counted, will say
\* so when it resumes.
Owed(j) == \E w \in Waiters : wait[w].at \in {"timedout", "released"} /\ wait[w].job = j

\* The end of each job is accounted for: as an answer to a wait, a read or a
\* kill, or as a notice, or by the teardown that brought it about, which is
\* never announced.
Accounted(j) ==
    IF j \in torn THEN notice[j] = "none"
    ELSE \/ j \in told \/ Owed(j) \/ notice[j] # "none"
         \/ j \notin stored \/ service # "active"

\* A notice waits beside an idle agent only where the documentation says it
\* may: the budget of wakes is spent, or (a late one) it came after the
\* driver's last look at the inbox.
Stranded(j) ==
    notice[j] = "pending" /\ turn[owner[j]] = "idle" /\ life[owner[j]] = "live"

\* While the registry holds its record, the end of a job is never lost between
\* the waits that suppress its notice, the callers that abort or time out,
\* the teardowns, and the turns of its owner; and its notice is not left
\* unseen while its owner is idle and may still be woken.
NoEndIsLost ==
    \A j \in Jobs :
        /\ status[j] \in Terminal => Accounted(j)
        /\ Stranded(j) => spentWakes[owner[j]] = wakeBudget

\* Work in progress always has a live record, within the owner's limit, and
\* the store forgets an owner only when its work has stopped. Only work whose
\* producer refused to be cancelled in a teardown escapes.
AtWork == {j \in Jobs : producer[j] \in {"working", "cancelled"} /\ status[j] # "forced"}

NoWorkIsUntracked ==
    /\ \A j \in AtWork : j \in stored /\ status[j] \in Live
    /\ \A o \in Owners :
        /\ Cardinality({j \in AtWork : owner[j] = o}) <= maxConcurrentJobsPerOwner
        /\ life[o] = "disposed" => Owned(o) = {}

\* Every wait comes back, every agent that is being disposed is disposed, and
\* the registry lets go, whatever producers throw.
WaitsAndTeardownsEnd ==
    /\ \A w \in Waiters : wait[w].at # "none" ~> wait[w].at = "none"
    /\ \A o \in Owners : life[o] = "leaving" ~> life[o] = "disposed"
    /\ service = "draining" ~> service = "gone"
=============================================================================
