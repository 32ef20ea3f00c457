---------------------------- MODULE WriteBehind -----------------------------
(***************************************************************************)
(* The write path of one persisted session: SessionWriteBehind              *)
(* (write-behind.ts), the coordinator's flush, append and retirement around *)
(* it (coordinator.ts), and the file mechanics of the JSONL backend below   *)
(* (session-persistence-jsonl/src/index.ts), with storage that fails and a  *)
(* host that loses power. An event is its place in the session, from 1.     *)
(***************************************************************************)
EXTENDS Naturals, Sequences, FiniteSets, SequencesExt

CONSTANTS Callers,     \* concurrent callers of session/flush
          SeedLengths, \* lengths of the seed a new session may start with
          Faults,      \* storage calls that may fail: subset of FaultKinds
          MaxFaults,   \* bound: failing storage calls in one behaviour
          MaxEvents,   \* bound: events of the session
          MaxCrashes   \* bound: losses of power

\* Writing the file, its fsync, the link that publishes it, and the fsync of
\* the directory that makes the link durable.
FaultKinds == {"write", "sync", "link", "dirsync"}

ASSUME Assumptions ==
    /\ "retire" \notin Callers
    /\ SeedLengths \subseteq 0 .. MaxEvents /\ SeedLengths # {}
    /\ Faults \subseteq FaultKinds
    /\ {MaxFaults, MaxEvents, MaxCrashes} \subseteq Nat

VARIABLES
    \* SessionWriteBehind
    pending, timer, deadlineExpired, automaticPaused,
    active,       \* promise of the running write; see Phases
    background,   \* whether it was started by startBackground
    batch,        \* the events it took from pending
    continuation, \* continueAutomatic is queued as a microtask
    barrier,      \* drainBarrier: where it awaits, "none" when there is none
    \* PersistenceCoordinator
    init,         \* live.init: the seed still to be stored, stored, or failed
    cursor, materialized, seed,
    call,         \* what each flush() awaits
    \* the JSONL file
    storing,      \* the storage call in progress
    before,       \* size of the file when it was opened to append
    lines,        \* lines of the file, Torn for an incomplete one
    synced,       \* how many of them an fsync has covered
    entry,        \* the file's directory entry
    \* environment and history
    host, accepted, need, acked, faults, crashes,
    faulted       \* a storage call of the running write has failed

behind == <<pending, timer, deadlineExpired, automaticPaused, active, background,
            batch, continuation, barrier>>
owner  == <<init, cursor, materialized, seed>>
disk   == <<storing, before, lines, synced, entry>>
past   == <<host, accepted, need, acked, faults, crashes, faulted>>
vars   == <<behind, owner, call, disk, past>>

Torn == 0

\* No write; awaiting live.init and the session's chain; in the backend; and
\* the microtasks after it: stored, failed, and past the catch handler.
Phases == {"none", "waiting", "storing", "stored", "rejected", "caught"}

\* Where drainBarrier awaits: an overlapping write, its own write; and its own
\* write settled, with the continuation queued.
Awaits == {"none", "overlap", "write", "drained", "failed"}

Flushers == Callers \cup {"retire"}

TypeOK ==
    /\ pending \in Seq(1 .. MaxEvents) /\ batch \in Seq(1 .. MaxEvents)
    /\ {timer, deadlineExpired, automaticPaused, background, continuation,
        materialized, faulted} \subseteq BOOLEAN
    /\ active \in Phases /\ barrier \in Awaits
    /\ init \in {"seeding", "ready", "failed"}
    /\ cursor \in 0 .. MaxEvents /\ seed \in 0 .. MaxEvents /\ before \in 0 .. MaxEvents
    /\ accepted \in 0 .. MaxEvents /\ acked \in 0 .. MaxEvents
    /\ call \in [Flushers -> {"none", "init", "barrier", "resolved", "rejected"}]
    /\ need \in [Flushers -> 0 .. MaxEvents]
    /\ storing \in {"idle", "append", "written", "torn", "publish", "linked"}
    /\ lines \in Seq(0 .. MaxEvents) /\ synced \in 0 .. Len(lines)
    /\ entry \in {"absent", "linked", "durable"}
    /\ host \in {"live", "closed", "down"}
    /\ faults \in 0 .. MaxFaults /\ crashes \in 0 .. MaxCrashes

-----------------------------------------------------------------------------
\* A session created with n events in it: nothing stored yet.
Init ==
    /\ seed \in SeedLengths /\ accepted = seed
    /\ pending = <<>> /\ batch = <<>>
    /\ timer = FALSE /\ deadlineExpired = FALSE /\ automaticPaused = FALSE
    /\ active = "none" /\ background = FALSE /\ continuation = FALSE
    /\ barrier = "none"
    /\ init = "seeding" /\ cursor = 0 /\ materialized = FALSE
    /\ call = [c \in Flushers |-> "none"] /\ need = [c \in Flushers |-> 0]
    /\ storing = "idle" /\ before = 0 /\ lines = <<>> /\ synced = 0
    /\ entry = "absent"
    /\ host = "live" /\ acked = 0 /\ faults = 0 /\ crashes = 0 /\ faulted = FALSE

\* The controller of a session that is gone, or of one that has just begun.
EmptyController ==
    /\ pending' = <<>> /\ batch' = <<>>
    /\ timer' = FALSE /\ deadlineExpired' = FALSE /\ automaticPaused' = FALSE
    /\ active' = "none" /\ background' = FALSE /\ continuation' = FALSE
    /\ barrier' = "none"
    /\ call' = [c \in Flushers |-> "none"]
    /\ need' = [c \in Flushers |-> 0]
    /\ storing' = "idle" /\ before' = 0
    /\ faulted' = FALSE

-----------------------------------------------------------------------------
(* SessionWriteBehind *)

\* startWrite: take the whole queue. A fresh write has not failed yet.
StartWrite(detached) ==
    /\ batch' = pending /\ pending' = <<>>
    /\ timer' = FALSE /\ deadlineExpired' = FALSE
    /\ active' = "waiting" /\ background' = detached
    /\ faulted' = FALSE

\* session/event, enqueue: a barrier will drain the event; otherwise the first
\* one, or one after a failure, starts a window.
Enqueue ==
    /\ host = "live" /\ call["retire"] = "none" /\ accepted < MaxEvents
    /\ accepted' = accepted + 1
    /\ pending' = Append(pending, accepted')
    /\ LET resumes == barrier = "none" /\ automaticPaused
       IN  /\ automaticPaused' = (automaticPaused /\ ~resumes)
           /\ deadlineExpired' = (deadlineExpired /\ ~resumes)
           /\ timer' = (timer \/ (barrier = "none" /\ (resumes \/ pending = <<>>)))
    /\ UNCHANGED <<active, background, batch, continuation, barrier, owner, call, disk,
                   host, need, acked, faults, crashes, faulted>>

\* A timer's callback runs only once every microtask has run.
Quiet ==
    /\ active \notin {"stored", "rejected", "caught"} /\ ~continuation
    /\ barrier \notin {"drained", "failed"} /\ ~(barrier = "overlap" /\ active = "none")
    /\ \A c \in Flushers : call[c] = "init" => init = "seeding"

\* onDeadline: remembered while a write is active, else the write starts.
Deadline ==
    /\ timer /\ Quiet
    /\ \/ /\ active # "none"
          /\ timer' = FALSE /\ deadlineExpired' = TRUE
          /\ UNCHANGED <<batch, pending, active, background, faulted>>
       \/ active = "none" /\ StartWrite(TRUE)
    /\ UNCHANGED <<automaticPaused, continuation, barrier, owner, call, disk,
                   host, accepted, need, acked, faults, crashes>>

\* The write's then and finally, after it has been stored.
WriteStored ==
    /\ active = "stored" /\ active' = "none"
    /\ IF background THEN continuation' = TRUE /\ UNCHANGED barrier
                     ELSE barrier' = "drained" /\ UNCHANGED continuation
    /\ UNCHANGED <<pending, timer, deadlineExpired, automaticPaused, background, batch,
                   owner, call, disk, past>>

\* Its catch handler: the batch goes back in front, and automatic writing pauses.
CatchFailureFault ==
    /\ active = "rejected" /\ active' = "caught"
    /\ pending' = pending \o batch
    /\ timer' = FALSE /\ deadlineExpired' = FALSE /\ automaticPaused' = TRUE
    /\ UNCHANGED <<background, batch, continuation, barrier, owner, call, disk, past>>

CatchFailure ==
    /\ active = "rejected" /\ active' = "caught"
    /\ pending' = batch \o pending
    /\ timer' = FALSE /\ deadlineExpired' = FALSE /\ automaticPaused' = TRUE
    /\ UNCHANGED <<background, batch, continuation, barrier, owner, call, disk, past>>

\* The finally after the catch; only a barrier's own write tells the barrier.
WriteFailedFault ==
    /\ active = "caught" /\ active' = "none"
    /\ UNCHANGED <<pending, timer, deadlineExpired, automaticPaused, background, batch,
                   continuation, barrier, owner, call, disk, past>>

WriteFailed ==
    /\ active = "caught" /\ active' = "none"
    /\ barrier' = IF background THEN barrier ELSE "failed"
    /\ UNCHANGED <<pending, timer, deadlineExpired, automaticPaused, background, batch,
                   continuation, owner, call, disk, past>>

\* continueAutomatic, a microtask after the write.
ContinueAutomaticFault ==
    /\ continuation /\ continuation' = FALSE
    /\ UNCHANGED <<pending, timer, deadlineExpired, active, background, batch, faulted>>
    /\ UNCHANGED <<automaticPaused, barrier, owner, call, disk,
                   host, accepted, need, acked, faults, crashes>>

ContinueAutomatic ==
    /\ continuation /\ continuation' = FALSE
    /\ IF barrier = "none" /\ pending # <<>> /\ deadlineExpired
       THEN StartWrite(TRUE)
       ELSE UNCHANGED <<pending, timer, deadlineExpired, active, background, batch, faulted>>
    /\ UNCHANGED <<automaticPaused, barrier, owner, call, disk,
                   host, accepted, need, acked, faults, crashes>>

-----------------------------------------------------------------------------
(* PersistenceCoordinator.flush and drainBarrier *)

\* flush(): the window is cancelled, and live.init awaited.
CallFlush(c) ==
    /\ host = "live" /\ call[c] \notin {"init", "barrier"}
    /\ call' = [call EXCEPT ![c] = "init"]
    /\ need' = [need EXCEPT ![c] = accepted]
    /\ timer' = FALSE /\ deadlineExpired' = FALSE
    /\ UNCHANGED <<pending, automaticPaused, active, background, batch, continuation,
                   barrier, owner, disk, host, accepted, acked, faults, crashes, faulted>>

Flush(c) == c \in Callers /\ CallFlush(c)

\* session/disposed: retireCore flushes; no event follows it.
Dispose == call["retire"] = "none" /\ CallFlush("retire")

\* The barrier settles: everyone who has joined it is answered.
Answered(calls, answer) ==
    [c \in Flushers |-> IF calls[c] = "barrier" THEN answer ELSE calls[c]]

\* drainBarrier's loop: write what is queued, or resolve. The deadline was
\* cancelled before the barrier was set up, and none has been armed since.
Drain(calls) ==
    IF pending # <<>>
    THEN /\ StartWrite(FALSE) /\ barrier' = "write"
         /\ call' = calls
         /\ UNCHANGED acked
    ELSE /\ barrier' = "none"
         /\ timer' = FALSE /\ deadlineExpired' = FALSE
         /\ call' = Answered(calls, "resolved")
         /\ acked' = Max({acked} \cup {need[c] : c \in {d \in Flushers : calls[d] = "barrier"}})
         /\ UNCHANGED <<pending, batch, active, background, faulted>>

\* live.init has settled: flush() rejects with it, joins the barrier, or sets
\* one up, behind the write that is running.
AwaitInit(c) ==
    LET joined == [call EXCEPT ![c] = "barrier"]
    IN  /\ call[c] = "init"
        /\ \/ /\ init = "failed"
              /\ timer' = FALSE /\ deadlineExpired' = FALSE
              /\ call' = [call EXCEPT ![c] = "rejected"]
              /\ UNCHANGED <<pending, automaticPaused, active, background, batch, barrier,
                             acked, faulted>>
           \/ /\ init = "ready" /\ barrier # "none"
              /\ call' = joined
              /\ UNCHANGED <<behind, acked, faulted>>
           \/ /\ init = "ready" /\ barrier = "none" /\ active # "none"
              /\ barrier' = "overlap"
              /\ timer' = FALSE /\ deadlineExpired' = FALSE /\ automaticPaused' = FALSE
              /\ call' = joined
              /\ UNCHANGED <<pending, active, background, batch, acked, faulted>>
           \/ /\ init = "ready" /\ barrier = "none" /\ active = "none"
              /\ automaticPaused' = FALSE
              /\ Drain(joined)
        /\ UNCHANGED <<continuation, owner, disk, host, accepted, need, faults, crashes>>

\* The write drainBarrier awaited has settled.
ResumeBarrier ==
    /\ \/ /\ barrier = "overlap" /\ active = "none"
          /\ automaticPaused' = FALSE
          /\ Drain(call)
       \/ barrier = "drained" /\ UNCHANGED automaticPaused /\ Drain(call)
       \/ /\ barrier = "failed" /\ barrier' = "none"
          /\ call' = Answered(call, "rejected")
          /\ UNCHANGED <<pending, timer, deadlineExpired, automaticPaused, active,
                         background, batch, acked, faulted>>
    /\ UNCHANGED <<continuation, owner, disk, host, accepted, need, faults, crashes>>

-----------------------------------------------------------------------------
(* appendLiveBatch, appendCore and the backend *)

First(n) == [i \in 1 .. n |-> i]

\* The places of the batch whose events are not stored yet, and the n-th of them.
Unstored == {i \in DOMAIN batch : batch[i] > cursor}
Place(n) == CHOOSE i \in Unstored : Cardinality({k \in Unstored : k <= i}) = n

\* What the running operation on the session's chain stores: the seed, or the
\* events of the batch that are not stored yet, in their order.
Fresh == IF init = "seeding" THEN First(seed)
         ELSE [n \in 1 .. Cardinality(Unstored) |-> batch[Place(n)]]

\* The append has returned; the cursor moves with it.
StoreDone ==
    /\ storing' = "idle"
    /\ cursor' = cursor + Len(Fresh) /\ materialized' = TRUE
    /\ IF init = "seeding" THEN init' = "ready" /\ UNCHANGED active
                           ELSE active' = "stored" /\ UNCHANGED init

\* It has thrown: live.init or the write is rejected.
StoreFailed ==
    /\ storing' = "idle"
    /\ IF init = "seeding" THEN init' = "failed" /\ UNCHANGED active
                           ELSE active' = "rejected" /\ UNCHANGED init
    /\ UNCHANGED <<cursor, materialized>>

Fails(kind) ==
    /\ kind \in Faults /\ faults < MaxFaults
    /\ faults' = faults + 1 /\ faulted' = TRUE

controller == <<pending, timer, deadlineExpired, automaticPaused, background, batch,
                continuation, barrier, call, host, accepted, need, acked, crashes, seed>>

\* The operation reaches the head of the chain: onCreated, or the write once
\* live.init has settled.
BeginStore ==
    /\ host = "live" /\ storing = "idle"
    /\ init = "seeding" \/ active = "waiting"
    /\ \/ /\ init = "failed" /\ StoreFailed
          /\ UNCHANGED before
       \/ /\ init # "failed" /\ Fresh = <<>>
          /\ IF init = "seeding" THEN init' = "ready" /\ UNCHANGED active
                                 ELSE active' = "stored" /\ UNCHANGED init
          /\ UNCHANGED <<storing, cursor, materialized, before>>
       \/ /\ init # "failed" /\ Fresh # <<>>
          /\ IF /\ \A i \in DOMAIN Fresh : Fresh[i] = cursor + i
                /\ materialized \/ entry = "absent"
             THEN /\ storing' = IF materialized THEN "append" ELSE "publish"
                  /\ before' = Len(lines)
                  /\ active' = IF init = "seeding" THEN active ELSE "storing"
                  /\ UNCHANGED <<init, cursor, materialized>>
             ELSE StoreFailed /\ UNCHANGED before
    /\ UNCHANGED <<controller, lines, synced, entry, faults, faulted>>

\* appendLines: the lines are written, some of them or a part of one when the
\* call fails, then fsynced.
WriteLines ==
    /\ storing = "append"
    /\ \/ /\ lines' = lines \o Fresh /\ storing' = "written"
          /\ UNCHANGED <<faults, faulted>>
       \/ /\ Fails("write")
          /\ \E n \in 0 .. Len(Fresh) - 1, rest \in {<<>>, <<Torn>>} :
                lines' = lines \o SubSeq(Fresh, 1, n) \o rest
          /\ storing' = "torn"
    /\ UNCHANGED <<controller, active, init, cursor, materialized, before, synced, entry>>

SyncLines ==
    /\ storing = "written"
    /\ \/ StoreDone /\ synced' = Len(lines) /\ UNCHANGED <<faults, faulted>>
       \/ /\ Fails("sync") /\ storing' = "torn"
          /\ UNCHANGED <<active, init, cursor, materialized, synced>>
    /\ UNCHANGED <<controller, before, lines, entry>>

\* rollbackAppend: back to the size before, fsynced, and the error rethrown.
RollbackAppendFault ==
    /\ storing = "torn" /\ StoreFailed
    /\ UNCHANGED <<controller, before, lines, synced, entry, faults, faulted>>

RollbackAppend ==
    /\ storing = "torn" /\ StoreFailed
    /\ lines' = SubSeq(lines, 1, before) /\ synced' = before
    /\ UNCHANGED <<controller, before, entry, faults, faulted>>

\* materialize: a synced temporary file is linked into place; nothing is left
\* behind when the link, or what comes before it, fails.
Publish ==
    /\ storing = "publish"
    /\ \/ /\ lines' = Fresh /\ synced' = Len(Fresh) /\ entry' = "linked"
          /\ storing' = "linked"
          /\ UNCHANGED <<active, init, cursor, materialized, faults, faulted>>
       \/ Fails("link") /\ StoreFailed /\ UNCHANGED <<lines, synced, entry>>
    /\ UNCHANGED <<controller, before>>

\* The directory's fsync makes the link durable. The link stays when it fails.
SyncDirectory ==
    /\ storing = "linked"
    /\ \/ StoreDone /\ entry' = "durable" /\ UNCHANGED <<faults, faulted>>
       \/ Fails("dirsync") /\ StoreFailed /\ UNCHANGED entry
    /\ UNCHANGED <<controller, before, lines, synced>>

-----------------------------------------------------------------------------
(* Retirement, loss of power, and the next life of the session *)

\* retireCore after its flush: what the session owned is let go, in the chain.
\* A flush() still waiting finds the queue as empty as this one did.
Release ==
    /\ host = "live" /\ call["retire"] = "resolved" /\ storing = "idle"
    /\ host' = "closed"
    /\ EmptyController
    /\ UNCHANGED <<owner, lines, synced, entry, accepted, acked, faults, crashes>>

\* The lines before an incomplete one.
Whole(s) == IF s # <<>> /\ Last(s) = Torn THEN Front(s) ELSE s

\* The host loses power: a link without its directory's fsync may be lost, and
\* so may what was written after the last fsync of the file, cut anywhere.
PowerLoss ==
    /\ host = "live" /\ crashes < MaxCrashes
    /\ crashes' = crashes + 1 /\ host' = "down"
    /\ \/ /\ entry # "durable"
          /\ lines' = <<>> /\ synced' = 0 /\ entry' = "absent"
       \/ /\ entry # "absent"
          /\ \E n \in synced .. Len(Whole(lines)) :
                /\ \/ lines' = SubSeq(lines, 1, n)
                   \/ n < Len(lines) /\ lines' = Append(SubSeq(lines, 1, n), Torn)
                /\ synced' = n
          /\ entry' = "durable"
    /\ EmptyController
    /\ UNCHANGED <<owner, accepted, acked, faults>>

\* The session is resumed from its log: commitPrepared truncates a torn tail,
\* and attachPrepared continues at the cursor.
Resume ==
    /\ host # "live" /\ entry # "absent"
    /\ host' = "live"
    /\ lines' = Whole(lines) /\ synced' = Len(lines')
    /\ cursor' = Len(lines') /\ accepted' = cursor'
    /\ materialized' = TRUE /\ init' = "ready" /\ seed' = 0
    /\ UNCHANGED <<behind, call, storing, before, entry, need, acked, faults, crashes, faulted>>

\* A session that left no log starts again from its seed.
Restart ==
    /\ host = "down" /\ entry = "absent"
    /\ host' = "live"
    /\ seed' \in SeedLengths /\ accepted' = seed'
    /\ init' = "seeding" /\ cursor' = 0 /\ materialized' = FALSE
    /\ UNCHANGED <<behind, call, disk, need, acked, faults, crashes, faulted>>

-----------------------------------------------------------------------------
Microtask == WriteStored \/ CatchFailure \/ WriteFailed \/ ContinueAutomatic \/ ResumeBarrier

Storage == BeginStore \/ WriteLines \/ SyncLines \/ RollbackAppend \/ Publish \/ SyncDirectory

Next ==
    \/ Enqueue \/ Deadline \/ Dispose \/ Microtask \/ Storage
    \/ Release \/ PowerLoss \/ Resume \/ Restart
    \/ \E c \in Callers : Flush(c)
    \/ \E c \in Flushers : AwaitInit(c)

Spec == Init /\ [][Next]_vars

\* Microtasks run, in the order they were queued; a timer fires; the storage
\* answers, if only with an error. Nobody has to flush, dispose or resume.
Fairness ==
    /\ WF_vars(Microtask) /\ WF_vars(Storage) /\ WF_vars(Deadline)
    /\ \A c \in Flushers : WF_vars(AwaitInit(c))

FairSpec == Spec /\ Fairness

-----------------------------------------------------------------------------
(* Properties *)

\* What no loss of power takes away: the fsynced lines of a linked file whose
\* directory has been fsynced.
Durable == IF entry = "durable" THEN SubSeq(lines, 1, synced) ELSE <<>>

\* The write path keeps the promise of the log: batches split, failed, retried,
\* cut by a crash or retired reach it in order and once, and a resolved flush
\* answers for events that stay (session-persistence/README.md, "Invariants").
Promise == INSTANCE DurableLog WITH
    log <- Durable, crashed <- host = "down"
KeepsThePromise == Promise!Spec

\* A queued event always has somebody who will write it: a window, a write and
\* its microtask, a barrier, a flush on its way, or the next event after a
\* failure (automaticPaused). Only a failed live.init leaves it for good.
NothingStranded ==
    host = "live" /\ pending # <<>> =>
        \/ timer \/ automaticPaused \/ init = "failed" \/ barrier # "none"
        \/ active # "none" \/ continuation
        \/ \E c \in Flushers : call[c] = "init"

Rejects == \E c \in Flushers : call[c] = "barrier" /\ call'[c] = "rejected"

\* appendBatch materializes a log "ATOMICALLY" (session-persistence/README.md:52):
\* with no append in progress, a log that is not materialized is not there.
MaterializesAtomically ==
    host = "live" /\ storing = "idle" /\ ~materialized => entry = "absent"

\* flush() "rejects if the barrier's durable retry fails" (write-behind.ts:61):
\* the storage has refused something since the barrier last tried, and neither
\* the order of the retried events nor a stale failure makes it reject. A log
\* half materialized is the one exception, and it lasts.
RejectsOnlyOnFault == [][Rejects => faulted \/ ~MaterializesAtomically]_vars

\* Every flush() is answered while the host is up, however writes fail, overlap
\* and are joined.
FlushesAreAnswered ==
    \A c \in Flushers : call[c] \in {"init", "barrier"} ~> call[c] \notin {"init", "barrier"}
=============================================================================
