---------------------------- MODULE Preparations ----------------------------
(***************************************************************************)
(* One persisted session between two lives: the cache of prepared sources   *)
(* (preparations.ts) with the coordinator's prepare, load and inspect over  *)
(* it, the chain that serializes the storage operations of one id, and the  *)
(* live session that a resume publishes (coordinator.ts). Callers cancel,   *)
(* storage fails, another process writes the same log, and other ids push   *)
(* a ready source out of the cache. The content of the log is its revision  *)
(* and whether it needs a repair.                                           *)
(***************************************************************************)
EXTENDS Naturals, Sequences, FiniteSets

CONSTANTS Clients,      \* concurrent callers of prepare, load and inspect
          Slots,        \* identities of preparation entries, used again when free
          MaxCalls,     \* bound: calls, for a stream of others may hold one back
          MaxWrites,    \* bound: appends of live sessions and of other processes
          MaxFaults,    \* bound: failing storage calls
          MaxAborts     \* bound: cancelled calls
ASSUME Assumptions ==
    /\ IsFiniteSet(Clients) /\ IsFiniteSet(Slots)
    /\ Cardinality(Slots) > Cardinality(Clients)
    /\ {MaxCalls, MaxWrites, MaxFaults, MaxAborts} \subseteq Nat

NoSlot  == "none"
Session == "session"     \* the live session, as the author of an operation
Authors == Clients \cup {Session}

VARIABLES
    rev, torn,   \* the stored log: its revision, and whether it needs a repair
    entry,       \* the phase and the source of each preparation entry
    current,     \* the entry in the map, NoSlot when there is none
    call,        \* of each client: the call, where it awaits, on which entry
    chain,       \* queued operations of the id
    repairing,   \* the first of them is inside commitRepair
    live,        \* the session: none, live, or retiring
    owned,       \* states has an owner for the id
    calls, writes, faults, aborts,
    foreign      \* history: another process wrote since the reservation

store   == <<rev, torn>>
cache   == <<entry, current>>
work    == <<chain, repairing>>
session == <<live, owned>>
past    == <<calls, writes, faults, aborts, foreign>>
vars    == <<store, cache, call, work, session, past>>

\* "again": back at the head of the loop; "woken": past the entry's result or
\* its reservation; "held": on reservationSettled; the last two in the chain.
Places == {"idle", "retirement", "again", "loading", "woken", "held", "reserved",
           "commit", "check"}

Phase == IF current = NoSlot THEN "free" ELSE entry[current].phase
Reserved == Phase \in {"committing", "reserved"}

\* The types; and what a client waits for is there to be waited for: the
\* reservation of the entry it stands on.
TypeOK ==
    /\ rev \in Nat /\ torn \in BOOLEAN
    /\ entry \in [Slots -> [phase : {"free", "loading", "ready", "committing", "reserved"},
                            rev : Nat, torn : BOOLEAN]]
    /\ current \in Slots \cup {NoSlot}
    /\ call \in [Clients -> [op : {"none", "prepare", "load", "inspect"}, at : Places,
                             slot : Slots \cup {NoSlot}, aborted : BOOLEAN]]
    /\ chain \in Seq([kind : {"read", "commit", "check", "append", "drain", "release",
                              "void"},
                      by : Authors \cup Slots])
    /\ repairing \in BOOLEAN
    /\ live \in {"none", "live", "retiring"} /\ owned \in BOOLEAN
    /\ calls \in 0 .. MaxCalls /\ writes \in 0 .. MaxWrites /\ faults \in 0 .. MaxFaults
    /\ aborts \in 0 .. MaxAborts
    /\ foreign \in BOOLEAN
    /\ \A c \in Clients : call[c].at = "held" => current = call[c].slot /\ Reserved

Free == [phase |-> "free", rev |-> 0, torn |-> FALSE]
Idle == [op |-> "none", at |-> "idle", slot |-> NoSlot, aborted |-> FALSE]

Init ==
    /\ rev = 0 /\ torn \in BOOLEAN
    /\ entry = [s \in Slots |-> Free]
    /\ current = NoSlot
    /\ call = [c \in Clients |-> Idle]
    /\ chain = <<>> /\ repairing = FALSE
    /\ live = "none" /\ owned = FALSE
    /\ calls = 0 /\ writes = 0 /\ faults = 0 /\ aborts = 0 /\ foreign = FALSE

-----------------------------------------------------------------------------
(* The cache. *)

\* Clients that a settled reservation of entry s lets go on, in those calls.
Woken(s, those) ==
    [c \in Clients |-> IF those[c].at = "held" /\ those[c].slot = s
                       THEN [those[c] EXCEPT !.at = "woken"] ELSE those[c]]

\* remove(): out of the map, if it is still there, and its waiters go on.
RemoveFault(s, those) ==
    /\ current' = IF current = s THEN NoSlot ELSE current
    /\ call' = those
Remove(s, those) ==
    /\ current' = IF current = s THEN NoSlot ELSE current
    /\ call' = IF current = s THEN Woken(s, those) ELSE those

\* makeReady() of an entry that is still in the map.
MakeReady(s, those) ==
    /\ entry' = [entry EXCEPT ![s].phase = "ready"]
    /\ call' = Woken(s, those)
    /\ UNCHANGED current

\* The calls once client c stands somewhere else.
Moves(c, place) == [call EXCEPT ![c].at = place]
Ends(c) == [call EXCEPT ![c] = Idle]

\* continue: the loop begins with waitForRetirement, which a cancelled call
\* does not pass.
Loops(c) ==
    IF call[c].aborted THEN Ends(c)
    ELSE [call EXCEPT ![c] = [@ EXCEPT !.at = IF live = "retiring" THEN "retirement"
                                              ELSE "again", !.slot = NoSlot]]

Referenced == {call[c].slot : c \in Clients} \cup {current}
              \cup {chain[i].by : i \in DOMAIN chain}

-----------------------------------------------------------------------------
(* Calls. *)

\* A new call finds the microtasks of the others done.
Begin(c) ==
    /\ call[c].at = "idle"
    /\ \A d \in Clients : call[d].at \notin {"again", "woken"}
    /\ calls < MaxCalls /\ calls' = calls + 1
    /\ \E op \in {"prepare", "load", "inspect"} :
        call' = [call EXCEPT ![c] = [@ EXCEPT !.op = op,
                    !.at = IF live = "retiring" THEN "retirement" ELSE "again"]]
    /\ UNCHANGED <<store, cache, work, session, writes, faults, aborts, foreign>>

\* Past waitForRetirement: a live session answers, or refuses a prepare; else
\* entryFor. An inspect looks for a retirement and for a live session at once.
\* An identity that nobody refers to is free; the model has one left over.
Enter(c) ==
    /\ call[c].at = "again"
    /\ call[c].op = "inspect" => live # "retiring"
    /\ IF live = "live"
       THEN call' = Ends(c) /\ UNCHANGED <<cache, chain>>
       ELSE IF current # NoSlot
       THEN /\ call' = [call EXCEPT ![c] = [@ EXCEPT !.slot = current,
                          !.at = IF Phase = "loading" THEN "loading" ELSE "woken"]]
            /\ UNCHANGED <<cache, chain>>
       ELSE LET s == CHOOSE s \in Slots : s \notin Referenced IN
            /\ ~ (Slots \subseteq Referenced)
            /\ current' = s
            /\ entry' = [t \in Slots |-> IF t = s THEN [Free EXCEPT !.phase = "loading"]
                                         ELSE IF t \in Referenced THEN entry[t] ELSE Free]
            /\ chain' = Append(chain, [kind |-> "read", by |-> s])
            /\ call' = [call EXCEPT ![c] = [@ EXCEPT !.slot = s, !.at = "loading"]]
    /\ UNCHANGED <<store, repairing, session, past>>

\* reserve() once the result is there: wait for a holder, or commit.
MustWait(s) == entry[s].phase # "ready"

Reserve(c) ==
    LET s == call[c].slot IN
    /\ call[c].at = "woken" /\ call[c].op # "inspect"
    /\ IF current # s
       THEN call' = Loops(c) /\ UNCHANGED <<entry, chain>>
       ELSE IF MustWait(s)
       THEN call' = Moves(c, "held") /\ UNCHANGED <<entry, chain>>
       ELSE /\ entry' = [entry EXCEPT ![s].phase = "committing"]
            /\ chain' = Append(chain, [kind |-> "commit", by |-> c])
            /\ call' = Moves(c, "commit")
    /\ UNCHANGED <<store, current, repairing, session, past>>

\* inspect() with a source: a live session answers, or the revision is asked.
Inspect(c) ==
    /\ call[c].at = "woken" /\ call[c].op = "inspect"
    /\ IF live = "live"
       THEN call' = Ends(c) /\ UNCHANGED chain
       ELSE /\ chain' = Append(chain, [kind |-> "check", by |-> c])
            /\ call' = Moves(c, "check")
    /\ UNCHANGED <<store, cache, repairing, session, past>>

\* The signal of a prepare or an inspect. What waits is let go; a commit that
\* is still queued takes its entry along; one that has begun finishes first.
Abort(c) ==
    LET queued == {i \in DOMAIN chain : chain[i].by = c}
        begun  == repairing /\ Head(chain).by = c
    IN
    /\ call[c].op # "load" /\ ~call[c].aborted
    /\ aborts < MaxAborts /\ aborts' = aborts + 1
    /\ call[c].at \in {"retirement", "loading", "held", "commit", "check"}
    /\ IF begun
       THEN call' = [call EXCEPT ![c].aborted = TRUE] /\ UNCHANGED <<current, chain>>
       ELSE /\ IF call[c].at = "commit" THEN Remove(call[c].slot, Ends(c))
               ELSE call' = Ends(c) /\ UNCHANGED current
            /\ chain' = [i \in DOMAIN chain |->
                            IF i \in queued THEN [chain[i] EXCEPT !.kind = "void"] ELSE chain[i]]
    /\ UNCHANGED <<store, entry, repairing, session, calls, writes, faults, foreign>>

\* A preparation that is disposed unpublished goes back to the cache, or is
\* dropped when setup has changed its session.
Release(c) ==
    LET s == call[c].slot IN
    /\ call[c].at = "reserved"
    /\ MakeReady(s, Ends(c)) \/ (Remove(s, Ends(c)) /\ UNCHANGED entry)
    /\ foreign' = FALSE
    /\ UNCHANGED <<store, work, session, calls, writes, faults, aborts>>

\* Publication: attachPrepared consumes the reservation and takes ownership.
Publish(c) ==
    /\ call[c].at = "reserved"
    /\ Remove(call[c].slot, Ends(c))
    /\ live' = "live" /\ owned' = TRUE
    /\ foreign' = FALSE
    /\ UNCHANGED <<store, entry, work, calls, writes, faults, aborts>>

-----------------------------------------------------------------------------
(* The chain. Each operation is the first of the queue when it runs. *)

Runs(kind) == chain # <<>> /\ Head(chain).kind = kind

\* The caller of the operation has gone.
SkipVoid ==
    /\ Runs("void") /\ chain' = Tail(chain)
    /\ UNCHANGED <<store, cache, call, repairing, session, past>>

\* prepareCore, and the loader's continuation in entryFor.
LoadedFault(s) ==
    [c \in Clients |-> IF call[c].slot = s /\ call[c].at = "loading" /\ current = s
                       THEN [call[c] EXCEPT !.at = "woken"] ELSE call[c]]
Loaded(s) ==
    [c \in Clients |-> IF call[c].slot = s /\ call[c].at = "loading"
                       THEN [call[c] EXCEPT !.at = "woken"] ELSE call[c]]

RunRead ==
    /\ Runs("read") /\ chain' = Tail(chain)
    /\ LET s == Head(chain).by IN
        /\ entry' = [entry EXCEPT ![s] = [phase |-> "ready", rev |-> rev, torn |-> torn]]
        /\ call' = Loaded(s)
    /\ UNCHANGED <<store, current, repairing, session, past>>

Fault == faults < MaxFaults /\ faults' = faults + 1

ReadFails ==
    /\ Runs("read") /\ chain' = Tail(chain) /\ Fault
    /\ LET s == Head(chain).by IN
        /\ current' = IF current = s THEN NoSlot ELSE current
        /\ call' = [c \in Clients |-> IF call[c].slot = s /\ call[c].at = "loading"
                                      THEN Ends(c)[c] ELSE call[c]]
    /\ UNCHANGED <<store, entry, repairing, session, calls, writes, aborts, foreign>>

\* commitPrepared, up to its repair: refuse an owned id, give up a stale
\* source, repair, or hand out the reservation. What load reserves it gives
\* back at once.
Current(s) == entry[s].rev = rev
CommitsFault(s) == TRUE
Commits(s) == Current(s)

RunCommit ==
    /\ Runs("commit") /\ ~repairing
    /\ LET c == Head(chain).by
           s == call[c].slot
       IN  \/ /\ owned
              /\ chain' = Tail(chain) /\ Remove(s, Ends(c))
              /\ UNCHANGED <<entry, repairing>>
           \/ /\ ~owned /\ ~Commits(s)
              /\ chain' = Tail(chain) /\ Remove(s, Loops(c))
              /\ UNCHANGED <<entry, repairing>>
           \/ /\ ~owned /\ Commits(s) /\ entry[s].torn
              /\ repairing' = TRUE
              /\ UNCHANGED <<cache, call, chain>>
           \/ /\ ~owned /\ Commits(s) /\ ~entry[s].torn /\ call[c].op = "prepare"
              /\ chain' = Tail(chain)
              /\ entry' = [entry EXCEPT ![s].phase = "reserved"]
              /\ call' = Moves(c, "reserved")
              /\ UNCHANGED <<current, repairing>>
           \/ /\ ~owned /\ Commits(s) /\ ~entry[s].torn /\ call[c].op = "load"
              /\ chain' = Tail(chain) /\ Remove(s, Ends(c))
              /\ UNCHANGED <<entry, repairing>>
    /\ UNCHANGED <<store, session, past>>

\* The repair is written, and the entry given up for a reload.
RepairDone ==
    /\ repairing /\ repairing' = FALSE
    /\ chain' = Tail(chain)
    /\ rev' = rev + 1 /\ torn' = FALSE
    /\ LET c == Head(chain).by IN Remove(call[c].slot, Loops(c))
    /\ UNCHANGED <<entry, session, past>>

RepairFails ==
    /\ repairing /\ repairing' = FALSE /\ Fault
    /\ chain' = Tail(chain)
    /\ LET c == Head(chain).by IN Remove(call[c].slot, Ends(c))
    /\ UNCHANGED <<store, entry, session, calls, writes, aborts, foreign>>

\* isPreparedSourceCurrent for an inspect, then discardReady: a source that is
\* stale is dropped and read again, unless a reservation retains it.
RunCheck ==
    /\ Runs("check") /\ chain' = Tail(chain)
    /\ LET c == Head(chain).by
           s == call[c].slot
       IN  IF live = "live" \/ Current(s) \/ (current = s /\ entry[s].phase # "ready")
           THEN call' = Ends(c) /\ UNCHANGED current
           ELSE Remove(s, Loops(c))
    /\ UNCHANGED <<store, entry, repairing, session, past>>

-----------------------------------------------------------------------------
(* The live session, and the world outside. *)

Buffered == writes < MaxWrites /\ writes' = writes + 1
Appending == \E i \in DOMAIN chain : chain[i].kind = "append"
Queue(kind, queue) == chain' = Append(queue, [kind |-> kind, by |-> Session])

\* The write-behind of a live session queues a batch.
Write ==
    /\ live = "live" /\ ~Appending /\ Buffered
    /\ Queue("append", chain)
    /\ UNCHANGED <<store, cache, call, repairing, session, calls, faults, aborts, foreign>>

\* retire(): the flush waits for the write it overlaps and drains what is
\* buffered, in as many batches as it takes, then the state is released.
Drains(queue) == \/ Queue("release", queue) /\ UNCHANGED writes
                 \/ Queue("drain", queue) /\ Buffered

Dispose ==
    /\ live = "live" /\ live' = "retiring"
    /\ IF Appending THEN UNCHANGED <<chain, writes>> ELSE Drains(chain)
    /\ UNCHANGED <<store, cache, call, repairing, owned, calls, faults, aborts, foreign>>

\* Whoever waits for the retirement goes on when it is over; its failure is
\* also theirs.
Retired(over) ==
    [c \in Clients |-> IF call[c].at # "retirement" THEN call[c]
                       ELSE IF over THEN [call[c] EXCEPT !.at = "again"] ELSE Idle]

\* appendCore, with the repair state the new end of the log leaves.
RunAppend ==
    /\ (Runs("append") \/ Runs("drain")) /\ ~Reserved
    /\ rev' = rev + 1 /\ torn' \in BOOLEAN
    /\ current' = NoSlot
    /\ IF live = "retiring" THEN Drains(Tail(chain))
       ELSE chain' = Tail(chain) /\ UNCHANGED writes
    /\ UNCHANGED <<entry, call, repairing, session, calls, faults, aborts, foreign>>

\* It meets a reservation, or storage fails: the events stay buffered. The
\* flush of a retirement writes again what a write it overlapped has failed to;
\* a retirement whose own write fails gives up with the id still owned.
AppendFails ==
    /\ Runs("append") \/ Runs("drain")
    /\ IF Reserved THEN UNCHANGED faults ELSE Fault
    /\ IF live = "retiring" /\ Runs("append") THEN Queue("drain", Tail(chain))
       ELSE chain' = Tail(chain)
    /\ IF live = "retiring" /\ Runs("drain") THEN live' = "none" /\ call' = Retired(FALSE)
       ELSE UNCHANGED <<live, call>>
    /\ UNCHANGED <<store, cache, repairing, owned, calls, writes, aborts, foreign>>

RunRelease ==
    /\ Runs("release") /\ chain' = Tail(chain)
    /\ live' = "none" /\ owned' = FALSE /\ call' = Retired(TRUE)
    /\ UNCHANGED <<store, cache, repairing, past>>

\* Another process appends to the log.
ForeignWrite ==
    /\ writes < MaxWrites /\ writes' = writes + 1
    /\ rev' = rev + 1 /\ torn' \in BOOLEAN /\ foreign' = (Phase = "reserved")
    /\ UNCHANGED <<cache, call, work, session, calls, faults, aborts>>

\* Ready sources of other ids fill the cache.
Evict ==
    /\ Phase = "ready" /\ current' = NoSlot
    /\ writes < MaxWrites /\ writes' = writes + 1
    /\ UNCHANGED <<store, entry, call, work, session, calls, faults, aborts, foreign>>

Steps(c) == Enter(c) \/ Reserve(c) \/ Inspect(c)
Holder(c) == Release(c) \/ Publish(c)
Chain == \/ SkipVoid \/ RunRead \/ ReadFails \/ RunCommit \/ RepairDone \/ RepairFails
         \/ RunCheck \/ RunAppend \/ AppendFails \/ RunRelease

Next ==
    \/ \E c \in Clients : Begin(c) \/ Steps(c) \/ Abort(c) \/ Holder(c)
    \/ Chain \/ Write \/ Dispose \/ ForeignWrite \/ Evict

Spec == Init /\ [][Next]_vars

\* Microtasks and queued operations run; a holder publishes or disposes what it
\* holds; storage answers. New calls, writes and cancellations may never come.
FairSpec ==
    /\ Spec
    /\ \A c \in Clients : WF_vars(Steps(c)) /\ WF_vars(Holder(c))
    /\ WF_vars(Chain)

-----------------------------------------------------------------------------
(* Properties. *)

\* Whoever holds a preparation holds the entry of the map, alone, while no
\* session of that id is live or still owns the state, and its source is the
\* stored log as it stands, unless another process wrote after the check. And
\* while the session is live no append of it can meet a reservation.
ReservationIsSound ==
    /\ \A c \in Clients : call[c].at = "reserved" =>
          /\ current = call[c].slot /\ Phase = "reserved"
          /\ \A d \in Clients \ {c} : call[d].at \notin {"commit", "reserved"}
          /\ live = "none" /\ ~owned
          /\ Current(current) \/ foreign
    /\ live = "live" => ~Reserved

\* Every prepare, load and inspect comes back.
CallsEnd == \A c \in Clients : call[c].at # "idle" ~> call[c].at = "idle"
=============================================================================
