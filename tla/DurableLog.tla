----------------------------- MODULE DurableLog -----------------------------
(***************************************************************************)
(* What session persistence promises of one session's log                   *)
(* (session-persistence/README.md, "Invariants every backend must honor"):  *)
(* it is append-only and contiguous, it never runs ahead of the session,    *)
(* and an event whose flush has resolved is in it for good. Only a crash    *)
(* gives events up, and only ones no flush has answered for.                *)
(***************************************************************************)
EXTENDS Naturals, Sequences

VARIABLES log,      \* the events in the log, each named by its place in the session
          accepted, \* number of events the session has accepted
          acked,    \* the last event some resolved flush has answered for
          crashed   \* the process is down, its memory gone

dvars == <<log, accepted, acked, crashed>>

\* The first n events of the session, none missing, repeated or out of order.
First(n) == [i \in 1 .. n |-> i]

Init == log = <<>> /\ accepted \in Nat /\ acked = 0 /\ crashed = FALSE

\* The session accepts an event.
Accept ==
    /\ ~crashed
    /\ accepted' = accepted + 1
    /\ UNCHANGED <<log, acked, crashed>>

\* The next events reach the log, in order.
Persist ==
    /\ \E n \in Len(log) + 1 .. accepted : log' = First(n)
    /\ UNCHANGED <<accepted, acked, crashed>>

\* A flush resolves.
Acknowledge ==
    /\ ~crashed
    /\ acked' >= acked /\ acked' <= Len(log)
    /\ UNCHANGED <<log, accepted, crashed>>

\* Events on their way to the log when the process dies may still be in it.
Crash ==
    /\ \E n \in Len(log) .. accepted : log' = First(n)
    /\ crashed' = TRUE
    /\ UNCHANGED <<accepted, acked>>

\* The session resumes from its log, or starts again from its seed.
Recover ==
    /\ crashed
    /\ crashed' = FALSE
    /\ accepted' \in Nat /\ accepted' >= Len(log)
    /\ UNCHANGED <<log, acked>>

Next == Accept \/ Persist \/ Acknowledge \/ Crash \/ Recover

Spec == Init /\ [][Next]_dvars
=============================================================================
