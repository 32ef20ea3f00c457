------------------------- MODULE PreparationsProofs -------------------------
(***************************************************************************)
(* Theorems about Preparations, for any callers, entries and bounds: its    *)
(* types, and that whoever holds a reservation holds it alone, on the       *)
(* stored log as it stands (ReservationIsSound).                            *)
(***************************************************************************)
EXTENDS Preparations, SequenceTheorems, TLAPS

Entries == [phase : {"free", "loading", "ready", "committing", "reserved"},
            rev : Nat, torn : BOOLEAN]
CallRecords == [op : {"none", "prepare", "load", "inspect"}, at : Places,
                slot : Slots \cup {NoSlot}, aborted : BOOLEAN]
Ops == [kind : {"read", "commit", "check", "append", "drain", "release", "void"},
        by : Authors \cup Slots]

Types ==
    /\ rev \in Nat /\ torn \in BOOLEAN
    /\ entry \in [Slots -> Entries]
    /\ current \in Slots \cup {NoSlot}
    /\ call \in [Clients -> CallRecords]
    /\ chain \in Seq(Ops) /\ repairing \in BOOLEAN
    /\ live \in {"none", "live", "retiring"} /\ owned \in BOOLEAN
    /\ calls \in 0 .. MaxCalls /\ writes \in 0 .. MaxWrites /\ faults \in 0 .. MaxFaults
    /\ aborts \in 0 .. MaxAborts /\ foreign \in BOOLEAN

Cached == {"ready", "committing", "reserved"}

\* What the place of a client says of the entry it stands on. An entry that a
\* client has seen loaded stays loaded for as long as it is in the map.
StandsOn(c) ==
    LET k == call[c] IN
    /\ k.at \in {"loading", "woken", "held", "commit", "check", "reserved"} =>
          k.slot \in Slots \ {NoSlot}
    /\ k.at = "woken" /\ k.slot = current => Phase \in Cached
    /\ k.at = "held" => k.slot = current /\ Reserved
    /\ k.at = "commit" => k.slot = current /\ Phase = "committing"
    /\ k.at = "reserved" =>
          /\ k.slot = current /\ Phase = "reserved" /\ ~ owned
          /\ Current(current) \/ foreign

Holding(c) == call[c].at \in {"commit", "reserved"}

CallsInv ==
    /\ \A c \in Clients : StandsOn(c)
    /\ \A c, d \in Clients : Holding(c) /\ Holding(d) => c = d

\* A live session has its id, and took its entry out of the map.
SessionInv ==
    /\ live # "none" => owned
    /\ live = "live" => current = NoSlot
    /\ current # NoSlot => Phase # "free"

\* A queued operation belongs to an entry that still loads or to a client that
\* waits for it, one each; a repair is the commit at the head of the chain.
Fits(o) ==
    /\ o.kind = "read" => o.by \in Slots \ {NoSlot} /\ (o.by = current => Phase = "loading")
    /\ o.kind \in {"commit", "check"} => o.by \in Clients /\ call[o.by].at = o.kind

Alike(o, p) ==
    o.kind \in {"read", "commit", "check"} /\ o.kind = p.kind /\ o.by = p.by

Distinct(q) == \A i, j \in DOMAIN q : Alike(q[i], q[j]) => i = j

ChainInv ==
    /\ \A i \in DOMAIN chain : Fits(chain[i])
    /\ Distinct(chain)
    /\ repairing => chain # <<>> /\ Head(chain).kind = "commit"

Inv == Types /\ CallsInv /\ SessionInv /\ ChainInv

LEMMA InvTypes == Inv => TypeOK
BY DEF Inv, Types, TypeOK, Entries, CallRecords, Ops, CallsInv, StandsOn

-----------------------------------------------------------------------------
(* The chain as a sequence *)

LEMMA TailOps ==
    ASSUME NEW q \in Seq(Ops), q # <<>>
    PROVE  /\ Tail(q) \in Seq(Ops) /\ Head(q) \in Ops /\ Head(q) = q[1] /\ 1 \in DOMAIN q
           /\ \A i \in DOMAIN Tail(q) : i + 1 \in DOMAIN q \ {1} /\ Tail(q)[i] = q[i + 1]
           /\ \A i \in DOMAIN Tail(q) : i \in Nat
OBVIOUS

LEMMA AppendOps ==
    ASSUME NEW q \in Seq(Ops), NEW o \in Ops
    PROVE  /\ Append(q, o) \in Seq(Ops)
           /\ DOMAIN Append(q, o) = DOMAIN q \cup {Len(q) + 1}
           /\ Append(q, o)[Len(q) + 1] = o
           /\ \A i \in DOMAIN q : i # Len(q) + 1 /\ Append(q, o)[i] = q[i]
           /\ q # <<>> => Append(q, o) # <<>> /\ Head(Append(q, o)) = Head(q)
OBVIOUS

LEMMA DistinctTail ==
    ASSUME NEW q \in Seq(Ops), q # <<>>, Distinct(q)
    PROVE  /\ Distinct(Tail(q))
           /\ \A i \in DOMAIN q \ {1} : ~ Alike(q[i], Head(q))
<1>1. Distinct(Tail(q))
  <2>1. SUFFICES ASSUME NEW i \in DOMAIN Tail(q), NEW j \in DOMAIN Tail(q),
                        Alike(Tail(q)[i], Tail(q)[j])
                 PROVE  i = j
      BY Zenon DEF Distinct
  <2>2. Alike(q[i + 1], q[j + 1]) /\ i + 1 \in DOMAIN q /\ j + 1 \in DOMAIN q
      BY <2>1, TailOps, Zenon
  <2>3. i + 1 = j + 1
      BY <2>2, Zenon DEF Distinct
  <2> QED
      BY <2>3, TailOps
<1>2. \A i \in DOMAIN q \ {1} : ~ Alike(q[i], Head(q))
    BY TailOps, Zenon DEF Distinct
<1> QED
    BY <1>1, <1>2

LEMMA DistinctAppend ==
    ASSUME NEW q \in Seq(Ops), Distinct(q), NEW o \in Ops,
           \A i \in DOMAIN q : ~ Alike(q[i], o)
    PROVE  Distinct(Append(q, o))
<1> SUFFICES ASSUME NEW i \in DOMAIN Append(q, o), NEW j \in DOMAIN Append(q, o),
                    Alike(Append(q, o)[i], Append(q, o)[j])
             PROVE  i = j
    BY Zenon DEF Distinct
<1>1. \A k \in DOMAIN q : ~ Alike(o, q[k])
    BY Zenon DEF Alike
<1>2. /\ DOMAIN Append(q, o) = DOMAIN q \cup {Len(q) + 1}
      /\ Append(q, o)[Len(q) + 1] = o
      /\ \A k \in DOMAIN q : Append(q, o)[k] = q[k]
    BY AppendOps
<1> DEFINE r == Append(q, o)
<1> HIDE DEF r
<1> QED
    BY <1>1, <1>2, Zenon DEF Distinct, r

\* The operations of the chain, and those behind the first of them.
Queued(o) == \E i \in DOMAIN chain : chain[i] = o
Behind(o) == \E i \in DOMAIN chain \ {1} : chain[i] = o

LEMMA QueuedFits == ASSUME Inv, NEW o, Queued(o) PROVE Fits(o)
BY Zenon DEF Inv, ChainInv, Queued

LEMMA BehindFits ==
    ASSUME Inv, chain # <<>>, NEW o, Behind(o)
    PROVE  Fits(o) /\ ~ Alike(o, Head(chain))
BY DistinctTail, Zenon DEF Inv, Types, ChainInv, Behind

LEMMA QueueKept ==
    ASSUME Inv, chain' = chain, \A o \in Ops : Queued(o) => Fits(o)',
           repairing' => chain # <<>> /\ Head(chain).kind = "commit"
    PROVE  ChainInv' /\ chain' \in Seq(Ops)
<1>1. \A i \in DOMAIN chain : chain[i] \in Ops /\ Queued(chain[i])
    BY DEF Inv, Types, Queued
<1>2. \A i \in DOMAIN chain' : Fits(chain[i])'
    BY <1>1
<1> QED
    BY <1>2, Zenon DEF Inv, Types, ChainInv, Distinct

LEMMA QueueTail ==
    ASSUME Inv, chain # <<>>, chain' = Tail(chain), ~ repairing',
           \A o \in Ops : Behind(o) => Fits(o)'
    PROVE  ChainInv' /\ chain' \in Seq(Ops)
<1>1. chain \in Seq(Ops) /\ Distinct(chain)
    BY DEF Inv, Types, ChainInv
<1>2. ASSUME NEW i \in DOMAIN chain'
      PROVE  Fits(chain[i])'
  <2>1. i + 1 \in DOMAIN chain \ {1} /\ chain'[i] = chain[i + 1]
      BY <1>1, <1>2, TailOps
  <2>2. chain[i + 1] \in Ops /\ Behind(chain[i + 1])
      BY <1>1, <2>1 DEF Behind
  <2> QED
      BY <2>1, <2>2
<1>3. Distinct(chain)'
    BY <1>1, DistinctTail DEF Distinct
<1> QED
    BY <1>1, <1>2, <1>3, TailOps DEF ChainInv

LEMMA QueueAppend ==
    ASSUME Inv, NEW p \in Ops, chain' = Append(chain, p), repairing' = repairing,
           \A o \in Ops : Queued(o) => Fits(o)', Fits(p)',
           \A o \in Ops : Queued(o) => ~ Alike(o, p)
    PROVE  ChainInv' /\ chain' \in Seq(Ops)
<1>1. chain \in Seq(Ops) /\ Distinct(chain)
    BY DEF Inv, Types, ChainInv
<1>2. \A i \in DOMAIN chain : chain[i] \in Ops /\ Queued(chain[i])
    BY <1>1 DEF Queued
<1>3. \A i \in DOMAIN chain' : Fits(chain[i])'
  <2>1. ASSUME NEW i \in DOMAIN chain'
        PROVE  chain'[i] = p \/ (i \in DOMAIN chain /\ chain'[i] = chain[i])
      BY <1>1, <2>1, AppendOps
  <2> QED
      BY <1>2, <2>1
<1>4. Distinct(chain)'
    BY <1>1, <1>2, DistinctAppend, Zenon DEF Distinct
<1>5. repairing' => chain' # <<>> /\ Head(chain').kind = "commit"
    BY <1>1, AppendOps, Zenon DEF Inv, ChainInv
<1> QED
    BY <1>1, <1>3, <1>4, <1>5, AppendOps, Zenon DEF ChainInv

\* The drain or the release that follows the write at the head.
LEMMA QueueTurns ==
    ASSUME Inv, chain # <<>>, NEW p \in Ops, p.kind \in {"drain", "release"},
           chain' = Append(Tail(chain), p), ~ repairing',
           \A o \in Ops : Behind(o) => Fits(o)'
    PROVE  ChainInv' /\ chain' \in Seq(Ops)
<1> DEFINE q == Tail(chain)
<1>1. chain \in Seq(Ops) /\ Distinct(chain)
    BY DEF Inv, Types, ChainInv
<1>2. q \in Seq(Ops) /\ Distinct(q)
    BY <1>1, TailOps, DistinctTail
<1>3. ASSUME NEW i \in DOMAIN q
      PROVE  q[i] \in Ops /\ Behind(q[i])
  <2>1. i + 1 \in DOMAIN chain \ {1} /\ q[i] = chain[i + 1]
      BY <1>1, <1>3, TailOps
  <2> QED
      BY <1>2, <2>1 DEF Behind
<1>4. Fits(p)'
    BY DEF Fits
<1> HIDE DEF q
<1>5. chain' = Append(q, p)
    BY DEF q
<1>6. \A i \in DOMAIN chain' : Fits(chain[i])'
  <2>1. ASSUME NEW i \in DOMAIN chain'
        PROVE  chain'[i] = p \/ (i \in DOMAIN q /\ chain'[i] = q[i])
      BY <1>2, <1>5, <2>1, AppendOps
  <2> QED
      BY <1>3, <1>4, <2>1
<1>7. \A i \in DOMAIN q : ~ Alike(q[i], p)
    BY DEF Alike
<1>8. Distinct(chain)'
    BY <1>2, <1>5, <1>7, DistinctAppend, Zenon DEF Distinct
<1> QED
    BY <1>2, <1>5, <1>6, <1>8, AppendOps, Zenon DEF ChainInv

-----------------------------------------------------------------------------
(* What keeps the parts of the invariant *)

\* The entry of the map is given up, or is there as before.
EntryKept ==
    \/ current' = NoSlot
    \/ current' = current /\ (current # NoSlot => entry'[current].phase = entry[current].phase)

Awaits(c) == call[c].at \in {"commit", "check"}

LEMMA FitsKept ==
    ASSUME NEW o, Fits(o), EntryKept,
           o.by \in Clients /\ Awaits(o.by) /\ o.kind = call[o.by].at
              => call'[o.by].at = call[o.by].at
    PROVE  Fits(o)'
<1>1. o.kind \in {"commit", "check"} => o.by \in Clients /\ call'[o.by].at = o.kind
    BY DEF Fits, Awaits
<1>2. o.kind = "read" => o.by \in Slots \ {NoSlot}
    BY DEF Fits
<1>3. ASSUME o.kind = "read", o.by = current'
      PROVE  Phase' = "loading"
  <2>1. current' # NoSlot
      BY <1>2, <1>3
  <2> QED
      BY <1>3, <2>1 DEF Fits, EntryKept, Phase
<1> QED
    BY <1>1, <1>2, <1>3 DEF Fits

\* Where no waiting client moves, no operation of the chain is orphaned.
LEMMA QueuedKept ==
    ASSUME Inv, EntryKept, \A c \in Clients : Awaits(c) => call'[c].at = call[c].at
    PROVE  \A o \in Ops : Queued(o) => Fits(o)'
BY QueuedFits, FitsKept, Zenon

\* The same for those behind the first, when it is client c's.
LEMMA BehindKept ==
    ASSUME Inv, EntryKept, chain # <<>>, NEW c, Head(chain).by = c,
           Head(chain).kind \in {"commit", "check"},
           \A d \in Clients \ {c} : Awaits(d) => call'[d].at = call[d].at
    PROVE  \A o \in Ops : Behind(o) => Fits(o)'
<1> SUFFICES ASSUME NEW o \in Ops, Behind(o)
             PROVE  Fits(o)'
    OBVIOUS
<1>1. chain \in Seq(Ops)
    BY DEF Inv, Types
<1>2. Queued(Head(chain))
    BY <1>1, TailOps DEF Queued
<1>3. Fits(o) /\ ~ Alike(o, Head(chain)) /\ Fits(Head(chain))
    BY <1>2, BehindFits, QueuedFits, Zenon
<1>4. o.kind \in {"commit", "check"} => o.by # c
    BY <1>3 DEF Fits, Alike
<1> QED
    BY <1>3, <1>4, FitsKept DEF Awaits

\* For an operation that is nobody's.
LEMMA BehindStays ==
    ASSUME Inv, EntryKept, chain # <<>>,
           \A c \in Clients : Awaits(c) => call'[c].at = call[c].at
    PROVE  \A o \in Ops : Behind(o) => Fits(o)'
BY BehindFits, FitsKept, Zenon

LEMMA SessionKept ==
    ASSUME Inv, EntryKept, live' = live, owned' = owned
    PROVE  SessionInv'
BY DEF Inv, SessionInv, EntryKept, Phase

LEMMA StandsKept ==
    ASSUME NEW c \in Clients, StandsOn(c), call'[c] = call[c], current' = current,
           current # NoSlot => entry'[current] = entry[current], rev' = rev,
           owned' => owned, foreign => foreign'
    PROVE  StandsOn(c)'
<1>1. Phase' = Phase
    BY DEF Phase
<1>2. current # NoSlot => (Current(current)' <=> Current(current))
    BY DEF Current
<1>3. Reserved' <=> Reserved
    BY <1>1 DEF Reserved
<1> DEFINE k == call[c]
<1>4. k' = k
    OBVIOUS
<1>5. k.at = "reserved" => current # NoSlot
    BY DEF StandsOn
<1> QED
    BY <1>1, <1>2, <1>3, <1>5, Zenon DEF StandsOn

\* A client that waits for nothing in the cache.
Outside == {"idle", "retirement", "again"}

LEMMA StandsOutside ==
    ASSUME NEW c, call'[c].at \in Outside
    PROVE  StandsOn(c)' /\ ~ Holding(c)'
BY DEF Outside, StandsOn, Holding

\* One client moves and the cache and the log are as they were.
LEMMA OneMoves ==
    ASSUME Inv, NEW c \in Clients, NEW x \in CallRecords, call' = [call EXCEPT ![c] = x],
           UNCHANGED <<rev, entry, current>>, owned' => owned, foreign' = foreign,
           StandsOn(c)', Holding(c)' => Holding(c)
    PROVE  /\ CallsInv' /\ call' \in [Clients -> CallRecords] /\ EntryKept
           /\ \A d \in Clients \ {c} : call'[d] = call[d]
           /\ call'[c] = x
<1>1. call \in [Clients -> CallRecords]
    BY DEF Inv, Types
<1>2. /\ \A d \in Clients \ {c} : call'[d] = call[d]
      /\ call'[c] = x /\ call' \in [Clients -> CallRecords]
    BY <1>1
<1>3. \A d \in Clients \ {c} : StandsOn(d)'
    BY <1>2, StandsKept, Zenon DEF Inv, CallsInv
<1>4. \A d \in Clients : Holding(d)' => Holding(d)
    BY <1>2, Zenon DEF Holding
<1> QED
    BY <1>2, <1>3, <1>4, Zenon DEF Inv, CallsInv, EntryKept

\* The entry in the map has a holder or is held for none.
LEMMA HolderHolds ==
    ASSUME Inv, NEW c \in Clients, Holding(c)
    PROVE  /\ current = call[c].slot /\ current \in Slots \ {NoSlot} /\ Reserved
           /\ entry[current].phase = IF call[c].at = "commit" THEN "committing" ELSE "reserved"
           /\ \A d \in Clients \ {c} : ~ Holding(d)
BY DEF Inv, CallsInv, StandsOn, Holding, Phase, Reserved

\* The form of the calls after a loop that begins again or comes to its end.
LEMMA LoopsForm ==
    ASSUME Inv, NEW c \in Clients
    PROVE  /\ \E x \in CallRecords : x.at \in Outside /\ Loops(c) = [call EXCEPT ![c] = x]
           /\ Idle \in CallRecords /\ Idle.at \in Outside
           /\ Ends(c) = [call EXCEPT ![c] = Idle]
<1>1. Idle \in CallRecords /\ Idle.at \in Outside
    BY DEF Idle, CallRecords, Places, Outside
<1>2. CASE call[c].aborted
    BY <1>1, <1>2 DEF Loops, Ends
<1>3. CASE ~ call[c].aborted
  <2> DEFINE x == [call[c] EXCEPT !.at = IF live = "retiring" THEN "retirement" ELSE "again",
                                  !.slot = NoSlot]
  <2>1. x \in CallRecords /\ x.at \in Outside
      BY DEF Inv, Types, CallRecords, Places, Outside
  <2>2. Loops(c) = [call EXCEPT ![c] = x]
      BY <1>3, Zenon DEF Loops
  <2> QED
      BY <1>1, <2>1, <2>2 DEF Ends
<1> QED
    BY <1>2, <1>3

\* Those that a settled reservation lets go on, when client c gives its place up.
LEMMA WokenCalls ==
    ASSUME Inv, NEW c \in Clients, NEW x \in CallRecords, x.at \in Outside,
           call' = Woken(call[c].slot, [call EXCEPT ![c] = x])
    PROVE  /\ call'[c] = x /\ call' \in [Clients -> CallRecords]
           /\ \A d \in Clients \ {c} :
                /\ call'[d].slot = call[d].slot
                /\ call'[d].at = IF call[d].at = "held" /\ call[d].slot = call[c].slot
                                 THEN "woken" ELSE call[d].at
<1> DEFINE those == [call EXCEPT ![c] = x]
<1>1. call \in [Clients -> CallRecords] /\ those \in [Clients -> CallRecords]
    BY DEF Inv, Types
<1>2. call'[c] = x
    BY <1>1 DEF Woken, Outside
<1>3. ASSUME NEW d \in Clients \ {c}
      PROVE  /\ call'[d] \in CallRecords
             /\ call'[d].slot = call[d].slot
             /\ call'[d].at = IF call[d].at = "held" /\ call[d].slot = call[c].slot
                              THEN "woken" ELSE call[d].at
  <2>1. /\ call[d] \in CallRecords
        /\ call'[d] = IF call[d].at = "held" /\ call[d].slot = call[c].slot
                      THEN [call[d] EXCEPT !.at = "woken"] ELSE call[d]
      BY <1>1 DEF Woken
  <2>2. [call[d] EXCEPT !.at = "woken"] \in CallRecords
      BY <2>1 DEF CallRecords, Places
  <2> QED
      BY <2>1, <2>2 DEF CallRecords
<1>4. call' = [d \in Clients |-> call'[d]]
    BY DEF Woken
<1>5. \A d \in Clients : call'[d] \in CallRecords
    BY <1>2, <1>3
<1> QED
    BY <1>2, <1>3, <1>4, <1>5, Zenon

\* remove() on behalf of client c, who gives up its place: what it held is
\* gone with the entry, or the entry was reserved for nobody.
LEMMA Drop ==
    ASSUME Inv, NEW c \in Clients, NEW x \in CallRecords, x.at \in Outside,
           Remove(call[c].slot, [call EXCEPT ![c] = x]),
           \/ Holding(c)
           \/ /\ UNCHANGED <<rev, entry>> /\ owned' = owned /\ foreign' = foreign
              /\ current = call[c].slot => ~ Reserved
    PROVE  /\ CallsInv' /\ call' \in [Clients -> CallRecords] /\ EntryKept
           /\ current' \in Slots \cup {NoSlot}
           /\ \A d \in Clients \ {c} : Awaits(d) => call'[d].at = call[d].at
           /\ call'[c].at \in Outside
           /\ Holding(c) => current' = NoSlot
<1> DEFINE s     == call[c].slot
           those == [call EXCEPT ![c] = x]
<1>1. /\ call \in [Clients -> CallRecords] /\ current \in Slots \cup {NoSlot}
      /\ those \in [Clients -> CallRecords]
    BY DEF Inv, Types
<1>2. /\ current' = IF current = s THEN NoSlot ELSE current
      /\ call' = IF current = s THEN Woken(s, those) ELSE those
    BY DEF Remove
<1>3. Holding(c) => current = s
    BY HolderHolds
<1>4. CASE current = s
  <2>1. /\ current' = NoSlot
        /\ call' = Woken(s, those)
      BY <1>2, <1>4
  <2>2. /\ call'[c] = x /\ call' \in [Clients -> CallRecords]
        /\ \A d \in Clients \ {c} :
              /\ call'[d].slot = call[d].slot
              /\ call'[d].at = IF call[d].at = "held" /\ call[d].slot = s THEN "woken"
                               ELSE call[d].at
    <3>1. call' = Woken(call[c].slot, [call EXCEPT ![c] = x])
        BY <2>1
    <3> QED
        BY <3>1, WokenCalls, Zenon
  <2>6. ASSUME NEW d \in Clients \ {c}
        PROVE  StandsOn(d)' /\ ~ Holding(d)'
    <3>1. StandsOn(d)
        BY DEF Inv, CallsInv
    <3>2. ~ Holding(d)
      <4>1. CASE Holding(c)
          BY <4>1, HolderHolds
      <4>2. CASE ~ Reserved
          BY <4>2, HolderHolds
      <4> QED
          BY <1>4, <4>1, <4>2
    <3>3. call'[d].at # "held"
        BY <1>4, <2>2, <3>1 DEF StandsOn
    <3>4. call'[d].at \notin {"commit", "reserved"}
        BY <2>2, <3>2 DEF Holding
    <3>5. call'[d].at \in {"loading", "woken", "check"} => call[d].slot \in Slots \ {NoSlot}
        BY <2>2, <3>1 DEF StandsOn
    <3> QED
        BY <2>1, <2>2, <3>3, <3>4, <3>5 DEF StandsOn, Holding
  <2>7. StandsOn(c)' /\ ~ Holding(c)'
      BY <2>2, StandsOutside
  <2>8. CallsInv'
      BY <2>6, <2>7, Zenon DEF CallsInv
  <2> QED
      BY <2>1, <2>2, <2>8 DEF EntryKept, Awaits
<1>5. CASE current # s
  <2>1. UNCHANGED <<rev, entry, current>> /\ owned' = owned /\ foreign' = foreign
      BY <1>2, <1>3, <1>5
  <2>2. call' = [call EXCEPT ![c] = x]
      BY <1>2, <1>5
  <2>3. call'[c] = x
      BY <1>1, <2>2
  <2>4. StandsOn(c)' /\ ~ Holding(c)'
      BY <2>3, StandsOutside
  <2>5. /\ CallsInv' /\ call' \in [Clients -> CallRecords] /\ EntryKept
        /\ \A d \in Clients \ {c} : call'[d] = call[d]
      BY <2>1, <2>2, <2>4, OneMoves, Zenon
  <2> QED
      BY <1>1, <1>3, <1>5, <2>1, <2>3, <2>5
<1> QED
    BY <1>4, <1>5

-----------------------------------------------------------------------------
(* Calls *)

\* One client moves, waits for no queued operation before or after, and the
\* rest of the state is as it was, counters and histories apart.
LEMMA LoneStep ==
    ASSUME Inv, NEW c \in Clients, NEW x \in CallRecords, call' = [call EXCEPT ![c] = x],
           UNCHANGED <<store, cache, work, session, foreign>>, StandsOn(c)',
           ~ Awaits(c), Holding(c)' => Holding(c),
           calls' \in 0 .. MaxCalls, writes' \in 0 .. MaxWrites,
           faults' \in 0 .. MaxFaults, aborts' \in 0 .. MaxAborts
    PROVE  Inv'
<1>1. UNCHANGED <<rev, torn, entry, current, chain, repairing, live, owned, foreign>>
    BY Zenon DEF store, cache, work, session
<1>2. /\ CallsInv' /\ call' \in [Clients -> CallRecords] /\ EntryKept
      /\ \A d \in Clients \ {c} : call'[d] = call[d]
    BY <1>1, OneMoves, Zenon
<1>3. \A d \in Clients : Awaits(d) => call'[d].at = call[d].at
    BY <1>2
<1>4. ChainInv' /\ chain' \in Seq(Ops)
    BY <1>1, <1>2, <1>3, QueuedKept, QueueKept, Zenon DEF Inv, ChainInv
<1>5. SessionInv'
    BY <1>1, <1>2, SessionKept
<1> QED
    BY <1>1, <1>2, <1>4, <1>5, Zenon DEF Inv, Types

LEMMA BeginStep ==
    ASSUME Inv, NEW c \in Clients, Begin(c)
    PROVE  Inv'
<1>1. PICK op \in {"prepare", "load", "inspect"} :
          call' = [call EXCEPT ![c] = [@ EXCEPT !.op = op,
                      !.at = IF live = "retiring" THEN "retirement" ELSE "again"]]
    BY Zenon DEF Begin
<1> DEFINE x == [call[c] EXCEPT !.op = op,
                    !.at = IF live = "retiring" THEN "retirement" ELSE "again"]
<1>2. call \in [Clients -> CallRecords] /\ calls \in 0 .. MaxCalls
    BY DEF Inv, Types
<1>3. x \in CallRecords /\ x.at \in Outside
    BY <1>2 DEF CallRecords, Places, Outside
<1>4. call' = [call EXCEPT ![c] = x]
    BY <1>1, Zenon
<1>5. call'[c].at \in Outside
    BY <1>2, <1>3, <1>4
<1>6. StandsOn(c)' /\ ~ Holding(c)'
    BY <1>5, StandsOutside
<1>7. ~ Awaits(c)
    BY DEF Begin, Awaits
<1>8. /\ UNCHANGED <<store, cache, work, session, foreign, writes, faults, aborts>>
      /\ calls' \in 0 .. MaxCalls
    BY <1>2, Assumptions DEF Begin
<1> HIDE DEF x
<1> QED
    BY <1>3, <1>4, <1>6, <1>7, <1>8, LoneStep, Zenon DEF Inv, Types

LEMMA EnterStep ==
    ASSUME Inv, NEW c \in Clients, Enter(c)
    PROVE  Inv'
<1>1. /\ call[c].at = "again" /\ UNCHANGED <<store, repairing, session, past>>
      /\ call \in [Clients -> CallRecords] /\ chain \in Seq(Ops)
      /\ entry \in [Slots -> Entries]
    BY DEF Enter, Inv, Types
<1>2. ~ Awaits(c)
    BY <1>1 DEF Awaits
<1>3. CASE live = "live"
  <2>1. /\ call' = Ends(c) /\ UNCHANGED <<cache, chain>>
      BY <1>3, Zenon DEF Enter
  <2>2. Idle \in CallRecords /\ Idle.at \in Outside /\ call' = [call EXCEPT ![c] = Idle]
      BY <2>1, LoopsForm
  <2>3. call'[c].at \in Outside
      BY <1>1, <2>2
  <2>4. StandsOn(c)' /\ ~ Holding(c)'
      BY <2>3, StandsOutside
  <2> QED
      BY <1>1, <1>2, <2>1, <2>2, <2>4, LoneStep, Zenon DEF Inv, Types, work, past
<1>4. CASE live # "live" /\ current # NoSlot
  <2> DEFINE x == [call[c] EXCEPT !.slot = current,
                      !.at = IF Phase = "loading" THEN "loading" ELSE "woken"]
  <2>1. call' = [call EXCEPT ![c] = x] /\ UNCHANGED <<cache, chain>>
      BY <1>4, Zenon DEF Enter
  <2>2. current \in Slots \ {NoSlot}
      BY <1>4 DEF Inv, Types
  <2>3. x \in CallRecords /\ x.slot = current
        /\ x.at = IF Phase = "loading" THEN "loading" ELSE "woken"
      BY <1>1, <2>2 DEF CallRecords, Places
  <2>4. Phase = "loading" \/ Phase \in Cached
      BY <1>1, <1>4, <2>2 DEF Inv, SessionInv, Phase, Entries, Cached
  <2> HIDE DEF x
  <2>5. call'[c] = x /\ current' = current /\ Phase' = Phase
      BY <1>1, <2>1 DEF cache, Phase
  <2>6. StandsOn(c)'
      BY <2>2, <2>3, <2>4, <2>5 DEF StandsOn
  <2>7. ~ Holding(c)'
      BY <2>3, <2>5 DEF Holding
  <2> QED
      BY <1>1, <1>2, <2>1, <2>3, <2>6, <2>7, LoneStep, Zenon DEF Inv, Types, work, past
<1>5. CASE live # "live" /\ current = NoSlot
  <2>1. \E t \in Slots : t \notin Referenced
      BY <1>5 DEF Enter
  <2>2. PICK s \in Slots :
          /\ s \notin Referenced /\ current' = s
          /\ entry' = [t \in Slots |-> IF t = s THEN [Free EXCEPT !.phase = "loading"]
                                       ELSE IF t \in Referenced THEN entry[t] ELSE Free]
          /\ chain' = Append(chain, [kind |-> "read", by |-> s])
          /\ call' = [call EXCEPT ![c] = [@ EXCEPT !.slot = s, !.at = "loading"]]
      BY <1>5, <2>1, Zenon DEF Enter
  <2> DEFINE p == [kind |-> "read", by |-> s]
             x == [call[c] EXCEPT !.slot = s, !.at = "loading"]
  <2>3. /\ s # NoSlot
        /\ \A d \in Clients : call[d].slot # s
        /\ \A i \in DOMAIN chain : chain[i].by # s
      BY <1>5, <2>2, Zenon DEF Referenced
  <2>4. x \in CallRecords /\ x.at = "loading" /\ x.slot = s /\ call' = [call EXCEPT ![c] = x]
      BY <1>1, <2>2 DEF CallRecords, Places
  <2>5. p \in Ops /\ p.kind = "read" /\ p.by = s /\ chain' = Append(chain, p)
      BY <2>2 DEF Ops
  <2>6. entry' \in [Slots -> Entries] /\ entry'[s].phase = "loading"
      BY <1>1, <2>2 DEF Entries, Free
  <2> HIDE DEF p, x
  <2>7. /\ call'[c] = x /\ call' \in [Clients -> CallRecords]
        /\ \A d \in Clients \ {c} : call'[d] = call[d]
      BY <1>1, <2>2, <2>4
  <2>8. Phase' = "loading"
      BY <2>2, <2>3, <2>6 DEF Phase
  <2>9. ASSUME NEW d \in Clients
        PROVE  StandsOn(d)' /\ ~ Holding(d)'
    <3>1. CASE d = c
        BY <2>2, <2>3, <2>4, <2>7, <3>1 DEF StandsOn, Holding
    <3>2. CASE d # c
      <4>1. StandsOn(d) /\ call'[d] = call[d] /\ call[d].slot # s
          BY <2>3, <2>7, <3>2 DEF Inv, CallsInv
      <4>2. call[d].at \notin {"held", "commit", "reserved"}
          BY <1>5, <4>1 DEF StandsOn
      <4> QED
          BY <2>2, <4>1, <4>2 DEF StandsOn, Holding
    <3> QED
        BY <3>1, <3>2
  <2>10. CallsInv'
      BY <2>9, Zenon DEF CallsInv
  <2>11. ASSUME NEW o \in Ops, Queued(o)
         PROVE  Fits(o)' /\ ~ Alike(o, p)
    <3>1. Fits(o) /\ o.by # s
        BY <2>3, <2>11, QueuedFits, Zenon DEF Queued
    <3>2. o.kind \in {"commit", "check"} => call'[o.by].at = o.kind
        BY <1>1, <2>7, <3>1 DEF Fits
    <3> QED
        BY <2>2, <2>5, <3>1, <3>2 DEF Fits, Alike
  <2>12. Fits(p)'
      BY <2>2, <2>3, <2>5, <2>8 DEF Fits
  <2>13. ChainInv' /\ chain' \in Seq(Ops)
      BY <1>1, <2>2, <2>5, <2>11, <2>12, QueueAppend, Zenon
  <2>14. SessionInv'
      BY <1>1, <1>5, <2>8 DEF Inv, SessionInv, session
  <2> QED
      BY <1>1, <2>2, <2>6, <2>7, <2>10, <2>13, <2>14 DEF Inv, Types, store, session, past
<1> QED
    BY <1>3, <1>4, <1>5

\* A client that is past its result stands on an entry of the map that is
\* cached, or on one that has gone.
LEMMA WokenStands ==
    ASSUME Inv, NEW c \in Clients, call[c].at = "woken"
    PROVE  /\ call[c].slot \in Slots \ {NoSlot} /\ call[c] \in CallRecords
           /\ ~ Awaits(c) /\ ~ Holding(c)
           /\ current = call[c].slot =>
                 Phase = entry[current].phase /\ Phase \in Cached
BY DEF Inv, Types, CallsInv, StandsOn, Awaits, Holding, Phase

LEMMA ReserveStep ==
    ASSUME Inv, NEW c \in Clients, Reserve(c)
    PROVE  Inv'
<1> DEFINE s == call[c].slot
<1>1. /\ call[c].at = "woken" /\ UNCHANGED <<store, current, repairing, session, past>>
      /\ call \in [Clients -> CallRecords] /\ chain \in Seq(Ops)
      /\ entry \in [Slots -> Entries]
    BY DEF Reserve, Inv, Types
<1>2. /\ s \in Slots \ {NoSlot} /\ call[c] \in CallRecords /\ ~ Awaits(c) /\ ~ Holding(c)
      /\ current = s => Phase = entry[current].phase /\ Phase \in Cached
    BY <1>1, WokenStands
<1>3. CASE current # s
  <2>1. /\ call' = Loops(c) /\ UNCHANGED <<entry, chain>>
      BY <1>3, Zenon DEF Reserve
  <2>2. PICK x \in CallRecords : x.at \in Outside /\ call' = [call EXCEPT ![c] = x]
      BY <2>1, LoopsForm
  <2>3. call'[c].at \in Outside
      BY <1>1, <2>2
  <2>4. StandsOn(c)' /\ ~ Holding(c)'
      BY <2>3, StandsOutside
  <2> QED
      BY <1>1, <1>2, <2>1, <2>2, <2>4, LoneStep, Zenon DEF Inv, Types, cache, work, past
<1>4. CASE current = s /\ MustWait(s)
  <2> DEFINE x == [call[c] EXCEPT !.at = "held"]
  <2>1. call' = [call EXCEPT ![c] = x] /\ UNCHANGED <<entry, chain>>
      BY <1>4, Zenon DEF Reserve, Moves
  <2>2. x \in CallRecords /\ x.at = "held" /\ x.slot = s
      BY <1>2 DEF CallRecords, Places
  <2> HIDE DEF x
  <2>3. call'[c] = x /\ current' = current /\ Phase' = Phase
      BY <1>1, <2>1 DEF Phase
  <2>4. Phase \in {"committing", "reserved"}
      BY <1>2, <1>4 DEF MustWait, Cached
  <2>5. StandsOn(c)' /\ ~ Holding(c)'
      BY <1>2, <1>4, <2>2, <2>3, <2>4 DEF StandsOn, Holding, Reserved
  <2> QED
      BY <1>1, <1>2, <2>1, <2>2, <2>5, LoneStep, Zenon DEF Inv, Types, cache, work, past
<1>5. CASE current = s /\ ~ MustWait(s)
  <2> DEFINE x == [call[c] EXCEPT !.at = "commit"]
             p == [kind |-> "commit", by |-> c]
  <2>1. /\ entry' = [entry EXCEPT ![s].phase = "committing"]
        /\ chain' = Append(chain, p) /\ call' = [call EXCEPT ![c] = x]
      BY <1>5, Zenon DEF Reserve, Moves
  <2>2. x \in CallRecords /\ x.at = "commit" /\ x.slot = s
      BY <1>2 DEF CallRecords, Places
  <2>3. p \in Ops /\ p.kind = "commit" /\ p.by = c
      BY DEF Ops, Authors
  <2> HIDE DEF x, p
  <2>4. /\ call'[c] = x /\ call' \in [Clients -> CallRecords]
        /\ \A d \in Clients \ {c} : call'[d] = call[d]
      BY <1>1, <2>1, <2>2
  <2>5. Phase = "ready" /\ ~ Reserved
      BY <1>2, <1>5 DEF MustWait, Reserved
  <2>6. entry' \in [Slots -> Entries] /\ Phase' = "committing"
      BY <1>1, <1>2, <1>5, <2>1 DEF Entries, Phase
  <2>7. ASSUME NEW d \in Clients \ {c}
        PROVE  StandsOn(d)' /\ ~ Holding(d)'
    <3>1. StandsOn(d) /\ call'[d] = call[d]
        BY <2>4 DEF Inv, CallsInv
    <3>2. call[d].at \notin {"held", "commit", "reserved"}
        BY <2>5, <3>1 DEF StandsOn, Reserved
    <3> QED
        BY <1>1, <2>6, <3>1, <3>2 DEF StandsOn, Holding, Cached
  <2>8. StandsOn(c)'
      BY <1>1, <1>2, <1>5, <2>2, <2>4, <2>6 DEF StandsOn
  <2>9. CallsInv'
      BY <2>7, <2>8, Zenon DEF CallsInv
  <2>10. ASSUME NEW o \in Ops, Queued(o)
         PROVE  Fits(o)' /\ ~ Alike(o, p)
    <3>1. Fits(o)
        BY <2>10, QueuedFits, Zenon
    <3>2. o.kind \in {"commit", "check"} => o.by # c /\ call'[o.by].at = o.kind
        BY <1>1, <2>4, <3>1 DEF Fits
    <3>3. o.kind = "read" => o.by # current
        BY <2>5, <3>1 DEF Fits
    <3> QED
        BY <1>1, <2>3, <3>1, <3>2, <3>3 DEF Fits, Alike
  <2>11. Fits(p)'
      BY <2>2, <2>3, <2>4 DEF Fits
  <2>12. ChainInv' /\ chain' \in Seq(Ops)
      BY <1>1, <2>1, <2>3, <2>10, <2>11, QueueAppend, Zenon
  <2>13. SessionInv'
      BY <1>1, <2>6 DEF Inv, SessionInv, session
  <2> QED
      BY <1>1, <2>4, <2>6, <2>9, <2>12, <2>13 DEF Inv, Types, store, session, past
<1> QED
    BY <1>3, <1>4, <1>5

LEMMA InspectStep ==
    ASSUME Inv, NEW c \in Clients, Inspect(c)
    PROVE  Inv'
<1>1. /\ call[c].at = "woken" /\ UNCHANGED <<store, cache, repairing, session, past>>
      /\ call \in [Clients -> CallRecords] /\ chain \in Seq(Ops)
    BY DEF Inspect, Inv, Types
<1>2. call[c].slot \in Slots \ {NoSlot} /\ call[c] \in CallRecords /\ ~ Awaits(c)
    BY <1>1, WokenStands
<1>3. CASE live = "live"
  <2>1. call' = Ends(c) /\ UNCHANGED chain
      BY <1>3, Zenon DEF Inspect
  <2>2. Idle \in CallRecords /\ Idle.at \in Outside /\ call' = [call EXCEPT ![c] = Idle]
      BY <2>1, LoopsForm
  <2>3. call'[c].at \in Outside
      BY <1>1, <2>2
  <2>4. StandsOn(c)' /\ ~ Holding(c)'
      BY <2>3, StandsOutside
  <2> QED
      BY <1>1, <1>2, <2>1, <2>2, <2>4, LoneStep, Zenon DEF Inv, Types, work, past
<1>4. CASE live # "live"
  <2> DEFINE x == [call[c] EXCEPT !.at = "check"]
             p == [kind |-> "check", by |-> c]
  <2>1. chain' = Append(chain, p) /\ call' = [call EXCEPT ![c] = x]
      BY <1>4, Zenon DEF Inspect, Moves
  <2>2. x \in CallRecords /\ x.at = "check" /\ x.slot = call[c].slot
      BY <1>2 DEF CallRecords, Places
  <2>3. p \in Ops /\ p.kind = "check" /\ p.by = c
      BY DEF Ops, Authors
  <2> HIDE DEF x, p
  <2>4. call'[c] = x
      BY <1>1, <2>1
  <2>5. StandsOn(c)' /\ ~ Holding(c)'
      BY <1>2, <2>2, <2>4 DEF StandsOn, Holding
  <2>6. /\ CallsInv' /\ call' \in [Clients -> CallRecords] /\ EntryKept
        /\ \A d \in Clients \ {c} : call'[d] = call[d]
      BY <1>1, <2>1, <2>2, <2>5, OneMoves, Zenon DEF store, cache, session, past
  <2>7. \A o \in Ops : Queued(o) => Fits(o)'
      BY <1>2, <2>6, QueuedKept, Zenon
  <2>8. \A o \in Ops : Queued(o) => ~ Alike(o, p)
      BY <1>1, <2>3, QueuedFits DEF Fits, Alike
  <2>9. Fits(p)'
      BY <2>2, <2>3, <2>4 DEF Fits
  <2>10. ChainInv' /\ chain' \in Seq(Ops)
      BY <1>1, <2>1, <2>3, <2>7, <2>8, <2>9, QueueAppend, Zenon
  <2>11. SessionInv'
      BY <1>1, <2>6, SessionKept DEF session
  <2> QED
      BY <1>1, <2>6, <2>10, <2>11, Zenon DEF Inv, Types, store, cache, session, past
<1> QED
    BY <1>3, <1>4

\* The operations of client c, skipped when their turn comes.
LEMMA QueueVoid ==
    ASSUME Inv, NEW c \in Clients, repairing' = repairing,
           chain' = [i \in DOMAIN chain |-> IF chain[i].by = c
                                            THEN [chain[i] EXCEPT !.kind = "void"]
                                            ELSE chain[i]],
           ~ (repairing /\ Head(chain).by = c),
           \A o \in Ops : Queued(o) /\ o.by # c => Fits(o)'
    PROVE  ChainInv' /\ chain' \in Seq(Ops)
<1>1. chain \in Seq(Ops)
    BY DEF Inv, Types
<1>2. ASSUME NEW i \in DOMAIN chain
      PROVE  /\ chain[i] \in Ops /\ Queued(chain[i])
             /\ chain'[i] = IF chain[i].by = c THEN [chain[i] EXCEPT !.kind = "void"]
                            ELSE chain[i]
    BY <1>1 DEF Queued
<1>3. ASSUME NEW i \in DOMAIN chain
      PROVE  chain'[i] \in Ops /\ (chain'[i].kind = "void" \/ chain'[i] = chain[i])
    BY <1>2 DEF Ops
<1>4. DOMAIN chain' = DOMAIN chain /\ Len(chain) \in Nat /\ DOMAIN chain = 1 .. Len(chain)
    BY <1>1
<1>5. chain' \in Seq(Ops)
  <2>1. chain' = [i \in 1 .. Len(chain) |-> chain'[i]]
      BY <1>4
  <2>2. \A i \in 1 .. Len(chain) : chain'[i] \in Ops
      BY <1>3, <1>4
  <2> QED
      BY <1>4, <2>1, <2>2, IsASeq
<1>6. ASSUME NEW i \in DOMAIN chain'
      PROVE  Fits(chain[i])'
  <2>1. i \in DOMAIN chain
      BY <1>4
  <2>2. CASE chain[i].by = c
    <3>1. chain'[i].kind = "void"
        BY <1>2, <2>1, <2>2 DEF Ops
    <3> QED
        BY <3>1 DEF Fits
  <2>3. CASE chain[i].by # c
    <3>1. chain'[i] = chain[i]
        BY <1>2, <2>1, <2>3
    <3>2. chain[i] \in Ops /\ Queued(chain[i])
        BY <1>2, <2>1
    <3> QED
        BY <2>3, <3>1, <3>2
  <2> QED
      BY <2>2, <2>3
<1>7. Distinct(chain)'
  <2>1. SUFFICES ASSUME NEW i \in DOMAIN chain, NEW j \in DOMAIN chain,
                        Alike(chain'[i], chain'[j])
                 PROVE  i = j
      BY <1>4, Zenon DEF Distinct
  <2>2. chain'[i] = chain[i] /\ chain'[j] = chain[j]
      BY <1>3, <2>1 DEF Alike
  <2> QED
      BY <2>1, <2>2, Zenon DEF Inv, ChainInv, Distinct
<1>8. repairing => chain' # <<>> /\ Head(chain').kind = "commit"
  <2>1. SUFFICES ASSUME repairing
                 PROVE  chain' # <<>> /\ Head(chain').kind = "commit"
      OBVIOUS
  <2>2. chain # <<>> /\ Head(chain).kind = "commit" /\ Head(chain).by # c
      BY <2>1, Zenon DEF Inv, ChainInv
  <2>3. Head(chain) = chain[1] /\ 1 \in DOMAIN chain
      BY <1>1, <2>2
  <2>4. chain'[1] = chain[1]
      BY <1>2, <2>2, <2>3
  <2> QED
      BY <1>4, <1>5, <2>2, <2>3, <2>4
<1> QED
    BY <1>5, <1>6, <1>7, <1>8 DEF ChainInv

LEMMA AbortStep ==
    ASSUME Inv, NEW c \in Clients, Abort(c)
    PROVE  Inv'
<1> DEFINE begun == repairing /\ Head(chain).by = c
<1>1. /\ UNCHANGED <<store, entry, repairing, session, calls, writes, faults, foreign>>
      /\ call \in [Clients -> CallRecords] /\ chain \in Seq(Ops) /\ call[c] \in CallRecords
    BY DEF Abort, Inv, Types
<1>2. aborts' \in 0 .. MaxAborts
    BY Assumptions DEF Abort, Inv, Types
<1>3. CASE begun
  <2> DEFINE x == [call[c] EXCEPT !.aborted = TRUE]
  <2>1. call' = [call EXCEPT ![c] = x] /\ UNCHANGED <<current, chain>>
      BY <1>3, Zenon DEF Abort
  <2>2. x \in CallRecords /\ x.at = call[c].at /\ x.slot = call[c].slot
      BY <1>1 DEF CallRecords
  <2> HIDE DEF x
  <2>3. call'[c] = x /\ Phase' = Phase /\ rev' = rev /\ owned' = owned
      BY <1>1, <2>1 DEF store, session, Phase
  <2>4. StandsOn(c)
      BY DEF Inv, CallsInv
  <2>5. Reserved' = Reserved
      BY <2>3 DEF Reserved
  <2>6. Current(current)' = Current(current)
      BY <1>1, <2>1, <2>3 DEF Current
  <2>7. StandsOn(c)' /\ (Holding(c)' => Holding(c))
      BY <1>1, <2>1, <2>2, <2>3, <2>4, <2>5, <2>6 DEF StandsOn, Holding
  <2>8. /\ CallsInv' /\ call' \in [Clients -> CallRecords] /\ EntryKept
        /\ \A d \in Clients \ {c} : call'[d] = call[d]
      BY <1>1, <2>1, <2>2, <2>3, <2>7, OneMoves, Zenon
  <2>9. \A d \in Clients : Awaits(d) => call'[d].at = call[d].at
      BY <2>2, <2>3, <2>8
  <2>10. ChainInv' /\ chain' \in Seq(Ops)
      BY <1>1, <2>1, <2>8, <2>9, QueuedKept, QueueKept, Zenon DEF Inv, ChainInv
  <2>11. SessionInv'
      BY <1>1, <2>8, SessionKept DEF session
  <2> QED
      BY <1>1, <1>2, <2>1, <2>8, <2>10, <2>11, Zenon DEF Inv, Types, store, session
<1>4. CASE ~ begun
  <2>1. /\ IF call[c].at = "commit" THEN Remove(call[c].slot, Ends(c))
           ELSE call' = Ends(c) /\ UNCHANGED current
        /\ chain' = [i \in DOMAIN chain |-> IF i \in {k \in DOMAIN chain : chain[k].by = c}
                                            THEN [chain[i] EXCEPT !.kind = "void"]
                                            ELSE chain[i]]
      BY <1>4, Zenon DEF Abort
  <2>2. chain' = [i \in DOMAIN chain |-> IF chain[i].by = c
                                         THEN [chain[i] EXCEPT !.kind = "void"]
                                         ELSE chain[i]]
      BY <2>1
  <2>3. Idle \in CallRecords /\ Idle.at \in Outside /\ Ends(c) = [call EXCEPT ![c] = Idle]
      BY LoopsForm
  <2>4. /\ CallsInv' /\ call' \in [Clients -> CallRecords] /\ EntryKept
        /\ current' \in Slots \cup {NoSlot}
        /\ \A d \in Clients \ {c} : Awaits(d) => call'[d].at = call[d].at
    <3>1. CASE call[c].at = "commit"
      <4>1. Holding(c)
          BY <3>1 DEF Holding
      <4>2. Remove(call[c].slot, [call EXCEPT ![c] = Idle])
          BY <2>1, <2>3, <3>1
      <4> QED
          BY <2>3, <4>1, <4>2, Drop, Zenon
    <3>2. CASE call[c].at # "commit"
      <4>1. call' = [call EXCEPT ![c] = Idle] /\ current' = current
          BY <2>1, <2>3, <3>2
      <4>2. call'[c].at \in Outside
          BY <1>1, <2>3, <4>1
      <4>3. StandsOn(c)' /\ ~ Holding(c)'
          BY <4>2, StandsOutside
      <4>4. /\ CallsInv' /\ call' \in [Clients -> CallRecords] /\ EntryKept
            /\ \A d \in Clients \ {c} : call'[d] = call[d]
          BY <1>1, <2>3, <4>1, <4>3, OneMoves, Zenon DEF store, session
      <4> QED
          BY <4>1, <4>4 DEF Inv, Types
    <3> QED
        BY <3>1, <3>2
  <2>5. \A o \in Ops : Queued(o) /\ o.by # c => Fits(o)'
      BY <2>4, QueuedFits, FitsKept, Zenon
  <2>6. ChainInv' /\ chain' \in Seq(Ops)
      BY <1>1, <1>4, <2>2, <2>5, QueueVoid, Zenon
  <2>7. SessionInv'
      BY <1>1, <2>4, SessionKept DEF session
  <2> QED
      BY <1>1, <1>2, <2>4, <2>6, <2>7, Zenon DEF Inv, Types, store, session
<1> QED
    BY <1>3, <1>4

\* The entry goes back to the cache: nobody holds it any more.
LEMMA MakeReadyStep ==
    ASSUME Inv, NEW c \in Clients, call[c].at = "reserved", MakeReady(call[c].slot, Ends(c)),
           UNCHANGED <<rev, owned>>
    PROVE  /\ CallsInv' /\ call' \in [Clients -> CallRecords]
           /\ \A d \in Clients : Awaits(d) => call'[d].at = call[d].at
           /\ current' = current /\ current # NoSlot /\ Phase' = "ready"
           /\ entry' \in [Slots -> Entries] /\ Phase # "loading"
<1> DEFINE s == call[c].slot
<1>1. /\ current = s /\ current \in Slots \ {NoSlot} /\ Reserved /\ Phase # "loading"
      /\ \A d \in Clients \ {c} : ~ Holding(d)
    BY HolderHolds DEF Holding, Reserved
<1>2. /\ entry' = [entry EXCEPT ![s].phase = "ready"] /\ current' = current
      /\ call' = Woken(s, Ends(c))
    BY DEF MakeReady
<1>3. entry' \in [Slots -> Entries] /\ Phase' = "ready"
    BY <1>1, <1>2 DEF Inv, Types, Entries, Phase
<1>4. Idle \in CallRecords /\ Idle.at \in Outside /\ Ends(c) = [call EXCEPT ![c] = Idle]
    BY LoopsForm
<1>5. call' = Woken(call[c].slot, [call EXCEPT ![c] = Idle])
    BY <1>2, <1>4
<1>6. /\ call'[c] = Idle /\ call' \in [Clients -> CallRecords]
      /\ \A d \in Clients \ {c} :
            /\ call'[d].slot = call[d].slot
            /\ call'[d].at = IF call[d].at = "held" /\ call[d].slot = call[c].slot
                             THEN "woken" ELSE call[d].at
    BY <1>4, <1>5, WokenCalls, Zenon
<1>7. StandsOn(c)' /\ ~ Holding(c)'
    BY <1>4, <1>6, StandsOutside
<1>8. ASSUME NEW d \in Clients \ {c}
      PROVE  StandsOn(d)' /\ ~ Holding(d)'
  <2>1. StandsOn(d) /\ ~ Holding(d)
      BY <1>1 DEF Inv, CallsInv
  <2>2. call'[d].at # "held"
      BY <1>1, <1>6, <2>1 DEF StandsOn
  <2>3. call'[d].at \notin {"commit", "reserved"}
      BY <1>6, <2>1 DEF Holding
  <2>4. call'[d].at \in {"loading", "woken", "check"} => call[d].slot \in Slots \ {NoSlot}
      BY <1>6, <2>1 DEF StandsOn
  <2> QED
      BY <1>3, <1>6, <2>2, <2>3, <2>4 DEF StandsOn, Holding, Cached
<1>9. CallsInv'
    BY <1>7, <1>8, Zenon DEF CallsInv
<1>10. \A d \in Clients : Awaits(d) => call'[d].at = call[d].at
    BY <1>6 DEF Awaits
<1> QED
    BY <1>1, <1>2, <1>3, <1>6, <1>9, <1>10

LEMMA ReleaseStep ==
    ASSUME Inv, NEW c \in Clients, Release(c)
    PROVE  Inv'
<1>1. /\ call[c].at = "reserved" /\ Holding(c) /\ ~ Awaits(c)
      /\ UNCHANGED <<store, work, session, calls, writes, faults, aborts>> /\ foreign' = FALSE
    BY DEF Release, Holding, Awaits
<1>2. CASE MakeReady(call[c].slot, Ends(c))
  <2>1. /\ CallsInv' /\ call' \in [Clients -> CallRecords]
        /\ \A d \in Clients : Awaits(d) => call'[d].at = call[d].at
        /\ current' = current /\ current # NoSlot /\ Phase' = "ready"
        /\ entry' \in [Slots -> Entries] /\ Phase # "loading"
      BY <1>1, <1>2, MakeReadyStep, Zenon DEF store, session
  <2>2. \A o \in Ops : Queued(o) => Fits(o)'
    <3>1. SUFFICES ASSUME NEW o \in Ops, Queued(o)
                   PROVE  Fits(o)'
        OBVIOUS
    <3>2. Fits(o)
        BY <3>1, QueuedFits
    <3> QED
        BY <2>1, <3>2 DEF Fits, Awaits
  <2>3. ChainInv' /\ chain' \in Seq(Ops)
      BY <1>1, <2>2, QueueKept DEF Inv, ChainInv, work
  <2>4. SessionInv'
      BY <1>1, <2>1 DEF Inv, SessionInv, session
  <2> QED
      BY <1>1, <2>1, <2>3, <2>4, Zenon DEF Inv, Types, store, session, work
<1>3. CASE Remove(call[c].slot, Ends(c)) /\ UNCHANGED entry
  <2>1. Idle \in CallRecords /\ Idle.at \in Outside /\ Ends(c) = [call EXCEPT ![c] = Idle]
      BY LoopsForm
  <2>2. Remove(call[c].slot, [call EXCEPT ![c] = Idle])
      BY <1>3, <2>1
  <2>3. /\ CallsInv' /\ call' \in [Clients -> CallRecords] /\ EntryKept
        /\ current' \in Slots \cup {NoSlot}
        /\ \A d \in Clients \ {c} : Awaits(d) => call'[d].at = call[d].at
      BY <1>1, <2>1, <2>2, Drop, Zenon
  <2>4. \A o \in Ops : Queued(o) => Fits(o)'
      BY <1>1, <2>3, QueuedKept, Zenon
  <2>5. ChainInv' /\ chain' \in Seq(Ops)
      BY <1>1, <2>4, QueueKept DEF Inv, ChainInv, work
  <2>6. SessionInv'
      BY <1>1, <2>3, SessionKept DEF session
  <2> QED
      BY <1>1, <1>3, <2>3, <2>5, <2>6, Zenon DEF Inv, Types, store, session, work
<1> QED
    BY <1>2, <1>3, Zenon DEF Release

LEMMA PublishStep ==
    ASSUME Inv, NEW c \in Clients, Publish(c)
    PROVE  Inv'
<1>1. /\ call[c].at = "reserved" /\ Holding(c) /\ ~ Awaits(c)
      /\ UNCHANGED <<store, entry, work, calls, writes, faults, aborts>> /\ foreign' = FALSE
      /\ live' = "live" /\ owned' = TRUE /\ Remove(call[c].slot, Ends(c))
    BY DEF Publish, Holding, Awaits
<1>2. Idle \in CallRecords /\ Idle.at \in Outside /\ Ends(c) = [call EXCEPT ![c] = Idle]
    BY LoopsForm
<1>3. Remove(call[c].slot, [call EXCEPT ![c] = Idle])
    BY <1>1, <1>2
<1>4. /\ CallsInv' /\ call' \in [Clients -> CallRecords] /\ EntryKept
      /\ current' = NoSlot
      /\ \A d \in Clients \ {c} : Awaits(d) => call'[d].at = call[d].at
    BY <1>1, <1>2, <1>3, Drop, Zenon
<1>5. \A o \in Ops : Queued(o) => Fits(o)'
    BY <1>1, <1>4, QueuedKept, Zenon
<1>6. ChainInv' /\ chain' \in Seq(Ops)
    BY <1>1, <1>5, QueueKept DEF Inv, ChainInv, work
<1>7. SessionInv'
    BY <1>1, <1>4 DEF SessionInv
<1> QED
    BY <1>1, <1>4, <1>6, <1>7 DEF Inv, Types, store, work

-----------------------------------------------------------------------------
(* The chain *)

\* What the operation at the head says of its author.
LEMMA HeadFits ==
    ASSUME Inv, chain # <<>>
    PROVE  /\ Head(chain) \in Ops /\ Fits(Head(chain)) /\ chain \in Seq(Ops)
<1>1. chain \in Seq(Ops)
    BY DEF Inv, Types
<1>2. Queued(Head(chain))
    BY <1>1, TailOps DEF Queued
<1> QED
    BY <1>1, <1>2, TailOps, QueuedFits

LEMMA RunsHead ==
    ASSUME Inv, NEW kind, Runs(kind)
    PROVE  /\ chain # <<>> /\ Head(chain).kind = kind
           /\ kind # "commit" => ~ repairing
BY DEF Inv, ChainInv, Runs

\* A step of the chain that the calls and the cache do not see.
LEMMA ChainMovesOn ==
    ASSUME Inv, UNCHANGED <<cache, call, rev, owned, foreign, live>>
    PROVE  /\ CallsInv' /\ SessionInv' /\ EntryKept
           /\ \A o \in Ops : Queued(o) => Fits(o)'
           /\ chain # <<>> => \A o \in Ops : Behind(o) => Fits(o)'
<1>1. EntryKept
    BY DEF EntryKept, cache
<1>2. CallsInv'
  <2>1. \A d \in Clients : StandsOn(d)'
      BY StandsKept, Zenon DEF Inv, CallsInv, cache
  <2> QED
      BY <2>1, Zenon DEF Inv, CallsInv, Holding
<1>3. SessionInv'
    BY <1>1, SessionKept
<1>4. \A c \in Clients : Awaits(c) => call'[c].at = call[c].at
    OBVIOUS
<1> QED
    BY <1>1, <1>2, <1>3, <1>4, QueuedKept, BehindStays, Zenon

LEMMA SkipVoidStep == ASSUME Inv, SkipVoid PROVE Inv'
<1>0. chain # <<>> /\ ~ repairing
    BY RunsHead DEF SkipVoid
<1>1. chain' = Tail(chain) /\ UNCHANGED <<store, cache, call, repairing, session, past>>
    BY Zenon DEF SkipVoid
<1>2. /\ CallsInv' /\ SessionInv' /\ \A o \in Ops : Behind(o) => Fits(o)'
    BY <1>0, <1>1, ChainMovesOn, Zenon DEF store, session, past
<1>3. ChainInv' /\ chain' \in Seq(Ops)
    BY <1>0, <1>1, <1>2, QueueTail, Zenon
<1> QED
    BY <1>0, <1>1, <1>2, <1>3, Zenon DEF Inv, Types, store, cache, session, past

LEMMA RunReadStep == ASSUME Inv, RunRead PROVE Inv'
<1>1. chain # <<>> /\ Head(chain).kind = "read" /\ ~ repairing
    BY RunsHead DEF RunRead
<1>2. PICK s : s = Head(chain).by
    OBVIOUS
<1>3. /\ entry' = [entry EXCEPT ![s] = [phase |-> "ready", rev |-> rev, torn |-> torn]]
      /\ call' = Loaded(s) /\ chain' = Tail(chain)
      /\ UNCHANGED <<store, current, repairing, session, past>>
    BY <1>2, Zenon DEF RunRead
<1>4. s \in Slots \ {NoSlot} /\ (s = current => Phase = "loading")
    BY <1>1, <1>2, HeadFits DEF Fits
<1>5. /\ call \in [Clients -> CallRecords] /\ entry \in [Slots -> Entries]
      /\ rev \in Nat /\ torn \in BOOLEAN
    BY DEF Inv, Types
<1>6. entry' \in [Slots -> Entries]
  <2>1. [phase |-> "ready", rev |-> rev, torn |-> torn] \in Entries
      BY <1>5 DEF Entries
  <2> QED
      BY <1>3, <1>4, <1>5, <2>1
<1>7. Phase' = IF s = current THEN "ready" ELSE Phase
    BY <1>3, <1>4, <1>5 DEF Phase
<1>8. ASSUME NEW d \in Clients
      PROVE  /\ call'[d] \in CallRecords
             /\ call'[d].slot = call[d].slot
             /\ \/ call'[d] = call[d]
                \/ call[d].at = "loading" /\ call[d].slot = s /\ call'[d].at = "woken"
    BY <1>3, <1>5 DEF Loaded, CallRecords, Places
<1>9. call' \in [Clients -> CallRecords]
  <2>1. call' = [d \in Clients |-> call'[d]]
      BY <1>3 DEF Loaded
  <2> QED
      BY <1>8, <2>1, Zenon
<1>10. ASSUME NEW d \in Clients
       PROVE  StandsOn(d)' /\ (Holding(d)' => Holding(d))
  <2>1. StandsOn(d)
      BY DEF Inv, CallsInv
  <2>2. CASE call'[d] = call[d] /\ s # current
    <3>1. /\ current' = current /\ rev' = rev /\ owned' = owned /\ foreign' = foreign
          /\ current # NoSlot => entry'[current] = entry[current]
        BY <1>3, <1>5, <2>2 DEF store, session, past, Inv, Types
    <3> QED
        BY <2>1, <2>2, <3>1, StandsKept, Zenon DEF Holding
  <2>3. CASE call'[d] = call[d] /\ s = current
    <3>1. call[d].at \notin {"held", "commit", "reserved"}
        BY <1>4, <2>1, <2>3 DEF StandsOn, Reserved
    <3> QED
        BY <1>7, <2>1, <2>3, <3>1 DEF StandsOn, Holding, Cached
  <2>4. CASE call[d].at = "loading" /\ call[d].slot = s /\ call'[d].at = "woken"
      BY <1>3, <1>4, <1>7, <1>8, <2>4 DEF StandsOn, Holding, Cached
  <2> QED
      BY <1>8, <2>2, <2>3, <2>4
<1>11. CallsInv'
    BY <1>10, Zenon DEF Inv, CallsInv
<1>12. ASSUME NEW o \in Ops, Behind(o)
       PROVE  Fits(o)'
  <2>1. Fits(o) /\ ~ Alike(o, Head(chain))
      BY <1>1, <1>12, BehindFits
  <2>2. o.kind \in {"commit", "check"} => call'[o.by].at = o.kind
      BY <1>8, <2>1 DEF Fits
  <2>3. o.kind = "read" => o.by # s
      BY <1>1, <1>2, <2>1 DEF Alike
  <2> QED
      BY <1>3, <1>7, <2>1, <2>2, <2>3 DEF Fits
<1>13. ChainInv' /\ chain' \in Seq(Ops)
    BY <1>1, <1>3, <1>12, QueueTail, Zenon
<1>14. SessionInv'
    BY <1>3, <1>7 DEF Inv, SessionInv, session
<1> QED
    BY <1>3, <1>6, <1>9, <1>11, <1>13, <1>14, Zenon DEF Inv, Types, store, session, past

LEMMA ReadFailsStep == ASSUME Inv, ReadFails PROVE Inv'
<1>1. chain # <<>> /\ Head(chain).kind = "read" /\ ~ repairing
    BY RunsHead DEF ReadFails
<1>2. PICK s : s = Head(chain).by
    OBVIOUS
<1>3. /\ current' = IF current = s THEN NoSlot ELSE current
      /\ call' = [c \in Clients |-> IF call[c].slot = s /\ call[c].at = "loading"
                                    THEN Ends(c)[c] ELSE call[c]]
      /\ chain' = Tail(chain)
      /\ UNCHANGED <<store, entry, repairing, session, calls, writes, aborts, foreign>>
    BY <1>2, Zenon DEF ReadFails
<1>4. s \in Slots \ {NoSlot} /\ (s = current => Phase = "loading")
    BY <1>1, <1>2, HeadFits DEF Fits
<1>5. call \in [Clients -> CallRecords] /\ faults' \in 0 .. MaxFaults
    BY Assumptions DEF Inv, Types, ReadFails, Fault
<1>6. ASSUME NEW d \in Clients
      PROVE  /\ call'[d] \in CallRecords
             /\ \/ call'[d] = call[d]
                \/ call[d].at = "loading" /\ call'[d].at \in Outside
  <2>1. Ends(d)[d] = Idle /\ Idle \in CallRecords /\ Idle.at \in Outside
      BY <1>5, LoopsForm
  <2>2. call'[d] = IF call[d].slot = s /\ call[d].at = "loading" THEN Ends(d)[d] ELSE call[d]
      BY <1>3
  <2> QED
      BY <1>5, <2>1, <2>2
<1>7. call' \in [Clients -> CallRecords]
  <2>1. call' = [d \in Clients |-> call'[d]]
      BY <1>3
  <2> QED
      BY <1>6, <2>1, Zenon
<1>8. ASSUME NEW d \in Clients
      PROVE  StandsOn(d)' /\ (Holding(d)' => Holding(d))
  <2>1. StandsOn(d)
      BY DEF Inv, CallsInv
  <2>2. CASE call'[d] = call[d] /\ s # current
    <3>1. /\ current' = current /\ rev' = rev /\ owned' = owned /\ foreign' = foreign
          /\ entry' = entry
        BY <1>3, <2>2 DEF store, session
    <3> QED
        BY <2>1, <2>2, <3>1, StandsKept, Zenon DEF Holding
  <2>3. CASE call'[d] = call[d] /\ s = current
    <3>1. call[d].at \notin {"held", "commit", "reserved"}
        BY <1>4, <2>1, <2>3 DEF StandsOn, Reserved
    <3>2. current' = NoSlot
        BY <1>3, <2>3
    <3> QED
        BY <2>1, <2>3, <3>1, <3>2 DEF StandsOn, Holding
  <2>4. CASE call'[d].at \in Outside
      BY <2>4, StandsOutside
  <2> QED
      BY <1>6, <2>2, <2>3, <2>4
<1>9. CallsInv'
    BY <1>8, Zenon DEF Inv, CallsInv
<1>10. EntryKept
    BY <1>3 DEF EntryKept
<1>11. \A d \in Clients : Awaits(d) => call'[d].at = call[d].at
    BY <1>6 DEF Awaits
<1>12. ChainInv' /\ chain' \in Seq(Ops)
    BY <1>1, <1>3, <1>10, <1>11, BehindStays, QueueTail, Zenon
<1>13. SessionInv'
    BY <1>3, <1>10, SessionKept DEF session
<1>14. current' \in Slots \cup {NoSlot}
    BY <1>3 DEF Inv, Types
<1> QED
    BY <1>3, <1>5, <1>7, <1>9, <1>12, <1>13, <1>14, Zenon DEF Inv, Types, store, session

\* The author of the commit at the head holds its entry, and gives it up.
LEMMA CommitDrops ==
    ASSUME Inv, NEW c \in Clients, chain # <<>>, Head(chain).by = c,
           Head(chain).kind = "commit", chain' = Tail(chain), ~ repairing',
           \/ Remove(call[c].slot, Ends(c)) \/ Remove(call[c].slot, Loops(c)),
           entry' = entry, UNCHANGED <<session, foreign, calls, writes, aborts>>,
           rev' \in Nat, torn' \in BOOLEAN, faults' \in 0 .. MaxFaults,
           repairing' \in BOOLEAN
    PROVE  Inv'
<1>1. Holding(c)
    BY HeadFits DEF Fits, Holding
<1>2. PICK x \in CallRecords :
        x.at \in Outside /\ Remove(call[c].slot, [call EXCEPT ![c] = x])
  <2>1. CASE Remove(call[c].slot, Ends(c))
      BY <2>1, LoopsForm
  <2>2. CASE Remove(call[c].slot, Loops(c))
    <3>1. PICK x \in CallRecords : x.at \in Outside /\ Loops(c) = [call EXCEPT ![c] = x]
        BY LoopsForm
    <3> QED
        BY <2>2, <3>1
  <2> QED
      BY <2>1, <2>2
<1>3. /\ CallsInv' /\ call' \in [Clients -> CallRecords] /\ EntryKept
      /\ current' \in Slots \cup {NoSlot}
      /\ \A d \in Clients \ {c} : Awaits(d) => call'[d].at = call[d].at
    BY <1>1, <1>2, Drop, Zenon
<1>4. Head(chain).kind \in {"commit", "check"}
    OBVIOUS
<1>5. ChainInv' /\ chain' \in Seq(Ops)
    BY <1>3, <1>4, BehindKept, QueueTail, Zenon
<1>6. SessionInv'
    BY <1>3, SessionKept DEF session
<1> QED
    BY <1>3, <1>5, <1>6, Zenon DEF Inv, Types, session

LEMMA RunCommitStep == ASSUME Inv, RunCommit PROVE Inv'
<1>1. chain # <<>> /\ Head(chain).kind = "commit" /\ ~ repairing
    BY RunsHead DEF RunCommit
<1>2. PICK c \in Clients : c = Head(chain).by /\ call[c].at = "commit"
    BY <1>1, HeadFits DEF Fits
<1> DEFINE s == call[c].slot
<1>3. UNCHANGED <<store, session, past>>
    BY Zenon DEF RunCommit
<1>4. /\ current = s /\ current \in Slots \ {NoSlot} /\ entry[current].phase = "committing"
      /\ \A d \in Clients \ {c} : ~ Holding(d)
    BY <1>2, HolderHolds DEF Holding
<1>5. CASE /\ chain' = Tail(chain) /\ UNCHANGED <<entry, repairing>>
           /\ Remove(s, Ends(c)) \/ Remove(s, Loops(c))
    BY <1>1, <1>2, <1>3, <1>5, CommitDrops, Zenon DEF Inv, Types, store, past
<1>6. CASE repairing' = TRUE /\ UNCHANGED <<cache, call, chain>>
  <2>1. /\ CallsInv' /\ SessionInv' /\ \A o \in Ops : Queued(o) => Fits(o)'
      BY <1>3, <1>6, ChainMovesOn, Zenon DEF store, session, past
  <2>2. ChainInv' /\ chain' \in Seq(Ops)
      BY <1>1, <1>6, <2>1, QueueKept, Zenon
  <2> QED
      BY <1>3, <1>6, <2>1, <2>2, Zenon DEF Inv, Types, store, cache, session, past
<1>7. CASE /\ ~ owned /\ Commits(s) /\ chain' = Tail(chain)
           /\ entry' = [entry EXCEPT ![s].phase = "reserved"]
           /\ call' = Moves(c, "reserved") /\ UNCHANGED <<current, repairing>>
  <2> DEFINE x == [call[c] EXCEPT !.at = "reserved"]
  <2>1. call \in [Clients -> CallRecords] /\ entry \in [Slots -> Entries]
      BY DEF Inv, Types
  <2>2. x \in CallRecords /\ x.at = "reserved" /\ x.slot = s
      BY <2>1 DEF CallRecords, Places
  <2>3. call' = [call EXCEPT ![c] = x]
      BY <1>7, Zenon DEF Moves
  <2> HIDE DEF x
  <2>4. /\ call' \in [Clients -> CallRecords] /\ call'[c] = x
        /\ \A d \in Clients \ {c} : call'[d] = call[d]
      BY <2>1, <2>2, <2>3
  <2>5. /\ entry' \in [Slots -> Entries] /\ Phase' = "reserved"
        /\ entry'[current].rev = entry[current].rev
      BY <1>4, <1>7, <2>1 DEF Entries, Phase
  <2>6. Current(current)'
      BY <1>3, <1>4, <1>7, <2>5 DEF Commits, Current, store
  <2>7. ASSUME NEW d \in Clients \ {c}
        PROVE  StandsOn(d)' /\ ~ Holding(d)'
    <3>1. StandsOn(d) /\ ~ Holding(d) /\ call'[d] = call[d]
        BY <1>4, <2>4 DEF Inv, CallsInv
    <3> QED
        BY <1>7, <2>5, <3>1 DEF StandsOn, Holding, Reserved, Cached
  <2>8. StandsOn(c)'
      BY <1>3, <1>4, <1>7, <2>2, <2>4, <2>5, <2>6 DEF StandsOn, session
  <2>9. CallsInv'
      BY <2>7, <2>8, Zenon DEF CallsInv
  <2>10. ASSUME NEW o \in Ops, Behind(o)
         PROVE  Fits(o)'
    <3>1. Fits(o) /\ ~ Alike(o, Head(chain))
        BY <1>1, <2>10, BehindFits
    <3>2. o.kind \in {"commit", "check"} => call'[o.by].at = o.kind
        BY <1>1, <1>2, <2>4, <3>1 DEF Fits, Alike
    <3>3. o.kind = "read" => o.by # current
        BY <1>4, <3>1 DEF Fits, Phase
    <3> QED
        BY <1>7, <3>1, <3>2, <3>3 DEF Fits
  <2>11. ChainInv' /\ chain' \in Seq(Ops)
      BY <1>1, <1>7, <2>10, QueueTail, Zenon
  <2>12. SessionInv'
      BY <1>3, <1>7, <2>5 DEF Inv, SessionInv, session
  <2> QED
      BY <1>3, <1>7, <2>4, <2>5, <2>9, <2>11, <2>12, Zenon DEF Inv, Types, store, session, past
<1> QED
    BY <1>2, <1>5, <1>6, <1>7, Zenon DEF RunCommit

LEMMA RepairStep == ASSUME Inv, RepairDone \/ RepairFails PROVE Inv'
<1>1. chain # <<>> /\ Head(chain).kind = "commit"
    BY DEF RepairDone, RepairFails, Inv, ChainInv
<1>2. PICK c \in Clients : c = Head(chain).by
    BY <1>1, HeadFits DEF Fits
<1>3. /\ repairing' = FALSE /\ chain' = Tail(chain)
      /\ Remove(call[c].slot, Ends(c)) \/ Remove(call[c].slot, Loops(c))
      /\ entry' = entry /\ UNCHANGED session
    BY <1>2, Zenon DEF RepairDone, RepairFails
<1>4. /\ UNCHANGED <<foreign, calls, writes, aborts>>
      /\ rev' \in Nat /\ torn' \in BOOLEAN /\ faults' \in 0 .. MaxFaults
  <2>1. rev \in Nat /\ torn \in BOOLEAN /\ faults \in 0 .. MaxFaults
      BY DEF Inv, Types
  <2>2. CASE RepairDone
    <3>1. rev' = rev + 1 /\ torn' = FALSE
        BY <2>2, Zenon DEF RepairDone
    <3>2. UNCHANGED <<faults, foreign, calls, writes, aborts>>
        BY <2>2, Zenon DEF RepairDone, past
    <3>3. rev' \in Nat
        BY <2>1, <3>1
    <3>4. torn' \in BOOLEAN
        BY <3>1, Zenon
    <3> QED
        BY <2>1, <3>2, <3>3, <3>4, Zenon
  <2>3. CASE RepairFails
    <3>1. Fault /\ UNCHANGED <<store, calls, writes, aborts, foreign>>
        BY <2>3, Zenon DEF RepairFails
    <3> QED
        BY <2>1, <3>1, Assumptions DEF Fault, store
  <2> QED
      BY <2>2, <2>3
<1> QED
    BY <1>1, <1>2, <1>3, <1>4, CommitDrops

LEMMA RunCheckStep == ASSUME Inv, RunCheck PROVE Inv'
<1>1. chain # <<>> /\ Head(chain).kind = "check" /\ ~ repairing
    BY RunsHead DEF RunCheck
<1>2. PICK c \in Clients : c = Head(chain).by /\ call[c].at = "check"
    BY <1>1, HeadFits DEF Fits
<1> DEFINE s == call[c].slot
<1>3. /\ chain' = Tail(chain) /\ UNCHANGED <<store, entry, repairing, session, past>>
      /\ IF live = "live" \/ Current(s) \/ (current = s /\ entry[s].phase # "ready")
         THEN call' = Ends(c) /\ UNCHANGED current
         ELSE Remove(s, Loops(c))
    BY <1>2, Zenon DEF RunCheck
<1>4. call \in [Clients -> CallRecords] /\ s \in Slots \ {NoSlot}
    BY <1>2 DEF Inv, Types, CallsInv, StandsOn
<1>5. /\ CallsInv' /\ call' \in [Clients -> CallRecords] /\ EntryKept
      /\ current' \in Slots \cup {NoSlot}
      /\ \A d \in Clients \ {c} : Awaits(d) => call'[d].at = call[d].at
  <2>1. CASE call' = Ends(c) /\ UNCHANGED current
    <3>1. Idle \in CallRecords /\ Idle.at \in Outside /\ call' = [call EXCEPT ![c] = Idle]
        BY <2>1, LoopsForm
    <3>2. call'[c].at \in Outside
        BY <1>4, <3>1
    <3>3. StandsOn(c)' /\ ~ Holding(c)'
        BY <3>2, StandsOutside
    <3>4. /\ CallsInv' /\ call' \in [Clients -> CallRecords] /\ EntryKept
          /\ \A d \in Clients \ {c} : call'[d] = call[d]
        BY <1>3, <2>1, <3>1, <3>3, OneMoves, Zenon DEF store, session, past
    <3> QED
        BY <2>1, <3>4 DEF Inv, Types
  <2>2. CASE Remove(s, Loops(c)) /\ (current = s => entry[s].phase = "ready")
    <3>0. Remove(call[c].slot, Loops(c))
        BY <2>2
    <3>1. PICK x \in CallRecords :
            x.at \in Outside /\ Remove(call[c].slot, [call EXCEPT ![c] = x])
        BY <3>0, LoopsForm
    <3>2. current = s => ~ Reserved
        BY <1>4, <2>2 DEF Reserved, Phase
    <3>3. UNCHANGED <<rev, entry>> /\ owned' = owned /\ foreign' = foreign
        BY <1>3, Zenon DEF store, session, past
    <3> QED
        BY <3>1, <3>2, <3>3, Drop, Zenon
  <2> QED
      BY <1>3, <2>1, <2>2, Zenon
<1>6. Head(chain).kind \in {"commit", "check"}
    BY <1>1
<1>7. ChainInv' /\ chain' \in Seq(Ops)
    BY <1>1, <1>2, <1>3, <1>5, <1>6, BehindKept, QueueTail, Zenon
<1>8. SessionInv'
    BY <1>3, <1>5, SessionKept DEF session
<1> QED
    BY <1>3, <1>5, <1>7, <1>8, Zenon DEF Inv, Types, store, session, past

\* The chain after a write: what a retirement has still to write comes last.
LEMMA TailOrTurns ==
    ASSUME Inv, chain # <<>>, ~ repairing',
           \/ chain' = Tail(chain)
           \/ \E kind \in {"drain", "release"} : Queue(kind, Tail(chain)),
           \A o \in Ops : Behind(o) => Fits(o)'
    PROVE  ChainInv' /\ chain' \in Seq(Ops)
<1>1. CASE chain' = Tail(chain)
    BY <1>1, QueueTail, Zenon
<1>2. ASSUME NEW kind \in {"drain", "release"}, Queue(kind, Tail(chain))
      PROVE  ChainInv' /\ chain' \in Seq(Ops)
  <2> DEFINE p == [kind |-> kind, by |-> Session]
  <2>1. p \in Ops /\ p.kind \in {"drain", "release"} /\ chain' = Append(Tail(chain), p)
      BY <1>2 DEF Ops, Authors, Queue
  <2> HIDE DEF p
  <2> QED
      BY <2>1, QueueTurns, Zenon
<1> QED
    BY <1>1, <1>2

LEMMA RunAppendStep == ASSUME Inv, RunAppend PROVE Inv'
<1>1. chain # <<>> /\ ~ repairing
    BY RunsHead DEF RunAppend
<1>2. /\ ~ Reserved /\ current' = NoSlot
      /\ UNCHANGED <<entry, call, repairing, session, calls, faults, aborts, foreign>>
      /\ IF live = "retiring" THEN Drains(Tail(chain))
         ELSE chain' = Tail(chain) /\ UNCHANGED writes
    BY Zenon DEF RunAppend
<1>3. rev' \in Nat /\ torn' \in BOOLEAN /\ current' \in Slots \cup {NoSlot}
    BY DEF RunAppend, Inv, Types
<1>4. /\ writes' \in 0 .. MaxWrites
      /\ \/ chain' = Tail(chain)
         \/ \E kind \in {"drain", "release"} : Queue(kind, Tail(chain))
  <2>1. CASE Drains(Tail(chain))
      BY <2>1, Assumptions DEF Drains, Buffered, Inv, Types
  <2>2. CASE chain' = Tail(chain) /\ UNCHANGED writes
      BY <2>2 DEF Inv, Types
  <2> QED
      BY <1>2, <2>1, <2>2
<1>5. ASSUME NEW d \in Clients
      PROVE  StandsOn(d)' /\ ~ Holding(d)'
  <2>1. StandsOn(d) /\ call'[d] = call[d]
      BY <1>2 DEF Inv, CallsInv
  <2>2. call[d].at \notin {"held", "commit", "reserved"}
      BY <1>2, <2>1 DEF StandsOn, Reserved
  <2> QED
      BY <1>2, <2>1, <2>2 DEF StandsOn, Holding
<1>6. CallsInv'
    BY <1>5, Zenon DEF CallsInv
<1>7. EntryKept /\ \A c \in Clients : Awaits(c) => call'[c].at = call[c].at
    BY <1>2 DEF EntryKept
<1>8. ChainInv' /\ chain' \in Seq(Ops)
    BY <1>1, <1>2, <1>4, <1>7, BehindStays, TailOrTurns, Zenon
<1>9. SessionInv'
    BY <1>2, <1>7, SessionKept DEF session
<1> QED
    BY <1>2, <1>3, <1>4, <1>6, <1>8, <1>9, Zenon DEF Inv, Types, session

\* The calls that waited for a retirement go on, or share its failure.
LEMMA RetiredCalls ==
    ASSUME Inv, NEW over \in BOOLEAN, call' = Retired(over) \/ call' = call,
           UNCHANGED <<store, cache>>, owned' => owned, foreign' = foreign
    PROVE  /\ CallsInv' /\ call' \in [Clients -> CallRecords] /\ EntryKept
           /\ \A d \in Clients : Awaits(d) => call'[d].at = call[d].at
<1>1. call \in [Clients -> CallRecords]
    BY DEF Inv, Types
<1>2. ASSUME NEW d \in Clients
      PROVE  /\ call'[d] \in CallRecords
             /\ \/ call'[d] = call[d]
                \/ call[d].at = "retirement" /\ call'[d].at \in Outside
  <2>1. Idle \in CallRecords /\ Idle.at \in Outside
      BY LoopsForm
  <2>2. /\ [call[d] EXCEPT !.at = "again"] \in CallRecords
        /\ [call[d] EXCEPT !.at = "again"].at \in Outside
      BY <1>1 DEF CallRecords, Places, Outside
  <2>3. call'[d] = call[d] \/ call'[d] = IF call[d].at # "retirement" THEN call[d]
                     ELSE IF over THEN [call[d] EXCEPT !.at = "again"] ELSE Idle
      BY DEF Retired
  <2> QED
      BY <1>1, <2>1, <2>2, <2>3
<1>3. call' \in [Clients -> CallRecords]
  <2>1. call' = [d \in Clients |-> call'[d]]
      BY <1>1 DEF Retired
  <2> QED
      BY <1>2, <2>1, Zenon
<1>4. UNCHANGED <<rev, entry, current>>
    BY Zenon DEF store, cache
<1>5. \A d \in Clients : StandsOn(d)' /\ (Holding(d)' => Holding(d))
    BY <1>2, <1>4, StandsKept, StandsOutside, Zenon DEF Inv, CallsInv, Holding
<1>6. CallsInv'
    BY <1>5, Zenon DEF Inv, CallsInv
<1>7. \A d \in Clients : Awaits(d) => call'[d].at = call[d].at
    BY <1>2 DEF Awaits
<1> QED
    BY <1>3, <1>4, <1>6, <1>7 DEF EntryKept

LEMMA AppendFailsStep == ASSUME Inv, AppendFails PROVE Inv'
<1>1. chain # <<>> /\ ~ repairing
    BY RunsHead DEF AppendFails
<1>2. /\ UNCHANGED <<store, cache, repairing, owned, calls, writes, aborts, foreign>>
      /\ IF live = "retiring" /\ Runs("append") THEN Queue("drain", Tail(chain))
         ELSE chain' = Tail(chain)
      /\ IF live = "retiring" /\ Runs("drain") THEN live' = "none" /\ call' = Retired(FALSE)
         ELSE UNCHANGED <<live, call>>
    BY Zenon DEF AppendFails
<1>3. faults' \in 0 .. MaxFaults
    BY Assumptions DEF AppendFails, Fault, Inv, Types
<1>4. /\ CallsInv' /\ call' \in [Clients -> CallRecords] /\ EntryKept
      /\ \A d \in Clients : Awaits(d) => call'[d].at = call[d].at
    BY <1>2, RetiredCalls
<1>5. ChainInv' /\ chain' \in Seq(Ops)
  <2>1. \A o \in Ops : Behind(o) => Fits(o)'
      BY <1>1, <1>4, BehindStays, Zenon
  <2>2. chain' = Tail(chain) \/ \E kind \in {"drain", "release"} : Queue(kind, Tail(chain))
      BY <1>2
  <2> QED
      BY <1>1, <1>2, <2>1, <2>2, TailOrTurns, Zenon
<1>6. SessionInv'
    BY <1>2, <1>4 DEF Inv, SessionInv, EntryKept, Phase, cache
<1> QED
    BY <1>2, <1>3, <1>4, <1>5, <1>6 DEF Inv, Types, store, cache

LEMMA RunReleaseStep == ASSUME Inv, RunRelease PROVE Inv'
<1>1. chain # <<>> /\ ~ repairing
    BY RunsHead DEF RunRelease
<1>2. /\ chain' = Tail(chain) /\ live' = "none" /\ owned' = FALSE /\ call' = Retired(TRUE)
      /\ UNCHANGED <<store, cache, repairing, past>>
    BY Zenon DEF RunRelease
<1>3. /\ CallsInv' /\ call' \in [Clients -> CallRecords] /\ EntryKept
      /\ \A d \in Clients : Awaits(d) => call'[d].at = call[d].at
    BY <1>2, RetiredCalls DEF past
<1>4. ChainInv' /\ chain' \in Seq(Ops)
    BY <1>1, <1>2, <1>3, BehindStays, QueueTail, Zenon
<1>5. SessionInv'
    BY <1>2, <1>3 DEF Inv, SessionInv, EntryKept, Phase, cache
<1> QED
    BY <1>2, <1>3, <1>4, <1>5 DEF Inv, Types, store, cache, past

-----------------------------------------------------------------------------
(* The live session, and the world outside *)

LEMMA QueueLast ==
    ASSUME Inv, NEW kind \in {"append", "drain", "release"}, Queue(kind, chain),
           repairing' = repairing, \A o \in Ops : Queued(o) => Fits(o)'
    PROVE  ChainInv' /\ chain' \in Seq(Ops)
<1> DEFINE p == [kind |-> kind, by |-> Session]
<1>1. p \in Ops /\ p.kind \in {"append", "drain", "release"} /\ chain' = Append(chain, p)
    BY DEF Ops, Authors, Queue
<1>2. Fits(p)'
    BY DEF Fits
<1> HIDE DEF p
<1>3. \A o \in Ops : Queued(o) => ~ Alike(o, p)
    BY <1>1 DEF Alike
<1> QED
    BY <1>1, <1>2, <1>3, QueueAppend, Zenon

LEMMA WriteStep == ASSUME Inv, Write PROVE Inv'
<1>1. /\ Queue("append", chain)
      /\ UNCHANGED <<store, cache, call, repairing, session, calls, faults, aborts, foreign>>
    BY Zenon DEF Write
<1>2. writes' \in 0 .. MaxWrites
    BY Assumptions DEF Write, Buffered, Inv, Types
<1>3. CallsInv' /\ SessionInv' /\ \A o \in Ops : Queued(o) => Fits(o)'
    BY <1>1, ChainMovesOn, Zenon DEF store, session
<1>4. ChainInv' /\ chain' \in Seq(Ops)
    BY <1>1, <1>3, QueueLast
<1> QED
    BY <1>1, <1>2, <1>3, <1>4, Zenon DEF Inv, Types, store, cache, session

LEMMA DisposeStep == ASSUME Inv, Dispose PROVE Inv'
<1>1. /\ live = "live" /\ live' = "retiring"
      /\ IF Appending THEN UNCHANGED <<chain, writes>> ELSE Drains(chain)
      /\ UNCHANGED <<store, cache, call, repairing, owned, calls, faults, aborts, foreign>>
    BY Zenon DEF Dispose
<1>2. /\ writes' \in 0 .. MaxWrites
      /\ chain' = chain \/ \E kind \in {"append", "drain", "release"} : Queue(kind, chain)
    BY <1>1, Assumptions DEF Drains, Buffered, Inv, Types
<1>3. /\ CallsInv' /\ EntryKept
      /\ \A d \in Clients : Awaits(d) => call'[d].at = call[d].at
    BY <1>1, RetiredCalls
<1>4. \A o \in Ops : Queued(o) => Fits(o)'
    BY <1>3, QueuedKept, Zenon
<1>5. ChainInv' /\ chain' \in Seq(Ops)
  <2>1. CASE chain' = chain
      BY <1>1, <1>4, <2>1, QueueKept, Zenon DEF Inv, ChainInv
  <2>2. CASE \E kind \in {"append", "drain", "release"} : Queue(kind, chain)
      BY <1>1, <1>4, <2>2, QueueLast, Zenon
  <2> QED
      BY <1>2, <2>1, <2>2
<1>6. SessionInv'
    BY <1>1, <1>3 DEF Inv, SessionInv, EntryKept, Phase, cache
<1> QED
    BY <1>1, <1>2, <1>3, <1>5, <1>6 DEF Inv, Types, store, cache

LEMMA ForeignWriteStep == ASSUME Inv, ForeignWrite PROVE Inv'
<1>1. /\ UNCHANGED <<cache, call, work, session, calls, faults, aborts>>
      /\ foreign' = (Phase = "reserved")
    BY Zenon DEF ForeignWrite
<1>2. writes' \in 0 .. MaxWrites /\ rev' \in Nat /\ torn' \in BOOLEAN /\ foreign' \in BOOLEAN
    BY Assumptions DEF ForeignWrite, Inv, Types
<1>3. ASSUME NEW d \in Clients
      PROVE  StandsOn(d)'
  <2>1. StandsOn(d) /\ Phase' = Phase /\ current' = current /\ owned' = owned
      BY <1>1 DEF Inv, CallsInv, Phase, cache, session
  <2>2. Reserved' = Reserved
      BY <2>1 DEF Reserved
  <2> QED
      BY <1>1, <2>1, <2>2 DEF StandsOn
<1>4. CallsInv'
    BY <1>1, <1>3, Zenon DEF Inv, CallsInv, Holding
<1>5. EntryKept /\ \A d \in Clients : Awaits(d) => call'[d].at = call[d].at
    BY <1>1 DEF EntryKept, cache
<1>6. ChainInv' /\ chain' \in Seq(Ops)
    BY <1>1, <1>5, QueuedKept, QueueKept, Zenon DEF Inv, ChainInv, work
<1>7. SessionInv'
    BY <1>1, <1>5, SessionKept DEF session
<1> QED
    BY <1>1, <1>2, <1>4, <1>6, <1>7, Zenon DEF Inv, Types, cache, work, session

LEMMA EvictStep == ASSUME Inv, Evict PROVE Inv'
<1>1. /\ Phase = "ready" /\ current' = NoSlot
      /\ UNCHANGED <<store, entry, call, work, session, calls, faults, aborts, foreign>>
    BY Zenon DEF Evict
<1>2. writes' \in 0 .. MaxWrites /\ current' \in Slots \cup {NoSlot}
    BY Assumptions DEF Evict, Inv, Types
<1>3. ASSUME NEW d \in Clients
      PROVE  StandsOn(d)' /\ ~ Holding(d)'
  <2>1. StandsOn(d) /\ call'[d] = call[d]
      BY <1>1 DEF Inv, CallsInv
  <2>2. call[d].at \notin {"held", "commit", "reserved"}
      BY <1>1, <2>1 DEF StandsOn, Reserved
  <2> QED
      BY <1>1, <2>1, <2>2 DEF StandsOn, Holding
<1>4. CallsInv'
    BY <1>3, Zenon DEF CallsInv
<1>5. EntryKept /\ \A d \in Clients : Awaits(d) => call'[d].at = call[d].at
    BY <1>1 DEF EntryKept
<1>6. ChainInv' /\ chain' \in Seq(Ops)
    BY <1>1, <1>5, QueuedKept, QueueKept, Zenon DEF Inv, ChainInv, work
<1>7. SessionInv'
    BY <1>1, <1>5, SessionKept DEF session
<1> QED
    BY <1>1, <1>2, <1>4, <1>6, <1>7, Zenon DEF Inv, Types, store, work, session

LEMMA StutterStep == ASSUME Inv, UNCHANGED vars PROVE Inv'
<1>1. UNCHANGED <<store, cache, call, work, session, past>>
    BY Zenon DEF vars
<1>2. CallsInv' /\ SessionInv' /\ \A o \in Ops : Queued(o) => Fits(o)'
    BY <1>1, ChainMovesOn, Zenon DEF store, session, past
<1>3. ChainInv' /\ chain' \in Seq(Ops)
    BY <1>1, <1>2, QueueKept, Zenon DEF Inv, ChainInv, work
<1> QED
    BY <1>1, <1>2, <1>3, Zenon DEF Inv, Types, store, cache, work, session, past

-----------------------------------------------------------------------------
(* The theorems *)

LEMMA InvInit == Init => Inv
<1> SUFFICES ASSUME Init PROVE Inv
    OBVIOUS
<1>1. Types
  <2>1. Free \in Entries /\ Idle \in CallRecords
      BY DEF Entries, CallRecords, Places, Free, Idle
  <2>2. entry \in [Slots -> Entries] /\ call \in [Clients -> CallRecords]
      BY <2>1 DEF Init
  <2>3. chain \in Seq(Ops) /\ current \in Slots \cup {NoSlot}
      BY DEF Init
  <2>4. /\ calls \in 0 .. MaxCalls /\ writes \in 0 .. MaxWrites
        /\ faults \in 0 .. MaxFaults /\ aborts \in 0 .. MaxAborts
      BY Assumptions DEF Init
  <2>5. /\ rev \in Nat /\ torn \in BOOLEAN /\ repairing \in BOOLEAN
        /\ live \in {"none", "live", "retiring"} /\ owned \in BOOLEAN
        /\ foreign \in BOOLEAN
      BY DEF Init
  <2> QED
      BY <2>2, <2>3, <2>4, <2>5, Zenon DEF Types
<1>2. CallsInv
    BY DEF Init, CallsInv, StandsOn, Holding, Idle
<1>3. SessionInv /\ ChainInv
    BY DEF Init, SessionInv, ChainInv, Distinct
<1> QED
    BY <1>1, <1>2, <1>3 DEF Inv

\* The strengthening is an invariant of the cache, its callers and the chain:
\* what a client waits for is in the map, and nobody shares what it holds.
THEOREM Invariance == Spec => []Inv
<1>1. Inv /\ [Next]_vars => Inv'
  <2> SUFFICES ASSUME Inv, [Next]_vars PROVE Inv'
      OBVIOUS
  <2>1. CASE \E c \in Clients : Begin(c) \/ Steps(c) \/ Abort(c) \/ Holder(c)
      BY <2>1, BeginStep, EnterStep, ReserveStep, InspectStep, AbortStep, ReleaseStep,
         PublishStep, Zenon DEF Steps, Holder
  <2>2. CASE Chain
      BY <2>2, SkipVoidStep, RunReadStep, ReadFailsStep, RunCommitStep, RepairStep,
         RunCheckStep, RunAppendStep, AppendFailsStep, RunReleaseStep, Zenon DEF Chain
  <2>3. CASE Write \/ Dispose \/ ForeignWrite \/ Evict \/ UNCHANGED vars
      BY <2>3, WriteStep, DisposeStep, ForeignWriteStep, EvictStep, StutterStep, Zenon
  <2> QED
      BY <2>1, <2>2, <2>3, Zenon DEF Next
<1> QED
    BY <1>1, InvInit, PTL DEF Spec

\* Every variable keeps its type, and a caller that is held up has an entry
\* whose reservation it waits for.
THEOREM TypeCorrect == Spec => []TypeOK
BY Invariance, InvTypes, PTL

LEMMA InvSound == Inv => ReservationIsSound
<1> SUFFICES ASSUME Inv PROVE ReservationIsSound
    OBVIOUS
<1>1. ASSUME NEW c \in Clients, call[c].at = "reserved"
      PROVE  /\ current = call[c].slot /\ Phase = "reserved"
             /\ \A d \in Clients \ {c} : call[d].at \notin {"commit", "reserved"}
             /\ live = "none" /\ ~owned
             /\ Current(current) \/ foreign
  <2>1. StandsOn(c) /\ Holding(c)
      BY <1>1 DEF Inv, CallsInv, Holding
  <2>2. \A d \in Clients \ {c} : ~ Holding(d)
      BY <2>1, HolderHolds
  <2> QED
      BY <1>1, <2>1, <2>2 DEF Inv, SessionInv, StandsOn, Holding
<1>2. live = "live" => ~Reserved
    BY DEF Inv, SessionInv, Reserved, Phase
<1> QED
    BY <1>1, <1>2 DEF ReservationIsSound

\* reserve(), commitPrepared() and attachPrepared(): whoever holds a prepared
\* session holds it alone, while no live session has the id, and on the stored
\* log as it stands unless another process wrote after the check.
THEOREM SoundReservation == Spec => []ReservationIsSound
BY Invariance, InvSound, PTL

=============================================================================
