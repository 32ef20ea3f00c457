------------------------- MODULE WriteBehindProofs --------------------------
(***************************************************************************)
(* Theorems about WriteBehind, for any seeds, callers, faults and bounds:  *)
(* no queued event is stranded, a flush rejects only for a fault, and the   *)
(* log implements DurableLog through batches that fail, retry and are cut.  *)
(***************************************************************************)
EXTENDS WriteBehind, SequenceTheorems, FiniteSetTheorems, TLAPS

\* The n events of the session that follow the first a.
Run(a, n) == [i \in 1 .. n |-> a + i]

\* How many events are stored, or part of a seed that is to be; and how many a
\* write holds that is still to be stored, or to be put back.
Stored == IF init = "ready" THEN cursor ELSE seed
InHand == IF active \in {"waiting", "storing", "rejected"} THEN Len(batch) ELSE 0

FlagsOK ==
    /\ timer \in BOOLEAN /\ deadlineExpired \in BOOLEAN /\ automaticPaused \in BOOLEAN
    /\ background \in BOOLEAN /\ continuation \in BOOLEAN
    /\ materialized \in BOOLEAN /\ faulted \in BOOLEAN

DataOK ==
    /\ pending \in Seq(1 .. MaxEvents) /\ batch \in Seq(1 .. MaxEvents)
    /\ active \in Phases /\ barrier \in Awaits
    /\ init \in {"seeding", "ready", "failed"}
    /\ cursor \in 0 .. MaxEvents /\ seed \in 0 .. MaxEvents /\ before \in 0 .. MaxEvents
    /\ accepted \in 0 .. MaxEvents /\ acked \in 0 .. MaxEvents
    /\ call \in [Flushers -> {"none", "init", "barrier", "resolved", "rejected"}]
    /\ need \in [Flushers -> 0 .. MaxEvents]
    /\ storing \in {"idle", "append", "written", "torn", "publish", "linked"}
    /\ lines \in Seq(0 .. MaxEvents) /\ synced \in 0 .. Len(lines)
    /\ entry \in {"absent", "linked", "durable"}
    /\ host \in {"live", "closed", "down"}
    /\ faults \in 0 .. MaxFaults /\ crashes \in 0 .. MaxCrashes

\* Every accepted event is stored, in the hands of a write, or queued, in this
\* order and once.
QueueInv ==
    /\ Stored + InHand + Len(pending) = accepted
    /\ pending = Run(Stored + InHand, Len(pending))
    /\ active \in {"waiting", "storing", "rejected"} =>
          batch # <<>> /\ batch = Run(Stored, Len(batch))
    /\ acked <= cursor

\* A log left half materialized refuses every further append.
Stuck == storing = "idle" /\ ~materialized /\ entry # "absent"

\* Who runs the write and who will hear of it.
WriteInv ==
    /\ active # "none" => (barrier = "write" <=> ~background)
    /\ active = "none" => barrier # "write"
    /\ barrier \in {"drained", "failed"} => active = "none"
    /\ barrier # "none" \/ active \in {"storing", "stored"} => init = "ready"
    /\ init = "seeding" => active \in {"none", "waiting"}
    /\ continuation /\ barrier = "none" => active = "none"
    /\ (active \in {"rejected", "caught"} /\ init = "ready") \/ barrier = "failed"
          => faulted \/ Stuck

\* What keeps a queued event from being forgotten.
TimerInv ==
    /\ timer \/ deadlineExpired => pending # <<>> /\ barrier = "none"
    /\ deadlineExpired => active \notin {"none", "caught"} \/ continuation
    /\ barrier = "failed" \/ (active = "caught" /\ barrier = "write") => automaticPaused
    /\ barrier = "none" /\ pending # <<>> =>
          \/ timer \/ deadlineExpired \/ automaticPaused \/ init = "failed"
          \/ \E c \in Flushers : call[c] = "init"

CallInv ==
    /\ call["retire"] = "resolved" => pending = <<>> /\ active = "none" /\ init = "ready"
    /\ \A c \in Flushers : need[c] <= accepted
    /\ \A c \in Flushers : call[c] = "barrier" => barrier # "none"

\* How many events the storage call in progress stores.
Writing == IF init = "seeding" THEN seed ELSE Len(batch)

\* The file at each place of an append: the durable events and, past them, what
\* the append has written.
FileInv ==
    /\ materialized => init = "ready" /\ entry = "durable" /\ synced = cursor
    /\ ~materialized => cursor = 0 /\ entry # "durable" /\ synced = Len(lines)
    /\ storing = "idle" /\ materialized => lines = Run(0, cursor)
    /\ storing = "idle" /\ ~materialized =>
          /\ Len(lines) <= accepted /\ lines = Run(0, Len(lines))
          /\ entry = "absent" <=> lines = <<>>
    /\ active = "storing" => storing # "idle"
    /\ storing # "idle" =>
          /\ Writing # 0 /\ before = cursor
          /\ init = "seeding" \/ active = "storing"
    /\ storing \in {"append", "written", "torn"} => materialized
    /\ storing \in {"publish", "linked"} => ~materialized
    /\ storing = "append" => lines = Run(0, cursor)
    /\ storing = "written" => lines = Run(0, cursor + Writing)
    /\ storing = "torn" => faulted /\ \E k \in 0 .. Writing :
           lines \in {Run(0, cursor + k), Append(Run(0, cursor + k), Torn)}
    /\ storing = "publish" => entry = "absent" /\ lines = <<>>
    /\ storing = "linked" => entry = "linked" /\ lines = Run(0, Writing)

LiveInv == QueueInv /\ WriteInv /\ TimerInv /\ CallInv /\ FileInv

\* Of a session that is retired or down only the file is left.
GoneInv ==
    /\ pending = <<>> /\ ~timer /\ ~deadlineExpired
    /\ active = "none" /\ ~continuation /\ barrier = "none" /\ storing = "idle"
    /\ \A c \in Flushers : call[c] = "none" /\ need[c] = 0
    /\ entry # "linked" /\ (entry = "absent" => lines = <<>>)
    /\ lines = Run(0, synced) \/ (host = "down" /\ lines = Append(Run(0, synced), Torn))
    /\ acked <= synced /\ synced <= accepted
    /\ host = "closed" => synced = accepted

Inv ==
    /\ FlagsOK /\ DataOK
    /\ host = "live" => LiveInv
    /\ host # "live" => GoneInv

-----------------------------------------------------------------------------
(* Runs of events *)

LEMMA RunIs ==
    ASSUME NEW a \in Nat, NEW n \in Nat
    PROVE  /\ Run(a, n) \in Seq(Nat)
           /\ Len(Run(a, n)) = n
           /\ \A i \in 1 .. n : Run(a, n)[i] = a + i
           /\ \A m \in Nat : a + n <= m => Run(a, n) \in Seq(1 .. m) /\ Run(a, n) \in Seq(0 .. m)
           /\ Run(a, n) = <<>> <=> n = 0
BY DEF Run

LEMMA RunFirst == ASSUME NEW n \in Nat PROVE First(n) = Run(0, n)
BY DEF First, Run

LEMMA RunEmpty == ASSUME NEW a \in Nat PROVE Run(a, 0) = <<>>
BY DEF Run

LEMMA RunAppend ==
    ASSUME NEW a \in Nat, NEW n \in Nat
    PROVE  Append(Run(a, n), a + n + 1) = Run(a, n + 1)
BY DEF Run

LEMMA RunConcat ==
    ASSUME NEW a \in Nat, NEW n \in Nat, NEW m \in Nat
    PROVE  Run(a, n) \o Run(a + n, m) = Run(a, n + m)
BY DEF Run

LEMMA RunFromFirst ==
    ASSUME NEW n \in Nat, NEW m \in Nat
    PROVE  Run(0, n) \o Run(n, m) = Run(0, n + m)
BY DEF Run

LEMMA RunPrefix ==
    ASSUME NEW a \in Nat, NEW n \in Nat, NEW k \in 0 .. n
    PROVE  SubSeq(Run(a, n), 1, k) = Run(a, k)
BY DEF Run

\* The same of a log whose last line is incomplete.
LEMMA TornIs ==
    ASSUME NEW n \in Nat
    PROVE  /\ Len(Append(Run(0, n), Torn)) = n + 1
           /\ \A m \in Nat : n <= m => Append(Run(0, n), Torn) \in Seq(0 .. m)
           /\ \A k \in 0 .. n : SubSeq(Append(Run(0, n), Torn), 1, k) = Run(0, k)
BY DEF Run, Torn

LEMMA WholeRun ==
    ASSUME NEW n \in Nat
    PROVE  Whole(Run(0, n)) = Run(0, n) /\ Whole(Append(Run(0, n), Torn)) = Run(0, n)
<1>1. Whole(Run(0, n)) = Run(0, n)
  <2>1. n # 0 => Last(Run(0, n)) = n
    <3>1. Len(Run(0, n)) = n /\ (n # 0 => Run(0, n)[n] = n)
        BY DEF Run
    <3> QED
        BY <3>1, Zenon DEF Last
  <2> QED
      BY <2>1, RunIs DEF Whole, Torn
<1>2. Whole(Append(Run(0, n), Torn)) = Run(0, n)
  <2> DEFINE s == Append(Run(0, n), Torn)
  <2>1. s # <<>> /\ Last(s) = Torn
    <3>1. Len(s) = n + 1 /\ s # <<>> /\ s[n + 1] = Torn
        BY DEF Run, Torn
    <3> QED
        BY <3>1, Zenon DEF Last
  <2>2. Front(s) = Run(0, n)
    <3>1. Len(s) - 1 = n /\ SubSeq(s, 1, n) = Run(0, n)
        BY TornIs
    <3> QED
        BY <3>1 DEF Front
  <2> QED
      BY <2>1, <2>2 DEF Whole
<1> QED
    BY <1>1, <1>2

-----------------------------------------------------------------------------
(* The greatest event of a bounded set *)

LEMMA MaxExists ==
    ASSUME NEW m \in Nat, NEW S \in SUBSET (0 .. m), S # {}
    PROVE  Max(S) \in S /\ \A y \in S : Max(S) >= y
<1> DEFINE Above(y) == {k \in 0 .. m : k > y}
           T == {Above(y) : y \in S}
<1>1. IsFiniteSet(0 .. m)
    BY FS_Interval
<1>2. IsWellFoundedOn(StrictSubsetOrdering(0 .. m), SUBSET (0 .. m))
    BY <1>1, FS_StrictSubsetOrderingWellFounded, FS_FiniteSubsetsOfFinite
<1>3. T \subseteq SUBSET (0 .. m) /\ T # {}
    OBVIOUS
<1>4. PICK y \in S : \A z \in S :
          <<Above(z), Above(y)>> \notin StrictSubsetOrdering(0 .. m)
  <2>1. \E x \in T : \A z \in T : <<z, x>> \notin StrictSubsetOrdering(0 .. m)
    <3> HIDE DEF T
    <3> QED
        BY <1>2, <1>3, WFMin
  <2> HIDE DEF Above
  <2> QED
      BY <2>1, Zenon
<1>5. \A z \in S : y >= z
  <2> SUFFICES ASSUME NEW z \in S, z > y PROVE FALSE
      OBVIOUS
  <2>1. Above(z) \subseteq Above(y) /\ z \in Above(y) /\ z \notin Above(z)
      OBVIOUS
  <2> QED
      BY <2>1, <1>4 DEF StrictSubsetOrdering
<1> QED
    BY <1>5 DEF Max

-----------------------------------------------------------------------------
(* What an append stores *)

LEMMA FreshBatch ==
    ASSUME NEW n \in Nat, cursor \in Nat, init # "seeding", batch = Run(cursor, n)
    PROVE  Fresh = batch
<1>1. DOMAIN batch = 1 .. n /\ \A i \in 1 .. n : batch[i] > cursor
    BY DEF Run
<1>2. Unstored = 1 .. n
    BY <1>1 DEF Unstored
<1>3. Cardinality(Unstored) = n
    BY <1>2, FS_Interval
<1>4. ASSUME NEW j \in 1 .. n PROVE Place(j) = j
  <2>1. ASSUME NEW i \in 1 .. n PROVE Cardinality({k \in Unstored : k <= i}) = i
    <3>1. {k \in Unstored : k <= i} = 1 .. i
        BY <1>2
    <3>2. i \in Int /\ ~ (1 > i)
        OBVIOUS
    <3>3. Cardinality(1 .. i) = i - 1 + 1
        BY <3>2, FS_Interval
    <3>4. i - 1 + 1 = i
        OBVIOUS
    <3> QED
        BY <3>1, <3>3, <3>4, Zenon
  <2> QED
      BY <2>1, <1>2 DEF Place
<1>5. [k \in 1 .. Cardinality(Unstored) |-> batch[Place(k)]] = [k \in 1 .. n |-> batch[k]]
    BY <1>3, <1>4
<1>6. batch = [k \in 1 .. n |-> batch[k]]
    BY DEF Run
<1> QED
    BY <1>5, <1>6 DEF Fresh

\* In the invariant: the seed, or the whole batch behind the cursor.
LEMMA FreshIs ==
    ASSUME Assumptions, Inv, host = "live",
           init = "seeding" \/ (init = "ready" /\ active \in {"waiting", "storing"})
    PROVE  /\ Fresh = Run(cursor, Writing) /\ Len(Fresh) = Writing /\ Writing \in Nat
           /\ Fresh = <<>> <=> Writing = 0
           /\ cursor + Writing <= accepted
           /\ init = "seeding" => cursor = 0 /\ Stored = seed
           /\ init = "ready" => Stored = cursor
<1> USE DEF Inv, LiveInv, DataOK
<1>0. MaxEvents \in Nat
    BY DEF Assumptions
<1>1. CASE init = "seeding"
  <2>1. cursor = 0 /\ seed \in Nat /\ Stored = seed /\ Writing = seed
      BY <1>0, <1>1 DEF FileInv, Stored, Writing
  <2>2. Fresh = Run(0, seed)
      BY <1>1, <2>1, RunFirst DEF Fresh
  <2>3. seed <= accepted
      BY <2>1, <1>0 DEF QueueInv, InHand
  <2>4. Len(Run(0, seed)) = seed /\ (Run(0, seed) = <<>> <=> seed = 0)
      BY <2>1, RunIs
  <2> QED
      BY <1>1, <2>1, <2>2, <2>3, <2>4
<1>2. CASE init = "ready"
  <2>1. active \in {"waiting", "storing"} /\ Stored = cursor /\ Writing = Len(batch)
      BY <1>2 DEF Stored, Writing
  <2>2. cursor \in Nat /\ Len(batch) \in Nat /\ batch = Run(cursor, Len(batch))
      BY <1>0, <2>1 DEF QueueInv
  <2>3. Fresh = batch
      BY <2>2, <1>2, FreshBatch
  <2>4. cursor + Len(batch) <= accepted
      BY <2>1, <2>2, <1>0 DEF QueueInv, InHand
  <2> QED
      BY <1>2, <2>1, <2>2, <2>3, <2>4, RunIs
<1> QED
    BY <1>1, <1>2

-----------------------------------------------------------------------------
(* Steps that leave the file alone *)

LEMMA Assembled ==
    ASSUME FlagsOK', DataOK', host' = "live",
           QueueInv', WriteInv', TimerInv', CallInv', FileInv'
    PROVE  Inv'
BY DEF Inv, LiveInv

LEMMA LiveParts ==
    ASSUME Assumptions, Inv, host = "live"
    PROVE  /\ FlagsOK /\ DataOK /\ QueueInv /\ WriteInv /\ TimerInv /\ CallInv /\ FileInv
           /\ MaxEvents \in Nat /\ Len(pending) \in Nat /\ Len(batch) \in Nat
           /\ InHand \in Nat /\ Stored \in Nat
BY DEF Inv, LiveInv, Assumptions, DataOK, InHand, Stored

LEMMA FileKept ==
    ASSUME DataOK, FileInv, MaxEvents \in Nat,
           UNCHANGED <<storing, before, lines, synced, entry, init, cursor, materialized, seed>>,
           accepted' \in Nat, accepted <= accepted',
           active' = "storing" <=> active = "storing",
           active = "storing" => batch' = batch /\ faulted' = faulted
    PROVE  FileInv'
<1>1. storing # "idle" => Writing' = Writing
    BY DEF FileInv, Writing
<1>2. storing = "torn" => faulted' = faulted
    BY DEF FileInv
<1>3. Len(lines) \in Nat /\ accepted \in Nat
    BY DEF DataOK
<1> QED
    BY <1>1, <1>2, <1>3 DEF FileInv

LEMMA QueueKept ==
    ASSUME QueueInv, UNCHANGED <<pending, init, cursor, seed, accepted>>, acked' <= cursor',
           active' \in {"waiting", "storing", "rejected"} <=>
              active \in {"waiting", "storing", "rejected"},
           active \in {"waiting", "storing", "rejected"} => batch' = batch
    PROVE  QueueInv'
<1>1. Stored' = Stored /\ InHand' = InHand
    BY DEF Stored, InHand
<1> QED
    BY <1>1 DEF QueueInv

\* A write takes the whole queue: one of the background, or one of a barrier.
LEMMA StartWriteKeeps ==
    ASSUME Assumptions, Inv, host = "live", active = "none", pending # <<>>,
           NEW d \in BOOLEAN, StartWrite(d),
           UNCHANGED <<init, cursor, materialized, seed, storing, before, lines, synced,
                       entry, host, accepted, need, acked, faults, crashes>>,
           automaticPaused' \in BOOLEAN, continuation' \in BOOLEAN,
           d => barrier' = "none" /\ ~continuation' /\ call' = call,
           d => barrier = "none",
           ~d => barrier' = "write" /\ init = "ready",
           call' \in [Flushers -> {"none", "init", "barrier", "resolved", "rejected"}],
           call'["retire"] = "resolved" => call["retire"] = "resolved"
    PROVE  Inv'
<1>a. /\ FlagsOK /\ DataOK /\ QueueInv /\ WriteInv /\ TimerInv /\ CallInv /\ FileInv
      /\ MaxEvents \in Nat /\ Len(pending) \in Nat /\ Len(batch) \in Nat
      /\ InHand \in Nat /\ Stored \in Nat
    BY LiveParts
<1> USE <1>a
<1>1. /\ batch' = pending /\ pending' = <<>> /\ active' = "waiting"
      /\ ~timer' /\ ~deadlineExpired' /\ ~faulted' /\ (background' <=> d)
    BY Zenon DEF StartWrite
<1>2. FlagsOK'
    BY Zenon DEF StartWrite, FlagsOK
<1>3. DataOK'
  <2>1. barrier' \in Awaits /\ active' \in Phases
      BY <1>1, d \in {TRUE, FALSE} DEF Awaits, Phases
  <2> QED
      BY <1>1, <2>1 DEF DataOK
<1>4. QueueInv'
  <2>1. Stored' = Stored /\ InHand = 0 /\ InHand' = Len(pending) /\ Len(pending') = 0
      BY <1>1 DEF Stored, InHand
  <2>2. pending = Run(Stored, Len(pending)) /\ Stored + Len(pending) = accepted
      BY <2>1 DEF QueueInv
  <2>3. pending' = Run(Stored' + InHand', Len(pending'))
      BY <1>1, <2>1, RunEmpty
  <2>4. Stored' + InHand' + Len(pending') = accepted'
      BY <2>1, <2>2
  <2> QED
      BY <1>1, <2>1, <2>2, <2>3, <2>4 DEF QueueInv
<1>5. WriteInv'
    BY <1>1, d \in {TRUE, FALSE} DEF WriteInv
<1>6. TimerInv'
    BY <1>1, d \in {TRUE, FALSE} DEF TimerInv
<1>7. CallInv'
  <2>1. call["retire"] # "resolved"
      BY DEF CallInv
  <2>2. \A c \in Flushers : call'[c] = "barrier" => barrier' # "none"
      BY d \in {TRUE, FALSE} DEF CallInv
  <2> QED
      BY <2>1, <2>2 DEF CallInv
<1>8. FileInv'
    BY <1>1, FileKept DEF DataOK
<1> QED
    BY <1>2, <1>3, <1>4, <1>5, <1>6, <1>7, <1>8, Assembled, Zenon

LEMMA EnqueueKeeps == ASSUME Assumptions, Inv, Enqueue PROVE Inv'
<1>0. host = "live" /\ host' = "live"
    BY DEF Enqueue, past
<1> USE <1>0
<1>a. /\ FlagsOK /\ DataOK /\ QueueInv /\ WriteInv /\ TimerInv /\ CallInv /\ FileInv
      /\ MaxEvents \in Nat /\ Len(pending) \in Nat /\ Len(batch) \in Nat
      /\ InHand \in Nat /\ Stored \in Nat
    BY LiveParts
<1> USE <1>a
<1>1. /\ accepted' = accepted + 1 /\ accepted < MaxEvents /\ call["retire"] = "none"
      /\ pending' = Append(pending, accepted + 1)
      /\ UNCHANGED <<active, background, batch, continuation, barrier, init, cursor,
             materialized, seed, call, storing, before, lines, synced, entry, need, acked,
             faults, crashes, faulted>>
    BY DEF Enqueue, owner, disk
<1>2. /\ barrier = "none" /\ automaticPaused => timer' /\ ~deadlineExpired'
      /\ barrier = "none" /\ pending = <<>> => timer'
      /\ ~ (barrier = "none" /\ automaticPaused) =>
            (automaticPaused' <=> automaticPaused) /\ (deadlineExpired' <=> deadlineExpired)
      /\ timer => timer'
      /\ timer' => timer \/ barrier = "none"
      /\ deadlineExpired' => deadlineExpired
      /\ timer' \in BOOLEAN /\ deadlineExpired' \in BOOLEAN /\ automaticPaused' \in BOOLEAN
    BY Zenon DEF Enqueue, FlagsOK
<1>3. FlagsOK'
    BY <1>1, <1>2, Zenon DEF FlagsOK
<1>4. DataOK'
    BY <1>1 DEF DataOK
<1>5. QueueInv'
  <2>1. Stored' = Stored /\ InHand' = InHand /\ Len(pending') = Len(pending) + 1
      BY <1>1 DEF Stored, InHand, DataOK
  <2>2. pending' = Run(Stored + InHand, Len(pending) + 1)
      BY <1>1, RunAppend, Stored + InHand \in Nat DEF QueueInv, DataOK
  <2>3. Stored' + InHand' + Len(pending') = accepted'
      BY <1>1, <2>1 DEF QueueInv, DataOK
  <2>4. pending' = Run(Stored' + InHand', Len(pending'))
      BY <2>1, <2>2, Zenon
  <2>5. active' = active /\ batch' = batch /\ acked' = acked /\ cursor' = cursor
      BY <1>1
  <2> QED
      BY <2>1, <2>3, <2>4, <2>5, Zenon DEF QueueInv
<1>6. WriteInv'
    BY <1>1 DEF WriteInv, Stuck
<1>7. TimerInv'
  <2>1. pending' # <<>>
    <3>1. pending \in Seq(1 .. MaxEvents)
        BY DEF DataOK
    <3>2. accepted + 1 \in 1 .. MaxEvents
        BY <1>1 DEF DataOK
    <3> QED
        BY <1>1, <3>1, <3>2
  <2> QED
      BY <1>1, <1>2, <2>1 DEF TimerInv
<1>8. CallInv'
    BY <1>1 DEF CallInv, DataOK
<1>9. FileInv'
    BY <1>1, FileKept DEF DataOK
<1> QED
    BY <1>3, <1>4, <1>5, <1>6, <1>7, <1>8, <1>9, Assembled, Zenon

LEMMA DeadlineKeeps == ASSUME Assumptions, Inv, Deadline PROVE Inv'
<1>0. host = "live" /\ host' = "live"
    BY Zenon DEF Deadline, Inv, GoneInv
<1> USE <1>0
<1>a. /\ FlagsOK /\ DataOK /\ QueueInv /\ WriteInv /\ TimerInv /\ CallInv /\ FileInv
      /\ MaxEvents \in Nat /\ Len(pending) \in Nat /\ Len(batch) \in Nat
      /\ InHand \in Nat /\ Stored \in Nat
    BY LiveParts
<1> USE <1>a
<1>1. /\ UNCHANGED <<automaticPaused, continuation, barrier, init, cursor, materialized, seed,
             call, storing, before, lines, synced, entry, accepted, need, acked, faults, crashes>>
      /\ timer /\ active \notin {"stored", "rejected", "caught"} /\ ~continuation
    BY Zenon DEF Deadline, Quiet, owner, disk
<1>a1. pending # <<>> /\ barrier = "none"
    BY <1>1 DEF TimerInv
<1>b. CASE active # "none"
  <2>1. ~timer' /\ deadlineExpired' /\ UNCHANGED <<batch, pending, active, background, faulted>>
      BY <1>b, Zenon DEF Deadline
  <2>2. FlagsOK'
      BY <1>1, <1>b, Zenon DEF Deadline, FlagsOK
  <2>3. DataOK'
      BY <1>1, <2>1 DEF DataOK
  <2>4. QueueInv'
      BY <1>1, <2>1, QueueKept DEF QueueInv
  <2>5. WriteInv'
      BY <1>1, <2>1 DEF WriteInv, Stuck
  <2>6. TimerInv'
      BY <1>1, <1>a1, <1>b, <2>1 DEF TimerInv
  <2>7. CallInv'
      BY <1>1, <2>1 DEF CallInv
  <2>8. FileInv'
      BY <1>1, <2>1, FileKept DEF DataOK
  <2> QED
      BY <2>2, <2>3, <2>4, <2>5, <2>6, <2>7, <2>8, Assembled, Zenon
<1>c. CASE active = "none"
  <2>1. StartWrite(TRUE)
      BY <1>c, Zenon DEF Deadline
  <2> QED
      BY <1>1, <1>a1, <1>c, <2>1, StartWriteKeeps, Zenon DEF FlagsOK, DataOK
<1> QED
    BY <1>b, <1>c

LEMMA WriteStoredKeeps == ASSUME Assumptions, Inv, WriteStored PROVE Inv'
<1>0. host = "live" /\ host' = "live"
    BY Zenon DEF WriteStored, past, Inv, GoneInv
<1> USE <1>0
<1>a. /\ FlagsOK /\ DataOK /\ QueueInv /\ WriteInv /\ TimerInv /\ CallInv /\ FileInv
      /\ MaxEvents \in Nat /\ Len(pending) \in Nat /\ Len(batch) \in Nat
      /\ InHand \in Nat /\ Stored \in Nat
    BY LiveParts
<1> USE <1>a
<1>1. /\ active = "stored" /\ active' = "none"
      /\ UNCHANGED <<pending, timer, deadlineExpired, automaticPaused, background, batch,
             init, cursor, materialized, seed, call, storing, before, lines, synced, entry,
             accepted, need, acked, faults, crashes, faulted>>
      /\ background => continuation' /\ barrier' = barrier
      /\ ~background => barrier' = "drained" /\ (continuation' <=> continuation)
    BY Zenon DEF WriteStored, owner, disk, past
<1>2. FlagsOK'
    BY <1>1, Zenon DEF WriteStored, FlagsOK
<1>3. DataOK'
  <2>1. barrier' \in Awaits /\ active' \in Phases
      BY <1>1 DEF DataOK, Awaits, Phases
  <2> QED
      BY <1>1, <2>1 DEF DataOK
<1>4. QueueInv'
    BY <1>1, QueueKept DEF QueueInv
<1>5. WriteInv'
    BY <1>1 DEF WriteInv, Stuck
<1>6. TimerInv'
    BY <1>1 DEF WriteInv, TimerInv
<1>7. CallInv'
    BY <1>1 DEF CallInv
<1>8. FileInv'
    BY <1>1, FileKept DEF DataOK
<1> QED
    BY <1>2, <1>3, <1>4, <1>5, <1>6, <1>7, <1>8, Assembled, Zenon

LEMMA CatchFailureKeeps == ASSUME Assumptions, Inv, CatchFailure PROVE Inv'
<1>0. host = "live" /\ host' = "live"
    BY Zenon DEF CatchFailure, past, Inv, GoneInv
<1> USE <1>0
<1>a. /\ FlagsOK /\ DataOK /\ QueueInv /\ WriteInv /\ TimerInv /\ CallInv /\ FileInv
      /\ MaxEvents \in Nat /\ Len(pending) \in Nat /\ Len(batch) \in Nat
      /\ InHand \in Nat /\ Stored \in Nat
    BY LiveParts
<1> USE <1>a
<1>1. /\ active = "rejected" /\ active' = "caught" /\ pending' = batch \o pending
      /\ ~timer' /\ ~deadlineExpired' /\ automaticPaused'
      /\ UNCHANGED <<background, batch, continuation, barrier, init, cursor, materialized,
             seed, call, storing, before, lines, synced, entry, accepted, need, acked,
             faults, crashes, faulted>>
    BY Zenon DEF CatchFailure, owner, disk, past
<1>2. FlagsOK'
    BY <1>1, Zenon DEF CatchFailure, FlagsOK
<1>3. DataOK'
  <2>1. active' \in Phases
      BY <1>1 DEF Phases
  <2> QED
      BY <1>1, <2>1 DEF DataOK
<1>4. QueueInv'
  <2>1. Stored' = Stored /\ InHand = Len(batch) /\ InHand' = 0
      BY <1>1 DEF Stored, InHand
  <2>2. batch = Run(Stored, Len(batch)) /\ pending = Run(Stored + Len(batch), Len(pending))
      BY <1>1, <2>1 DEF QueueInv
  <2>3. pending' = Run(Stored, Len(batch) + Len(pending))
    <3> DEFINE n == Len(batch)
               m == Len(pending)
    <3>1. n \in Nat /\ m \in Nat /\ batch = Run(Stored, n) /\ pending = Run(Stored + n, m)
        BY <2>2
    <3> HIDE DEF n, m
    <3>2. Run(Stored, n) \o Run(Stored + n, m) = Run(Stored, n + m)
        BY <3>1, RunConcat
    <3>3. pending' = Run(Stored, n + m)
        BY <1>1, <3>1, <3>2, Zenon
    <3> QED
        BY <3>3 DEF n, m
  <2>4. Len(pending') = Len(batch) + Len(pending)
      BY <2>3, RunIs
  <2>5. Stored + Len(batch) + Len(pending) = accepted
      BY <2>1 DEF QueueInv
  <2> QED
      BY <1>1, <2>1, <2>3, <2>4, <2>5 DEF QueueInv
<1>5. WriteInv'
    BY <1>1 DEF WriteInv, Stuck
<1>6. TimerInv'
    BY <1>1 DEF WriteInv, TimerInv
<1>7. CallInv'
    BY <1>1 DEF CallInv
<1>8. FileInv'
    BY <1>1, FileKept DEF DataOK
<1> QED
    BY <1>2, <1>3, <1>4, <1>5, <1>6, <1>7, <1>8, Assembled, Zenon

LEMMA WriteFailedKeeps == ASSUME Assumptions, Inv, WriteFailed PROVE Inv'
<1>0. host = "live" /\ host' = "live"
    BY Zenon DEF WriteFailed, past, Inv, GoneInv
<1> USE <1>0
<1>a. /\ FlagsOK /\ DataOK /\ QueueInv /\ WriteInv /\ TimerInv /\ CallInv /\ FileInv
      /\ MaxEvents \in Nat /\ Len(pending) \in Nat /\ Len(batch) \in Nat
      /\ InHand \in Nat /\ Stored \in Nat
    BY LiveParts
<1> USE <1>a
<1>1. /\ active = "caught" /\ active' = "none"
      /\ background => barrier' = barrier
      /\ ~background => barrier' = "failed"
      /\ UNCHANGED <<pending, timer, deadlineExpired, automaticPaused, background, batch,
             continuation, init, cursor, materialized, seed, call, storing, before, lines,
             synced, entry, accepted, need, acked, faults, crashes, faulted>>
    BY Zenon DEF WriteFailed, owner, disk, past
<1>2. FlagsOK'
    BY <1>1, Zenon DEF FlagsOK
<1>3. DataOK'
  <2>1. barrier' \in Awaits /\ active' \in Phases
      BY <1>1 DEF DataOK, Awaits, Phases
  <2> QED
      BY <1>1, <2>1 DEF DataOK
<1>4. QueueInv'
    BY <1>1, QueueKept DEF QueueInv
<1>5. WriteInv'
    BY <1>1 DEF WriteInv, Stuck
<1>6. TimerInv'
    BY <1>1 DEF WriteInv, TimerInv
<1>7. CallInv'
    BY <1>1 DEF CallInv
<1>8. FileInv'
    BY <1>1, FileKept DEF DataOK
<1> QED
    BY <1>2, <1>3, <1>4, <1>5, <1>6, <1>7, <1>8, Assembled, Zenon

LEMMA ContinueAutomaticKeeps == ASSUME Assumptions, Inv, ContinueAutomatic PROVE Inv'
<1>0. host = "live" /\ host' = "live"
    BY Zenon DEF ContinueAutomatic, Inv, GoneInv
<1> USE <1>0
<1>a. /\ FlagsOK /\ DataOK /\ QueueInv /\ WriteInv /\ TimerInv /\ CallInv /\ FileInv
      /\ MaxEvents \in Nat /\ Len(pending) \in Nat /\ Len(batch) \in Nat
      /\ InHand \in Nat /\ Stored \in Nat
    BY LiveParts
<1> USE <1>a
<1>1. /\ continuation /\ ~continuation'
      /\ UNCHANGED <<automaticPaused, barrier, init, cursor, materialized, seed, call,
             storing, before, lines, synced, entry, accepted, need, acked, faults, crashes>>
    BY Zenon DEF ContinueAutomatic, owner, disk
<1>b. CASE barrier = "none" /\ pending # <<>> /\ deadlineExpired
  <2>1. StartWrite(TRUE)
      BY <1>b, Zenon DEF ContinueAutomatic
  <2>2. active = "none"
      BY <1>1, <1>b DEF WriteInv
  <2>3. continuation' \in BOOLEAN
      BY Zenon DEF ContinueAutomatic
  <2> QED
      BY <1>1, <1>b, <2>1, <2>2, <2>3, StartWriteKeeps, Zenon DEF FlagsOK, DataOK
<1>c. CASE ~ (barrier = "none" /\ pending # <<>> /\ deadlineExpired)
  <2>1. UNCHANGED <<pending, timer, deadlineExpired, active, background, batch, faulted>>
      BY <1>c, Zenon DEF ContinueAutomatic
  <2>2. FlagsOK'
      BY <1>1, <2>1, Zenon DEF ContinueAutomatic, FlagsOK
  <2>3. DataOK'
      BY <1>1, <2>1 DEF DataOK
  <2>4. QueueInv'
      BY <1>1, <2>1, QueueKept DEF QueueInv
  <2>5. WriteInv'
      BY <1>1, <2>1 DEF WriteInv, Stuck
  <2>6. TimerInv'
      BY <1>1, <1>c, <2>1 DEF TimerInv
  <2>7. CallInv'
      BY <1>1, <2>1 DEF CallInv
  <2>8. FileInv'
      BY <1>1, <2>1, FileKept DEF DataOK
  <2> QED
      BY <2>2, <2>3, <2>4, <2>5, <2>6, <2>7, <2>8, Assembled, Zenon
<1> QED
    BY <1>b, <1>c

LEMMA CallFlushKeeps ==
    ASSUME Assumptions, Inv, NEW c \in Flushers, CallFlush(c),
           c = "retire" => call["retire"] = "none"
    PROVE  Inv'
<1>0. host = "live" /\ host' = "live"
    BY Zenon DEF CallFlush
<1> USE <1>0
<1>a. /\ FlagsOK /\ DataOK /\ QueueInv /\ WriteInv /\ TimerInv /\ CallInv /\ FileInv
      /\ MaxEvents \in Nat /\ Len(pending) \in Nat /\ Len(batch) \in Nat
      /\ InHand \in Nat /\ Stored \in Nat
    BY LiveParts
<1> USE <1>a
<1>1. /\ call[c] \notin {"init", "barrier"} /\ call' = [call EXCEPT ![c] = "init"]
      /\ need' = [need EXCEPT ![c] = accepted] /\ ~timer' /\ ~deadlineExpired'
      /\ UNCHANGED <<pending, automaticPaused, active, background, batch, continuation,
             barrier, init, cursor, materialized, seed, storing, before, lines, synced,
             entry, accepted, acked, faults, crashes, faulted>>
    BY Zenon DEF CallFlush, owner, disk
<1>2. FlagsOK'
    BY <1>1, Zenon DEF CallFlush, FlagsOK
<1>3. DataOK'
    BY <1>1 DEF DataOK
<1>4. QueueInv'
    BY <1>1, QueueKept DEF QueueInv
<1>5. WriteInv'
    BY <1>1 DEF WriteInv, Stuck
<1>6. TimerInv'
  <2>1. call'[c] = "init"
      BY <1>1 DEF DataOK
  <2> QED
      BY <1>1, <2>1 DEF TimerInv
<1>7. CallInv'
  <2>1. \A d \in Flushers : call'[d] = IF d = c THEN "init" ELSE call[d]
      BY <1>1 DEF DataOK
  <2>2. \A d \in Flushers : need'[d] = IF d = c THEN accepted ELSE need[d]
      BY <1>1 DEF DataOK
  <2>3. "retire" \in Flushers /\ accepted \in Nat
      BY DEF Flushers, DataOK
  <2> QED
      BY <1>1, <2>1, <2>2, <2>3 DEF CallInv
<1>8. FileInv'
    BY <1>1, FileKept DEF DataOK
<1> QED
    BY <1>2, <1>3, <1>4, <1>5, <1>6, <1>7, <1>8, Assembled, Zenon

-----------------------------------------------------------------------------
(* Flushes and the barrier *)

Answers == {"none", "init", "barrier", "resolved", "rejected"}

\* The last event a resolving barrier answers for has been stored.
LEMMA AckedBounded ==
    ASSUME Assumptions, Inv, host = "live", pending = <<>>, active = "none", init = "ready",
           NEW calls, acked' = Max({acked} \cup
               {need[c] : c \in {d \in Flushers : calls[d] = "barrier"}})
    PROVE  /\ accepted = cursor /\ acked' \in 0 .. MaxEvents
           /\ acked <= acked' /\ acked' <= cursor
<1>a. /\ FlagsOK /\ DataOK /\ QueueInv /\ WriteInv /\ TimerInv /\ CallInv /\ FileInv
      /\ MaxEvents \in Nat /\ Len(pending) \in Nat /\ Len(batch) \in Nat
      /\ InHand \in Nat /\ Stored \in Nat
    BY LiveParts
<1> USE <1>a
<1>1. accepted = cursor /\ accepted \in 0 .. MaxEvents
    BY DEF QueueInv, Stored, InHand, DataOK
<1> DEFINE S == {acked} \cup {need[c] : c \in {d \in Flushers : calls[d] = "barrier"}}
<1>2. S \in SUBSET (0 .. accepted) /\ S # {} /\ acked \in S
    BY <1>1 DEF DataOK, QueueInv, CallInv
<1>3. accepted \in Nat /\ acked' = Max(S)
    BY <1>1
<1> HIDE DEF S
<1>4. acked' \in S /\ acked' >= acked
    BY <1>2, <1>3, MaxExists
<1>5. acked' \in 0 .. accepted
    BY <1>2, <1>4
<1>6. acked \in Nat
    BY DEF DataOK
<1> QED
    BY <1>1, <1>4, <1>5, <1>6

LEMMA DrainKeeps ==
    ASSUME Assumptions, Inv, host = "live", active = "none", init = "ready",
           NEW calls \in [Flushers -> Answers], Drain(calls),
           \A c \in Flushers : calls[c] = call[c] \/ calls[c] = "barrier",
           UNCHANGED <<continuation, init, cursor, materialized, seed, storing, before, lines,
                       synced, entry, host, accepted, need, faults, crashes>>,
           automaticPaused' \in BOOLEAN
    PROVE  Inv'
<1>0. host' = "live"
    OBVIOUS
<1> USE <1>0
<1>a. /\ FlagsOK /\ DataOK /\ QueueInv /\ WriteInv /\ TimerInv /\ CallInv /\ FileInv
      /\ MaxEvents \in Nat /\ Len(pending) \in Nat /\ Len(batch) \in Nat
      /\ InHand \in Nat /\ Stored \in Nat
    BY LiveParts
<1> USE <1>a
<1>b. CASE pending # <<>>
  <2>1. StartWrite(FALSE) /\ barrier' = "write" /\ call' = calls /\ acked' = acked
      BY <1>b, Zenon DEF Drain
  <2>2. continuation' \in BOOLEAN /\ "retire" \in Flushers
      BY Zenon DEF FlagsOK, Flushers
  <2>3. call'["retire"] = "resolved" => call["retire"] = "resolved"
      BY <2>1, <2>2
  <2>4. call' \in [Flushers -> {"none", "init", "barrier", "resolved", "rejected"}]
      BY <2>1 DEF Answers
  <2> QED
      BY <1>b, <2>1, <2>2, <2>3, <2>4, StartWriteKeeps, Zenon
<1>c. CASE pending = <<>>
  <2>1. /\ barrier' = "none" /\ ~timer' /\ ~deadlineExpired' /\ call' = Answered(calls, "resolved")
        /\ UNCHANGED <<pending, batch, active, background, faulted>>
      BY <1>c, Zenon DEF Drain
  <2>2. accepted = cursor /\ acked' \in 0 .. MaxEvents /\ acked' <= cursor
    <3>1. acked' = Max({acked} \cup {need[c] : c \in {d \in Flushers : calls[d] = "barrier"}})
        BY <1>c, Zenon DEF Drain
    <3> QED
        BY <1>c, <3>1, AckedBounded
  <2>3. \A c \in Flushers : call'[c] = IF calls[c] = "barrier" THEN "resolved" ELSE calls[c]
      BY <2>1 DEF Answered
  <2>4. call' \in [Flushers -> Answers] /\ \A c \in Flushers : call'[c] # "barrier"
    <3>1. call' \in [Flushers -> Answers]
        BY <2>1 DEF Answered, Answers
    <3> QED
        BY <2>3, <3>1
  <2>5. FlagsOK'
      BY <1>c, <2>1, Zenon DEF Drain, FlagsOK
  <2>6. DataOK'
    <3>1. barrier' \in Awaits
        BY <2>1 DEF Awaits
    <3> QED
        BY <2>1, <2>2, <2>4, <3>1 DEF DataOK, Answers
  <2>7. QueueInv'
      BY <2>1, <2>2, QueueKept
  <2>8. WriteInv'
      BY <2>1 DEF WriteInv, Stuck
  <2>9. TimerInv'
      BY <1>c, <2>1 DEF TimerInv
  <2>10. CallInv'
      BY <1>c, <2>1, <2>4 DEF CallInv
  <2>11. FileInv'
      BY <2>1, FileKept DEF DataOK
  <2> QED
      BY <2>5, <2>6, <2>7, <2>8, <2>9, <2>10, <2>11, Assembled, Zenon
<1> QED
    BY <1>b, <1>c

LEMMA AwaitInitKeeps ==
    ASSUME Assumptions, Inv, NEW c \in Flushers, AwaitInit(c)
    PROVE  Inv'
<1>0. host = "live" /\ host' = "live"
    BY Zenon DEF AwaitInit, Inv, GoneInv
<1> USE <1>0
<1>a. /\ FlagsOK /\ DataOK /\ QueueInv /\ WriteInv /\ TimerInv /\ CallInv /\ FileInv
      /\ MaxEvents \in Nat /\ Len(pending) \in Nat /\ Len(batch) \in Nat
      /\ InHand \in Nat /\ Stored \in Nat
    BY LiveParts
<1> USE <1>a
<1> DEFINE joined == [call EXCEPT ![c] = "barrier"]
<1>1. /\ call[c] = "init"
      /\ UNCHANGED <<continuation, init, cursor, materialized, seed, storing, before, lines,
             synced, entry, accepted, need, faults, crashes>>
    BY Zenon DEF AwaitInit, owner, disk
<1>2. /\ joined \in [Flushers -> Answers] /\ joined[c] = "barrier"
      /\ \A d \in Flushers : joined[d] = call[d] \/ joined[d] = "barrier"
      /\ \A d \in Flushers \ {c} : joined[d] = call[d]
    BY DEF DataOK, Answers
<1>b. CASE init = "failed"
  <2>1. /\ ~timer' /\ ~deadlineExpired' /\ call' = [call EXCEPT ![c] = "rejected"]
        /\ UNCHANGED <<pending, automaticPaused, active, background, batch, barrier, acked,
                       faulted>>
      BY <1>b, Zenon DEF AwaitInit
  <2>2. FlagsOK'
      BY <1>1, <1>b, <2>1, Zenon DEF AwaitInit, FlagsOK
  <2>3. DataOK'
      BY <1>1, <2>1 DEF DataOK
  <2>4. QueueInv'
      BY <1>1, <2>1, QueueKept DEF QueueInv
  <2>5. WriteInv'
      BY <1>1, <2>1 DEF WriteInv, Stuck
  <2>6. TimerInv'
      BY <1>1, <1>b, <2>1 DEF TimerInv, WriteInv
  <2>7. CallInv'
    <3>1. \A d \in Flushers : call'[d] \in {"resolved", "barrier"} => call'[d] = call[d]
        BY <2>1 DEF DataOK
    <3> QED
        BY <1>1, <2>1, <3>1 DEF CallInv, Flushers
  <2>8. FileInv'
      BY <1>1, <2>1, FileKept DEF DataOK
  <2> QED
      BY <2>2, <2>3, <2>4, <2>5, <2>6, <2>7, <2>8, Assembled, Zenon
<1>c. CASE init = "ready" /\ barrier # "none"
  <2>1. /\ call' = joined
        /\ UNCHANGED <<pending, timer, deadlineExpired, automaticPaused, active, background,
                       batch, barrier, acked, faulted>>
    BY <1>c, Zenon DEF AwaitInit, behind
  <2>2. FlagsOK'
      BY <1>1, <2>1, Zenon DEF FlagsOK
  <2> HIDE DEF joined
  <2>3. DataOK'
      BY <1>1, <1>2, <2>1 DEF DataOK, Answers
  <2>4. QueueInv'
      BY <1>1, <2>1, QueueKept DEF QueueInv
  <2>5. WriteInv'
      BY <1>1, <2>1 DEF WriteInv, Stuck
  <2>6. TimerInv'
      BY <1>1, <1>c, <2>1 DEF TimerInv
  <2>7. CallInv'
      BY <1>1, <1>2, <1>c, <2>1 DEF CallInv, Flushers
  <2>8. FileInv'
      BY <1>1, <2>1, FileKept DEF DataOK
  <2> QED
      BY <2>2, <2>3, <2>4, <2>5, <2>6, <2>7, <2>8, Assembled, Zenon
<1>d. CASE init = "ready" /\ barrier = "none" /\ active # "none"
  <2>1. /\ call' = joined /\ barrier' = "overlap"
        /\ ~timer' /\ ~deadlineExpired'
        /\ UNCHANGED <<pending, active, background, batch, acked, faulted>>
    BY <1>d, Zenon DEF AwaitInit
  <2>2. FlagsOK'
      BY <1>1, <1>d, <2>1, Zenon DEF AwaitInit, FlagsOK
  <2> HIDE DEF joined
  <2>3. DataOK'
    <3>1. barrier' \in Awaits
        BY <2>1 DEF Awaits
    <3> QED
        BY <1>1, <1>2, <2>1, <3>1 DEF DataOK, Answers
  <2>4. QueueInv'
      BY <1>1, <2>1, QueueKept DEF QueueInv
  <2>5. WriteInv'
      BY <1>1, <1>d, <2>1 DEF WriteInv, Stuck
  <2>6. TimerInv'
      BY <1>1, <1>d, <2>1 DEF TimerInv
  <2>7. CallInv'
      BY <1>1, <1>2, <1>d, <2>1 DEF CallInv, Flushers
  <2>8. FileInv'
      BY <1>1, <2>1, FileKept DEF DataOK
  <2> QED
      BY <2>2, <2>3, <2>4, <2>5, <2>6, <2>7, <2>8, Assembled, Zenon
<1>e. CASE init = "ready" /\ barrier = "none" /\ active = "none"
  <2>1. ~automaticPaused' /\ Drain(joined) /\ automaticPaused' \in BOOLEAN
      BY <1>e, Zenon DEF AwaitInit
  <2> HIDE DEF joined
  <2> QED
      BY <1>1, <1>2, <1>e, <2>1, DrainKeeps, Zenon
<1> QED
    BY <1>b, <1>c, <1>d, <1>e, Zenon DEF AwaitInit

LEMMA ResumeBarrierKeeps == ASSUME Assumptions, Inv, ResumeBarrier PROVE Inv'
<1>0. host = "live" /\ host' = "live"
    BY Zenon DEF ResumeBarrier, Inv, GoneInv
<1> USE <1>0
<1>a. /\ FlagsOK /\ DataOK /\ QueueInv /\ WriteInv /\ TimerInv /\ CallInv /\ FileInv
      /\ MaxEvents \in Nat /\ Len(pending) \in Nat /\ Len(batch) \in Nat
      /\ InHand \in Nat /\ Stored \in Nat
    BY LiveParts
<1> USE <1>a
<1>1. UNCHANGED <<continuation, init, cursor, materialized, seed, storing, before, lines,
             synced, entry, accepted, need, faults, crashes>>
    BY Zenon DEF ResumeBarrier, owner, disk
<1>2. barrier \in {"overlap", "drained", "failed"}
    BY DEF ResumeBarrier
<1>b. CASE barrier # "failed"
  <2>1. Drain(call) /\ automaticPaused' \in BOOLEAN
      BY <1>b, Zenon DEF ResumeBarrier, FlagsOK
  <2>2. active = "none" /\ init = "ready"
      BY <1>b DEF ResumeBarrier, WriteInv
  <2>3. call \in [Flushers -> Answers]
      BY DEF DataOK, Answers
  <2> QED
      BY <1>1, <2>1, <2>2, <2>3, DrainKeeps, Zenon
<1>c. CASE barrier = "failed"
  <2>1. /\ barrier' = "none" /\ call' = Answered(call, "rejected")
        /\ UNCHANGED <<pending, timer, deadlineExpired, automaticPaused, active, background,
                       batch, acked, faulted>>
      BY <1>c DEF ResumeBarrier
  <2>2. FlagsOK'
      BY <1>1, <2>1, Zenon DEF FlagsOK
  <2>3. call' \in [Flushers -> Answers] /\ \A c \in Flushers : call'[c] # "barrier"
      BY <2>1 DEF Answered, DataOK, Answers
  <2>4. \A c \in Flushers : call'[c] = "resolved" => call[c] = "resolved"
      BY <2>1 DEF Answered
  <2>5. DataOK'
    <3>1. barrier' \in Awaits
        BY <2>1 DEF Awaits
    <3> QED
        BY <1>1, <2>1, <2>3, <3>1 DEF DataOK, Answers
  <2>6. QueueInv'
      BY <1>1, <2>1, QueueKept DEF QueueInv
  <2>7. WriteInv'
      BY <1>1, <1>c, <2>1 DEF WriteInv, Stuck
  <2>8. TimerInv'
      BY <1>1, <1>c, <2>1 DEF TimerInv
  <2>9. CallInv'
      BY <1>1, <1>c, <2>1, <2>3, <2>4 DEF CallInv, Flushers
  <2>10. FileInv'
      BY <1>1, <2>1, FileKept DEF DataOK
  <2> QED
      BY <2>2, <2>5, <2>6, <2>7, <2>8, <2>9, <2>10, Assembled, Zenon
<1> QED
    BY <1>b, <1>c

-----------------------------------------------------------------------------
(* Storage calls *)

Alone == UNCHANGED <<pending, timer, deadlineExpired, automaticPaused, background, batch,
                     continuation, barrier, call, host, accepted, need, acked, crashes, seed>>

\* A storage call that fails rejects live.init or the write it is for.
LEMMA StoreFailedKeeps ==
    ASSUME Assumptions, Inv, host = "live", Alone, StoreFailed,
           init = "seeding" \/ active \in {"waiting", "storing"},
           init = "ready" => faulted' \/ Stuck', faulted' \in BOOLEAN
    PROVE  /\ FlagsOK' /\ QueueInv' /\ WriteInv' /\ TimerInv' /\ CallInv'
           /\ active' \in Phases /\ init' \in {"seeding", "ready", "failed"}
           /\ storing' = "idle" /\ cursor' = cursor /\ materialized' = materialized
           /\ active' # "storing" /\ (init' = "ready" <=> init = "ready")
<1>a. /\ FlagsOK /\ DataOK /\ QueueInv /\ WriteInv /\ TimerInv /\ CallInv /\ FileInv
      /\ MaxEvents \in Nat /\ Len(pending) \in Nat /\ Len(batch) \in Nat
      /\ InHand \in Nat /\ Stored \in Nat
    BY LiveParts
<1> USE <1>a
<1>1. /\ UNCHANGED <<pending, timer, deadlineExpired, automaticPaused, background, batch,
             continuation, barrier, call, host, accepted, need, acked, crashes, seed, cursor,
             materialized>>
      /\ storing' = "idle"
      /\ init = "seeding" => init' = "failed" /\ active' = active
      /\ init # "seeding" => init' = init /\ active' = "rejected"
    BY Zenon DEF Alone, StoreFailed
<1>2. FlagsOK'
    BY <1>1, Zenon DEF FlagsOK
<1>3. active' \in Phases /\ init' \in {"seeding", "ready", "failed"}
    BY <1>1 DEF DataOK, Phases
<1>4. QueueInv'
  <2>1. Stored' = Stored /\ InHand' = InHand
      BY <1>1 DEF Stored, InHand, WriteInv
  <2> QED
      BY <1>1, <2>1 DEF QueueInv, WriteInv
<1>5. WriteInv'
    BY <1>1 DEF WriteInv
<1>6. TimerInv'
    BY <1>1 DEF WriteInv, TimerInv
<1>7. CallInv'
    BY <1>1 DEF CallInv
<1>8. active' # "storing" /\ (init' = "ready" <=> init = "ready")
    BY <1>1 DEF WriteInv
<1> QED
    BY <1>1, <1>2, <1>3, <1>4, <1>5, <1>6, <1>7, <1>8, Zenon

\* One that returns moves the cursor behind what it has stored.
LEMMA StoreDoneKeeps ==
    ASSUME Assumptions, Inv, host = "live", Alone, StoreDone, storing # "idle", faulted' = faulted
    PROVE  /\ FlagsOK' /\ QueueInv' /\ WriteInv' /\ TimerInv' /\ CallInv'
           /\ active' \in Phases /\ active' # "storing" /\ init' = "ready"
           /\ storing' = "idle" /\ cursor' = cursor + Writing /\ materialized'
           /\ cursor' \in 0 .. MaxEvents /\ cursor < cursor' /\ cursor' <= accepted
           /\ Fresh = Run(cursor, Writing) /\ Writing \in Nat
<1>a. /\ FlagsOK /\ DataOK /\ QueueInv /\ WriteInv /\ TimerInv /\ CallInv /\ FileInv
      /\ MaxEvents \in Nat /\ Len(pending) \in Nat /\ Len(batch) \in Nat
      /\ InHand \in Nat /\ Stored \in Nat
    BY LiveParts
<1> USE <1>a
<1>0. init = "seeding" \/ (init = "ready" /\ active = "storing")
    BY DEF FileInv, WriteInv
<1>a1. /\ Fresh = Run(cursor, Writing) /\ Len(Fresh) = Writing /\ Writing \in Nat
       /\ cursor + Writing <= accepted
       /\ init = "seeding" => cursor = 0 /\ Stored = seed
       /\ init = "ready" => Stored = cursor
    BY <1>0, FreshIs
<1>1. /\ UNCHANGED <<pending, timer, deadlineExpired, automaticPaused, background, batch,
             continuation, barrier, call, host, accepted, need, acked, crashes, seed, faulted>>
      /\ storing' = "idle" /\ cursor' = cursor + Writing /\ materialized' /\ init' = "ready"
      /\ init = "seeding" => active' = active
      /\ init # "seeding" => active' = "stored"
    BY <1>0, <1>a1, Zenon DEF Alone, StoreDone
<1>2. FlagsOK'
    BY <1>1, Zenon DEF FlagsOK, StoreDone
<1>3. active' \in Phases /\ active' # "storing"
    BY <1>0, <1>1 DEF DataOK, Phases, WriteInv
<1>4. cursor' \in 0 .. MaxEvents /\ cursor < cursor' /\ cursor' <= accepted
    BY <1>1, <1>a1 DEF DataOK, FileInv
<1>5. QueueInv'
  <2>1. init = "seeding" => Stored' = Stored /\ InHand' = InHand
      BY <1>1, <1>a1 DEF Stored, InHand, Writing
  <2>2. init = "ready" => Stored' = Stored + InHand /\ InHand' = 0
      BY <1>0, <1>1, <1>a1 DEF Stored, InHand, Writing
  <2>3. Stored' + InHand' = Stored + InHand /\ Stored' + InHand' \in Nat
      BY <1>0, <2>1, <2>2
  <2>4. pending' = Run(Stored' + InHand', Len(pending'))
      BY <1>1, <2>3 DEF QueueInv
  <2>5. Stored' + InHand' + Len(pending') = accepted'
      BY <1>1, <2>3 DEF QueueInv
  <2>6. active' \in {"waiting", "storing", "rejected"} =>
            batch' # <<>> /\ batch' = Run(Stored', Len(batch'))
      BY <1>0, <1>1, <2>1 DEF QueueInv
  <2>7. acked' <= cursor'
      BY <1>1, <1>4 DEF QueueInv, DataOK
  <2> QED
      BY <2>4, <2>5, <2>6, <2>7 DEF QueueInv
<1>6. WriteInv'
    BY <1>0, <1>1 DEF WriteInv
<1>7. TimerInv'
    BY <1>0, <1>1 DEF WriteInv, TimerInv
<1>8. CallInv'
    BY <1>0, <1>1 DEF CallInv
<1> QED
    BY <1>1, <1>2, <1>3, <1>4, <1>5, <1>6, <1>7, <1>8, <1>a1, Zenon

LEMMA BeginStoreKeeps == ASSUME Assumptions, Inv, BeginStore PROVE Inv'
<1>0. host = "live" /\ host' = "live"
    BY Zenon DEF BeginStore, controller
<1> USE <1>0
<1>a. /\ FlagsOK /\ DataOK /\ QueueInv /\ WriteInv /\ TimerInv /\ CallInv /\ FileInv
      /\ MaxEvents \in Nat /\ Len(pending) \in Nat /\ Len(batch) \in Nat
      /\ InHand \in Nat /\ Stored \in Nat
    BY LiveParts
<1> USE <1>a
<1>1. /\ storing = "idle" /\ (init = "seeding" \/ active = "waiting") /\ Alone
      /\ UNCHANGED <<lines, synced, entry, faults, faulted>>
    BY Zenon DEF BeginStore, controller, Alone
<1>2. ASSUME StoreFailed, init = "ready" => Stuck, before' = before
      PROVE  Inv'
  <2>1. init = "ready" => faulted' \/ Stuck'
      BY <1>1, <1>2, Zenon DEF Stuck, StoreFailed
  <2>2. faulted' \in BOOLEAN
      BY <1>1, Zenon DEF FlagsOK
  <2>3. /\ FlagsOK' /\ QueueInv' /\ WriteInv' /\ TimerInv' /\ CallInv'
        /\ active' \in Phases /\ init' \in {"seeding", "ready", "failed"}
        /\ storing' = "idle" /\ cursor' = cursor /\ materialized' = materialized
        /\ active' # "storing" /\ (init' = "ready" <=> init = "ready")
      BY <1>1, <1>2, <2>1, <2>2, StoreFailedKeeps
  <2>4. DataOK'
      BY <1>1, <1>2, <2>3 DEF DataOK, Alone
  <2>5. FileInv'
    <3>1. accepted' = accepted /\ (init' = init \/ init # "ready")
        BY <1>1, <2>3, Zenon DEF Alone, StoreFailed
    <3> QED
        BY <1>1, <2>3, <3>1 DEF FileInv, Alone
  <2> QED
      BY <2>3, <2>4, <2>5, Assembled, Zenon
<1>b. CASE init = "failed"
    BY <1>b, <1>2, Zenon DEF BeginStore
<1>3. ASSUME init # "failed"
      PROVE  /\ Fresh = Run(cursor, Writing) /\ Len(Fresh) = Writing /\ Writing \in Nat
             /\ Fresh = <<>> <=> Writing = 0
             /\ cursor + Writing <= accepted
             /\ init = "seeding" => cursor = 0 /\ Stored = seed
             /\ init = "ready" => Stored = cursor
             /\ init = "ready" => active = "waiting"
  <2>1. init = "seeding" \/ (init = "ready" /\ active = "waiting")
      BY <1>1, <1>3 DEF DataOK
  <2>2. init = "ready" => active = "waiting"
      BY <2>1
  <2> QED
      BY <2>1, <2>2, FreshIs
<1>c. CASE init # "failed" /\ Fresh = <<>>
  <2>1. Writing = 0 /\ (init = "seeding" => cursor = 0 /\ Stored = seed)
      BY <1>3, <1>c
  <2>2. init = "seeding" /\ seed = 0 /\ cursor = 0
      BY <1>1, <1>3, <1>c, <2>1 DEF QueueInv, Writing, DataOK
  <2>3. /\ init' = "ready"
        /\ UNCHANGED <<pending, timer, deadlineExpired, automaticPaused, background, batch,
             continuation, barrier, call, host, accepted, need, acked, crashes, seed, faulted,
             active, storing, cursor, materialized, before, lines, synced, entry, faults>>
    <3>1. init' = "ready" /\ UNCHANGED <<active, storing, cursor, materialized, before>>
        BY <1>1, <1>c, <2>2, Zenon DEF BeginStore
    <3> QED
        BY <1>1, <3>1, Zenon DEF Alone
  <2>4. FlagsOK'
      BY <2>3, Zenon DEF FlagsOK
  <2>5. DataOK'
      BY <2>3 DEF DataOK
  <2>6. QueueInv'
    <3>1. Stored' = Stored /\ InHand' = InHand
        BY <2>2, <2>3 DEF Stored, InHand
    <3> QED
        BY <2>3, <3>1 DEF QueueInv
  <2>7. WriteInv'
      BY <2>2, <2>3 DEF WriteInv
  <2>8. TimerInv'
      BY <2>2, <2>3 DEF TimerInv
  <2>9. CallInv'
      BY <2>2, <2>3 DEF CallInv
  <2>10. FileInv'
      BY <1>1, <2>2, <2>3 DEF FileInv
  <2> QED
      BY <2>4, <2>5, <2>6, <2>7, <2>8, <2>9, <2>10, Assembled, Zenon
<1>d. CASE init # "failed" /\ Fresh # <<>> /\ ~materialized /\ entry # "absent"
  <2>1. StoreFailed /\ before' = before
      BY <1>d, Zenon DEF BeginStore
  <2>2. Stuck
      BY <1>1, <1>d, Zenon DEF Stuck
  <2> QED
      BY <1>2, <2>1, <2>2, Zenon
<1>e. CASE init # "failed" /\ Fresh # <<>> /\ (materialized \/ entry = "absent")
  <2>1. \A i \in DOMAIN Fresh : Fresh[i] = cursor + i
      BY <1>3, <1>e DEF Run
  <2>2. /\ storing' = IF materialized THEN "append" ELSE "publish"
        /\ before' = Len(lines)
        /\ init = "seeding" => active' = active
        /\ init # "seeding" => active' = "storing"
        /\ UNCHANGED <<init, cursor, materialized>>
      BY <1>e, <2>1, Zenon DEF BeginStore
  <2>3. /\ Writing # 0 /\ Writing \in Nat /\ (init = "seeding" => cursor = 0)
        /\ init = "ready" => active = "waiting"
        /\ init = "seeding" \/ init = "ready"
      BY <1>1, <1>3, <1>e DEF DataOK
  <2>4. Writing' = Writing
      BY <1>1, <2>2 DEF Writing, Alone
  <2>5. Len(lines) = cursor /\ (~materialized => entry = "absent" /\ lines = <<>>)
    <3>1. cursor \in Nat /\ (materialized => lines = Run(0, cursor))
        BY <1>1 DEF FileInv, DataOK
    <3>2. materialized => Len(lines) = cursor
        BY <3>1, RunIs
    <3> QED
        BY <1>1, <1>e, <3>2 DEF FileInv
  <2>6. FlagsOK'
      BY <1>1, <2>2, Zenon DEF FlagsOK, Alone
  <2>7. DataOK'
    <3>1. storing' \in {"append", "publish"} /\ active' \in Phases /\ before' \in 0 .. MaxEvents
        BY <2>2, <2>5 DEF DataOK, Phases
    <3> QED
        BY <1>1, <2>2, <3>1 DEF DataOK, Alone
  <2>8. QueueInv'
    <3>1. /\ Stored' = Stored /\ InHand' = InHand
          /\ active' \in {"waiting", "storing", "rejected"} =>
                active \in {"waiting", "storing", "rejected"}
        BY <1>1, <2>2, <2>3 DEF Stored, InHand, Alone, WriteInv
    <3> QED
        BY <1>1, <2>2, <3>1 DEF QueueInv, Alone
  <2>9. WriteInv'
    <3>1. init = "seeding" => barrier # "failed"
        BY DEF WriteInv
    <3> QED
        BY <1>1, <2>2, <2>3, <3>1 DEF WriteInv, Alone
  <2>10. TimerInv'
      BY <1>1, <2>2, <2>3 DEF TimerInv, Alone
  <2>11. CallInv'
      BY <1>1, <2>2, <2>3 DEF CallInv, Alone
  <2>12. FileInv'
    <3>1. /\ materialized => storing' = "append" /\ lines' = Run(0, cursor')
          /\ ~materialized => storing' = "publish" /\ entry' = "absent" /\ lines' = <<>>
          /\ before' = cursor' /\ Writing' # 0
        BY <1>1, <2>2, <2>3, <2>4, <2>5 DEF FileInv
    <3>2. init' = "seeding" \/ active' = "storing"
        BY <2>2, <2>3
    <3> QED
        BY <1>1, <2>2, <3>1, <3>2 DEF FileInv
  <2> QED
      BY <2>6, <2>7, <2>8, <2>9, <2>10, <2>11, <2>12, Assembled, Zenon
<1> QED
    BY <1>b, <1>c, <1>d, <1>e

\* A call that goes on changes the file and where the append is only.
LEMMA GoesOnKeeps ==
    ASSUME FlagsOK, QueueInv, WriteInv, TimerInv, CallInv, Alone,
           UNCHANGED <<active, init, cursor, materialized>>,
           storing # "idle", storing' # "idle",
           faulted' = faulted \/ faulted' = TRUE
    PROVE  FlagsOK' /\ QueueInv' /\ WriteInv' /\ TimerInv' /\ CallInv'
<1>1. UNCHANGED <<pending, timer, deadlineExpired, automaticPaused, background, batch,
          continuation, barrier, call, host, accepted, need, acked, crashes, seed>>
    BY Zenon DEF Alone
<1>2. FlagsOK'
    BY <1>1, Zenon DEF FlagsOK
<1>3. QueueInv'
    BY <1>1, QueueKept DEF QueueInv
<1>4. WriteInv'
  <2>1. faulted => faulted'
      BY Zenon
  <2>2. ~Stuck
      BY DEF Stuck
  <2> QED
      BY <1>1, <2>1, <2>2 DEF WriteInv
<1>5. TimerInv'
    BY <1>1 DEF TimerInv
<1>6. CallInv'
    BY <1>1 DEF CallInv
<1> QED
    BY <1>2, <1>3, <1>4, <1>5, <1>6

LEMMA WriteLinesKeeps == ASSUME Assumptions, Inv, WriteLines PROVE Inv'
<1>0. host = "live" /\ host' = "live"
    BY Zenon DEF WriteLines, controller, Inv, GoneInv
<1> USE <1>0
<1>a. /\ FlagsOK /\ DataOK /\ QueueInv /\ WriteInv /\ TimerInv /\ CallInv /\ FileInv
      /\ MaxEvents \in Nat /\ Len(pending) \in Nat /\ Len(batch) \in Nat
      /\ InHand \in Nat /\ Stored \in Nat
    BY LiveParts
<1> USE <1>a
<1>1. /\ storing = "append" /\ Alone
      /\ UNCHANGED <<active, init, cursor, materialized, before, synced, entry>>
    BY DEF WriteLines, controller, Alone
<1>w. /\ Fresh = Run(cursor, Writing) /\ Len(Fresh) = Writing /\ Writing \in Nat
      /\ cursor + Writing <= accepted /\ Writing # 0 /\ cursor \in Nat /\ accepted \in Nat
  <2>1. init = "seeding" \/ (init = "ready" /\ active = "storing")
      BY <1>1 DEF FileInv, WriteInv
  <2> QED
      BY <1>1, <2>1, FreshIs DEF FileInv, DataOK
<1>2. lines = Run(0, cursor) /\ materialized /\ synced = cursor /\ Writing' = Writing
    BY <1>1 DEF FileInv, Writing, Alone
<1>b. CASE lines' = lines \o Fresh /\ storing' = "written" /\ UNCHANGED <<faults, faulted>>
  <2>1. lines' = Run(0, cursor + Writing)
    <3>1. Run(0, cursor) \o Run(cursor, Writing) = Run(0, cursor + Writing)
        BY <1>w, RunFromFirst
    <3> QED
        BY <1>b, <1>w, <1>2, <3>1
  <2>q. FlagsOK' /\ QueueInv' /\ WriteInv' /\ TimerInv' /\ CallInv'
      BY <1>1, <1>b, GoesOnKeeps
  <2>d. DataOK'
    <3>1. Len(lines') = cursor + Writing /\ lines' \in Seq(0 .. MaxEvents)
        BY <1>w, <2>1, RunIs, 0 + (cursor + Writing) <= MaxEvents DEF DataOK
    <3> QED
        BY <1>1, <1>2, <1>b, <1>w, <3>1 DEF DataOK, Alone
  <2>f. FileInv'
      BY <1>1, <1>2, <1>b, <2>1 DEF FileInv
  <2> QED
      BY <2>q, <2>f, <2>d, Assembled, Zenon
<1>c. ASSUME storing' = "torn", Fails("write"), NEW n \in 0 .. Len(Fresh) - 1,
             NEW rest \in {<<>>, <<Torn>>}, lines' = lines \o SubSeq(Fresh, 1, n) \o rest
      PROVE  Inv'
  <2>1. lines \o SubSeq(Fresh, 1, n) = Run(0, cursor + n) /\ n \in 0 .. Writing
    <3>1. n \in Nat /\ n \in 0 .. Writing
        BY <1>c, <1>w
    <3>2. SubSeq(Run(cursor, Writing), 1, n) = Run(cursor, n)
        BY <3>1, <1>w, RunPrefix
    <3>3. Run(0, cursor) \o Run(cursor, n) = Run(0, cursor + n)
        BY <1>w, <3>1, RunFromFirst
    <3> QED
        BY <1>w, <1>2, <3>1, <3>2, <3>3
  <2>2. lines' \in {Run(0, cursor + n), Append(Run(0, cursor + n), Torn)}
    <3>1. Run(0, cursor + n) \in Seq(Nat) /\ Torn \in Nat
        BY <1>w, <2>1, RunIs DEF Torn
    <3> DEFINE r == Run(0, cursor + n)
    <3>2. r \in Seq(Nat) /\ lines' = r \o rest
        BY <1>c, <2>1, <3>1
    <3> HIDE DEF r
    <3>3. r \o <<>> = r /\ r \o <<Torn>> = Append(r, Torn)
        BY <3>1, <3>2
    <3>4. lines' \in {r, Append(r, Torn)}
        BY <1>c, <3>2, <3>3
    <3> QED
        BY <3>4 DEF r
  <2>3. faulted' = TRUE /\ faults' \in 0 .. MaxFaults
      BY <1>c DEF Fails, DataOK, Assumptions
  <2>q. FlagsOK' /\ QueueInv' /\ WriteInv' /\ TimerInv' /\ CallInv'
      BY <1>1, <1>c, <2>3, GoesOnKeeps
  <2>d. DataOK'
    <3>1. Len(lines') >= cursor /\ Len(lines') \in Nat /\ lines' \in Seq(0 .. MaxEvents)
      <4>1. cursor + n \in Nat /\ cursor + n <= MaxEvents /\ 0 + (cursor + n) <= MaxEvents
          BY <1>w, <2>1 DEF DataOK
      <4>2. Len(Run(0, cursor + n)) = cursor + n /\ Run(0, cursor + n) \in Seq(0 .. MaxEvents)
          BY <4>1, RunIs
      <4>3. /\ Len(Append(Run(0, cursor + n), Torn)) = cursor + n + 1
            /\ Append(Run(0, cursor + n), Torn) \in Seq(0 .. MaxEvents)
          BY <4>1, TornIs
      <4>4. n \in Nat
          BY <1>c
      <4>5. CASE lines' = Run(0, cursor + n)
          BY <1>w, <4>2, <4>4, <4>5
      <4>6. CASE lines' = Append(Run(0, cursor + n), Torn)
          BY <1>w, <4>3, <4>4, <4>6
      <4> QED
          BY <2>2, <4>5, <4>6
    <3>2. synced' \in 0 .. Len(lines')
        BY <1>1, <1>2, <1>w, <3>1
    <3>3. storing' = "torn"
        BY <1>c
    <3> QED
        BY <1>1, <2>3, <3>1, <3>2, <3>3 DEF DataOK, Alone
  <2>f. FileInv'
    <3>1. \E k \in 0 .. Writing' :
              lines' \in {Run(0, cursor' + k), Append(Run(0, cursor' + k), Torn)}
        BY <1>1, <1>2, <2>1, <2>2
    <3> QED
        BY <1>1, <1>2, <1>c, <2>3, <3>1 DEF FileInv
  <2> QED
      BY <2>q, <2>f, <2>d, Assembled, Zenon
<1> QED
    BY <1>1, <1>b, <1>c, Zenon DEF WriteLines

LEMMA SyncLinesKeeps == ASSUME Assumptions, Inv, SyncLines PROVE Inv'
<1>0. host = "live" /\ host' = "live"
    BY Zenon DEF SyncLines, controller, Inv, GoneInv
<1> USE <1>0
<1>a. /\ FlagsOK /\ DataOK /\ QueueInv /\ WriteInv /\ TimerInv /\ CallInv /\ FileInv
      /\ MaxEvents \in Nat /\ Len(pending) \in Nat /\ Len(batch) \in Nat
      /\ InHand \in Nat /\ Stored \in Nat
    BY LiveParts
<1> USE <1>a
<1>1. storing = "written" /\ Alone /\ UNCHANGED <<before, lines, entry>>
    BY DEF SyncLines, controller, Alone
<1>w. /\ Fresh = Run(cursor, Writing) /\ Len(Fresh) = Writing /\ Writing \in Nat
      /\ cursor + Writing <= accepted /\ Writing # 0 /\ cursor \in Nat /\ accepted \in Nat
  <2>1. init = "seeding" \/ (init = "ready" /\ active = "storing")
      BY <1>1 DEF FileInv, WriteInv
  <2> QED
      BY <1>1, <2>1, FreshIs DEF FileInv, DataOK
<1>2. lines = Run(0, cursor + Writing) /\ materialized /\ entry = "durable"
    BY <1>1 DEF FileInv
<1>3. Len(lines) = cursor + Writing
    BY <1>2, <1>w, RunIs
<1>b. CASE StoreDone /\ synced' = Len(lines) /\ UNCHANGED <<faults, faulted>>
  <2>1. /\ active' \in Phases /\ active' # "storing" /\ init' = "ready"
        /\ storing' = "idle" /\ cursor' = cursor + Writing /\ materialized'
        /\ cursor' \in 0 .. MaxEvents
      BY <1>1, <1>b, StoreDoneKeeps
  <2>q. FlagsOK' /\ QueueInv' /\ WriteInv' /\ TimerInv' /\ CallInv'
      BY <1>1, <1>b, StoreDoneKeeps
  <2>d. DataOK'
      BY <1>1, <1>b, <2>1 DEF DataOK, Alone
  <2>f. FileInv'
      BY <1>1, <1>2, <1>3, <1>b, <2>1 DEF FileInv
  <2> QED
      BY <2>q, <2>f, <2>d, Assembled, Zenon
<1>c. CASE /\ Fails("sync") /\ storing' = "torn"
           /\ UNCHANGED <<active, init, cursor, materialized, synced>>
  <2>3. faulted' = TRUE /\ faults' \in 0 .. MaxFaults /\ Writing' = Writing
      BY <1>1, <1>c DEF Fails, DataOK, Assumptions, Writing, Alone
  <2>q. FlagsOK' /\ QueueInv' /\ WriteInv' /\ TimerInv' /\ CallInv'
      BY <1>1, <1>c, <2>3, GoesOnKeeps
  <2>d. DataOK'
      BY <1>1, <1>c, <2>3 DEF DataOK, Alone
  <2>f. FileInv'
    <3>1. \E k \in 0 .. Writing' :
              lines' \in {Run(0, cursor' + k), Append(Run(0, cursor' + k), Torn)}
        BY <1>1, <1>2, <1>c, <1>w, <2>3, Writing \in 0 .. Writing
    <3> QED
        BY <1>1, <1>2, <1>c, <2>3, <3>1 DEF FileInv
  <2> QED
      BY <2>q, <2>f, <2>d, Assembled, Zenon
<1> QED
    BY <1>b, <1>c, Zenon DEF SyncLines

LEMMA RollbackAppendKeeps == ASSUME Assumptions, Inv, RollbackAppend PROVE Inv'
<1>0. host = "live" /\ host' = "live"
    BY Zenon DEF RollbackAppend, controller, Inv, GoneInv
<1> USE <1>0
<1>a. /\ FlagsOK /\ DataOK /\ QueueInv /\ WriteInv /\ TimerInv /\ CallInv /\ FileInv
      /\ MaxEvents \in Nat /\ Len(pending) \in Nat /\ Len(batch) \in Nat
      /\ InHand \in Nat /\ Stored \in Nat
    BY LiveParts
<1> USE <1>a
<1>1. /\ storing = "torn" /\ Alone /\ StoreFailed
      /\ lines' = SubSeq(lines, 1, before) /\ synced' = before
      /\ UNCHANGED <<before, entry, faults, faulted>>
    BY DEF RollbackAppend, controller, Alone
<1>w. /\ Fresh = Run(cursor, Writing) /\ Len(Fresh) = Writing /\ Writing \in Nat
      /\ cursor + Writing <= accepted /\ Writing # 0 /\ cursor \in Nat /\ accepted \in Nat
  <2>1. init = "seeding" \/ (init = "ready" /\ active = "storing")
      BY <1>1 DEF FileInv, WriteInv
  <2> QED
      BY <1>1, <2>1, FreshIs DEF FileInv, DataOK
<1>2. /\ materialized /\ init = "ready" /\ active = "storing" /\ entry = "durable"
      /\ faulted /\ before = cursor
    BY <1>1 DEF FileInv
<1>3. lines' = Run(0, cursor)
  <2>1. PICK k \in 0 .. Writing : lines \in {Run(0, cursor + k), Append(Run(0, cursor + k), Torn)}
      BY <1>1 DEF FileInv
  <2>2. cursor + k \in Nat /\ cursor \in 0 .. cursor + k
      BY <1>w
  <2>3. /\ SubSeq(Run(0, cursor + k), 1, cursor) = Run(0, cursor)
        /\ SubSeq(Append(Run(0, cursor + k), Torn), 1, cursor) = Run(0, cursor)
      BY <2>2, RunPrefix, TornIs, 0 \in Nat
  <2> QED
      BY <1>1, <1>2, <2>1, <2>3
<1>q. /\ FlagsOK' /\ QueueInv' /\ WriteInv' /\ TimerInv' /\ CallInv'
      /\ active' \in Phases /\ init' \in {"seeding", "ready", "failed"}
      /\ storing' = "idle" /\ cursor' = cursor /\ materialized' = materialized
      /\ active' # "storing" /\ (init' = "ready" <=> init = "ready")
  <2>1. faulted' \/ Stuck'
      BY <1>1, <1>2, Zenon
  <2>2. faulted' \in BOOLEAN
      BY <1>1, Zenon DEF FlagsOK
  <2> QED
      BY <1>1, <1>2, <2>1, <2>2, StoreFailedKeeps
<1>d. DataOK'
  <2>1. Len(lines') = cursor /\ lines' \in Seq(0 .. MaxEvents)
      BY <1>3, <1>w, RunIs, 0 + cursor <= MaxEvents DEF DataOK
  <2> QED
      BY <1>1, <1>2, <1>q, <1>w, <2>1 DEF DataOK, Alone
<1>f. FileInv'
    BY <1>1, <1>2, <1>3, <1>q DEF FileInv
<1> QED
    BY <1>q, <1>d, <1>f, Assembled, Zenon

LEMMA PublishKeeps == ASSUME Assumptions, Inv, Publish PROVE Inv'
<1>0. host = "live" /\ host' = "live"
    BY Zenon DEF Publish, controller, Inv, GoneInv
<1> USE <1>0
<1>a. /\ FlagsOK /\ DataOK /\ QueueInv /\ WriteInv /\ TimerInv /\ CallInv /\ FileInv
      /\ MaxEvents \in Nat /\ Len(pending) \in Nat /\ Len(batch) \in Nat
      /\ InHand \in Nat /\ Stored \in Nat
    BY LiveParts
<1> USE <1>a
<1>1. storing = "publish" /\ Alone /\ UNCHANGED before
    BY DEF Publish, controller, Alone
<1>w. /\ Fresh = Run(cursor, Writing) /\ Len(Fresh) = Writing /\ Writing \in Nat
      /\ cursor + Writing <= accepted /\ Writing # 0 /\ cursor \in Nat /\ accepted \in Nat
  <2>1. init = "seeding" \/ (init = "ready" /\ active = "storing")
      BY <1>1 DEF FileInv, WriteInv
  <2> QED
      BY <1>1, <2>1, FreshIs DEF FileInv, DataOK
<1>2. ~materialized /\ entry = "absent" /\ lines = <<>> /\ cursor = 0
    BY <1>1 DEF FileInv
<1>b. CASE /\ lines' = Fresh /\ synced' = Len(Fresh) /\ entry' = "linked" /\ storing' = "linked"
           /\ UNCHANGED <<active, init, cursor, materialized, faults, faulted>>
  <2>1. lines' = Run(0, Writing) /\ Writing' = Writing /\ Len(lines') = Writing
      BY <1>1, <1>2, <1>b, <1>w DEF Writing, Alone
  <2>q. FlagsOK' /\ QueueInv' /\ WriteInv' /\ TimerInv' /\ CallInv'
      BY <1>1, <1>b, GoesOnKeeps
  <2>d. DataOK'
    <3>1. lines' \in Seq(0 .. MaxEvents)
        BY <1>w, <2>1, RunIs, 0 + Writing <= MaxEvents DEF DataOK
    <3> QED
        BY <1>1, <1>b, <1>w, <2>1, <3>1 DEF DataOK, Alone
  <2>f. FileInv'
      BY <1>1, <1>2, <1>b, <1>w, <2>1 DEF FileInv
  <2> QED
      BY <2>q, <2>f, <2>d, Assembled, Zenon
<1>c. CASE Fails("link") /\ StoreFailed /\ UNCHANGED <<lines, synced, entry>>
  <2>3. faulted' = TRUE /\ faults' \in 0 .. MaxFaults
      BY <1>c DEF Fails, DataOK, Assumptions
  <2>1. /\ FlagsOK' /\ QueueInv' /\ WriteInv' /\ TimerInv' /\ CallInv'
        /\ active' \in Phases /\ init' \in {"seeding", "ready", "failed"}
        /\ storing' = "idle" /\ cursor' = cursor /\ materialized' = materialized
        /\ active' # "storing" /\ (init' = "ready" <=> init = "ready")
    <3>1. (faulted' \/ Stuck') /\ faulted' \in BOOLEAN
        BY <2>3, Zenon
    <3>2. init = "seeding" \/ active \in {"waiting", "storing"}
        BY <1>1 DEF FileInv
    <3> QED
        BY <1>1, <1>c, <3>1, <3>2, StoreFailedKeeps
  <2>q. FlagsOK' /\ QueueInv' /\ WriteInv' /\ TimerInv' /\ CallInv'
      BY <2>1
  <2>d. DataOK'
      BY <1>1, <1>c, <2>1, <2>3 DEF DataOK, Alone
  <2>f. FileInv'
      BY <1>1, <1>2, <1>c, <1>w, <2>1, RunEmpty, 0 \in Nat DEF FileInv, Alone
  <2> QED
      BY <2>q, <2>f, <2>d, Assembled, Zenon
<1> QED
    BY <1>b, <1>c, Zenon DEF Publish

LEMMA SyncDirectoryKeeps == ASSUME Assumptions, Inv, SyncDirectory PROVE Inv'
<1>0. host = "live" /\ host' = "live"
    BY Zenon DEF SyncDirectory, controller, Inv, GoneInv
<1> USE <1>0
<1>a. /\ FlagsOK /\ DataOK /\ QueueInv /\ WriteInv /\ TimerInv /\ CallInv /\ FileInv
      /\ MaxEvents \in Nat /\ Len(pending) \in Nat /\ Len(batch) \in Nat
      /\ InHand \in Nat /\ Stored \in Nat
    BY LiveParts
<1> USE <1>a
<1>1. storing = "linked" /\ Alone /\ UNCHANGED <<before, lines, synced>>
    BY DEF SyncDirectory, controller, Alone
<1>w. /\ Fresh = Run(cursor, Writing) /\ Len(Fresh) = Writing /\ Writing \in Nat
      /\ cursor + Writing <= accepted /\ Writing # 0 /\ cursor \in Nat /\ accepted \in Nat
  <2>1. init = "seeding" \/ (init = "ready" /\ active = "storing")
      BY <1>1 DEF FileInv, WriteInv
  <2> QED
      BY <1>1, <2>1, FreshIs DEF FileInv, DataOK
<1>2. /\ ~materialized /\ entry = "linked" /\ lines = Run(0, Writing)
      /\ cursor = 0 /\ synced = Len(lines)
    BY <1>1 DEF FileInv
<1>3. Len(lines) = Writing
    BY <1>2, <1>w, RunIs
<1>b. CASE StoreDone /\ entry' = "durable" /\ UNCHANGED <<faults, faulted>>
  <2>1. /\ active' \in Phases /\ active' # "storing" /\ init' = "ready"
        /\ storing' = "idle" /\ cursor' = cursor + Writing /\ materialized'
        /\ cursor' \in 0 .. MaxEvents
      BY <1>1, <1>b, StoreDoneKeeps
  <2>q. FlagsOK' /\ QueueInv' /\ WriteInv' /\ TimerInv' /\ CallInv'
      BY <1>1, <1>b, StoreDoneKeeps
  <2>d. DataOK'
      BY <1>1, <1>b, <2>1 DEF DataOK, Alone
  <2>f. FileInv'
      BY <1>1, <1>2, <1>3, <1>b, <1>w, <2>1 DEF FileInv
  <2> QED
      BY <2>q, <2>f, <2>d, Assembled, Zenon
<1>c. CASE Fails("dirsync") /\ StoreFailed /\ UNCHANGED entry
  <2>3. faulted' = TRUE /\ faults' \in 0 .. MaxFaults
      BY <1>c DEF Fails, DataOK, Assumptions
  <2>1. /\ FlagsOK' /\ QueueInv' /\ WriteInv' /\ TimerInv' /\ CallInv'
        /\ active' \in Phases /\ init' \in {"seeding", "ready", "failed"}
        /\ storing' = "idle" /\ cursor' = cursor /\ materialized' = materialized
        /\ active' # "storing" /\ (init' = "ready" <=> init = "ready")
    <3>1. (faulted' \/ Stuck') /\ faulted' \in BOOLEAN
        BY <2>3, Zenon
    <3>2. init = "seeding" \/ active \in {"waiting", "storing"}
        BY <1>1 DEF FileInv
    <3> QED
        BY <1>1, <1>c, <3>1, <3>2, StoreFailedKeeps
  <2>q. FlagsOK' /\ QueueInv' /\ WriteInv' /\ TimerInv' /\ CallInv'
      BY <2>1
  <2>d. DataOK'
      BY <1>1, <1>c, <2>1, <2>3 DEF DataOK, Alone
  <2>f. FileInv'
    <3>1. lines # <<>> /\ Len(lines) <= accepted
        BY <1>2, <1>3, <1>w
    <3> QED
        BY <1>1, <1>2, <1>3, <1>c, <1>w, <2>1, <3>1 DEF FileInv, Alone
  <2> QED
      BY <2>q, <2>f, <2>d, Assembled, Zenon
<1> QED
    BY <1>b, <1>c, Zenon DEF SyncDirectory

-----------------------------------------------------------------------------
(* Between two lives *)

LEMMA AssembledGone ==
    ASSUME FlagsOK', DataOK', host' # "live", GoneInv'
    PROVE  Inv'
BY DEF Inv

\* What of the session's end is the same for a retirement and a loss of power.
LEMMA EmptyControllerKeeps ==
    ASSUME FlagsOK, EmptyController, UNCHANGED owner, MaxEvents \in Nat
    PROVE  /\ FlagsOK'
           /\ pending' = <<>> /\ batch' = <<>> /\ active' = "none" /\ barrier' = "none"
           /\ ~timer' /\ ~deadlineExpired' /\ ~continuation'
           /\ call' \in [Flushers -> {"none", "init", "barrier", "resolved", "rejected"}]
           /\ need' \in [Flushers -> 0 .. MaxEvents]
           /\ \A c \in Flushers : call'[c] = "none" /\ need'[c] = 0
           /\ storing' = "idle" /\ before' = 0
           /\ UNCHANGED <<init, cursor, materialized, seed>>
<1>1. FlagsOK'
    BY Zenon DEF FlagsOK, EmptyController, owner
<1>2. call' = [c \in Flushers |-> "none"] /\ need' = [c \in Flushers |-> 0]
    BY Zenon DEF EmptyController
<1>3. 0 \in 0 .. MaxEvents
    OBVIOUS
<1>4. /\ call' \in [Flushers -> {"none", "init", "barrier", "resolved", "rejected"}]
      /\ need' \in [Flushers -> 0 .. MaxEvents]
      /\ \A c \in Flushers : call'[c] = "none" /\ need'[c] = 0
    BY <1>2, <1>3
<1> QED
    BY <1>1, <1>4, Zenon DEF EmptyController, owner

LEMMA ReleaseKeeps == ASSUME Assumptions, Inv, Release PROVE Inv'
<1>0. host = "live" /\ host' = "closed"
    BY DEF Release
<1> USE <1>0
<1>a. /\ FlagsOK /\ DataOK /\ QueueInv /\ WriteInv /\ TimerInv /\ CallInv /\ FileInv
      /\ MaxEvents \in Nat /\ Len(pending) \in Nat /\ Len(batch) \in Nat
      /\ InHand \in Nat /\ Stored \in Nat
    BY LiveParts
<1> USE <1>a
<1>1. /\ call["retire"] = "resolved" /\ storing = "idle" /\ EmptyController
      /\ UNCHANGED <<owner, lines, synced, entry, accepted, acked, faults, crashes>>
    BY Zenon DEF Release
<1>2. /\ FlagsOK'
      /\ pending' = <<>> /\ batch' = <<>> /\ active' = "none" /\ barrier' = "none"
      /\ ~timer' /\ ~deadlineExpired' /\ ~continuation'
      /\ call' \in [Flushers -> {"none", "init", "barrier", "resolved", "rejected"}]
      /\ need' \in [Flushers -> 0 .. MaxEvents]
      /\ \A c \in Flushers : call'[c] = "none" /\ need'[c] = 0
      /\ storing' = "idle" /\ before' = 0
      /\ UNCHANGED <<init, cursor, materialized, seed>>
    BY <1>1, EmptyControllerKeeps
<1>3. pending = <<>> /\ active = "none" /\ init = "ready"
    BY <1>1 DEF CallInv
<1>4. accepted = cursor /\ accepted \in 0 .. MaxEvents
    BY <1>3 DEF QueueInv, Stored, InHand, DataOK
<1>5. DataOK'
    BY <1>1, <1>2 DEF DataOK, Phases, Awaits
<1>6. CASE materialized
  <2>1. entry = "durable" /\ synced = cursor /\ lines = Run(0, synced)
      BY <1>1, <1>6 DEF FileInv
  <2>2. GoneInv'
      BY <1>1, <1>2, <1>4, <2>1 DEF GoneInv, QueueInv
  <2> QED
      BY <1>2, <1>5, <2>2, AssembledGone
<1>7. CASE ~materialized
  <2>1. cursor = 0 /\ lines = <<>> /\ entry = "absent" /\ synced = 0
    <3>1. cursor = 0 /\ Len(lines) <= accepted /\ (entry = "absent" <=> lines = <<>>)
        BY <1>1, <1>7 DEF FileInv
    <3>2. lines = <<>>
        BY <1>4, <3>1 DEF DataOK
    <3> QED
        BY <3>1, <3>2 DEF DataOK
  <2>2. lines = Run(0, synced) /\ acked <= synced
      BY <2>1, RunEmpty, 0 \in Nat DEF QueueInv
  <2>3. GoneInv'
      BY <1>1, <1>2, <1>4, <2>1, <2>2 DEF GoneInv
  <2> QED
      BY <1>2, <1>5, <2>3, AssembledGone
<1> QED
    BY <1>6, <1>7

\* The file while the session is live: whole lines in order, none beyond the
\* accepted events, and then perhaps an incomplete one; what is synced is whole.
LEMMA LiveFile ==
    ASSUME Assumptions, Inv, host = "live"
    PROVE  /\ \E m \in 0 .. accepted :
                 /\ lines = Run(0, m) \/ lines = Append(Run(0, m), Torn)
                 /\ synced <= m
           /\ entry = "durable" => synced = cursor
           /\ entry = "linked" => cursor = 0
           /\ entry = "absent" => lines = <<>> /\ cursor = 0
           /\ acked <= cursor
<1>a. /\ FlagsOK /\ DataOK /\ QueueInv /\ WriteInv /\ TimerInv /\ CallInv /\ FileInv
      /\ MaxEvents \in Nat /\ Len(pending) \in Nat /\ Len(batch) \in Nat
      /\ InHand \in Nat /\ Stored \in Nat
    BY LiveParts
<1> USE <1>a
<1>0. accepted \in Nat /\ cursor \in Nat /\ synced \in Nat
    BY DEF DataOK
<1>1. /\ entry = "durable" => synced = cursor
      /\ entry = "linked" => cursor = 0
      /\ entry = "absent" => lines = <<>> /\ cursor = 0
    BY DEF FileInv, DataOK
<1>2. acked <= cursor
    BY DEF QueueInv
<1>3. cursor <= accepted
  <2>1. init = "ready" => cursor <= accepted
      BY <1>0 DEF QueueInv, Stored
  <2>2. init # "ready" => cursor = 0
      BY DEF FileInv
  <2> QED
      BY <1>0, <2>1, <2>2
<1>4. storing # "idle" => Writing \in Nat /\ cursor + Writing <= accepted
  <2>1. ASSUME storing # "idle"
        PROVE  init = "seeding" \/ (init = "ready" /\ active = "storing")
      BY <2>1 DEF FileInv, WriteInv
  <2> QED
      BY <2>1, FreshIs
<1>b. CASE storing = "idle" /\ materialized
    BY <1>b, <1>0, <1>1, <1>2, <1>3 DEF FileInv
<1>c. CASE storing = "idle" /\ ~materialized
  <2>1. lines = Run(0, Len(lines)) /\ Len(lines) \in 0 .. accepted /\ synced <= Len(lines)
      BY <1>0, <1>c DEF FileInv, DataOK
  <2> QED
      BY <1>1, <1>2, <2>1
<1>d. CASE storing \in {"append", "publish"}
  <2>1. storing = "append" => lines = Run(0, cursor) /\ synced = cursor
      BY DEF FileInv
  <2>2. storing = "publish" => lines = Run(0, 0) /\ synced = 0
    <3>1. storing = "publish" => lines = <<>> /\ synced = Len(lines)
        BY DEF FileInv
    <3> QED
        BY <3>1, RunEmpty, 0 \in Nat
  <2>3. cursor \in 0 .. accepted /\ 0 \in 0 .. accepted
      BY <1>0, <1>3
  <2> QED
      BY <1>d, <1>1, <1>2, <2>1, <2>2, <2>3
<1>e. CASE storing \in {"written", "linked"}
  <2>1. storing = "written" => lines = Run(0, cursor + Writing) /\ synced = cursor
      BY DEF FileInv
  <2>2. storing = "linked" => lines = Run(0, cursor + Writing) /\ synced = cursor + Writing
    <3>1. ASSUME storing = "linked"
          PROVE  lines = Run(0, Writing) /\ cursor = 0 /\ synced = Len(lines) /\ Writing \in Nat
        BY <1>4, <3>1 DEF FileInv
    <3>2. storing = "linked" => Len(Run(0, Writing)) = Writing /\ cursor + Writing = Writing
        BY <3>1, RunIs, 0 \in Nat
    <3> QED
        BY <3>1, <3>2
  <2>3. cursor + Writing \in 0 .. accepted /\ cursor <= cursor + Writing
      BY <1>0, <1>4, <1>e
  <2> QED
      BY <1>e, <1>0, <1>1, <1>2, <2>1, <2>2, <2>3
<1>f. CASE storing = "torn"
  <2>1. PICK k \in 0 .. Writing : lines \in {Run(0, cursor + k), Append(Run(0, cursor + k), Torn)}
      BY <1>f DEF FileInv
  <2>2. synced = cursor
      BY <1>f DEF FileInv
  <2>3. cursor + k \in 0 .. accepted /\ synced <= cursor + k
      BY <1>0, <1>4, <1>f, <2>2
  <2> QED
      BY <1>1, <1>2, <2>1, <2>3
<1> QED
    BY <1>b, <1>c, <1>d, <1>e, <1>f DEF DataOK

\* What a loss of power leaves of a file of m whole lines.
LEMMA CutFile ==
    ASSUME NEW m \in Nat, NEW s, s = Run(0, m) \/ s = Append(Run(0, m), Torn),
           NEW n \in 0 .. Len(Whole(s)), NEW t,
           \/ t = SubSeq(s, 1, n)
           \/ n < Len(s) /\ t = Append(SubSeq(s, 1, n), Torn)
    PROVE  /\ n \in 0 .. m /\ n <= Len(t) /\ Len(t) \in Nat
           /\ t = Run(0, n) \/ t = Append(Run(0, n), Torn)
           /\ \A k \in Nat : n <= k => t \in Seq(0 .. k)
<1>1. Whole(s) = Run(0, m) /\ Len(Whole(s)) = m
    BY WholeRun, RunIs, 0 \in Nat
<1>2. n \in 0 .. m /\ n \in Nat
    BY <1>1
<1>3. SubSeq(s, 1, n) = Run(0, n)
  <2>1. SubSeq(Run(0, m), 1, n) = Run(0, n)
      BY <1>2, RunPrefix, 0 \in Nat
  <2>2. SubSeq(Append(Run(0, m), Torn), 1, n) = Run(0, n)
      BY <1>2, TornIs
  <2> QED
      BY <2>1, <2>2
<1>4. Len(Run(0, n)) = n /\ \A k \in Nat : n <= k => Run(0, n) \in Seq(0 .. k)
  <2>1. \A k \in Nat : n <= k => 0 + n <= k
      BY <1>2
  <2> QED
      BY <1>2, <2>1, RunIs, 0 \in Nat
<1>5. Len(Append(Run(0, n), Torn)) = n + 1
      /\ \A k \in Nat : n <= k => Append(Run(0, n), Torn) \in Seq(0 .. k)
    BY <1>2, TornIs
<1>6. CASE t = Run(0, n)
    BY <1>2, <1>4, <1>6
<1>7. CASE t = Append(Run(0, n), Torn)
  <2>1. Len(t) = n + 1
      BY <1>5, <1>7
  <2> QED
      BY <1>2, <1>5, <1>7, <2>1
<1> QED
    BY <1>3, <1>6, <1>7

LEMMA PowerLossKeeps == ASSUME Assumptions, Inv, PowerLoss PROVE Inv'
<1>0. host = "live" /\ host' = "down"
    BY DEF PowerLoss
<1> USE <1>0
<1>a. /\ FlagsOK /\ DataOK /\ QueueInv /\ WriteInv /\ TimerInv /\ CallInv /\ FileInv
      /\ MaxEvents \in Nat /\ Len(pending) \in Nat /\ Len(batch) \in Nat
      /\ InHand \in Nat /\ Stored \in Nat
    BY LiveParts
<1> USE <1>a
<1>1. /\ crashes < MaxCrashes /\ crashes' = crashes + 1 /\ EmptyController
      /\ UNCHANGED <<owner, accepted, acked, faults>>
    BY Zenon DEF PowerLoss
<1>2. /\ FlagsOK'
      /\ pending' = <<>> /\ batch' = <<>> /\ active' = "none" /\ barrier' = "none"
      /\ ~timer' /\ ~deadlineExpired' /\ ~continuation'
      /\ call' \in [Flushers -> {"none", "init", "barrier", "resolved", "rejected"}]
      /\ need' \in [Flushers -> 0 .. MaxEvents]
      /\ \A c \in Flushers : call'[c] = "none" /\ need'[c] = 0
      /\ storing' = "idle" /\ before' = 0
      /\ UNCHANGED <<init, cursor, materialized, seed>>
    BY <1>1, EmptyControllerKeeps
<1>3. crashes' \in 0 .. MaxCrashes /\ accepted \in Nat /\ accepted <= MaxEvents
    BY <1>1 DEF DataOK, Assumptions
<1>4. ASSUME lines' \in Seq(0 .. MaxEvents), synced' \in 0 .. Len(lines'),
             entry' \in {"absent", "durable"}
      PROVE  DataOK'
    BY <1>1, <1>2, <1>3, <1>4 DEF DataOK, Phases, Awaits
<1>b. CASE entry # "durable" /\ lines' = <<>> /\ synced' = 0 /\ entry' = "absent"
  <2>1. DataOK'
      BY <1>4, <1>b
  <2>2. acked' <= synced' /\ synced' <= accepted' /\ lines' = Run(0, synced')
      BY <1>1, <1>3, <1>b, LiveFile, RunEmpty, 0 \in Nat DEF DataOK
  <2>3. GoneInv'
      BY <1>2, <1>b, <2>2 DEF GoneInv
  <2> QED
      BY <1>2, <2>1, <2>3, AssembledGone
<1>c. ASSUME entry # "absent", NEW n \in synced .. Len(Whole(lines)),
             \/ lines' = SubSeq(lines, 1, n)
             \/ n < Len(lines) /\ lines' = Append(SubSeq(lines, 1, n), Torn),
             synced' = n, entry' = "durable"
      PROVE  Inv'
  <2>1. PICK m \in 0 .. accepted :
            (lines = Run(0, m) \/ lines = Append(Run(0, m), Torn)) /\ synced <= m
      BY LiveFile
  <2>2. m \in Nat /\ m <= accepted /\ n \in 0 .. Len(Whole(lines))
      BY <1>3, <1>c, <2>1 DEF DataOK
  <2>3. /\ n \in 0 .. m /\ n <= Len(lines') /\ Len(lines') \in Nat
        /\ lines' = Run(0, n) \/ lines' = Append(Run(0, n), Torn)
        /\ \A k \in Nat : n <= k => lines' \in Seq(0 .. k)
    <3> DEFINE t == lines'
    <3>1. t = SubSeq(lines, 1, n) \/ (n < Len(lines) /\ t = Append(SubSeq(lines, 1, n), Torn))
        BY <1>c
    <3> HIDE DEF t
    <3>2. /\ n \in 0 .. m /\ n <= Len(t) /\ Len(t) \in Nat
          /\ t = Run(0, n) \/ t = Append(Run(0, n), Torn)
          /\ \A k \in Nat : n <= k => t \in Seq(0 .. k)
        BY <2>1, <2>2, <3>1, CutFile
    <3> QED
        BY <3>2 DEF t
  <2>4. n <= MaxEvents /\ n \in Nat /\ n <= accepted
      BY <1>3, <2>2, <2>3
  <2>5. DataOK'
      BY <1>4, <1>c, <2>3, <2>4
  <2>6. acked' <= synced'
      BY <1>1, <1>c, LiveFile DEF DataOK
  <2>7. GoneInv'
      BY <1>1, <1>2, <1>c, <2>3, <2>4, <2>6 DEF GoneInv
  <2> QED
      BY <1>2, <2>5, <2>7, AssembledGone
<1> QED
    BY <1>b, <1>c, Zenon DEF PowerLoss

LEMMA ResumeKeeps == ASSUME Assumptions, Inv, Resume PROVE Inv'
<1>0. host # "live" /\ host' = "live" /\ entry # "absent"
    BY DEF Resume
<1>a. FlagsOK /\ DataOK /\ GoneInv /\ MaxEvents \in Nat
    BY <1>0 DEF Inv, Assumptions
<1> USE <1>0, <1>a
<1>1. /\ lines' = Whole(lines) /\ synced' = Len(lines') /\ cursor' = Len(lines')
      /\ accepted' = cursor' /\ materialized' /\ init' = "ready" /\ seed' = 0
      /\ UNCHANGED <<pending, timer, deadlineExpired, automaticPaused, active, background,
             batch, continuation, barrier, call, storing, before, entry, need, acked, faults,
             crashes, faulted>>
    BY Zenon DEF Resume, behind
<1>2. synced \in Nat /\ synced <= MaxEvents
    BY DEF GoneInv, DataOK
<1>3. Whole(lines) = Run(0, synced)
    BY <1>2, WholeRun DEF GoneInv
<1>4. Len(Run(0, synced)) = synced /\ Run(0, synced) \in Seq(0 .. MaxEvents)
    BY <1>2, RunIs, 0 \in Nat, 0 + synced <= MaxEvents
<1>5. lines' = Run(0, synced) /\ cursor' = synced /\ synced' = synced /\ accepted' = synced
    BY <1>1, <1>3, <1>4
<1>6. /\ pending = <<>> /\ ~timer /\ ~deadlineExpired /\ active = "none" /\ ~continuation
      /\ barrier = "none" /\ storing = "idle" /\ entry = "durable" /\ acked <= synced
      /\ \A c \in Flushers : call[c] = "none" /\ need[c] = 0
    BY DEF GoneInv, DataOK
<1>7. FlagsOK'
    BY <1>1, Zenon DEF FlagsOK, Resume
<1>8. DataOK'
    BY <1>1, <1>2, <1>4, <1>5 DEF DataOK
<1>9. QueueInv'
  <2>1. Stored' = synced /\ InHand' = 0 /\ Len(pending') = 0
      BY <1>1, <1>5, <1>6 DEF Stored, InHand
  <2>2. pending' = Run(Stored' + InHand', Len(pending'))
      BY <1>1, <1>2, <1>6, <2>1, RunEmpty
  <2>3. Stored' + InHand' + Len(pending') = accepted'
      BY <1>2, <1>5, <2>1
  <2> QED
      BY <1>1, <1>5, <1>6, <2>2, <2>3 DEF QueueInv
<1>10. WriteInv'
    BY <1>1, <1>6 DEF WriteInv
<1>11. TimerInv'
    BY <1>1, <1>6 DEF TimerInv
<1>12. CallInv'
  <2>1. "retire" \in Flushers
      BY DEF Flushers
  <2> QED
      BY <1>1, <1>2, <1>5, <1>6, <2>1 DEF CallInv
<1>13. FileInv'
    BY <1>1, <1>5, <1>6 DEF FileInv
<1> QED
    BY <1>7, <1>8, <1>9, <1>10, <1>11, <1>12, <1>13, Assembled, Zenon

LEMMA RestartKeeps == ASSUME Assumptions, Inv, Restart PROVE Inv'
<1>0. host = "down" /\ host' = "live" /\ entry = "absent"
    BY DEF Restart
<1>a. FlagsOK /\ DataOK /\ GoneInv /\ MaxEvents \in Nat
    BY <1>0 DEF Inv, Assumptions
<1> USE <1>0, <1>a
<1>1. /\ seed' \in SeedLengths /\ accepted' = seed'
      /\ init' = "seeding" /\ cursor' = 0 /\ ~materialized'
      /\ UNCHANGED <<pending, timer, deadlineExpired, automaticPaused, active, background,
             batch, continuation, barrier, call, storing, before, lines, synced, entry, need,
             acked, faults, crashes, faulted>>
    BY Zenon DEF Restart, behind, disk
<1>2. seed' \in 0 .. MaxEvents
    BY <1>1 DEF Assumptions
<1>3. /\ pending = <<>> /\ ~timer /\ ~deadlineExpired /\ active = "none" /\ ~continuation
      /\ barrier = "none" /\ storing = "idle" /\ lines = <<>>
      /\ \A c \in Flushers : call[c] = "none" /\ need[c] = 0
    BY DEF GoneInv
<1>4. synced = 0 /\ acked = 0 /\ Len(lines) = 0
    BY <1>3 DEF GoneInv, DataOK
<1>5. FlagsOK'
    BY <1>1, Zenon DEF FlagsOK, Restart
<1>6. DataOK'
    BY <1>1, <1>2 DEF DataOK
<1>7. QueueInv'
  <2>1. Stored' = seed' /\ InHand' = 0 /\ Len(pending') = 0
      BY <1>1, <1>3 DEF Stored, InHand
  <2>2. pending' = Run(Stored' + InHand', Len(pending'))
      BY <1>1, <1>2, <1>3, <2>1, RunEmpty
  <2>3. Stored' + InHand' + Len(pending') = accepted'
    <3>1. accepted' = seed'
        BY <1>1, Zenon
    <3>2. seed' \in Nat
        BY <1>2
    <3>3. \A n \in Nat : n + 0 + 0 = n
        OBVIOUS
    <3> QED
        BY <2>1, <3>1, <3>2, <3>3, Zenon
  <2> QED
      BY <1>1, <1>3, <1>4, <2>2, <2>3 DEF QueueInv
<1>8. WriteInv'
    BY <1>1, <1>3 DEF WriteInv
<1>9. TimerInv'
    BY <1>1, <1>3 DEF TimerInv
<1>10. CallInv'
  <2>1. "retire" \in Flushers
      BY DEF Flushers
  <2> QED
      BY <1>1, <1>2, <1>3, <2>1 DEF CallInv
<1>11. FileInv'
    BY <1>1, <1>2, <1>3, <1>4, RunEmpty, 0 \in Nat DEF FileInv
<1> QED
    BY <1>5, <1>6, <1>7, <1>8, <1>9, <1>10, <1>11, Assembled, Zenon

-----------------------------------------------------------------------------
(* The invariant *)

LEMMA InitInv == ASSUME Assumptions, Init PROVE Inv
<1>0. MaxEvents \in Nat /\ MaxFaults \in Nat /\ MaxCrashes \in Nat /\ seed \in 0 .. MaxEvents
    BY DEF Assumptions, Init
<1>1. FlagsOK
    BY Zenon DEF FlagsOK, Init
<1>2. DataOK
    BY <1>0 DEF DataOK, Init, Phases, Awaits
<1>3. QueueInv
    BY <1>0, RunEmpty DEF Init, QueueInv, Stored, InHand
<1>4. WriteInv
    BY DEF Init, WriteInv
<1>5. TimerInv
    BY DEF Init, TimerInv
<1>6. CallInv
  <2>1. "retire" \in Flushers
      BY DEF Flushers
  <2> QED
      BY <1>0, <2>1 DEF Init, CallInv
<1>7. FileInv
    BY <1>0, RunEmpty, 0 \in Nat DEF Init, FileInv
<1> QED
    BY <1>1, <1>2, <1>3, <1>4, <1>5, <1>6, <1>7, Zenon DEF Inv, LiveInv, Init

LEMMA NextKeeps == ASSUME Assumptions, Inv, [Next]_vars PROVE Inv'
<1>1. CASE Enqueue \/ Deadline
    BY <1>1, EnqueueKeeps, DeadlineKeeps
<1>2. CASE Dispose
    BY <1>2, CallFlushKeeps DEF Dispose, Flushers
<1>3. CASE Microtask
    BY <1>3, WriteStoredKeeps, CatchFailureKeeps, WriteFailedKeeps, ContinueAutomaticKeeps,
       ResumeBarrierKeeps DEF Microtask
<1>4. CASE Storage
    BY <1>4, BeginStoreKeeps, WriteLinesKeeps, SyncLinesKeeps, RollbackAppendKeeps,
       PublishKeeps, SyncDirectoryKeeps DEF Storage
<1>5. CASE Release \/ PowerLoss \/ Resume \/ Restart
    BY <1>5, ReleaseKeeps, PowerLossKeeps, ResumeKeeps, RestartKeeps
<1>6. CASE \E c \in Callers : Flush(c)
  <2>1. PICK c \in Callers : CallFlush(c)
      BY <1>6, Zenon DEF Flush
  <2>2. c \in Flushers /\ c # "retire"
      BY Zenon DEF Flushers, Assumptions
  <2> QED
      BY <2>1, <2>2, CallFlushKeeps, Zenon
<1>7. CASE \E c \in Flushers : AwaitInit(c)
    BY <1>7, AwaitInitKeeps, Zenon
<1>8. CASE UNCHANGED vars
  <2>1. UNCHANGED <<pending, timer, deadlineExpired, automaticPaused, active, background,
            batch, continuation, barrier, init, cursor, materialized, seed, call, storing,
            before, lines, synced, entry, host, accepted, need, acked, faults, crashes, faulted>>
      BY <1>8, Zenon DEF vars, behind, owner, disk, past
  <2>2. FlagsOK' <=> FlagsOK
      BY <2>1, Zenon DEF FlagsOK
  <2>3. DataOK' <=> DataOK
      BY <2>1 DEF DataOK
  <2>4. QueueInv' <=> QueueInv
      BY <2>1 DEF QueueInv, Stored, InHand
  <2>5. (WriteInv' <=> WriteInv) /\ (TimerInv' <=> TimerInv)
      BY <2>1, Zenon DEF WriteInv, TimerInv, Stuck
  <2>6. (CallInv' <=> CallInv) /\ (GoneInv' <=> GoneInv)
      BY <2>1, Zenon DEF CallInv, GoneInv
  <2>7. FileInv' <=> FileInv
      BY <2>1, Zenon DEF FileInv, Writing
  <2> QED
      BY <2>1, <2>2, <2>3, <2>4, <2>5, <2>6, <2>7, Zenon DEF Inv, LiveInv
<1> QED
    BY <1>1, <1>2, <1>3, <1>4, <1>5, <1>6, <1>7, <1>8 DEF Next

\* The inductive invariant of the write path: where each accepted event is, who
\* will write and answer for it, and what the file holds at each place of an append.
THEOREM Invariance == Spec => []Inv
<1>1. Init => Inv
    BY InitInv, Assumptions
<1>2. Inv /\ [Next]_vars => Inv'
    BY NextKeeps, Assumptions
<1> QED
    BY <1>1, <1>2, PTL DEF Spec

LEMMA InvTypes == Inv => TypeOK
<1> SUFFICES ASSUME Inv PROVE TypeOK
    OBVIOUS
<1>1. {timer, deadlineExpired, automaticPaused, background, continuation, materialized,
       faulted} \subseteq BOOLEAN
    BY Zenon DEF Inv, FlagsOK
<1>2. DataOK
    BY DEF Inv
<1> QED
    BY <1>1, <1>2, Zenon DEF TypeOK, DataOK

\* Types: every variable of the controller, the coordinator and the file keeps its own.
THEOREM TypeCorrect == Spec => []TypeOK
BY Invariance, InvTypes, PTL

LEMMA InvNothingStranded == Inv => NothingStranded
BY DEF Inv, LiveInv, TimerInv, NothingStranded

\* No queued event is forgotten: it always has a timer, a write, a barrier, a flush
\* on its way or the next event to write it (write-behind.ts:109, :146).
THEOREM NoneStranded == Spec => []NothingStranded
BY Invariance, InvNothingStranded, PTL

-----------------------------------------------------------------------------
(* Rejections *)

LEMMA RejectStep ==
    ASSUME Assumptions, Inv, [Next]_vars, Rejects
    PROVE  faulted \/ ~MaterializesAtomically
<1>1. PICK c \in Flushers : call[c] = "barrier" /\ call'[c] = "rejected"
    BY Zenon DEF Rejects
<1>2. host = "live"
    BY <1>1 DEF Inv, GoneInv
<1>3. /\ DataOK /\ WriteInv /\ CallInv
    BY <1>2, LiveParts
<1>4. ASSUME NEW d \in Flushers, NEW a \in Answers,
             call' = [call EXCEPT ![d] = a], d # c
      PROVE  FALSE
    BY <1>1, <1>3, <1>4 DEF DataOK
<1>5. ASSUME NEW calls, Drain(calls), calls[c] = "barrier"
      PROVE  FALSE
  <2>1. call' = calls \/ call' = Answered(calls, "resolved")
      BY <1>5 DEF Drain
  <2> QED
      BY <1>1, <1>5, <2>1 DEF Answered
<1>6. ASSUME NEW d \in Flushers, CallFlush(d) PROVE FALSE
  <2>1. d # c /\ call' = [call EXCEPT ![d] = "init"]
      BY <1>1, <1>6 DEF CallFlush
  <2> QED
      BY <2>1, <1>4 DEF Answers
<1>7. ASSUME NEW d \in Flushers, AwaitInit(d) PROVE FALSE
  <2> DEFINE joined == [call EXCEPT ![d] = "barrier"]
  <2>1. d # c /\ joined[c] = "barrier"
      BY <1>1, <1>3, <1>7 DEF AwaitInit, DataOK
  <2>2. call' = [call EXCEPT ![d] = "rejected"] \/ call' = joined \/ Drain(joined)
      BY <1>7, Zenon DEF AwaitInit
  <2> QED
      BY <2>1, <2>2, <1>4, <1>5 DEF Answers
<1>8. CASE ResumeBarrier
  <2>1. CASE Drain(call)
      BY <1>1, <1>5, <2>1
  <2>2. CASE barrier = "failed"
    <3>1. faulted \/ Stuck
        BY <1>3, <2>2 DEF WriteInv
    <3> QED
        BY <1>2, <3>1, Zenon DEF Stuck, MaterializesAtomically
  <2> QED
      BY <1>8, <2>1, <2>2, Zenon DEF ResumeBarrier
<1>9. CASE Release \/ PowerLoss
    BY <1>1, <1>9 DEF Release, PowerLoss, EmptyController
<1>10. CASE Dispose \/ (\E d \in Callers : Flush(d)) \/ (\E d \in Flushers : AwaitInit(d))
    BY <1>6, <1>7, <1>10 DEF Dispose, Flush, Flushers
<1>11. CASE call' = call
    BY <1>1, <1>11
<1>12. ASSUME Enqueue \/ Deadline \/ WriteStored \/ CatchFailure \/ WriteFailed
              \/ ContinueAutomatic \/ Storage \/ Resume \/ Restart
       PROVE  call' = call
    BY <1>12, Zenon DEF Enqueue, Deadline, WriteStored, CatchFailure, WriteFailed,
       ContinueAutomatic, Storage, BeginStore, WriteLines, SyncLines, RollbackAppend, Publish,
       SyncDirectory, controller, Resume, Restart
<1>13. UNCHANGED vars => call' = call
    BY Zenon DEF vars
<1> QED
    BY <1>8, <1>9, <1>10, <1>11, <1>12, <1>13, Zenon DEF Next, Microtask

\* A flush rejects only because the storage has refused something since its barrier
\* last tried, or the log is half materialized (write-behind.ts:61).
THEOREM RejectionsAreDue == Spec => RejectsOnlyOnFault
<1>1. Inv /\ [Next]_vars => [Rejects => faulted \/ ~MaterializesAtomically]_vars
    BY RejectStep, Assumptions
<1> QED
    BY <1>1, Invariance, PTL DEF Spec, RejectsOnlyOnFault

-----------------------------------------------------------------------------
(* The refinement of DurableLog *)

\* How many events no loss of power takes away.
Kept == IF host = "live" THEN cursor ELSE synced

\* Those are the first events of the log, and every answered flush is among them.
KeptInv ==
    /\ Durable = Run(0, Kept) /\ Kept \in 0 .. accepted /\ Kept \in Nat
    /\ acked \in Nat /\ acked <= Kept /\ accepted \in Nat
    /\ Len(Durable) = Kept

LEMMA DurableIs == ASSUME Assumptions, Inv PROVE KeptInv
<1> USE DEF KeptInv
<1>0. DataOK /\ accepted \in Nat /\ acked \in Nat /\ cursor \in Nat /\ synced \in Nat
    BY DEF Inv, DataOK, Assumptions
<1>1. CASE host = "live"
  <2>1. PICK m \in 0 .. accepted :
            (lines = Run(0, m) \/ lines = Append(Run(0, m), Torn)) /\ synced <= m
      BY <1>1, LiveFile
  <2>2. /\ entry = "durable" => synced = cursor
        /\ entry # "durable" => cursor = 0
        /\ acked <= cursor
      BY <1>0, <1>1, LiveFile DEF DataOK
  <2>3. SubSeq(lines, 1, synced) = Run(0, synced)
    <3>1. m \in Nat /\ synced \in 0 .. m
        BY <1>0, <2>1
    <3>2. /\ SubSeq(Run(0, m), 1, synced) = Run(0, synced)
          /\ SubSeq(Append(Run(0, m), Torn), 1, synced) = Run(0, synced)
        BY <3>1, RunPrefix, TornIs, 0 \in Nat
    <3> QED
        BY <2>1, <3>2
  <2>4. Durable = Run(0, cursor)
      BY <2>2, <2>3, RunEmpty, 0 \in Nat DEF Durable
  <2>5. cursor <= accepted
    <3>1. CASE entry = "durable"
        BY <1>0, <2>1, <2>2, <3>1
    <3> QED
        BY <1>0, <2>2, <3>1
  <2>6. Kept = cursor
      BY <1>1 DEF Kept
  <2> QED
      BY <1>0, <2>2, <2>4, <2>5, <2>6, RunIs, 0 \in Nat
<1>2. CASE host # "live"
  <2>1. GoneInv
      BY <1>2 DEF Inv
  <2>2. SubSeq(lines, 1, synced) = Run(0, synced)
    <3>1. synced \in 0 .. synced
        BY <1>0
    <3>2. /\ SubSeq(Run(0, synced), 1, synced) = Run(0, synced)
          /\ SubSeq(Append(Run(0, synced), Torn), 1, synced) = Run(0, synced)
        BY <1>0, <3>1, RunPrefix, TornIs, 0 \in Nat
    <3> QED
        BY <2>1, <3>2 DEF GoneInv
  <2>3. entry # "durable" => synced = 0
      BY <1>0, <2>1 DEF GoneInv, DataOK
  <2>4. Durable = Run(0, synced)
      BY <2>2, <2>3, RunEmpty, 0 \in Nat DEF Durable
  <2>5. Kept = synced /\ acked <= synced /\ synced <= accepted
      BY <1>2, <2>1 DEF Kept, GoneInv
  <2> QED
      BY <1>0, <2>4, <2>5, RunIs, 0 \in Nat
<1> QED
    BY <1>1, <1>2

\* The steps of the promise, in terms of what is kept.
LEMMA MapsToStutter ==
    ASSUME Durable' = Durable, accepted' = accepted, acked' = acked,
           (host' = "down") <=> (host = "down")
    PROVE  UNCHANGED Promise!dvars
BY Zenon DEF Promise!dvars

LEMMA MapsToPersist ==
    ASSUME KeptInv, KeptInv', Kept < Kept', UNCHANGED <<accepted, acked, host>>
    PROVE  Promise!Persist
<1>1. Len(Durable) = Kept /\ Kept \in Nat /\ Kept' \in 0 .. accepted' /\ Durable' = Run(0, Kept')
    BY DEF KeptInv
<1>2. Kept' \in Len(Durable) + 1 .. accepted
    BY <1>1
<1>3. Durable' = Promise!First(Kept')
    BY <1>1 DEF Promise!First, Run
<1>4. UNCHANGED <<accepted, acked, host = "down">>
    BY Zenon
<1> QED
    BY <1>2, <1>3, <1>4, Zenon DEF Promise!Persist

LEMMA MapsToAcknowledge ==
    ASSUME KeptInv, KeptInv', Durable' = Durable, acked' >= acked,
           host = "live", UNCHANGED <<accepted, host>>
    PROVE  Promise!Acknowledge
<1>1. Len(Durable) = Kept /\ Len(Durable') = Kept' /\ acked' <= Kept'
    BY DEF KeptInv
<1>2. acked' <= Len(Durable) /\ ~ (host = "down")
    BY <1>1
<1>3. UNCHANGED <<Durable, accepted, host = "down">>
    BY Zenon
<1> QED
    BY <1>2, <1>3, Zenon DEF Promise!Acknowledge

LEMMA MapsToCrash ==
    ASSUME KeptInv, KeptInv', Kept <= Kept', host' = "down", UNCHANGED <<accepted, acked>>
    PROVE  Promise!Crash
<1>1. Len(Durable) = Kept /\ Kept \in Nat /\ Kept' \in 0 .. accepted' /\ Durable' = Run(0, Kept')
    BY DEF KeptInv
<1>2. Kept' \in Len(Durable) .. accepted
    BY <1>1
<1>3. Durable' = Promise!First(Kept')
    BY <1>1 DEF Promise!First, Run
<1> QED
    BY <1>2, <1>3, Zenon DEF Promise!Crash

LEMMA MapsToRecover ==
    ASSUME KeptInv, KeptInv', Durable' = Durable, acked' = acked, host = "down",
           host' = "live"
    PROVE  Promise!Recover
<1>1. accepted' \in Nat /\ accepted' >= Len(Durable)
  <2>1. Len(Durable') = Kept' /\ Kept' \in 0 .. accepted' /\ accepted' \in Nat
      BY DEF KeptInv
  <2> QED
      BY <2>1
<1>2. (host' = "down") = FALSE
    OBVIOUS
<1> QED
    BY <1>1, <1>2, Zenon DEF Promise!Recover

\* The file, the cursor and the session's side of the promise stay as they are.
Settled == UNCHANGED <<lines, synced, entry, accepted, acked, host>>

LEMMA SettledMaps == ASSUME Settled PROVE UNCHANGED Promise!dvars
<1>1. Durable' = Durable
    BY DEF Settled, Durable
<1>2. accepted' = accepted /\ acked' = acked /\ host' = host
    BY Zenon DEF Settled
<1> QED
    BY <1>1, <1>2, MapsToStutter, Zenon

LEMMA DrainMaps ==
    ASSUME Assumptions, Inv, Inv', KeptInv, KeptInv',
           host = "live", active = "none", init = "ready", NEW calls,
           Drain(calls), UNCHANGED <<lines, synced, entry, accepted, host>>
    PROVE  Promise!Acknowledge
<1>1. Durable' = Durable
    BY DEF Durable
<1>2. acked' >= acked
  <2>1. CASE pending # <<>>
    <3>1. acked' = acked /\ acked \in Nat
        BY <2>1 DEF Drain, KeptInv
    <3> QED
        BY <3>1
  <2>2. CASE pending = <<>>
    <3>1. acked' = Max({acked} \cup {need[c] : c \in {d \in Flushers : calls[d] = "barrier"}})
        BY <2>2, Zenon DEF Drain
    <3> QED
        BY <2>2, <3>1, AckedBounded
  <2> QED
      BY <2>1, <2>2
<1> QED
    BY <1>1, <1>2, MapsToAcknowledge

LEMMA StorageMaps ==
    ASSUME Assumptions, Inv, Inv', KeptInv, KeptInv', Storage
    PROVE  Promise!Next \/ UNCHANGED Promise!dvars
<1>0. host = "live"
    BY Zenon DEF Inv, GoneInv, Storage, BeginStore, WriteLines, SyncLines, RollbackAppend,
       Publish, SyncDirectory
<1>1. Alone /\ UNCHANGED <<accepted, acked, host>>
    BY Zenon DEF Alone, Storage, BeginStore, WriteLines, SyncLines, RollbackAppend, Publish,
       SyncDirectory, controller
<1>2. Kept = cursor /\ Kept' = cursor'
    BY <1>0, <1>1 DEF Kept
<1>3. CASE cursor' = cursor
  <2>1. Durable' = Durable
      BY <1>2, <1>3 DEF KeptInv
  <2> QED
      BY <1>1, <2>1, MapsToStutter
<1>4. CASE StoreDone /\ storing \in {"written", "linked"} /\ faulted' = faulted
  <2>1. cursor < cursor'
      BY <1>0, <1>1, <1>4, StoreDoneKeeps
  <2> QED
      BY <1>1, <1>2, <2>1, MapsToPersist DEF Promise!Next
<1>5. cursor' = cursor \/ (StoreDone /\ storing \in {"written", "linked"} /\ faulted' = faulted)
    BY Zenon DEF Storage, BeginStore, WriteLines, SyncLines, RollbackAppend, Publish,
       SyncDirectory, StoreFailed
<1> QED
    BY <1>3, <1>4, <1>5

LEMMA NextMaps ==
    ASSUME Assumptions, Inv, Inv', KeptInv, KeptInv', [Next]_vars
    PROVE  Promise!Next \/ UNCHANGED Promise!dvars
<1>1. CASE Enqueue
  <2>1. UNCHANGED <<lines, synced, entry, acked, host>> /\ accepted' = accepted + 1 /\ host = "live"
      BY <1>1, Zenon DEF Enqueue, disk
  <2>2. Durable' = Durable /\ ~ (host = "down")
      BY <2>1 DEF Durable
  <2>3. UNCHANGED <<Durable, acked, host = "down">>
      BY <2>1, <2>2, Zenon
  <2> QED
      BY <2>1, <2>2, <2>3, Zenon DEF Promise!Next, Promise!Accept
<1>2. ASSUME \/ Deadline \/ Dispose \/ WriteStored \/ CatchFailure \/ WriteFailed
             \/ ContinueAutomatic \/ \E c \in Callers : Flush(c)
             \/ UNCHANGED vars
      PROVE  Settled
    BY <1>2, Zenon DEF Settled, Deadline, Dispose, WriteStored, CatchFailure, WriteFailed,
       ContinueAutomatic, Flush, CallFlush, vars, disk, past
<1>3. CASE ResumeBarrier
  <2>1. UNCHANGED <<lines, synced, entry, accepted, host>>
      BY <1>3, Zenon DEF ResumeBarrier, disk
  <2>2. host = "live"
      BY <1>3, Zenon DEF ResumeBarrier, Inv, GoneInv
  <2>3. CASE barrier = "failed"
    <3>1. Settled
        BY <1>3, <2>1, <2>3 DEF ResumeBarrier, Settled
    <3> QED
        BY <3>1, SettledMaps
  <2>4. CASE barrier # "failed"
    <3>1. Drain(call) /\ barrier \in {"overlap", "drained"}
        BY <1>3, <2>4 DEF ResumeBarrier
    <3>2. active = "none" /\ init = "ready"
      <4>1. WriteInv
          BY <2>2, LiveParts
      <4> QED
          BY <1>3, <2>4, <4>1 DEF WriteInv, ResumeBarrier
    <3> QED
        BY <2>1, <2>2, <3>1, <3>2, DrainMaps DEF Promise!Next
  <2> QED
      BY <2>3, <2>4
<1>4. CASE \E c \in Flushers : AwaitInit(c)
  <2>1. PICK c \in Flushers : AwaitInit(c)
      BY <1>4, Zenon
  <2>2. UNCHANGED <<lines, synced, entry, accepted, host>> /\ call[c] = "init"
      BY <2>1, Zenon DEF AwaitInit, disk
  <2>3. host = "live"
      BY <2>2, Zenon DEF Inv, GoneInv
  <2>4. CASE UNCHANGED acked
      BY <2>2, <2>4, SettledMaps, Zenon DEF Settled
  <2>5. CASE init = "ready" /\ active = "none" /\ Drain([call EXCEPT ![c] = "barrier"])
      BY <2>2, <2>3, <2>5, DrainMaps, Zenon DEF Promise!Next
  <2> QED
      BY <2>1, <2>4, <2>5, Zenon DEF AwaitInit
<1>5. CASE Storage
    BY <1>5, StorageMaps
<1>6. CASE Release
  <2>1. UNCHANGED <<lines, synced, entry, accepted, acked>> /\ host = "live" /\ host' = "closed"
      BY <1>6, Zenon DEF Release
  <2>2. Durable' = Durable /\ ((host' = "down") <=> (host = "down"))
      BY <2>1 DEF Durable
  <2> QED
      BY <2>1, <2>2, MapsToStutter
<1>7. CASE PowerLoss
  <2>1. host = "live" /\ host' = "down" /\ UNCHANGED <<accepted, acked>>
      BY <1>7, Zenon DEF PowerLoss
  <2>2. /\ entry = "durable" => synced = cursor
        /\ entry # "durable" => cursor = 0
        /\ DataOK /\ DataOK'
      BY <2>1, LiveFile DEF Inv, DataOK
  <2>3. cursor <= synced'
    <3>1. CASE entry # "durable"
        BY <2>2, <3>1 DEF DataOK
    <3>2. CASE entry = "durable"
      <4>1. PICK n \in synced .. Len(Whole(lines)) : synced' = n
          BY <1>7, <3>2, Zenon DEF PowerLoss
      <4> QED
          BY <2>2, <3>2, <4>1 DEF DataOK
    <3> QED
        BY <3>1, <3>2
  <2>4. Kept <= Kept'
      BY <2>1, <2>3 DEF Kept
  <2> QED
      BY <2>1, <2>4, MapsToCrash DEF Promise!Next
<1>8. CASE Resume
  <2>1. host # "live" /\ host' = "live" /\ acked' = acked /\ accepted' = cursor'
      BY <1>8, Zenon DEF Resume
  <2>2. GoneInv /\ synced \in Nat
      BY <2>1 DEF Inv, DataOK
  <2>3. cursor' = synced
    <3>1. Whole(lines) = Run(0, synced)
        BY <2>2, WholeRun DEF GoneInv
    <3>2. cursor' = Len(Whole(lines))
        BY <1>8, Zenon DEF Resume
    <3> QED
        BY <2>2, <3>1, <3>2, RunIs, 0 \in Nat
  <2>4. Kept' = Kept
      BY <2>1, <2>3 DEF Kept
  <2>5. Durable' = Durable
      BY <2>4 DEF KeptInv
  <2>6. CASE host = "down"
      BY <2>1, <2>5, <2>6, MapsToRecover DEF Promise!Next
  <2>7. CASE host = "closed"
    <3>1. accepted' = accepted
        BY <2>1, <2>2, <2>3, <2>7 DEF GoneInv
    <3>2. (host' = "down") <=> (host = "down")
        BY <2>1, <2>7
    <3> QED
        BY <2>1, <2>5, <3>1, <3>2, MapsToStutter
  <2> QED
      BY <2>1, <2>6, <2>7 DEF Inv, DataOK
<1>9. CASE Restart
  <2>1. /\ host = "down" /\ host' = "live" /\ acked' = acked /\ entry = "absent"
        /\ cursor' = 0 /\ UNCHANGED <<lines, synced, entry>>
      BY <1>9, Zenon DEF Restart, disk
  <2>2. Durable' = Durable
      BY <2>1 DEF Durable
  <2> QED
      BY <2>1, <2>2, MapsToRecover DEF Promise!Next
<1> QED
    BY <1>1, <1>2, <1>3, <1>4, <1>5, <1>6, <1>7, <1>8, <1>9, SettledMaps, Zenon
    DEF Next, Microtask

LEMMA InitMaps == ASSUME Assumptions, Init PROVE Promise!Init
<1>1. Durable = <<>> /\ accepted \in Nat /\ acked = 0
    BY DEF Init, Durable, Assumptions
<1>2. (host = "down") = FALSE
    BY DEF Init
<1> QED
    BY <1>1, <1>2, Zenon DEF Promise!Init

\* WriteBehind implements DurableLog: what a loss of power leaves is a prefix of the
\* accepted events, it only grows, and it holds all a resolved flush has answered for
\* (session-persistence/README.md, "Invariants every backend must honor").
THEOREM PromiseKept == Spec => KeepsThePromise
<1>1. Init => Promise!Init
    BY InitMaps, Assumptions
<1>2. Inv => KeptInv
    BY DurableIs, Assumptions
<1>3. Inv /\ Inv' /\ KeptInv /\ KeptInv' /\ [Next]_vars => [Promise!Next]_(Promise!dvars)
    BY NextMaps, Assumptions
<1> QED
    BY <1>1, <1>2, <1>3, Invariance, PTL DEF Spec, KeepsThePromise, Promise!Spec

=============================================================================
