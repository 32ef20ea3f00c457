------------------------- MODULE SessionRepairProofs -------------------------
(***************************************************************************)
(* Theorems about SessionRepair, for any number of calls, turns and steps:  *)
(* a log that has crashed, been repaired and been resumed any number of     *)
(* times is valid, a repair closes it and converges whatever of it is       *)
(* stored, and a call reported as never started has never run.              *)
(***************************************************************************)
EXTENDS SessionRepair, SequenceTheorems, FiniteSetTheorems, WellFoundedInduction, TLAPS

\* Events, by the form each kind has.
Event ==
    [type : {"turn/start", "turn/end"}, turn : Nat]
    \cup [type : {"step/start", "step/end"}, turn : Nat, step : Nat]
    \cup [type : {"assistant/message"}, turn : Nat, step : Nat, blocks : Seq(Calls)]
    \cup [type : {"tool/call"}, turn : Nat, step : Nat, call : Calls]
    \cup [type : {"tool/result"}, turn : Nat, step : Nat, call : Calls,
          code : {"none", "TOOL_OUTCOME_UNKNOWN", "TOOL_NOT_STARTED"},
          notStarted : BOOLEAN]

Prefix(events, n) == SubSeq(events, 1, n)

\* The validator's bookkeeping after the log.
TraceInv(events) ==
    LET t == Trace(events) IN
    /\ IsValid(events)
    /\ t \in [openTurn : 0..MaxTurns, openStep : 0..MaxSteps, nextTurn : Nat \ {0},
              nextStep : Nat \ {0}, pendingCalls : SUBSET Calls]
    /\ t.openTurn # None => t.openTurn = t.nextTurn
    /\ t.openStep # None => t.openTurn # None /\ t.openStep = t.nextStep
    /\ t.openStep = None => t.pendingCalls = {}
    /\ LastTurn(events) \in Nat
    /\ t.nextTurn = IF t.openTurn = None THEN LastTurn(events) + 1 ELSE LastTurn(events)

\* The scan of the repair agrees with it: what it holds open, and its pending calls,
\* of which those it has marked as started are the ones the validator waits for.
Pending == [call : Calls, step : Nat, started : BOOLEAN]
Current(events) == Announced(events, Trace(events).openTurn, Trace(events).openStep)

ScanInv(events) ==
    LET t == Trace(events)
        s == Scanned(events)
        p == s.pendingCalls
    IN
    /\ s \in [openTurn : Nat, openStep : Nat, pendingCalls : Seq(Pending)]
    /\ s.openTurn = t.openTurn /\ s.openStep = t.openStep
    /\ t.openStep = None => p = <<>>
    /\ \A i, j \in DOMAIN p : p[i].call = p[j].call => i = j
    /\ \A i \in DOMAIN p :
        /\ p[i].step = t.openStep /\ p[i].call \in Current(events)
        /\ p[i].started <=> Of(events, "tool/call", p[i].call) # {}
    /\ \A c \in Calls :
        c \in t.pendingCalls <=> \E i \in DOMAIN p : p[i].call = c /\ p[i].started

\* A call is waited for, or has its one result.
Waits(events, c) ==
    \E i \in DOMAIN Scanned(events).pendingCalls : Scanned(events).pendingCalls[i].call = c
Once(events, c) ==
    IF Waits(events, c) THEN Of(events, "tool/result", c) = {}
                        ELSE \E i \in Nat : Of(events, "tool/result", c) = {i}

\* Calls are asked for once, in their order, and before anything is said of them.
AskedInv(events) ==
    /\ \E m \in 0..NumCalls : Asked(events) = 1..m
    /\ \A i \in DOMAIN events :
        events[i].type \in {"tool/call", "tool/result"} => events[i].call \in Asked(events)

\* No message is of a step that is yet to come.
PlacesInv(events) ==
    LET t == Trace(events) IN
    \A i \in DOMAIN events : events[i].type = "assistant/message" =>
        \/ events[i].turn < t.nextTurn
        \/ /\ t.openTurn # None /\ events[i].turn = t.openTurn
           /\ events[i].step < t.nextStep \/ events[i].step = t.openStep

\* A result says that its call has not started exactly if the log says so.
ResultsInv(events) ==
    \A i \in DOMAIN events : events[i].type = "tool/result" =>
        (events[i].notStarted <=> Of(events, "tool/call", events[i].call) = {})

OnceInv(events) ==
    Trace(events).openStep # None => \A c \in Current(events) : Once(events, c)

CallsInv(events) ==
    AskedInv(events) /\ PlacesInv(events) /\ ResultsInv(events) /\ OnceInv(events)

Holds(events) == TraceInv(events) /\ ScanInv(events) /\ CallsInv(events)
Good(events) == \A n \in 0..Len(events) : Holds(Prefix(events, n))

\* A call that a repair has given up is not of the step in which a live session is.
NoneGivenUp(events) ==
    Trace(events).openStep # None =>
        \A i \in DOMAIN events :
            events[i].type = "tool/result" /\ events[i].notStarted
                => events[i].call \notin Current(events)

LiveInv == live => NoneGivenUp(log)

\* What has run was recorded first, durably.
RanInv == \A c \in ran : \E i \in 1..durable : i \in Of(log, "tool/call", c)

Inv ==
    /\ live \in BOOLEAN /\ log \in Seq(Event) /\ durable \in 0..Len(log) /\ ran \subseteq Calls
    /\ Good(log) /\ LiveInv /\ RanInv

-----------------------------------------------------------------------------
(* Induction over the log *)

LEMMA Least ==
    ASSUME NEW T \in SUBSET Nat, T # {}
    PROVE  \E n \in T : \A m \in T : n <= m
<1>1. \E n \in T : \A m \in T : ~ (<<m, n>> \in OpToRel(<, Nat))
    BY NatLessThanWellFounded, WFMin, Zenon
<1>2. ASSUME NEW m \in Nat, NEW n \in Nat, m < n PROVE <<m, n>> \in OpToRel(<, Nat)
    BY <1>2 DEF OpToRel
<1>3. \E n \in T : \A m \in T : ~ (m < n)
    BY <1>1, <1>2, Zenon
<1> QED
    BY <1>3

\* What holds of nothing, and of one more whenever it holds, holds of all up to N.
LEMMA Induct ==
    ASSUME NEW N \in Nat, NEW S, 0 \in S, \A n \in 0..N : n \in S /\ n < N => n + 1 \in S
    PROVE  \A n \in 0..N : n \in S
<1> DEFINE T == {n \in 0..N : n \notin S}
<1>1. SUFFICES ASSUME T # {} PROVE FALSE
    OBVIOUS
<1>0. T \in SUBSET Nat
    OBVIOUS
<1>2. PICK n \in T : \A m \in T : n <= m
  <2> HIDE DEF T
  <2> QED
      BY <1>0, <1>1, Least
<1>3. n # 0 /\ n - 1 \in 0..N /\ n - 1 \notin T
    BY <1>2
<1> QED
    BY <1>2, <1>3

-----------------------------------------------------------------------------
(* The traces and the scans of a log, which are defined by recursion *)

LEMMA TracesAre ==
    ASSUME NEW events, Len(events) \in Nat
    PROVE  Traces(events) = [i \in 0..Len(events) |->
               IF i = 0 THEN FreshTrace ELSE Advance(Traces(events)[i - 1], events[i])]
<1> DEFINE N == Len(events)
           Body(g, n) == [i \in 0..n |->
                             IF i = 0 THEN FreshTrace ELSE Advance(g[i - 1], events[i])]
           S == {n \in 0..N : \E g : g = Body(g, n)}
<1>1. 0 \in S
  <2> DEFINE g == [i \in 0..0 |-> FreshTrace]
  <2>1. g = Body(g, 0)
      OBVIOUS
  <2> HIDE DEF g
  <2>2. \E f : f = Body(f, 0)
      BY <2>1, Zenon
  <2> QED
      BY <2>2
<1>2. ASSUME NEW n \in 0..N, n \in S, n < N PROVE n + 1 \in S
  <2>1. PICK g : g = Body(g, n)
      BY <1>2
  <2> DEFINE h == Body(g, n + 1)
  <2>2. \A i \in 0..n : h[i] = g[i]
      BY <2>1
  <2>3. h = Body(h, n + 1)
    <3>1. \A i \in 0..(n + 1) : i # 0 => i - 1 \in 0..n
        OBVIOUS
    <3>2. \A i \in 0..(n + 1) : i # 0 => h[i - 1] = g[i - 1]
        BY <2>2, <3>1
    <3> HIDE DEF h
    <3>3. \A i \in 0..(n + 1) : Body(g, n + 1)[i] = Body(h, n + 1)[i]
        BY <3>2
    <3>4. Body(g, n + 1) = Body(h, n + 1)
        BY <3>3
    <3> QED
        BY <3>4 DEF h
  <2> HIDE DEF h
  <2>4. \E f : f = Body(f, n + 1)
      BY <2>3, Zenon
  <2>5. n + 1 \in 0..N
      BY <1>2
  <2> QED
      BY <2>4, <2>5
<1>3. N \in S
  <2> HIDE DEF S
  <2>1. N \in 0..N
      OBVIOUS
  <2> QED
      BY <1>1, <1>2, <2>1, Induct
<1>4. PICK g : g = Body(g, N)
    BY <1>3
<1>5. Traces(events) = CHOOSE f : f = Body(f, N)
    BY DEF Traces
<1> QED
    BY <1>4, <1>5

LEMMA ScansAre ==
    ASSUME NEW events, Len(events) \in Nat
    PROVE  Scans(events) = [i \in 0..Len(events) |->
               IF i = 0 THEN NoneOpen ELSE Scan(Scans(events)[i - 1], events[i])]
<1> DEFINE N == Len(events)
           Body(g, n) == [i \in 0..n |->
                             IF i = 0 THEN NoneOpen ELSE Scan(g[i - 1], events[i])]
           S == {n \in 0..N : \E g : g = Body(g, n)}
<1>1. 0 \in S
  <2> DEFINE g == [i \in 0..0 |-> NoneOpen]
  <2>1. g = Body(g, 0)
      OBVIOUS
  <2> HIDE DEF g
  <2>2. \E f : f = Body(f, 0)
      BY <2>1, Zenon
  <2> QED
      BY <2>2
<1>2. ASSUME NEW n \in 0..N, n \in S, n < N PROVE n + 1 \in S
  <2>1. PICK g : g = Body(g, n)
      BY <1>2
  <2> DEFINE h == Body(g, n + 1)
  <2>2. \A i \in 0..n : h[i] = g[i]
      BY <2>1
  <2>3. h = Body(h, n + 1)
    <3>1. \A i \in 0..(n + 1) : i # 0 => i - 1 \in 0..n
        OBVIOUS
    <3>2. \A i \in 0..(n + 1) : i # 0 => h[i - 1] = g[i - 1]
        BY <2>2, <3>1
    <3> HIDE DEF h
    <3>3. \A i \in 0..(n + 1) : Body(g, n + 1)[i] = Body(h, n + 1)[i]
        BY <3>2
    <3>4. Body(g, n + 1) = Body(h, n + 1)
        BY <3>3
    <3> QED
        BY <3>4 DEF h
  <2> HIDE DEF h
  <2>4. \E f : f = Body(f, n + 1)
      BY <2>3, Zenon
  <2>5. n + 1 \in 0..N
      BY <1>2
  <2> QED
      BY <2>4, <2>5
<1>3. N \in S
  <2> HIDE DEF S
  <2>1. N \in 0..N
      OBVIOUS
  <2> QED
      BY <1>1, <1>2, <2>1, Induct
<1>4. PICK g : g = Body(g, N)
    BY <1>3
<1>5. Scans(events) = CHOOSE f : f = Body(f, N)
    BY DEF Scans
<1> QED
    BY <1>4, <1>5

\* The trace after a prefix depends on nothing behind it.
LEMMA TracesPrefix ==
    ASSUME NEW a, NEW b, Len(a) \in Nat, Len(b) \in Nat,
           NEW n \in Nat, n <= Len(a), n <= Len(b), \A i \in 1..n : a[i] = b[i]
    PROVE  \A i \in 0..n : Traces(a)[i] = Traces(b)[i]
<1> DEFINE S == {i \in 0..n : Traces(a)[i] = Traces(b)[i]}
<1>1. /\ \A i \in 0..n : Traces(a)[i] =
             IF i = 0 THEN FreshTrace ELSE Advance(Traces(a)[i - 1], a[i])
      /\ \A i \in 0..n : Traces(b)[i] =
             IF i = 0 THEN FreshTrace ELSE Advance(Traces(b)[i - 1], b[i])
    BY TracesAre
<1>2. 0 \in S
    BY <1>1
<1>3. ASSUME NEW i \in 0..n, i \in S, i < n PROVE i + 1 \in S
  <2>1. i + 1 \in 1..n /\ i + 1 \in 0..n /\ i + 1 # 0 /\ (i + 1) - 1 = i
      BY <1>3
  <2>2. /\ Traces(a)[i + 1] = Advance(Traces(a)[i], a[i + 1])
        /\ Traces(b)[i + 1] = Advance(Traces(b)[i], b[i + 1])
      BY <1>1, <2>1
  <2> QED
      BY <1>3, <2>1, <2>2
<1> HIDE DEF S
<1>4. \A i \in 0..n : i \in S
    BY <1>2, <1>3, Induct
<1> QED
    BY <1>4 DEF S

\* What the scan holds after a prefix depends on nothing behind it.
LEMMA ScansPrefix ==
    ASSUME NEW a, NEW b, Len(a) \in Nat, Len(b) \in Nat,
           NEW n \in Nat, n <= Len(a), n <= Len(b), \A i \in 1..n : a[i] = b[i]
    PROVE  \A i \in 0..n : Scans(a)[i] = Scans(b)[i]
<1> DEFINE S == {i \in 0..n : Scans(a)[i] = Scans(b)[i]}
<1>1. /\ \A i \in 0..n : Scans(a)[i] =
             IF i = 0 THEN NoneOpen ELSE Scan(Scans(a)[i - 1], a[i])
      /\ \A i \in 0..n : Scans(b)[i] =
             IF i = 0 THEN NoneOpen ELSE Scan(Scans(b)[i - 1], b[i])
    BY ScansAre
<1>2. 0 \in S
    BY <1>1
<1>3. ASSUME NEW i \in 0..n, i \in S, i < n PROVE i + 1 \in S
  <2>1. i + 1 \in 1..n /\ i + 1 \in 0..n /\ i + 1 # 0 /\ (i + 1) - 1 = i
      BY <1>3
  <2>2. /\ Scans(a)[i + 1] = Scan(Scans(a)[i], a[i + 1])
        /\ Scans(b)[i + 1] = Scan(Scans(b)[i], b[i + 1])
      BY <1>1, <2>1
  <2> QED
      BY <1>3, <2>1, <2>2
<1> HIDE DEF S
<1>4. \A i \in 0..n : i \in S
    BY <1>2, <1>3, Induct
<1> QED
    BY <1>4 DEF S

\* What one more event adds.
LEMMA AppendIs ==
    ASSUME NEW events \in Seq(Event), NEW e \in Event
    PROVE  /\ Append(events, e) \in Seq(Event)
           /\ Len(events) \in Nat /\ Len(Append(events, e)) = Len(events) + 1
           /\ DOMAIN events = 1..Len(events)
           /\ DOMAIN Append(events, e) = 1..(Len(events) + 1)
           /\ \A i \in 1..Len(events) : Append(events, e)[i] = events[i]
           /\ Append(events, e)[Len(events) + 1] = e
OBVIOUS

LEMMA TraceAppend ==
    ASSUME NEW events \in Seq(Event), NEW e \in Event
    PROVE  /\ Trace(Append(events, e)) = Advance(Trace(events), e)
           /\ Scanned(Append(events, e)) = Scan(Scanned(events), e)
           /\ IsValid(Append(events, e)) <=> IsValid(events) /\ Accepts(Trace(events), e)
<1> DEFINE N == Len(events)
           more == Append(events, e)
<1>1. /\ N \in Nat /\ Len(more) = N + 1 /\ more[N + 1] = e
      /\ \A i \in 1..N : more[i] = events[i]
      /\ DOMAIN events = 1..N /\ DOMAIN more = 1..(N + 1)
    BY AppendIs
<1> HIDE DEF N, more
<1>2. \A i \in 0..N : Traces(more)[i] = Traces(events)[i] /\ Scans(more)[i] = Scans(events)[i]
  <2>1. Len(events) = N
      BY DEF N
  <2>2. N <= N + 1 /\ N + 1 \in Nat /\ N <= N
      BY <1>1
  <2> QED
      BY <1>1, <2>1, <2>2, TracesPrefix, ScansPrefix
<1>3. N + 1 \in 0..(N + 1) /\ N + 1 # 0 /\ (N + 1) - 1 = N /\ N \in 0..N /\ Len(events) = N
    BY <1>1 DEF N
<1>4. Len(more) \in Nat
    BY <1>1
<1>5. Traces(more)[N + 1] = Advance(Traces(more)[N], more[N + 1])
  <2>1. Traces(more) = [i \in 0..Len(more) |->
            IF i = 0 THEN FreshTrace ELSE Advance(Traces(more)[i - 1], more[i])]
      BY <1>4, TracesAre
  <2> QED
      BY <1>1, <1>3, <2>1
<1>6. Scans(more)[N + 1] = Scan(Scans(more)[N], more[N + 1])
    BY <1>1, <1>3, <1>4, ScansAre
<1>7. Trace(more) = Advance(Trace(events), e) /\ Scanned(more) = Scan(Scanned(events), e)
    BY <1>1, <1>2, <1>3, <1>5, <1>6 DEF Trace, Scanned
<1>8. IsValid(more) <=> IsValid(events) /\ Accepts(Trace(events), e)
  <2>1. \A i \in 1..N : i \in 1..(N + 1) /\ i - 1 \in 0..N
      BY <1>1
  <2>2. \A i \in 1..(N + 1) : i \in 1..N \/ i = N + 1
      BY <1>1
  <2>3. N + 1 \in 1..(N + 1)
      BY <1>1
  <2>4. IsValid(more) <=> \A i \in 1..(N + 1) : Accepts(Traces(more)[i - 1], more[i])
      BY <1>1 DEF IsValid
  <2>5. IsValid(events) <=> \A i \in 1..N : Accepts(Traces(events)[i - 1], events[i])
      BY <1>1 DEF IsValid
  <2>6. Trace(events) = Traces(more)[(N + 1) - 1]
      BY <1>2, <1>3 DEF Trace
  <2>7. \A i \in 1..N :
           Traces(more)[i - 1] = Traces(events)[i - 1] /\ more[i] = events[i]
      BY <1>1, <1>2, <2>1
  <2>8. /\ \A i \in 1..N : Accepts(Traces(more)[i - 1], more[i])
                             <=> Accepts(Traces(events)[i - 1], events[i])
        /\ Accepts(Traces(more)[(N + 1) - 1], more[N + 1]) <=> Accepts(Trace(events), e)
      BY <1>1, <2>6, <2>7
  <2> QED
      BY <2>1, <2>2, <2>3, <2>4, <2>5, <2>8, Zenon
<1> QED
    BY <1>7, <1>8 DEF more

LEMMA OfAppend ==
    ASSUME NEW events \in Seq(Event), NEW e \in Event, NEW type, NEW c
    PROVE  Of(Append(events, e), type, c) =
               Of(events, type, c)
                   \cup (IF e.type = type /\ e.call = c THEN {Len(events) + 1} ELSE {})
BY AppendIs DEF Of

LEMMA AskedAppend ==
    ASSUME NEW events \in Seq(Event), NEW e \in Event
    PROVE  Asked(Append(events, e)) =
               Asked(events)
                   \cup (IF e.type = "assistant/message" THEN Range(e.blocks) ELSE {})
BY AppendIs DEF Asked

LEMMA AnnouncedAppend ==
    ASSUME NEW events \in Seq(Event), NEW e \in Event, NEW n, NEW k
    PROVE  Announced(Append(events, e), n, k) =
               Announced(events, n, k)
                   \cup (IF e.type = "assistant/message" /\ e.turn = n /\ e.step = k
                         THEN Range(e.blocks) ELSE {})
BY AppendIs DEF Announced

LEMMA OfOther ==
    ASSUME NEW events \in Seq(Event), NEW e \in Event, NEW type, NEW c,
           e.type # type \/ e.call # c
    PROVE  Of(Append(events, e), type, c) = Of(events, type, c)
<1>1. ~ (e.type = type /\ e.call = c)
    OBVIOUS
<1>2. Of(Append(events, e), type, c) =
          Of(events, type, c)
              \cup (IF e.type = type /\ e.call = c THEN {Len(events) + 1} ELSE {})
    BY OfAppend
<1>3. Of(Append(events, e), type, c) = Of(events, type, c) \cup {}
    BY <1>1, <1>2, Zenon
<1> QED
    BY <1>3

\* What is asked for is left alone by all events but messages.
LEMMA NotAsking ==
    ASSUME NEW events \in Seq(Event), NEW e \in Event, e.type # "assistant/message"
    PROVE  /\ Asked(Append(events, e)) = Asked(events)
           /\ \A n, k : Announced(Append(events, e), n, k) = Announced(events, n, k)
<1>1. Asked(Append(events, e)) = Asked(events)
    BY AskedAppend
<1>2. ASSUME NEW n, NEW k
      PROVE  Announced(Append(events, e), n, k) = Announced(events, n, k)
  <2>1. ~ (e.type = "assistant/message" /\ e.turn = n /\ e.step = k)
      OBVIOUS
  <2>2. Announced(Append(events, e), n, k) = Announced(events, n, k)
            \cup (IF e.type = "assistant/message" /\ e.turn = n /\ e.step = k
                  THEN Range(e.blocks) ELSE {})
      BY AnnouncedAppend
  <2>3. Announced(Append(events, e), n, k) = Announced(events, n, k) \cup {}
      BY <2>1, <2>2, Zenon
  <2> QED
      BY <2>3
<1> QED
    BY <1>1, <1>2

LEMMA LastTurnAppend ==
    ASSUME NEW events \in Seq(Event), NEW e \in Event
    PROVE  LastTurn(Append(events, e)) =
               IF e.type = "turn/start" THEN e.turn ELSE LastTurn(events)
<1> DEFINE N == Len(events)
           more == Append(events, e)
<1>1. /\ N \in Nat /\ more[N + 1] = e /\ \A i \in 1..N : more[i] = events[i]
      /\ DOMAIN events = 1..N /\ DOMAIN more = 1..(N + 1)
    BY AppendIs
<1> HIDE DEF N, more
<1>2. CASE e.type = "turn/start"
  <2>1. N + 1 \in Starts(more) /\ \A j \in Starts(more) : j <= N + 1 /\ j \in Nat
      BY <1>1, <1>2 DEF Starts
  <2>2. \A i \in Starts(more) : (\A j \in Starts(more) : j <= i) => i = N + 1
      BY <1>1, <2>1
  <2>3. (CHOOSE i \in Starts(more) : \A j \in Starts(more) : j <= i) = N + 1
      BY <2>1, <2>2
  <2>4. LastTurn(more) = more[N + 1].turn
      BY <2>1, <2>3 DEF LastTurn
  <2> QED
      BY <1>1, <1>2, <2>4 DEF more
<1>3. CASE e.type # "turn/start"
  <2>1. Starts(more) = Starts(events)
      BY <1>1, <1>3 DEF Starts
  <2>2. \A i \in Starts(events) : more[i] = events[i]
      BY <1>1 DEF Starts
  <2>3. CASE Starts(events) = {}
      BY <1>3, <2>1, <2>3 DEF LastTurn, more
  <2>4. CASE Starts(events) # {}
    <3>1. \E i \in Starts(events) : \A j \in Starts(events) : j <= i
      <4> DEFINE U == {n \in Nat : \A j \in Starts(events) : j <= n}
      <4>1. U \in SUBSET Nat /\ N \in U
          BY <1>1 DEF Starts
      <4> HIDE DEF U
      <4>2. PICK n \in U : \A m \in U : n <= m
          BY <4>1, Least
      <4>3. n \in Starts(events)
        <5>1. n \in Nat /\ \A j \in Starts(events) : j <= n /\ j \in Nat /\ j # 0
            BY <1>1, <4>1 DEF U, Starts
        <5>2. SUFFICES ASSUME n \notin Starts(events) PROVE FALSE
            OBVIOUS
        <5>3. \A j \in Starts(events) : j <= n - 1
            BY <5>1, <5>2
        <5>4. n - 1 \in Nat
            BY <2>4, <5>1, <5>3
        <5>5. n - 1 \in U
            BY <5>3, <5>4 DEF U
        <5> QED
            BY <4>2, <5>1, <5>5
      <4> QED
          BY <4>3 DEF U
    <3>2. (CHOOSE i \in Starts(events) : \A j \in Starts(events) : j <= i) \in Starts(events)
        BY <3>1
    <3>3. LastTurn(more) = more[CHOOSE i \in Starts(events) : \A j \in Starts(events) : j <= i].turn
        BY <2>1, <2>4, Zenon DEF LastTurn
    <3>4. LastTurn(events) = events[CHOOSE i \in Starts(events) : \A j \in Starts(events) : j <= i].turn
        BY <2>4, Zenon DEF LastTurn
    <3> QED
        BY <1>3, <2>2, <3>2, <3>3, <3>4 DEF more
  <2> QED
      BY <2>3, <2>4
<1> QED
    BY <1>2, <1>3

\* Prefixes.
LEMMA PrefixIs ==
    ASSUME NEW events \in Seq(Event), NEW n \in 0..Len(events)
    PROVE  /\ Prefix(events, n) \in Seq(Event) /\ Len(Prefix(events, n)) = n
           /\ \A i \in 1..n : Prefix(events, n)[i] = events[i]
           /\ \A m \in 0..n : Prefix(Prefix(events, n), m) = Prefix(events, m)
           /\ Prefix(events, Len(events)) = events
BY DEF Prefix

LEMMA PrefixAll == ASSUME NEW events \in Seq(Event) PROVE Prefix(events, Len(events)) = events
BY DEF Prefix

LEMMA PrefixAppend ==
    ASSUME NEW events \in Seq(Event), NEW e \in Event, NEW n \in 0..Len(events)
    PROVE  Prefix(Append(events, e), n) = Prefix(events, n)
BY AppendIs DEF Prefix

LEMMA GoodPrefix ==
    ASSUME NEW events \in Seq(Event), Good(events), NEW n \in 0..Len(events)
    PROVE  Good(Prefix(events, n)) /\ Holds(Prefix(events, n)) /\ Holds(events)
<1>1. \A m \in 0..n : m \in 0..Len(events) /\ Prefix(Prefix(events, n), m) = Prefix(events, m)
    BY PrefixIs
<1>2. Len(Prefix(events, n)) = n /\ Len(events) \in 0..Len(events)
    BY PrefixIs
<1> QED
    BY <1>1, <1>2, PrefixIs, Zenon DEF Good

LEMMA GoodAppend ==
    ASSUME NEW events \in Seq(Event), NEW e \in Event, Good(events), Holds(Append(events, e))
    PROVE  Good(Append(events, e))
<1>1. Len(events) \in Nat /\ Len(Append(events, e)) = Len(events) + 1
    BY AppendIs
<1>2. \A n \in 0..(Len(events) + 1) : n \in 0..Len(events) \/ n = Len(events) + 1
    BY <1>1
<1>3. \A n \in 0..Len(events) : Holds(Prefix(Append(events, e), n))
    BY PrefixAppend DEF Good
<1>4. Prefix(Append(events, e), Len(events) + 1) = Append(events, e)
    BY <1>1, AppendIs, PrefixAll
<1> QED
    BY <1>1, <1>2, <1>3, <1>4 DEF Good

-----------------------------------------------------------------------------
(* The events of a log, one kind at a time *)

LEMMA EventForms ==
    /\ \A n \in Nat : TurnStart(n) \in Event /\ TurnEnd(n) \in Event
    /\ \A n, k \in Nat : StepStart(n, k) \in Event /\ StepEnd(n, k) \in Event
    /\ \A n, k \in Nat, b \in Seq(Calls) : Answer(n, k, b) \in Event
    /\ \A n, k \in Nat, c \in Calls : ToolCall(n, k, c) \in Event
    /\ \A n, k \in Nat, c \in Calls,
          code \in {"none", "TOOL_OUTCOME_UNKNOWN", "TOOL_NOT_STARTED"} :
             ToolResult(n, k, c, code) \in Event
BY DEF Event, TurnStart, TurnEnd, StepStart, StepEnd, Answer, ToolCall, ToolResult

LEMMA MessageTyped ==
    ASSUME NEW events \in Seq(Event), NEW i \in DOMAIN events,
           events[i].type = "assistant/message"
    PROVE  events[i].turn \in Nat /\ events[i].step \in Nat /\ events[i].blocks \in Seq(Calls)
<1>1. events[i] \in Event
    OBVIOUS
<1> QED
    BY <1>1 DEF Event

\* The types of the two scans, field by field.
LEMMA Fields ==
    ASSUME NEW events, Holds(events)
    PROVE  /\ Trace(events) = [openTurn |-> Trace(events).openTurn,
                               openStep |-> Trace(events).openStep,
                               nextTurn |-> Trace(events).nextTurn,
                               nextStep |-> Trace(events).nextStep,
                               pendingCalls |-> Trace(events).pendingCalls]
           /\ Trace(events).openTurn \in 0..MaxTurns /\ Trace(events).openStep \in 0..MaxSteps
           /\ Trace(events).openTurn \in Nat /\ Trace(events).openStep \in Nat
           /\ Trace(events).nextTurn \in Nat \ {0} /\ Trace(events).nextStep \in Nat \ {0}
           /\ Trace(events).pendingCalls \in SUBSET Calls
           /\ Scanned(events) = [openTurn |-> Scanned(events).openTurn,
                                 openStep |-> Scanned(events).openStep,
                                 pendingCalls |-> Scanned(events).pendingCalls]
           /\ Scanned(events).openTurn = Trace(events).openTurn
           /\ Scanned(events).openStep = Trace(events).openStep
           /\ Scanned(events).pendingCalls \in Seq(Pending)
           /\ DOMAIN Scanned(events).pendingCalls = 1..Len(Scanned(events).pendingCalls)
           /\ Len(Scanned(events).pendingCalls) \in Nat
<1>1. /\ Trace(events) \in [openTurn : 0..MaxTurns, openStep : 0..MaxSteps,
                            nextTurn : Nat \ {0}, nextStep : Nat \ {0},
                            pendingCalls : SUBSET Calls]
      /\ Scanned(events) \in [openTurn : Nat, openStep : Nat, pendingCalls : Seq(Pending)]
      /\ Scanned(events).openTurn = Trace(events).openTurn
      /\ Scanned(events).openStep = Trace(events).openStep
    BY DEF Holds, TraceInv, ScanInv
<1> QED
    BY <1>1, SessionRepairAssumption

\* What an event of a turn or a step does to the calls of the log: nothing.
Boundary == {"turn/start", "turn/end", "step/start", "step/end"}

LEMMA BoundaryKeeps ==
    ASSUME NEW events \in Seq(Event), NEW e \in Event, e.type \in Boundary, Holds(events)
    PROVE  /\ \A c : \A type \in {"tool/call", "tool/result"} :
                  Of(Append(events, e), type, c) = Of(events, type, c)
           /\ Asked(Append(events, e)) = Asked(events)
           /\ \A n, k : Announced(Append(events, e), n, k) = Announced(events, n, k)
           /\ AskedInv(Append(events, e)) /\ ResultsInv(Append(events, e))
<1> DEFINE more == Append(events, e)
<1>1. \A c : \A type \in {"tool/call", "tool/result"} : Of(more, type, c) = Of(events, type, c)
  <2>1. TAKE c
  <2>2. TAKE type \in {"tool/call", "tool/result"}
  <2>3. e.type # type
      BY DEF Boundary
  <2>4. Of(more, type, c) = Of(events, type, c)
            \cup (IF e.type = type /\ e.call = c THEN {Len(events) + 1} ELSE {})
      BY OfAppend
  <2> QED
      BY <2>3, <2>4
<1>2. Asked(more) = Asked(events)
    BY AskedAppend DEF Boundary
<1>3. \A n, k : Announced(more, n, k) = Announced(events, n, k)
  <2>1. TAKE n, k
  <2>2. e.type # "assistant/message"
      BY DEF Boundary
  <2>3. Announced(more, n, k) = Announced(events, n, k)
            \cup (IF e.type = "assistant/message" /\ e.turn = n /\ e.step = k
                  THEN Range(e.blocks) ELSE {})
      BY AnnouncedAppend
  <2> QED
      BY <2>2, <2>3
<1>4. \A i \in DOMAIN more : (i \in DOMAIN events /\ more[i] = events[i]) \/ more[i].type \in Boundary
    BY AppendIs
<1> HIDE DEF more
<1>5. AskedInv(events) /\ ResultsInv(events)
    BY DEF Holds, CallsInv
<1>6. AskedInv(more)
    BY <1>2, <1>4, <1>5 DEF AskedInv, Boundary
<1>7. ResultsInv(more)
    BY <1>1, <1>4, <1>5 DEF ResultsInv, Boundary
<1> QED
    BY <1>1, <1>2, <1>3, <1>6, <1>7 DEF more

LEMMA NothingPending ==
    ASSUME NEW events, NEW n \in Nat, NEW k \in Nat,
           Trace(events).openTurn = n, Trace(events).openStep = k,
           Trace(events).pendingCalls = {},
           Scanned(events) = [openTurn |-> n, openStep |-> k, pendingCalls |-> <<>>]
    PROVE  ScanInv(events)
<1>1. /\ Scanned(events).openTurn = n /\ Scanned(events).openStep = k
      /\ Scanned(events).pendingCalls = <<>> /\ DOMAIN Scanned(events).pendingCalls = {}
    OBVIOUS
<1>2. Scanned(events) \in [openTurn : Nat, openStep : Nat, pendingCalls : Seq(Pending)]
    OBVIOUS
<1> QED
    BY <1>1, <1>2, Zenon DEF ScanInv

\* turn/start (agent.ts:389).
LEMMA TurnStartHolds ==
    ASSUME NEW events \in Seq(Event), Holds(events), Trace(events).openTurn = None,
           LastTurn(events) < MaxTurns
    PROVE  /\ TurnStart(LastTurn(events) + 1) \in Event
           /\ Holds(Append(events, TurnStart(LastTurn(events) + 1)))
           /\ Trace(Append(events, TurnStart(LastTurn(events) + 1))).openStep = None
<1> DEFINE t == Trace(events)
           n == LastTurn(events) + 1
           e == TurnStart(n)
           more == Append(events, e)
<1>0. LastTurn(events) \in Nat /\ IsValid(events) /\ n = t.nextTurn /\ t.openStep = None
      /\ t.pendingCalls = {}
    BY Zenon DEF Holds, TraceInv
<1>1. n \in 1..MaxTurns /\ n \in Nat \ {0} /\ n \in Nat /\ n # None
    BY <1>0, SessionRepairAssumption DEF None
<1>2. e \in Event /\ e.type = "turn/start" /\ e.turn = n
    BY <1>1, EventForms DEF TurnStart
<1>3. Trace(more) = [openTurn |-> n, openStep |-> None, nextTurn |-> n, nextStep |-> 1,
                     pendingCalls |-> {}]
  <2>1. Trace(more) = [t EXCEPT !.openTurn = n, !.nextStep = 1]
      BY <1>2, TraceAppend DEF Advance
  <2> QED
      BY <1>0, <2>1, Fields
<1>4. Scanned(more) = [openTurn |-> n, openStep |-> None, pendingCalls |-> <<>>]
    BY <1>2, TraceAppend DEF Scan, NoneOpen
<1>5. IsValid(more)
  <2>1. Accepts(t, e)
      BY <1>0, <1>2 DEF Accepts
  <2> QED
      BY <1>0, <1>2, <2>1, TraceAppend, Zenon
<1>6. LastTurn(more) = n
    BY <1>2, LastTurnAppend
<1>7. TraceInv(more)
    BY <1>1, <1>3, <1>5, <1>6, SessionRepairAssumption DEF TraceInv, None
<1>8. ScanInv(more)
    BY <1>1, <1>3, <1>4, NothingPending DEF None
<1>9. AskedInv(more) /\ ResultsInv(more)
    BY <1>2, BoundaryKeeps DEF Boundary
<1>10. OnceInv(more)
    BY <1>3 DEF OnceInv
<1>11. PlacesInv(more)
  <2>1. \A i \in DOMAIN more : (i \in DOMAIN events /\ more[i] = events[i]) \/ more[i] = e
      BY <1>2, AppendIs
  <2>2. PlacesInv(events)
      BY DEF Holds, CallsInv
  <2> QED
      BY <1>0, <1>1, <1>2, <1>3, <2>1, <2>2 DEF PlacesInv
<1> QED
    BY <1>2, <1>3, <1>7, <1>8, <1>9, <1>10, <1>11 DEF Holds, CallsInv

\* turn/end (agent.ts:471, and the last closer of a repair).
LEMMA TurnEndHolds ==
    ASSUME NEW events \in Seq(Event), Holds(events), Trace(events).openTurn # None,
           Trace(events).openStep = None
    PROVE  /\ TurnEnd(Trace(events).openTurn) \in Event
           /\ Holds(Append(events, TurnEnd(Trace(events).openTurn)))
           /\ Scanned(Append(events, TurnEnd(Trace(events).openTurn))) = NoneOpen
<1> DEFINE t == Trace(events)
           n == t.openTurn
           e == TurnEnd(n)
           more == Append(events, e)
<1>0. LastTurn(events) \in Nat /\ IsValid(events) /\ n = t.nextTurn /\ t.pendingCalls = {}
      /\ t.nextTurn = LastTurn(events)
    BY Zenon DEF Holds, TraceInv
<1>1. n \in Nat
    BY Fields
<1>2. e \in Event /\ e.type = "turn/end" /\ e.turn = n
    BY <1>1, EventForms DEF TurnEnd
<1>3. Trace(more) = [openTurn |-> None, openStep |-> None, nextTurn |-> n + 1,
                     nextStep |-> t.nextStep, pendingCalls |-> {}]
  <2>1. Trace(more) = [t EXCEPT !.openTurn = None, !.nextTurn = @ + 1]
      BY <1>2, TraceAppend DEF Advance
  <2> QED
      BY <1>0, <2>1, Fields
<1>4. /\ Scanned(more) = NoneOpen
      /\ Scanned(more) = [openTurn |-> None, openStep |-> None, pendingCalls |-> <<>>]
    BY <1>2, TraceAppend DEF Scan, NoneOpen
<1>5. IsValid(more)
  <2>1. Accepts(t, e)
      BY <1>2 DEF Accepts
  <2> QED
      BY <1>0, <1>2, <2>1, TraceAppend, Zenon
<1>6. LastTurn(more) = LastTurn(events)
    BY <1>2, LastTurnAppend
<1>7. TraceInv(more)
  <2>1. t.nextStep \in Nat \ {0}
      BY Fields
  <2> QED
      BY <1>0, <1>1, <1>3, <1>5, <1>6, <2>1, SessionRepairAssumption DEF TraceInv, None
<1>8. ScanInv(more)
    BY <1>3, <1>4, NothingPending DEF None
<1>9. AskedInv(more) /\ ResultsInv(more)
    BY <1>2, BoundaryKeeps DEF Boundary
<1>10. OnceInv(more)
    BY <1>3 DEF OnceInv
<1>11. PlacesInv(more)
  <2>1. \A i \in DOMAIN more : (i \in DOMAIN events /\ more[i] = events[i]) \/ more[i] = e
      BY <1>2, AppendIs
  <2>2. PlacesInv(events)
      BY DEF Holds, CallsInv
  <2>3. ASSUME NEW i \in DOMAIN events, events[i].type = "assistant/message"
        PROVE  events[i].turn < n + 1
      BY <1>0, <1>1, <2>2, <2>3, MessageTyped DEF PlacesInv
  <2> QED
      BY <1>2, <1>3, <2>1, <2>3 DEF PlacesInv
<1> QED
    BY <1>2, <1>4, <1>7, <1>8, <1>9, <1>10, <1>11 DEF Holds, CallsInv

\* step/start (agent.ts:415).
LEMMA StepStartHolds ==
    ASSUME NEW events \in Seq(Event), Holds(events), Trace(events).openTurn # None,
           Trace(events).openStep = None, Trace(events).nextStep <= MaxSteps
    PROVE  /\ StepStart(Trace(events).openTurn, Trace(events).nextStep) \in Event
           /\ Holds(Append(events, StepStart(Trace(events).openTurn, Trace(events).nextStep)))
           /\ Current(Append(events, StepStart(Trace(events).openTurn,
                                               Trace(events).nextStep))) = {}
<1> DEFINE t == Trace(events)
           n == t.openTurn
           k == t.nextStep
           e == StepStart(n, k)
           more == Append(events, e)
<1>0. LastTurn(events) \in Nat /\ IsValid(events) /\ n = t.nextTurn /\ t.pendingCalls = {}
      /\ t.nextTurn = LastTurn(events)
    BY Zenon DEF Holds, TraceInv
<1>1. n \in Nat /\ n \in 0..MaxTurns /\ n # 0 /\ k \in Nat \ {0} /\ k \in Nat /\ k \in 0..MaxSteps
    BY Fields, SessionRepairAssumption DEF None
<1>2. e \in Event /\ e.type = "step/start" /\ e.turn = n /\ e.step = k
    BY <1>1, EventForms DEF StepStart
<1>3. Trace(more) = [openTurn |-> n, openStep |-> k, nextTurn |-> n,
                     nextStep |-> k, pendingCalls |-> {}]
  <2>1. Trace(more) = [t EXCEPT !.openStep = k]
      BY <1>2, TraceAppend DEF Advance
  <2> QED
      BY <1>0, <2>1, Fields
<1>4. Scanned(more) = [openTurn |-> n, openStep |-> k, pendingCalls |-> <<>>]
  <2>1. Scanned(more) = [Scanned(events) EXCEPT !.openStep = k]
      BY <1>2, TraceAppend DEF Scan
  <2>2. Scanned(events).pendingCalls = <<>>
      BY Zenon DEF Holds, ScanInv
  <2> QED
      BY <2>1, <2>2, Fields
<1>5. IsValid(more)
  <2>1. Accepts(t, e)
      BY <1>2 DEF Accepts
  <2> QED
      BY <1>0, <1>2, <2>1, TraceAppend, Zenon
<1>6. LastTurn(more) = LastTurn(events)
    BY <1>2, LastTurnAppend
<1>7. TraceInv(more)
    BY <1>0, <1>1, <1>3, <1>5, <1>6 DEF TraceInv, None
<1>8. ScanInv(more)
    BY <1>1, <1>3, <1>4, NothingPending
<1>9. AskedInv(more) /\ ResultsInv(more)
    BY <1>2, BoundaryKeeps DEF Boundary
<1>a. PlacesInv(events)
    BY DEF Holds, CallsInv
<1>10. Current(more) = {}
  <2>1. Current(more) = Announced(events, n, k)
      BY <1>2, <1>3, BoundaryKeeps DEF Boundary, Current
  <2>2. ASSUME NEW i \in DOMAIN events, events[i].type = "assistant/message",
               events[i].turn = n, events[i].step = k
        PROVE  FALSE
      BY <1>0, <1>1, <1>a, <2>2 DEF PlacesInv, None
  <2>3. Announced(events, n, k) = {}
      BY <2>2 DEF Announced
  <2> QED
      BY <2>1, <2>3
<1>11. OnceInv(more)
    BY <1>10 DEF OnceInv
<1>12. PlacesInv(more)
  <2>1. \A i \in DOMAIN more : (i \in DOMAIN events /\ more[i] = events[i]) \/ more[i] = e
      BY <1>2, AppendIs
  <2>2. ASSUME NEW i \in DOMAIN events, events[i].type = "assistant/message"
        PROVE  events[i].turn < n \/ (events[i].turn = n /\ events[i].step < k)
      BY <1>0, <1>1, <1>a, <2>2, MessageTyped DEF PlacesInv, None
  <2> QED
      BY <1>1, <1>2, <1>3, <2>1, <2>2 DEF PlacesInv, None
<1> QED
    BY <1>2, <1>7, <1>8, <1>9, <1>10, <1>11, <1>12 DEF Holds, CallsInv

\* step/end (agent.ts:429, and a closer of a repair).
LEMMA StepEndHolds ==
    ASSUME NEW events \in Seq(Event), Holds(events), Trace(events).openStep # None
    PROVE  /\ StepEnd(Trace(events).openTurn, Trace(events).openStep) \in Event
           /\ Holds(Append(events, StepEnd(Trace(events).openTurn, Trace(events).openStep)))
           /\ Scanned(Append(events, StepEnd(Trace(events).openTurn, Trace(events).openStep)))
                = [NoneOpen EXCEPT !.openTurn = Trace(events).openTurn]
           /\ Trace(Append(events, StepEnd(Trace(events).openTurn,
                                           Trace(events).openStep))).openStep = None
<1> DEFINE t == Trace(events)
           n == t.openTurn
           k == t.openStep
           e == StepEnd(n, k)
           more == Append(events, e)
<1>0. LastTurn(events) \in Nat /\ IsValid(events) /\ n # None /\ n = t.nextTurn /\ k = t.nextStep
      /\ t.nextTurn = LastTurn(events)
    BY Zenon DEF Holds, TraceInv
<1>1. n \in Nat /\ n \in 0..MaxTurns /\ n # 0 /\ k \in Nat \ {0} /\ k \in Nat
    BY <1>0, Fields DEF None
<1>2. e \in Event /\ e.type = "step/end" /\ e.turn = n /\ e.step = k
    BY <1>1, EventForms DEF StepEnd
<1>3. Trace(more) = [openTurn |-> n, openStep |-> None, nextTurn |-> n,
                     nextStep |-> k + 1, pendingCalls |-> {}]
  <2>1. Trace(more) = [t EXCEPT !.openStep = None, !.nextStep = @ + 1, !.pendingCalls = {}]
      BY <1>2, TraceAppend DEF Advance
  <2> QED
      BY <1>0, <2>1, Fields
<1>4. /\ Scanned(more) = [openTurn |-> n, openStep |-> None, pendingCalls |-> <<>>]
      /\ [NoneOpen EXCEPT !.openTurn = n]
            = [openTurn |-> n, openStep |-> None, pendingCalls |-> <<>>]
  <2>1. Scanned(more) = [Scanned(events) EXCEPT !.openStep = None, !.pendingCalls = <<>>]
      BY <1>2, TraceAppend DEF Scan, ForgetsAtStepEnd
  <2>2. Scanned(more) = [openTurn |-> n, openStep |-> None, pendingCalls |-> <<>>]
      BY <2>1, Fields
  <2>3. [NoneOpen EXCEPT !.openTurn = n]
            = [openTurn |-> n, openStep |-> None, pendingCalls |-> <<>>]
      BY DEF NoneOpen
  <2> QED
      BY <2>2, <2>3
<1>5. IsValid(more)
  <2>1. Accepts(t, e)
      BY <1>2 DEF Accepts, OpenStepIs
  <2> QED
      BY <1>0, <1>2, <2>1, TraceAppend, Zenon
<1>6. LastTurn(more) = LastTurn(events)
    BY <1>2, LastTurnAppend
<1>7. TraceInv(more)
    BY <1>0, <1>1, <1>3, <1>5, <1>6, SessionRepairAssumption DEF TraceInv, None
<1>8. ScanInv(more)
    BY <1>1, <1>3, <1>4, NothingPending DEF None
<1>9. AskedInv(more) /\ ResultsInv(more)
    BY <1>2, BoundaryKeeps DEF Boundary
<1>10. OnceInv(more)
    BY <1>3 DEF OnceInv
<1>11. PlacesInv(more)
  <2>1. \A i \in DOMAIN more : (i \in DOMAIN events /\ more[i] = events[i]) \/ more[i] = e
      BY <1>2, AppendIs
  <2>2. PlacesInv(events)
      BY DEF Holds, CallsInv
  <2>3. ASSUME NEW i \in DOMAIN events, events[i].type = "assistant/message"
        PROVE  events[i].turn < n \/ (events[i].turn = n /\ events[i].step < k + 1)
      BY <1>0, <1>1, <2>2, <2>3, MessageTyped DEF PlacesInv
  <2> QED
      BY <1>1, <1>2, <1>3, <2>1, <2>3 DEF PlacesInv, None
<1> QED
    BY <1>2, <1>3, <1>4, <1>7, <1>8, <1>9, <1>10, <1>11 DEF Holds, CallsInv

LEMMA CurrentAsked ==
    ASSUME NEW events PROVE Current(events) \subseteq Asked(events)
BY DEF Current, Announced, Asked

\* assistant/message (agent.ts:665): the calls it asks for are new.
LEMMA AnswerHolds ==
    ASSUME NEW events \in Seq(Event), Holds(events), Trace(events).openStep # None,
           \A i \in DOMAIN events : events[i].type = "assistant/message" =>
               ~ (events[i].turn = Trace(events).openTurn
                  /\ events[i].step = Trace(events).openStep),
           NEW x \in 0..(NumCalls - Cardinality(Asked(events))),
           NEW blocks, blocks = [i \in 1..x |-> Cardinality(Asked(events)) + i]
    PROVE  LET more == Append(events, Answer(Trace(events).openTurn, Trace(events).openStep,
                                             blocks))
           IN  /\ Answer(Trace(events).openTurn, Trace(events).openStep, blocks) \in Event
               /\ Holds(more) /\ Current(more) \cap Asked(events) = {}
<1> DEFINE t == Trace(events)
           n == t.openTurn
           k == t.openStep
           e == Answer(n, k, blocks)
           more == Append(events, e)
           p == [i \in 1..x |-> [call |-> blocks[i], step |-> k, started |-> FALSE]]
<1>0. IsValid(events) /\ n # None /\ n = t.nextTurn /\ k = t.nextStep /\ TraceInv(events)
    BY Zenon DEF Holds, TraceInv
<1>1. n \in Nat /\ n # 0 /\ k \in Nat \ {0} /\ k \in Nat
    BY <1>0, Fields DEF None
<1>2. PICK m \in 0..NumCalls : Asked(events) = 1..m
    BY DEF Holds, CallsInv, AskedInv
<1>3. Cardinality(Asked(events)) = m
  <2>1. Cardinality(1..m) = IF 1 > m THEN 0 ELSE m - 1 + 1
      BY <1>2, SessionRepairAssumption, FS_Interval
  <2> QED
      BY <1>2, <2>1, SessionRepairAssumption
<1>4. /\ m \in Nat /\ m + x \in 0..NumCalls /\ x \in Nat
      /\ \A i \in 1..x : blocks[i] = m + i /\ m + i \in Calls /\ m + i \notin 1..m
      /\ blocks \in Seq(Calls) /\ DOMAIN blocks = 1..x
    BY <1>2, <1>3, SessionRepairAssumption DEF Calls
<1>5. Range(blocks) = (m + 1)..(m + x)
  <2>1. ASSUME NEW c \in (m + 1)..(m + x) PROVE \E i \in DOMAIN blocks : blocks[i] = c
    <3>1. c - m \in 1..x /\ m + (c - m) = c
        BY <1>4
    <3> QED
        BY <1>4, <3>1
  <2>2. ASSUME NEW i \in DOMAIN blocks PROVE blocks[i] \in (m + 1)..(m + x)
      BY <1>4
  <2> QED
      BY <2>1, <2>2 DEF Range
<1>6. /\ e \in Event /\ e.type = "assistant/message" /\ e.turn = n /\ e.step = k
      /\ e.blocks = blocks
    BY <1>1, <1>4, EventForms DEF Answer
<1> HIDE DEF e
<1>7. Trace(more) = t
    BY <1>6, TraceAppend DEF Advance
<1>8. Announced(events, n, k) = {} /\ Current(events) = {}
  <2>1. {i \in DOMAIN events : events[i].type = "assistant/message"
                               /\ events[i].turn = n /\ events[i].step = k} = {}
      OBVIOUS
  <2> QED
      BY <2>1 DEF Announced, Current
<1>9. Current(more) = (m + 1)..(m + x)
  <2>1. Announced(more, n, k) = Announced(events, n, k) \cup
            (IF e.type = "assistant/message" /\ e.turn = n /\ e.step = k
             THEN Range(e.blocks) ELSE {})
      BY <1>6, AnnouncedAppend
  <2> QED
      BY <1>5, <1>6, <1>7, <1>8, <2>1 DEF Current
<1>10. Asked(more) = 1..(m + x)
  <2>1. Asked(more) = Asked(events) \cup
            (IF e.type = "assistant/message" THEN Range(e.blocks) ELSE {})
      BY <1>6, AskedAppend
  <2> QED
      BY <1>2, <1>4, <1>5, <1>6, <2>1
<1>11. \A c : \A type \in {"tool/call", "tool/result"} : Of(more, type, c) = Of(events, type, c)
  <2>1. TAKE c
  <2>2. TAKE type \in {"tool/call", "tool/result"}
  <2>3. Of(more, type, c) = Of(events, type, c)
            \cup (IF e.type = type /\ e.call = c THEN {Len(events) + 1} ELSE {})
      BY <1>6, OfAppend
  <2> QED
      BY <1>6, <2>3
<1>12. ASSUME NEW c \in (m + 1)..(m + x)
       PROVE  Of(more, "tool/call", c) = {} /\ Of(more, "tool/result", c) = {}
  <2>1. c \notin Asked(events)
      BY <1>2, <1>4
  <2>2. \A i \in DOMAIN events :
            events[i].type \in {"tool/call", "tool/result"} => events[i].call \in Asked(events)
      BY DEF Holds, CallsInv, AskedInv
  <2>3. Of(events, "tool/call", c) = {} /\ Of(events, "tool/result", c) = {}
      BY <2>1, <2>2 DEF Of
  <2> QED
      BY <1>11, <2>3
<1>13. /\ Scanned(events).pendingCalls = <<>> /\ t.pendingCalls = {}
  <2>1. ScanInv(events) /\ t.pendingCalls \in SUBSET Calls
      BY Fields DEF Holds
  <2>2. DOMAIN Scanned(events).pendingCalls = {}
      BY <1>8, <2>1 DEF ScanInv
  <2>3. Scanned(events).pendingCalls = <<>>
    <3>1. /\ Scanned(events).pendingCalls \in Seq(Pending)
          /\ Len(Scanned(events).pendingCalls) \in Nat
          /\ DOMAIN Scanned(events).pendingCalls = 1..Len(Scanned(events).pendingCalls)
        BY Fields
    <3>2. ASSUME Len(Scanned(events).pendingCalls) # 0 PROVE FALSE
      <4>1. 1 \in 1..Len(Scanned(events).pendingCalls)
          BY <3>1, <3>2
      <4> QED
          BY <2>2, <3>1, <4>1
    <3> QED
        BY <3>1, <3>2
  <2> QED
      BY <2>1, <2>2, <2>3 DEF ScanInv
<1>14. Scanned(more) = [openTurn |-> n, openStep |-> k, pendingCalls |-> p]
  <2>1. Scanned(more) = [Scanned(events) EXCEPT !.pendingCalls = @ \o
            [i \in DOMAIN e.blocks |-> [call |-> e.blocks[i], step |-> e.step,
                                        started |-> FALSE]]]
      BY <1>6, TraceAppend DEF Scan
  <2>2. [i \in DOMAIN e.blocks |-> [call |-> e.blocks[i], step |-> e.step, started |-> FALSE]]
            = p
      BY <1>4, <1>6
  <2>3. <<>> \o p = p
      BY <1>4
  <2> HIDE DEF p
  <2>4. Scanned(more) = [Scanned(events) EXCEPT !.pendingCalls = p]
      BY <1>13, <2>1, <2>2, <2>3
  <2> QED
      BY <2>4, Fields
<1>15. IsValid(more)
  <2>1. Accepts(t, e)
      BY <1>6 DEF Accepts, OpenStepIs, StepScoped
  <2> QED
      BY <1>0, <1>6, <2>1, TraceAppend, Zenon
<1>16. LastTurn(more) = LastTurn(events)
    BY <1>6, LastTurnAppend
<1>17. TraceInv(more)
    BY <1>0, <1>7, <1>15, <1>16, Zenon DEF TraceInv
<1>18. /\ p \in Seq(Pending) /\ DOMAIN p = 1..x
       /\ \A i \in 1..x : p[i].call = m + i /\ p[i].step = k /\ ~ p[i].started
    BY <1>1, <1>4 DEF Pending
<1> HIDE DEF p
<1>19. ScanInv(more)
  <2>1. /\ Scanned(more).openTurn = n /\ Scanned(more).openStep = k
        /\ Scanned(more).pendingCalls = p
        /\ Scanned(more) \in [openTurn : Nat, openStep : Nat, pendingCalls : Seq(Pending)]
      BY <1>1, <1>14, <1>18
  <2>2. \A i, j \in DOMAIN p : p[i].call = p[j].call => i = j
      BY <1>4, <1>18
  <2>3. ASSUME NEW i \in DOMAIN p
        PROVE  /\ p[i].step = k /\ p[i].call \in Current(more)
               /\ p[i].started <=> Of(more, "tool/call", p[i].call) # {}
    <3>1. p[i].call \in (m + 1)..(m + x)
        BY <1>4, <1>18
    <3> QED
        BY <1>9, <1>12, <1>18, <3>1
  <2>4. \A c \in Calls : c \in t.pendingCalls <=> \E i \in DOMAIN p : p[i].call = c /\ p[i].started
      BY <1>13, <1>18
  <2>5. /\ Trace(more).openTurn = n /\ Trace(more).openStep = k /\ k # None
        /\ Trace(more).pendingCalls = t.pendingCalls
      BY <1>7
  <2> HIDE DEF more, n, k, t
  <2> QED
      BY <2>1, <2>2, <2>3, <2>4, <2>5 DEF ScanInv
<1>20. AskedInv(more)
  <2>1. \A i \in DOMAIN more : (i \in DOMAIN events /\ more[i] = events[i]) \/ more[i] = e
      BY <1>6, AppendIs
  <2>2. AskedInv(events) /\ Asked(events) \subseteq Asked(more)
      BY <1>2, <1>4, <1>10 DEF Holds, CallsInv
  <2> QED
      BY <1>4, <1>6, <1>10, <2>1, <2>2 DEF AskedInv
<1>21. ResultsInv(more)
  <2>1. \A i \in DOMAIN more : (i \in DOMAIN events /\ more[i] = events[i]) \/ more[i] = e
      BY <1>6, AppendIs
  <2>2. ResultsInv(events)
      BY DEF Holds, CallsInv
  <2>3. \A c : Of(more, "tool/call", c) = Of(events, "tool/call", c)
      BY <1>11
  <2>4. e.type # "tool/result"
      BY <1>6
  <2>5. ASSUME NEW i \in DOMAIN more, more[i].type = "tool/result"
        PROVE  more[i].notStarted <=> Of(more, "tool/call", more[i].call) = {}
    <3> HIDE DEF more
    <3>1. i \in DOMAIN events /\ more[i] = events[i]
        BY <2>1, <2>4, <2>5
    <3>2. events[i].notStarted <=> Of(events, "tool/call", events[i].call) = {}
        BY <2>2, <2>5, <3>1 DEF ResultsInv
    <3> QED
        BY <2>3, <3>1, <3>2
  <2> QED
      BY <2>5 DEF ResultsInv
<1>22. PlacesInv(more)
  <2>1. \A i \in DOMAIN more : (i \in DOMAIN events /\ more[i] = events[i]) \/ more[i] = e
      BY <1>6, AppendIs
  <2>2. PlacesInv(events)
      BY DEF Holds, CallsInv
  <2> QED
      BY <1>0, <1>6, <1>7, <2>1, <2>2 DEF PlacesInv
<1>23. OnceInv(more)
  <2>1. ASSUME NEW c \in (m + 1)..(m + x) PROVE Waits(more, c)
    <3>1. c - m \in 1..x /\ m + (c - m) = c
        BY <1>4
    <3>2. Scanned(more).pendingCalls = p
        BY <1>14
    <3> QED
        BY <1>18, <3>1, <3>2 DEF Waits
  <2> QED
      BY <1>9, <1>12, <2>1 DEF OnceInv, Once
<1>24. Current(more) \cap Asked(events) = {}
    BY <1>2, <1>4, <1>9
<1> QED
    BY <1>6, <1>17, <1>19, <1>20, <1>21, <1>22, <1>23, <1>24 DEF Holds, CallsInv, e

\* tool/call (tool-calls.ts:263), for a call of the open step that is not yet recorded
\* and was not given up by a repair.
LEMMA ToolCallHolds ==
    ASSUME NEW events \in Seq(Event), Holds(events), Trace(events).openStep # None,
           NEW c \in Calls, c \in Current(events), Of(events, "tool/call", c) = {},
           \A i \in DOMAIN events :
               events[i].type = "tool/result" /\ events[i].notStarted => events[i].call # c
    PROVE  LET more == Append(events, ToolCall(Trace(events).openTurn,
                                               Trace(events).openStep, c))
           IN  /\ ToolCall(Trace(events).openTurn, Trace(events).openStep, c) \in Event
               /\ Holds(more) /\ Current(more) = Current(events)
<1> DEFINE t == Trace(events)
           n == t.openTurn
           k == t.openStep
           e == ToolCall(n, k, c)
           more == Append(events, e)
           p == Scanned(events).pendingCalls
           q == [i \in DOMAIN p |-> IF p[i].call = c THEN [p[i] EXCEPT !.started = TRUE]
                                    ELSE p[i]]
<1>0. /\ IsValid(events) /\ TraceInv(events) /\ ScanInv(events) /\ AskedInv(events)
      /\ PlacesInv(events) /\ ResultsInv(events) /\ OnceInv(events)
    BY Zenon DEF Holds, TraceInv, CallsInv
<1>1. n \in Nat /\ k \in Nat /\ p \in Seq(Pending) /\ t.pendingCalls \in SUBSET Calls
    BY Fields
<1>2. e \in Event /\ e.type = "tool/call" /\ e.turn = n /\ e.step = k /\ e.call = c
    BY <1>1, EventForms DEF ToolCall
<1> HIDE DEF e
<1>3. Trace(more) = [t EXCEPT !.pendingCalls = t.pendingCalls \cup {c}]
    BY <1>2, TraceAppend DEF Advance
<1>4. /\ Trace(more).openTurn = n /\ Trace(more).openStep = k
      /\ Trace(more).nextTurn = t.nextTurn /\ Trace(more).nextStep = t.nextStep
      /\ Trace(more).pendingCalls = t.pendingCalls \cup {c}
      /\ Trace(more) \in [openTurn : 0..MaxTurns, openStep : 0..MaxSteps,
                          nextTurn : Nat \ {0}, nextStep : Nat \ {0},
                          pendingCalls : SUBSET Calls]
    BY <1>3, Fields
<1>5. Scanned(more) = [openTurn |-> n, openStep |-> k, pendingCalls |-> q]
  <2>1. Scanned(more) = [Scanned(events) EXCEPT !.pendingCalls = q]
      BY <1>2, TraceAppend DEF Scan, MarkStarted
  <2> HIDE DEF q
  <2> QED
      BY <2>1, Fields
<1>6. IsValid(more)
  <2>1. Accepts(t, e)
      BY <1>2 DEF Accepts, OpenStepIs
  <2> QED
      BY <1>0, <1>2, <2>1, TraceAppend, Zenon
<1>7. LastTurn(more) = LastTurn(events)
    BY <1>2, LastTurnAppend
<1>8. TraceInv(more)
    BY <1>0, <1>4, <1>6, <1>7 DEF TraceInv
<1>9. Asked(more) = Asked(events) /\ Current(more) = Current(events)
  <2>1. e.type # "assistant/message"
      BY <1>2
  <2>2. /\ Asked(more) = Asked(events)
        /\ \A a, b : Announced(more, a, b) = Announced(events, a, b)
      BY <1>2, <2>1, NotAsking, Zenon
  <2> QED
      BY <1>4, <2>2, Zenon DEF Current
<1>10. /\ \A d : Of(more, "tool/result", d) = Of(events, "tool/result", d)
       /\ \A d : d # c => Of(more, "tool/call", d) = Of(events, "tool/call", d)
       /\ Of(more, "tool/call", c) # {}
  <2>1. e.type # "tool/result"
      BY <1>2
  <2>2. Of(more, "tool/call", c) = Of(events, "tool/call", c) \cup {Len(events) + 1}
    <3>1. Of(more, "tool/call", c) = Of(events, "tool/call", c)
            \cup (IF e.type = "tool/call" /\ e.call = c THEN {Len(events) + 1} ELSE {})
        BY <1>2, OfAppend
    <3> QED
        BY <1>2, <3>1, Zenon
  <2>3. Of(more, "tool/call", c) # {}
    <3> HIDE DEF more
    <3> QED
        BY <2>2
  <2>4. ASSUME NEW d PROVE Of(more, "tool/result", d) = Of(events, "tool/result", d)
      BY <1>2, <2>1, OfOther
  <2>5. ASSUME NEW d, d # c PROVE Of(more, "tool/call", d) = Of(events, "tool/call", d)
    <3>1. e.call # d
        BY <1>2, <2>5
    <3> QED
        BY <1>2, <3>1, OfOther
  <2> QED
      BY <2>3, <2>4, <2>5
\* The call waits for its result: it has none, for there is no tool/call of it and
\* no repair has given it up.
<1>12. Of(events, "tool/result", c) = {}
    BY <1>0 DEF ResultsInv, Of
<1>13. PICK j \in DOMAIN p : p[j].call = c
    BY <1>0, <1>12 DEF OnceInv, Once, Waits
<1>14. /\ DOMAIN q = DOMAIN p /\ q \in Seq(Pending)
       /\ \A i \in DOMAIN p : /\ q[i].call = p[i].call /\ q[i].step = p[i].step
                              /\ q[i].started <=> p[i].started \/ p[i].call = c
  <2>1. \A i \in DOMAIN p : p[i] \in Pending
      BY <1>1
  <2>2. \A i \in DOMAIN p : [p[i] EXCEPT !.started = TRUE] \in Pending
      BY <2>1 DEF Pending
  <2>3. q \in Seq(Pending) /\ DOMAIN q = DOMAIN p
    <3>1. \A i \in DOMAIN p : q[i] \in Pending
        BY <2>1, <2>2, Zenon
    <3>2. DOMAIN p = 1..Len(p) /\ Len(p) \in Nat
        BY Fields
    <3>3. q \in [1..Len(p) -> Pending]
        BY <3>1, <3>2, Zenon
    <3>4. DOMAIN q = DOMAIN p
        BY Zenon
    <3> HIDE DEF q
    <3> QED
        BY <3>2, <3>3, <3>4, SeqDef
  <2>4. ASSUME NEW i \in DOMAIN p
        PROVE  /\ q[i].call = p[i].call /\ q[i].step = p[i].step
               /\ q[i].started <=> p[i].started \/ p[i].call = c
    <3>1. CASE p[i].call = c
        BY <2>1, <3>1 DEF Pending
    <3>2. CASE p[i].call # c
        BY <2>1, <3>2 DEF Pending
    <3> QED
        BY <3>1, <3>2
  <2> HIDE DEF q
  <2> QED
      BY <2>3, <2>4
<1> HIDE DEF q
<1>15. Scanned(more).pendingCalls = q /\ Scanned(more).openTurn = n /\ Scanned(more).openStep = k
       /\ Scanned(more) \in [openTurn : Nat, openStep : Nat, pendingCalls : Seq(Pending)]
    BY <1>1, <1>5, <1>14
<1>16. ScanInv(more)
  <2>1. \A i, l \in DOMAIN q : q[i].call = q[l].call => i = l
      BY <1>0, <1>14 DEF ScanInv
  <2>2. ASSUME NEW i \in DOMAIN q
        PROVE  /\ q[i].step = k /\ q[i].call \in Current(more)
               /\ q[i].started <=> Of(more, "tool/call", q[i].call) # {}
    <3>1. /\ p[i].step = k /\ p[i].call \in Current(events)
          /\ p[i].started <=> Of(events, "tool/call", p[i].call) # {}
        BY <1>0, <1>14 DEF ScanInv
    <3> QED
        BY <1>9, <1>10, <1>14, <3>1
  <2>3. \A d \in Calls : d \in t.pendingCalls <=> \E i \in DOMAIN p : p[i].call = d /\ p[i].started
      BY <1>0 DEF ScanInv
  <2>4. \A d \in Calls : d \in t.pendingCalls \cup {c}
                            <=> \E i \in DOMAIN q : q[i].call = d /\ q[i].started
      BY <1>13, <1>14, <2>3
  <2>5. /\ Trace(more).openTurn = n /\ Trace(more).openStep = k /\ k # None
        /\ Trace(more).pendingCalls = t.pendingCalls \cup {c}
      BY <1>4
  <2> HIDE DEF more, n, k, t, p
  <2> QED
      BY <1>15, <2>1, <2>2, <2>4, <2>5 DEF ScanInv
<1>17. \A i \in DOMAIN more : (i \in DOMAIN events /\ more[i] = events[i]) \/ more[i] = e
    BY <1>2, AppendIs
<1>18. AskedInv(more)
    BY <1>0, <1>2, <1>9, <1>17, CurrentAsked DEF AskedInv
<1>19. ResultsInv(more)
  <2>1. ASSUME NEW i \in DOMAIN events, events[i].type = "tool/result"
        PROVE  events[i].call # c
      BY <1>12, <2>1 DEF Of
  <2> QED
      BY <1>0, <1>2, <1>10, <1>17, <2>1 DEF ResultsInv
<1>20. PlacesInv(more)
    BY <1>0, <1>2, <1>4, <1>17 DEF PlacesInv
<1>21. OnceInv(more)
  <2>1. \A d : Waits(more, d) <=> Waits(events, d)
      BY <1>14, <1>15 DEF Waits
  <2> QED
      BY <1>0, <1>4, <1>9, <1>10, <2>1 DEF OnceInv, Once
<1> QED
    BY <1>2, <1>8, <1>9, <1>16, <1>18, <1>19, <1>20, <1>21 DEF Holds, CallsInv, e

\* One pending call less.
LEMMA RemoveAtIs ==
    ASSUME NEW S, NEW p \in Seq(S), NEW j \in DOMAIN p
    PROVE  LET q == RemoveAt(p, j) IN
           /\ q \in Seq(S) /\ Len(q) = Len(p) - 1
           /\ DOMAIN q = 1..(Len(p) - 1) /\ DOMAIN p = 1..Len(p) /\ Len(p) \in Nat
           /\ \A i \in DOMAIN q : q[i] = IF i < j THEN p[i] ELSE p[i + 1]
           /\ \A i \in DOMAIN q : \E l \in DOMAIN p : l # j /\ q[i] = p[l]
           /\ \A l \in DOMAIN p : l # j => \E i \in DOMAIN q : q[i] = p[l]
<1>1. DOMAIN p = 1..Len(p) /\ Len(p) \in Nat /\ j \in 1..Len(p)
    OBVIOUS
<1> DEFINE a == SubSeq(p, 1, j - 1)
           b == SubSeq(p, j + 1, Len(p))
           q == RemoveAt(p, j)
<1>2. /\ a \in Seq(S) /\ Len(a) = j - 1 /\ \A i \in 1..(j - 1) : a[i] = p[i]
      /\ b \in Seq(S) /\ Len(b) = Len(p) - j /\ \A i \in 1..(Len(p) - j) : b[i] = p[i + j]
  <2>1. a \in Seq(S) /\ Len(a) = j - 1 /\ \A i \in 1..(j - 1) : a[i] = p[i]
      BY <1>1
  <2>2. b \in Seq(S) /\ Len(b) = Len(p) - j
      BY <1>1
  <2>3. \A i \in 1..(Len(p) - j) : b[i] = p[i + j]
    <3>1. TAKE i \in 1..(Len(p) - j)
    <3>2. b[i] = p[(j + 1) + i - 1] /\ (j + 1) + i - 1 = i + j
        BY <1>1
    <3> QED
        BY <3>2
  <2> QED
      BY <2>1, <2>2, <2>3
<1>3. q = a \o b
    BY DEF RemoveAt
<1> HIDE DEF a, b, q
<1>4. /\ q \in Seq(S) /\ Len(q) = Len(p) - 1 /\ DOMAIN q = 1..(Len(p) - 1)
      /\ \A i \in 1..(Len(p) - 1) : q[i] = IF i < j THEN a[i] ELSE b[i - (j - 1)]
  <2>1. /\ a \o b \in Seq(S) /\ Len(a \o b) = Len(a) + Len(b)
        /\ \A i \in 1..(Len(a) + Len(b)) :
               (a \o b)[i] = IF i <= Len(a) THEN a[i] ELSE b[i - Len(a)]
      BY <1>2, ConcatProperties
  <2>2. Len(a) + Len(b) = Len(p) - 1 /\ \A i \in 1..(Len(p) - 1) : i <= Len(a) <=> i < j
      BY <1>1, <1>2
  <2> QED
    <3>1. Len(q) = Len(p) - 1 /\ q \in Seq(S)
        BY <1>3, <2>1, <2>2
    <3>2. DOMAIN q = 1..(Len(p) - 1)
        BY <3>1
    <3>3. ASSUME NEW i \in 1..(Len(p) - 1)
          PROVE  q[i] = IF i < j THEN a[i] ELSE b[i - (j - 1)]
      <4>1. q[i] = IF i <= Len(a) THEN a[i] ELSE b[i - Len(a)]
          BY <1>3, <2>1, <2>2, Zenon
      <4>2. q[i] = IF i < j THEN a[i] ELSE b[i - Len(a)]
          BY <2>2, <4>1, Zenon
      <4> QED
          BY <1>2, <4>2, Zenon
    <3> QED
        BY <3>1, <3>2, <3>3
<1>5. \A i \in 1..(Len(p) - 1) : q[i] = IF i < j THEN p[i] ELSE p[i + 1]
  <2>1. TAKE i \in 1..(Len(p) - 1)
  <2>2. CASE i < j
      BY <1>1, <1>2, <1>4, <2>2
  <2>3. CASE ~ (i < j)
    <3>1. i - (j - 1) \in 1..(Len(p) - j) /\ (i - (j - 1)) + j = i + 1
        BY <1>1, <2>3
    <3> QED
        BY <1>2, <1>4, <2>3, <3>1
  <2> QED
      BY <2>2, <2>3
<1>6. ASSUME NEW i \in 1..(Len(p) - 1) PROVE \E l \in 1..Len(p) : l # j /\ q[i] = p[l]
    BY <1>1, <1>5
<1>7. ASSUME NEW l \in 1..Len(p), l # j PROVE \E i \in 1..(Len(p) - 1) : q[i] = p[l]
  <2>1. CASE l < j
    <3>1. l \in 1..(Len(p) - 1)
        BY <1>1, <2>1
    <3> QED
        BY <1>5, <2>1, <3>1
  <2>2. CASE j < l
    <3>1. l - 1 \in 1..(Len(p) - 1) /\ ~ (l - 1 < j) /\ (l - 1) + 1 = l
        BY <1>1, <2>2
    <3> QED
        BY <1>5, <3>1
  <2> QED
      BY <1>1, <1>7, <2>1, <2>2
<1>8. DOMAIN q = 1..(Len(p) - 1)
    BY <1>4
<1> QED
    BY <1>1, <1>4, <1>5, <1>6, <1>7, <1>8, Zenon DEF q

LEMMA RemoveAtKeeps ==
    ASSUME NEW S, NEW p \in Seq(S), NEW j \in DOMAIN p
    PROVE  LET q == RemoveAt(p, j) IN
           /\ q \in Seq(S)
           /\ \A i \in DOMAIN q : \E l \in DOMAIN p : l # j /\ q[i] = p[l]
           /\ \A l \in DOMAIN p : l # j => \E i \in DOMAIN q : q[i] = p[l]
BY RemoveAtIs, Zenon

LEMMA RemoveAtMoves ==
    ASSUME NEW S, NEW p \in Seq(S), NEW j \in DOMAIN p
    PROVE  LET q == RemoveAt(p, j) IN
           /\ q \in Seq(S) /\ Len(q) = Len(p) - 1
           /\ DOMAIN q = 1..(Len(p) - 1) /\ DOMAIN p = 1..Len(p) /\ Len(p) \in Nat
           /\ \A i \in DOMAIN q : q[i] = IF i < j THEN p[i] ELSE p[i + 1]
BY RemoveAtIs, Zenon

\* tool/result (tool-calls.ts:281, and the first closers of a repair), for the call at
\* place j of those that wait for one.
LEMMA ToolResultHolds ==
    ASSUME NEW events \in Seq(Event), Holds(events), Trace(events).openStep # None,
           NEW j \in DOMAIN Scanned(events).pendingCalls,
           NEW c, c = Scanned(events).pendingCalls[j].call,
           NEW code \in {"none", "TOOL_OUTCOME_UNKNOWN", "TOOL_NOT_STARTED"},
           code = "TOOL_NOT_STARTED" <=> Of(events, "tool/call", c) = {}
    PROVE  LET t    == Trace(events)
               more == Append(events, ToolResult(t.openTurn, t.openStep, c, code))
           IN  /\ ToolResult(t.openTurn, t.openStep, c, code) \in Event
               /\ Holds(more) /\ Current(more) = Current(events)
               /\ Scanned(more) = [openTurn |-> t.openTurn, openStep |-> t.openStep,
                                   pendingCalls |-> RemoveAt(Scanned(events).pendingCalls, j)]
               /\ \A d : Once(events, d) => Once(more, d)
<1> DEFINE t == Trace(events)
           n == t.openTurn
           k == t.openStep
           e == ToolResult(n, k, c, code)
           more == Append(events, e)
           p == Scanned(events).pendingCalls
           q == RemoveAt(p, j)
<1>0. /\ IsValid(events) /\ TraceInv(events) /\ ScanInv(events) /\ AskedInv(events)
      /\ PlacesInv(events) /\ ResultsInv(events) /\ OnceInv(events)
    BY Zenon DEF Holds, TraceInv, CallsInv
<1>1. /\ n \in Nat /\ k \in Nat /\ p \in Seq(Pending) /\ t.pendingCalls \in SUBSET Calls
      /\ c \in Calls
  <2>1. p \in Seq(Pending) /\ j \in DOMAIN p
      BY Fields
  <2>2. p[j] \in Pending
      BY <2>1
  <2> QED
      BY <2>1, <2>2, Fields DEF Pending
<1>2. /\ e \in Event /\ e.type = "tool/result" /\ e.turn = n /\ e.step = k /\ e.call = c
      /\ e.notStarted <=> Of(events, "tool/call", c) = {}
    BY <1>1, EventForms DEF ToolResult
<1> HIDE DEF e
\* The place of the call is the one the scan removes.
<1>3. /\ p[j].call = c /\ \A i \in DOMAIN p : p[i].call = c => i = j
      /\ p[j].started <=> Of(events, "tool/call", c) # {}
      /\ c \in Current(events)
    BY <1>0 DEF ScanInv
<1>4. Answered(Scanned(events), c) = [Scanned(events) EXCEPT !.pendingCalls = q]
  <2> DEFINE at == {i \in DOMAIN p : p[i].call = c}
  <2>1. at = {j}
      BY <1>3
  <2>2. (CHOOSE i \in at : TRUE) = j
      BY <2>1
  <2>3. Answered(Scanned(events), c) =
            IF at = {} THEN Scanned(events)
            ELSE [Scanned(events) EXCEPT !.pendingCalls = RemoveAt(@, CHOOSE i \in at : TRUE)]
      BY DEF Answered
  <2> QED
      BY <2>1, <2>2, <2>3, Zenon
<1>5. Scanned(more) = [openTurn |-> n, openStep |-> k, pendingCalls |-> q]
  <2>1. Scanned(more) = [Scanned(events) EXCEPT !.pendingCalls = q]
      BY <1>2, <1>4, TraceAppend DEF Scan
  <2> HIDE DEF q
  <2> QED
      BY <2>1, Fields
<1>6. /\ q \in Seq(Pending)
      /\ \A i \in DOMAIN q : \E l \in DOMAIN p : l # j /\ q[i] = p[l]
      /\ \A l \in DOMAIN p : l # j => \E i \in DOMAIN q : q[i] = p[l]
  <2>1. LET r == RemoveAt(p, j) IN
        /\ r \in Seq(Pending)
        /\ \A i \in DOMAIN r : \E l \in DOMAIN p : l # j /\ r[i] = p[l]
        /\ \A l \in DOMAIN p : l # j => \E i \in DOMAIN r : r[i] = p[l]
      BY <1>1, RemoveAtKeeps
  <2> QED
      BY <2>1
<1>7. \A i, l \in DOMAIN q : q[i].call = q[l].call => i = l
  <2>1. TAKE i, l \in DOMAIN q
  <2>2. HAVE q[i].call = q[l].call
  <2>3. /\ DOMAIN q = 1..(Len(p) - 1) /\ DOMAIN p = 1..Len(p) /\ Len(p) \in Nat
        /\ \A a \in DOMAIN q : q[a] = IF a < j THEN p[a] ELSE p[a + 1]
    <3>1. LET r == RemoveAt(p, j) IN
          /\ r \in Seq(Pending) /\ Len(r) = Len(p) - 1
          /\ DOMAIN r = 1..(Len(p) - 1) /\ DOMAIN p = 1..Len(p) /\ Len(p) \in Nat
          /\ \A a \in DOMAIN r : r[a] = IF a < j THEN p[a] ELSE p[a + 1]
        BY <1>1, RemoveAtMoves
    <3> QED
        BY <3>1
  <2>4. \A a, b \in DOMAIN p : p[a].call = p[b].call => a = b
      BY <1>0 DEF ScanInv
  <2> HIDE DEF p, q
  <2>5. j \in DOMAIN p
      BY DEF p
  <2> DEFINE src(a) == IF a < j THEN a ELSE a + 1
  <2>6. \A a \in DOMAIN q : src(a) \in DOMAIN p /\ q[a] = p[src(a)]
      BY <2>3, <2>5
  <2>7. src(i) = src(l)
      BY <2>2, <2>4, <2>6, Zenon
  <2> QED
      BY <2>3, <2>5, <2>7
<1> HIDE DEF q
<1>8. /\ Scanned(more).pendingCalls = q /\ Scanned(more).openTurn = n
      /\ Scanned(more).openStep = k
      /\ Scanned(more) \in [openTurn : Nat, openStep : Nat, pendingCalls : Seq(Pending)]
    BY <1>1, <1>5, <1>6
<1>9. Trace(more) = [t EXCEPT !.pendingCalls = t.pendingCalls \ {c}]
    BY <1>2, TraceAppend DEF Advance
<1>10. /\ Trace(more).openTurn = n /\ Trace(more).openStep = k
       /\ Trace(more).nextTurn = t.nextTurn /\ Trace(more).nextStep = t.nextStep
       /\ Trace(more).pendingCalls = t.pendingCalls \ {c}
       /\ Trace(more) \in [openTurn : 0..MaxTurns, openStep : 0..MaxSteps,
                           nextTurn : Nat \ {0}, nextStep : Nat \ {0},
                           pendingCalls : SUBSET Calls]
    BY <1>9, Fields
<1>11. \A d \in Calls : d \in t.pendingCalls <=> \E i \in DOMAIN p : p[i].call = d /\ p[i].started
    BY <1>0 DEF ScanInv
<1>12. IsValid(more)
  <2>1. c \in t.pendingCalls \/ e.notStarted
      BY <1>1, <1>2, <1>3, <1>11
  <2>2. Accepts(t, e)
      BY <1>2, <2>1 DEF Accepts, OpenStepIs
  <2> QED
      BY <1>0, <1>2, <2>2, TraceAppend, Zenon
<1>13. LastTurn(more) = LastTurn(events)
    BY <1>2, LastTurnAppend
<1>14. TraceInv(more)
    BY <1>0, <1>10, <1>12, <1>13 DEF TraceInv
<1>15. Asked(more) = Asked(events) /\ Current(more) = Current(events)
  <2>1. e.type # "assistant/message"
      BY <1>2
  <2>2. /\ Asked(more) = Asked(events)
        /\ \A a, b : Announced(more, a, b) = Announced(events, a, b)
      BY <1>2, <2>1, NotAsking, Zenon
  <2> QED
      BY <1>10, <2>2, Zenon DEF Current
<1>16. \A d : Of(more, "tool/call", d) = Of(events, "tool/call", d)
  <2>1. e.type # "tool/call"
      BY <1>2
  <2>2. ASSUME NEW d PROVE Of(more, "tool/call", d) = Of(events, "tool/call", d)
      BY <1>2, <2>1, OfOther
  <2> QED
      BY <2>2
<1>17. \A d : d # c => Of(more, "tool/result", d) = Of(events, "tool/result", d)
  <2>1. ASSUME NEW d, d # c PROVE Of(more, "tool/result", d) = Of(events, "tool/result", d)
    <3>1. e.call # d
        BY <1>2, <2>1
    <3> QED
        BY <1>2, <3>1, OfOther
  <2> QED
      BY <2>1
<1>18. Of(more, "tool/result", c) = Of(events, "tool/result", c) \cup {Len(events) + 1}
  <2>1. Of(more, "tool/result", c) = Of(events, "tool/result", c)
            \cup (IF e.type = "tool/result" /\ e.call = c THEN {Len(events) + 1} ELSE {})
      BY <1>2, OfAppend
  <2> QED
      BY <1>2, <2>1, Zenon
<1>19. \A d : Waits(more, d) <=> Waits(events, d) /\ d # c
    BY <1>3, <1>6, <1>8 DEF Waits
<1>20. ASSUME NEW d, Once(events, d) PROVE Once(more, d)
  <2>1. CASE d = c
    <3>1. Waits(events, c)
        BY <1>3 DEF Waits
    <3>2. Of(events, "tool/result", c) = {}
        BY <1>20, <2>1, <3>1 DEF Once
    <3>3. Of(more, "tool/result", c) = {Len(events) + 1} /\ Len(events) + 1 \in Nat
        BY <1>2, <1>18, <3>2, AppendIs
    <3>4. ~ Waits(more, c)
        BY <1>19
    <3> QED
        BY <2>1, <3>3, <3>4, Zenon DEF Once
  <2>2. CASE d # c
      BY <1>17, <1>19, <1>20, <2>2, Zenon DEF Once
  <2> QED
      BY <2>1, <2>2
<1>21. ScanInv(more)
  <2>1. ASSUME NEW i \in DOMAIN q
        PROVE  /\ q[i].step = k /\ q[i].call \in Current(more)
               /\ q[i].started <=> Of(more, "tool/call", q[i].call) # {}
    <3>1. PICK l \in DOMAIN p : q[i] = p[l]
        BY <1>6
    <3>2. /\ p[l].step = k /\ p[l].call \in Current(events)
          /\ p[l].started <=> Of(events, "tool/call", p[l].call) # {}
        BY <1>0 DEF ScanInv
    <3> QED
        BY <1>15, <1>16, <3>1, <3>2
  <2>2. \A d \in Calls : d \in t.pendingCalls \ {c}
                            <=> \E i \in DOMAIN q : q[i].call = d /\ q[i].started
      BY <1>3, <1>6, <1>11
  <2>3. /\ Trace(more).openTurn = n /\ Trace(more).openStep = k /\ k # None
        /\ Trace(more).pendingCalls = t.pendingCalls \ {c}
      BY <1>10
  <2> HIDE DEF more, n, k, t, p
  <2> QED
      BY <1>7, <1>8, <2>1, <2>2, <2>3 DEF ScanInv
<1>22. \A i \in DOMAIN more : (i \in DOMAIN events /\ more[i] = events[i]) \/ more[i] = e
    BY <1>2, AppendIs
<1>23. AskedInv(more)
    BY <1>0, <1>2, <1>3, <1>15, <1>22, CurrentAsked DEF AskedInv
<1>24. ResultsInv(more)
    BY <1>0, <1>2, <1>16, <1>22 DEF ResultsInv
<1>25. PlacesInv(more)
    BY <1>0, <1>2, <1>10, <1>22 DEF PlacesInv
<1>26. OnceInv(more)
    BY <1>0, <1>15, <1>20 DEF OnceInv
<1> QED
    BY <1>2, <1>5, <1>14, <1>15, <1>20, <1>21, <1>23, <1>24, <1>25, <1>26
    DEF Holds, CallsInv, e, q

-----------------------------------------------------------------------------
(* One closer *)

LEMMA TailConcat ==
    ASSUME NEW S, NEW a \in Seq(S), a # <<>>, NEW b \in Seq(S)
    PROVE  /\ (a \o b)[1] = a[1] /\ Tail(a \o b) = Tail(a) \o b
           /\ a \o b # <<>> /\ a \o b \in Seq(S) /\ Tail(a) \in Seq(S)
<1>1. /\ a \o b \in Seq(S) /\ Len(a \o b) = Len(a) + Len(b)
      /\ \A i \in 1..(Len(a) + Len(b)) :
             (a \o b)[i] = IF i <= Len(a) THEN a[i] ELSE b[i - Len(a)]
    BY ConcatProperties
<1>2. Len(a) \in Nat \ {0} /\ Len(b) \in Nat
    OBVIOUS
<1>3. (a \o b)[1] = a[1] /\ a \o b # <<>>
    BY <1>1, <1>2
<1>4. /\ Tail(a) \in Seq(S) /\ Len(Tail(a)) = Len(a) - 1
      /\ \A i \in 1..(Len(a) - 1) : Tail(a)[i] = a[i + 1]
    BY <1>2
<1>5. /\ Tail(a \o b) \in Seq(S) /\ Len(Tail(a \o b)) = Len(a) + Len(b) - 1
      /\ \A i \in 1..(Len(a) + Len(b) - 1) : Tail(a \o b)[i] = (a \o b)[i + 1]
    BY <1>1, <1>2, <1>3
<1>6. /\ Tail(a) \o b \in Seq(S) /\ Len(Tail(a) \o b) = (Len(a) - 1) + Len(b)
      /\ \A i \in 1..((Len(a) - 1) + Len(b)) :
             (Tail(a) \o b)[i] = IF i <= Len(a) - 1 THEN Tail(a)[i] ELSE b[i - (Len(a) - 1)]
    BY <1>4, ConcatProperties
<1>7. ASSUME NEW i \in 1..(Len(a) + Len(b) - 1) PROVE Tail(a \o b)[i] = (Tail(a) \o b)[i]
  <2>1. i + 1 \in 1..(Len(a) + Len(b)) /\ i \in 1..((Len(a) - 1) + Len(b))
      BY <1>2
  <2>2. CASE i <= Len(a) - 1
    <3>1. i + 1 <= Len(a) /\ i \in 1..(Len(a) - 1)
        BY <1>2, <2>2
    <3>2. Tail(a \o b)[i] = a[i + 1]
        BY <1>1, <1>5, <2>1, <3>1
    <3> QED
        BY <1>4, <1>6, <2>1, <2>2, <3>1, <3>2
  <2>3. CASE ~ (i <= Len(a) - 1)
    <3>1. ~ (i + 1 <= Len(a)) /\ (i + 1) - Len(a) = i - (Len(a) - 1)
        BY <1>2, <2>3
    <3>2. Tail(a \o b)[i] = b[(i + 1) - Len(a)]
        BY <1>1, <1>5, <2>1, <3>1
    <3> QED
        BY <1>6, <2>1, <2>3, <3>1, <3>2
  <2> QED
      BY <2>2, <2>3
<1>8. Tail(a \o b) = Tail(a) \o b
  <2>1. Len(Tail(a \o b)) = Len(Tail(a) \o b)
      BY <1>2, <1>5, <1>6
  <2> QED
      BY <1>5, <1>6, <1>7, <2>1, SeqEqual
<1> QED
    BY <1>1, <1>3, <1>4, <1>8

\* What a repair says of one pending call of an open turn.
Outcome(p) == IF p.started THEN "TOOL_OUTCOME_UNKNOWN" ELSE "TOOL_NOT_STARTED"
ResultOf(n, p) == ToolResult(n, p.step, p.call, Outcome(p))
Results(n, p) == [i \in DOMAIN p |-> ResultOf(n, p[i])]

LEMMA ResultsAre ==
    ASSUME NEW n \in Nat, NEW p \in Seq(Pending)
    PROVE  /\ Results(n, p) \in Seq(Event) /\ Len(Results(n, p)) = Len(p)
           /\ p = <<>> => Results(n, p) = <<>>
           /\ p # <<>> => /\ 1 \in DOMAIN p /\ Results(n, p) # <<>>
                          /\ Results(n, p)[1] = ResultOf(n, p[1])
                          /\ Tail(Results(n, p)) = Results(n, RemoveAt(p, 1))
<1>1. DOMAIN p = 1..Len(p) /\ Len(p) \in Nat /\ \A i \in DOMAIN p : p[i] \in Pending
    OBVIOUS
<1>2. ASSUME NEW x \in Pending PROVE ResultOf(n, x) \in Event
  <2>1. /\ x.step \in Nat /\ x.call \in Calls
        /\ Outcome(x) \in {"none", "TOOL_OUTCOME_UNKNOWN", "TOOL_NOT_STARTED"}
      BY DEF Pending, Outcome
  <2> QED
      BY <2>1, EventForms, Zenon DEF ResultOf
<1>3. /\ Results(n, p) \in Seq(Event) /\ Len(Results(n, p)) = Len(p)
      /\ \A i \in 1..Len(p) : Results(n, p)[i] = ResultOf(n, p[i])
  <2>1. /\ Results(n, p) = [i \in 1..Len(p) |-> ResultOf(n, p[i])]
        /\ \A i \in 1..Len(p) : ResultOf(n, p[i]) \in Event
      BY <1>1, <1>2 DEF Results
  <2> QED
      BY <1>1, <2>1
<1>4. ASSUME p = <<>> PROVE Results(n, p) = <<>>
    BY <1>3, <1>4
<1>5. ASSUME p # <<>>
      PROVE  /\ 1 \in DOMAIN p /\ Results(n, p) # <<>>
             /\ Results(n, p)[1] = ResultOf(n, p[1])
             /\ Tail(Results(n, p)) = Results(n, RemoveAt(p, 1))
  <2>1. Len(p) # 0 /\ 1 \in DOMAIN p
      BY <1>1, <1>5
  <2> DEFINE q == RemoveAt(p, 1)
  <2>2. /\ q \in Seq(Pending) /\ Len(q) = Len(p) - 1
        /\ DOMAIN q = 1..(Len(p) - 1)
        /\ \A i \in DOMAIN q : q[i] = IF i < 1 THEN p[i] ELSE p[i + 1]
    <3>1. LET r == RemoveAt(p, 1) IN
          /\ r \in Seq(Pending) /\ Len(r) = Len(p) - 1
          /\ DOMAIN r = 1..(Len(p) - 1) /\ DOMAIN p = 1..Len(p) /\ Len(p) \in Nat
          /\ \A i \in DOMAIN r : r[i] = IF i < 1 THEN p[i] ELSE p[i + 1]
        BY <2>1, RemoveAtMoves
    <3> QED
        BY <3>1
  <2> HIDE DEF q
  <2>3. \A i \in 1..(Len(p) - 1) : q[i] = p[i + 1]
      BY <1>1, <2>2
  <2>4. Results(n, q) = [i \in 1..(Len(p) - 1) |-> ResultOf(n, p[i + 1])]
      BY <2>2, <2>3 DEF Results
  <2>5. /\ Results(n, q) \in Seq(Event) /\ Len(Results(n, q)) = Len(p) - 1
        /\ \A i \in 1..(Len(p) - 1) : Results(n, q)[i] = ResultOf(n, p[i + 1])
    <3>1. \A i \in 1..(Len(p) - 1) : ResultOf(n, p[i + 1]) \in Event
        BY <1>1, <1>2
    <3> QED
        BY <1>1, <2>1, <2>4, <3>1
  <2>6. Results(n, p) # <<>>
      BY <1>3, <2>1
  <2>7. /\ Tail(Results(n, p)) \in Seq(Event) /\ Len(Tail(Results(n, p))) = Len(p) - 1
        /\ \A i \in 1..(Len(p) - 1) : Tail(Results(n, p))[i] = ResultOf(n, p[i + 1])
    <3> HIDE DEF Results, ResultOf
    <3>1. /\ Tail(Results(n, p)) \in Seq(Event)
          /\ Len(Tail(Results(n, p))) = Len(Results(n, p)) - 1
          /\ \A i \in 1..Len(Tail(Results(n, p))) :
                 Tail(Results(n, p))[i] = Results(n, p)[i + 1]
        BY <1>3, <2>6, HeadTailProperties
    <3>2. \A i \in 1..(Len(p) - 1) : Results(n, p)[i + 1] = ResultOf(n, p[i + 1])
        BY <1>1, <1>3
    <3> QED
        BY <1>3, <3>1, <3>2
  <2>8. Tail(Results(n, p)) = Results(n, q)
    <3> HIDE DEF Results, ResultOf
    <3> QED
        BY <2>5, <2>7, SeqEqual
  <2>9. Results(n, p)[1] = ResultOf(n, p[1])
      BY <1>1, <1>3, <2>1
  <2> QED
      BY <2>1, <2>6, <2>8, <2>9 DEF q
<1> QED
    BY <1>3, <1>4, <1>5

LEMMA TwoAre ==
    ASSUME NEW a \in Event, NEW b \in Event
    PROVE  (<<>> \o <<a>>) \o <<b>> = <<a, b>>
<1> DEFINE u == <<a>>
           v == <<b>>
           w == <<a, b>>
<1>1. /\ u \in Seq(Event) /\ v \in Seq(Event) /\ w \in Seq(Event)
      /\ Len(u) = 1 /\ Len(v) = 1 /\ Len(w) = 2
      /\ u[1] = a /\ v[1] = b /\ w[1] = a /\ w[2] = b
      /\ <<>> \o u = u
    OBVIOUS
<1> HIDE DEF u, v, w
<1>2. /\ u \o v \in Seq(Event) /\ Len(u \o v) = 2
      /\ \A i \in 1..(Len(u) + Len(v)) :
             (u \o v)[i] = IF i <= Len(u) THEN u[i] ELSE v[i - Len(u)]
    BY <1>1, ConcatProperties
<1>3. /\ 1 \in 1..(Len(u) + Len(v)) /\ 2 \in 1..(Len(u) + Len(v))
      /\ 1 <= Len(u) /\ ~ (2 <= Len(u)) /\ 2 - Len(u) = 1
      /\ \A i \in 1..2 : i = 1 \/ i = 2
    BY <1>1
<1>4. (u \o v)[1] = u[1] /\ (u \o v)[2] = v[2 - Len(u)]
    BY <1>2, <1>3, Zenon
<1>5. \A i \in 1..2 : (u \o v)[i] = w[i]
    BY <1>1, <1>3, <1>4, Zenon
<1>6. u \o v = w
    BY <1>1, <1>2, <1>5, SeqEqual
<1> QED
    BY <1>1, <1>6, Zenon DEF u, v, w

\* The closers, by what the scan still holds.
LEMMA ClosersAre ==
    ASSUME NEW events \in Seq(Event), Holds(events), Trace(events).openTurn # None,
           NEW n, n = Trace(events).openTurn, NEW k, k = Trace(events).openStep,
           NEW p, p = Scanned(events).pendingCalls
    PROVE  /\ interruptedTurnClosers(events) \in Seq(Event)
           /\ p = <<>> /\ k = None => interruptedTurnClosers(events) = <<TurnEnd(n)>>
           /\ p = <<>> /\ k # None =>
                  interruptedTurnClosers(events) = <<StepEnd(n, k), TurnEnd(n)>>
           /\ k # None => interruptedTurnClosers(events) =
                              (Results(n, p) \o <<StepEnd(n, k)>>) \o <<TurnEnd(n)>>
           /\ p # <<>> => k # None
<1>1. n \in Nat /\ k \in Nat /\ p \in Seq(Pending)
      /\ Scanned(events).openTurn = n /\ Scanned(events).openStep = k /\ n # None
    BY Fields
<1>2. Results(n, p) \in Seq(Event) /\ (p = <<>> => Results(n, p) = <<>>)
    BY <1>1, ResultsAre
<1>3. TurnEnd(n) \in Event /\ StepEnd(n, k) \in Event
    BY <1>1, EventForms
<1> DEFINE Step == IF k = None THEN <<>> ELSE <<StepEnd(n, k)>>
<1>4. interruptedTurnClosers(events) = (Results(n, p) \o Step) \o <<TurnEnd(n)>>
  <2>1. interruptedTurnClosers(events) = ClosersOf(Scanned(events))
      BY <1>1 DEF interruptedTurnClosers
  <2>2. Results(n, p) =
            [i \in DOMAIN p |-> ToolResult(n, p[i].step, p[i].call,
                IF p[i].started THEN "TOOL_OUTCOME_UNKNOWN" ELSE "TOOL_NOT_STARTED")]
      BY DEF Results, ResultOf, Outcome
  <2> HIDE DEF Results
  <2> QED
      BY <1>1, <2>1, <2>2, Zenon DEF ClosersOf
<1>5. p # <<>> => k # None
    BY Zenon DEF Holds, ScanInv
<1> HIDE DEF Results
<1>6. Step \in Seq(Event)
    BY <1>3
<1>7. interruptedTurnClosers(events) \in Seq(Event)
  <2> HIDE DEF Step
  <2>1. Results(n, p) \o Step \in Seq(Event) /\ <<TurnEnd(n)>> \in Seq(Event)
      BY <1>2, <1>3, <1>6
  <2>2. (Results(n, p) \o Step) \o <<TurnEnd(n)>> \in Seq(Event)
      BY <2>1, ConcatProperties
  <2> QED
      BY <1>4, <2>2, Zenon
<1>8. k # None => interruptedTurnClosers(events) =
                      (Results(n, p) \o <<StepEnd(n, k)>>) \o <<TurnEnd(n)>>
    BY <1>4, Zenon
<1>9. ASSUME p = <<>>, k = None PROVE interruptedTurnClosers(events) = <<TurnEnd(n)>>
  <2>1. interruptedTurnClosers(events) = (<<>> \o <<>>) \o <<TurnEnd(n)>>
      BY <1>2, <1>4, <1>9, Zenon
  <2> QED
      BY <1>3, <2>1
<1>10. ASSUME p = <<>>, k # None
       PROVE  interruptedTurnClosers(events) = <<StepEnd(n, k), TurnEnd(n)>>
  <2>1. interruptedTurnClosers(events) = (<<>> \o <<StepEnd(n, k)>>) \o <<TurnEnd(n)>>
      BY <1>2, <1>8, <1>10, Zenon
  <2> QED
      BY <1>3, <2>1, TwoAre, Zenon
<1> QED
    BY <1>5, <1>7, <1>8, <1>9, <1>10, Zenon

LEMMA NothingToRepair ==
    ASSUME NEW events \in Seq(Event), Holds(events)
    PROVE  interruptedTurnClosers(events) = <<>> <=> Trace(events).openTurn = None
<1>1. Scanned(events).openTurn = Trace(events).openTurn
    BY Fields
<1>2. ASSUME Trace(events).openTurn # None PROVE interruptedTurnClosers(events) # <<>>
  <2> DEFINE n == Trace(events).openTurn
             k == Trace(events).openStep
             p == Scanned(events).pendingCalls
  <2>1. n \in Nat /\ k \in Nat /\ p \in Seq(Pending)
      BY Fields
  <2>2. TurnEnd(n) \in Event /\ StepEnd(n, k) \in Event
      BY <2>1, EventForms
  <2>3. Results(n, p) \in Seq(Event)
      BY <2>1, ResultsAre
  <2>4. CASE k = None
    <3>1. p = <<>>
        BY <1>2, <2>4, ClosersAre
    <3>2. interruptedTurnClosers(events) = <<TurnEnd(n)>>
        BY <1>2, <2>4, <3>1, ClosersAre
    <3> QED
        BY <3>2
  <2>5. CASE k # None
    <3>1. interruptedTurnClosers(events) =
              (Results(n, p) \o <<StepEnd(n, k)>>) \o <<TurnEnd(n)>>
        BY <1>2, <2>5, ClosersAre
    <3> HIDE DEF Results, n, k, p
    <3> QED
        BY <2>2, <2>3, <3>1
  <2> QED
      BY <2>4, <2>5
<1> QED
    BY <1>1, <1>2 DEF interruptedTurnClosers

\* Nothing is pending, and the next closer closes the step or the turn.
LEMMA OnceKept ==
    ASSUME NEW events \in Seq(Event), Holds(events), NEW e \in Event, e.type \in Boundary,
           Scanned(events).pendingCalls = <<>>, Scanned(Append(events, e)).pendingCalls = <<>>,
           NEW d, Once(events, d)
    PROVE  Once(Append(events, e), d)
<1>1. ~ Waits(events, d) /\ ~ Waits(Append(events, e), d)
    BY DEF Waits
<1>2. Of(Append(events, e), "tool/result", d) = Of(events, "tool/result", d)
    BY BoundaryKeeps
<1> QED
    BY <1>1, <1>2, Zenon DEF Once

LEMMA OneCloser ==
    ASSUME NEW events \in Seq(Event), Holds(events), interruptedTurnClosers(events) # <<>>
    PROVE  LET C    == interruptedTurnClosers(events)
               more == Append(events, C[1])
           IN  /\ C[1] \in Event /\ Holds(more) /\ interruptedTurnClosers(more) = Tail(C)
               /\ \A d : Once(events, d) => Once(more, d)
<1> DEFINE C == interruptedTurnClosers(events)
           e == C[1]
           more == Append(events, e)
           n == Trace(events).openTurn
           k == Trace(events).openStep
           p == Scanned(events).pendingCalls
<1>1. n # None
    BY NothingToRepair
<1>2. n \in Nat /\ k \in Nat /\ p \in Seq(Pending)
      /\ Scanned(events).openTurn = n /\ Scanned(events).openStep = k
    BY Fields
<1>3. TurnEnd(n) \in Event /\ StepEnd(n, k) \in Event
    BY <1>2, EventForms
<1>4. CASE p = <<>> /\ k = None
  <2>1. C = <<TurnEnd(n)>>
      BY <1>1, <1>4, ClosersAre
  <2>2. e = TurnEnd(n) /\ Tail(C) = <<>>
      BY <2>1
  <2>3. Holds(more) /\ Scanned(more) = NoneOpen
      BY <1>1, <1>4, <2>2, TurnEndHolds
  <2>4. interruptedTurnClosers(more) = <<>>
      BY <2>3 DEF interruptedTurnClosers, NoneOpen
  <2>5. e.type \in Boundary
      BY <2>2 DEF TurnEnd, Boundary
  <2>6. \A d : Once(events, d) => Once(more, d)
    <3>1. Scanned(more).pendingCalls = <<>>
        BY <2>3 DEF NoneOpen
    <3> QED
        BY <1>3, <1>4, <2>2, <2>5, <3>1, OnceKept
  <2> QED
      BY <1>3, <2>2, <2>3, <2>4, <2>6
<1>5. CASE p = <<>> /\ k # None
  <2>1. C = <<StepEnd(n, k), TurnEnd(n)>>
      BY <1>1, <1>5, ClosersAre
  <2>2. e = StepEnd(n, k) /\ Tail(C) = <<TurnEnd(n)>>
      BY <2>1
  <2>3. /\ Holds(more) /\ Scanned(more) = [NoneOpen EXCEPT !.openTurn = n]
        /\ Trace(more).openStep = None
      BY <1>5, <2>2, StepEndHolds
  <2>4. Scanned(more).openTurn = n /\ Scanned(more).pendingCalls = <<>>
      BY <2>3 DEF NoneOpen
  <2>5. more \in Seq(Event) /\ Trace(more).openTurn = n
    <3>1. more \in Seq(Event)
        BY <1>3, <2>2, AppendIs
    <3>2. Scanned(more).openTurn = Trace(more).openTurn
        BY <2>3, Fields
    <3> QED
        BY <2>4, <3>1, <3>2
  <2>6. interruptedTurnClosers(more) = <<TurnEnd(n)>>
    <3> HIDE DEF more
    <3> QED
        BY <1>1, <2>3, <2>4, <2>5, ClosersAre
  <2>7. e.type \in Boundary
      BY <2>2 DEF StepEnd, Boundary
  <2>8. \A d : Once(events, d) => Once(more, d)
      BY <1>3, <1>5, <2>2, <2>4, <2>7, OnceKept
  <2> QED
      BY <1>3, <2>2, <2>3, <2>6, <2>8
<1>6. CASE p # <<>>
  <2>1. k # None
      BY <1>1, <1>6, ClosersAre
  <2> DEFINE q == RemoveAt(p, 1)
             code == Outcome(p[1])
             c == p[1].call
  <2>2. /\ 1 \in DOMAIN p /\ Results(n, p) # <<>> /\ Results(n, p) \in Seq(Event)
        /\ Results(n, p)[1] = ResultOf(n, p[1])
        /\ Tail(Results(n, p)) = Results(n, q)
      BY <1>2, <1>6, ResultsAre
  <2>3. C = (Results(n, p) \o <<StepEnd(n, k)>>) \o <<TurnEnd(n)>>
      BY <1>1, <2>1, ClosersAre
  <2>4. e = ResultOf(n, p[1]) /\ Tail(C) = (Results(n, q) \o <<StepEnd(n, k)>>) \o <<TurnEnd(n)>>
    <3> DEFINE a == Results(n, p) \o <<StepEnd(n, k)>>
    <3>1. <<StepEnd(n, k)>> \in Seq(Event) /\ <<TurnEnd(n)>> \in Seq(Event)
        BY <1>3
    <3>2. /\ a[1] = Results(n, p)[1] /\ Tail(a) = Tail(Results(n, p)) \o <<StepEnd(n, k)>>
          /\ a # <<>> /\ a \in Seq(Event)
        BY <2>2, <3>1, TailConcat
    <3>3. (a \o <<TurnEnd(n)>>)[1] = a[1] /\ Tail(a \o <<TurnEnd(n)>>) = Tail(a) \o <<TurnEnd(n)>>
      <4> HIDE DEF a
      <4> QED
          BY <3>1, <3>2, TailConcat
    <3> QED
        BY <2>2, <2>3, <3>2, <3>3, Zenon
  <2>5. /\ p[1].step = k
        /\ code = "TOOL_NOT_STARTED" <=> Of(events, "tool/call", c) = {}
        /\ code \in {"none", "TOOL_OUTCOME_UNKNOWN", "TOOL_NOT_STARTED"}
    <3>1. p[1].step = k /\ (p[1].started <=> Of(events, "tool/call", c) # {})
        BY <2>2 DEF Holds, ScanInv
    <3> QED
        BY <3>1 DEF Outcome
  <2>6. e = ToolResult(n, k, c, code)
      BY <2>4, <2>5 DEF ResultOf
  <2> HIDE DEF code
  <2>7. /\ ToolResult(n, k, c, code) \in Event
        /\ Holds(Append(events, ToolResult(n, k, c, code)))
        /\ Scanned(Append(events, ToolResult(n, k, c, code)))
               = [openTurn |-> n, openStep |-> k, pendingCalls |-> q]
        /\ \A d : Once(events, d) => Once(Append(events, ToolResult(n, k, c, code)), d)
      BY <2>1, <2>2, <2>5, ToolResultHolds
  <2>8. /\ e \in Event /\ Holds(more) /\ \A d : Once(events, d) => Once(more, d)
        /\ Scanned(more) = [openTurn |-> n, openStep |-> k, pendingCalls |-> q]
      BY <2>6, <2>7, Zenon
  <2>9. more \in Seq(Event)
      BY <2>8, AppendIs
  <2> HIDE DEF more, q, n, k
  <2>10. Trace(more).openTurn = n /\ Trace(more).openStep = k
         /\ Scanned(more).pendingCalls = q
      BY <2>8, Fields
  <2>11. interruptedTurnClosers(more) = (Results(n, q) \o <<StepEnd(n, k)>>) \o <<TurnEnd(n)>>
    <3>1. Trace(more).openTurn # None
        BY <1>1, <2>10
    <3>2. Trace(more).openStep # None
        BY <2>1, <2>10
    <3>3. interruptedTurnClosers(more) =
              (Results(Trace(more).openTurn, Scanned(more).pendingCalls)
                  \o <<StepEnd(Trace(more).openTurn, Trace(more).openStep)>>)
              \o <<TurnEnd(Trace(more).openTurn)>>
        BY <2>8, <2>9, <3>1, <3>2, ClosersAre
    <3> QED
        BY <2>8, <2>9, <2>10, <3>1, <3>2, <3>3, Zenon
  <2> QED
      BY <2>4, <2>8, <2>11, Zenon DEF more
<1>7. p # <<>> \/ (p = <<>> /\ k = None) \/ (p = <<>> /\ k # None)
    OBVIOUS
<1> QED
    BY <1>4, <1>5, <1>6, <1>7

-----------------------------------------------------------------------------
(* All the closers, one after another *)

\* The log once n of its closers are appended.
Part(events, n) == events \o SubSeq(interruptedTurnClosers(events), 1, n)

LEMMA ClosersTyped ==
    ASSUME NEW events \in Seq(Event), Holds(events)
    PROVE  /\ interruptedTurnClosers(events) \in Seq(Event)
           /\ Len(interruptedTurnClosers(events)) \in Nat
           /\ interruptedTurnClosers(events) # <<>> => Len(interruptedTurnClosers(events)) # 0
<1>1. interruptedTurnClosers(events) \in Seq(Event)
  <2>1. CASE Trace(events).openTurn = None
    <3>1. interruptedTurnClosers(events) = <<>>
        BY <2>1, NothingToRepair
    <3> QED
        BY <3>1
  <2>2. CASE Trace(events).openTurn # None
      BY <2>2, ClosersAre
  <2> QED
      BY <2>1, <2>2
<1> QED
    BY <1>1

LEMMA RepairStep ==
    ASSUME NEW events \in Seq(Event), Good(events),
           NEW n \in 0..Len(interruptedTurnClosers(events))
    PROVE  /\ Part(events, n) \in Seq(Event) /\ Good(Part(events, n))
           /\ interruptedTurnClosers(Part(events, n)) =
                  SubSeq(interruptedTurnClosers(events), n + 1,
                         Len(interruptedTurnClosers(events)))
           /\ \A d : Once(events, d) => Once(Part(events, n), d)
<1> DEFINE C == interruptedTurnClosers(events)
           N == Len(C)
           S == {m \in 0..N : /\ Part(events, m) \in Seq(Event) /\ Good(Part(events, m))
                              /\ interruptedTurnClosers(Part(events, m)) = SubSeq(C, m + 1, N)
                              /\ \A d : Once(events, d) => Once(Part(events, m), d)}
<1>0. Len(events) \in Nat /\ Holds(events)
  <2>1. Len(events) \in Nat /\ Len(events) \in 0..Len(events)
      OBVIOUS
  <2> QED
      BY <2>1, GoodPrefix
<1>1. C \in Seq(Event) /\ N \in Nat
    BY <1>0, ClosersTyped
<1>2. 0 \in S
  <2>1. SubSeq(C, 1, 0) = <<>> /\ SubSeq(C, 0 + 1, N) = C /\ events \o <<>> = events
    <3> HIDE DEF C
    <3> QED
        BY <1>1
  <2>2. Part(events, 0) = events
      BY <2>1, Zenon DEF Part
  <2>3. 0 \in 0..N
      BY <1>1
  <2> QED
      BY <2>1, <2>2, <2>3, Zenon
<1>3. ASSUME NEW m \in 0..N, m \in S, m < N PROVE m + 1 \in S
  <2> DEFINE r == Part(events, m)
             D == interruptedTurnClosers(r)
             e == C[m + 1]
             more == Append(r, e)
  <2>1. /\ r \in Seq(Event) /\ Good(r) /\ D = SubSeq(C, m + 1, N)
        /\ \A d : Once(events, d) => Once(r, d)
      BY <1>3, Zenon
  <2>2. m \in Nat /\ m + 1 \in 1..N /\ m + 1 \in 0..N /\ m + 1 \in Nat
      BY <1>1, <1>3
  <2>3. D # <<>> /\ D[1] = e /\ Tail(D) = SubSeq(C, (m + 1) + 1, N) /\ e \in Event
    <3> HIDE DEF C, D, r
    <3>1. /\ Len(SubSeq(C, m + 1, N)) = N - m /\ SubSeq(C, m + 1, N)[1] = C[m + 1]
          /\ C[m + 1] \in Event
        BY <1>1, <2>2
    <3>2. Tail(SubSeq(C, m + 1, N)) = SubSeq(C, (m + 1) + 1, N)
      <4>1. N \in (m + 1)..Len(C) /\ m + 1 \in 1..Len(C)
          BY <1>1, <2>2
      <4> QED
          BY <1>1, <4>1, HeadTailOfSubSeq
    <3>3. SubSeq(C, m + 1, N) # <<>>
      <4>1. N - m # 0 /\ Len(<<>>) = 0
          BY <1>1, <1>3
      <4> QED
          BY <3>1, <4>1, Zenon
    <3> QED
        BY <2>1, <3>1, <3>2, <3>3, Zenon
  <2>4. Part(events, m + 1) = more
    <3> HIDE DEF C
    <3>1. SubSeq(C, 1, m + 1) = SubSeq(C, 1, m) \o <<C[m + 1]>>
      <4>1. 1 \in 1..Len(C) /\ m + 1 \in 1..Len(C) /\ (m + 1) - 1 = m
          BY <1>1, <2>2
      <4> QED
          BY <1>1, <4>1, SubSeqRecursiveSecond
    <3>2. SubSeq(C, 1, m) \in Seq(Event) /\ <<C[m + 1]>> \in Seq(Event)
        BY <1>1, <2>2
    <3>3. events \o (SubSeq(C, 1, m) \o <<C[m + 1]>>)
              = (events \o SubSeq(C, 1, m)) \o <<C[m + 1]>>
        BY <3>2, ConcatAssociative
    <3>4. Part(events, m + 1) = r \o <<e>>
        BY <3>1, <3>3, Zenon DEF Part, C
    <3>5. Append(r, e) = r \o <<e>>
        BY <2>1, <2>3, AppendIsConcat
    <3> QED
        BY <3>4, <3>5, Zenon
  <2> HIDE DEF r
  <2>5. Holds(r)
    <3>1. Len(r) \in 0..Len(r)
        BY <2>1
    <3> QED
        BY <2>1, <3>1, GoodPrefix
  <2>6. /\ Holds(more) /\ interruptedTurnClosers(more) = Tail(D)
        /\ \A d : Once(r, d) => Once(more, d)
    <3>1. LET CC == interruptedTurnClosers(r)
              mm == Append(r, CC[1])
          IN  /\ CC[1] \in Event /\ Holds(mm) /\ interruptedTurnClosers(mm) = Tail(CC)
              /\ \A d : Once(r, d) => Once(mm, d)
        BY <2>1, <2>3, <2>5, OneCloser, Zenon
    <3> QED
        BY <2>3, <3>1, Zenon
  <2>7. more \in Seq(Event) /\ Good(more)
      BY <2>1, <2>3, <2>6, AppendIs, GoodAppend
  <2> HIDE DEF more, D, C
  <2> QED
      BY <2>1, <2>2, <2>3, <2>4, <2>6, <2>7, Zenon
<1>4. \A m \in 0..N : m \in S
  <2> HIDE DEF S, N
  <2> QED
      BY <1>1, <1>2, <1>3, Induct
<1> QED
    BY <1>4, Zenon

\* Once all of them are appended, the turn is closed.
LEMMA RepairCloses ==
    ASSUME NEW events \in Seq(Event), Good(events)
    PROVE  LET r == Part(events, Len(interruptedTurnClosers(events)))
           IN  Good(r) /\ Holds(r) /\ Trace(r).openTurn = None /\ r \in Seq(Event)
               /\ \A d : Once(events, d) => Once(r, d)
<1> DEFINE C == interruptedTurnClosers(events)
           N == Len(C)
           r == Part(events, N)
<1>0. Len(events) \in 0..Len(events)
    OBVIOUS
<1>1. C \in Seq(Event) /\ N \in Nat
    BY <1>0, GoodPrefix, ClosersTyped
<1>2. N \in 0..N /\ SubSeq(C, N + 1, N) = <<>>
  <2> HIDE DEF C
  <2> QED
      BY <1>1
<1>3. /\ r \in Seq(Event) /\ Good(r) /\ interruptedTurnClosers(r) = SubSeq(C, N + 1, N)
      /\ \A d : Once(events, d) => Once(r, d)
    BY <1>2, RepairStep, Zenon
<1> HIDE DEF r
<1>4. Len(r) \in 0..Len(r)
    BY <1>3
<1>5. Holds(r)
    BY <1>3, <1>4, GoodPrefix
<1>6. Trace(r).openTurn = None
    BY <1>2, <1>3, <1>5, NothingToRepair
<1> QED
    BY <1>3, <1>5, <1>6 DEF r

-----------------------------------------------------------------------------
(* The steps of a session *)

LEMMA InvHolds ==
    ASSUME Inv
    PROVE  /\ log \in Seq(Event) /\ Len(log) \in Nat /\ DOMAIN log = 1..Len(log)
           /\ Good(log) /\ Holds(log)
           /\ durable \in Nat /\ durable <= Len(log)
<1>1. log \in Seq(Event) /\ Good(log) /\ durable \in 0..Len(log)
    BY DEF Inv
<1>2. Len(log) \in 0..Len(log)
    BY <1>1
<1> QED
    BY <1>1, <1>2, GoodPrefix

\* One event more of a live session.
LEMMA WriteInv ==
    ASSUME Inv, NEW e, e \in Event, Holds(Append(log, e)), NoneGivenUp(Append(log, e)), Write(e)
    PROVE  Inv'
<1>1. /\ live /\ log' = Append(log, e) /\ live' = live /\ durable' = durable /\ ran' = ran
    BY DEF Write
<1>2. /\ log \in Seq(Event) /\ Len(log) \in Nat /\ Good(log)
      /\ durable \in Nat /\ durable <= Len(log)
    BY InvHolds
<1>3. /\ log' \in Seq(Event) /\ Len(log') = Len(log) + 1
    BY <1>1, <1>2, AppendIs
<1>4. Good(log')
    BY <1>1, <1>2, GoodAppend
<1>5. LiveInv'
    BY <1>1 DEF LiveInv
<1>6. RanInv'
  <2>1. ASSUME NEW c PROVE Of(log, "tool/call", c) \subseteq Of(log', "tool/call", c)
    <3>1. Of(log', "tool/call", c) = Of(log, "tool/call", c)
              \cup (IF e.type = "tool/call" /\ e.call = c THEN {Len(log) + 1} ELSE {})
        BY <1>1, <1>2, OfAppend
    <3> QED
        BY <3>1, Zenon
  <2>2. RanInv
      BY DEF Inv
  <2> QED
      BY <1>1, <2>1, <2>2, Zenon DEF RanInv
<1>7. durable' \in 0..Len(log')
    BY <1>1, <1>2, <1>3
<1>8. ran \subseteq Calls /\ live \in BOOLEAN
    BY DEF Inv
<1> QED
    BY <1>1, <1>3, <1>4, <1>5, <1>6, <1>7, <1>8 DEF Inv

LEMMA StartTurnInv == ASSUME Inv, StartTurn PROVE Inv'
<1> DEFINE e == TurnStart(LastTurn(log) + 1)
<1>1. Trace(log).openTurn = None /\ LastTurn(log) < MaxTurns /\ Write(e)
    BY DEF StartTurn
<1>2. e \in Event /\ Holds(Append(log, e)) /\ Trace(Append(log, e)).openStep = None
    BY <1>1, InvHolds, TurnStartHolds
<1>3. NoneGivenUp(Append(log, e))
    BY <1>2 DEF NoneGivenUp
<1> QED
    BY <1>1, <1>2, <1>3, WriteInv

LEMMA StartStepInv == ASSUME Inv, StartStep PROVE Inv'
<1> DEFINE t == Trace(log)
           e == StepStart(t.openTurn, t.nextStep)
<1>1. t.openTurn # None /\ t.openStep = None /\ t.nextStep <= MaxSteps /\ Write(e)
    BY DEF StartStep
<1>2. e \in Event /\ Holds(Append(log, e)) /\ Current(Append(log, e)) = {}
    BY <1>1, InvHolds, StepStartHolds
<1>3. NoneGivenUp(Append(log, e))
    BY <1>2 DEF NoneGivenUp
<1> QED
    BY <1>1, <1>2, <1>3, WriteInv

LEMMA AnswersInv == ASSUME Inv, Answers PROVE Inv'
<1> DEFINE t == Trace(log)
<1>1. /\ t.openStep # None
      /\ \A i \in DOMAIN log : log[i].type = "assistant/message" =>
             ~ (log[i].turn = t.openTurn /\ log[i].step = t.openStep)
    BY DEF Answers
<1>2. PICK x \in 0..(NumCalls - Cardinality(Asked(log))) :
          Write(Answer(t.openTurn, t.openStep, [i \in 1..x |-> Cardinality(Asked(log)) + i]))
    BY DEF Answers
<1> DEFINE blocks == [i \in 1..x |-> Cardinality(Asked(log)) + i]
           e == Answer(t.openTurn, t.openStep, blocks)
           more == Append(log, e)
<1>3. e \in Event /\ Holds(more) /\ Current(more) \cap Asked(log) = {}
    BY <1>1, InvHolds, AnswerHolds, Zenon
<1>4. e.type = "assistant/message"
    BY DEF Answer
<1>5. Write(e)
    BY <1>2
<1> HIDE DEF e
<1>6. \A i \in DOMAIN more : (i \in DOMAIN log /\ more[i] = log[i]) \/ more[i] = e
    BY <1>3, InvHolds, AppendIs
<1>7. \A i \in DOMAIN log : log[i].type \in {"tool/call", "tool/result"} => log[i].call \in Asked(log)
    BY InvHolds DEF Holds, CallsInv, AskedInv
<1>8. NoneGivenUp(more)
  <2> HIDE DEF more
  <2> QED
      BY <1>3, <1>4, <1>6, <1>7 DEF NoneGivenUp
<1> QED
    BY <1>3, <1>5, <1>8, WriteInv

LEMMA CallToolInv == ASSUME Inv, NEW c \in Calls, CallTool(c) PROVE Inv'
<1> DEFINE t == Trace(log)
           e == ToolCall(t.openTurn, t.openStep, c)
           more == Append(log, e)
<1>1. t.openStep # None /\ c \in Current(log) /\ Of(log, "tool/call", c) = {} /\ Write(e)
    BY DEF CallTool, Current
<1>2. live /\ NoneGivenUp(log)
    BY <1>1 DEF Write, Inv, LiveInv
<1>3. \A i \in DOMAIN log : log[i].type = "tool/result" /\ log[i].notStarted => log[i].call # c
    BY <1>1, <1>2 DEF NoneGivenUp
<1>4. e \in Event /\ Holds(more) /\ Current(more) = Current(log)
    BY <1>1, <1>3, InvHolds, ToolCallHolds
<1>5. e.type = "tool/call"
    BY DEF ToolCall
<1> HIDE DEF e
<1>6. \A i \in DOMAIN more : (i \in DOMAIN log /\ more[i] = log[i]) \/ more[i] = e
    BY <1>4, InvHolds, AppendIs
<1>7. NoneGivenUp(more)
  <2> HIDE DEF more
  <2> QED
      BY <1>1, <1>2, <1>4, <1>5, <1>6 DEF NoneGivenUp
<1> QED
    BY <1>1, <1>4, <1>7, WriteInv

LEMMA RunBodyInv == ASSUME Inv, NEW c \in Calls, RunBody(c) PROVE Inv'
<1>1. /\ ran' = ran \cup {c} /\ live' = live /\ log' = log /\ durable' = durable
      /\ \E i \in Of(log, "tool/call", c) : i <= durable
    BY DEF RunBody, Checkpointed
<1>2. RanInv'
  <2>1. \E i \in 1..durable : i \in Of(log, "tool/call", c)
      BY <1>1, InvHolds DEF Of
  <2>2. RanInv
      BY DEF Inv
  <2> QED
      BY <1>1, <2>1, <2>2 DEF RanInv
<1>3. LiveInv'
    BY <1>1 DEF Inv, LiveInv
<1> QED
    BY <1>1, <1>2, <1>3 DEF Inv

LEMMA EndCallInv == ASSUME Inv, NEW c \in Calls, EndCall(c) PROVE Inv'
<1> DEFINE t == Trace(log)
           p == Scanned(log).pendingCalls
           e == ToolResult(t.openTurn, t.openStep, c, "none")
           more == Append(log, e)
<1>1. c \in t.pendingCalls /\ Write(e)
    BY DEF EndCall
<1>2. live /\ NoneGivenUp(log)
    BY <1>1 DEF Write, Inv, LiveInv
<1>3. TraceInv(log) /\ ScanInv(log)
    BY InvHolds DEF Holds
<1>4. t.openStep # None
    BY <1>1, <1>3 DEF TraceInv
<1>5. PICK j \in DOMAIN p : p[j].call = c /\ p[j].started
    BY <1>1, <1>3 DEF ScanInv
<1>6. Of(log, "tool/call", c) # {}
    BY <1>3, <1>5 DEF ScanInv
<1>7. e \in Event /\ Holds(more) /\ Current(more) = Current(log)
  <2> DEFINE d == p[j].call
  <2>1. PICK code : code = "none"
      OBVIOUS
  <2>2. /\ log \in Seq(Event) /\ Holds(log) /\ j \in DOMAIN p /\ c = d
        /\ code \in {"none", "TOOL_OUTCOME_UNKNOWN", "TOOL_NOT_STARTED"}
        /\ code = "TOOL_NOT_STARTED" <=> Of(log, "tool/call", d) = {}
      BY <1>5, <1>6, <2>1, InvHolds
  <2>3. /\ ToolResult(t.openTurn, t.openStep, d, code) \in Event
        /\ Holds(Append(log, ToolResult(t.openTurn, t.openStep, d, code)))
        /\ Current(Append(log, ToolResult(t.openTurn, t.openStep, d, code))) = Current(log)
      BY <1>4, <2>2, ToolResultHolds
  <2> QED
      BY <2>1, <2>2, <2>3, Zenon
<1>8. e.type = "tool/result" /\ ~ e.notStarted
    BY DEF ToolResult
<1> HIDE DEF e
<1>9. \A i \in DOMAIN more : (i \in DOMAIN log /\ more[i] = log[i]) \/ more[i] = e
    BY <1>7, InvHolds, AppendIs
<1>10. NoneGivenUp(more)
  <2> HIDE DEF more
  <2> QED
      BY <1>2, <1>4, <1>7, <1>8, <1>9 DEF NoneGivenUp
<1> QED
    BY <1>1, <1>7, <1>10, WriteInv

LEMMA EndStepInv == ASSUME Inv, EndStep PROVE Inv'
<1> DEFINE t == Trace(log)
           e == StepEnd(t.openTurn, t.openStep)
<1>1. t.openStep # None /\ Write(e)
    BY DEF EndStep
<1>2. e \in Event /\ Holds(Append(log, e)) /\ Trace(Append(log, e)).openStep = None
    BY <1>1, InvHolds, StepEndHolds
<1>3. NoneGivenUp(Append(log, e))
    BY <1>2 DEF NoneGivenUp
<1> QED
    BY <1>1, <1>2, <1>3, WriteInv

LEMMA EndTurnInv == ASSUME Inv, EndTurn PROVE Inv'
<1> DEFINE t == Trace(log)
           e == TurnEnd(t.openTurn)
<1>1. t.openTurn # None /\ t.openStep = None /\ Write(e)
    BY DEF EndTurn
<1>2. e \in Event /\ Holds(Append(log, e)) /\ Scanned(Append(log, e)) = NoneOpen
    BY <1>1, InvHolds, TurnEndHolds
<1>3. Trace(Append(log, e)).openStep = None
  <2>1. Scanned(Append(log, e)).openStep = None
      BY <1>2 DEF NoneOpen
  <2> QED
      BY <1>2, <2>1, Fields
<1>4. NoneGivenUp(Append(log, e))
    BY <1>3 DEF NoneGivenUp
<1> QED
    BY <1>1, <1>2, <1>4, WriteInv

LEMMA PersistInv == ASSUME Inv, Persist PROVE Inv'
<1>1. durable' = Len(log) /\ live' = live /\ log' = log /\ ran' = ran
    BY DEF Persist, Stored
<1>2. RanInv'
  <2>1. \A i \in 1..durable : i \in 1..Len(log)
      BY InvHolds
  <2>2. RanInv
      BY DEF Inv
  <2> QED
      BY <1>1, <2>1, <2>2 DEF RanInv
<1>3. LiveInv'
    BY <1>1 DEF Inv, LiveInv
<1>4. durable' \in 0..Len(log')
    BY <1>1, InvHolds
<1> QED
    BY <1>1, <1>2, <1>3, <1>4 DEF Inv

\* What is stored in front of a torn frame is never lost.
LEMMA DurableKept ==
    ASSUME Inv, ran' = ran, log' \in Seq(Event), durable' \in durable..Len(log'),
           \A i \in 1..durable : log'[i] = log[i]
    PROVE  RanInv' /\ durable' \in 0..Len(log') /\ ran' \subseteq Calls
<1>1. /\ durable \in Nat /\ durable' \in Nat /\ durable <= durable' /\ durable' <= Len(log')
      /\ DOMAIN log' = 1..Len(log') /\ DOMAIN log = 1..Len(log) /\ Len(log') \in Nat
    BY InvHolds
<1>2. ASSUME NEW c, NEW i \in 1..durable, i \in Of(log, "tool/call", c)
      PROVE  i \in 1..durable' /\ i \in Of(log', "tool/call", c)
  <2>1. i \in 1..durable' /\ i \in DOMAIN log' /\ log'[i] = log[i]
      BY <1>1
  <2> QED
      BY <1>2, <2>1 DEF Of
<1>3. RanInv
    BY DEF Inv
<1>4. RanInv'
    BY <1>2, <1>3, Zenon DEF RanInv
<1> QED
    BY <1>1, <1>4 DEF Inv

\* A prefix of the log is found, with what was certainly stored in it.
LEMMA PrefixInv ==
    ASSUME Inv, live' = FALSE, ran' = ran, NEW n \in durable..Len(log),
           log' = Prefix(log, n), durable' \in durable..n
    PROVE  Inv'
<1>1. log \in Seq(Event) /\ Good(log) /\ durable \in Nat /\ n \in 0..Len(log)
    BY InvHolds
<1>2. log' \in Seq(Event) /\ Len(log') = n /\ \A i \in 1..durable : log'[i] = log[i]
  <2>1. /\ log' \in Seq(Event) /\ Len(log') = n
        /\ \A i \in 1..n : log'[i] = log[i]
      BY <1>1, PrefixIs
  <2>2. \A i \in 1..durable : i \in 1..n
      BY <1>1
  <2> QED
      BY <2>1, <2>2
<1>3. Good(log')
    BY <1>1, GoodPrefix
<1>4. RanInv' /\ durable' \in 0..Len(log') /\ ran' \subseteq Calls
    BY <1>2, DurableKept
<1>5. LiveInv' /\ live' \in BOOLEAN
    BY DEF LiveInv
<1> QED
    BY <1>2, <1>3, <1>4, <1>5 DEF Inv

\* The whole log is found, and some of its closers behind it.
LEMMA PartInv ==
    ASSUME Inv, live' = FALSE, ran' = ran,
           NEW n \in 0..Len(interruptedTurnClosers(log)),
           log' = Part(log, n), durable' \in durable..Len(log')
    PROVE  Inv'
<1>1. /\ log \in Seq(Event) /\ Good(log) /\ Holds(log) /\ durable \in Nat
      /\ durable <= Len(log) /\ Len(log) \in Nat
    BY InvHolds
<1>2. log' \in Seq(Event) /\ Good(log')
    BY <1>1, RepairStep
<1> DEFINE D == SubSeq(interruptedTurnClosers(log), 1, n)
<1>3. D \in Seq(Event) /\ log' = log \o D
    BY <1>1, ClosersTyped DEF Part
<1> HIDE DEF D
<1>4. \A i \in 1..durable : log'[i] = log[i]
    BY <1>1, <1>3
<1>5. RanInv' /\ durable' \in 0..Len(log') /\ ran' \subseteq Calls
    BY <1>2, <1>4, DurableKept
<1>6. LiveInv' /\ live' \in BOOLEAN
    BY DEF LiveInv
<1> QED
    BY <1>2, <1>5, <1>6 DEF Inv

\* A crash keeps a prefix, and what was checkpointed is in it.
LEMMA CrashInv == ASSUME Inv, Crash PROVE Inv'
<1>1. live' = FALSE /\ ran' = ran
    BY DEF Crash
<1>2. PICK n \in durable..Len(log) :
          log' = SubSeq(log, 1, n) /\ durable' \in {durable, n}
    BY DEF Crash
<1>3. log' = Prefix(log, n) /\ durable' \in durable..n
    BY <1>2, InvHolds DEF Prefix
<1> QED
    BY <1>1, <1>3, PrefixInv

\* Events recovered from a torn frame and closers are stored.
LEMMA CommitRepairInv == ASSUME Inv, CommitRepair PROVE Inv'
<1> DEFINE N == Len(interruptedTurnClosers(log))
<1>1. live \in BOOLEAN /\ ~ live /\ live' = live /\ ran' = ran /\ durable' = Len(log')
    BY DEF CommitRepair, NeedsRepair, Inv
<1>2. N \in 0..N /\ log' = Part(log, N)
  <2>1. interruptedTurnClosers(log) \in Seq(Event)
      BY InvHolds, ClosersTyped
  <2> QED
      BY <2>1 DEF CommitRepair, Repaired, Closers, Part
<1>3. durable' \in durable..Len(log')
  <2>1. log' \in Seq(Event) /\ Len(log') = Len(log) + Len(SubSeq(interruptedTurnClosers(log), 1, N))
    <3>1. /\ log \in Seq(Event)
          /\ SubSeq(interruptedTurnClosers(log), 1, N) \in Seq(Event)
        BY InvHolds, ClosersTyped
    <3> QED
        BY <1>2, <3>1, ConcatProperties, Zenon DEF Part
  <2>2. Len(SubSeq(interruptedTurnClosers(log), 1, N)) \in Nat
      BY InvHolds, ClosersTyped
  <2> QED
      BY <1>1, <2>1, <2>2, InvHolds
<1> HIDE DEF N
<1> QED
    BY <1>1, <1>2, <1>3, PartInv DEF N

\* What a crash inside a repair can leave, as a sequence.
LEMMA KeptIs ==
    ASSUME NEW S, NEW a \in Seq(S), NEW b \in Seq(S), NEW k \in 0..(Len(a) + Len(b))
    PROVE  /\ k <= Len(a) => SubSeq(a \o b, 1, k) = SubSeq(a, 1, k)
           /\ k > Len(a) => SubSeq(a \o b, 1, k) = a \o SubSeq(b, 1, k - Len(a))
<1>1. /\ a \o b \in Seq(S) /\ Len(a \o b) = Len(a) + Len(b)
      /\ \A i \in 1..(Len(a) + Len(b)) :
             (a \o b)[i] = IF i <= Len(a) THEN a[i] ELSE b[i - Len(a)]
    BY ConcatProperties
<1>2. /\ SubSeq(a \o b, 1, k) \in Seq(S) /\ Len(SubSeq(a \o b, 1, k)) = k
      /\ \A i \in 1..k : SubSeq(a \o b, 1, k)[i] = (a \o b)[i]
    BY <1>1
<1>3. CASE k <= Len(a)
  <2>1. /\ SubSeq(a, 1, k) \in Seq(S) /\ Len(SubSeq(a, 1, k)) = k
        /\ \A i \in 1..k : SubSeq(a, 1, k)[i] = a[i]
      BY <1>3
  <2>2. \A i \in 1..k : SubSeq(a \o b, 1, k)[i] = SubSeq(a, 1, k)[i]
      BY <1>1, <1>2, <1>3, <2>1
  <2> QED
      BY <1>2, <1>3, <2>1, <2>2, SeqEqual
<1>4. CASE k > Len(a)
  <2> DEFINE c == SubSeq(b, 1, k - Len(a))
  <2>1. /\ c \in Seq(S) /\ Len(c) = k - Len(a)
        /\ \A i \in 1..(k - Len(a)) : c[i] = b[i]
      BY <1>4
  <2> HIDE DEF c
  <2>2. /\ a \o c \in Seq(S) /\ Len(a \o c) = k
        /\ \A i \in 1..k : (a \o c)[i] = IF i <= Len(a) THEN a[i] ELSE c[i - Len(a)]
    <3>1. Len(a) \in Nat /\ Len(a) + Len(c) = k
        BY <2>1
    <3>2. /\ a \o c \in Seq(S) /\ Len(a \o c) = Len(a) + Len(c)
          /\ \A i \in 1..(Len(a) + Len(c)) :
                 (a \o c)[i] = IF i <= Len(a) THEN a[i] ELSE c[i - Len(a)]
        BY <2>1, ConcatProperties
    <3> QED
        BY <3>1, <3>2
  <2>3. ASSUME NEW i \in 1..k PROVE SubSeq(a \o b, 1, k)[i] = (a \o c)[i]
    <3>1. CASE i <= Len(a)
        BY <1>1, <1>2, <2>2, <3>1
    <3>2. CASE ~(i <= Len(a))
      <4>1. i - Len(a) \in 1..(k - Len(a)) /\ i \in 1..(Len(a) + Len(b))
          BY <3>2
      <4> QED
          BY <1>1, <1>2, <2>1, <2>2, <3>2, <4>1
    <3> QED
        BY <3>1, <3>2
  <2>4. SubSeq(a \o b, 1, k) = a \o c
      BY <1>2, <2>2, <2>3, SeqEqual
  <2> QED
      BY <1>4, <2>4 DEF c
<1> QED
    BY <1>3, <1>4

\* A repair that is cut leaves a prefix of the log it was to make, either one of the log
\* that it found or that log with some closers.
LEMMA CutForms ==
    ASSUME Inv, CutRepair
    PROVE  \/ \E n \in durable..Len(log) :
                 log' = Prefix(log, n) /\ Len(log') = n /\ durable' \in durable..n
           \/ \E n \in 0..Len(interruptedTurnClosers(log)) :
                 log' = Part(log, n) /\ durable' \in durable..Len(log')
<1> DEFINE C == interruptedTurnClosers(log)
<1>1. /\ log \in Seq(Event) /\ Len(log) \in Nat /\ durable \in Nat /\ durable <= Len(log)
      /\ C \in Seq(Event) /\ Len(C) \in Nat
    BY InvHolds, ClosersTyped
<1>2. PICK k \in 0..Len(log \o C) :
          /\ log' = SubSeq(log \o C, 1, k)
          /\ Len(log') >= durable /\ durable' \in {durable, Len(log')}
    BY DEF CutRepair, Repaired, Closers, Prefixes, TruncateTo
<1> HIDE DEF C
<1>3. k \in 0..(Len(log) + Len(C)) /\ Len(log') = k
    BY <1>1, <1>2
<1>4. CASE k <= Len(log)
  <2>1. log' = Prefix(log, k)
      BY <1>1, <1>2, <1>3, <1>4, KeptIs DEF Prefix
  <2>2. k \in durable..Len(log) /\ durable' \in durable..k
      BY <1>1, <1>2, <1>3, <1>4
  <2> QED
      BY <1>3, <2>1, <2>2
<1>5. CASE k > Len(log)
  <2>1. log' = log \o SubSeq(C, 1, k - Len(log))
      BY <1>1, <1>2, <1>3, <1>5, KeptIs
  <2>2. k - Len(log) \in 0..Len(C) /\ durable' \in durable..Len(log')
      BY <1>1, <1>2, <1>3, <1>5
  <2> QED
      BY <2>1, <2>2 DEF Part, C
<1> QED
    BY <1>1, <1>3, <1>4, <1>5

LEMMA CutRepairInv == ASSUME Inv, CutRepair PROVE Inv'
<1>1. live' = FALSE /\ ran' = ran
    BY DEF CutRepair, NeedsRepair, Inv
<1> QED
    BY <1>1, CutForms, PrefixInv, PartInv

LEMMA ResumeInv == ASSUME Inv, Resume PROVE Inv'
<1>1. /\ interruptedTurnClosers(log) = <<>> /\ live' = TRUE
      /\ log' = log /\ durable' = durable /\ ran' = ran
    BY DEF Resume, NeedsRepair, Closers
<1>2. Trace(log).openTurn = None
    BY <1>1, InvHolds, NothingToRepair
<1>3. Trace(log).openStep = None
    BY <1>2, InvHolds DEF Holds, TraceInv
<1>4. LiveInv'
    BY <1>1, <1>3 DEF LiveInv, NoneGivenUp
<1>5. RanInv'
    BY <1>1 DEF Inv, RanInv
<1> QED
    BY <1>1, <1>4, <1>5 DEF Inv

-----------------------------------------------------------------------------
(* Theorems *)

LEMMA InitInv == Init => Inv
<1> SUFFICES ASSUME Init PROVE Inv
    OBVIOUS
<1>1. live = TRUE /\ log = <<>> /\ durable = 0 /\ ran = {}
    BY DEF Init
<1>2. log \in Seq(Event) /\ Len(log) = 0 /\ DOMAIN log = {} /\ Len(log) \in Nat
    BY <1>1
<1> HIDE DEF Init
<1>3. Trace(log) = FreshTrace /\ Scanned(log) = NoneOpen
  <2>1. 0 \in 0..Len(log)
      BY <1>2
  <2> QED
      BY <1>2, <2>1, TracesAre, ScansAre DEF Trace, Scanned
<1>4. /\ Trace(log) = [openTurn |-> None, openStep |-> None, nextTurn |-> 1, nextStep |-> 1,
                       pendingCalls |-> {}]
      /\ Scanned(log) = [openTurn |-> None, openStep |-> None, pendingCalls |-> <<>>]
    BY <1>3 DEF FreshTrace, NoneOpen
<1>5. LastTurn(log) = 0
  <2>1. Starts(log) = {}
      BY <1>2 DEF Starts
  <2> QED
      BY <2>1 DEF LastTurn
<1>6. IsValid(log)
    BY <1>2 DEF IsValid
<1>7. TraceInv(log)
    BY <1>4, <1>5, <1>6, SessionRepairAssumption DEF TraceInv, None
<1>8. ScanInv(log)
    BY <1>4, NothingPending DEF None
<1>9. CallsInv(log)
  <2>1. Asked(log) = {}
      BY <1>2 DEF Asked
  <2>2. AskedInv(log)
    <3>1. 0 \in 0..NumCalls /\ 1..0 = {}
        BY SessionRepairAssumption
    <3> QED
        BY <1>2, <2>1, <3>1, Zenon DEF AskedInv
  <2>3. PlacesInv(log) /\ ResultsInv(log)
      BY <1>2 DEF PlacesInv, ResultsInv
  <2>4. OnceInv(log)
      BY <1>4 DEF OnceInv
  <2> QED
      BY <2>2, <2>3, <2>4 DEF CallsInv
<1>10. Good(log)
  <2>1. \A n \in 0..Len(log) : n = 0
      BY <1>2
  <2>2. Prefix(log, 0) = log
      BY <1>2, PrefixAll
  <2> QED
      BY <1>7, <1>8, <1>9, <2>1, <2>2, Zenon DEF Good, Holds
<1>11. LiveInv
    BY <1>4 DEF LiveInv, NoneGivenUp
<1>12. RanInv
    BY <1>1 DEF RanInv
<1>13. durable \in 0..Len(log)
    BY <1>1, <1>2
<1> QED
    BY <1>1, <1>2, <1>10, <1>11, <1>12, <1>13 DEF Inv

LEMMA StutterInv == ASSUME Inv, UNCHANGED vars PROVE Inv'
<1>1. live' = live /\ log' = log /\ durable' = durable /\ ran' = ran
    BY DEF vars
<1> QED
    BY <1>1 DEF Inv, LiveInv, RanInv

LEMMA NextInv == Inv /\ [Next]_vars => Inv'
<1> SUFFICES ASSUME Inv, [Next]_vars PROVE Inv'
    OBVIOUS
<1>1. CASE StartTurn
    BY <1>1, StartTurnInv
<1>2. CASE StartStep
    BY <1>2, StartStepInv
<1>3. CASE Answers
    BY <1>3, AnswersInv
<1>4. CASE \E c \in Calls : CallTool(c) \/ RunBody(c) \/ EndCall(c)
    BY <1>4, CallToolInv, RunBodyInv, EndCallInv
<1>5. CASE EndStep
    BY <1>5, EndStepInv
<1>6. CASE EndTurn
    BY <1>6, EndTurnInv
<1>7. CASE Persist
    BY <1>7, PersistInv
<1>8. CASE Crash
    BY <1>8, CrashInv
<1>9. CASE Recover
    BY <1>9, CommitRepairInv, ResumeInv DEF Recover
<1>10. CASE CutRepair
    BY <1>10, CutRepairInv
<1>11. CASE UNCHANGED vars
    BY <1>11, StutterInv
<1> QED
    BY <1>1, <1>2, <1>3, <1>4, <1>5, <1>6, <1>7, <1>8, <1>9, <1>10, <1>11 DEF Next

\* Every log a session can have, live or found by a restart, is one whose every prefix
\* the repair understands: what the scan of repair.ts:33 holds open is what the
\* validator of invariant.ts holds open.
THEOREM Invariance == Spec => []Inv
<1>1. Init => Inv
    BY InitInv
<1>2. Inv /\ [Next]_vars => Inv'
    BY NextInv
<1> QED
    BY <1>1, <1>2, PTL DEF Spec

\* The durable part is a part of the log, bodies run for calls that exist, and the
\* bookkeeping of invariant.ts keeps its types.
THEOREM TypeCorrect == Spec => []TypeOK
<1>1. Inv => TypeOK
  <2> SUFFICES ASSUME Inv PROVE TypeOK
      OBVIOUS
  <2>1. /\ Trace(log) \in [openTurn : 0..MaxTurns, openStep : 0..MaxSteps,
                           nextTurn : Nat \ {0}, nextStep : Nat \ {0},
                           pendingCalls : SUBSET Calls]
      BY InvHolds DEF Holds, TraceInv
  <2>2. Trace(log) \in [openTurn : 0..MaxTurns, openStep : 0..MaxSteps, nextTurn : Nat,
                        nextStep : Nat, pendingCalls : SUBSET Calls]
      BY <2>1
  <2> QED
      BY <2>2 DEF Inv, TypeOK
<1> QED
    BY <1>1, Invariance, PTL

\* A log that has crashed, been repaired and been resumed any number of times is one
\* that seedSession accepts (invariant.ts:207, validateEvent of every event).
THEOREM AlwaysValid == Spec => []LogIsValid
<1>1. Inv => LogIsValid
    BY InvHolds DEF Holds, TraceInv, LogIsValid
<1> QED
    BY <1>1, Invariance, PTL

\* Wherever a crash fell, the closers of repair.ts:95 are accepted one by one, close the
\* turn, and leave every call of the interrupted step with exactly one result.
THEOREM RepairBalances == Spec => []ClosersBalance
<1>1. Inv => ClosersBalance
  <2> SUFFICES ASSUME Inv PROVE ClosersBalance
      OBVIOUS
  <2> DEFINE t == Trace(log)
             r == Part(log, Len(interruptedTurnClosers(log)))
  <2>1. Repaired = r
    <3>1. interruptedTurnClosers(log) \in Seq(Event)
        BY InvHolds, ClosersTyped
    <3> QED
        BY <3>1 DEF Repaired, Closers, Part
  <2>2. /\ Holds(r) /\ Trace(r).openTurn = None /\ \A d : Once(log, d) => Once(r, d)
      BY InvHolds, RepairCloses, Zenon
  <2>3. IsValid(r)
      BY <2>2 DEF Holds, TraceInv
  <2>4. ASSUME NEW c \in Announced(log, t.openTurn, t.openStep), t.openStep # None
        PROVE  Cardinality(Of(r, "tool/result", c)) = 1
    <3>1. Once(log, c)
        BY <2>4, InvHolds DEF Holds, CallsInv, OnceInv, Current
    <3>2. Trace(r).openStep = None /\ Scanned(r).pendingCalls = <<>>
        BY <2>2 DEF Holds, TraceInv, ScanInv
    <3>3. ~ Waits(r, c)
        BY <3>2 DEF Waits
    <3>4. PICK i \in Nat : Of(r, "tool/result", c) = {i}
        BY <2>2, <3>1, <3>3 DEF Once
    <3> QED
        BY <3>4, FS_Singleton
  <2> HIDE DEF r
  <2> QED
      BY <2>1, <2>2, <2>3, <2>4, Zenon DEF ClosersBalance
<1> QED
    BY <1>1, Invariance, PTL

\* A log with some of its closers is one from which the next repair goes on to the same
\* log: no closer is missing, none is doubled.
LEMMA PartGoesOn ==
    ASSUME NEW events \in Seq(Event), Good(events),
           NEW n \in 0..Len(interruptedTurnClosers(events))
    PROVE  /\ IsPrefix(events, Part(events, n))
           /\ Part(events, n) \o interruptedTurnClosers(Part(events, n))
                  = events \o interruptedTurnClosers(events)
<1> DEFINE C == interruptedTurnClosers(events)
           N == Len(C)
<1>1. Len(events) \in Nat /\ C \in Seq(Event) /\ N \in Nat
  <2>1. Len(events) \in 0..Len(events)
      OBVIOUS
  <2> QED
      BY <2>1, GoodPrefix, ClosersTyped
<1>2. interruptedTurnClosers(Part(events, n)) = SubSeq(C, n + 1, N)
    BY RepairStep
<1>3. Part(events, n) = events \o SubSeq(C, 1, n)
    BY DEF Part
<1> HIDE DEF C
<1>4. SubSeq(C, 1, n) \in Seq(Event) /\ SubSeq(C, n + 1, N) \in Seq(Event)
    BY <1>1 DEF C
<1>5. SubSeq(C, 1, n) \o SubSeq(C, n + 1, N) = C
  <2>1. n \in 0..Len(C)
      BY DEF C
  <2> DEFINE a == SubSeq(C, 1, n)
             b == SubSeq(C, n + 1, N)
  <2>2. /\ Len(a) = n /\ Len(b) = N - n /\ \A i \in 1..n : a[i] = C[i]
        /\ \A i \in 1..(N - n) : b[i] = C[i + n]
      BY <1>1, <2>1
  <2>3. a \in Seq(Event) /\ b \in Seq(Event)
      BY <1>4
  <2> HIDE DEF a, b
  <2>4. /\ a \o b \in Seq(Event) /\ Len(a \o b) = Len(a) + Len(b)
        /\ \A i \in 1..(Len(a) + Len(b)) :
               (a \o b)[i] = IF i <= Len(a) THEN a[i] ELSE b[i - Len(a)]
      BY <2>3, ConcatProperties
  <2>5. \A i \in 1..N : (a \o b)[i] = C[i]
      BY <1>1, <2>1, <2>2, <2>4
  <2>6. a \o b = C
    <3>1. Len(a \o b) = Len(C)
        BY <1>1, <2>1, <2>2, <2>4
    <3>2. \A i \in 1..Len(a \o b) : (a \o b)[i] = C[i]
        BY <2>5, <3>1
    <3> QED
        BY <1>1, <2>4, <3>1, <3>2, SeqEqual
  <2> QED
      BY <2>6 DEF a, b
<1>6. Part(events, n) \o SubSeq(C, n + 1, N) = events \o C
  <2> DEFINE a == SubSeq(C, 1, n)
             b == SubSeq(C, n + 1, N)
  <2>1. events \in Seq(Event) /\ a \in Seq(Event) /\ b \in Seq(Event)
      BY <1>4
  <2>2. a \o b = C /\ Part(events, n) = events \o a
      BY <1>3, <1>5
  <2> HIDE DEF a, b
  <2>3. (events \o a) \o b = events \o (a \o b)
      BY <2>1, ConcatAssociative
  <2>4. Part(events, n) \o b = events \o C
      BY <2>2, <2>3
  <2> QED
      BY <2>4 DEF b
<1>7. IsPrefix(events, Part(events, n))
  <2> DEFINE a == SubSeq(C, 1, n)
  <2>1. a \in Seq(Event) /\ Len(a) \in Nat
      BY <1>4
  <2> HIDE DEF a
  <2>2. /\ events \o a \in Seq(Event) /\ Len(events \o a) = Len(events) + Len(a)
      BY <2>1, ConcatProperties
  <2>3. SubSeq(events \o a, 1, Len(events)) = SubSeq(events, 1, Len(events))
      BY <1>1, <2>1, KeptIs
  <2> QED
      BY <1>1, <1>3, <2>1, <2>2, <2>3 DEF IsPrefix, a
<1> QED
    BY <1>2, <1>6, <1>7 DEF C

\* Repairs converge whichever of them are cut, between the truncation and the append of
\* commitRepair (session-persistence-jsonl/src/index.ts:441-443) or inside the append: the
\* next one goes on to exactly the log that was to be made, or events of the torn frame
\* are gone, and never one in front of it.
THEOREM RepairsConverge == Spec => RepairConverges
<1> DEFINE Converges ==
        \/ IsPrefix(log, log') /\ log' \o interruptedTurnClosers(log') = Repaired
        \/ IsPrefix(log', log) /\ Len(log') >= durable
<1>1. ASSUME Inv, CommitRepair PROVE Converges
  <2> DEFINE N == Len(interruptedTurnClosers(log))
  <2>1. N \in 0..N /\ log' = Part(log, N) /\ log \in Seq(Event) /\ Good(log)
    <3>1. interruptedTurnClosers(log) \in Seq(Event)
        BY <1>1, InvHolds, ClosersTyped
    <3> QED
        BY <1>1, <3>1, InvHolds DEF CommitRepair, Repaired, Closers, Part
  <2> HIDE DEF N
  <2> QED
      BY <2>1, PartGoesOn DEF Repaired, Closers, N
<1>2. ASSUME Inv, CutRepair PROVE Converges
  <2>1. log \in Seq(Event) /\ Good(log) /\ durable \in Nat
      BY <1>2, InvHolds
  <2>2. ASSUME NEW n \in durable..Len(log), log' = Prefix(log, n), Len(log') = n
        PROVE  Converges
    <3>1. SubSeq(log', 1, n) = SubSeq(log, 1, n)
        BY <2>1, <2>2 DEF Prefix
    <3> QED
        BY <2>1, <2>2, <3>1 DEF IsPrefix
  <2>3. ASSUME NEW n \in 0..Len(interruptedTurnClosers(log)), log' = Part(log, n)
        PROVE  Converges
      BY <2>1, <2>3, PartGoesOn DEF Repaired, Closers
  <2> HIDE DEF Converges
  <2> QED
      BY <1>2, <2>2, <2>3, CutForms
<1>3. ASSUME Inv, [Next]_vars, ~live, ~live'
      PROVE  CommitRepair \/ CutRepair \/ UNCHANGED vars
    BY <1>3 DEF Next, StartTurn, StartStep, Answers, CallTool, RunBody, EndCall, EndStep,
       EndTurn, Write, Persist, Crash, Recover, Resume
<1>4. ASSUME Inv, [Next]_vars
      PROVE  [~live /\ ~live' =>
                 \/ IsPrefix(log, log') /\ log' \o interruptedTurnClosers(log') = Repaired
                 \/ IsPrefix(log', log) /\ Len(log') >= durable]_vars
    BY <1>1, <1>2, <1>3, <1>4, Zenon DEF Converges
<1> QED
    BY <1>4, Invariance, PTL DEF Spec, RepairConverges

\* A call whose result says that it was never started (repair.ts:119) has never run, for
\* the checkpoint of session-checkpoint-policy makes its tool/call durable first.
THEOREM NotStartedIsTrue == Spec => []NotStartedNeverRan
<1>1. Inv => NotStartedNeverRan
  <2> SUFFICES ASSUME Inv, NEW i \in DOMAIN log, log[i].type = "tool/result",
                      log[i].notStarted, log[i].call \in ran
               PROVE  FALSE
      BY DEF NotStartedNeverRan
  <2>1. Of(log, "tool/call", log[i].call) = {}
      BY InvHolds DEF Holds, CallsInv, ResultsInv
  <2>2. Of(log, "tool/call", log[i].call) # {}
      BY DEF Inv, RanInv
  <2> QED
      BY <2>1, <2>2
<1> QED
    BY <1>1, Invariance, PTL

=============================================================================
