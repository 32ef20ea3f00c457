--------------------------- MODULE JobsEndProofs ---------------------------
(***************************************************************************)
(* The end of a job, for any jobs, agents, waits and limits: whatever the   *)
(* order of settlements, waits, kills, teardowns and turns, the end of each *)
(* job is accounted for (NoEndIsLost).                                      *)
(***************************************************************************)
EXTENDS JobsProofs

\* What is known of the end of job j. Only a settled job that no teardown
\* cancelled is announced. The flag that suppresses the announcement is set
\* by a teardown, or by an answer to somebody.
EndOf(j) ==
    /\ notice[j] # "none" => status[j] = "settled" /\ j \notin torn
    /\ j \in torn => reported[j]
    /\ status[j] = "none" => ~ reported[j]
    /\ reported[j] /\ status[j] \in Live /\ j \notin torn => j \in told
    /\ status[j] \in Terminal => Accounted(j)

\* An unclaimed notice beside a live owner: its driver has yet to look at the
\* inbox for the last time, or nothing may wake it.
NoticeOf(j) ==
    LET o == owner[j] IN
    notice[j] = "pending" /\ life[o] = "live" =>
        /\ turn[o] # "retiring"
        /\ turn[o] = "idle" => spentWakes[o] = wakeBudget

EndsInv    == \A j \in Jobs : EndOf(j)
NoticesInv == \A j \in Jobs : NoticeOf(j)

-----------------------------------------------------------------------------
(* What keeps an end accounted for *)

LEMMA OwedKept ==
    ASSUME NEW j \in Jobs,
           \A w \in Waiters : wait[w].at \in {"timedout", "released"} => wait'[w] = wait[w]
    PROVE  Owed(j) => Owed(j)'
BY Zenon DEF Owed

LEMMA AccountedKept ==
    ASSUME NEW j \in Jobs, Accounted(j),
           j \in torn' <=> j \in torn, notice'[j] = "none" <=> notice[j] = "none",
           told \subseteq told', j \in stored' => j \in stored,
           service # "active" => service' # "active",
           Owed(j) => Owed(j)' \/ j \in told' \/ j \notin stored' \/ service' # "active"
    PROVE  Accounted(j)'
<1>1. CASE j \in torn
    BY <1>1, Zenon DEF Accounted
<1>2. CASE j \notin torn
    BY <1>2 DEF Accounted
<1> QED
    BY <1>1, <1>2

\* A step that leaves the record of job j and its history alone.
LEMMA EndKept ==
    ASSUME NEW j \in Jobs, EndOf(j),
           status'[j] = status[j], reported'[j] = reported[j],
           j \in torn' <=> j \in torn, notice'[j] = "none" <=> notice[j] = "none",
           told \subseteq told', j \in stored' => j \in stored,
           service # "active" => service' # "active",
           Owed(j) => Owed(j)'
    PROVE  EndOf(j)'
<1>1. status[j] \in Terminal => Accounted(j)'
    BY AccountedKept, Zenon DEF EndOf
<1>2. j \in told => j \in told'
    OBVIOUS
<1> QED
    BY <1>1, <1>2, Zenon DEF EndOf

-----------------------------------------------------------------------------
(* The calls of a turn and the waits *)

LEMMA StartEnds ==
    ASSUME TypeOK, EndsInv, NEW k \in Jobs, Start(k), NEW j \in Jobs
    PROVE  EndOf(j)'
<1>1. /\ status[k] = "none" /\ status' = [status EXCEPT ![k] = "running"]
      /\ stored' = stored \cup {k}
      /\ UNCHANGED <<reported, wait, service, notice, told, torn>>
    BY Zenon DEF Start
<1>2. EndOf(j)
    BY DEF EndsInv
<1>3. CASE j = k
    BY <1>1, <1>2, <1>3 DEF TypeOK, EndOf, Live, Terminal
<1>4. CASE j # k
  <2>1. status'[j] = status[j] /\ (j \in stored' => j \in stored)
      BY <1>1, <1>4 DEF TypeOK
  <2>2. Owed(j) => Owed(j)'
      BY <1>1, Zenon DEF Owed
  <2> QED
      BY <1>1, <1>2, <2>1, <2>2, EndKept, Zenon
<1> QED
    BY <1>3, <1>4

\* An answer to a read, and a kill of a job that ended.
LEMMA AnswerEnds ==
    ASSUME TypeOK, EndsInv, NEW k \in Jobs, status[k] # "none",
           status'[k] \in Live \cup Terminal, \A i \in Jobs \ {k} : status'[i] = status[i],
           status[k] \in Terminal => status'[k] = status[k],
           reported' = [reported EXCEPT ![k] = TRUE], told' = told \cup {k},
           status[k] \in Live => status'[k] \in Live,
           UNCHANGED <<stored, wait, service, notice, torn>>, NEW j \in Jobs
    PROVE  EndOf(j)'
<1>1. EndOf(j)
    BY DEF EndsInv
<1>2. Owed(j) => Owed(j)'
    BY Zenon DEF Owed
<1>3. CASE j = k
  <2>1. reported'[j] /\ j \in told'
      BY <1>3, Zenon DEF TypeOK
  <2>2. Accounted(j)'
    <3>1. status[k] \in Terminal \cup Live
        BY DEF TypeOK
    <3>2. j \in torn => notice[j] = "none"
        BY <1>1 DEF EndOf
    <3> QED
        BY <2>1, <3>2, Zenon DEF Accounted
  <2>3. notice[j] # "none" => status'[j] = "settled" /\ j \notin torn
      BY <1>1, <1>3 DEF EndOf, Terminal
  <2>4. status'[j] # "none"
      BY <1>3 DEF Live, Terminal
  <2> QED
      BY <2>1, <2>2, <2>3, <2>4, Zenon DEF EndOf
<1>4. CASE j # k
  <2>1. reported'[j] = reported[j] /\ status'[j] = status[j]
      BY <1>4, Zenon DEF TypeOK
  <2> QED
      BY <1>1, <1>2, <2>1, EndKept, Zenon
<1> QED
    BY <1>3, <1>4

LEMMA ReadEnds ==
    ASSUME TypeOK, EndsInv, NEW k \in Jobs, Read(k), NEW j \in Jobs
    PROVE  EndOf(j)'
<1>1. /\ status[k] \in Terminal /\ status' = status
      /\ reported' = [reported EXCEPT ![k] = TRUE] /\ told' = told \cup {k}
      /\ UNCHANGED <<stored, wait, service, notice, torn>>
    BY Zenon DEF Read, agents
<1>2. status[k] # "none"
    BY <1>1 DEF Terminal
<1> QED
    BY <1>1, <1>2, AnswerEnds, Zenon

LEMMA KillEnds ==
    ASSUME TypeOK, EndsInv, NEW k \in Jobs, Kill(k), NEW j \in Jobs
    PROVE  EndOf(j)'
<1>1. /\ status[k] # "none"
      /\ reported' = [reported EXCEPT ![k] = TRUE] /\ told' = told \cup {k}
      /\ UNCHANGED <<stored, wait, service, notice, torn>>
    BY Zenon DEF Kill, agents
<1>2. /\ status'[k] \in Live \cup Terminal
      /\ \A i \in Jobs \ {k} : status'[i] = status[i]
      /\ status[k] \in Terminal => status'[k] = status[k]
      /\ status[k] \in Live => status'[k] \in Live
    BY DEF Kill, TypeOK, Live, Terminal
<1> QED
    BY <1>1, <1>2, AnswerEnds, Zenon

\* A wait begins, times out or is aborted: none of them was about to answer.
LEMMA WaitEnds ==
    ASSUME TypeOK, EndsInv,
           \/ \E w \in Waiters, i \in Jobs : Wait(w, i)
           \/ \E w \in Waiters : TimeOut(w) \/ AbortWait(w),
           NEW j \in Jobs
    PROVE  EndOf(j)'
<1>1. UNCHANGED <<status, reported, stored, service, notice, told, torn>>
    BY Zenon DEF Wait, TimeOut, AbortWait, records
<1>2. \A w \in Waiters : wait[w].at \in {"timedout", "released"} => wait'[w] = wait[w]
  <2>1. CASE \E w \in Waiters, i \in Jobs : Wait(w, i)
      BY <2>1 DEF TypeOK, Wait
  <2>2. CASE \E w \in Waiters : TimeOut(w)
      BY <2>2 DEF TypeOK, TimeOut
  <2>3. CASE \E w \in Waiters : AbortWait(w)
      BY <2>3 DEF TypeOK, AbortWait, Abortable
  <2> QED
      BY <2>1, <2>2, <2>3
<1>3. Owed(j) => Owed(j)'
    BY <1>2, OwedKept, Zenon
<1>4. EndOf(j)
    BY DEF EndsInv
<1> QED
    BY <1>1, <1>3, <1>4, EndKept, Zenon

\* A wait that resumes says how its job ended, unless the record is gone.
LEMMA WaitReturnsEnds ==
    ASSUME TypeOK, EndsInv, NEW w \in Waiters, WaitReturns(w), NEW j \in Jobs
    PROVE  EndOf(j)'
<1> DEFINE k == wait[w].job
<1>1. k \in Jobs
    BY DEF TypeOK
<1>2. /\ wait' = [wait EXCEPT ![w].at = "none"]
      /\ UNCHANGED <<status, stored, service, notice, torn>>
    BY Zenon DEF WaitReturns, agents
<1>3. EndOf(j)
    BY DEF EndsInv
<1>4. \A v \in Waiters \ {w} : wait'[v] = wait[v]
    BY <1>2 DEF TypeOK
<1>5. j # k => (Owed(j) => Owed(j)')
    BY <1>4, Zenon DEF Owed
<1>6. told \subseteq told'
    BY DEF WaitReturns
<1>7. CASE j = k /\ status[k] \in Terminal
  <2>1. /\ reported' = [reported EXCEPT ![k] = TRUE]
        /\ told' = IF k \in stored /\ service = "active" THEN told \cup {k} ELSE told
      BY <1>7, Zenon DEF WaitReturns
  <2>2. reported'[j] = TRUE
      BY <1>1, <1>7, <2>1, Zenon DEF TypeOK
  <2>3. j \in told' \/ j \notin stored' \/ service' # "active"
      BY <1>2, <1>7, <2>1
  <2>4. Accounted(j)'
      BY <1>2, <1>3, <1>6, <1>7, <2>3, AccountedKept, Zenon DEF EndOf
  <2>5. status[j] # "none" /\ status[j] \notin Live
      BY <1>7 DEF Terminal, Live
  <2> QED
      BY <1>2, <1>3, <2>2, <2>4, <2>5, Zenon DEF EndOf
<1>8. CASE j # k
  <2>1. reported' = [reported EXCEPT ![k] = TRUE] \/ reported' = reported
      BY Zenon DEF WaitReturns
  <2>2. reported'[j] = reported[j]
      BY <1>1, <1>8, <2>1, Zenon DEF TypeOK
  <2> QED
      BY <1>2, <1>3, <1>5, <1>6, <1>8, <2>2, EndKept, Zenon
<1>9. CASE j = k /\ status[k] \notin Terminal
  <2>1. reported' = reported /\ told' = told
      BY <1>9, Zenon DEF WaitReturns
  <2> QED
      BY <1>2, <1>3, <1>9, <2>1, Zenon DEF EndOf
<1> QED
    BY <1>7, <1>8, <1>9

-----------------------------------------------------------------------------
(* Settlement *)

\* A settlement that finds a wait counted will be told by it: the wait is
\* resolved already, or is released by this very step.
LEMMA CountedWaitOwes ==
    ASSUME TypeOK, NEW j \in Jobs, waiters(j) > 0, wait' = Released(j)
    PROVE  Owed(j)'
<1> DEFINE W == {w \in Waiters : wait[w].at # "none" /\ wait[w].job = j}
<1>1. W # {}
  <2>1. SUFFICES ASSUME W = {}
                 PROVE  FALSE
      OBVIOUS
  <2>2. Cardinality(W) = 0
      BY <2>1, FS_EmptySet
  <2> QED
      BY <2>2 DEF waiters
<1>2. PICK w \in Waiters : wait[w].at # "none" /\ wait[w].job = j
    BY <1>1
<1>3. wait'[w].at \in {"timedout", "released"} /\ wait'[w].job = j
    BY <1>2 DEF TypeOK, Released
<1> QED
    BY <1>3, Zenon DEF Owed

LEMMA ReportNotes ==
    ASSUME TypeOK, NEW k \in Jobs, Report(k)
    PROVE  /\ notice'[k] \in {"pending", "late"}
           /\ \A j \in Jobs \ {k} : notice'[j] = notice[j]
BY DEF TypeOK, Report

LEMMA SettleEnds ==
    ASSUME TypeOK, EndsInv, NEW k \in Jobs, Settle(k), NEW j \in Jobs
    PROVE  EndOf(j)'
<1> DEFINE known == reported[k] \/ waiters(k) > 0
<1>1. EndOf(j) /\ EndOf(k)
    BY DEF EndsInv
<1>2. UNCHANGED <<stored, service, told, torn>>
    BY Zenon DEF Settle, records
<1>3. CASE status[k] \in Terminal
  <2>1. UNCHANGED <<status, reported, wait, notice>>
      BY <1>3, Zenon DEF Settle, records
  <2>2. Owed(j) => Owed(j)'
      BY <2>1, Zenon DEF Owed
  <2> QED
      BY <1>1, <1>2, <2>1, <2>2, EndKept, Zenon
<1>4. CASE status[k] \notin Terminal
  <2>1. /\ status' = [status EXCEPT ![k] = "settled"]
        /\ reported' = [reported EXCEPT ![k] = known]
        /\ wait' = Released(k)
        /\ IF known \/ service # "active" THEN UNCHANGED <<turn, spentWakes, notice>>
           ELSE Report(k)
      BY <1>4, Zenon DEF Settle
  <2>2. \A w \in Waiters : wait[w].at \in {"timedout", "released"} => wait'[w] = wait[w]
      BY <2>1 DEF TypeOK, Released
  <2>3. Owed(j) => Owed(j)'
      BY <2>2, OwedKept, Zenon
  <2>4. CASE j # k
    <3>1. status'[j] = status[j] /\ reported'[j] = reported[j]
        BY <2>1, <2>4, Zenon DEF TypeOK
    <3>2. notice'[j] = notice[j]
        BY <2>1, <2>4, ReportNotes, Zenon
    <3> QED
        BY <1>1, <1>2, <2>3, <3>1, <3>2, EndKept, Zenon
  <2>5. CASE j = k
    <3>1. status'[j] = "settled" /\ (reported'[j] <=> known)
        BY <2>1, <2>5, Zenon DEF TypeOK
    <3>2. notice[j] = "none"
        BY <1>1, <1>4, <2>5 DEF EndOf, Terminal
    <3>3. j \in torn => known /\ notice'[j] = "none"
        BY <1>1, <2>1, <2>5, <3>2, Zenon DEF EndOf
    <3>4. ASSUME j \notin torn
          PROVE  \/ j \in told \/ Owed(j)' \/ notice'[j] # "none" \/ service # "active"
      <4>1. CASE reported[k]
        <5>1. CASE status[k] = "none"
            BY <1>1, <4>1, <5>1, Zenon DEF EndOf
        <5>2. CASE status[k] # "none"
          <6>1. status[k] \in Live
              BY <1>4, <5>2 DEF TypeOK
          <6> QED
              BY <1>1, <2>5, <3>4, <4>1, <6>1, Zenon DEF EndOf
        <5> QED
            BY <5>1, <5>2
      <4>2. CASE waiters(k) > 0
          BY <2>1, <2>5, <4>2, CountedWaitOwes, Zenon
      <4>3. CASE ~ known /\ service = "active"
        <5>1. Report(k)
            BY <2>1, <4>3, Zenon
        <5>2. notice'[j] \in {"pending", "late"}
            BY <2>5, <5>1, ReportNotes, Zenon
        <5> QED
            BY <5>2
      <4> QED
          BY <4>1, <4>2, <4>3, Zenon
    <3>5. Accounted(j)'
        BY <1>2, <3>3, <3>4, Zenon DEF Accounted
    <3>6. j \in torn => reported'[j]
        BY <3>1, <3>3, Zenon
    <3>7. notice'[j] # "none" => status'[j] = "settled" /\ j \notin torn'
        BY <1>2, <3>1, <3>3
    <3>8. status'[j] # "none" /\ status'[j] \notin Live
        BY <3>1 DEF Live
    <3> QED
        BY <1>2, <3>5, <3>6, <3>7, <3>8, Zenon DEF EndOf
  <2> QED
      BY <2>4, <2>5
<1> QED
    BY <1>3, <1>4

-----------------------------------------------------------------------------
(* Teardown, and the turns *)

\* A teardown ends only what it cancelled itself, and it silences that.
LEMMA CancelEnds ==
    ASSUME TypeOK, EndsInv, NEW J \in SUBSET Jobs, NEW thrown, CancelForTeardown(J, thrown),
           service # "active" => service' # "active",
           UNCHANGED <<stored, notice, told>>, NEW j \in Jobs
    PROVE  EndOf(j)'
<1>1. EndOf(j)
    BY DEF EndsInv
<1>2. torn' = torn \cup Active(J) /\ thrown \subseteq Active(J)
    BY DEF CancelForTeardown
<1>3. \A w \in Waiters : wait[w].at \in {"timedout", "released"} => wait'[w] = wait[w]
    BY DEF TypeOK, CancelForTeardown
<1>4. Owed(j) => Owed(j)'
    BY <1>3, OwedKept, Zenon
<1>5. reported'[j] <=> reported[j] \/ j \in Active(J)
    BY Zenon DEF CancelForTeardown
<1>6. CASE j \in Active(J)
  <2>1. status[j] \in Live /\ status'[j] \in {"forced", "stopping"} /\ j \in torn'
      BY <1>2, <1>6 DEF Active, CancelForTeardown
  <2>2. notice[j] = "none"
      BY <1>1, <2>1 DEF EndOf, Live
  <2>3. Accounted(j)'
      BY <2>1, <2>2, Zenon DEF Accounted
  <2>4. status'[j] # "none"
      BY <2>1
  <2> QED
      BY <1>5, <1>6, <2>1, <2>2, <2>3, <2>4, Zenon DEF EndOf
<1>7. CASE j \notin Active(J)
  <2>1. status'[j] = status[j] /\ (j \in torn' <=> j \in torn)
      BY <1>2, <1>7 DEF CancelForTeardown
  <2>2. reported'[j] = reported[j]
    <3>1. reported'[j] = (reported[j] \/ j \in Active(J)) /\ reported[j] \in BOOLEAN
        BY Zenon DEF TypeOK, CancelForTeardown
    <3>2. CASE reported[j]
        BY <3>1, <3>2
    <3>3. CASE ~ reported[j]
        BY <1>7, <3>1, <3>3
    <3> QED
        BY <3>2, <3>3
  <2> QED
      BY <1>1, <1>4, <2>1, <2>2, EndKept, Zenon
<1> QED
    BY <1>6, <1>7

LEMMA DisposeOwnedEnds ==
    ASSUME TypeOK, EndsInv, NEW o \in Owners, DisposeOwned(o), NEW j \in Jobs
    PROVE  EndOf(j)'
<1>1. UNCHANGED <<stored, service, notice, told>>
    BY Zenon DEF DisposeOwned
<1>2. CASE o \in attached
  <2>1. PICK thrown \in SUBSET Active(Owned(o)) : CancelForTeardown(Owned(o), thrown)
      BY <1>2, Zenon DEF DisposeOwned
  <2>2. Owned(o) \in SUBSET Jobs
      BY DEF TypeOK, Owned
  <2> QED
      BY <1>1, <2>1, <2>2, CancelEnds, Zenon
<1>3. CASE o \notin attached
  <2>1. UNCHANGED <<status, reported, wait, torn>>
      BY <1>3, Zenon DEF DisposeOwned
  <2>2. Owed(j) => Owed(j)'
      BY <2>1, Zenon DEF Owed
  <2>3. EndOf(j)
      BY DEF EndsInv
  <2> QED
      BY <1>1, <2>1, <2>2, <2>3, EndKept, Zenon
<1> QED
    BY <1>2, <1>3

LEMMA DisposeAllEnds ==
    ASSUME TypeOK, EndsInv, DisposeAll, NEW j \in Jobs
    PROVE  EndOf(j)'
<1>1. service = "active" /\ UNCHANGED <<stored, notice, told>>
    BY Zenon DEF DisposeAll
<1>2. PICK thrown \in SUBSET Active(stored) : CancelForTeardown(stored, thrown)
    BY Zenon DEF DisposeAll
<1>3. stored \in SUBSET Jobs
    BY DEF TypeOK
<1> QED
    BY <1>1, <1>2, <1>3, CancelEnds, Zenon

\* A store that forgets, an inbox that is claimed or discarded, and a turn
\* that moves on, take back nothing that was said.
LEMMA OtherEnds ==
    ASSUME TypeOK, EndsInv,
           \/ \E o \in Owners : Turns(o) \/ Dispose(o) \/ Unwind(o) \/ OwnedEnded(o)
           \/ AllGone \/ UNCHANGED vars,
           NEW j \in Jobs
    PROVE  EndOf(j)'
<1>1. UNCHANGED <<status, reported, wait, told, torn>>
    BY Zenon DEF Turns, Prompt, Claim, Retire, GoIdle, Dispose, Unwind, OwnedEnded, AllGone,
       vars, records, agents
<1>2. stored' \subseteq stored /\ (service # "active" => service' # "active")
  <2>1. CASE \E o \in Owners : Turns(o) \/ Dispose(o) \/ Unwind(o)
      BY <2>1 DEF Turns, Prompt, Claim, Retire, GoIdle, Dispose, Unwind, records
  <2>2. CASE \E o \in Owners : OwnedEnded(o)
      BY <2>2 DEF OwnedEnded
  <2>3. CASE AllGone
      BY <2>3 DEF AllGone
  <2>4. CASE UNCHANGED vars
      BY <2>4, Zenon DEF vars, records
  <2> QED
      BY <2>1, <2>2, <2>3, <2>4
<1>3. notice'[j] = "none" <=> notice[j] = "none"
  <2>1. CASE \E o \in Owners : Claim(o)
      BY <2>1 DEF TypeOK, Claim, Unclaimed
  <2>2. CASE \E o \in Owners : Dispose(o)
      BY <2>2 DEF TypeOK, Dispose
  <2>3. CASE UNCHANGED notice
      BY <2>3
  <2> QED
      BY <2>1, <2>2, <2>3, Zenon DEF Turns, Prompt, Retire, GoIdle, Unwind, OwnedEnded,
         AllGone, vars, agents
<1>4. Owed(j) => Owed(j)'
    BY <1>1, Zenon DEF Owed
<1>5. EndOf(j)
    BY DEF EndsInv
<1> QED
    BY <1>1, <1>2, <1>3, <1>4, <1>5, EndKept

LEMMA EndsStep == Inv /\ EndsInv /\ [Next]_vars => EndsInv'
<1> SUFFICES ASSUME Inv, EndsInv, [Next]_vars, NEW j \in Jobs
             PROVE  EndOf(j)'
    BY Zenon DEF EndsInv
<1> USE DEF Inv
<1>1. CASE \E k \in Jobs : Calls(k) \/ Settle(k)
    BY <1>1, StartEnds, ReadEnds, KillEnds, WaitEnds, SettleEnds, Zenon DEF Calls
<1>2. CASE \E w \in Waiters : Waits(w)
    BY <1>2, WaitEnds, WaitReturnsEnds, Zenon DEF Waits
<1>3. CASE \E o \in Owners : Turns(o) \/ Teardown(o)
    BY <1>3, OtherEnds, DisposeOwnedEnds, Zenon DEF Teardown
<1>4. CASE DisposeAll \/ AllGone \/ UNCHANGED vars
    BY <1>4, DisposeAllEnds, OtherEnds, Zenon
<1> QED
    BY <1>1, <1>2, <1>3, <1>4, Zenon DEF Next

-----------------------------------------------------------------------------
(* The notices that wait beside an idle agent *)

\* A step that moves no agent and announces nothing.
LEMMA NoticeKept ==
    ASSUME NoticesInv, NEW j \in Jobs, owner' = owner, turn' = turn, life' = life,
           spentWakes' = spentWakes, notice'[j] = "pending" => notice[j] = "pending"
    PROVE  NoticeOf(j)'
BY Zenon DEF NoticesInv, NoticeOf

LEMMA SettleNotices ==
    ASSUME TypeOK, NoticesInv, NEW k \in Jobs, Settle(k), NEW j \in Jobs
    PROVE  NoticeOf(j)'
<1> DEFINE o == owner[k]
<1>1. o \in Owners /\ owner[j] \in Owners
    BY DEF TypeOK
<1>2. owner' = owner /\ life' = life
    BY Zenon DEF Settle, records
<1>3. NoticeOf(j)
    BY DEF NoticesInv
<1>4. CASE UNCHANGED <<turn, spentWakes, notice>>
    BY <1>2, <1>4, NoticeKept
<1>5. CASE Report(k) /\ Wakes(o)
  <2>1. turn' = [turn EXCEPT ![o] = "running"]
      BY <1>5, Zenon DEF Report
  <2>2. CASE owner[j] = o
      BY <1>1, <1>2, <2>1, <2>2 DEF TypeOK, NoticeOf
  <2>3. CASE owner[j] # o
    <3>1. turn'[owner[j]] = turn[owner[j]]
        BY <1>1, <2>1, <2>3 DEF TypeOK
    <3>2. spentWakes'[owner[j]] = spentWakes[owner[j]]
      <4>1. spentWakes' = [spentWakes EXCEPT ![o] = @ + 1]
          BY <1>5, Zenon DEF Report
      <4> QED
          BY <1>1, <2>3, <4>1, Zenon DEF TypeOK
    <3>3. notice'[j] = notice[j]
        BY <1>5, <2>3, ReportNotes, Zenon
    <3> QED
        BY <1>2, <1>3, <3>1, <3>2, <3>3, Zenon DEF NoticeOf
  <2> QED
      BY <2>2, <2>3
<1>6. CASE Report(k) /\ ~ Wakes(o)
  <2>1. /\ turn' = turn /\ spentWakes' = spentWakes
        /\ notice' = [notice EXCEPT ![k] = IF turn[o] = "retiring" THEN "late" ELSE "pending"]
      BY <1>6, Zenon DEF Report
  <2>2. CASE j # k
    <3>1. notice'[j] = notice[j]
        BY <2>1, <2>2, Zenon DEF TypeOK
    <3> QED
        BY <1>2, <2>1, <3>1, NoticeKept
  <2>3. CASE j = k
    <3>1. turn[o] = "idle" => spentWakes[o] = wakeBudget
      <4>1. spentWakes[o] \in 0 .. wakeBudget
          BY <1>1 DEF TypeOK
      <4>2. turn[o] = "idle" => ~ (spentWakes[o] < wakeBudget)
          BY <1>6, Zenon DEF Wakes
      <4> HIDE DEF o
      <4> QED
          BY <4>1, <4>2, Assumptions
    <3>2. turn[o] = "retiring" => notice'[j] # "pending"
        BY <2>1, <2>3 DEF TypeOK
    <3> QED
        BY <1>2, <2>1, <2>3, <3>1, <3>2, Zenon DEF NoticeOf
  <2> QED
      BY <2>2, <2>3
<1> QED
    BY <1>4, <1>5, <1>6, Zenon DEF Settle

LEMMA TurnNotices ==
    ASSUME TypeOK, NoticesInv, NEW o \in Owners, Turns(o) \/ Dispose(o) \/ Unwind(o),
           NEW j \in Jobs
    PROVE  NoticeOf(j)'
<1>1. NoticeOf(j) /\ owner[j] \in Owners /\ owner' = owner
    BY Zenon DEF NoticesInv, TypeOK, Turns, Prompt, Claim, Retire, GoIdle, Dispose, Unwind,
       records
<1>2. CASE Prompt(o)
  <2>1. /\ turn' = [turn EXCEPT ![o] = "running"] /\ UNCHANGED <<life, notice>>
        /\ \E spent \in {0, spentWakes[o]} : spentWakes' = [spentWakes EXCEPT ![o] = spent]
      BY <1>2, Zenon DEF Prompt
  <2>2. CASE owner[j] = o
      BY <1>1, <2>1, <2>2 DEF TypeOK, NoticeOf
  <2>3. CASE owner[j] # o
    <3>1. turn'[owner[j]] = turn[owner[j]] /\ spentWakes'[owner[j]] = spentWakes[owner[j]]
        BY <1>1, <2>1, <2>3 DEF TypeOK
    <3> QED
        BY <1>1, <2>1, <3>1, Zenon DEF NoticeOf
  <2> QED
      BY <2>2, <2>3
<1>3. CASE Claim(o)
    BY <1>1, <1>3, NoticeKept DEF Claim, agents
<1>4. CASE Retire(o)
  <2>1. /\ turn' = [turn EXCEPT ![o] = "retiring"] /\ UNCHANGED <<life, notice, spentWakes>>
        /\ life[o] = "live" => Unclaimed(o) = {}
      BY <1>4, Zenon DEF Retire
  <2>2. CASE owner[j] = o
    <3>1. life[o] = "live" => notice[j] # "pending"
        BY <2>1, <2>2 DEF Unclaimed
    <3> QED
        BY <1>1, <2>1, <2>2, <3>1, Zenon DEF NoticeOf
  <2>3. CASE owner[j] # o
    <3>1. turn'[owner[j]] = turn[owner[j]]
        BY <1>1, <2>1, <2>3 DEF TypeOK
    <3> QED
        BY <1>1, <2>1, <3>1, Zenon DEF NoticeOf
  <2> QED
      BY <2>2, <2>3
<1>5. CASE GoIdle(o)
  <2>1. /\ turn[o] = "retiring" /\ turn' = [turn EXCEPT ![o] = "idle"]
        /\ UNCHANGED <<life, notice, spentWakes>>
      BY <1>5, Zenon DEF GoIdle
  <2>2. CASE owner[j] = o
      BY <1>1, <2>1, <2>2, Zenon DEF NoticeOf
  <2>3. CASE owner[j] # o
    <3>1. turn'[owner[j]] = turn[owner[j]]
        BY <1>1, <2>1, <2>3 DEF TypeOK
    <3> QED
        BY <1>1, <2>1, <3>1, Zenon DEF NoticeOf
  <2> QED
      BY <2>2, <2>3
<1>6. CASE Dispose(o) \/ Unwind(o)
  <2>1. /\ UNCHANGED <<turn, spentWakes>>
        /\ notice'[j] = "pending" => notice[j] = "pending"
        /\ life'[owner[j]] = "live" => life[owner[j]] = "live"
      BY <1>1, <1>6 DEF TypeOK, Dispose, Unwind
  <2> QED
      BY <1>1, <2>1, Zenon DEF NoticeOf
<1> QED
    BY <1>2, <1>3, <1>4, <1>5, <1>6, Zenon DEF Turns

LEMMA NoticesStep == Inv /\ NoticesInv /\ [Next]_vars => NoticesInv'
<1> SUFFICES ASSUME Inv, NoticesInv, [Next]_vars, NEW j \in Jobs
             PROVE  NoticeOf(j)'
    BY Zenon DEF NoticesInv
<1>1. CASE \/ \E k \in Jobs : Calls(k)
           \/ \E w \in Waiters : Waits(w)
           \/ DisposeAll \/ AllGone \/ UNCHANGED vars
  <2>1. UNCHANGED <<owner, turn, life, spentWakes, notice>>
      BY <1>1, Zenon DEF Calls, Start, Read, Kill, Wait, Waits, TimeOut, AbortWait,
         WaitReturns, DisposeAll, AllGone, vars, records, agents
  <2> QED
      BY <2>1, NoticeKept
<1>2. CASE \E k \in Jobs : Settle(k)
    BY <1>2, SettleNotices, Zenon DEF Inv
<1>3. CASE \E o \in Owners : Turns(o) \/ Dispose(o) \/ Unwind(o)
    BY <1>3, TurnNotices, Zenon DEF Inv
<1>4. CASE \E o \in Owners : DisposeOwned(o) \/ OwnedEnded(o)
  <2>1. /\ UNCHANGED <<owner, turn, spentWakes, notice>>
        /\ \A o \in Owners : life'[o] = "live" => life[o] = "live"
      BY <1>4 DEF Inv, TypeOK, DisposeOwned, OwnedEnded
  <2>2. owner[j] \in Owners /\ NoticeOf(j)
      BY DEF Inv, TypeOK, NoticesInv
  <2> QED
      BY <2>1, <2>2, Zenon DEF NoticeOf
<1> QED
    BY <1>1, <1>2, <1>3, <1>4, Zenon DEF Next, Teardown

-----------------------------------------------------------------------------
(* The theorem *)

LEMMA EndsInit == Init => EndsInv /\ NoticesInv
BY DEF Init, EndsInv, EndOf, NoticesInv, NoticeOf, Live, Terminal

LEMMA EndsCount == EndsInv /\ NoticesInv => NoEndIsLost
BY Zenon DEF EndsInv, EndOf, NoticesInv, NoticeOf, NoEndIsLost, Stranded

\* settle(), the reporter, wait(), read() and cancelForTeardown(): the end of
\* a job is answered, about to be answered, announced, or brought about by a
\* teardown, and a notice stays beside an idle live agent only when its budget
\* of wakes is spent.
THEOREM EndsAreAccounted == Spec => []NoEndIsLost
<1>1. Inv /\ EndsInv /\ NoticesInv /\ [Next]_vars => (EndsInv /\ NoticesInv)'
    BY EndsStep, NoticesStep
<1> QED
    BY <1>1, EndsInit, EndsCount, Invariance, PTL DEF Spec

=============================================================================
