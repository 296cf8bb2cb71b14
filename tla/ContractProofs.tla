--------------------------- MODULE ContractProofs ---------------------------
(***************************************************************************)
(* What the runtime owes a host: the proof that LuaRuntime implements      *)
(* TaskContract for any number of threads, handles and submissions, as     *)
(* long as scripts leave the threads of the pool alone; and two facts that *)
(* hold whatever scripts do, about the queue and the timers' callbacks.    *)
(***************************************************************************)
EXTENDS LuaRuntimeProofs

-----------------------------------------------------------------------------
(* The queue: what a step does to the jobs whose order or number matters   *)

OrderedKinds == {"task", "pass", "clear"}

\* Every such job was there before, k places further back, and none is lost
\* but the first k.
Shifted(q2, q1, k) ==
  /\ \A i \in DOMAIN q2 : q2[i].kind \in OrderedKinds =>
       i + k \in DOMAIN q1 /\ q2[i] = q1[i + k]
  /\ \A i \in DOMAIN q1 : q1[i].kind \in OrderedKinds /\ i > k =>
       i - k \in DOMAIN q2 /\ q2[i - k] = q1[i]

LEMMA ShiftedByAppend ==
  ASSUME NEW q \in Seq(Job), NEW kind, NEW arg, kind \notin OrderedKinds
  PROVE  Shifted(Enqueued(q, kind, arg), q, 0)
<1> DEFINE job == [kind |-> kind, arg |-> arg]
<1>1. /\ Len(q) \in Nat /\ DOMAIN q = 1..Len(q)
      /\ DOMAIN Append(q, job) = 1..(Len(q) + 1)
      /\ \A i \in 1..Len(q) : Append(q, job)[i] = q[i]
      /\ Append(q, job)[Len(q) + 1] = job
  OBVIOUS
<1>2. job.kind \notin OrderedKinds
  OBVIOUS
<1> HIDE DEF job
<1>3. \A i \in 1..Len(q) : i + 0 = i /\ i - 0 = i
  BY <1>1
<1> QED BY <1>1, <1>2, <1>3 DEF Shifted, Enqueued, job

LEMMA ShiftedSelf ==
  ASSUME NEW q \in Seq(Job)
  PROVE  Shifted(q, q, 0)
<1>1. \A i \in DOMAIN q : i + 0 = i /\ i - 0 = i
  BY LenProperties
<1> QED BY <1>1 DEF Shifted

LEMMA ShiftedByPush ==
  ASSUME NEW q \in Seq(Job), NEW h
  PROVE  Shifted(PushResume(q, h), q, 0)
<1> QED BY ShiftedSelf, ShiftedByAppend DEF PushResume, OrderedKinds

LEMMA ShiftedByTail ==
  ASSUME NEW q \in Seq(Job), q # <<>>
  PROVE  Shifted(Tail(q), q, 1)
<1>1. /\ Len(q) \in Nat \ {0} /\ DOMAIN q = 1..Len(q)
      /\ DOMAIN Tail(q) = 1..(Len(q) - 1)
      /\ \A i \in 1..(Len(q) - 1) : Tail(q)[i] = q[i + 1]
  BY EmptySeq, HeadTailProperties
<1> QED BY <1>1 DEF Shifted

LEMMA ShiftedTwice ==
  ASSUME NEW q1 \in Seq(Job), NEW q2 \in Seq(Job), NEW q3 \in Seq(Job), NEW k \in Nat,
         Shifted(q3, q2, 0), Shifted(q2, q1, k)
  PROVE  Shifted(q3, q1, k)
<1>1. /\ \A i \in DOMAIN q3 : i \in Nat /\ i + 0 = i
      /\ \A i \in DOMAIN q2 : i \in Nat /\ i > 0 /\ i - 0 = i
  BY LenProperties
<1>2. ASSUME NEW i \in DOMAIN q3, q3[i].kind \in OrderedKinds
      PROVE  i + k \in DOMAIN q1 /\ q3[i] = q1[i + k]
  <2>1. i + 0 \in DOMAIN q2 /\ q3[i] = q2[i + 0]
    BY <1>2 DEF Shifted
  <2> QED BY <1>1, <1>2, <2>1 DEF Shifted
<1>3. ASSUME NEW i \in DOMAIN q1, q1[i].kind \in OrderedKinds, i > k
      PROVE  i - k \in DOMAIN q3 /\ q3[i - k] = q1[i]
  <2>1. i - k \in DOMAIN q2 /\ q2[i - k] = q1[i]
    BY <1>3 DEF Shifted
  <2>2. (i - k) - 0 \in DOMAIN q3 /\ q3[(i - k) - 0] = q2[i - k]
    BY <1>1, <1>3, <2>1 DEF Shifted
  <2> QED BY <1>1, <2>1, <2>2
<1> QED BY <1>2, <1>3 DEF Shifted

\* Settling all handlers adds nothing but resumes.
LEMMA ShiftedBySettleAll ==
  ASSUME TypeOK, NEW q \in Seq(Job), NEW outcome, SettleAll(q, outcome)
  PROVE  Shifted(queue', q, 0)
<1> DEFINE handlers == {completions[co] : co \in Co} \ {None}
<1>1. PICK order \in SetToSeqs(handlers \cap Handle) :
        queue' = IF outcome = "shutdown" THEN q
                 ELSE q \o [i \in DOMAIN order |-> [kind |-> "resume", arg |-> order[i]]]
  BY DEF SettleAll
<1>2. IsFiniteSet(handlers \cap Handle)
  <2>1. IsFiniteSet(Handle)
    BY MaxHandleIsNat, FS_Interval DEF Handle
  <2>2. handlers \cap Handle \in SUBSET Handle
    OBVIOUS
  <2> QED BY <2>1, <2>2, FS_Subset
<1> HIDE DEF handlers
<1>3. order \in Seq(handlers \cap Handle)
  BY <1>2, OrderIsSeq
<1>4. Len(order) \in Nat /\ DOMAIN order = 1..Len(order)
  BY <1>3
<1> DEFINE resumes == [i \in DOMAIN order |-> [kind |-> "resume", arg |-> order[i]]]
<1>5. \A i \in 1..Len(order) : [kind |-> "resume", arg |-> order[i]] \in Job
  BY <1>3, ElementOfSeq DEF Job
<1>6. /\ resumes \in Seq(Job) /\ Len(resumes) = Len(order)
      /\ \A i \in 1..Len(order) : resumes[i].kind = "resume"
  BY <1>4, <1>5
<1> HIDE DEF resumes
<1>7. /\ Len(q) \in Nat /\ DOMAIN q = 1..Len(q)
      /\ DOMAIN (q \o resumes) = 1..(Len(q) + Len(order))
      /\ \A i \in 1..(Len(q) + Len(order)) :
           (q \o resumes)[i] = IF i <= Len(q) THEN q[i] ELSE resumes[i - Len(q)]
  <2>1. /\ Len(q) \in Nat /\ DOMAIN q = 1..Len(q)
        /\ (q \o resumes) \in Seq(Job) /\ Len(q \o resumes) = Len(q) + Len(order)
        /\ \A i \in 1..(Len(q) + Len(order)) :
             (q \o resumes)[i] = IF i <= Len(q) THEN q[i] ELSE resumes[i - Len(q)]
    <3>1. Len(q) \in Nat /\ DOMAIN q = 1..Len(q)
      BY LenProperties, Zenon
    <3>2. resumes \in Seq(Job)
      BY <1>6, Zenon
    <3>3. /\ (q \o resumes) \in Seq(Job) /\ Len(q \o resumes) = Len(q) + Len(resumes)
          /\ \A i \in 1..(Len(q) + Len(resumes)) :
               (q \o resumes)[i] = IF i <= Len(q) THEN q[i] ELSE resumes[i - Len(q)]
      BY <3>2, ConcatProperties, Zenon
    <3>4. Len(resumes) = Len(order)
      BY <1>6, Zenon
    <3> QED BY <3>1, <3>3, <3>4, Zenon
  <2>2. DOMAIN (q \o resumes) = 1..(Len(q) + Len(order))
    BY <2>1, LenProperties
  <2> QED BY <2>1, <2>2
<1>8. ASSUME NEW i \in DOMAIN (q \o resumes), (q \o resumes)[i].kind \in OrderedKinds
      PROVE  i + 0 \in DOMAIN q /\ (q \o resumes)[i] = q[i + 0]
  <2>1. i <= Len(q)
    BY <1>4, <1>6, <1>7, <1>8 DEF OrderedKinds
  <2> QED BY <1>4, <1>7, <2>1
<1>9. ASSUME NEW i \in DOMAIN q
      PROVE  i - 0 \in DOMAIN (q \o resumes) /\ (q \o resumes)[i - 0] = q[i]
  BY <1>4, <1>7, <1>9
<1>10. Shifted(q, q, 0)
  BY ShiftedSelf
<1> QED BY <1>1, <1>8, <1>9, <1>10 DEF Shifted, resumes

\* The executor takes the first job.
LEMMA JobsShift ==
  ASSUME TypeOK, TypeOK', RunJob
  PROVE  queue # <<>> /\ Shifted(queue', queue, 1)
<1>1. /\ Idle /\ queue # <<>> /\ queue \in Seq(Job) /\ queue' \in Seq(Job)
      /\ Tail(queue) \in Seq(Job) /\ Shifted(Tail(queue), queue, 1)
  BY ShiftedByTail, HeadTailProperties DEF RunJob, RunTask, RunResume, RunTimer, RunRequire, RunLoadFile,
     InterruptPass, ClearInterrupt, At, TypeOK
<1>2. ASSUME queue' = Tail(queue) \/ \E h : queue' = PushResume(Tail(queue), h)
      PROVE  Shifted(queue', queue, 1)
  <2>1. CASE queue' = Tail(queue)
    BY <1>1, <2>1
  <2>2. ASSUME NEW h, queue' = PushResume(Tail(queue), h) PROVE Shifted(queue', queue, 1)
    <3>1. Shifted(queue', Tail(queue), 0)
      BY <1>1, <2>2, ShiftedByPush
    <3> QED BY <1>1, <3>1, ShiftedTwice
  <2> QED BY <1>2, <2>1, <2>2
<1>3. CASE SettleAll(Tail(queue), "interrupted")
  BY <1>1, <1>3, ShiftedBySettleAll, ShiftedTwice
<1> QED BY <1>1, <1>2, <1>3 DEF RunJob, RunTask, RunResume, RunTimer, RunRequire, RunLoadFile,
        InterruptPass, ClearInterrupt

\* The steps that may add a job that matters.
AddsJob == ThreadStep \/ AskClearInterrupt

LEMMA OthersShift ==
  ASSUME TypeOK, [Next]_vars, ~RunJob, ~AddsJob
  PROVE  Shifted(queue', queue, 0)
<1>1. queue \in Seq(Job)
  BY DEF TypeOK
<1>2. Shifted(queue, queue, 0)
  BY <1>1, ShiftedSelf
<1>3. ASSUME queue' = queue \/ \E h : queue' = PushResume(queue, h)
      PROVE  Shifted(queue', queue, 0)
  BY <1>1, <1>2, <1>3, ShiftedByPush
<1>4. CASE HostStep
  <2>1. CASE SettleAll(queue, "shutdown")
    BY <1>1, <2>1, ShiftedBySettleAll
  <2> QED BY <1>3, <1>4, <2>1 DEF AddsJob, HostStep, PushTask, CallAsync, CancelCall, Interrupt,
          PauseOrResume, BeginShutdown, TakeUnhandledError, Destroy, jobVars
<1>5. CASE IOStep
  <2>1. ASSUME NEW h \in Handle, Complete(h) PROVE Shifted(queue', queue, 0)
    BY <1>3, <2>1 DEF Complete
  <2>2. ASSUME NEW h \in Handle, DelayEnds(h) PROVE Shifted(queue', queue, 0)
    BY <1>1, <2>2, ShiftedByAppend DEF DelayEnds, OrderedKinds
  <2> QED BY <1>5, <2>1, <2>2 DEF IOStep
<1>6. CASE ScriptStep
  <2>1. ASSUME NEW p, NEW handler, NEW outcome, Tell(p, queue, handler, outcome)
        PROVE  Shifted(queue', queue, 0)
    BY <1>3, <2>1 DEF Tell
  <2> QED BY <1>3, <1>6, <2>1 DEF ScriptStep, Park, ParkFails, HookYield, YieldPlain, SetTimeout,
          ClearTimeout, ResumeByHand, CloseByHand, End, EndNested, EndRequire, EndRecycled, EndCall,
          jobVars
<1> QED BY <1>3, <1>4, <1>5, <1>6 DEF Next, AddsJob, Collect, vars, jobVars

\* A job is its kind and its argument.
LEMMA JobParts ==
  ASSUME NEW j \in Job
  PROVE  /\ j = [kind |-> j.kind, arg |-> j.arg]
         /\ j = PassJob <=> j.kind = "pass"
         /\ j.kind = "clear" <=> j = [kind |-> "clear", arg |-> None]
         /\ j.kind = "task" <=> j.arg \in Pushed /\ j = [kind |-> "task", arg |-> j.arg]
BY DEF Job, PassJob

\* What the entries of a queue are after one job more.
LEMMA Appended ==
  ASSUME NEW q \in Seq(Job), NEW kind, NEW arg
  PROVE  /\ Len(q) \in Nat /\ DOMAIN q = 1..Len(q)
         /\ DOMAIN Enqueued(q, kind, arg) = 1..(Len(q) + 1)
         /\ \A i \in 1..Len(q) : Enqueued(q, kind, arg)[i] = q[i]
         /\ Enqueued(q, kind, arg)[Len(q) + 1] = [kind |-> kind, arg |-> arg]
<1> DEFINE job == [kind |-> kind, arg |-> arg]
<1> HIDE DEF job
<1>1. /\ Len(q) \in Nat /\ DOMAIN q = 1..Len(q)
      /\ DOMAIN Append(q, job) = 1..(Len(q) + 1)
      /\ \A i \in 1..Len(q) : Append(q, job)[i] = q[i]
      /\ Append(q, job)[Len(q) + 1] = job
  OBVIOUS
<1> QED BY <1>1 DEF Enqueued, job

LEMMA AppendedEntries ==
  ASSUME NEW q \in Seq(Job), NEW q2, NEW kind, NEW arg, q2 = Enqueued(q, kind, arg)
  PROVE  \A i \in DOMAIN q2 :
           /\ i <= Len(q) + 1
           /\ (i \in DOMAIN q /\ q2[i] = q[i]) \/ (i = Len(q) + 1 /\ q2[i].kind = kind)
<1>1. /\ Len(q) \in Nat /\ DOMAIN q = 1..Len(q) /\ DOMAIN q2 = 1..(Len(q) + 1)
      /\ \A i \in 1..Len(q) : q2[i] = q[i]
      /\ q2[Len(q) + 1] = [kind |-> kind, arg |-> arg]
  BY Appended
<1>2. q2[Len(q) + 1].kind = kind
  BY <1>1
<1>3. \A i \in DOMAIN q2 : i <= Len(q) + 1 /\ (i \in DOMAIN q \/ i = Len(q) + 1)
  BY <1>1
<1>4. ASSUME NEW i \in DOMAIN q2
      PROVE  /\ i <= Len(q) + 1
             /\ (i \in DOMAIN q /\ q2[i] = q[i]) \/ (i = Len(q) + 1 /\ q2[i].kind = kind)
  <2>1. CASE i \in DOMAIN q
    BY <1>1, <1>3, <2>1
  <2>2. CASE i = Len(q) + 1
    <3>1. q2[i].kind = kind
      BY <1>2, <2>2, Zenon
    <3> QED BY <1>3, <1>4, <2>2, <3>1, Zenon
  <2> QED BY <1>3, <2>1, <2>2
<1> QED BY <1>4, Zenon

LEMMA ScheduledJob ==
  ASSUME TypeOK, NEW j \in Job, Schedule(j)
  PROVE  /\ queue' = Enqueued(queue, j.kind, j.arg)
         /\ j \in posting /\ posting' = posting \ {j}
BY JobParts DEF Schedule, Enqueued

-----------------------------------------------------------------------------
(* How many passes are to come                                             *)

Passes(q) == {i \in DOMAIN q : q[i] = PassJob}
PassCount(q) == Cardinality(Passes(q))

LEMMA PassesFinite ==
  ASSUME NEW q \in Seq(Job)
  PROVE  IsFiniteSet(Passes(q)) /\ PassCount(q) \in Nat
<1>1. DOMAIN q = 1..Len(q) /\ Len(q) \in Nat
  BY LenProperties
<1>2. IsFiniteSet(1..Len(q))
  BY <1>1, FS_Interval
<1>3. Passes(q) \in SUBSET (1..Len(q))
  BY <1>1 DEF Passes
<1> QED BY <1>2, <1>3, FS_Subset, FS_CardinalityType DEF PassCount

\* A shift by one loses the pass at the head, any other shift none.
LEMMA CountByShift ==
  ASSUME NEW q1 \in Seq(Job), NEW q2 \in Seq(Job), NEW k \in {0, 1}, Shifted(q2, q1, k)
  PROVE  PassCount(q2) = IF k = 1 /\ 1 \in Passes(q1) THEN PassCount(q1) - 1 ELSE PassCount(q1)
<1>1. /\ \A i \in DOMAIN q1 : i \in Nat /\ i >= 1
      /\ \A i \in DOMAIN q2 : i \in Nat /\ i >= 1
  BY LenProperties
<1>2. PassJob.kind \in OrderedKinds
  BY DEF PassJob, OrderedKinds
<1> DEFINE kept == {i \in Passes(q1) : i > k}
           f == [i \in Passes(q2) |-> i + k]
<1>3. \A i \in Passes(q2) : i + k \in kept
  BY <1>1, <1>2 DEF Passes, Shifted
<1>4. \A i \in kept : i - k \in Passes(q2) /\ (i - k) + k = i
  BY <1>1, <1>2 DEF Passes, Shifted
<1>5. \A i, j \in Passes(q2) : i + k = j + k => i = j
  BY <1>1 DEF Passes
<1>6. f \in Bijection(Passes(q2), kept)
  BY <1>3, <1>4, <1>5 DEF Bijection, Injection, Surjection, IsInjective
<1>7. ExistsBijection(Passes(q2), kept)
  BY <1>6 DEF ExistsBijection
<1>8. Cardinality(kept) = PassCount(q2)
  BY <1>7, PassesFinite, FS_Bijection DEF PassCount
<1>9. kept = IF k = 1 THEN Passes(q1) \ {1} ELSE Passes(q1)
  BY <1>1 DEF Passes
<1>10. Cardinality(Passes(q1) \ {1}) = IF 1 \in Passes(q1) THEN PassCount(q1) - 1 ELSE PassCount(q1)
  BY PassesFinite, FS_RemoveElement DEF PassCount
<1> HIDE DEF kept
<1>11. CASE k = 1
  BY <1>8, <1>9, <1>10, <1>11
<1>12. CASE k = 0
  BY <1>8, <1>9, <1>12 DEF PassCount
<1> QED BY <1>11, <1>12

LEMMA CountByAppend ==
  ASSUME NEW q \in Seq(Job), NEW j \in Job
  PROVE  PassCount(Append(q, j)) = IF j = PassJob THEN PassCount(q) + 1 ELSE PassCount(q)
<1>1. /\ Len(q) \in Nat /\ DOMAIN q = 1..Len(q)
      /\ DOMAIN Append(q, j) = 1..(Len(q) + 1)
      /\ \A i \in 1..Len(q) : Append(q, j)[i] = q[i]
      /\ Append(q, j)[Len(q) + 1] = j
  OBVIOUS
<1>2. CASE j = PassJob
  <2>1. Passes(Append(q, j)) = Passes(q) \cup {Len(q) + 1} /\ Len(q) + 1 \notin Passes(q)
    BY <1>1, <1>2 DEF Passes
  <2> QED BY <1>2, <2>1, PassesFinite, FS_AddElement DEF PassCount
<1>3. CASE j # PassJob
  <2>1. Passes(Append(q, j)) = Passes(q)
    BY <1>1, <1>3 DEF Passes
  <2> QED BY <1>3, <2>1 DEF PassCount
<1> QED BY <1>2, <1>3

\* What is in the queue, and the one an interrupting thread has yet to schedule.
LEMMA DueParts == PassesDue = PassCount(queue) + (IF PassJob \in posting THEN 1 ELSE 0)
BY DEF PassesDue, PassCount, Passes

\* Scheduling a pass, or another job, changes nothing.
LEMMA DueByThread ==
  ASSUME TypeOK, ThreadStep
  PROVE  PassesDue' = PassesDue
<1>1. PICK j \in Job : Schedule(j)
  BY DEF ThreadStep, Posted
<1>2. /\ queue \in Seq(Job) /\ queue' = Append(queue, j)
      /\ j \in posting /\ posting' = posting \ {j}
  BY <1>1 DEF Schedule, TypeOK
<1>3. PassCount(queue)' = IF j = PassJob THEN PassCount(queue) + 1 ELSE PassCount(queue)
  BY <1>2, CountByAppend DEF PassCount, Passes
<1>4. PassesDue' = PassCount(queue)' + (IF PassJob \in posting' THEN 1 ELSE 0)
  BY DEF PassesDue, PassCount, Passes
<1> QED BY <1>2, <1>3, <1>4, DueParts, PassesFinite

\* So does every step that neither interrupts nor takes a job.
LEMMA DueKept ==
  ASSUME TypeOK, TypeOK', Shifted(queue', queue, 0), PassJob \in posting' <=> PassJob \in posting
  PROVE  PassesDue' = PassesDue
<1>1. queue \in Seq(Job) /\ queue' \in Seq(Job)
  BY DEF TypeOK
<1>2. PassCount(queue') = PassCount(queue)
  BY <1>1, CountByShift
<1>3. PassesDue' = PassCount(queue') + (IF PassJob \in posting' THEN 1 ELSE 0)
  BY DEF PassesDue, PassCount, Passes
<1> QED BY <1>2, <1>3, DueParts

LEMMA DueByInterrupt ==
  ASSUME TypeOK, Interrupt
  PROVE  PassesDue' = PassesDue + 1
<1>1. queue' = queue /\ PassJob \notin posting /\ PassJob \in posting' /\ queue \in Seq(Job)
  BY DEF Interrupt, TypeOK
<1>2. PassesDue' = PassCount(queue) + 1 /\ PassesDue = PassCount(queue) + 0
  BY <1>1 DEF PassesDue, PassCount, Passes
<1> QED BY <1>1, <1>2, PassesFinite

LEMMA DueByHost ==
  ASSUME TypeOK, TypeOK', HostStep
  PROVE  Interrupt \/ PassesDue' = PassesDue
<1>1. queue \in Seq(Job) /\ Shifted(queue, queue, 0)
  BY ShiftedSelf DEF TypeOK
<1>2. ASSUME UNCHANGED jobVars PROVE PassesDue' = PassesDue
  BY <1>2 DEF jobVars, PassesDue
<1>3. ASSUME NEW t \in Pushed, PushTask(t) PROVE PassesDue' = PassesDue
  <2>1. queue' = queue /\ (PassJob \in posting' <=> PassJob \in posting)
    BY <1>3 DEF PushTask, PassJob
  <2> QED BY <1>1, <2>1, DueKept
<1>5. CASE AskClearInterrupt
  <2>1. /\ queue' = Append(queue, [kind |-> "clear", arg |-> None]) /\ posting' = posting
        /\ [kind |-> "clear", arg |-> None] \in Job \ {PassJob}
    BY <1>5 DEF AskClearInterrupt, Enqueued, Job, PassJob
  <2>2. PassCount(queue') = PassCount(queue)
    BY <1>1, <2>1, CountByAppend
  <2> QED BY <2>1, <2>2 DEF PassesDue, PassCount, Passes
<1>6. CASE Destroy
  <2>1. Shifted(queue', queue, 0) /\ posting' = posting
    BY <1>1, <1>6, ShiftedBySettleAll DEF Destroy
  <2> QED BY <2>1, DueKept
<1> QED BY <1>2, <1>3, <1>5, <1>6 DEF HostStep, CallAsync, CancelCall, PauseOrResume,
        BeginShutdown, TakeUnhandledError

\* A job leaves the others; the pass is one less.
LEMMA DueByJob ==
  ASSUME TypeOK, TypeOK', RunJob
  PROVE  IF At("pass") THEN PassesDue > 0 /\ PassesDue' = PassesDue - 1
                       ELSE PassesDue' = PassesDue
<1>1. /\ queue \in Seq(Job) /\ queue' \in Seq(Job) /\ queue # <<>> /\ Shifted(queue', queue, 1)
      /\ posting' = posting /\ Idle
  BY JobsShift DEF TypeOK, RunJob, RunTask, RunResume, RunTimer, RunRequire, RunLoadFile,
     InterruptPass, ClearInterrupt, At
<1>2. 1 \in DOMAIN queue /\ queue[1] \in Job /\ Head(queue) = queue[1]
  BY <1>1, EmptySeq, LenProperties, ElementOfSeq
<1>3. 1 \in Passes(queue) <=> At("pass")
  BY <1>1, <1>2, JobParts DEF Passes, At
<1>4. PassCount(queue') = IF At("pass") THEN PassCount(queue) - 1 ELSE PassCount(queue)
  BY <1>1, <1>3, CountByShift
<1>5. PassesDue' = PassCount(queue') + (IF PassJob \in posting THEN 1 ELSE 0)
  BY <1>1 DEF PassesDue, PassCount, Passes
<1>6. At("pass") => PassCount(queue) > 0
  <2>1. Passes(queue) # {} => PassCount(queue) # 0
    BY <1>1, PassesFinite, FS_EmptySet DEF PassCount
  <2> QED BY <1>1, <1>3, <2>1, PassesFinite
<1> QED BY <1>1, <1>4, <1>5, <1>6, DueParts, PassesFinite

LEMMA DueByOthers ==
  ASSUME TypeOK, TypeOK', IOStep \/ ScriptStep
  PROVE  PassesDue' = PassesDue
<1>1. queue \in Seq(Job) /\ Shifted(queue, queue, 0)
  BY ShiftedSelf DEF TypeOK
<1>2. ASSUME queue' = queue \/ \E h : queue' = PushResume(queue, h)
      PROVE  Shifted(queue', queue, 0)
  BY <1>1, <1>2, ShiftedByPush
<1>3. CASE IOStep
  <2>1. PassJob \in posting' <=> PassJob \in posting
    BY <1>3 DEF IOStep, Complete, DelayEnds, PassJob
  <2>2. ASSUME NEW h \in Handle, DelayEnds(h) PROVE Shifted(queue', queue, 0)
    BY <1>1, <2>2, ShiftedByAppend DEF DelayEnds, OrderedKinds
  <2>3. Shifted(queue', queue, 0)
    BY <1>2, <1>3, <2>2 DEF IOStep, Complete
  <2> QED BY <2>1, <2>3, DueKept
<1>4. CASE ScriptStep
  <2>1. posting' = posting /\ (queue' = queue \/ \E h : queue' = PushResume(queue, h))
    BY <1>4 DEF ScriptStep, Park, ParkFails, HookYield, YieldPlain, SetTimeout, ClearTimeout,
       ResumeByHand, CloseByHand, End, EndNested, EndRequire, EndRecycled, EndCall, Tell, jobVars
  <2> QED BY <1>2, <2>1, DueKept
<1> QED BY <1>3, <1>4

-----------------------------------------------------------------------------
(* The completion pass and the flag                                        *)

\* A pass or a clear is on its way only while the flag is up, and no pass is
\* behind a clear: each flag is taken down after its own pass.
PassFirst ==
  /\ \A i \in DOMAIN queue : queue[i].kind \in {"pass", "clear"} => interrupted
  /\ \A i, j \in DOMAIN queue :
       queue[i].kind \in {"pass", "clear"} /\ queue[j].kind = "clear" => i <= j
  /\ PassJob \in posting => interrupted /\ \A i \in DOMAIN queue : queue[i].kind # "clear"

LEMMA PassFirstShift ==
  ASSUME queue' \in Seq(Job), PassFirst, NEW k \in Nat, Shifted(queue', queue, k),
         interrupted' = interrupted, PassJob \in posting' => PassJob \in posting
  PROVE  PassFirst'
<1>1. \A i \in DOMAIN queue' : i \in Nat
  BY LenProperties
<1>2. \A i \in DOMAIN queue' : queue'[i].kind \in {"pass", "clear"} =>
        i + k \in DOMAIN queue /\ queue'[i] = queue[i + k]
  BY DEF Shifted, OrderedKinds
<1> QED BY <1>1, <1>2 DEF PassFirst

\* The steps that leave the flag and the interrupting thread alone.
LEMMA GateStep ==
  ASSUME [Next]_vars, ~RunJob, ~AddsJob, ~Interrupt
  PROVE  interrupted' = interrupted /\ (PassJob \in posting' => PassJob \in posting)
<1>1. CASE HostStep
  BY <1>1 DEF AddsJob, HostStep, PushTask, CallAsync, CancelCall, PauseOrResume, BeginShutdown,
     TakeUnhandledError, Destroy, flagVars, jobVars, PassJob
<1>2. CASE IOStep
  BY <1>2 DEF IOStep, Complete, DelayEnds, flagVars, PassJob
<1>3. CASE ScriptStep
  BY <1>3 DEF ScriptStep, Park, ParkFails, HookYield, YieldPlain, SetTimeout, ClearTimeout,
     ResumeByHand, CloseByHand, End, EndNested, EndRequire, EndRecycled, EndCall, flagVars, jobVars
<1>4. CASE UNCHANGED vars \/ \E co \in ScriptCo : Collect(co)
  BY <1>4 DEF Collect, vars, flagVars, jobVars
<1> QED BY <1>1, <1>2, <1>3, <1>4 DEF Next, AddsJob

\* Holds of a host that waits for its ClearInterrupt before it interrupts again.
LEMMA PassFirstStep ==
  ASSUME "two_hosts" \notin HostOps, TypeOK, TypeOK', PassFirst, [Next]_vars
  PROVE  PassFirst'
<1>1. queue \in Seq(Job) /\ queue' \in Seq(Job) /\ \A i \in DOMAIN queue' : i \in Nat
  BY LenProperties DEF TypeOK
<1>2. CASE RunJob /\ ~ClearInterrupt
  <2>1. interrupted' = interrupted /\ posting' = posting
    BY <1>2 DEF RunJob, RunTask, RunResume, RunTimer, RunRequire, RunLoadFile, InterruptPass, flagVars
  <2> QED BY <1>1, <1>2, <2>1, JobsShift, PassFirstShift
<1>3. CASE ClearInterrupt
  <2>1. queue # <<>> /\ Shifted(queue', queue, 1) /\ posting' = posting
    BY <1>3, JobsShift DEF RunJob, ClearInterrupt
  <2>2. 1 \in DOMAIN queue /\ queue[1].kind = "clear"
    BY <1>1, <1>3, EmptySeq, HeadTailProperties DEF ClearInterrupt, At
  <2>3. ASSUME NEW i \in DOMAIN queue', queue'[i].kind \in {"pass", "clear"} PROVE FALSE
    <3>1. i + 1 \in DOMAIN queue /\ queue[i + 1].kind \in {"pass", "clear"} /\ i + 1 > 1
      BY <1>1, <2>1, <2>3 DEF Shifted, OrderedKinds
    <3> QED BY <1>1, <2>2, <2>3, <3>1 DEF PassFirst
  <2>4. PassJob \notin posting'
    BY <2>1, <2>2 DEF PassFirst
  <2> QED BY <2>3, <2>4 DEF PassFirst
<1>4. CASE Interrupt
  <2>1. queue' = queue /\ interrupted' = TRUE /\ ~interrupted
    BY <1>4 DEF Interrupt
  <2>2. \A i \in DOMAIN queue : queue[i].kind \notin {"pass", "clear"}
    BY <2>1 DEF PassFirst
  <2> QED BY <2>1, <2>2 DEF PassFirst
<1>5. CASE AskClearInterrupt
  <2>1. /\ queue' = Enqueued(queue, "clear", None) /\ interrupted' = interrupted /\ interrupted
        /\ ~Queued("clear", None) /\ posting' = posting /\ PassJob \notin posting
    BY <1>5 DEF AskClearInterrupt, flagVars
  <2>2. \A i \in DOMAIN queue : queue[i].kind # "clear"
    <3>1. \A i \in DOMAIN queue : queue[i] \in Job
      BY <1>1, ElementOfSeq
    <3> QED BY <2>1, <3>1, JobParts DEF Queued
  <2>3. \A i \in DOMAIN queue' : /\ queue'[i].kind = "clear" => i = Len(queue) + 1
                                 /\ i <= Len(queue) + 1
    BY <1>1, <2>1, <2>2, AppendedEntries
  <2> QED BY <2>1, <2>3 DEF PassFirst
<1>6. ASSUME NEW j \in Posted, Schedule(j) PROVE PassFirst'
  <2>1. /\ queue' = Enqueued(queue, j.kind, j.arg) /\ j \in posting /\ posting' = posting \ {j}
        /\ interrupted' = interrupted
    BY <1>6, ScheduledJob DEF Schedule, Posted, flagVars
  <2>2. \A i \in DOMAIN queue' :
          (i \in DOMAIN queue /\ queue'[i] = queue[i]) \/ queue'[i].kind = j.kind
    BY <1>1, <2>1, AppendedEntries
  <2>3. CASE j = PassJob
    <3>1. interrupted /\ (\A i \in DOMAIN queue : queue[i].kind # "clear") /\ j.kind = "pass"
      BY <2>1, <2>3 DEF PassFirst, PassJob
    <3>2. \A i \in DOMAIN queue' : queue'[i].kind # "clear"
      BY <2>2, <3>1
    <3> QED BY <2>1, <2>3, <3>1, <3>2 DEF PassFirst
  <2>4. CASE j.kind \notin {"pass", "clear"}
    <3>1. \A i \in DOMAIN queue' : queue'[i].kind \in {"pass", "clear"} =>
            i \in DOMAIN queue /\ queue'[i] = queue[i]
      BY <2>2, <2>4
    <3> QED BY <2>1, <3>1 DEF PassFirst
  <2>5. j.kind # "clear"
    BY DEF Posted
  <2>6. j \in Job
    BY DEF Posted
  <2> QED BY <2>3, <2>4, <2>5, <2>6, JobParts
<1>7. CASE ~RunJob /\ ~AddsJob /\ ~Interrupt
  <2>1. interrupted' = interrupted /\ (PassJob \in posting' => PassJob \in posting)
    BY <1>7, GateStep
  <2> QED BY <1>1, <1>7, <2>1, OthersShift, PassFirstShift
<1> QED BY <1>2, <1>3, <1>4, <1>5, <1>6, <1>7 DEF AddsJob, ThreadStep, RunJob

\* A completion pass runs only while the flag that queued it is still up, as
\* long as Interrupt and ClearInterrupt come from hosts that wait for each
\* other: no work accepted after their ClearInterrupt is hit by their old
\* interrupt.  Without the condition it is false: the run clear_before_pass.
THEOREM PassKeepsFlag ==
  ASSUME "two_hosts" \notin HostOps
  PROVE  Spec => []PassMeansInterrupted
<1>1. Init => PassFirst
  BY DEF Init, PassFirst
<1>2. PassFirst => PassMeansInterrupted
  BY DEF PassFirst, PassMeansInterrupted, PassComing, Coming, Queued, PassJob
<1> QED BY <1>1, <1>2, PassFirstStep, TypeCorrect, PTL DEF Spec

-----------------------------------------------------------------------------
(* The callbacks of timeouts                                               *)

\* A handle that was not drawn yet has no timer and no callback.
RefsInv ==
  /\ CallbackRefsBalanced
  /\ \A h \in Handle : h >= next_handle => active_timers[h] = "none" /\ fn_ref[h] = "none"

LEMMA RefsByTimer ==
  ASSUME TimerTypeOK, RefsInv,
         \/ UNCHANGED timerVars
         \/ NextHandle \/ NextHandleWithSleep \/ AddTimeoutTimer
         \/ \E h \in Handle : TakeTimeout(h) \/ Expire(h)
         \/ \E h \in Handle : RearmSleep(h) /\ active_timers[h] = "sleep"
         \/ \E S \in SUBSET Handle : CancelTimers(S)
  PROVE  RefsInv'
<1> USE MaxHandleIsNat DEF TimerTypeOK, Handle, RefsInv, CallbackRefsBalanced
<1>1. CASE UNCHANGED timerVars
  BY <1>1 DEF timerVars
<1>2. CASE NextHandle
  BY <1>2 DEF NextHandle
<1>3. CASE NextHandleWithSleep
  BY <1>3 DEF NextHandleWithSleep, Arm
<1>4. CASE AddTimeoutTimer
  BY <1>4 DEF AddTimeoutTimer, Arm
<1>5. ASSUME NEW h \in Handle, TakeTimeout(h) \/ Expire(h) PROVE RefsInv'
  BY <1>5 DEF TakeTimeout, Expire, Unref
<1>6. ASSUME NEW h \in Handle, RearmSleep(h), active_timers[h] = "sleep" PROVE RefsInv'
  BY <1>6 DEF RearmSleep, Arm
<1>7. ASSUME NEW S \in SUBSET Handle, CancelTimers(S) PROVE RefsInv'
  BY <1>7 DEF CancelTimers, Unref
<1> QED BY <1>1, <1>2, <1>3, <1>4, <1>5, <1>6, <1>7

LEMMA RefsStep ==
  ASSUME TypeOK, RefsInv, [Next]_vars
  PROVE  RefsInv'
<1>1. TimerTypeOK
  BY DEF TypeOK
<1>2. ASSUME UNCHANGED timerVars PROVE RefsInv'
  BY <1>1, <1>2, RefsByTimer
<1>3. ASSUME NEW S \in SUBSET Handle, CancelTimers(S) PROVE RefsInv'
  BY <1>1, <1>3, RefsByTimer
<1>4. ASSUME NEW co, CleanupStalePendings(co) \/ DropPendings(co) PROVE RefsInv'
  BY <1>3, <1>4 DEF CleanupStalePendings, DropPendings, PendingOf
<1>5. ASSUME NEW h \in Handle, DoResume(h) PROVE RefsInv'
  BY <1>3, <1>4, <1>5 DEF DoResume
<1>6. CASE HostStep
  BY <1>2, <1>3, <1>4, <1>6 DEF HostStep, PushTask, CallAsync, CancelCall, Interrupt, AskClearInterrupt,
     PauseOrResume, BeginShutdown, TakeUnhandledError, Destroy
<1>7. CASE ThreadStep \/ IOStep
  BY <1>1, <1>2, <1>7, RefsByTimer DEF ThreadStep, Schedule, IOStep, Complete, DelayEnds
<1>8. CASE RunJob
  <2>1. CASE RunResume
    <3>1. Head(queue).arg \in Handle
      BY <2>1, TakenType DEF RunResume, TypeOK
    <3> QED BY <1>2, <1>5, <2>1, <3>1 DEF RunResume
  <2>2. CASE RunTimer
    <3>1. Head(queue).arg \in Handle
      BY <2>2, TakenType DEF RunTimer, TypeOK
    <3> QED BY <1>1, <1>2, <1>5, <2>2, <3>1, RefsByTimer DEF RunTimer
  <2> QED BY <1>2, <1>3, <1>8, <2>1, <2>2 DEF RunJob, RunTask, RunRequire, RunLoadFile, InterruptPass,
          ClearInterrupt
<1>9. CASE ScriptStep
  <2>1. ASSUME NEW kind, StartOp(kind) PROVE RefsInv'
    BY <1>1, <2>1, RefsByTimer DEF StartOp
  <2>2. CASE SetTimeout
    BY <1>1, <2>2, RefsByTimer DEF SetTimeout
  <2>3. ASSUME NEW h \in Handle, ClearTimeout(h) PROVE RefsInv'
    BY <1>3, <2>3 DEF ClearTimeout
  <2> QED BY <1>2, <1>4, <1>9, <2>1, <2>2, <2>3 DEF ScriptStep, Park, ParkFails, HookYield, YieldPlain,
          ResumeByHand, CloseByHand, End, EndNested, EndRequire, EndRecycled, EndCall
<1> QED BY <1>2, <1>6, <1>7, <1>8, <1>9 DEF Next, Collect, vars

\* The registry reference of a setTimeout callback is released at most once,
\* and kept as long as its timer can fire, whoever cancels, fires or sweeps.
THEOREM RefsReleasedOnce == Spec => []CallbackRefsBalanced
<1>1. Init => RefsInv
  BY DEF Init, TimerInit, RefsInv, CallbackRefsBalanced
<1>2. RefsInv => CallbackRefsBalanced
  BY DEF RefsInv
<1> QED BY <1>1, <1>2, RefsStep, TypeCorrect, PTL DEF Spec

-----------------------------------------------------------------------------
(* Where the promises are                                                  *)

Starting == {"task", "call"}       \* the runs that hold a promise

\* Every promise that is active is in one place: with the run that will settle
\* it, or registered with one coroutine.
Ledger ==
  /\ Idle => run.via \notin Starting
  /\ IF run.via \in Starting
     THEN /\ run.by \in Promise /\ promise[run.by] = "active"
          /\ \A co \in Co : completions[co] # run.by
     ELSE run.by \notin Promise
  /\ \A co \in Co : completions[co] \in Promise => promise[completions[co]] = "active"
  /\ \A c, d \in Co : completions[c] \in Promise /\ completions[c] = completions[d] => c = d
  /\ ActiveTaskTracked
  /\ PromisesIntact

\* Nothing moves.
LEMMA LedgerKept ==
  ASSUME Ledger, UNCHANGED <<run, completions, promise>>, Idle' = Idle
  PROVE  Ledger'
BY DEF Ledger, ActiveTaskTracked, PromisesIntact

\* A submission that does not run yet changes its state.
LEMMA LedgerMoved ==
  ASSUME TypeOK, Ledger, UNCHANGED <<run, completions, stack>>,
         NEW p \in Promise, promise[p] # "active",
         NEW r \in {"queued", "rejected", "error"}, promise' = [promise EXCEPT ![p] = r]
  PROVE  Ledger'
<1>1. Idle' = Idle
  BY DEF Idle
<1>2. \A q \in Promise : promise'[q] = IF q = p THEN r ELSE promise[q]
  BY DEF TypeOK
<1> QED BY <1>1, <1>2 DEF Ledger, ActiveTaskTracked, PromisesIntact

\* A coroutine is entered for p.
LEMMA LedgerStarted ==
  ASSUME TypeOK, Ledger, Idle, NEW co \in Co, NEW p \in Promise, NEW via \in Starting,
         Enter(co, via, p), promise[p] # "active",
         promise' = [promise EXCEPT ![p] = "active"], UNCHANGED completions
  PROVE  Ledger'
<1>1. run'.via = via /\ run'.by = p /\ ~Idle'
  BY DEF Enter, Idle
<1>2. \A q \in Promise : promise'[q] = IF q = p THEN "active" ELSE promise[q]
  BY DEF TypeOK
<1>3. \A c \in Co : completions[c] # p
  BY DEF Ledger
<1>4. ActiveTaskTracked'
  BY <1>1, <1>2 DEF Ledger, ActiveTaskTracked
<1> QED BY <1>1, <1>2, <1>3, <1>4 DEF Ledger, PromisesIntact

\* A coroutine is entered on behalf of nobody who waits for it, or of a handle.
LEMMA LedgerEntered ==
  ASSUME TypeOK, Ledger, Idle, NEW co, NEW via, via \notin Starting, NEW h \in Handle,
         Enter(co, via, h), UNCHANGED <<completions, promise>>
  PROVE  Ledger'
<1>1. run'.via = via /\ run'.by = h /\ ~Idle'
  BY DEF Enter, Idle
<1>2. h \notin Promise
  BY RuntimeAssumption
<1>3. ActiveTaskTracked'
  BY <1>1 DEF Ledger, ActiveTaskTracked
<1> QED BY <1>1, <1>2, <1>3 DEF Ledger, PromisesIntact

\* The outermost coroutine parks: its promise moves to the coroutine.
LEMMA LedgerSuspended ==
  ASSUME TypeOK, StackIsRunning, Discipline, Ledger, ~Idle, NEW w, Suspend(w)
  PROVE  Ledger' /\ promise' = promise
<1>1. /\ Len(stack) \in Nat \ {0} /\ Top = stack[Len(stack)] /\ Top \in Co
  BY BottomOfStack DEF Discipline
<1>2. Front(stack) \in Seq(Co) /\ Len(Front(stack)) = Len(stack) - 1 /\ stack' = Front(stack)
  BY FrontIsSeq DEF TypeOK, Idle, Suspend
<1>3. CASE Len(stack) > 1
  <2>1. ~Idle'
    BY <1>1, <1>2, <1>3, EmptySeq DEF Idle
  <2>2. UNCHANGED <<run, completions, promise>>
    BY <1>1, <1>3 DEF Suspend
  <2> QED BY <2>1, <2>2, LedgerKept DEF Idle
<1>4. CASE Len(stack) = 1
  <2>1. Idle' /\ run' = NoRun /\ run'.via = "none" /\ run'.by = None
    BY <1>2, <1>4, EmptySeq DEF Idle, Suspend, NoRun
  <2>2. None \notin Promise
    BY RuntimeAssumption DEF Handler
  <2>3. CASE run.via \in Awaited
    <3>1. completions[Top] = None
      BY <1>1, <1>4, <2>3 DEF Discipline, RunOwnsThread
    <3>2. promise' = promise /\ completions' = [completions EXCEPT ![Top] = run.by]
      BY <1>4, <2>2, <2>3, <3>1 DEF Suspend, Dropped
    <3>3. \A c \in Co : completions'[c] = IF c = Top THEN run.by ELSE completions[c]
      BY <3>2 DEF TypeOK
    <3>4. ActiveTaskTracked'
      BY <1>1, <3>1, <3>2, <3>3, <2>2 DEF Ledger, ActiveTaskTracked
    <3> QED BY <2>1, <2>2, <3>2, <3>3, <3>4 DEF Ledger, PromisesIntact, Starting
  <2>4. CASE run.via \notin Awaited
    <3>1. UNCHANGED <<completions, promise>>
      BY <1>4, <2>4 DEF Suspend
    <3>2. run.via \notin Starting /\ run.by \notin Promise
      BY <2>4 DEF Ledger, Starting, Awaited
    <3>3. ActiveTaskTracked'
      BY <3>1, <3>2 DEF Ledger, ActiveTaskTracked
    <3> QED BY <2>1, <2>2, <3>1, <3>3 DEF Ledger, PromisesIntact, Starting
  <2> QED BY <2>3, <2>4
<1>5. Len(stack) > 1 \/ Len(stack) = 1
  BY <1>1
<1> QED BY <1>3, <1>4, <1>5, Zenon

\* The work of co is over: whoever the run, or else the coroutine, answers to is told.
LEMMA LedgerEnded ==
  ASSUME TypeOK, Ledger, NEW co \in Co, NEW handler,
         NEW r \in {"ok", "error", "cancelled"},
         stack' = <<>>, run' = NoRun \/ (run' = run /\ Idle),
         promise' = Settle(promise, handler, r),
         \A c \in Co : completions'[c] = IF c = co THEN None ELSE completions[c],
         IF run.via \in Starting THEN handler = run.by /\ completions[co] = None
         ELSE handler = completions[co] \/ (handler \notin Promise /\ completions[co] \notin Promise)
  PROVE  /\ Ledger'
         /\ IF handler \in Promise
            THEN promise[handler] = "active" /\ promise' = [promise EXCEPT ![handler] = r]
            ELSE promise' = promise
<1>1. Idle' /\ run'.via \notin Starting /\ run'.by \notin Promise
  BY RuntimeAssumption DEF Idle, NoRun, Starting, Ledger, Handler
<1>2. None \notin Promise
  BY RuntimeAssumption DEF Handler
<1>3. CASE handler \in Promise
  <2>1. promise[handler] = "active"
    BY <1>3 DEF Ledger
  <2>2. promise' = [promise EXCEPT ![handler] = r]
    BY <1>3, <2>1 DEF Settle, AfterSettle, Settled, Outcome, Gone
  <2>3. \A q \in Promise : promise'[q] = IF q = handler THEN r ELSE promise[q]
    BY <2>2 DEF TypeOK
  <2>4. \A c \in Co : completions'[c] # handler
    BY <1>2, <1>3 DEF Ledger
  <2>5. \A q \in Promise : run.by = q => q = handler
    BY DEF Ledger
  <2>6. \A q \in Promise \ {handler} : completions[co] # q
    BY <1>2 DEF Ledger
  <2>7. ActiveTaskTracked'
    BY <2>3, <2>5, <2>6 DEF Ledger, ActiveTaskTracked
  <2>8. PromisesIntact'
    BY <2>3 DEF Ledger, PromisesIntact
  <2>9. \A c \in Co : completions'[c] \in Promise =>
          completions'[c] = completions[c] /\ promise'[completions[c]] = "active"
    BY <1>2, <2>3, <2>4 DEF Ledger
  <2> QED BY <1>1, <1>2, <1>3, <2>1, <2>2, <2>7, <2>8, <2>9 DEF Ledger
<1>4. CASE handler \notin Promise
  <2>1. promise' = promise
    BY <1>4 DEF Settle
  <2>2. run.via \notin Starting /\ run.by \notin Promise /\ completions[co] \notin Promise
    BY <1>4 DEF Ledger
  <2>3. ActiveTaskTracked'
    BY <2>1, <2>2 DEF Ledger, ActiveTaskTracked
  <2>4. \A c \in Co : completions'[c] \in Promise => completions'[c] = completions[c]
    BY <1>2
  <2> QED BY <1>1, <1>4, <2>1, <2>3, <2>4 DEF Ledger, PromisesIntact
<1> QED BY <1>3, <1>4

\* The completion pass and the shutdown: whatever is active ends.
LEMMA LedgerAllSettled ==
  ASSUME TypeOK, Ledger, Idle, NEW q, NEW r \in {"interrupted", "shutdown"},
         SettleAll(q, r), UNCHANGED <<stack, run>>
  PROVE  /\ Ledger'
         /\ promise' = [p \in Promise |-> IF promise[p] = "active" THEN r ELSE promise[p]]
<1> DEFINE handlers == {completions[co] : co \in Co} \ {None}
<1>1. None \notin Promise
  BY RuntimeAssumption DEF Handler
<1>2. \A p \in Promise : p \in handlers <=> promise[p] = "active"
  BY <1>1 DEF Ledger, ActiveTaskTracked
<1>3. promise' = [p \in Promise |->
                    IF p \in handlers THEN AfterSettle(promise[p], r) ELSE promise[p]]
  BY DEF SettleAll
<1> HIDE DEF handlers
<1>4. \A p \in Promise : promise[p] = "active" => AfterSettle(promise[p], r) = r
  BY DEF AfterSettle, Settled, Outcome, Gone
<1>5. promise' = [p \in Promise |-> IF promise[p] = "active" THEN r ELSE promise[p]]
  BY <1>2, <1>3, <1>4
<1>6. completions' = [co \in Co |-> None] /\ Idle'
  BY DEF SettleAll, Idle
<1>7. \A p \in Promise : promise'[p] = IF promise[p] = "active" THEN r ELSE promise[p]
  BY <1>5
<1>8. run.via \notin Starting /\ run.by \notin Promise
  BY DEF Ledger
<1>9. ActiveTaskTracked' /\ PromisesIntact'
  BY <1>7 DEF Ledger, ActiveTaskTracked, PromisesIntact
<1> QED BY <1>1, <1>5, <1>6, <1>8, <1>9 DEF Ledger

-----------------------------------------------------------------------------
(* The tasks in the queue                                                  *)

\* A task is in the queue, or on its way there, once, as long as its submission
\* is queued.
TasksQueued ==
  /\ \A i \in DOMAIN queue : queue[i].kind = "task" =>
       promise[queue[i].arg] = "queued" /\ queue[i] \notin posting
  /\ \A j \in posting : j.kind = "task" => promise[j.arg] = "queued"
  /\ \A i, j \in DOMAIN queue :
       queue[i].kind = "task" /\ queue[j].kind = "task" /\ queue[i].arg = queue[j].arg => i = j

LEMMA QueuedByShift ==
  ASSUME TypeOK', TasksQueued, NEW k \in Nat, Shifted(queue', queue, k),
         \A i \in DOMAIN queue' : queue'[i].kind = "task" /\ promise[queue'[i].arg] = "queued"
                                     => promise'[queue'[i].arg] = "queued",
         \A j \in posting : j.kind = "task" => promise'[j.arg] = "queued",
         \A j \in posting' : j.kind = "task" => j \in posting
  PROVE  TasksQueued'
<1>1. \A i \in DOMAIN queue' : i \in Nat
  BY LenProperties DEF TypeOK
<1>2. \A i \in DOMAIN queue' : queue'[i].kind = "task" =>
        i + k \in DOMAIN queue /\ queue'[i] = queue[i + k]
  BY DEF Shifted, OrderedKinds
<1>3. \A i, j \in Nat : i + k = j + k => i = j
  OBVIOUS
<1>4. \A i \in DOMAIN queue' : queue'[i].kind = "task" =>
        promise'[queue'[i].arg] = "queued" /\ queue'[i] \notin posting'
  BY <1>2 DEF TasksQueued
<1>5. ASSUME NEW i \in DOMAIN queue', NEW j \in DOMAIN queue',
             queue'[i].kind = "task", queue'[j].kind = "task", queue'[i].arg = queue'[j].arg
      PROVE  i = j
  <2>1. i + k = j + k
    BY <1>2, <1>5 DEF TasksQueued
  <2> QED BY <1>1, <1>3, <2>1
<1> QED BY <1>4, <1>5 DEF TasksQueued

-----------------------------------------------------------------------------
(* Every step keeps the ledger and is a step of the contract               *)

ContractStep == [Contract!Next]_<<promise, interrupted, shutting_down, PassesDue>>

\* What the contract knows of the interrupts and the shutdown.
gateVars == <<interrupted, shutting_down, PassesDue>>

\* Only its own turn takes a submission out of the queue.
QueuedStay == \A p \in Promise : promise[p] = "queued" => promise'[p] = "queued"

Sound == Ledger' /\ ContractStep /\ (~RunTask => QueuedStay)

LEMMA OneChanges ==
  ASSUME TypeOK, NEW p \in Promise, promise[p] # "queued", NEW r,
         promise' = [promise EXCEPT ![p] = r]
  PROVE  QueuedStay
BY DEF QueuedStay, TypeOK

LEMMA ActiveEnd ==
  ASSUME NEW r, promise' = [p \in Promise |-> IF promise[p] = "active" THEN r ELSE promise[p]]
  PROVE  QueuedStay
BY DEF QueuedStay

LEMMA QuietStep ==
  ASSUME Ledger, UNCHANGED <<run, completions, promise, gateVars>>, Idle' = Idle
  PROVE  Sound
BY LedgerKept DEF Sound, ContractStep, QueuedStay, gateVars

LEMMA EnteredStep ==
  ASSUME TypeOK, Ledger, Idle, NEW co, NEW via, via \notin Starting, NEW h \in Handle,
         Enter(co, via, h), UNCHANGED <<completions, promise, gateVars>>
  PROVE  Sound
BY LedgerEntered DEF Sound, ContractStep, QueuedStay, gateVars

LEMMA DoResumeSound ==
  ASSUME TypeOK, Ledger, Idle, NEW h \in Handle, DoResume(h),
         UNCHANGED <<completions, promise, gateVars>>
  PROVE  Sound
<1>1. CASE UNCHANGED <<stack, run>>
  BY <1>1, QuietStep DEF Idle
<1>2. CASE Enter(pending[h], "resume", h)
  BY <1>2, EnteredStep DEF Starting
<1> QED BY <1>1, <1>2 DEF DoResume

LEMMA EndedStep ==
  ASSUME TypeOK, Ledger, NEW co \in Co, NEW handler, NEW r \in Outcome,
         stack' = <<>>, run' = NoRun,
         promise' = Settle(promise, handler, r),
         \A c \in Co : completions'[c] = IF c = co THEN None ELSE completions[c],
         IF run.via \in Starting THEN handler = run.by /\ completions[co] = None
         ELSE handler = completions[co] \/ (handler \notin Promise /\ completions[co] \notin Promise),
         UNCHANGED gateVars
  PROVE  Sound
<1>1. r \in {"ok", "error", "cancelled"}
  BY DEF Outcome
<1>2. /\ Ledger'
      /\ IF handler \in Promise
         THEN promise[handler] = "active" /\ promise' = [promise EXCEPT ![handler] = r]
         ELSE promise' = promise
  BY <1>1, LedgerEnded
<1>3. CASE handler \in Promise
  <2>1. handler \in Contract!Submissions /\ Contract!Finish(handler)
    BY <1>2, <1>3 DEF Contract!Submissions, Contract!Finish, Contract!Becomes, Promise, Outcome,
       gateVars
  <2>2. QueuedStay
    BY <1>2, <1>3, OneChanges
  <2> QED BY <1>2, <2>1, <2>2 DEF Sound, ContractStep, Contract!Next
<1>4. CASE handler \notin Promise
  BY <1>2, <1>4 DEF Sound, ContractStep, QueuedStay, gateVars
<1> QED BY <1>3, <1>4

LEMMA HostStepSound ==
  ASSUME TypeOK, TypeOK', Discipline, Ledger, HostStep
  PROVE  Sound
<1>0. UNCHANGED interrupted => UNCHANGED PassesDue
  <2>1. Interrupt => ~interrupted /\ interrupted'
    BY DEF Interrupt
  <2> QED BY <2>1, DueByHost
<1>1. ASSUME NEW t \in Pushed, PushTask(t) PROVE Sound
  <2>1. t \in Promise
    BY DEF Promise
  <2>2. PICK r \in {"rejected", "queued"} :
          r = (IF Gated THEN "rejected" ELSE "queued") /\ promise' = [promise EXCEPT ![t] = r]
    BY <1>1 DEF PushTask
  <2>3. promise[t] = "new" /\ UNCHANGED <<run, completions, stack, gateVars>>
    BY <1>0, <1>1 DEF PushTask, mapVars, flagVars, gateVars
  <2>4. Ledger'
    BY <2>1, <2>2, <2>3, LedgerMoved
  <2>5. Contract!Submit(t)
    BY <2>2, <2>3 DEF Contract!Submit, Contract!Becomes, Contract!refusing, Gated, gateVars
  <2>6. QueuedStay
    BY <2>1, <2>2, <2>3, OneChanges
  <2> QED BY <2>4, <2>5, <2>6 DEF Sound, ContractStep, Contract!Next
<1>2. ASSUME NEW c \in Call, CallAsync(c) PROVE Sound
  <2>1. PICK co \in PoolCo : Enter(co, "call", c)
    BY <1>2 DEF CallAsync
  <2>2. /\ Idle /\ promise[c] = "new" /\ promise' = [promise EXCEPT ![c] = "active"]
        /\ UNCHANGED <<completions, gateVars>>
    BY <1>0, <1>2 DEF CallAsync, mapVars, flagVars, gateVars
  <2>3. c \in Promise /\ co \in Co /\ "call" \in Starting
    BY DEF Promise, Co, Starting
  <2>4. Ledger'
    BY <2>1, <2>2, <2>3, LedgerStarted
  <2>5. Contract!CallNow(c)
    BY <2>2 DEF Contract!CallNow, Contract!Becomes, gateVars
  <2>6. QueuedStay
    BY <2>2, <2>3, OneChanges
  <2> QED BY <2>4, <2>5, <2>6 DEF Sound, ContractStep, Contract!Next
<1>3. ASSUME NEW co \in PoolCo, CancelCall(co) PROVE Sound
  <2>1. /\ Idle /\ completions[co] \in Call /\ co \in Co
        /\ promise' = [promise EXCEPT ![completions[co]] = "cancelled"]
        /\ completions' = [completions EXCEPT ![co] = None]
        /\ UNCHANGED <<stack, run, gateVars>>
    BY <1>0, <1>3 DEF CancelCall, Co, flagVars, gateVars
  <2>2. \A c \in Co : completions'[c] = IF c = co THEN None ELSE completions[c]
    BY <2>1 DEF TypeOK
  <2>3. stack' = <<>> /\ run.via \notin Starting /\ completions[co] \in Promise
    BY <2>1 DEF Idle, Ledger, Promise
  <2>4. /\ promise[completions[co]] = "active"
        /\ promise' = Settle(promise, completions[co], "cancelled")
    BY <2>1, <2>3 DEF Ledger, Settle, AfterSettle, Settled, Outcome, Gone
  <2>7. Ledger'
    BY <2>1, <2>2, <2>3, <2>4, LedgerEnded
  <2>5. Contract!CancelIt(completions[co])
    BY <2>1, <2>4 DEF Contract!CancelIt, Contract!Becomes, gateVars
  <2>6. QueuedStay
    BY <2>1, <2>3, <2>4, OneChanges
  <2> QED BY <2>1, <2>5, <2>6, <2>7 DEF Sound, ContractStep, Contract!Next
<1>4. CASE AskClearInterrupt \/ PauseOrResume \/ TakeUnhandledError
  <2>1. UNCHANGED <<run, completions, promise, gateVars, stack>>
    BY <1>0, <1>4 DEF AskClearInterrupt, PauseOrResume, TakeUnhandledError, flagVars, mapVars, gateVars
  <2> QED BY <2>1, QuietStep DEF Idle
<1>5. CASE Interrupt \/ BeginShutdown
  <2>1. UNCHANGED <<run, completions, promise, stack>>
    BY <1>5 DEF Interrupt, BeginShutdown, mapVars
  <2>2. Ledger'
    BY <2>1, LedgerKept DEF Idle
  <2>3. CASE Interrupt
    <3>1. ~Gated /\ interrupted' = TRUE /\ PassesDue' = PassesDue + 1 /\ shutting_down' = shutting_down
      <4>1. ~Gated /\ interrupted' = TRUE /\ shutting_down' = shutting_down
        BY <2>3 DEF Interrupt, Gated
      <4>2. PassesDue' = PassesDue + 1
        BY <2>3, DueByInterrupt
      <4> QED BY <4>1, <4>2
    <3>2. Contract!Interrupt
      BY <2>1, <3>1 DEF Contract!Interrupt, Contract!refusing, Gated
    <3> QED BY <2>1, <2>2, <3>2 DEF Sound, ContractStep, Contract!Next, QueuedStay
  <2>4. CASE BeginShutdown
    <3>1. shutting_down' = TRUE /\ UNCHANGED <<interrupted, PassesDue>>
      BY <1>0, <2>4 DEF BeginShutdown
    <3>2. Contract!Close
      BY <2>1, <3>1 DEF Contract!Close
    <3> QED BY <2>1, <2>2, <3>2 DEF Sound, ContractStep, Contract!Next, QueuedStay
  <2> QED BY <1>5, <2>3, <2>4
<1>6. CASE Destroy
  <2>1. CASE shutting_down
    <3>1. UNCHANGED <<run, completions, promise, gateVars, stack>>
      BY <1>0, <1>6, <2>1 DEF Destroy, mapVars, gateVars, TypeOK
    <3> QED BY <3>1, QuietStep DEF Idle
  <2>2. CASE ~shutting_down
    <3>1. /\ Idle /\ SettleAll(queue, "shutdown") /\ UNCHANGED <<stack, run>>
          /\ shutting_down' = TRUE /\ UNCHANGED <<interrupted, PassesDue>>
      BY <1>0, <1>6, <2>2 DEF Destroy
    <3>2. /\ Ledger'
          /\ promise' = [p \in Promise |-> IF promise[p] = "active" THEN "shutdown" ELSE promise[p]]
      BY <3>1, LedgerAllSettled
    <3>3. Contract!ShutdownEnds
      BY <2>2, <3>1, <3>2 DEF Contract!ShutdownEnds, Contract!EndAll, Contract!Running,
         Contract!Submissions, Promise
    <3> QED BY <3>2, <3>3, ActiveEnd DEF Sound, ContractStep, Contract!Next
  <2> QED BY <2>1, <2>2
<1> QED BY <1>1, <1>2, <1>3, <1>4, <1>5, <1>6 DEF HostStep

LEMMA RunJobSound ==
  ASSUME TypeOK, TypeOK', Discipline, Ledger, TasksQueued, RunJob
  PROVE  Sound
<1>0. ~At("pass") => UNCHANGED PassesDue
  BY DueByJob
<1>1. Idle /\ queue # <<>> /\ queue \in Seq(Job)
  BY DEF RunJob, RunTask, RunResume, RunTimer, RunRequire, RunLoadFile, InterruptPass,
     ClearInterrupt, At, TypeOK
<1>2. 1 \in DOMAIN queue /\ Head(queue) = queue[1]
  BY <1>1, EmptySeq, LenProperties
<1>3. CASE RunTask
  <2>1. PICK t \in Pushed : t = Head(queue).arg
    BY <1>3, TakenType DEF RunTask, TypeOK
  <2>2. promise[t] = "queued" /\ t \in Promise
    BY <1>2, <1>3, <2>1 DEF RunTask, At, TasksQueued, Promise
  <2>3. \A r \in Settled : Settle(promise, t, r) = [promise EXCEPT ![t] = r]
    BY <2>2 DEF Settle, AfterSettle, Settled, Outcome, Gone
  <2>4. UNCHANGED <<completions, gateVars>> /\ GatedSince = Gated
    BY <1>0, <1>3 DEF RunTask, At, mapVars, flagVars, gateVars, GatedSince
  <2>5. CASE Gated /\ promise' = Settle(promise, t, "rejected") /\ UNCHANGED <<stack, run>>
    <3>1. promise' = [promise EXCEPT ![t] = "rejected"]
      BY <2>3, <2>5 DEF Settled
    <3>2. Ledger'
      BY <2>2, <2>4, <2>5, <3>1, LedgerMoved
    <3>3. Contract!Refuse(t)
      BY <2>2, <2>4, <2>5, <3>1 DEF Contract!Refuse, Contract!Becomes, Contract!refusing, Gated,
         gateVars
    <3> QED BY <1>3, <3>2, <3>3 DEF Sound, ContractStep, Contract!Next
  <2>6. CASE ~Gated /\ promise' = Settle(promise, t, "error") /\ UNCHANGED <<stack, run>>
    <3>1. promise' = [promise EXCEPT ![t] = "error"]
      BY <2>3, <2>6 DEF Settled, Outcome
    <3>2. Ledger'
      BY <2>2, <2>4, <2>6, <3>1, LedgerMoved
    <3>3. Contract!Start(t)
      BY <2>2, <2>4, <2>6, <3>1 DEF Contract!Start, Contract!Becomes, Contract!refusing, Gated,
         gateVars
    <3> QED BY <1>3, <3>2, <3>3 DEF Sound, ContractStep, Contract!Next
  <2>7. ASSUME ~Gated, NEW co \in PoolCo, Enter(co, "task", t),
               promise' = [promise EXCEPT ![t] = "active"]
        PROVE  Sound
    <3>1. Ledger'
      BY <1>1, <2>2, <2>4, <2>7, LedgerStarted DEF Starting, Co
    <3>2. Contract!Start(t)
      BY <2>2, <2>4, <2>7 DEF Contract!Start, Contract!Becomes, Contract!refusing, Gated,
         gateVars
    <3> QED BY <1>3, <3>1, <3>2 DEF Sound, ContractStep, Contract!Next
  <2> QED BY <1>3, <2>1, <2>4, <2>5, <2>6, <2>7 DEF RunTask, coVars
<1>4. CASE RunResume
  <2>1. Head(queue).arg \in Handle
    BY <1>4, TakenType DEF RunResume, TypeOK
  <2>2. UNCHANGED <<completions, promise, gateVars>>
    BY <1>0, <1>4 DEF RunResume, At, flagVars, gateVars
  <2> QED BY <1>1, <1>4, <2>1, <2>2, DoResumeSound, QuietStep DEF RunResume, Idle
<1>5. CASE RunTimer
  <2>1. PICK h \in Handle : h = Head(queue).arg
    BY <1>5, TakenType DEF RunTimer, TypeOK
  <2>2. UNCHANGED <<completions, promise, gateVars>>
    BY <1>0, <1>5 DEF RunTimer, At, flagVars, gateVars
  <2>3. CASE \E co \in PoolCo : Enter(co, "timeout", h)
    BY <1>1, <2>2, <2>3, EnteredStep DEF Starting
  <2> QED BY <1>1, <1>5, <2>1, <2>2, <2>3, DoResumeSound, QuietStep DEF RunTimer, Idle
<1>6. CASE RunRequire
  <2>1. PICK h \in Handle : h = Head(queue).arg
    BY <1>6, TakenType DEF RunRequire, TypeOK
  <2>2. UNCHANGED <<completions, promise, gateVars>>
    BY <1>0, <1>6 DEF RunRequire, At, mapVars, flagVars, gateVars
  <2>3. CASE \E co \in PoolCo : Enter(co, "require", h)
    BY <1>1, <2>2, <2>3, EnteredStep DEF Starting
  <2> QED BY <1>6, <2>1, <2>2, <2>3, QuietStep DEF RunRequire, Idle
<1>7. CASE RunLoadFile
  <2>1. UNCHANGED <<run, completions, promise, gateVars, stack>>
    BY <1>0, <1>7 DEF RunLoadFile, At, mapVars, flagVars, gateVars
  <2> QED BY <2>1, QuietStep DEF Idle
<1>8. CASE InterruptPass
  <2>1. UNCHANGED <<stack, run, shutting_down, interrupted>>
    BY <1>8 DEF InterruptPass, flagVars
  <2>2. PassesDue > 0 /\ PassesDue' = PassesDue - 1
    BY <1>8, DueByJob DEF InterruptPass
  <2>3. CASE shutting_down
    <3>1. UNCHANGED <<completions, promise>>
      BY <1>8, <2>3 DEF InterruptPass, mapVars
    <3>2. Ledger'
      BY <2>1, <3>1, LedgerKept DEF Idle
    <3>3. Contract!Overtaken
      BY <2>1, <2>2, <2>3, <3>1 DEF Contract!Overtaken
    <3> QED BY <3>1, <3>2, <3>3 DEF Sound, ContractStep, Contract!Next, QueuedStay
  <2>4. CASE ~shutting_down
    <3>1. SettleAll(Tail(queue), "interrupted")
      BY <1>8, <2>4 DEF InterruptPass
    <3>2. /\ Ledger'
          /\ promise' = [p \in Promise |-> IF promise[p] = "active" THEN "interrupted" ELSE promise[p]]
      BY <1>1, <2>1, <3>1, LedgerAllSettled
    <3>3. Contract!InterruptEnds
      BY <2>1, <2>2, <2>4, <3>2 DEF Contract!InterruptEnds, Contract!EndAll, Contract!Running,
         Contract!Submissions, Promise
    <3> QED BY <3>2, <3>3, ActiveEnd DEF Sound, ContractStep, Contract!Next
  <2> QED BY <2>3, <2>4
<1>9. CASE ClearInterrupt
  <2>1. /\ UNCHANGED <<run, completions, promise, stack, shutting_down, PassesDue>>
        /\ interrupted' = FALSE
    BY <1>0, <1>9 DEF ClearInterrupt, At, mapVars
  <2>2. Ledger'
    BY <2>1, LedgerKept DEF Idle
  <2>3. Contract!Lift
    BY <2>1 DEF Contract!Lift
  <2> QED BY <2>1, <2>2, <2>3 DEF Sound, ContractStep, Contract!Next, QueuedStay
<1> QED BY <1>3, <1>4, <1>5, <1>6, <1>7, <1>8, <1>9 DEF RunJob

LEMMA ScriptStepSound ==
  ASSUME TypeOK, TypeOK', StackIsRunning, Discipline, Ledger, ScriptStep
  PROVE  Sound
<1>1. UNCHANGED gateVars /\ ~Idle
  <2>1. UNCHANGED <<flagVars, PassesDue>>
    BY DueByOthers DEF ScriptStep, Park, ParkFails, HookYield, YieldPlain, SetTimeout, ClearTimeout, ResumeByHand,
       CloseByHand, End, EndNested, EndRequire, EndRecycled, EndCall
  <2>2. ~Idle \/ Len(stack) = 1 \/ Len(stack) > 1
    BY DEF ScriptStep, Park, ParkFails, HookYield, YieldPlain, SetTimeout, ClearTimeout, ResumeByHand,
       CloseByHand, End, EndNested, EndRequire, EndRecycled, EndCall
  <2>3. stack = <<>> => Len(stack) = 0
    OBVIOUS
  <2> QED BY <2>1, <2>2, <2>3 DEF flagVars, gateVars, Idle
<1>2. ASSUME NEW w, Suspend(w) PROVE Sound
  BY <1>1, <1>2, LedgerSuspended DEF Sound, ContractStep, QueuedStay, gateVars
<1>3. ASSUME NEW kind, Park(kind) PROVE Sound
  BY <1>2, <1>3 DEF Park
<1>4. CASE HookYield \/ YieldPlain
  BY <1>2, <1>4 DEF HookYield, YieldPlain
<1>5. ASSUME UNCHANGED <<stack, run, completions, promise>> PROVE Sound
  BY <1>1, <1>5, QuietStep DEF Idle
<1>6. ASSUME NEW kind, ParkFails(kind) PROVE Sound
  BY <1>5, <1>6 DEF ParkFails
<1>7. CASE SetTimeout \/ \E h \in Handle : ClearTimeout(h)
  BY <1>5, <1>7 DEF SetTimeout, ClearTimeout, mapVars
<1>8. ASSUME NEW co \in Co, CloseByHand(co) PROVE Sound
  BY <1>5, <1>8 DEF CloseByHand, mapVars
<1>9. ASSUME NEW co \in Co, ResumeByHand(co) PROVE Sound
  <2>1. UNCHANGED <<run, completions, promise>> /\ stack' = Append(stack, co)
    BY <1>9 DEF ResumeByHand, mapVars
  <2>2. stack \in Seq(Co)
    BY DEF TypeOK
  <2>3. ~Idle'
    BY <2>1, <2>2, AppendProperties DEF Idle
  <2> QED BY <1>1, <2>1, <2>3, QuietStep DEF Idle
<1>10. CASE EndNested
  <2>1. UNCHANGED <<run, completions, promise>> /\ stack' = Front(stack) /\ Len(stack) > 1
    BY <1>10 DEF EndNested, mapVars
  <2>2. Len(stack) \in Nat /\ Front(stack) \in Seq(Co) /\ Len(Front(stack)) = Len(stack) - 1
    BY <1>1, FrontIsSeq, LenProperties DEF Idle, TypeOK
  <2>3. ~Idle'
    BY <2>1, <2>2, EmptySeq DEF Idle
  <2> QED BY <1>1, <2>1, <2>3, QuietStep DEF Idle
<1>11. CASE Len(stack) = 1
  <2>1. Top \in Co /\ Top = stack[1]
    BY <1>1, <1>11, BottomOfStack DEF Discipline
  <2>2. run.via \in Awaited => completions[Top] = None
    BY <1>1, <2>1 DEF Discipline, RunOwnsThread
  <2>3. None \notin Promise
    BY RuntimeAssumption DEF Handler
  <2>4. CASE EndRequire
    <3>1. /\ stack' = <<>> /\ run' = NoRun /\ promise' = Settle(promise, run.by, "ok")
          /\ completions' = completions /\ run.via = "require" /\ completions[Top] = None
      BY <2>2, <2>4 DEF EndRequire, Tell, Awaited
    <3>2. run.via \notin Starting /\ run.by \notin Promise /\ "ok" \in Outcome
      BY <3>1 DEF Ledger, Starting, Outcome
    <3> QED BY <1>1, <2>1, <2>3, <3>1, <3>2, EndedStep
  <2>5. ASSUME NEW outcome \in Outcome, EndCall(outcome) PROVE Sound
    <3>1. /\ stack' = <<>> /\ run' = NoRun /\ promise' = Settle(promise, run.by, outcome)
          /\ completions' = completions /\ run.via = "call" /\ completions[Top] = None
      BY <2>2, <2>5 DEF EndCall, Tell, Awaited
    <3>2. run.via \in Starting
      BY <3>1 DEF Starting
    <3> QED BY <1>1, <2>1, <3>1, <3>2, EndedStep
  <2>6. ASSUME NEW outcome \in Outcome, EndRecycled(outcome) PROVE Sound
    <3>1. /\ stack' = <<>> /\ run' = NoRun /\ run.via \in {"task", "resume", "timeout"}
          /\ \A c \in Co : completions'[c] = IF c = Top THEN None ELSE completions[c]
      BY <2>1, <2>6 DEF EndRecycled, Forget, TypeOK
    <3>2. CASE run.via = "task"
      <4>1. completions[Top] = None /\ run.via \in Starting
        BY <2>2, <3>2 DEF Awaited, Starting
      <4>2. promise' = Settle(promise, run.by, outcome)
        BY <2>3, <2>6, <3>2, <4>1 DEF EndRecycled, Tell, Dropped
      <4> QED BY <1>1, <2>1, <3>1, <4>1, <4>2, EndedStep
    <3>3. CASE run.via # "task"
      <4>1. promise' = Settle(promise, completions[Top], outcome) /\ run.via \notin Starting
        BY <2>6, <3>1, <3>3 DEF EndRecycled, Tell, Starting
      <4> QED BY <1>1, <2>1, <3>1, <4>1, EndedStep
    <3> QED BY <3>2, <3>3
  <2> QED BY <1>11, <2>4, <2>5, <2>6, <1>3, <1>4, <1>6, <1>7, <1>8, <1>9, <1>10 DEF ScriptStep, End
<1>12. CASE Len(stack) # 1
  BY <1>3, <1>4, <1>6, <1>7, <1>8, <1>9, <1>10, <1>12
     DEF ScriptStep, End, EndRequire, EndCall, EndRecycled
<1> QED BY <1>11, <1>12

LEMMA StepSound ==
  ASSUME TypeOK, TypeOK', StackIsRunning, Discipline, Ledger, TasksQueued, [Next]_vars
  PROVE  Sound
<1>1. CASE ThreadStep \/ IOStep
  <2>1. UNCHANGED PassesDue
    BY <1>1, DueByThread, DueByOthers
  <2>2. UNCHANGED <<flagVars, mapVars, run, promise, stack>> \/ UNCHANGED <<flagVars, completions, run, promise, stack>>
    BY <1>1 DEF ThreadStep, Schedule, IOStep, Complete, DelayEnds
  <2> QED BY <2>1, <2>2, QuietStep DEF mapVars, flagVars, gateVars, Idle
<1>2. CASE UNCHANGED vars \/ \E co \in ScriptCo : Collect(co)
  <2>1. UNCHANGED <<flagVars, jobVars, mapVars, run, promise, stack>>
    BY <1>2 DEF Collect, vars
  <2> QED BY <2>1, QuietStep DEF jobVars, mapVars, flagVars, gateVars, PassesDue, Idle
<1> QED BY <1>1, <1>2, HostStepSound, RunJobSound, ScriptStepSound DEF Next

\* Only PushTask posts a task.
LEMMA TasksPosted ==
  ASSUME TypeOK, [Next]_vars, ~RunJob, ~AddsJob, ~\E t \in Pushed : PushTask(t)
  PROVE  \A j \in posting' : j.kind = "task" => j \in posting
<1>1. CASE HostStep
  BY <1>1 DEF AddsJob, HostStep, CallAsync, CancelCall, Interrupt, PauseOrResume, BeginShutdown,
     TakeUnhandledError, Destroy, jobVars, PassJob
<1>2. ASSUME NEW h \in Handle, Complete(h) PROVE \A j \in posting' : j.kind = "task" => j \in posting
  BY <1>2 DEF Complete
<1>3. ASSUME NEW h \in Handle, DelayEnds(h) PROVE \A j \in posting' : j.kind = "task" => j \in posting
  BY <1>3 DEF DelayEnds
<1>4. CASE ScriptStep
  BY <1>4 DEF ScriptStep, Park, ParkFails, HookYield, YieldPlain, SetTimeout, ClearTimeout,
     ResumeByHand, CloseByHand, End, EndNested, EndRequire, EndRecycled, EndCall, jobVars
<1>5. CASE UNCHANGED vars \/ \E co \in ScriptCo : Collect(co)
  BY <1>5 DEF Collect, vars, jobVars
<1> QED BY <1>1, <1>2, <1>3, <1>4, <1>5 DEF Next, AddsJob, IOStep

LEMMA TasksQueuedStep ==
  ASSUME TypeOK, TypeOK', TasksQueued, Sound, [Next]_vars
  PROVE  TasksQueued'
<1>1. queue \in Seq(Job) /\ queue' \in Seq(Job)
  BY DEF TypeOK
<1>2. /\ \A i \in DOMAIN queue' : queue'[i].kind = "task" => queue'[i].arg \in Promise
      /\ \A j \in posting : j.kind = "task" => j.arg \in Promise
  <2>1. (\A i \in DOMAIN queue' : queue'[i] \in Job) /\ posting \subseteq Job
    BY <1>1, ElementOfSeq DEF TypeOK, Posted
  <2> QED BY <2>1 DEF Job, Promise
<1>3. CASE RunTask
  <2>1. queue # <<>> /\ Shifted(queue', queue, 1) /\ posting' = posting
    BY <1>3, JobsShift DEF RunJob, RunTask
  <2>2. 1 \in DOMAIN queue /\ Head(queue) = queue[1] /\ queue[1] \in Job
    BY <1>1, <2>1, EmptySeq, LenProperties, ElementOfSeq
  <2>3. PICK t \in Pushed : t = queue[1].arg /\ queue[1] = [kind |-> "task", arg |-> t]
    BY <1>3, <2>2, JobParts DEF RunTask, At
  <2>4. \A p \in Promise : p # t => promise'[p] = promise[p]
    BY <1>3, <2>2, <2>3 DEF RunTask, Settle, TypeOK
  <2>5. ASSUME NEW i \in DOMAIN queue', queue'[i].kind = "task", promise[queue'[i].arg] = "queued"
        PROVE  promise'[queue'[i].arg] = "queued"
    <3>1. i \in Nat /\ i >= 1
      BY <1>1, LenProperties
    <3>2. i + 1 \in DOMAIN queue /\ queue'[i] = queue[i + 1] /\ i + 1 # 1
      BY <2>1, <2>5, <3>1 DEF Shifted, OrderedKinds
    <3>3. queue'[i].arg # t
      BY <2>2, <2>3, <2>5, <3>2 DEF TasksQueued
    <3> QED BY <1>2, <2>4, <2>5, <3>3
  <2>6. ASSUME NEW j \in posting, j.kind = "task" PROVE promise'[j.arg] = "queued"
    <3>1. j \in Job /\ queue[1] \notin posting
      BY <2>2, <2>3 DEF TasksQueued, TypeOK, Posted
    <3>2. j.arg # t
      BY <2>3, <2>6, <3>1, JobParts
    <3> QED BY <1>2, <2>4, <2>6, <3>2 DEF TasksQueued
  <2> QED BY <2>1, <2>5, <2>6, QueuedByShift
<1>4. CASE ~RunTask
  <2>1. /\ \A i \in DOMAIN queue' : queue'[i].kind = "task" /\ promise[queue'[i].arg] = "queued"
                                       => promise'[queue'[i].arg] = "queued"
        /\ \A j \in posting : j.kind = "task" => promise'[j.arg] = "queued"
    BY <1>2, <1>4 DEF Sound, QueuedStay, TasksQueued
  <2>2. CASE RunJob
    <3>1. posting' = posting
      BY <2>2 DEF RunJob, RunTask, RunResume, RunTimer, RunRequire, RunLoadFile, InterruptPass,
         ClearInterrupt
    <3> QED BY <2>1, <2>2, <3>1, JobsShift, QueuedByShift
  <2>3. CASE ~RunJob /\ ~AddsJob /\ ~\E t \in Pushed : PushTask(t)
    <3>1. \A j \in posting' : j.kind = "task" => j \in posting
      BY <2>3, TasksPosted
    <3> QED BY <2>1, <2>3, <3>1, OthersShift, QueuedByShift
  <2>4. CASE AskClearInterrupt
    <3>1. queue' = Enqueued(queue, "clear", None) /\ posting' = posting
      BY <2>4 DEF AskClearInterrupt
    <3>2. \A i \in DOMAIN queue' : queue'[i].kind = "task" => i \in DOMAIN queue /\ queue'[i] = queue[i]
      BY <1>1, <3>1, AppendedEntries
    <3> QED BY <2>1, <3>1, <3>2 DEF TasksQueued
  <2>5. ASSUME NEW t \in Pushed, PushTask(t) PROVE TasksQueued'
    <3>1. promise[t] = "new" /\ t \in Promise /\ queue' = queue
      BY <2>5 DEF PushTask, Promise
    <3>2. \A j \in posting' : j \in posting \/ (j = [kind |-> "task", arg |-> t] /\ promise'[t] = "queued")
      BY <2>5, <3>1 DEF PushTask, TypeOK
    <3>3. \A i \in DOMAIN queue : queue[i].kind = "task" => queue[i].arg # t
      BY <3>1 DEF TasksQueued
    <3> QED BY <2>1, <3>1, <3>2, <3>3 DEF TasksQueued
  <2>6. ASSUME NEW j \in Posted, Schedule(j) PROVE TasksQueued'
    <3>1. /\ queue' = Enqueued(queue, j.kind, j.arg) /\ j \in posting /\ posting' = posting \ {j}
          /\ promise' = promise /\ j \in Job
      BY <2>6, ScheduledJob DEF Schedule, Posted
    <3>2. /\ Len(queue) \in Nat /\ DOMAIN queue = 1..Len(queue)
          /\ DOMAIN queue' = 1..(Len(queue) + 1)
          /\ \A i \in 1..Len(queue) : queue'[i] = queue[i]
          /\ queue'[Len(queue) + 1] = j
      BY <1>1, <3>1, Appended, JobParts
    <3>3. \A i \in 1..Len(queue) : queue[i].kind = "task" =>
            queue[i] \in Job /\ queue[i] # j /\ queue[i] \notin posting'
      BY <1>1, <3>1, <3>2, ElementOfSeq DEF TasksQueued
    <3>4. \A i \in 1..Len(queue) : queue[i].kind = "task" /\ j.kind = "task" => queue[i].arg # j.arg
      BY <3>1, <3>3, JobParts
    <3>5. \A i \in DOMAIN queue' : i \in 1..Len(queue) \/ i = Len(queue) + 1
      BY <3>2
    <3>6. \A i \in DOMAIN queue' : queue'[i].kind = "task" =>
            promise'[queue'[i].arg] = "queued" /\ queue'[i] \notin posting'
      BY <3>1, <3>2, <3>3, <3>5 DEF TasksQueued
    <3>7. \A i, k \in DOMAIN queue' :
            queue'[i].kind = "task" /\ queue'[k].kind = "task" /\ queue'[i].arg = queue'[k].arg => i = k
      BY <3>2, <3>4, <3>5 DEF TasksQueued
    <3> QED BY <3>1, <3>6, <3>7 DEF TasksQueued
  <2> QED BY <2>2, <2>3, <2>4, <2>5, <2>6 DEF AddsJob, ThreadStep
<1> QED BY <1>3, <1>4

-----------------------------------------------------------------------------
(* The theorems                                                            *)

Books == StackIsRunning /\ Discipline /\ Ledger /\ TasksQueued

LEMMA BooksInit ==
  ASSUME Init
  PROVE  Books /\ Contract!Init
<1>1. StackIsRunning /\ Discipline
  BY DEF Init, PoolInit, StackIsRunning, Discipline, PoolIsSound, BusyIsCheckedOut,
     RunningIsOnStack, RunOwnsThread, CompletionMatchesOwner, Idle, Co
<1>2. None \notin Promise
  BY RuntimeAssumption DEF Handler
<1>3. Ledger
  BY <1>2 DEF Init, Ledger, Idle, NoRun, Starting, ActiveTaskTracked, PromisesIntact
<1>4. TasksQueued
  BY DEF Init, TasksQueued
<1>5. Contract!Init
  <2>1. queue = <<>> /\ posting = {}
    BY DEF Init
  <2>2. PassesDue = 0
    <3>1. {i \in DOMAIN queue : queue[i] = PassJob} = {}
      BY <2>1
    <3> QED BY <2>1, <3>1, FS_EmptySet DEF PassesDue
  <2> QED BY <2>2 DEF Init, Contract!Init, Contract!Submissions, Promise
<1> QED BY <1>1, <1>3, <1>4, <1>5 DEF Books

LEMMA BooksStep ==
  ASSUME Held \subseteq ScriptCo, TypeOK, TypeOK', Books, [Next]_vars
  PROVE  Books' /\ ContractStep
<1>1. Sound
  BY StepSound DEF Books
<1>2. StackIsRunning' /\ Discipline'
  BY StackStep, DisciplineStep DEF Books
<1>3. TasksQueued'
  BY <1>1, TasksQueuedStep DEF Books
<1> QED BY <1>1, <1>2, <1>3 DEF Books, Sound

\* A task that was started and not settled is either running or registered with
\* the coroutine that will settle it: none is forgotten by a yield, a stale
\* completion, an interrupt or a thread that is used again.
THEOREM NoTaskIsForgotten ==
  ASSUME Held \subseteq ScriptCo
  PROVE  Spec => []ActiveTaskTracked
<1>1. Books => ActiveTaskTracked
  BY DEF Books, Ledger
<1> QED BY <1>1, BooksInit, BooksStep, TypeCorrect, PTL DEF Spec

\* No promise is settled twice, and none is destroyed unsettled: std::promise
\* would throw, or its host would wait for ever.
THEOREM PromisesStayIntact ==
  ASSUME Held \subseteq ScriptCo
  PROVE  Spec => []PromisesIntact
<1>1. Books => PromisesIntact
  BY DEF Books, Ledger
<1> QED BY <1>1, BooksInit, BooksStep, TypeCorrect, PTL DEF Spec

\* The runtime implements the contract it has with its hosts: a submission is
\* refused only while a flag is up, starts once, ends once, and every Interrupt
\* is carried out once, by ending whatever runs then, also when a ClearInterrupt
\* from another host has taken its flag down in the meantime.
THEOREM ImplementsTaskContract ==
  ASSUME Held \subseteq ScriptCo
  PROVE  Spec => KeepsTaskContract
<1> QED BY BooksInit, BooksStep, TypeCorrect, PTL
        DEF Spec, KeepsTaskContract, Contract!Spec, ContractStep, Contract!contractVars
=============================================================================
