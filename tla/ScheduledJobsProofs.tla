------------------------ MODULE ScheduledJobsProofs ------------------------
(***************************************************************************)
(* Theorems about ScheduledJobs, for any number of ticks, callers, keys,   *)
(* rows, requests and failures.                                            *)
(***************************************************************************)
EXTENDS ScheduledJobs, TLAPS

\* What a tick has in hand fits its phase, and no job is in hand twice.
ShapeOf(w) ==
    /\ w.phase \in {"idle", "reap", "claim"} => HeldOf(w) = {}
    /\ w.phase \in {"beat", "handler", "ok", "chain", "hold", "fail", "catchhold"}
         => w.cur \in Jobs
    /\ w.phase \in {"loop", "release"} => w.cur = NoJob
    /\ w.cur \notin w.batch \cup w.later
    /\ w.batch \cap w.later = {}

Shape == \A t \in Ticks : ShapeOf(work[t])

\* Rows are numbered in the order of their insertion.
Numbered ==
    /\ \A id \in Ids : rows[id].status = "none" <=> id > inserted
    /\ \A id \in Ids : rows[id].status # "none" => rows[id].request \in Requests

\* Ticks and callers know inserted rows only.
Known ==
    /\ \A t \in Ticks : \A job \in Held(t) : job.id <= inserted
    /\ \A c \in Callers : calls[c].step = "update" => calls[c].id \in Ids

\* lockedAt orders the rows.
LockOrder == \A x, y \in Ids : x \in rows[y].older => y \notin rows[x].older

\* A tick that works has the lock.
LockHolder ==
    overruns = 0 => \A t \in Ticks : work[t].phase # "idle" => lock = t

\* A row that may run has an attempt left.
AttemptLeft ==
    overruns = 0 => \A id \in Ids :
        /\ rows[id].attempts <= MaxAttempts
        /\ rows[id].status \in {"PENDING", "RUNNING"} => rows[id].attempts < MaxAttempts

IInv ==
    /\ TypeOK /\ Shape /\ Numbered /\ Known /\ LockOrder /\ OnePendingPerKey
    /\ LockHolder /\ HeldJobsCurrent /\ AttemptLeft

-----------------------------------------------------------------------------
\* What Moved changes, and that it keeps the type of a row.
LEMMA MovedType ==
    ASSUME NEW row \in Row, NEW status \in Status, NEW attempts \in Nat,
           NEW due \in BOOLEAN
    PROVE  /\ Moved(row, status, attempts, due) \in Row
           /\ Moved(row, status, attempts, due).key = row.key
           /\ Moved(row, status, attempts, due).request = row.request
           /\ Moved(row, status, attempts, due).status = status
           /\ Moved(row, status, attempts, due).attempts = attempts
           /\ Moved(row, status, attempts, due).older = {}
BY DEF Moved, Row

\* What Locked changes, and that it keeps the type of the table.
LEMMA LockedType ==
    ASSUME TypeOK, NEW S \in SUBSET Ids
    PROVE  /\ Locked(S) \in [Ids -> Row]
           /\ \A id \in Ids : /\ Locked(S)[id].key = rows[id].key
                              /\ Locked(S)[id].request = rows[id].request
                              /\ Locked(S)[id].attempts = rows[id].attempts
           /\ \A id \in S : Locked(S)[id].status = "RUNNING"
           /\ \A id \in Ids \ S : Locked(S)[id].status = rows[id].status
           /\ \A id \in S : Locked(S)[id].older \cap S = {}
           /\ \A id \in Ids \ S : Locked(S)[id].older = rows[id].older \ S
<1>1. rows \in [Ids -> Row]
  BY DEF TypeOK
<1>0. \A id \in S : Older(id, S) \subseteq Ids /\ Older(id, S) \cap S = {}
  BY DEF Older, Having
<1>2. ASSUME NEW id \in S
      PROVE  [rows[id] EXCEPT !.status = "RUNNING", !.elapsed = FALSE,
                              !.older = Older(id, S)] \in Row
  <2>1. id \in Ids /\ Older(id, S) \subseteq Ids
    BY <1>0
  <2>2. rows[id] \in Row
    BY <1>1, <2>1
  <2>. QED  BY <2>1, <2>2 DEF Row, Status
<1>3. ASSUME NEW id \in Ids PROVE [rows[id] EXCEPT !.older = @ \ S] \in Row
  BY <1>1, <1>3 DEF Row
<1>4. Locked(S) \in [Ids -> Row]
  BY <1>2, <1>3 DEF Locked
<1>5. \A id \in S :
         /\ Locked(S)[id] = [rows[id] EXCEPT !.status = "RUNNING", !.elapsed = FALSE,
                                              !.older = Older(id, S)]
         /\ rows[id] \in Row
  BY <1>1 DEF Locked
<1>6. \A id \in Ids \ S :
         Locked(S)[id] = [rows[id] EXCEPT !.older = rows[id].older \ S] /\ rows[id] \in Row
  BY <1>1 DEF Locked
<1>7. ASSUME NEW id \in S
      PROVE  /\ Locked(S)[id].key = rows[id].key
             /\ Locked(S)[id].request = rows[id].request
             /\ Locked(S)[id].attempts = rows[id].attempts
             /\ Locked(S)[id].status = "RUNNING"
             /\ Locked(S)[id].older \cap S = {}
  BY <1>0, <1>5, <1>7 DEF Row
<1>8. ASSUME NEW id \in Ids \ S
      PROVE  /\ Locked(S)[id].key = rows[id].key
             /\ Locked(S)[id].request = rows[id].request
             /\ Locked(S)[id].attempts = rows[id].attempts
             /\ Locked(S)[id].status = rows[id].status
             /\ Locked(S)[id].older = rows[id].older \ S
  BY <1>6, <1>8 DEF Row
<1>. QED  BY <1>4, <1>7, <1>8

-----------------------------------------------------------------------------
\* The initial states.
LEMMA InitInv == Init => IInv
<1>. SUFFICES ASSUME Init PROVE IInv
  OBVIOUS
<1>1. NoRow \in Row
  BY DEF NoRow, Row, Status
<1>2. NoCall \in Call
  BY DEF NoCall, Call
<1>3. Idle \in Tick /\ HeldOf(Idle) = {} /\ ShapeOf(Idle)
  BY DEF Idle, Tick, Phases, HeldOf, ShapeOf
<1>4. WithinCap /\ AttemptLeft
  BY JobsAssumption DEF Init, WithinCap, AttemptLeft, NoRow
<1>5. TypeOK
  BY <1>1, <1>2, <1>3, <1>4, JobsAssumption DEF Init, TypeOK
<1>6. Shape /\ Known /\ HeldJobsCurrent
  BY <1>3 DEF Init, Shape, Known, HeldJobsCurrent, Held, NoCall
<1>7. Numbered
  BY DEF Init, Numbered, NoRow, Ids
<1>8. LockOrder /\ OnePendingPerKey /\ LockHolder
  BY DEF Init, LockOrder, OnePendingPerKey, LockHolder, Having, NoRow, Idle
<1>. QED  BY <1>4, <1>5, <1>6, <1>7, <1>8 DEF IInv

-----------------------------------------------------------------------------
Busy == {"beat", "handler", "ok", "chain", "hold", "fail", "catchhold"}

\* The state w of tick t after a step in which it takes on no new job.
KeptBy(t, w) ==
    /\ work' = [work EXCEPT ![t] = w]
    /\ w \in Tick /\ ShapeOf(w)
    /\ HeldOf(w) \subseteq Held(t)

\* Going to a phase that fits what the tick has in hand.
LEMMA GotoKeeps ==
    ASSUME TypeOK, Shape, NEW t \in Ticks, NEW phase \in Phases, Goto(t, phase),
           phase \in {"idle", "reap", "claim"} => Held(t) = {},
           phase \in Busy => work[t].cur \in Jobs,
           phase \in {"loop", "release"} => work[t].cur = NoJob
    PROVE  \E w : KeptBy(t, w) /\ w.phase = phase
<1>. DEFINE w == [work[t] EXCEPT !.phase = phase]
<1>1. work[t] \in Tick /\ ShapeOf(work[t])
  BY DEF TypeOK, Shape
<1>2. w \in Tick /\ w.phase = phase /\ w.batch = work[t].batch /\ w.later = work[t].later
        /\ w.cur = work[t].cur
  BY <1>1 DEF Tick
<1>3. work' = [work EXCEPT ![t] = w]
  BY DEF Goto
<1>. HIDE DEF w
<1>4. HeldOf(w) = Held(t)
  BY <1>2 DEF HeldOf, Held
<1>5. ShapeOf(w)
  BY <1>1, <1>2, <1>4 DEF ShapeOf, Busy
<1>. QED  BY <1>2, <1>3, <1>4, <1>5 DEF KeptBy

\* Going on with the next job: the one in hand is not held any more.
LEMMA NextJobKeeps ==
    ASSUME TypeOK, Shape, NEW t \in Ticks, NextJob(t)
    PROVE  \E w : KeptBy(t, w) /\ work[t].cur \notin HeldOf(w) /\ w.phase = "loop"
<1>. DEFINE w == [work[t] EXCEPT !.phase = "loop", !.cur = NoJob]
<1>1. work[t] \in Tick /\ ShapeOf(work[t])
  BY DEF TypeOK, Shape
<1>2. w \in Tick /\ w.phase = "loop" /\ w.batch = work[t].batch /\ w.later = work[t].later
        /\ w.cur = NoJob
  BY <1>1 DEF Tick, Phases
<1>3. NoJob \notin Jobs
  BY DEF NoJob, Jobs, Ids
<1>4. work' = [work EXCEPT ![t] = w]
  BY DEF NextJob
<1>. HIDE DEF w
<1>5. NoJob \notin w.batch \cup w.later
  BY <1>1, <1>2, <1>3 DEF Tick
<1>6. ShapeOf(w)
  BY <1>1, <1>2, <1>5 DEF ShapeOf
<1>7. HeldOf(w) \subseteq Held(t) /\ work[t].cur \notin HeldOf(w)
  BY <1>1, <1>2 DEF HeldOf, Held, ShapeOf
<1>. QED  BY <1>2, <1>4, <1>6, <1>7 DEF KeptBy

\* Handing back a deferred job: it is not held any more.
LEMMA ReleaseKeeps ==
    ASSUME TypeOK, Shape, NEW t \in Ticks, work[t].phase = "release",
           NEW job \in work[t].later,
           work' = [work EXCEPT ![t] = [work[t] EXCEPT !.later = work[t].later \ {job}]]
    PROVE  \E w : KeptBy(t, w) /\ job \notin HeldOf(w) /\ w.phase = "release"
<1>. DEFINE w == [work[t] EXCEPT !.later = work[t].later \ {job}]
<1>1. work[t] \in Tick /\ ShapeOf(work[t])
  BY DEF TypeOK, Shape
<1>2. w \in Tick /\ w.phase = "release" /\ w.cur = work[t].cur
        /\ w.batch = work[t].batch /\ w.later = work[t].later \ {job}
  BY <1>1 DEF Tick
<1>3. work' = [work EXCEPT ![t] = w]
  OBVIOUS
<1>. HIDE DEF w
<1>4. HeldOf(w) \subseteq Held(t) /\ job \notin HeldOf(w)
  BY <1>1, <1>2 DEF HeldOf, Held, ShapeOf
<1>5. ShapeOf(w)
  BY <1>1, <1>2 DEF ShapeOf
<1>. QED  BY <1>2, <1>3, <1>4, <1>5 DEF KeptBy

\* A tick that becomes idle holds nothing.
LEMMA IdleKeeps ==
    ASSUME TypeOK, NEW t \in Ticks, work' = [work EXCEPT ![t] = Idle]
    PROVE  KeptBy(t, Idle)
BY DEF KeptBy, Idle, Tick, Phases, ShapeOf, HeldOf

\* The state of a tick after any step of its own but a claim.
LEMMA WorkStep ==
    ASSUME TypeOK, Shape, NEW t \in Ticks, Run(t) \/ Throw(t) \/ Crash(t), ~Claim(t)
    PROVE  \E w : KeptBy(t, w)
<1>0. work[t] \in Tick /\ ShapeOf(work[t]) /\ Held(t) = HeldOf(work[t])
  BY DEF TypeOK, Shape, Held
<1>1. CASE Begin(t)
  BY <1>0, <1>1, GotoKeeps DEF Begin, ShapeOf, Phases, Busy
<1>2. CASE Reap(t)
  BY <1>0, <1>2, GotoKeeps DEF Reap, ShapeOf, Phases, Busy
<1>3. CASE Pick(t)
  <2>1. PICK job \in work[t].batch, phase \in {"beat", "hold"} :
          work' = [work EXCEPT ![t] = [work[t] EXCEPT !.phase = phase, !.cur = job,
                                    !.batch = work[t].batch \ {job}, !.ran = TRUE]]
    BY <1>3 DEF Pick
  <2>. DEFINE w == [work[t] EXCEPT !.phase = phase, !.cur = job,
                                   !.batch = work[t].batch \ {job}, !.ran = TRUE]
  <2>2. job \in Jobs
    BY <1>0 DEF Tick
  <2>3. w \in Tick /\ w.phase = phase /\ w.cur = job /\ w.batch = work[t].batch \ {job}
          /\ w.later = work[t].later
    BY <1>0, <2>2 DEF Tick, Phases
  <2>. HIDE DEF w
  <2>4. ShapeOf(w)
    BY <1>0, <2>2, <2>3 DEF ShapeOf
  <2>5. HeldOf(w) \subseteq Held(t)
    BY <1>0, <2>3 DEF HeldOf
  <2>. QED  BY <2>1, <2>3, <2>4, <2>5 DEF KeptBy, w
<1>4. CASE Defer(t)
  <2>1. PICK job \in work[t].batch :
          work' = [work EXCEPT ![t] = [work[t] EXCEPT !.batch = work[t].batch \ {job},
                                                   !.later = work[t].later \cup {job}]]
    BY <1>4 DEF Defer
  <2>. DEFINE w == [work[t] EXCEPT !.batch = work[t].batch \ {job},
                                   !.later = work[t].later \cup {job}]
  <2>2. w \in Tick /\ w.phase = work[t].phase /\ w.cur = work[t].cur
          /\ w.batch = work[t].batch \ {job} /\ w.later = work[t].later \cup {job}
    BY <1>0 DEF Tick
  <2>. HIDE DEF w
  <2>3. HeldOf(w) = Held(t)
    BY <1>0, <2>2 DEF HeldOf
  <2>4. ShapeOf(w)
    BY <1>0, <2>2, <2>3 DEF ShapeOf
  <2>. QED  BY <2>1, <2>2, <2>3, <2>4 DEF KeptBy, w
<1>5. CASE Beat(t)
  BY <1>0, <1>5, GotoKeeps DEF Beat, ShapeOf, Phases, Busy
<1>6. CASE Handle(t)
  <2>1. PICK phase \in {"ok", "chain", "hold", "fail", "catchhold"} : Goto(t, phase)
    BY <1>6 DEF Handle
  <2>. QED  BY <1>0, <1>6, <2>1, GotoKeeps DEF Handle, ShapeOf, Phases, Busy
<1>7. ASSUME NextJob(t) PROVE \E w : KeptBy(t, w)
  BY <1>7, NextJobKeeps
<1>8. ASSUME Catch(t), work[t].phase \in Busy PROVE \E w : KeptBy(t, w)
  <2>1. PICK phase \in {"fail", "catchhold"} : Goto(t, phase)
    BY <1>8 DEF Catch
  <2>. QED  BY <1>0, <1>8, <2>1, GotoKeeps DEF ShapeOf, Phases, Busy
<1>9. CASE Done(t) \/ Chain(t) \/ Hold(t) \/ Fail(t)
  BY <1>7, <1>8, <1>9, Zenon DEF Done, Chain, Hold, Fail, Busy
<1>10. CASE EndLoop(t)
  BY <1>0, <1>10, GotoKeeps DEF EndLoop, ShapeOf, Phases, Busy
<1>11. ASSUME NEW job \in work[t].later, work[t].phase = "release",
              work' = [work EXCEPT ![t] = [work[t] EXCEPT !.later = work[t].later \ {job}]]
       PROVE  \E w : KeptBy(t, w)
  BY <1>11, ReleaseKeeps
<1>12. CASE Release(t)
  BY <1>11, <1>12 DEF Release
<1>13. CASE End(t) \/ Crash(t)
  BY <1>13, IdleKeeps DEF End, Crash
<1>14. CASE Throw(t)
  <2>1. CASE work[t].phase = "reap" /\ Goto(t, "claim")
    BY <1>0, <2>1, GotoKeeps DEF ShapeOf, Phases, Busy
  <2>2. CASE work[t].phase = "claim" /\ Goto(t, "release")
    <3>1. work[t].cur = NoJob
      BY <1>0, <2>2 DEF ShapeOf, HeldOf
    <3>. QED  BY <2>2, <3>1, GotoKeeps DEF Phases, Busy
  <2>. QED  BY <1>7, <1>8, <1>11, <1>14, <2>1, <2>2 DEF Throw, Busy
<1>. QED  BY <1>1, <1>2, <1>3, <1>4, <1>5, <1>6, <1>9, <1>10, <1>12, <1>13, <1>14 DEF Run

-----------------------------------------------------------------------------
\* The write of one row other than a lock: the row keeps its key, and becomes
\* PENDING only if the index allows it.
Writes(id, row) ==
    /\ id \in Ids /\ row \in Row
    /\ rows' = [rows EXCEPT ![id] = row]
    /\ rows[id].status # "none" /\ row.status # "none" /\ row.request \in Requests
    /\ row.key = rows[id].key
    /\ row.status = "PENDING" => rows[id].status = "PENDING" \/ ~Conflict(id)
    /\ row.older \in {rows[id].older, {}}

\* Every way a step changes the table.
TableStep ==
    \/ rows' = rows /\ inserted' = inserted
    \/ (\E id, row : Writes(id, row)) /\ inserted' = inserted
    \/ \E c \in Callers : Create(c) /\ rows' # rows
    \/ (\E t \in Ticks : Reap(t)) /\ inserted' = inserted
    \/ \E S \in SUBSET Ids :
          /\ rows' = Locked(S) /\ inserted' = inserted
          /\ \A id \in S : rows[id].status \in {"PENDING", "RUNNING"}

\* A row in hand was inserted.
LEMMA HeldInserted ==
    ASSUME IInv, NEW t \in Ticks, NEW job \in Held(t)
    PROVE  /\ job \in Jobs /\ job.id \in Ids /\ job.id <= inserted
           /\ rows[job.id] \in Row
           /\ rows[job.id].status # "none" /\ rows[job.id].request \in Requests
<1>1. work[t] \in Tick
  BY DEF IInv, TypeOK
<1>2. job \in Jobs
  BY <1>1 DEF Held, HeldOf, Tick
<1>3. job.id \in Ids
  BY <1>2 DEF Jobs
<1>4. job.id <= inserted /\ rows[job.id] \in Row
  BY <1>3 DEF IInv, Known, TypeOK
<1>5. inserted \in Nat /\ job.id \in Nat
  BY <1>3, JobsAssumption DEF IInv, TypeOK, Ids
<1>6. rows[job.id].status # "none"
  BY <1>3, <1>4, <1>5 DEF IInv, Numbered
<1>. QED  BY <1>2, <1>3, <1>4, <1>6 DEF IInv, Numbered

\* In a busy phase cur is in hand.
LEMMA CurHeld ==
    ASSUME IInv, NEW t \in Ticks, work[t].phase \in Busy
    PROVE  work[t].cur \in Jobs /\ work[t].cur \in Held(t)
<1>1. work[t].cur \in Jobs
  BY DEF IInv, Shape, ShapeOf, Busy
<1>2. NoJob \notin Jobs
  BY DEF NoJob, Jobs, Ids
<1>. QED  BY <1>1, <1>2 DEF Held, HeldOf

\* A row of the table goes from one status to another.
LEMMA MoveWrites ==
    ASSUME IInv, NEW id \in Ids, rows[id].status # "none",
           NEW status \in Status \ {"none"}, NEW attempts \in Nat, NEW due \in BOOLEAN,
           status = "PENDING" => ~Conflict(id),
           rows' = [rows EXCEPT ![id] = Moved(rows[id], status, attempts, due)]
    PROVE  \E row : Writes(id, row) /\ row = Moved(rows[id], status, attempts, due)
<1>1. rows[id] \in Row /\ rows[id].request \in Requests
  BY DEF IInv, TypeOK, Numbered
<1>. DEFINE row == Moved(rows[id], status, attempts, due)
<1>2. /\ row \in Row /\ row.key = rows[id].key /\ row.request = rows[id].request
      /\ row.status = status /\ row.older = {}
  BY <1>1, MovedType
<1>3. rows' = [rows EXCEPT ![id] = row]
  OBVIOUS
<1>4. row = Moved(rows[id], status, attempts, due)
  OBVIOUS
<1>. HIDE DEF row
<1>5. Writes(id, row)
  BY <1>1, <1>2, <1>3 DEF Writes
<1>. QED  BY <1>4, <1>5

\* Every step changes the table in one of the ways of TableStep.
LEMMA TableSteps == ASSUME IInv, Next PROVE TableStep
<1>0. rows \in [Ids -> Row]
  BY DEF IInv, TypeOK
<1>1. ASSUME NEW c \in Callers, Request(c) PROVE TableStep
  <2>1. CASE Reschedule(c) /\ Reschedulable(calls[c].id)
    <3>. DEFINE id == calls[c].id
                row == [rows[id] EXCEPT !.request = requests + 1, !.elapsed = FALSE]
    <3>1. id \in Ids /\ rows[id].status = "PENDING"
      BY <2>1 DEF Reschedule, Reschedulable, IInv, Known
    <3>2. requests + 1 \in Requests
      BY <2>1, JobsAssumption DEF Reschedule, Requests, IInv, TypeOK
    <3>3. rows[id] \in Row
      BY <1>0, <3>1
    <3>4. /\ row \in Row /\ row.status = "PENDING" /\ row.key = rows[id].key
          /\ row.request = requests + 1 /\ row.older = rows[id].older
      BY <3>1, <3>2, <3>3 DEF Row
    <3>5. rows' = [rows EXCEPT ![id] = row] /\ inserted' = inserted
      BY <2>1 DEF Reschedule
    <3>. HIDE DEF row, id
    <3>6. Writes(id, row)
      BY <3>1, <3>2, <3>4, <3>5 DEF Writes
    <3>. QED  BY <3>5, <3>6 DEF TableStep
  <2>2. CASE Create(c) /\ rows' # rows
    BY <2>2 DEF TableStep
  <2>3. CASE Create(c) /\ rows' = rows
    <3>1. \/ calls[c].key # NoKey /\ Pending(calls[c].key) # {}
          \/ inserted' = inserted + 1
      BY <2>3 DEF Create
    <3>2. CASE inserted' = inserted + 1
      <4>1. inserted + 1 \in Ids /\ inserted + 1 > inserted
        BY <2>3, <3>2, JobsAssumption DEF Create, Ids, IInv, TypeOK
      <4>2. rows[inserted + 1].status = "none"
        BY <4>1 DEF IInv, Numbered
      <4>. DEFINE row == [NoRow EXCEPT !.status = "PENDING", !.key = calls[c].key,
                                       !.request = requests + 1]
      <4>3. row.status = "PENDING"
        BY DEF NoRow
      <4>4. inserted \in Nat
        BY JobsAssumption DEF IInv, TypeOK
      <4>5. rows' = [rows EXCEPT ![inserted + 1] = row]
        BY <2>3, <3>2, <4>4 DEF Create
      <4>6. rows'[inserted + 1] = row
        <5>. HIDE DEF row
        <5>. QED  BY <1>0, <4>1, <4>5
      <4>. QED  BY <2>3, <4>2, <4>3, <4>6
    <3>. QED  BY <2>3, <3>1, <3>2 DEF Create, TableStep
  <2>. QED  BY <1>1, <2>1, <2>2, <2>3
            DEF Request, Schedule, Reschedule, Collapse, TableStep
<1>2. CASE Cancel
  <2>1. PICK id \in Ids : /\ rows[id].status = "PENDING" /\ inserted' = inserted
                         /\ rows' = [rows EXCEPT ![id] =
                                        Moved(rows[id], "CANCELLED", rows[id].attempts, FALSE)]
    BY <1>2 DEF Cancel, Cancellable, Having
  <2>2. rows[id].attempts \in Nat
    BY <1>0 DEF Row
  <2>3. \E row : Writes(id, row)
    BY <2>1, <2>2, MoveWrites DEF Status
  <2>. QED  BY <2>1, <2>3 DEF TableStep
<1>3. ASSUME NEW t \in Ticks, Done(t) \/ Chain(t) \/ Hold(t) \/ Fail(t) PROVE TableStep
  <2>. DEFINE id == work[t].cur.id
  <2>1. work[t].cur \in Jobs /\ work[t].cur \in Held(t)
    BY <1>3, CurHeld DEF Done, Chain, Hold, Fail, Busy
  <2>2. id \in Ids /\ rows[id] \in Row /\ rows[id].status # "none"
          /\ rows[id].request \in Requests
    BY <2>1, HeldInserted
  <2>3. rows[id].attempts \in Nat /\ work[t].cur.attempts + 1 \in Nat
    BY <2>1, <2>2 DEF Row, Jobs
  <2>4. inserted' = inserted
    BY <1>3 DEF Done, Chain, Hold, Fail
  <2>5. CASE Done(t)
    <3>1. rows' = [rows EXCEPT ![id] = Moved(rows[id], "DONE", rows[id].attempts, FALSE)]
      BY <2>5 DEF Done
    <3>. HIDE DEF id
    <3>2. "DONE" \in Status \ {"none"} /\ "DONE" # "PENDING"
      BY DEF Status
    <3>3. \E row : Writes(id, row)
      BY <2>2, <2>3, <3>1, <3>2, MoveWrites
    <3>. QED  BY <2>4, <3>3 DEF TableStep
  <2>6. CASE Hold(t)
    <3>1. \/ rows' = rows
          \/ ~Conflict(id) /\ rows' = [rows EXCEPT ![id] =
                                Moved(rows[id], "PENDING", rows[id].attempts, TRUE)]
      BY <2>6 DEF Hold
    <3>. HIDE DEF id
    <3>2. CASE ~Conflict(id) /\ rows' = [rows EXCEPT ![id] =
                                Moved(rows[id], "PENDING", rows[id].attempts, TRUE)]
      <4>1. \E row : Writes(id, row)
        BY <2>2, <2>3, <3>2, MoveWrites DEF Status
      <4>. QED  BY <2>4, <4>1 DEF TableStep
    <3>. QED  BY <2>4, <3>1, <3>2 DEF TableStep
  <2>7. CASE Fail(t)
    <3>. DEFINE attempts == work[t].cur.attempts + 1
    <3>1. \/ rows' = rows
          \/ rows' = [rows EXCEPT ![id] = Moved(rows[id], "FAILED", attempts, FALSE)]
          \/ ~Conflict(id) /\ rows' = [rows EXCEPT ![id] =
                                Moved(rows[id], "PENDING", attempts, FALSE)]
      BY <2>7 DEF Fail
    <3>2. attempts \in Nat
      BY <2>3
    <3>. HIDE DEF id, attempts
    <3>3. CASE rows' = [rows EXCEPT ![id] = Moved(rows[id], "FAILED", attempts, FALSE)]
      <4>1. "FAILED" \in Status \ {"none"} /\ "FAILED" # "PENDING"
        BY DEF Status
      <4>2. \E row : Writes(id, row)
        BY <2>2, <3>2, <3>3, <4>1, MoveWrites
      <4>. QED  BY <2>4, <4>2 DEF TableStep
    <3>4. CASE ~Conflict(id) /\ rows' = [rows EXCEPT ![id] =
                                Moved(rows[id], "PENDING", attempts, FALSE)]
      <4>1. \E row : Writes(id, row)
        BY <2>2, <3>2, <3>4, MoveWrites DEF Status
      <4>. QED  BY <2>4, <4>1 DEF TableStep
    <3>. QED  BY <2>4, <3>1, <3>3, <3>4 DEF TableStep
  <2>8. CASE Chain(t)
    <3>1. PICK request \in {requests + 1, rows[id].request} :
            /\ request = requests + 1 => requests < MaxRequests \/ request = rows[id].request
            /\ \/ rows' = rows
               \/ ~Conflict(id) /\ rows' = [rows EXCEPT ![id] =
                     [Moved(rows[id], "PENDING", 0, FALSE) EXCEPT !.request = request]]
      BY <2>8 DEF Chain
    <3>2. request \in Requests
      BY <2>2, <3>1, JobsAssumption DEF Requests, IInv, TypeOK
    <3>. DEFINE row == [Moved(rows[id], "PENDING", 0, FALSE) EXCEPT !.request = request]
    <3>3. /\ row \in Row /\ row.key = rows[id].key /\ row.status = "PENDING"
          /\ row.request = request /\ row.older = {}
      BY <2>2, <3>2 DEF Moved, Row, Status
    <3>4. CASE ~Conflict(id) /\ rows' = [rows EXCEPT ![id] = row]
      <4>. HIDE DEF id, row
      <4>1. Writes(id, row)
        BY <2>2, <3>2, <3>3, <3>4 DEF Writes
      <4>. QED  BY <2>4, <4>1 DEF TableStep
    <3>5. CASE rows' = rows
      BY <2>4, <3>5 DEF TableStep
    <3>. QED  BY <3>1, <3>4, <3>5
  <2>. QED  BY <1>3, <2>5, <2>6, <2>7, <2>8
<1>4. ASSUME NEW t \in Ticks, Release(t) PROVE TableStep
  <2>1. PICK job \in work[t].later :
          \/ rows' = rows
          \/ /\ ~Conflict(job.id)
             /\ rows' = [rows EXCEPT ![job.id] =
                            Moved(rows[job.id], "PENDING", rows[job.id].attempts, TRUE)]
    BY <1>4 DEF Release
  <2>2. job \in Held(t)
    BY DEF Held, HeldOf
  <2>3. job.id \in Ids /\ rows[job.id] \in Row /\ rows[job.id].status # "none"
    BY <2>2, HeldInserted
  <2>4. rows[job.id].attempts \in Nat
    BY <2>3 DEF Row
  <2>5. rows' = rows \/ \E row : Writes(job.id, row)
    BY <2>1, <2>3, <2>4, MoveWrites DEF Status
  <2>. QED  BY <1>4, <2>5 DEF Release, TableStep
<1>5. ASSUME NEW t \in Ticks, Claim(t) PROVE TableStep
  <2>1. PICK S \in Take(Dues) : rows' = Locked(S)
    BY <1>5 DEF Claim
  <2>2. S \subseteq Ids /\ \A id \in S : rows[id].status = "PENDING"
    BY DEF Take, Dues, Due
  <2>. QED  BY <1>5, <2>1, <2>2 DEF Claim, TableStep
<1>6. ASSUME NEW t \in Ticks, Beat(t) PROVE TableStep
  <2>. DEFINE id == work[t].cur.id
  <2>1. work[t].cur \in Held(t)
    BY <1>6, CurHeld DEF Beat, Busy
  <2>2. id \in Ids
    BY <2>1, HeldInserted
  <2>3. \/ rows' = rows
        \/ rows[id].status = "RUNNING" /\ rows' = Locked({id})
    BY <1>6, Zenon DEF Beat
  <2>4. inserted' = inserted
    BY <1>6 DEF Beat
  <2>5. CASE rows[id].status = "RUNNING" /\ rows' = Locked({id})
    <3>. HIDE DEF id
    <3>1. {id} \in SUBSET Ids /\ \A x \in {id} : rows[x].status \in {"PENDING", "RUNNING"}
      BY <2>2, <2>5
    <3>. QED  BY <2>4, <2>5, <3>1 DEF TableStep
  <2>. QED  BY <2>3, <2>4, <2>5 DEF TableStep
<1>7. ASSUME NEW id \in Ids, Elapse(id) PROVE TableStep
  <2>. DEFINE row == [rows[id] EXCEPT !.elapsed = TRUE]
  <2>1. rows[id] \in Row /\ rows[id].status # "none" /\ rows[id].request \in Requests
    BY <1>0, <1>7 DEF Elapse, IInv, Numbered
  <2>2. /\ row \in Row /\ row.key = rows[id].key /\ row.status = rows[id].status
        /\ row.request = rows[id].request /\ row.older = rows[id].older
    BY <2>1 DEF Row
  <2>3. rows' = [rows EXCEPT ![id] = row]
    BY <1>7 DEF Elapse
  <2>. HIDE DEF row
  <2>4. Writes(id, row)
    BY <2>1, <2>2, <2>3 DEF Writes
  <2>. QED  BY <1>7, <2>4 DEF Elapse, TableStep
<1>8. ASSUME NEW t \in Ticks, Reap(t) PROVE TableStep
  BY <1>8 DEF Reap, TableStep
<1>9. ASSUME NEW t \in Ticks,
             \/ Begin(t) \/ Pick(t) \/ Defer(t) \/ Handle(t) \/ EndLoop(t) \/ End(t)
             \/ Throw(t) \/ Crash(t) \/ LoseLock(t)
      PROVE  TableStep
  BY <1>9 DEF Begin, Pick, Defer, Handle, EndLoop, End, Throw, Crash, LoseLock, TableStep
<1>10. CASE SetPolicy
  BY <1>10 DEF SetPolicy, TableStep
<1>. QED  BY <1>1, <1>2, <1>3, <1>4, <1>5, <1>6, <1>7, <1>8, <1>9, <1>10 DEF Next, Run

-----------------------------------------------------------------------------
(***************************************************************************)
(* The parts of IInv that speak of the table only                          *)
(***************************************************************************)

\* The row that Create inserts.
LEMMA CreateRow ==
    ASSUME IInv, NEW c \in Callers, Create(c), rows' # rows
    PROVE  /\ inserted + 1 \in Ids /\ inserted' = inserted + 1 /\ inserted \in Nat
           /\ \E row \in Row :
                /\ rows' = [rows EXCEPT ![inserted + 1] = row]
                /\ row.status = "PENDING" /\ row.request \in Requests
                /\ row.older = {} /\ row.attempts = 0
                /\ row.key = NoKey \/ Pending(row.key) = {}
<1>1. /\ calls[c].key = NoKey \/ Pending(calls[c].key) = {}
      /\ inserted < MaxRows /\ requests < MaxRequests /\ inserted' = inserted + 1
      /\ rows' = [rows EXCEPT ![inserted + 1] =
                     [NoRow EXCEPT !.status = "PENDING", !.key = calls[c].key,
                                   !.request = requests + 1]]
  BY DEF Create
<1>2. inserted \in Nat /\ inserted + 1 \in Ids /\ requests + 1 \in Requests
  BY <1>1, JobsAssumption DEF IInv, TypeOK, Ids, Requests
<1>3. calls[c].key \in Keys \cup {NoKey}
  BY DEF IInv, TypeOK, Call
<1>. DEFINE row == [NoRow EXCEPT !.status = "PENDING", !.key = calls[c].key,
                                 !.request = requests + 1]
<1>4. /\ row \in Row /\ row.status = "PENDING" /\ row.request \in Requests
      /\ row.older = {} /\ row.attempts = 0 /\ row.key = calls[c].key
  BY <1>2, <1>3 DEF NoRow, Row, Status
<1>5. rows' = [rows EXCEPT ![inserted + 1] = row]
  BY <1>1
<1>. HIDE DEF row
<1>. QED  BY <1>1, <1>2, <1>4, <1>5

\* What the reaper does to a row that is kept, retired, or revived.
Kept(id) == ~Stuck(id) /\ rows'[id] = rows[id]
Reaped(id, status) ==
    /\ Stuck(id) /\ rows[id].status = "RUNNING"
    /\ rows'[id] \in Row
    /\ rows'[id].key = rows[id].key /\ rows'[id].request = rows[id].request
    /\ rows'[id].attempts = rows[id].attempts
    /\ rows'[id].status = status /\ rows'[id].older = {}

LEMMA ReapRow ==
    ASSUME IInv, NEW t \in Ticks, Reap(t), NEW id \in Ids
    PROVE  Kept(id) \/ Reaped(id, "DONE") \/ (Reaped(id, "PENDING") /\ ~Retired(id))
<1>1. rows[id] \in Row /\ rows[id].attempts \in Nat
  BY DEF IInv, TypeOK, Row
<1>2. CASE ~Stuck(id)
  <2>1. rows'[id] = rows[id]
    BY <1>2 DEF Reap
  <2>. QED  BY <1>2, <2>1 DEF Kept
<1>3. CASE Stuck(id) /\ Retired(id)
  <2>1. rows'[id] = Moved(rows[id], "DONE", rows[id].attempts, FALSE)
    BY <1>3 DEF Reap
  <2>2. rows[id].status = "RUNNING"
    BY <1>3 DEF Stuck
  <2>3. Moved(rows[id], "DONE", rows[id].attempts, FALSE) \in Row
    BY <1>1 DEF Moved, Row, Status
  <2>. QED  BY <1>1, <1>3, <2>1, <2>2, <2>3 DEF Moved, Row, Reaped
<1>4. CASE Stuck(id) /\ ~Retired(id)
  <2>1. rows'[id] = Moved(rows[id], "PENDING", rows[id].attempts, TRUE)
    BY <1>4 DEF Reap
  <2>2. rows[id].status = "RUNNING"
    BY <1>4 DEF Stuck
  <2>3. Moved(rows[id], "PENDING", rows[id].attempts, TRUE) \in Row
    BY <1>1 DEF Moved, Row, Status
  <2>. QED  BY <1>1, <1>4, <2>1, <2>2, <2>3 DEF Moved, Row, Reaped
<1>. QED  BY <1>2, <1>3, <1>4

\* The table keeps its type, and rows stay numbered.
LEMMA NumberedStep ==
    ASSUME IInv, TableStep
    PROVE  rows' \in [Ids -> Row] /\ Numbered'
<1>1. rows \in [Ids -> Row] /\ Numbered /\ inserted \in Nat /\ Ids \subseteq Nat
  BY JobsAssumption DEF IInv, TypeOK, Ids
<1>2. CASE rows' = rows /\ inserted' = inserted
  BY <1>1, <1>2 DEF Numbered
<1>3. ASSUME NEW id, NEW row, Writes(id, row), inserted' = inserted
      PROVE  rows' \in [Ids -> Row] /\ Numbered'
  BY <1>1, <1>3 DEF Writes, Numbered
<1>4. ASSUME NEW c \in Callers, Create(c), rows' # rows
      PROVE  rows' \in [Ids -> Row] /\ Numbered'
  BY <1>1, <1>4, CreateRow DEF Numbered
<1>5. ASSUME NEW t \in Ticks, Reap(t), inserted' = inserted
      PROVE  rows' \in [Ids -> Row] /\ Numbered'
  <2>1. \A id \in Ids :
          /\ rows'[id].request = rows[id].request
          /\ \/ rows'[id] = rows[id]
             \/ rows[id].status = "RUNNING" /\ rows'[id].status \in {"PENDING", "DONE"}
    BY <1>5, ReapRow DEF Kept, Reaped
  <2>2. \A id \in Ids : rows'[id] \in Row
    BY <1>1, <1>5, ReapRow DEF Kept, Reaped
  <2>3. rows' \in [Ids -> Row]
    BY <1>5, <2>2 DEF Reap
  <2>. QED  BY <1>1, <1>5, <2>1, <2>3 DEF Numbered
<1>6. ASSUME NEW S \in SUBSET Ids, rows' = Locked(S), inserted' = inserted,
             \A id \in S : rows[id].status \in {"PENDING", "RUNNING"}
      PROVE  rows' \in [Ids -> Row] /\ Numbered'
  <2>1. TypeOK
    BY DEF IInv
  <2>. QED  BY <1>1, <1>6, <2>1, LockedType DEF Numbered
<1>. QED  BY <1>2, <1>3, <1>4, <1>5, <1>6 DEF TableStep

\* lockedAt stays an order.
LEMMA LockOrderStep == ASSUME IInv, TableStep PROVE LockOrder'
<1>1. rows \in [Ids -> Row] /\ LockOrder
  BY DEF IInv, TypeOK
<1>2. CASE rows' = rows
  BY <1>1, <1>2 DEF LockOrder
<1>3. ASSUME NEW id, NEW row, Writes(id, row) PROVE LockOrder'
  BY <1>1, <1>3 DEF Writes, LockOrder
<1>4. ASSUME NEW c \in Callers, Create(c), rows' # rows PROVE LockOrder'
  BY <1>1, <1>4, CreateRow DEF LockOrder
<1>5. ASSUME NEW t \in Ticks, Reap(t) PROVE LockOrder'
  <2>1. \A id \in Ids : rows'[id] = rows[id] \/ rows'[id].older = {}
    BY <1>5, ReapRow DEF Kept, Reaped
  <2>. QED  BY <1>1, <2>1 DEF LockOrder
<1>6. ASSUME NEW S \in SUBSET Ids, rows' = Locked(S) PROVE LockOrder'
  <2>1. TypeOK
    BY DEF IInv
  <2>. QED  BY <1>1, <1>6, <2>1, LockedType DEF LockOrder
<1>. QED  BY <1>2, <1>3, <1>4, <1>5, <1>6 DEF TableStep

\* The index: by the order of lockedAt, at most one stuck row of a key survives,
\* and only if the key has no PENDING row.
LEMMA OnePendingStep == ASSUME IInv, TableStep PROVE OnePendingPerKey'
<1>1. rows \in [Ids -> Row] /\ OnePendingPerKey
  BY DEF IInv, TypeOK
<1>2. CASE rows' = rows
  BY <1>1, <1>2 DEF OnePendingPerKey, Having
<1>3. ASSUME NEW id, NEW row, Writes(id, row) PROVE OnePendingPerKey'
  BY <1>1, <1>3 DEF Writes, OnePendingPerKey, Having, Pending, Conflict
<1>4. ASSUME NEW c \in Callers, Create(c), rows' # rows PROVE OnePendingPerKey'
  BY <1>1, <1>4, CreateRow DEF OnePendingPerKey, Having, Pending
<1>5. ASSUME NEW t \in Ticks, Reap(t) PROVE OnePendingPerKey'
  <2>. SUFFICES ASSUME NEW x \in Ids, NEW y \in Ids, x # y, rows'[x].key # NoKey,
                       rows'[x].status = "PENDING", rows'[y].status = "PENDING",
                       rows'[x].key = rows'[y].key
                PROVE  FALSE
    BY DEF OnePendingPerKey, Having
  <2>1. /\ Kept(x) \/ (Reaped(x, "PENDING") /\ ~Retired(x))
        /\ Kept(y) \/ (Reaped(y, "PENDING") /\ ~Retired(y))
    <3>1. ~Reaped(x, "DONE") /\ ~Reaped(y, "DONE")
      BY DEF Reaped
    <3>. QED  BY <1>5, <3>1, ReapRow
  <2>2. rows[x].key = rows[y].key /\ rows[x].key # NoKey
    BY <2>1 DEF Kept, Reaped
  <2>3. CASE Kept(x) /\ Kept(y)
    BY <1>1, <2>2, <2>3 DEF Kept, OnePendingPerKey, Having
  <2>4. CASE Reaped(x, "PENDING") /\ ~Retired(x) /\ Kept(y)
    BY <2>2, <2>4 DEF Kept, Retired, Pending, Having
  <2>5. CASE Kept(x) /\ Reaped(y, "PENDING") /\ ~Retired(y)
    BY <2>2, <2>5 DEF Kept, Retired, Pending, Having
  <2>6. CASE /\ Reaped(x, "PENDING") /\ ~Retired(x)
             /\ Reaped(y, "PENDING") /\ ~Retired(y)
    <3>1. Stuck(x) /\ Stuck(y) /\ Survivor(x) /\ Survivor(y)
      BY <2>2, <2>6, Zenon DEF Reaped, Retired
    <3>2. y \in rows[x].older /\ x \in rows[y].older
      BY <2>2, <3>1 DEF Survivor, Group
    <3>. QED  BY <3>2 DEF IInv, LockOrder
  <2>. QED  BY <2>1, <2>3, <2>4, <2>5, <2>6
<1>6. ASSUME NEW S \in SUBSET Ids, rows' = Locked(S) PROVE OnePendingPerKey'
  <2>1. TypeOK
    BY DEF IInv
  <2>. QED  BY <1>1, <1>6, <2>1, LockedType DEF OnePendingPerKey, Having
<1>. QED  BY <1>2, <1>3, <1>4, <1>5, <1>6 DEF TableStep

-----------------------------------------------------------------------------
(***************************************************************************)
(* The parts of IInv that speak of the ticks                               *)
(***************************************************************************)

\* The state of a tick after a claim: it holds rows that were PENDING.
LEMMA ClaimWork ==
    ASSUME IInv, NEW t \in Ticks, Claim(t)
    PROVE  \E S \in SUBSET Ids, w \in Tick :
             /\ rows' = Locked(S) /\ work' = [work EXCEPT ![t] = w]
             /\ ShapeOf(w) /\ w.phase = "loop"
             /\ \A id \in S : rows[id].status = "PENDING"
             /\ \A job \in HeldOf(w) : /\ job.id \in S
                                      /\ job.request = rows[job.id].request
                                      /\ job.attempts = rows[job.id].attempts
<1>. DEFINE JobOf(id) == [id |-> id, request |-> rows[id].request,
                          attempts |-> rows[id].attempts]
<1>1. PICK S \in Take(Dues) :
        /\ rows' = Locked(S)
        /\ work' = [work EXCEPT ![t] = [Idle EXCEPT !.phase = "loop",
                                          !.batch = {JobOf(id) : id \in S}]]
  BY DEF Claim
<1>2. S \subseteq Ids /\ \A id \in S : rows[id].status = "PENDING"
  BY DEF Take, Dues, Due
<1>3. \A id \in S : JobOf(id) \in Jobs
  <2>1. ASSUME NEW id \in S
        PROVE  id \in Ids /\ rows[id].request \in Requests /\ rows[id].attempts \in Nat
    BY <1>2 DEF IInv, TypeOK, Numbered, Row
  <2>. QED  BY <2>1 DEF Jobs
<1>. DEFINE batch == {JobOf(id) : id \in S}
            w == [Idle EXCEPT !.phase = "loop", !.batch = batch]
<1>4. batch \subseteq Jobs
  BY <1>3
<1>5. \A job \in batch : /\ job.id \in S /\ job.request = rows[job.id].request
                         /\ job.attempts = rows[job.id].attempts
  OBVIOUS
<1>6. work' = [work EXCEPT ![t] = w]
  BY <1>1
<1>7. NoJob \notin Jobs
  BY DEF NoJob, Jobs, Ids
<1>. HIDE DEF batch
<1>8. w \in Tick /\ w.phase = "loop" /\ w.cur = NoJob /\ w.batch = batch /\ w.later = {}
  BY <1>4 DEF Idle, Tick, Phases
<1>. HIDE DEF w
<1>9. ShapeOf(w) /\ HeldOf(w) = batch
  BY <1>4, <1>7, <1>8 DEF ShapeOf, HeldOf
<1>. QED  BY <1>1, <1>2, <1>5, <1>6, <1>8, <1>9

\* Every way a step changes the ticks: not at all, one tick on, or one claim.
WorkSteps ==
    \/ work' = work
    \/ \E t \in Ticks : \E w : KeptBy(t, w)
    \/ \E t \in Ticks : Claim(t)

LEMMA WorkStepsHold == ASSUME IInv, Next PROVE WorkSteps
<1>1. TypeOK /\ Shape
  BY DEF IInv
<1>2. ASSUME NEW t \in Ticks, Run(t) \/ Throw(t) \/ Crash(t) PROVE WorkSteps
  BY <1>1, <1>2, WorkStep DEF WorkSteps
<1>3. ASSUME NEW t \in Ticks, LoseLock(t) PROVE WorkSteps
  BY <1>3 DEF LoseLock, WorkSteps
<1>4. ASSUME NEW c \in Callers, Request(c) PROVE WorkSteps
  BY <1>4 DEF Request, Schedule, Reschedule, Create, Collapse, WorkSteps
<1>5. ASSUME Cancel \/ SetPolicy \/ \E id \in Ids : Elapse(id) PROVE WorkSteps
  BY <1>5 DEF Cancel, SetPolicy, Elapse, WorkSteps
<1>. QED  BY <1>2, <1>3, <1>4, <1>5 DEF Next

\* Ticks keep their type and shape, and hold inserted rows.
LEMMA TicksStep ==
    ASSUME IInv, Next
    PROVE  /\ work' \in [Ticks -> Tick] /\ Shape'
           /\ \A t \in Ticks : \A job \in Held(t)' : job.id <= inserted'
<1>1. work \in [Ticks -> Tick] /\ Shape
  BY DEF IInv, TypeOK
<1>2. inserted' \in Nat /\ inserted \in Nat /\ inserted <= inserted'
  <2>1. inserted \in Nat
    BY JobsAssumption DEF IInv, TypeOK
  <2>2. inserted' = inserted \/ inserted' = inserted + 1
    BY TableSteps, CreateRow DEF TableStep
  <2>. QED  BY <2>1, <2>2
<1>3. \A t \in Ticks : \A job \in Held(t) : job.id <= inserted /\ job.id \in Nat
  BY HeldInserted, JobsAssumption DEF Ids
<1>4. CASE work' = work
  BY <1>1, <1>2, <1>3, <1>4 DEF Shape, Held
<1>5. ASSUME NEW t \in Ticks, NEW w, KeptBy(t, w)
      PROVE  /\ work' \in [Ticks -> Tick] /\ Shape'
             /\ \A u \in Ticks : \A job \in Held(u)' : job.id <= inserted'
  <2>1. work' \in [Ticks -> Tick] /\ work'[t] = w
          /\ \A u \in Ticks \ {t} : work'[u] = work[u]
    BY <1>1, <1>5 DEF KeptBy
  <2>2. Shape'
    BY <1>1, <1>5, <2>1 DEF KeptBy, Shape
  <2>3. \A u \in Ticks : Held(u)' \subseteq Held(u)
    BY <1>5, <2>1 DEF KeptBy, Held
  <2>. QED  BY <1>2, <1>3, <2>1, <2>2, <2>3
<1>6. ASSUME NEW t \in Ticks, Claim(t)
      PROVE  /\ work' \in [Ticks -> Tick] /\ Shape'
             /\ \A u \in Ticks : \A job \in Held(u)' : job.id <= inserted'
  <2>1. PICK S \in SUBSET Ids, w \in Tick :
             /\ work' = [work EXCEPT ![t] = w] /\ ShapeOf(w)
             /\ \A id \in S : rows[id].status = "PENDING"
             /\ \A job \in HeldOf(w) : job.id \in S
    BY <1>6, ClaimWork
  <2>2. work' \in [Ticks -> Tick] /\ work'[t] = w
          /\ \A u \in Ticks \ {t} : work'[u] = work[u]
    BY <1>1, <2>1
  <2>3. Shape'
    BY <1>1, <2>1, <2>2 DEF Shape
  <2>4. \A id \in S : id <= inserted /\ id \in Nat
    BY <1>2, <2>1, JobsAssumption DEF IInv, Numbered, Ids
  <2>5. \A job \in HeldOf(w) : job.id <= inserted /\ job.id \in Nat
    BY <2>1, <2>4
  <2>. QED  BY <1>2, <1>3, <2>2, <2>3, <2>5 DEF Held
<1>. QED  BY <1>4, <1>5, <1>6, WorkStepsHold DEF WorkSteps

\* A caller that is about to update a row knows its id.
LEMMA CallsStep ==
    ASSUME IInv, Next
    PROVE  /\ calls' \in [Callers -> Call]
           /\ \A c \in Callers : calls'[c].step = "update" => calls'[c].id \in Ids
<1>1. /\ calls \in [Callers -> Call]
      /\ \A c \in Callers : calls[c].step = "update" => calls[c].id \in Ids
  BY DEF IInv, TypeOK, Known
<1>2. ASSUME NEW c \in Callers, Request(c)
      PROVE  /\ calls' \in [Callers -> Call]
             /\ \A d \in Callers : calls'[d].step = "update" => calls'[d].id \in Ids
  <2>1. CASE Schedule(c)
    <3>1. PICK key \in Keys \cup {NoKey}, step \in {"create", "update"}, id \in {0} \cup Ids :
            /\ calls' = [calls EXCEPT ![c] = [step |-> step, key |-> key, id |-> id]]
            /\ step = "update" => id \in Ids
      BY <2>1 DEF Schedule, Pending, Having
    <3>. QED  BY <1>1, <3>1 DEF Call
  <2>2. CASE calls' = [calls EXCEPT ![c] = NoCall]
    BY <1>1, <2>2 DEF NoCall, Call
  <2>3. ASSUME NEW step \in {"create", "collapse"},
               calls' = [calls EXCEPT ![c] = [calls[c] EXCEPT !.step = step]]
        PROVE  /\ calls' \in [Callers -> Call]
               /\ \A d \in Callers : calls'[d].step = "update" => calls'[d].id \in Ids
    <3>1. [calls[c] EXCEPT !.step = step] \in Call
      BY <1>1 DEF Call
    <3>2. [calls[c] EXCEPT !.step = step].step = step
      BY <1>1 DEF Call
    <3>. QED  BY <1>1, <2>3, <3>1, <3>2
  <2>4. CASE Reschedule(c)
    BY <2>2, <2>3, <2>4 DEF Reschedule
  <2>5. CASE Create(c)
    BY <2>2, <2>3, <2>5 DEF Create
  <2>6. CASE Collapse(c)
    BY <2>2, <2>6 DEF Collapse
  <2>. QED  BY <1>2, <2>1, <2>4, <2>5, <2>6 DEF Request
<1>3. ASSUME calls' = calls
      PROVE  /\ calls' \in [Callers -> Call]
             /\ \A c \in Callers : calls'[c].step = "update" => calls'[c].id \in Ids
  BY <1>1, <1>3
<1>4. ASSUME Next, ~\E c \in Callers : Request(c) PROVE calls' = calls
  BY <1>4 DEF Next, Cancel, Run, Begin, Reap, Claim, Pick, Defer, Beat, Handle, Done, Chain,
              Hold, Fail, EndLoop, Release, End, Throw, Crash, LoseLock, Elapse, SetPolicy
<1>. QED  BY <1>2, <1>3, <1>4

-----------------------------------------------------------------------------
(***************************************************************************)
(* The lock                                                                *)
(***************************************************************************)

\* Only Begin is a step of an idle tick.
LEMMA TickWorks ==
    ASSUME NEW t \in Ticks, Run(t) \/ Throw(t) \/ Crash(t), ~Begin(t)
    PROVE  work[t].phase # "idle"
BY DEF Run, Reap, Claim, Pick, Defer, Beat, Handle, Done, Chain, Hold, Fail, EndLoop,
       Release, End, Throw, Crash

\* Only LoseLock is an overrun.
LEMMA NoOverrun ==
    ASSUME IInv, Next, overruns' = 0
    PROVE  overruns = 0 /\ ~\E t \in Ticks : LoseLock(t)
<1>1. overruns \in Nat
  BY DEF IInv, TypeOK
<1>2. \A t \in Ticks : LoseLock(t) => overruns' = overruns + 1
  BY DEF LoseLock
<1>3. overruns' = overruns \/ \E t \in Ticks : LoseLock(t)
  BY DEF Next, Request, Schedule, Reschedule, Create, Collapse, Cancel, Run, Begin, Reap,
         Claim, Pick, Defer, Beat, Handle, Done, Chain, Hold, Fail, EndLoop, Release, End,
         Throw, Crash, Elapse, SetPolicy, bounds, Fault
<1>. QED  BY <1>1, <1>2, <1>3

\* While one tick works or begins, the others are idle and hold nothing.
LEMMA OthersIdle ==
    ASSUME IInv, overruns = 0, NEW t \in Ticks,
           work[t].phase # "idle" \/ lock = NoTick
    PROVE  \A u \in Ticks \ {t} : work[u].phase = "idle" /\ Held(u) = {}
<1>1. \A u \in Ticks \ {t} : work[u].phase = "idle"
  BY JobsAssumption DEF IInv, LockHolder
<1>. QED  BY <1>1 DEF IInv, Shape, ShapeOf, Held

\* Only one tick changes.
LEMMA OneTick ==
    ASSUME IInv, NEW t \in Ticks, Run(t) \/ Throw(t) \/ Crash(t)
    PROVE  \A u \in Ticks \ {t} : work'[u] = work[u]
<1>1. work \in [Ticks -> Tick]
  BY DEF IInv, TypeOK
<1>2. CASE Claim(t)
  BY <1>1, <1>2 DEF Claim
<1>3. CASE ~Claim(t)
  <2>1. PICK w : KeptBy(t, w)
    BY <1>3, WorkStep DEF IInv
  <2>. QED  BY <1>1, <2>1 DEF KeptBy
<1>. QED  BY <1>2, <1>3

\* As long as no lock is lost, whoever works has it.
LEMMA LockHolderStep == ASSUME IInv, Next PROVE LockHolder'
<1>. SUFFICES ASSUME overruns' = 0, NEW u \in Ticks, work'[u].phase # "idle"
              PROVE  lock' = u
  BY DEF LockHolder
<1>1. overruns = 0 /\ ~\E t \in Ticks : LoseLock(t)
  BY NoOverrun
<1>2. \A t \in Ticks : work[t].phase # "idle" => lock = t
  BY <1>1 DEF IInv, LockHolder
<1>3. work \in [Ticks -> Tick]
  BY DEF IInv, TypeOK
<1>4. ASSUME work' = work, lock' = lock PROVE lock' = u
  BY <1>2, <1>4
<1>5. ASSUME NEW t \in Ticks, Begin(t) PROVE lock' = u
  <2>1. u = t
    BY <1>1, <1>5, OthersIdle, OneTick DEF Begin, Acquirable, Run
  <2>. QED  BY <1>5, <2>1 DEF Begin
<1>6. ASSUME NEW t \in Ticks, Run(t) \/ Throw(t) \/ Crash(t), ~Begin(t) PROVE lock' = u
  <2>1. work[t].phase # "idle"
    BY <1>6, TickWorks
  <2>2. u = t
    BY <1>1, <1>6, <2>1, OthersIdle, OneTick
  <2>3. CASE End(t) \/ Crash(t)
    BY <1>3, <2>2, <2>3 DEF End, Crash, Idle
  <2>4. CASE ~End(t) /\ ~Crash(t)
    <3>1. lock' = lock
      BY <1>6, <2>4 DEF Run, Reap, Claim, Pick, Defer, Beat, Handle, Done, Chain, Hold, Fail,
                        EndLoop, Release, Throw
    <3>. QED  BY <1>2, <2>1, <2>2, <3>1
  <2>. QED  BY <2>3, <2>4
<1>7. ASSUME \/ Cancel \/ SetPolicy \/ (\E id \in Ids : Elapse(id))
             \/ \E c \in Callers : Request(c)
      PROVE  work' = work /\ lock' = lock
  BY <1>7 DEF Cancel, SetPolicy, Elapse, Request, Schedule, Reschedule, Create, Collapse
<1>. QED  BY <1>1, <1>4, <1>5, <1>6, <1>7 DEF Next

-----------------------------------------------------------------------------
(***************************************************************************)
(* The jobs in hand                                                        *)
(***************************************************************************)

\* The table says of a job what the tick remembers of it.
Current(job) ==
    /\ rows[job.id].status = "RUNNING"
    /\ rows[job.id].request = job.request
    /\ rows[job.id].attempts = job.attempts

\* A tick does not hold a row twice.
LEMMA HeldUnique ==
    ASSUME IInv, overruns = 0, NEW t \in Ticks, NEW x \in Held(t), NEW y \in Held(t),
           x.id = y.id
    PROVE  x = y
<1>1. x \in Jobs /\ y \in Jobs
  BY HeldInserted
<1>2. x.request = y.request /\ x.attempts = y.attempts
  BY DEF IInv, HeldJobsCurrent
<1>. QED  BY <1>1, <1>2 DEF Jobs

\* No caller, no passing of time and no edit of the policy touches a claimed row.
LEMMA OutsideKeeps ==
    ASSUME IInv,
           \/ Cancel \/ SetPolicy \/ (\E id \in Ids : Elapse(id))
           \/ \E c \in Callers : Request(c)
    PROVE  /\ work' = work
           /\ \A id \in Ids : rows[id].status = "RUNNING" =>
                 /\ rows'[id].status = "RUNNING"
                 /\ rows'[id].request = rows[id].request
                 /\ rows'[id].attempts = rows[id].attempts
<1>1. rows \in [Ids -> Row]
  BY DEF IInv, TypeOK
<1>2. work' = work
  BY DEF Cancel, SetPolicy, Elapse, Request, Schedule, Reschedule, Create, Collapse
<1>3. CASE rows' = rows
  BY <1>2, <1>3
<1>4. ASSUME NEW x \in Ids, NEW row, rows' = [rows EXCEPT ![x] = row],
             rows[x].status # "RUNNING"
      PROVE  \A id \in Ids : rows[id].status = "RUNNING" => rows'[id] = rows[id]
  BY <1>1, <1>4
<1>5. CASE Cancel
  <2>1. PICK x \in Ids : /\ rows[x].status = "PENDING"
                        /\ rows' = [rows EXCEPT ![x] =
                                       Moved(rows[x], "CANCELLED", rows[x].attempts, FALSE)]
    BY <1>5 DEF Cancel, Cancellable, Having
  <2>. QED  BY <1>2, <1>4, <2>1
<1>6. CASE SetPolicy
  BY <1>3, <1>6 DEF SetPolicy
<1>7. ASSUME NEW x \in Ids, Elapse(x)
      PROVE  \A id \in Ids : /\ rows'[id].status = rows[id].status
                             /\ rows'[id].request = rows[id].request
                             /\ rows'[id].attempts = rows[id].attempts
  <2>1. rows' = [rows EXCEPT ![x] = [rows[x] EXCEPT !.elapsed = TRUE]]
    BY <1>7 DEF Elapse
  <2>. QED  BY <1>1, <2>1 DEF Row
<1>8. ASSUME NEW c \in Callers, Request(c), rows' # rows
      PROVE  \A id \in Ids : rows[id].status = "RUNNING" => rows'[id] = rows[id]
  <2>1. CASE Reschedule(c)
    <3>. DEFINE row == [rows[calls[c].id] EXCEPT !.request = requests + 1, !.elapsed = FALSE]
    <3>1. rows[calls[c].id].status = "PENDING" /\ rows' = [rows EXCEPT ![calls[c].id] = row]
      BY <1>8, <2>1 DEF Reschedule, Reschedulable
    <3>2. calls[c].id \in Ids
      BY <2>1 DEF Reschedule, IInv, Known
    <3>. HIDE DEF row
    <3>. QED  BY <1>4, <3>1, <3>2
  <2>2. CASE Create(c)
    <3>1. PICK row \in Row : rows' = [rows EXCEPT ![inserted + 1] = row]
      BY <1>8, <2>2, CreateRow
    <3>2. inserted + 1 \in Ids /\ inserted \in Nat
      BY <1>8, <2>2, CreateRow
    <3>3. rows[inserted + 1].status = "none"
      BY <3>2 DEF IInv, Numbered
    <3>. QED  BY <1>4, <3>1, <3>2, <3>3
  <2>. QED  BY <1>8, <2>1, <2>2 DEF Request, Schedule, Collapse
<1>. QED  BY <1>2, <1>3, <1>5, <1>6, <1>7, <1>8

\* The row that a tick writes at the end of a job is one it does not hold any more.
LEMMA WrittenRow ==
    ASSUME IInv, NEW t \in Ticks,
           Done(t) \/ Chain(t) \/ Hold(t) \/ Fail(t) \/ Release(t), rows' # rows
    PROVE  \E job \in Held(t) : \E row, w :
              /\ rows' = [rows EXCEPT ![job.id] = row]
              /\ KeptBy(t, w) /\ job \notin HeldOf(w)
<1>1. TypeOK /\ Shape
  BY DEF IInv
<1>2. CASE Release(t)
  <2>1. PICK job \in work[t].later :
          /\ rows' = [rows EXCEPT ![job.id] =
                         Moved(rows[job.id], "PENDING", rows[job.id].attempts, TRUE)]
          /\ work' = [work EXCEPT ![t] = [work[t] EXCEPT !.later = work[t].later \ {job}]]
    BY <1>2 DEF Release
  <2>2. work[t].phase = "release" /\ job \in Held(t)
    BY <1>2 DEF Release, Held, HeldOf
  <2>3. \E w : KeptBy(t, w) /\ job \notin HeldOf(w)
    BY <1>1, <2>1, <2>2, ReleaseKeeps
  <2>. QED  BY <2>1, <2>2, <2>3
<1>3. CASE Done(t) \/ Chain(t) \/ Hold(t) \/ Fail(t)
  <2>1. NextJob(t)
    BY <1>3 DEF Done, Chain, Hold, Fail
  <2>2. work[t].cur \in Held(t)
    BY <1>3, CurHeld DEF Done, Chain, Hold, Fail, Busy
  <2>3. \E row : rows' = [rows EXCEPT ![work[t].cur.id] = row]
    BY <1>3 DEF Done, Chain, Hold, Fail
  <2>4. \E w : KeptBy(t, w) /\ work[t].cur \notin HeldOf(w)
    BY <1>1, <2>1, NextJobKeeps
  <2>. QED  BY <2>2, <2>3, <2>4
<1>. QED  BY <1>2, <1>3

\* After a step of a tick with the lock its jobs are current.
LEMMA TickCurrent ==
    ASSUME IInv, overruns = 0, NEW t \in Ticks, Run(t) \/ Throw(t) \/ Crash(t)
    PROVE  \A job \in Held(t)' : Current(job)'
<1>0. work \in [Ticks -> Tick] /\ rows \in [Ids -> Row] /\ TypeOK /\ Shape
  BY DEF IInv, TypeOK
<1>1. \A job \in Held(t) : Current(job) /\ job.id \in Ids /\ job \in Jobs
  BY HeldInserted DEF IInv, HeldJobsCurrent, Current
<1>2. CASE Claim(t)
  <2>1. PICK S \in SUBSET Ids, w \in Tick :
             /\ rows' = Locked(S) /\ work' = [work EXCEPT ![t] = w]
             /\ \A job \in HeldOf(w) : /\ job.id \in S
                                      /\ job.request = rows[job.id].request
                                      /\ job.attempts = rows[job.id].attempts
    BY <1>2, ClaimWork
  <2>2. Held(t)' = HeldOf(w)
    BY <1>0, <2>1 DEF Held
  <2>. QED  BY <1>0, <2>1, <2>2, LockedType DEF Current
<1>3. CASE ~Claim(t) /\ rows' = rows
  <2>1. PICK w : KeptBy(t, w)
    BY <1>0, <1>3, WorkStep
  <2>2. Held(t)' \subseteq Held(t)
    BY <1>0, <2>1 DEF KeptBy, Held
  <2>. QED  BY <1>1, <1>3, <2>2 DEF Current
<1>4. CASE Reap(t)
  <2>1. Held(t) = {}
    BY <1>0, <1>4 DEF Reap, Shape, ShapeOf, Held
  <2>2. ~Claim(t)
    BY <1>4 DEF Reap, Claim
  <2>3. PICK w : KeptBy(t, w)
    BY <1>0, <1>4, <2>2, WorkStep
  <2>. QED  BY <1>0, <2>1, <2>3 DEF KeptBy, Held
<1>5. CASE Beat(t) /\ rows' # rows
  <2>. DEFINE id == work[t].cur.id
  <2>1. id \in Ids
    BY <1>1, <1>5, CurHeld DEF Beat, Busy
  <2>2. rows[id].status = "RUNNING" /\ rows' = Locked({id})
    BY <1>5, Zenon DEF Beat
  <2>3. Held(t)' \subseteq Held(t)
    <3>1. ~Claim(t)
      BY <1>5 DEF Beat, Claim
    <3>2. PICK w : KeptBy(t, w)
      BY <1>0, <1>5, <3>1, WorkStep
    <3>. QED  BY <1>0, <3>2 DEF KeptBy, Held
  <2>. HIDE DEF id
  <2>4. {id} \in SUBSET Ids
    BY <2>1
  <2>5. \A x \in Ids : /\ rows'[x].request = rows[x].request
                       /\ rows'[x].attempts = rows[x].attempts
                       /\ x = id \/ rows'[x].status = rows[x].status
                       /\ rows'[id].status = "RUNNING"
    BY <1>0, <2>2, <2>4, LockedType
  <2>. QED  BY <1>1, <2>1, <2>3, <2>5 DEF Current
<1>6. CASE (Done(t) \/ Chain(t) \/ Hold(t) \/ Fail(t) \/ Release(t)) /\ rows' # rows
  <2>0. PICK gone \in Held(t) : \E row, w :
              /\ rows' = [rows EXCEPT ![gone.id] = row]
              /\ KeptBy(t, w) /\ gone \notin HeldOf(w)
    BY <1>6, WrittenRow
  <2>1. PICK row, w : /\ rows' = [rows EXCEPT ![gone.id] = row]
                      /\ KeptBy(t, w) /\ gone \notin HeldOf(w)
    BY <2>0
  <2>2. Held(t)' \subseteq Held(t) \ {gone}
    BY <1>0, <2>1 DEF KeptBy, Held
  <2>3. \A job \in Held(t)' : job.id # gone.id
    BY <2>2, HeldUnique
  <2>. QED  BY <1>0, <1>1, <2>1, <2>2, <2>3 DEF Current
<1>7. \/ Claim(t) \/ Reap(t) \/ Beat(t)
      \/ Done(t) \/ Chain(t) \/ Hold(t) \/ Fail(t) \/ Release(t)
      \/ ~Claim(t) /\ rows' = rows
  BY DEF Run, Begin, Pick, Defer, Handle, EndLoop, End, Throw, Crash
<1>8. Reap(t) \/ Beat(t) \/ Done(t) \/ Chain(t) \/ Hold(t) \/ Fail(t) \/ Release(t)
        => ~Claim(t)
  BY DEF Reap, Beat, Done, Chain, Hold, Fail, Release, Claim
<1>. QED  BY <1>2, <1>3, <1>4, <1>5, <1>6, <1>7, <1>8

\* The memory of a tick stays what the table says.
LEMMA CurrentStep == ASSUME IInv, Next PROVE HeldJobsCurrent'
<1>. SUFFICES ASSUME overruns' = 0
              PROVE  \A t \in Ticks : \A job \in Held(t)' :
                       /\ Current(job)'
                       /\ \A u \in Ticks \ {t} : \A other \in Held(u)' : other.id # job.id
  BY DEF HeldJobsCurrent, Current
<1>1. overruns = 0 /\ ~\E t \in Ticks : LoseLock(t)
  BY NoOverrun
<1>2. \A t \in Ticks : \A job \in Held(t) :
         /\ Current(job) /\ job.id \in Ids
         /\ \A u \in Ticks \ {t} : \A other \in Held(u) : other.id # job.id
  BY <1>1, HeldInserted DEF IInv, HeldJobsCurrent, Current
<1>3. CASE \/ Cancel \/ SetPolicy \/ (\E id \in Ids : Elapse(id))
           \/ \E c \in Callers : Request(c)
  <2>1. \A t \in Ticks : Held(t)' = Held(t)
    BY <1>3, OutsideKeeps DEF Held
  <2>. QED  BY <1>2, <1>3, <2>1, OutsideKeeps DEF Current
<1>4. ASSUME NEW t \in Ticks, Run(t) \/ Throw(t) \/ Crash(t)
      PROVE  \A v \in Ticks : \A job \in Held(v)' :
                /\ Current(job)'
                /\ \A u \in Ticks \ {v} : \A other \in Held(u)' : other.id # job.id
  <2>1. work[t].phase # "idle" \/ lock = NoTick
    BY <1>4, TickWorks DEF Begin, Acquirable
  <2>2. \A u \in Ticks \ {t} : Held(u)' = {}
    BY <1>1, <1>4, <2>1, OthersIdle, OneTick DEF Held
  <2>. QED  BY <1>1, <1>4, <2>2, TickCurrent
<1>. QED  BY <1>1, <1>3, <1>4 DEF Next

-----------------------------------------------------------------------------
(***************************************************************************)
(* Attempts                                                                *)
(***************************************************************************)

\* AttemptLeft of one row.
Affordable(row) ==
    /\ row.attempts <= MaxAttempts
    /\ row.status \in {"PENDING", "RUNNING"} => row.attempts < MaxAttempts

\* A row in hand may be settled or requeued, with its attempts or with one more,
\* if that leaves another.
LEMMA HeldAffordable ==
    ASSUME IInv, overruns = 0, NEW t \in Ticks, NEW job \in Held(t)
    PROVE  /\ job.id \in Ids /\ rows[job.id] \in Row
           /\ rows[job.id].attempts \in Nat /\ rows[job.id].attempts < MaxAttempts
           /\ job.attempts = rows[job.id].attempts
<1>1. job.id \in Ids /\ rows[job.id] \in Row
  BY HeldInserted
<1>2. rows[job.id].status = "RUNNING" /\ job.attempts = rows[job.id].attempts
  BY DEF IInv, HeldJobsCurrent
<1>3. rows[job.id].attempts < MaxAttempts
  BY <1>1, <1>2 DEF IInv, AttemptLeft
<1>. QED  BY <1>1, <1>2, <1>3 DEF Row

\* What Moved makes of a row that may be affordable.
LEMMA MovedAffordable ==
    ASSUME NEW row \in Row, NEW status \in Status, NEW attempts \in Nat, NEW due \in BOOLEAN,
           attempts <= MaxAttempts, status = "PENDING" => attempts < MaxAttempts,
           status # "RUNNING"
    PROVE  Affordable(Moved(row, status, attempts, due))
BY MovedType DEF Affordable

\* No row is allowed more attempts than it has left.
LEMMA AttemptStep == ASSUME IInv, Next PROVE AttemptLeft'
<1>. SUFFICES ASSUME overruns' = 0 PROVE \A id \in Ids : Affordable(rows'[id])
  BY DEF AttemptLeft, Affordable
<1>0. overruns = 0
  BY NoOverrun
<1>1. rows \in [Ids -> Row] /\ MaxAttempts \in Nat \ {0}
  BY JobsAssumption DEF IInv, TypeOK
<1>2. \A id \in Ids : Affordable(rows[id])
  BY <1>0 DEF IInv, AttemptLeft, Affordable
<1>3. CASE rows' = rows
  BY <1>2, <1>3
<1>4. ASSUME NEW c \in Callers, Request(c), rows' # rows
      PROVE  \A id \in Ids : Affordable(rows'[id])
  <2>1. CASE Reschedule(c)
    <3>. DEFINE x == calls[c].id
                row == [rows[x] EXCEPT !.request = requests + 1, !.elapsed = FALSE]
    <3>1. rows' = [rows EXCEPT ![x] = row]
      BY <1>4, <2>1 DEF Reschedule
    <3>2. x \in Ids
      BY <2>1 DEF Reschedule, IInv, Known
    <3>3. row.status = rows[x].status /\ row.attempts = rows[x].attempts
      BY <1>1, <3>2 DEF Row
    <3>. HIDE DEF x, row
    <3>4. Affordable(row)
      BY <1>2, <3>2, <3>3 DEF Affordable
    <3>. QED  BY <1>1, <1>2, <3>1, <3>2, <3>4
  <2>2. CASE Create(c)
    <3>1. PICK row \in Row : /\ rows' = [rows EXCEPT ![inserted + 1] = row]
                             /\ row.attempts = 0
      BY <1>4, <2>2, CreateRow
    <3>2. Affordable(row)
      BY <1>1, <3>1 DEF Affordable
    <3>. QED  BY <1>1, <1>2, <3>1, <3>2
  <2>. QED  BY <1>4, <2>1, <2>2 DEF Request, Schedule, Collapse
<1>5. CASE Cancel
  <2>1. PICK x \in Ids : rows' = [rows EXCEPT ![x] =
                                     Moved(rows[x], "CANCELLED", rows[x].attempts, FALSE)]
    BY <1>5 DEF Cancel, Cancellable, Having
  <2>2. rows[x] \in Row /\ rows[x].attempts \in Nat /\ rows[x].attempts <= MaxAttempts
    BY <1>1, <1>2 DEF Row, Affordable
  <2>3. "CANCELLED" \in Status /\ "CANCELLED" # "PENDING" /\ "CANCELLED" # "RUNNING"
    BY DEF Status
  <2>4. Affordable(Moved(rows[x], "CANCELLED", rows[x].attempts, FALSE))
    BY <2>2, <2>3, MovedAffordable
  <2>. QED  BY <1>1, <1>2, <2>1, <2>4
<1>6. ASSUME NEW x \in Ids, Elapse(x) PROVE \A id \in Ids : Affordable(rows'[id])
  <2>. DEFINE row == [rows[x] EXCEPT !.elapsed = TRUE]
  <2>1. rows' = [rows EXCEPT ![x] = row]
    BY <1>6 DEF Elapse
  <2>2. row.status = rows[x].status /\ row.attempts = rows[x].attempts
    BY <1>1 DEF Row
  <2>. HIDE DEF row
  <2>3. Affordable(row)
    BY <1>2, <2>2 DEF Affordable
  <2>. QED  BY <1>1, <1>2, <2>1, <2>3
<1>7. ASSUME NEW t \in Ticks, Reap(t) PROVE \A id \in Ids : Affordable(rows'[id])
  <2>1. \A id \in Ids : /\ rows'[id].attempts = rows[id].attempts
                        /\ rows'[id].status = rows[id].status \/ rows[id].status = "RUNNING"
    BY <1>7, ReapRow DEF Kept, Reaped
  <2>. QED  BY <1>2, <2>1 DEF Affordable
<1>8. ASSUME NEW S \in SUBSET Ids, rows' = Locked(S),
             \A id \in S : rows[id].status \in {"PENDING", "RUNNING"}
      PROVE  \A id \in Ids : Affordable(rows'[id])
  <2>1. \A id \in Ids : /\ rows'[id].attempts = rows[id].attempts
                        /\ \/ rows'[id].status = rows[id].status
                           \/ rows[id].status \in {"PENDING", "RUNNING"}
    BY <1>8, LockedType DEF IInv
  <2>. QED  BY <1>2, <2>1 DEF Affordable
<1>9. ASSUME NEW t \in Ticks, Claim(t) PROVE \A id \in Ids : Affordable(rows'[id])
  BY <1>8, <1>9, ClaimWork
<1>10. ASSUME NEW t \in Ticks, Beat(t), rows' # rows
       PROVE  \A id \in Ids : Affordable(rows'[id])
  <2>1. work[t].cur.id \in Ids
    BY <1>10, CurHeld, HeldInserted DEF Beat, Busy
  <2>2. rows[work[t].cur.id].status = "RUNNING" /\ rows' = Locked({work[t].cur.id})
    BY <1>10, Zenon DEF Beat
  <2>3. {work[t].cur.id} \in SUBSET Ids
    BY <2>1
  <2>4. \A id \in {work[t].cur.id} : rows[id].status \in {"PENDING", "RUNNING"}
    BY <2>2
  <2>. QED  BY <1>8, <2>2, <2>3, <2>4
<1>11. ASSUME NEW t \in Ticks, NEW job \in Held(t), NEW status \in Status \ {"RUNNING"},
              NEW attempts \in Nat, NEW due \in BOOLEAN,
              attempts <= MaxAttempts, status = "PENDING" => attempts < MaxAttempts,
              rows' = [rows EXCEPT ![job.id] = Moved(rows[job.id], status, attempts, due)]
       PROVE  \A id \in Ids : Affordable(rows'[id])
  <2>1. job.id \in Ids /\ rows[job.id] \in Row
    BY HeldInserted
  <2>2. Affordable(Moved(rows[job.id], status, attempts, due))
    BY <1>11, <2>1, MovedAffordable
  <2>. QED  BY <1>1, <1>2, <1>11, <2>1, <2>2
<1>12. ASSUME NEW t \in Ticks, Release(t), rows' # rows
       PROVE  \A id \in Ids : Affordable(rows'[id])
  <2>1. PICK job \in work[t].later :
          rows' = [rows EXCEPT ![job.id] =
                      Moved(rows[job.id], "PENDING", rows[job.id].attempts, TRUE)]
    BY <1>12 DEF Release
  <2>2. job \in Held(t)
    BY DEF Held, HeldOf
  <2>3. rows[job.id].attempts \in Nat /\ rows[job.id].attempts < MaxAttempts
    BY <1>0, <2>2, HeldAffordable
  <2>4. rows[job.id].attempts <= MaxAttempts
    BY <1>1, <2>3
  <2>5. "PENDING" \in Status \ {"RUNNING"}
    BY DEF Status
  <2>. QED  BY <1>11, <2>1, <2>2, <2>3, <2>4, <2>5
<1>13. ASSUME NEW t \in Ticks, Done(t) \/ Chain(t) \/ Hold(t) \/ Fail(t), rows' # rows
       PROVE  \A id \in Ids : Affordable(rows'[id])
  <2>. DEFINE cur == work[t].cur
              now == rows[cur.id].attempts
  <2>1. cur \in Held(t)
    BY <1>13, CurHeld DEF Done, Chain, Hold, Fail, Busy
  <2>2. cur.id \in Ids /\ rows[cur.id] \in Row /\ now \in Nat /\ now < MaxAttempts
          /\ cur.attempts = now
    BY <1>0, <2>1, HeldAffordable
  <2>3. now <= MaxAttempts /\ now + 1 <= MaxAttempts /\ now + 1 \in Nat
    BY <1>1, <2>2
  <2>4. "PENDING" \in Status \ {"RUNNING"} /\ "DONE" \in Status \ {"RUNNING"}
          /\ "FAILED" \in Status \ {"RUNNING"} /\ "DONE" # "PENDING" /\ "FAILED" # "PENDING"
    BY DEF Status
  <2>5. CASE Done(t)
    <3>1. rows' = [rows EXCEPT ![cur.id] = Moved(rows[cur.id], "DONE", now, FALSE)]
      BY <2>5 DEF Done
    <3>. HIDE DEF cur, now
    <3>. QED  BY <1>11, <2>1, <2>2, <2>3, <2>4, <3>1
  <2>6. CASE Hold(t)
    <3>1. rows' = [rows EXCEPT ![cur.id] = Moved(rows[cur.id], "PENDING", now, TRUE)]
      BY <1>13, <2>6 DEF Hold
    <3>. HIDE DEF cur, now
    <3>. QED  BY <1>11, <2>1, <2>2, <2>3, <2>4, <3>1
  <2>7. CASE Fail(t)
    <3>1. \/ rows' = [rows EXCEPT ![cur.id] =
                            Moved(rows[cur.id], "FAILED", cur.attempts + 1, FALSE)]
          \/ /\ rows' = [rows EXCEPT ![cur.id] =
                            Moved(rows[cur.id], "PENDING", cur.attempts + 1, FALSE)]
             /\ ~(cur.attempts + 1 >= MaxAttempts)
      BY <1>13, <2>7 DEF Fail, Exhausted
    <3>. HIDE DEF cur, now
    <3>2. CASE rows' = [rows EXCEPT ![cur.id] =
                           Moved(rows[cur.id], "FAILED", now + 1, FALSE)]
      BY <1>11, <2>1, <2>3, <2>4, <3>2
    <3>3. CASE /\ rows' = [rows EXCEPT ![cur.id] =
                              Moved(rows[cur.id], "PENDING", now + 1, FALSE)]
               /\ ~(now + 1 >= MaxAttempts)
      <4>1. now + 1 < MaxAttempts
        BY <1>1, <2>2, <3>3
      <4>. QED  BY <1>11, <2>1, <2>3, <2>4, <3>3, <4>1
    <3>. QED  BY <2>2, <3>1, <3>2, <3>3
  <2>8. CASE Chain(t)
    <3>1. PICK request : rows' = [rows EXCEPT ![cur.id] =
                            [Moved(rows[cur.id], "PENDING", 0, FALSE) EXCEPT !.request = request]]
      BY <1>13, <2>8 DEF Chain
    <3>. DEFINE row == [Moved(rows[cur.id], "PENDING", 0, FALSE) EXCEPT !.request = request]
    <3>2. row.attempts = 0
      BY <2>2 DEF Moved, Row
    <3>3. rows' = [rows EXCEPT ![cur.id] = row]
      BY <3>1
    <3>. HIDE DEF cur, now, row
    <3>4. Affordable(row)
      BY <1>1, <3>2 DEF Affordable
    <3>. QED  BY <1>1, <1>2, <2>2, <3>3, <3>4
  <2>. QED  BY <1>13, <2>5, <2>6, <2>7, <2>8
<1>14. \/ rows' = rows \/ Cancel
       \/ (\E c \in Callers : Request(c)) \/ (\E id \in Ids : Elapse(id))
       \/ \E t \in Ticks : \/ Reap(t) \/ Claim(t) \/ Beat(t) \/ Release(t)
                           \/ Done(t) \/ Chain(t) \/ Hold(t) \/ Fail(t)
  BY DEF Next, Run, Begin, Pick, Defer, Handle, EndLoop, End, Throw, Crash, LoseLock, SetPolicy
<1>. QED  BY <1>3, <1>4, <1>5, <1>6, <1>7, <1>9, <1>10, <1>12, <1>13, <1>14

-----------------------------------------------------------------------------
(***************************************************************************)
(* The theorems                                                            *)
(***************************************************************************)

\* Every step keeps the types.
LEMMA TypeStep == ASSUME IInv, Next PROVE TypeOK'
<1>0. TypeOK
  BY DEF IInv
<1>1. rows' \in [Ids -> Row]
  BY TableSteps, NumberedStep
<1>2. WithinCap'
  BY AttemptStep DEF AttemptLeft, WithinCap
<1>3. work' \in [Ticks -> Tick] /\ calls' \in [Callers -> Call]
  BY TicksStep, CallsStep
<1>4. inserted' \in 0 .. MaxRows
  <2>1. inserted \in 0 .. MaxRows /\ MaxRows \in Nat
    BY <1>0, JobsAssumption DEF TypeOK
  <2>2. ASSUME NEW c \in Callers, Create(c), rows' # rows
        PROVE  inserted' = inserted + 1 /\ inserted + 1 \in Ids
    BY <2>2, CreateRow
  <2>3. inserted' = inserted \/ (inserted' = inserted + 1 /\ inserted + 1 \in Ids)
    BY <2>2, TableSteps DEF TableStep
  <2>. QED  BY <2>1, <2>3 DEF Ids
<1>5. \/ /\ requests' = requests
         /\ owed' = owed \/ \E r \in {0} \cup Requests : owed' = Settle(r)
      \/ /\ requests' = requests + 1 /\ requests < MaxRequests
         /\ \E key : owed' = Owe(key, requests + 1)
  <2>1. ASSUME NEW c \in Callers, Request(c)
        PROVE  \/ requests' = requests /\ owed' = owed
               \/ /\ requests' = requests + 1 /\ requests < MaxRequests
                  /\ \E key : owed' = Owe(key, requests + 1)
    BY <2>1 DEF Request, Schedule, Reschedule, Create, Collapse
  <2>2. CASE Cancel
    <3>1. PICK id \in Ids : owed' = Settle(rows[id].request)
      BY <2>2 DEF Cancel, Cancellable, Having
    <3>2. rows[id].request \in {0} \cup Requests
      BY <1>0 DEF TypeOK, Row
    <3>. QED  BY <2>2, <3>1, <3>2 DEF Cancel
  <2>3. ASSUME NEW t \in Ticks, Handle(t) \/ Fail(t)
        PROVE  /\ requests' = requests
               /\ owed' = owed \/ \E r \in {0} \cup Requests : owed' = Settle(r)
    <3>1. work[t].cur \in Jobs
      BY <2>3, CurHeld DEF Handle, Fail, Busy
    <3>2. work[t].cur.request \in Requests
      BY <3>1 DEF Jobs
    <3>. QED  BY <2>3, <3>2 DEF Handle, Fail
  <2>4. ASSUME NEW t \in Ticks, Chain(t)
        PROVE  \/ requests' = requests /\ owed' = owed
               \/ /\ requests' = requests + 1 /\ requests < MaxRequests
                  /\ \E key : owed' = Owe(key, requests + 1)
    BY <2>4 DEF Chain
  <2>5. ASSUME ~Cancel, ~\E c \in Callers : Request(c),
               ~\E t \in Ticks : Handle(t) \/ Fail(t) \/ Chain(t)
        PROVE  requests' = requests /\ owed' = owed
    BY <2>5 DEF Next, Run, Begin, Reap, Claim, Pick, Defer, Beat, Done, Hold, EndLoop,
                Release, End, Throw, Crash, LoseLock, Elapse, SetPolicy
  <2>. QED  BY <2>1, <2>2, <2>3, <2>4, <2>5
<1>6. requests' \in 0 .. MaxRequests /\ owed' \in [Keys -> {0} \cup Requests]
  <2>1. requests \in 0 .. MaxRequests /\ MaxRequests \in Nat
          /\ owed \in [Keys -> {0} \cup Requests]
    BY <1>0, JobsAssumption DEF TypeOK
  <2>2. \A r : Settle(r) \in [Keys -> {0} \cup Requests]
    BY <2>1 DEF Settle
  <2>3. requests < MaxRequests =>
          \A key : Owe(key, requests + 1) \in [Keys -> {0} \cup Requests]
    BY <2>1 DEF Owe, Requests
  <2>. QED  BY <1>5, <2>1, <2>2, <2>3
<1>7. lock' \in Ticks \cup {NoTick}
  BY <1>0 DEF TypeOK, Next, Request, Schedule, Reschedule, Create, Collapse, Cancel, Run,
        Begin, Reap, Claim, Pick, Defer, Beat, Handle, Done, Chain, Hold, Fail, EndLoop,
        Release, End, Unlock, Throw, Crash, LoseLock, Elapse, SetPolicy
<1>8. enabled' \in BOOLEAN
  BY <1>0 DEF TypeOK, Next, Request, Schedule, Reschedule, Create, Collapse, Cancel, Run,
        Begin, Reap, Claim, Pick, Defer, Beat, Handle, Done, Chain, Hold, Fail, EndLoop,
        Release, End, Throw, Crash, LoseLock, Elapse, SetPolicy
<1>9. /\ faults' \in Nat /\ overruns' \in Nat /\ changes' \in Nat
      /\ faults' + overruns' + changes' <= MaxEvents
  <2>1. /\ faults \in Nat /\ overruns \in Nat /\ changes \in Nat /\ MaxEvents \in Nat
        /\ faults + overruns + changes <= MaxEvents
    BY <1>0, JobsAssumption DEF TypeOK
  <2>2. ASSUME NEW t \in Ticks, Throw(t) \/ Crash(t) \/ LoseLock(t)
        PROVE  /\ faults + overruns + changes < MaxEvents /\ changes' = changes
               /\ \/ faults' = faults + 1 /\ overruns' = overruns
                  \/ faults' = faults /\ overruns' = overruns + 1
    BY <2>2 DEF Throw, Crash, LoseLock, Fault, Bounded
  <2>3. ASSUME SetPolicy
        PROVE  /\ faults + overruns + changes < MaxEvents /\ changes' = changes + 1
               /\ faults' = faults /\ overruns' = overruns
    BY <2>3 DEF SetPolicy, Bounded
  <2>4. ASSUME ~SetPolicy, ~\E t \in Ticks : Throw(t) \/ Crash(t) \/ LoseLock(t)
        PROVE  faults' = faults /\ overruns' = overruns /\ changes' = changes
    BY <2>4 DEF Next, Request, Schedule, Reschedule, Create, Collapse, Cancel, Run,
        Begin, Reap, Claim, Pick, Defer, Beat, Handle, Done, Chain, Hold, Fail, EndLoop,
        Release, End, Elapse, bounds
  <2>. QED  BY <2>1, <2>2, <2>3, <2>4
<1>. QED  BY <1>1, <1>2, <1>3, <1>4, <1>6, <1>7, <1>8, <1>9 DEF TypeOK

\* Every step keeps the invariant.
LEMMA InvStep == IInv /\ [Next]_vars => IInv'
<1>1. ASSUME IInv, Next PROVE IInv'
  <2>1. TableStep
    BY <1>1, TableSteps
  <2>2. Known'
    BY <1>1, TicksStep, CallsStep DEF Known
  <2>. QED  BY <1>1, <2>1, <2>2, TypeStep, TicksStep, NumberedStep, LockOrderStep,
               OnePendingStep, LockHolderStep, CurrentStep, AttemptStep DEF IInv
<1>2. ASSUME IInv, UNCHANGED vars PROVE IInv'
  BY <1>2 DEF vars, bounds, IInv, TypeOK, WithinCap, Shape, Held, Numbered, Known, LockOrder,
        OnePendingPerKey, Having, LockHolder, HeldJobsCurrent, AttemptLeft
<1>. QED  BY <1>1, <1>2

\* The inductive invariant holds in every reachable state.
THEOREM Invariant == Spec => []IInv
BY InitInv, InvStep, PTL DEF Spec

\* Every variable keeps its type, and no row counts more attempts than maxAttempts
\* unless a tick outlived its lock: the catch of run counts from what the claim
\* read, and nothing else counts in between.
THEOREM TypeCorrect == Spec => []TypeOK
<1>1. IInv => TypeOK
  BY DEF IInv
<1>. QED  BY <1>1, Invariant, PTL

\* The reaper's revive, the callers' inserts and the requeueing writes never leave
\* two PENDING rows of a key, with any number of ticks, lost locks included.
THEOREM OnePendingAlways == Spec => []OnePendingPerKey
<1>1. IInv => OnePendingPerKey
  BY DEF IInv
<1>. QED  BY <1>1, Invariant, PTL

\* What a tick remembers of the jobs it claimed is what the table says of them, and
\* no two ticks hold the same row, unless a tick outlived its lock.
THEOREM HeldJobsAlways == Spec => []HeldJobsCurrent
<1>1. IInv => HeldJobsCurrent
  BY DEF IInv
<1>. QED  BY <1>1, Invariant, PTL


-----------------------------------------------------------------------------
(***************************************************************************)
(* The newest request                                                      *)
(***************************************************************************)
Orderly == faults = 0 /\ overruns = 0

\* The jobs in hand, and a row that is still going to be handled.
Hand == UNION {Held(t) : t \in Ticks}
InHand(id) == \E job \in Hand : job.id = id
Going(id) == rows[id].status = "PENDING" \/ (rows[id].status = "RUNNING" /\ InHand(id))

\* A row that nobody will move but the reaper never carries the newest request.
Carried ==
    \A key \in Keys : owed[key] # 0 =>
        \E id \in Ids : Going(id) /\ rows[id].key = key /\ rows[id].request = owed[key]

\* The PENDING row of a key carries what is owed to it.
PendingIsNewest ==
    \A id \in Ids : \A key \in Keys :
        rows[id].status = "PENDING" /\ rows[id].key = key /\ owed[key] # 0
            => rows[id].request = owed[key]

\* Of a key at most one row is in hand.
OneHeldPerKey ==
    \A x, y \in Hand : rows[x.id].key = rows[y.id].key /\ rows[x.id].key \in Keys => x = y

\* What the handler is done with is not owed.
HandledIsSettled ==
    \A t \in Ticks : work[t].phase \in {"ok", "chain"} =>
        \A key \in Keys : owed[key] # work[t].cur.request

\* No request is newer than the last one.
RequestsPast ==
    /\ \A id \in Ids : rows[id].request <= requests
    /\ \A key \in Keys : owed[key] <= requests

\* A caller updates a row of its key.
CallFits ==
    \A c \in Callers : calls[c].step = "update" =>
        rows[calls[c].id].status # "none" /\ rows[calls[c].id].key = calls[c].key

\* A tick that hands jobs back has been through its batch.
BatchDone == \A t \in Ticks : work[t].phase = "release" => work[t].batch = {}

Newest ==
    Orderly => /\ Carried /\ PendingIsNewest /\ OneHeldPerKey /\ HandledIsSettled
               /\ RequestsPast /\ CallFits /\ BatchDone

-----------------------------------------------------------------------------
(***************************************************************************)
(* The ways in which a step moves rows, jobs in hand and what is owed      *)
(***************************************************************************)
SameRow(id) ==
    /\ rows'[id].status = rows[id].status /\ rows'[id].key = rows[id].key
    /\ rows'[id].request = rows[id].request
SameBut(id) == \A x \in Ids \ {id} : SameRow(x)

\* At most a request is found handled.
Walked ==
    /\ \A id \in Ids : SameRow(id)
    /\ Hand' = Hand /\ requests' = requests
    /\ \A key \in Keys : owed'[key] \in {owed[key], 0}

\* A job is let go of: its row goes back to the queue, or cannot, or it is over.
LetGo(job) ==
    /\ job \in Hand /\ job.id \in Ids /\ Hand' = Hand \ {job} /\ requests' = requests
    /\ SameBut(job.id) /\ rows'[job.id].key = rows[job.id].key
    /\ rows'[job.id].request = rows[job.id].request
Requeued(job) ==
    /\ LetGo(job) /\ rows'[job.id].status = "PENDING" /\ ~Conflict(job.id) /\ owed' = owed
Refused(job) ==
    /\ LetGo(job) /\ rows'[job.id].status = rows[job.id].status /\ Conflict(job.id) /\ owed' = owed
Over(job) ==
    /\ LetGo(job) /\ rows'[job.id].status \in {"DONE", "FAILED"}
    /\ \A key \in Keys : owed'[key] # job.request /\ owed'[key] \in {owed[key], 0}

\* A request is written into a row that is, or becomes, the PENDING one of its key.
Renewed(id) ==
    /\ id \in Ids /\ SameBut(id)
    /\ rows[id].status = "none" \/ rows[id].key = rows'[id].key
    /\ rows'[id].status = "PENDING" /\ rows'[id].request = requests + 1
    /\ requests' = requests + 1
    /\ \A x \in Ids \ {id} : rows'[id].key \in Keys /\ rows[x].key = rows'[id].key
                                => rows[x].status # "PENDING"
    /\ Hand' \subseteq Hand
    /\ \A job \in Hand : (job \in Hand' <=> job.id # id)
    /\ \A key \in Keys : owed'[key] = IF key = rows'[id].key THEN requests + 1 ELSE owed[key]

Called(id) ==
    /\ id \in Ids /\ SameBut(id) /\ rows[id].status = "PENDING"
    /\ rows'[id].status = "CANCELLED" /\ rows'[id].key = rows[id].key
    /\ rows'[id].request = rows[id].request
    /\ Hand' = Hand /\ requests' = requests /\ owed' = Settle(rows[id].request)

\* The reaper, with nothing in hand: nothing that waits in the queue is touched.
Swept ==
    /\ Hand = {} /\ Hand' = {} /\ requests' = requests /\ owed' = owed
    /\ \A id \in Ids :
         \/ SameRow(id)
         \/ /\ rows[id].status = "RUNNING" /\ rows'[id].status \in {"DONE", "PENDING"}
            /\ rows'[id].key = rows[id].key /\ rows'[id].request = rows[id].request
            /\ rows'[id].status = "PENDING" /\ rows[id].key \in Keys => Pending(rows[id].key) = {}

\* The claim, with nothing in hand.
Claimed(S) ==
    /\ Hand = {} /\ requests' = requests /\ owed' = owed
    /\ S \subseteq Ids /\ \A id \in S : rows[id].status = "PENDING"
    /\ \A job \in Hand' : job.id \in S
    /\ \A id \in S : \E job \in Hand' : job.id = id
    /\ \A x, y \in Hand' : x.id = y.id => x = y
    /\ \A id \in Ids : /\ rows'[id].key = rows[id].key /\ rows'[id].request = rows[id].request
                       /\ rows'[id].status = IF id \in S THEN "RUNNING" ELSE rows[id].status

Moves ==
    \/ Walked \/ Swept
    \/ \E job \in Hand : Requeued(job) \/ Refused(job) \/ Over(job)
    \/ \E id \in Ids : Renewed(id) \/ Called(id)
    \/ \E S \in SUBSET Ids : Claimed(S)

\* What is in hand is RUNNING, and the table says of it what the ticks know.
LEMMA HandCurrent ==
    ASSUME IInv, overruns = 0
    PROVE  /\ \A job \in Hand : /\ job.id \in Ids /\ rows[job.id].status = "RUNNING"
                                /\ rows[job.id].request = job.request
                                /\ job.request \in Requests
           /\ \A x, y \in Hand : x.id = y.id => x = y
<1>1. ASSUME NEW job \in Hand
      PROVE  /\ job.id \in Ids /\ rows[job.id].status = "RUNNING"
             /\ rows[job.id].request = job.request /\ job.request \in Requests
  <2>1. PICK t \in Ticks : job \in Held(t)
    BY DEF Hand
  <2>2. job \in Jobs /\ job.id \in Ids
    BY <2>1, HeldInserted
  <2>. QED  BY <2>1, <2>2 DEF IInv, HeldJobsCurrent, Jobs
<1>2. ASSUME NEW x \in Hand, NEW y \in Hand, x.id = y.id PROVE x = y
  <2>1. PICK t \in Ticks : x \in Held(t)
    BY DEF Hand
  <2>2. PICK u \in Ticks : y \in Held(u)
    BY DEF Hand
  <2>3. t = u
    BY <1>2, <2>1, <2>2 DEF IInv, HeldJobsCurrent
  <2>. QED  BY <1>2, <2>1, <2>2, <2>3, HeldUnique
<1>. QED  BY <1>1, <1>2


-----------------------------------------------------------------------------
\* The newest request of a key is still with a row that goes on.
LEMMA CarriedStep ==
    ASSUME IInv, overruns = 0, Carried, PendingIsNewest, RequestsPast, Moves
    PROVE  Carried'
<1>h. /\ \A job \in Hand : /\ job.id \in Ids /\ rows[job.id].status = "RUNNING"
                           /\ rows[job.id].request = job.request
      /\ \A x, y \in Hand : x.id = y.id => x = y
  BY HandCurrent
<1>. SUFFICES ASSUME NEW key \in Keys, owed'[key] # 0
              PROVE  \E id \in Ids : /\ Going(id)' /\ rows'[id].key = key
                                     /\ rows'[id].request = owed'[key]
  BY DEF Carried
<1>k. key # NoKey
  BY JobsAssumption
<1>o. owed[key] # 0 => \E id \in Ids : /\ Going(id) /\ rows[id].key = key
                                      /\ rows[id].request = owed[key]
  BY DEF Carried
<1>1. CASE Walked
  <2>1. owed'[key] = owed[key]
    BY <1>1 DEF Walked
  <2>. QED  BY <1>1, <1>o, <2>1 DEF Walked, SameRow, Going, InHand
<1>2. CASE Swept
  BY <1>2, <1>o DEF Swept, SameRow, Going, InHand
<1>3. ASSUME NEW job \in Hand, LetGo(job), owed'[key] = owed[key], NEW id \in Ids \ {job.id},
             Going(id), rows[id].key = key, rows[id].request = owed[key]
      PROVE  Going(id)' /\ rows'[id].key = key /\ rows'[id].request = owed'[key]
  <2>1. SameRow(id)
    BY <1>3 DEF LetGo, SameBut
  <2>2. InHand(id) => InHand(id)'
    BY <1>3 DEF LetGo, InHand
  <2>. QED  BY <1>3, <2>1, <2>2 DEF SameRow, Going
<1>4. ASSUME NEW job \in Hand, Requeued(job)
      PROVE  \E id \in Ids : /\ Going(id)' /\ rows'[id].key = key
                             /\ rows'[id].request = owed'[key]
  <2>1. owed'[key] = owed[key] /\ LetGo(job)
    BY <1>4 DEF Requeued
  <2>2. PICK id \in Ids : Going(id) /\ rows[id].key = key /\ rows[id].request = owed[key]
    BY <1>o, <2>1
  <2>3. CASE id = job.id
    BY <1>4, <2>1, <2>2, <2>3 DEF Requeued, LetGo, Going
  <2>. QED  BY <1>3, <2>1, <2>2, <2>3
<1>5. ASSUME NEW job \in Hand, Refused(job)
      PROVE  \E id \in Ids : /\ Going(id)' /\ rows'[id].key = key
                             /\ rows'[id].request = owed'[key]
  <2>1. owed'[key] = owed[key] /\ LetGo(job)
    BY <1>5 DEF Refused
  <2>2. PICK id \in Ids : Going(id) /\ rows[id].key = key /\ rows[id].request = owed[key]
    BY <1>o, <2>1
  <2>3. CASE id = job.id
    <3>1. PICK x \in Pending(key) : x # job.id
      BY <1>5, <2>2, <2>3 DEF Refused, Conflict
    <3>2. x \in Ids \ {job.id} /\ rows[x].status = "PENDING" /\ rows[x].key = key
      BY <3>1 DEF Pending, Having
    <3>3. rows[x].request = owed[key]
      BY <2>1, <3>2 DEF PendingIsNewest
    <3>4. Going(x)
      BY <3>2 DEF Going
    <3>. QED  BY <1>3, <2>1, <3>2, <3>3, <3>4
  <2>. QED  BY <1>3, <2>1, <2>2, <2>3
<1>6. ASSUME NEW job \in Hand, Over(job)
      PROVE  \E id \in Ids : /\ Going(id)' /\ rows'[id].key = key
                             /\ rows'[id].request = owed'[key]
  <2>1. owed'[key] = owed[key] /\ owed[key] # job.request /\ LetGo(job)
    BY <1>6 DEF Over
  <2>2. PICK id \in Ids : Going(id) /\ rows[id].key = key /\ rows[id].request = owed[key]
    BY <1>o, <2>1
  <2>3. id # job.id
    BY <1>h, <2>1, <2>2
  <2>. QED  BY <1>3, <2>1, <2>2, <2>3
<1>7. ASSUME NEW id \in Ids, Renewed(id)
      PROVE  \E x \in Ids : /\ Going(x)' /\ rows'[x].key = key
                            /\ rows'[x].request = owed'[key]
  <2>1. CASE key = rows'[id].key
    BY <1>7, <2>1 DEF Renewed, Going
  <2>2. CASE key # rows'[id].key
    <3>1. owed'[key] = owed[key]
      BY <1>7, <2>2 DEF Renewed
    <3>2. PICK x \in Ids : Going(x) /\ rows[x].key = key /\ rows[x].request = owed[key]
      BY <1>o, <3>1
    <3>3. x # id
      BY <1>7, <2>2, <3>2 DEF Renewed, Going
    <3>4. SameRow(x)
      BY <1>7, <3>3 DEF Renewed, SameBut
    <3>5. InHand(x) => InHand(x)'
      BY <1>7, <3>3 DEF Renewed, InHand
    <3>. QED  BY <3>1, <3>2, <3>4, <3>5 DEF SameRow, Going
  <2>. QED  BY <2>1, <2>2
<1>8. ASSUME NEW id \in Ids, Called(id)
      PROVE  \E x \in Ids : /\ Going(x)' /\ rows'[x].key = key
                            /\ rows'[x].request = owed'[key]
  <2>1. owed'[key] = owed[key] /\ owed[key] # rows[id].request
    BY <1>8 DEF Called, Settle
  <2>2. PICK x \in Ids : Going(x) /\ rows[x].key = key /\ rows[x].request = owed[key]
    BY <1>o, <2>1
  <2>3. SameRow(x) /\ Hand' = Hand
    BY <1>8, <2>1, <2>2 DEF Called, SameBut
  <2>. QED  BY <2>1, <2>2, <2>3 DEF SameRow, Going, InHand
<1>9. ASSUME NEW S \in SUBSET Ids, Claimed(S)
      PROVE  \E x \in Ids : /\ Going(x)' /\ rows'[x].key = key
                            /\ rows'[x].request = owed'[key]
  <2>1. PICK x \in Ids : Going(x) /\ rows[x].key = key /\ rows[x].request = owed[key]
    BY <1>9, <1>o DEF Claimed
  <2>2. rows[x].status = "PENDING"
    BY <1>9, <2>1 DEF Claimed, Going, InHand
  <2>3. /\ rows'[x].key = rows[x].key /\ rows'[x].request = rows[x].request /\ owed' = owed
        /\ rows'[x].status = IF x \in S THEN "RUNNING" ELSE rows[x].status
        /\ x \in S => InHand(x)'
    BY <1>9 DEF Claimed, InHand
  <2>. QED  BY <2>1, <2>2, <2>3 DEF Going
<1>. QED  BY <1>1, <1>2, <1>4, <1>5, <1>6, <1>7, <1>8, <1>9 DEF Moves

\* What waits in the queue is the newest request of its key.
LEMMA PendingStep ==
    ASSUME IInv, overruns = 0, Carried, PendingIsNewest, OneHeldPerKey, Moves
    PROVE  PendingIsNewest'
<1>h. \A job \in Hand : /\ job.id \in Ids /\ rows[job.id].status = "RUNNING"
                        /\ rows[job.id].request = job.request
  BY HandCurrent
<1>. SUFFICES ASSUME NEW id \in Ids, NEW key \in Keys, rows'[id].status = "PENDING",
                     rows'[id].key = key, owed'[key] # 0
              PROVE  rows'[id].request = owed'[key]
  BY DEF PendingIsNewest
<1>k. key # NoKey
  BY JobsAssumption
<1>s. ASSUME SameRow(id), owed'[key] = owed[key] PROVE rows'[id].request = owed'[key]
  BY <1>s DEF SameRow, PendingIsNewest
<1>o. owed[key] # 0 => \E x \in Ids : /\ Going(x) /\ rows[x].key = key
                                     /\ rows[x].request = owed[key]
  BY DEF Carried
<1>1. CASE Walked
  BY <1>1, <1>s DEF Walked
<1>2. CASE Swept
  <2>1. owed'[key] = owed[key]
    BY <1>2 DEF Swept
  <2>2. CASE ~SameRow(id)
    <3>1. rows[id].key = key /\ Pending(key) = {}
      BY <1>2, <2>2 DEF Swept
    <3>2. PICK x \in Ids : Going(x) /\ rows[x].key = key
      BY <1>o, <2>1
    <3>3. x \in Pending(key)
      BY <1>2, <3>2 DEF Swept, Going, InHand, Pending, Having
    <3>. QED  BY <3>1, <3>3
  <2>. QED  BY <1>s, <2>1, <2>2
<1>3. ASSUME NEW job \in Hand, Requeued(job) PROVE rows'[id].request = owed'[key]
  <2>1. owed'[key] = owed[key] /\ LetGo(job)
    BY <1>3 DEF Requeued
  <2>2. CASE id = job.id
    <3>1. PICK x \in Ids : Going(x) /\ rows[x].key = key /\ rows[x].request = owed[key]
      BY <1>o, <2>1
    <3>2. rows[job.id].key = key /\ rows'[id].request = rows[job.id].request
      BY <2>1, <2>2 DEF LetGo
    <3>3. CASE rows[x].status = "PENDING"
      <4>1. x \in Pending(rows[job.id].key) \ {job.id}
        BY <1>h, <3>1, <3>2, <3>3 DEF Pending, Having
      <4>2. Conflict(job.id)
        BY <1>k, <3>2, <4>1 DEF Conflict
      <4>. QED  BY <1>3, <4>2 DEF Requeued
    <3>4. CASE InHand(x)
      <4>1. PICK other \in Hand : other.id = x
        BY <3>4 DEF InHand
      <4>2. other = job
        BY <3>1, <3>2, <4>1 DEF OneHeldPerKey
      <4>. QED  BY <2>1, <3>1, <3>2, <4>1, <4>2
    <3>. QED  BY <3>1, <3>3, <3>4 DEF Going
  <2>. QED  BY <1>s, <2>1, <2>2 DEF LetGo, SameBut
<1>4. ASSUME NEW job \in Hand, Refused(job) \/ Over(job) PROVE rows'[id].request = owed'[key]
  <2>1. id # job.id
    BY <1>h, <1>4 DEF Refused, Over
  <2>2. LetGo(job) /\ owed'[key] = owed[key]
    BY <1>4 DEF Refused, Over
  <2>. QED  BY <1>s, <2>1, <2>2 DEF LetGo, SameBut
<1>5. ASSUME NEW x \in Ids, Renewed(x) PROVE rows'[id].request = owed'[key]
  <2>1. CASE id = x
    BY <1>5, <2>1 DEF Renewed
  <2>2. CASE id # x
    <3>1. SameRow(id)
      BY <1>5, <2>2 DEF Renewed, SameBut
    <3>2. key # rows'[x].key
      BY <1>5, <2>2, <3>1 DEF Renewed, SameRow
    <3>3. owed'[key] = owed[key]
      BY <1>5, <3>2 DEF Renewed
    <3>. QED  BY <1>s, <3>1, <3>3
  <2>. QED  BY <2>1, <2>2
<1>6. ASSUME NEW x \in Ids, Called(x) PROVE rows'[id].request = owed'[key]
  <2>1. id # x
    BY <1>6 DEF Called
  <2>2. owed'[key] = owed[key] /\ SameRow(id)
    BY <1>6, <2>1 DEF Called, SameBut, Settle
  <2>. QED  BY <1>s, <2>2
<1>7. ASSUME NEW S \in SUBSET Ids, Claimed(S) PROVE rows'[id].request = owed'[key]
  BY <1>7 DEF Claimed, PendingIsNewest
<1>. QED  BY <1>1, <1>2, <1>3, <1>4, <1>5, <1>6, <1>7 DEF Moves

\* A claim takes one row of a key, since only one was PENDING.
LEMMA OneHeldStep ==
    ASSUME IInv, overruns = 0, OneHeldPerKey, Moves
    PROVE  OneHeldPerKey'
<1>1. CASE \E S \in SUBSET Ids : Claimed(S)
  <2>1. PICK S \in SUBSET Ids : Claimed(S)
    BY <1>1
  <2>2. ASSUME NEW x \in Hand', NEW y \in Hand', rows'[x.id].key = rows'[y.id].key,
               rows'[x.id].key \in Keys
        PROVE  x = y
    <3>1. x.id \in S /\ y.id \in S
      BY <2>1 DEF Claimed
    <3>2. /\ rows[x.id].status = "PENDING" /\ rows[y.id].status = "PENDING"
          /\ rows[x.id].key = rows[y.id].key /\ rows[x.id].key # NoKey
      BY <2>1, <2>2, <3>1, JobsAssumption DEF Claimed
    <3>3. x.id = y.id
      BY <3>1, <3>2 DEF IInv, OnePendingPerKey, Having
    <3>. QED  BY <2>1, <3>3 DEF Claimed
  <2>. QED  BY <2>2 DEF OneHeldPerKey
<1>2. CASE /\ Hand' \subseteq Hand
           /\ \A job \in Hand' : rows'[job.id].key = rows[job.id].key
  BY <1>2 DEF OneHeldPerKey
<1>3. CASE Walked \/ Swept
  <2>1. \A job \in Hand : job.id \in Ids
    BY HandCurrent
  <2>. QED  BY <1>2, <1>3, <2>1 DEF Walked, Swept, SameRow
<1>4. CASE \E job \in Hand : Requeued(job) \/ Refused(job) \/ Over(job)
  <2>1. PICK job \in Hand : LetGo(job)
    BY <1>4 DEF Requeued, Refused, Over
  <2>2. \A other \in Hand : other.id \in Ids
    BY HandCurrent
  <2>. QED  BY <1>2, <2>1, <2>2 DEF LetGo, SameBut, SameRow
<1>5. CASE \E id \in Ids : Renewed(id) \/ Called(id)
  <2>1. PICK id \in Ids : Renewed(id) \/ Called(id)
    BY <1>5
  <2>2. \A other \in Hand : other.id \in Ids
    BY HandCurrent
  <2>3. CASE Renewed(id)
    BY <1>2, <2>2, <2>3 DEF Renewed, SameBut, SameRow
  <2>4. CASE Called(id)
    BY <1>2, <2>2, <2>4 DEF Called, SameBut, SameRow
  <2>. QED  BY <2>1, <2>3, <2>4
<1>. QED  BY <1>1, <1>3, <1>4, <1>5 DEF Moves


-----------------------------------------------------------------------------
(***************************************************************************)
(* Every orderly step is one of those                                      *)
(***************************************************************************)
\* While no lock is lost the tick that takes a step is the only one with jobs in hand.
LEMMA HandStep ==
    ASSUME IInv, overruns = 0, NEW t \in Ticks, Run(t)
    PROVE  Hand = Held(t) /\ Hand' = Held(t)'
<1>1. work[t].phase # "idle" \/ lock = NoTick
  BY TickWorks DEF Begin, Acquirable
<1>2. \A u \in Ticks \ {t} : Held(u) = {}
  BY <1>1, OthersIdle
<1>3. \A u \in Ticks \ {t} : Held(u)' = {}
  BY <1>2, OneTick DEF Held
<1>4. Hand = Held(t)
  BY <1>2 DEF Hand
<1>5. Hand' = Held(t)'
  BY <1>3 DEF Hand
<1>. QED  BY <1>4, <1>5

\* What the steps of a tick do to what it has in hand.
LEMMA HeldStep ==
    ASSUME IInv, NEW t \in Ticks
    PROVE  /\ \A phase \in Phases : Goto(t, phase) => Held(t)' = Held(t)
           /\ work[t].phase \in Busy /\ NextJob(t) => Held(t)' = Held(t) \ {work[t].cur}
           /\ Pick(t) \/ Defer(t) => Held(t)' = Held(t)
<1>0. work \in [Ticks -> Tick] /\ work[t] \in Tick /\ ShapeOf(work[t])
  BY DEF IInv, TypeOK, Shape
<1>1. ASSUME NEW phase \in Phases, Goto(t, phase) PROVE Held(t)' = Held(t)
  <2>. DEFINE w == [work[t] EXCEPT !.phase = phase]
  <2>1. work' = [work EXCEPT ![t] = w]
    BY <1>1 DEF Goto
  <2>2. w.batch = work[t].batch /\ w.later = work[t].later /\ w.cur = work[t].cur
    BY <1>0 DEF Tick
  <2>. HIDE DEF w
  <2>3. work'[t] = w
    BY <1>0, <2>1
  <2>. QED  BY <2>2, <2>3 DEF Held, HeldOf
<1>2. ASSUME work[t].phase \in Busy, NextJob(t) PROVE Held(t)' = Held(t) \ {work[t].cur}
  <2>. DEFINE w == [work[t] EXCEPT !.phase = "loop", !.cur = NoJob]
  <2>1. work' = [work EXCEPT ![t] = w]
    BY <1>2 DEF NextJob
  <2>2. w.batch = work[t].batch /\ w.later = work[t].later /\ w.cur = NoJob
    BY <1>0 DEF Tick
  <2>. HIDE DEF w
  <2>3. work'[t] = w
    BY <1>0, <2>1
  <2>4. work[t].cur \in Jobs /\ NoJob \notin Jobs
    BY <1>2, CurHeld DEF NoJob, Jobs, Ids
  <2>5. work[t].cur \notin work[t].batch \cup work[t].later
    BY <1>0 DEF ShapeOf
  <2>. QED  BY <2>2, <2>3, <2>4, <2>5 DEF Held, HeldOf
<1>3. ASSUME Pick(t) PROVE Held(t)' = Held(t)
  <2>1. PICK job \in work[t].batch, phase \in {"beat", "hold"} :
          work' = [work EXCEPT ![t] = [work[t] EXCEPT !.phase = phase, !.cur = job,
                                    !.batch = work[t].batch \ {job}, !.ran = TRUE]]
    BY <1>3 DEF Pick
  <2>. DEFINE w == [work[t] EXCEPT !.phase = phase, !.cur = job,
                                   !.batch = work[t].batch \ {job}, !.ran = TRUE]
  <2>2. work' = [work EXCEPT ![t] = w]
    BY <2>1
  <2>3. w.cur = job /\ w.batch = work[t].batch \ {job} /\ w.later = work[t].later
    BY <1>0 DEF Tick
  <2>. HIDE DEF w
  <2>4. work'[t] = w
    BY <1>0, <2>2
  <2>5. work[t].cur = NoJob
    BY <1>0, <1>3 DEF Pick, ShapeOf
  <2>6. job \in Jobs /\ NoJob \notin Jobs
    BY <1>0 DEF Tick, NoJob, Jobs, Ids
  <2>. QED  BY <2>3, <2>4, <2>5, <2>6 DEF Held, HeldOf
<1>4. ASSUME Defer(t) PROVE Held(t)' = Held(t)
  <2>1. PICK job \in work[t].batch :
          work' = [work EXCEPT ![t] = [work[t] EXCEPT !.batch = work[t].batch \ {job},
                                                   !.later = work[t].later \cup {job}]]
    BY <1>4 DEF Defer
  <2>. DEFINE w == [work[t] EXCEPT !.batch = work[t].batch \ {job},
                                   !.later = work[t].later \cup {job}]
  <2>2. work' = [work EXCEPT ![t] = w]
    BY <2>1
  <2>3. /\ w.cur = work[t].cur /\ w.batch = work[t].batch \ {job}
        /\ w.later = work[t].later \cup {job}
    BY <1>0 DEF Tick
  <2>. HIDE DEF w
  <2>4. work'[t] = w
    BY <1>0, <2>2
  <2>. QED  BY <2>3, <2>4 DEF Held, HeldOf
<1>. QED  BY <1>1, <1>2, <1>3, <1>4

\* What Release and End do to it.
LEMMA HeldEnd ==
    ASSUME IInv, NEW t \in Ticks
    PROVE  /\ \A job \in work[t].later :
                 work' = [work EXCEPT ![t] = [work[t] EXCEPT !.later = work[t].later \ {job}]]
                   => Held(t)' = Held(t) \ {job}
           /\ BatchDone /\ End(t) => Held(t)' = {} /\ Held(t) = {}
<1>0. work \in [Ticks -> Tick] /\ work[t] \in Tick /\ ShapeOf(work[t])
  BY DEF IInv, TypeOK, Shape
<1>1. ASSUME NEW job \in work[t].later,
             work' = [work EXCEPT ![t] = [work[t] EXCEPT !.later = work[t].later \ {job}]]
      PROVE  Held(t)' = Held(t) \ {job}
  <2>. DEFINE w == [work[t] EXCEPT !.later = work[t].later \ {job}]
  <2>1. work' = [work EXCEPT ![t] = w]
    BY <1>1
  <2>2. w.cur = work[t].cur /\ w.batch = work[t].batch /\ w.later = work[t].later \ {job}
    BY <1>0 DEF Tick
  <2>. HIDE DEF w
  <2>3. work'[t] = w
    BY <1>0, <2>1
  <2>4. job # work[t].cur /\ job \notin work[t].batch
    BY <1>0 DEF ShapeOf
  <2>. QED  BY <2>2, <2>3, <2>4 DEF Held, HeldOf
<1>2. ASSUME BatchDone, End(t) PROVE Held(t)' = {} /\ Held(t) = {}
  <2>1. work'[t] = Idle
    BY <1>0, <1>2 DEF End
  <2>2. work[t].batch = {} /\ work[t].later = {} /\ work[t].cur = NoJob
    BY <1>0, <1>2 DEF End, BatchDone, ShapeOf
  <2>. QED  BY <2>1, <2>2 DEF Held, HeldOf, Idle
<1>. QED  BY <1>1, <1>2

\* A write of one row changes its status only.
LEMMA MovedRow ==
    ASSUME IInv, NEW id \in Ids, NEW status \in Status, NEW attempts \in Nat,
           NEW due \in BOOLEAN,
           rows' = [rows EXCEPT ![id] = Moved(rows[id], status, attempts, due)]
    PROVE  /\ SameBut(id) /\ rows'[id].key = rows[id].key
           /\ rows'[id].request = rows[id].request /\ rows'[id].status = status
<1>1. rows \in [Ids -> Row]
  BY DEF IInv, TypeOK
<1>. DEFINE row == Moved(rows[id], status, attempts, due)
<1>2. row.key = rows[id].key /\ row.request = rows[id].request /\ row.status = status
  BY <1>1, MovedType
<1>3. rows' = [rows EXCEPT ![id] = row]
  OBVIOUS
<1>. HIDE DEF row
<1>. QED  BY <1>1, <1>2, <1>3 DEF SameBut, SameRow


\* A tick that writes the row of a job, or leaves it, lets go of the job.
LEMMA LetGoStep ==
    ASSUME IInv, overruns = 0, NEW t \in Ticks, Run(t), NEW job \in Held(t),
           Held(t)' = Held(t) \ {job}, requests' = requests,
           NEW status \in Status, NEW attempts \in Nat, NEW due \in BOOLEAN,
           \/ rows' = rows /\ status = rows[job.id].status
           \/ rows' = [rows EXCEPT ![job.id] = Moved(rows[job.id], status, attempts, due)]
    PROVE  /\ LetGo(job) /\ job \in Hand /\ rows'[job.id].status = status
           /\ rows[job.id].status = "RUNNING" /\ rows[job.id].request = job.request
           /\ job.request # 0
<1>1. Hand = Held(t) /\ Hand' = Held(t)'
  BY HandStep
<1>2. /\ job.id \in Ids /\ rows[job.id].status = "RUNNING"
      /\ rows[job.id].request = job.request /\ job.request \in Requests
  BY <1>1, HandCurrent
<1>3. /\ SameBut(job.id) /\ rows'[job.id].key = rows[job.id].key
      /\ rows'[job.id].request = rows[job.id].request /\ rows'[job.id].status = status
  <2>1. CASE rows' = rows /\ status = rows[job.id].status
    BY <2>1 DEF SameBut, SameRow
  <2>2. CASE rows' = [rows EXCEPT ![job.id] = Moved(rows[job.id], status, attempts, due)]
    BY <1>2, <2>2, MovedRow
  <2>. QED  BY <2>1, <2>2
<1>4. job.request # 0
  BY <1>2, JobsAssumption DEF Requests
<1>. QED  BY <1>1, <1>2, <1>3, <1>4 DEF LetGo

\* The steps of a tick that write no row.
LEMMA WalkedStep ==
    ASSUME IInv, overruns = 0, BatchDone, NEW t \in Ticks, Run(t),
           \/ Begin(t) \/ Pick(t) \/ Defer(t) \/ Beat(t) \/ Handle(t) \/ EndLoop(t) \/ End(t)
           \/ Chain(t) /\ Conflict(work[t].cur.id)
           \/ Hold(t) /\ Conflict(work[t].cur.id) /\ work[t].phase = "hold"
    PROVE  Walked
<1>1. Hand = Held(t) /\ Hand' = Held(t)'
  BY HandStep
<1>2. Held(t)' = Held(t)
  <2>1. CASE \E phase \in Phases : Goto(t, phase)
    BY <2>1, HeldStep
  <2>2. CASE Pick(t) \/ Defer(t)
    BY <2>2, HeldStep
  <2>3. CASE End(t)
    BY <2>3, HeldEnd
  <2>4. CASE Begin(t) \/ Beat(t) \/ EndLoop(t)
    BY <2>1, <2>4 DEF Begin, Beat, EndLoop, Phases
  <2>5. CASE Handle(t)
    <3>1. PICK phase \in {"ok", "chain", "hold", "fail", "catchhold"} : Goto(t, phase)
      BY <2>5 DEF Handle
    <3>. QED  BY <2>1, <3>1 DEF Phases
  <2>6. CASE Catch(t)
    <3>1. PICK phase \in {"fail", "catchhold"} : Goto(t, phase)
      BY <2>6 DEF Catch
    <3>. QED  BY <2>1, <3>1 DEF Phases
  <2>7. CASE \/ Chain(t) /\ Conflict(work[t].cur.id)
             \/ Hold(t) /\ Conflict(work[t].cur.id) /\ work[t].phase = "hold"
    <3>1. Catch(t)
      BY <2>7 DEF Chain, Hold
    <3>. QED  BY <2>6, <3>1
  <2>. QED  BY <2>2, <2>3, <2>4, <2>5, <2>7
<1>3. \A id \in Ids : SameRow(id)
  <2>1. CASE rows' = rows
    BY <2>1 DEF SameRow
  <2>2. CASE Beat(t) /\ rows' # rows
    <3>. DEFINE id == work[t].cur.id
    <3>1. rows[id].status = "RUNNING" /\ rows' = Locked({id})
      BY <2>2 DEF Beat
    <3>2. id \in Ids
      BY <2>2, CurHeld, HeldInserted DEF Beat, Busy
    <3>. HIDE DEF id
    <3>3. {id} \in SUBSET Ids
      BY <3>2
    <3>. QED  BY <3>1, <3>2, <3>3, LockedType DEF SameRow, IInv
  <2>. QED
    BY <2>1, <2>2 DEF Begin, Pick, Defer, Handle, EndLoop, End, Chain, Hold
<1>4. requests' = requests
  BY DEF Begin, Pick, Defer, Beat, Handle, EndLoop, End, Chain, Hold
<1>5. \A key \in Keys : owed'[key] \in {owed[key], 0}
  <2>1. CASE owed' = owed
    BY <2>1
  <2>2. CASE Handle(t) /\ owed' # owed
    <3>1. owed' = Settle(work[t].cur.request)
      BY <2>2 DEF Handle
    <3>. QED  BY <3>1 DEF Settle
  <2>. QED
    BY <2>1, <2>2 DEF Begin, Pick, Defer, Beat, EndLoop, End, Chain, Hold
<1>. QED  BY <1>1, <1>2, <1>3, <1>4, <1>5 DEF Walked

\* The steps of a tick that end a job.
LEMMA EndedStep ==
    ASSUME IInv, overruns = 0, HandledIsSettled, NEW t \in Ticks, Run(t),
           \/ Done(t) \/ Fail(t)
           \/ Hold(t) /\ ~(Conflict(work[t].cur.id) /\ work[t].phase = "hold")
    PROVE  \E job \in Hand : Requeued(job) \/ Refused(job) \/ Over(job)
<1>. DEFINE job == work[t].cur
            attempts == rows[job.id].attempts
<1>1. NextJob(t) /\ work[t].phase \in Busy /\ requests' = requests
  BY DEF Done, Fail, Hold, Busy
<1>2. job \in Held(t) /\ job \in Jobs /\ Held(t)' = Held(t) \ {job} /\ job.id \in Ids
  BY <1>1, CurHeld, HeldStep DEF Jobs
<1>3. attempts \in Nat /\ rows[job.id].status \in Status
  BY <1>2 DEF IInv, TypeOK, Row
<1>p. {"DONE", "FAILED", "PENDING"} \subseteq Status
  BY DEF Status
<1>4. CASE Done(t)
  <2>1. rows' = [rows EXCEPT ![job.id] = Moved(rows[job.id], "DONE", attempts, FALSE)]
          /\ owed' = owed
    BY <1>4 DEF Done
  <2>. HIDE DEF attempts, job
  <2>2. LetGo(job) /\ job \in Hand /\ rows'[job.id].status = "DONE"
    BY <1>1, <1>2, <1>3, <1>p, <2>1, LetGoStep
  <2>3. \A key \in Keys : owed[key] # job.request
    BY <1>4 DEF HandledIsSettled, Done, job
  <2>. QED  BY <2>1, <2>2, <2>3 DEF Over
<1>5. CASE Hold(t) /\ Conflict(job.id)
  <2>1. rows' = rows /\ owed' = owed
    BY <1>5 DEF Hold
  <2>2. Conflict(job.id)
    BY <1>5
  <2>. HIDE DEF job, attempts
  <2>3. LetGo(job) /\ job \in Hand /\ rows'[job.id].status = rows[job.id].status
    BY <1>1, <1>2, <1>3, <2>1, LetGoStep
  <2>. QED  BY <2>1, <2>2, <2>3 DEF Refused
<1>6. CASE Hold(t) /\ ~Conflict(job.id)
  <2>1. rows' = [rows EXCEPT ![job.id] = Moved(rows[job.id], "PENDING", attempts, TRUE)]
          /\ owed' = owed
    BY <1>6 DEF Hold
  <2>2. ~Conflict(job.id)
    BY <1>6
  <2>. HIDE DEF job, attempts
  <2>3. LetGo(job) /\ job \in Hand /\ rows'[job.id].status = "PENDING"
    BY <1>1, <1>2, <1>3, <1>p, <2>1, LetGoStep
  <2>. QED  BY <2>1, <2>2, <2>3 DEF Requeued
<1>7. CASE Fail(t)
  <2>. DEFINE n == job.attempts + 1
  <2>0. n \in Nat
    BY <1>2 DEF Jobs
  <2>1. \/ /\ rows' = [rows EXCEPT ![job.id] = Moved(rows[job.id], "FAILED", n, FALSE)]
           /\ owed' = Settle(job.request)
        \/ rows' = rows /\ Conflict(job.id) /\ owed' = owed
        \/ /\ rows' = [rows EXCEPT ![job.id] = Moved(rows[job.id], "PENDING", n, FALSE)]
           /\ ~Conflict(job.id) /\ owed' = owed
    BY <1>7 DEF Fail
  <2>. HIDE DEF job, attempts, n
  <2>2. CASE /\ rows' = [rows EXCEPT ![job.id] = Moved(rows[job.id], "FAILED", n, FALSE)]
             /\ owed' = Settle(job.request)
    <3>1. /\ LetGo(job) /\ job \in Hand /\ rows'[job.id].status = "FAILED"
          /\ job.request # 0
      BY <1>1, <1>2, <1>p, <2>0, <2>2, LetGoStep
    <3>2. \A key \in Keys : owed'[key] # job.request /\ owed'[key] \in {owed[key], 0}
      BY <2>2, <3>1 DEF Settle
    <3>. QED  BY <3>1, <3>2 DEF Over
  <2>3. CASE rows' = rows /\ Conflict(job.id) /\ owed' = owed
    <3>1. LetGo(job) /\ job \in Hand /\ rows'[job.id].status = rows[job.id].status
      BY <1>1, <1>2, <1>3, <2>3, LetGoStep
    <3>. QED  BY <2>3, <3>1 DEF Refused
  <2>4. CASE /\ rows' = [rows EXCEPT ![job.id] = Moved(rows[job.id], "PENDING", n, FALSE)]
             /\ ~Conflict(job.id) /\ owed' = owed
    <3>1. LetGo(job) /\ job \in Hand /\ rows'[job.id].status = "PENDING"
      BY <1>1, <1>2, <1>p, <2>0, <2>4, LetGoStep
    <3>. QED  BY <2>4, <3>1 DEF Requeued
  <2>. QED  BY <2>1, <2>2, <2>3, <2>4
<1>. QED  BY <1>4, <1>5, <1>6, <1>7

\* A deferred job is handed back, or its row stays.
LEMMA ReleasedStep ==
    ASSUME IInv, overruns = 0, NEW t \in Ticks, Run(t), Release(t)
    PROVE  \E job \in Hand : Requeued(job) \/ Refused(job)
<1>1. PICK job \in work[t].later :
        /\ rows' = IF rows[job.id].status = "RUNNING" /\ ~Conflict(job.id)
                   THEN [rows EXCEPT ![job.id] =
                            Moved(rows[job.id], "PENDING", rows[job.id].attempts, TRUE)]
                   ELSE rows
        /\ work' = [work EXCEPT ![t] = [work[t] EXCEPT !.later = work[t].later \ {job}]]
  BY DEF Release
<1>2. job \in Held(t) /\ Held(t)' = Held(t) \ {job}
  BY <1>1, HeldEnd DEF Held, HeldOf
<1>3. /\ job.id \in Ids /\ rows[job.id].status = "RUNNING"
      /\ rows[job.id].attempts \in Nat /\ rows[job.id].status \in Status
  BY <1>2, HeldInserted DEF IInv, HeldJobsCurrent, Row
<1>4. requests' = requests /\ owed' = owed
  BY DEF Release
<1>p. "PENDING" \in Status
  BY DEF Status
<1>5. CASE Conflict(job.id)
  <2>1. rows' = rows
    BY <1>1, <1>5
  <2>2. LetGo(job) /\ job \in Hand /\ rows'[job.id].status = rows[job.id].status
    BY <1>2, <1>3, <1>4, <2>1, LetGoStep
  <2>. QED  BY <1>4, <1>5, <2>2 DEF Refused
<1>6. CASE ~Conflict(job.id)
  <2>1. rows' = [rows EXCEPT ![job.id] =
                     Moved(rows[job.id], "PENDING", rows[job.id].attempts, TRUE)]
    BY <1>1, <1>3, <1>6
  <2>2. LetGo(job) /\ job \in Hand /\ rows'[job.id].status = "PENDING"
    BY <1>2, <1>3, <1>4, <1>p, <2>1, LetGoStep
  <2>. QED  BY <1>4, <1>6, <2>2 DEF Requeued
<1>. QED  BY <1>5, <1>6


\* Another turn: the row carries a new request, or the old one again.
LEMMA ChainedStep ==
    ASSUME IInv, overruns = 0, NEW t \in Ticks, Run(t), Chain(t),
           ~Conflict(work[t].cur.id)
    PROVE  \/ \E job \in Hand : Requeued(job)
           \/ \E id \in Ids : Renewed(id)
<1>. DEFINE job == work[t].cur
            id == job.id
            base == Moved(rows[id], "PENDING", 0, FALSE)
            request == IF requests < MaxRequests THEN requests + 1 ELSE rows[id].request
            row == [base EXCEPT !.request = request]
<1>1. /\ NextJob(t) /\ work[t].phase \in Busy /\ ~Conflict(id)
      /\ rows' = [rows EXCEPT ![id] = row]
      /\ requests' = IF requests < MaxRequests THEN requests + 1 ELSE requests
      /\ owed' = IF requests < MaxRequests THEN Owe(rows[id].key, request) ELSE owed
  BY DEF Chain, Busy
<1>2. job \in Held(t) /\ Held(t)' = Held(t) \ {job}
  BY <1>1, CurHeld, HeldStep
<1>3. Hand = Held(t) /\ Hand' = Held(t)'
  BY HandStep
<1>4. /\ id \in Ids /\ rows[id].status = "RUNNING" /\ rows[id].request = job.request
      /\ \A x, y \in Hand : x.id = y.id => x = y
  BY <1>2, <1>3, HandCurrent
<1>5. rows \in [Ids -> Row] /\ "PENDING" \in Status
  BY DEF IInv, TypeOK, Status
<1>6. base \in Row /\ base.key = rows[id].key /\ base.status = "PENDING"
  <2>1. rows[id] \in Row
    BY <1>4, <1>5
  <2>2. ASSUME NEW r \in Row
        PROVE  /\ Moved(r, "PENDING", 0, FALSE) \in Row
               /\ Moved(r, "PENDING", 0, FALSE).key = r.key
               /\ Moved(r, "PENDING", 0, FALSE).status = "PENDING"
    BY DEF Moved, Row, Status
  <2>. QED  BY <2>1, <2>2
<1>. HIDE DEF base
<1>7. row.key = rows[id].key /\ row.status = "PENDING" /\ row.request = request
  BY <1>6 DEF Row
<1>. HIDE DEF row
<1>8. SameBut(id) /\ rows'[id] = row
  BY <1>1, <1>4, <1>5 DEF SameBut, SameRow
<1>9. CASE requests < MaxRequests
  <2>1. request = requests + 1 /\ requests' = requests + 1 /\ owed' = Owe(rows[id].key, requests + 1)
    BY <1>1, <1>9
  <2>. HIDE DEF request, id
  <2>2. \A x \in Ids \ {id} : rows'[id].key \in Keys /\ rows[x].key = rows'[id].key
                                => rows[x].status # "PENDING"
    BY <1>1, <1>7, <1>8, JobsAssumption DEF Conflict, Pending, Having
  <2>3. \A key \in Keys : owed'[key] = IF key = rows'[id].key THEN requests + 1 ELSE owed[key]
    BY <1>7, <1>8, <2>1 DEF Owe
  <2>4. Hand' \subseteq Hand /\ \A x \in Hand : (x \in Hand' <=> x.id # id)
    BY <1>2, <1>3, <1>4 DEF id
  <2>5. Renewed(id)
    BY <1>4, <1>7, <1>8, <2>1, <2>2, <2>3, <2>4 DEF Renewed
  <2>. QED  BY <1>4, <2>5
<1>10. CASE ~(requests < MaxRequests)
  <2>1. request = rows[id].request /\ requests' = requests /\ owed' = owed
    BY <1>1, <1>10
  <2>. HIDE DEF request
  <2>2. Requeued(job)
    BY <1>1, <1>2, <1>3, <1>4, <1>7, <1>8, <2>1 DEF Requeued, LetGo
  <2>. QED  BY <1>2, <1>3, <2>2
<1>. QED  BY <1>9, <1>10

\* A caller puts its request into the PENDING row of its key.
LEMMA RescheduledStep ==
    ASSUME IInv, overruns = 0, CallFits, NEW c \in Callers, Reschedule(c)
    PROVE  Walked \/ \E id \in Ids : Renewed(id)
<1>. DEFINE id == calls[c].id
            row == [rows[id] EXCEPT !.request = requests + 1, !.elapsed = FALSE]
<1>1. Hand' = Hand
  BY DEF Reschedule, Hand, Held
<1>2. id \in Ids /\ rows[id].key = calls[c].key /\ rows \in [Ids -> Row]
  BY DEF Reschedule, IInv, Known, CallFits, TypeOK
<1>3. CASE ~Reschedulable(id)
  BY <1>1, <1>3 DEF Reschedule, Walked, SameRow
<1>4. CASE Reschedulable(id)
  <2>1. /\ rows[id].status = "PENDING" /\ requests' = requests + 1
        /\ rows' = [rows EXCEPT ![id] = row] /\ owed' = Owe(calls[c].key, requests + 1)
    BY <1>4 DEF Reschedule, Reschedulable
  <2>2. row.key = rows[id].key /\ row.status = rows[id].status /\ row.request = requests + 1
    BY <1>2 DEF Row
  <2>. HIDE DEF row, id
  <2>3. SameBut(id) /\ rows'[id] = row
    BY <1>2, <2>1 DEF SameBut, SameRow
  <2>4. \A x \in Ids \ {id} : rows'[id].key \in Keys /\ rows[x].key = rows'[id].key
                                => rows[x].status # "PENDING"
    BY <1>2, <2>1, <2>2, <2>3, JobsAssumption DEF IInv, OnePendingPerKey, Having
  <2>5. \A job \in Hand : job.id # id
    BY <2>1, HandCurrent
  <2>6. \A key \in Keys : owed'[key] = IF key = rows'[id].key THEN requests + 1 ELSE owed[key]
    BY <1>2, <2>1, <2>2, <2>3 DEF Owe
  <2>7. Renewed(id)
    BY <1>1, <1>2, <2>1, <2>2, <2>3, <2>4, <2>5, <2>6 DEF Renewed
  <2>. QED  BY <1>2, <2>7
<1>. QED  BY <1>3, <1>4

\* A caller inserts a row for a key that has no PENDING one.
LEMMA CreatedStep ==
    ASSUME IInv, overruns = 0, NEW c \in Callers, Create(c)
    PROVE  Walked \/ \E id \in Ids : Renewed(id)
<1>. DEFINE id == inserted + 1
            key == calls[c].key
            row == [NoRow EXCEPT !.status = "PENDING", !.key = key, !.request = requests + 1]
<1>1. Hand' = Hand
  BY DEF Create, Hand, Held
<1>2. rows \in [Ids -> Row] /\ inserted \in Nat
  BY JobsAssumption DEF IInv, TypeOK
<1>3. CASE key # NoKey /\ Pending(key) # {}
  BY <1>1, <1>3 DEF Create, Walked, SameRow
<1>4. CASE ~(key # NoKey /\ Pending(key) # {})
  <2>1. /\ inserted < MaxRows /\ requests' = requests + 1
        /\ rows' = [rows EXCEPT ![id] = row] /\ owed' = Owe(key, requests + 1)
    BY <1>4 DEF Create
  <2>2. id \in Ids /\ rows[id].status = "none"
    BY <1>2, <2>1, JobsAssumption DEF IInv, Numbered, Ids
  <2>3. row.key = key /\ row.status = "PENDING" /\ row.request = requests + 1
    BY DEF NoRow
  <2>. HIDE DEF row, id, key
  <2>4. SameBut(id) /\ rows'[id] = row
    BY <1>2, <2>1, <2>2 DEF SameBut, SameRow
  <2>5. \A x \in Ids \ {id} : rows'[id].key \in Keys /\ rows[x].key = rows'[id].key
                                => rows[x].status # "PENDING"
    BY <1>4, <2>3, <2>4, JobsAssumption DEF Pending, Having
  <2>6. \A job \in Hand : job.id # id
    BY <2>2, HandCurrent
  <2>7. \A k \in Keys : owed'[k] = IF k = rows'[id].key THEN requests + 1 ELSE owed[k]
    BY <2>1, <2>3, <2>4 DEF Owe
  <2>8. Renewed(id)
    BY <1>1, <2>1, <2>2, <2>3, <2>4, <2>5, <2>6, <2>7 DEF Renewed
  <2>. QED  BY <2>2, <2>8
<1>. QED  BY <1>3, <1>4

\* What callers, time and policy do besides.
LEMMA OutsideMoves ==
    ASSUME IInv, \/ Cancel \/ SetPolicy \/ (\E id \in Ids : Elapse(id))
                 \/ \E c \in Callers : Schedule(c) \/ Collapse(c)
    PROVE  Walked \/ \E id \in Ids : Called(id)
<1>1. Hand' = Hand /\ requests' = requests
  BY DEF Cancel, SetPolicy, Elapse, Schedule, Collapse, Hand, Held
<1>2. CASE rows' = rows /\ owed' = owed
  BY <1>1, <1>2 DEF Walked, SameRow
<1>3. ASSUME NEW id \in Ids, Elapse(id) PROVE Walked
  <2>1. rows' = [rows EXCEPT ![id] = [rows[id] EXCEPT !.elapsed = TRUE]] /\ owed' = owed
    BY <1>3 DEF Elapse
  <2>2. rows \in [Ids -> Row]
    BY DEF IInv, TypeOK
  <2>3. \A x \in Ids : SameRow(x)
    BY <2>1, <2>2 DEF Row, SameRow
  <2>. QED  BY <1>1, <2>1, <2>3 DEF Walked
<1>4. CASE Cancel
  <2>1. PICK id \in Ids :
          /\ rows[id].status = "PENDING" /\ owed' = Settle(rows[id].request)
          /\ rows' = [rows EXCEPT ![id] =
                         Moved(rows[id], "CANCELLED", rows[id].attempts, FALSE)]
    BY <1>4 DEF Cancel, Cancellable, Having
  <2>2. rows[id].attempts \in Nat /\ "CANCELLED" \in Status
    BY DEF IInv, TypeOK, Row, Status
  <2>3. /\ SameBut(id) /\ rows'[id].key = rows[id].key
        /\ rows'[id].request = rows[id].request /\ rows'[id].status = "CANCELLED"
    BY <2>1, <2>2, MovedRow
  <2>. QED  BY <1>1, <2>1, <2>3 DEF Called
<1>. QED  BY <1>2, <1>3, <1>4 DEF SetPolicy, Schedule, Collapse

\* The reaper finds nothing in hand.
LEMMA SweptStep ==
    ASSUME IInv, overruns = 0, NEW t \in Ticks, Reap(t)
    PROVE  Swept
<1>1. Run(t)
  BY DEF Run
<1>2. Hand = Held(t) /\ Hand' = Held(t)'
  BY <1>1, HandStep
<1>3. Held(t)' = Held(t) /\ Held(t) = {}
  BY HeldStep DEF Reap, Phases, IInv, Shape, ShapeOf, Held
<1>4. ASSUME NEW id \in Ids
      PROVE  \/ SameRow(id)
             \/ /\ rows[id].status = "RUNNING" /\ rows'[id].status \in {"DONE", "PENDING"}
                /\ rows'[id].key = rows[id].key /\ rows'[id].request = rows[id].request
                /\ rows'[id].status = "PENDING" /\ rows[id].key \in Keys
                     => Pending(rows[id].key) = {}
  <2>1. CASE Kept(id)
    BY <2>1 DEF Kept, SameRow
  <2>2. CASE Reaped(id, "DONE")
    BY <2>2 DEF Reaped
  <2>3. CASE Reaped(id, "PENDING") /\ ~Retired(id)
    BY <2>3, JobsAssumption DEF Reaped, Retired
  <2>. QED  BY <2>1, <2>2, <2>3, ReapRow
<1>5. requests' = requests /\ owed' = owed
  BY DEF Reap
<1>. QED  BY <1>2, <1>3, <1>4, <1>5 DEF Swept

\* Nor does the claim, after which all that it took is.
LEMMA ClaimedStep ==
    ASSUME IInv, overruns = 0, NEW t \in Ticks, Claim(t)
    PROVE  \E S \in SUBSET Ids : Claimed(S)
<1>. DEFINE JobOf(id) == [id |-> id, request |-> rows[id].request,
                          attempts |-> rows[id].attempts]
<1>1. PICK S \in Take(Dues) :
        /\ rows' = Locked(S)
        /\ work' = [work EXCEPT ![t] = [Idle EXCEPT !.phase = "loop",
                                          !.batch = {JobOf(id) : id \in S}]]
  BY DEF Claim
<1>2. S \in SUBSET Ids /\ \A id \in S : rows[id].status = "PENDING"
  BY DEF Take, Dues, Due
<1>3. Hand = Held(t) /\ Hand' = Held(t)'
  BY HandStep DEF Run
<1>4. Held(t) = {}
  BY DEF Claim, IInv, Shape, ShapeOf, Held
<1>. DEFINE batch == {JobOf(id) : id \in S}
            w == [Idle EXCEPT !.phase = "loop", !.batch = batch]
<1>5. /\ \A job \in batch : job.id \in S
      /\ \A id \in S : \E job \in batch : job.id = id
      /\ \A x, y \in batch : x.id = y.id => x = y
  <2>1. ASSUME NEW job \in batch PROVE job.id \in S /\ job = JobOf(job.id)
    OBVIOUS
  <2>2. ASSUME NEW id \in S PROVE JobOf(id) \in batch /\ JobOf(id).id = id
    OBVIOUS
  <2>. HIDE DEF batch, JobOf
  <2>. QED  BY <2>1, <2>2
<1>6. work' = [work EXCEPT ![t] = w]
  BY <1>1
<1>. HIDE DEF batch
<1>7. w.cur = NoJob /\ w.batch = batch /\ w.later = {}
  BY DEF Idle
<1>. HIDE DEF w
<1>8. Held(t)' = batch
  BY <1>6, <1>7 DEF IInv, TypeOK, Held, HeldOf
<1>9. \A id \in Ids : /\ rows'[id].key = rows[id].key /\ rows'[id].request = rows[id].request
                      /\ rows'[id].status = IF id \in S THEN "RUNNING" ELSE rows[id].status
  BY <1>1, <1>2, LockedType DEF IInv
<1>10. requests' = requests /\ owed' = owed
  BY DEF Claim
<1>11. Claimed(S)
  BY <1>2, <1>3, <1>4, <1>5, <1>8, <1>9, <1>10 DEF Claimed
<1>. QED  BY <1>2, <1>11


-----------------------------------------------------------------------------
(***************************************************************************)
(* The other parts of Newest                                               *)
(***************************************************************************)
\* The steps of a run without crashes, failing statements and lost locks.
OrderlyNext ==
    \/ \E c \in Callers : Request(c)
    \/ \E t \in Ticks : Run(t)
    \/ Cancel \/ SetPolicy \/ \E id \in Ids : Elapse(id)

LEMMA OrderlyStep ==
    ASSUME IInv, Next, Orderly'
    PROVE  Orderly /\ OrderlyNext
<1>1. overruns = 0 /\ ~\E t \in Ticks : LoseLock(t)
  BY NoOverrun DEF Orderly
<1>2. faults \in Nat
  BY DEF IInv, TypeOK
<1>3. ~\E t \in Ticks : Throw(t) \/ Crash(t)
  BY <1>2 DEF Throw, Crash, Fault, Orderly
<1>4. OrderlyNext
  BY <1>1, <1>3 DEF Next, OrderlyNext
<1>5. faults' = faults
  BY <1>4 DEF OrderlyNext, Request, Schedule, Reschedule, Create, Collapse, Cancel, Run,
              Begin, Reap, Claim, Pick, Defer, Beat, Handle, Done, Chain, Hold, Fail, EndLoop,
              Release, End, Elapse, SetPolicy, bounds
<1>. QED  BY <1>1, <1>4, <1>5 DEF Orderly

LEMMA MovesStep ==
    ASSUME IInv, overruns = 0, HandledIsSettled, CallFits, BatchDone, OrderlyNext
    PROVE  Moves
<1>1. ASSUME NEW c \in Callers, Request(c) PROVE Moves
  <2>1. CASE Reschedule(c)
    BY <2>1, RescheduledStep DEF Moves
  <2>2. CASE Create(c)
    BY <2>2, CreatedStep DEF Moves
  <2>3. CASE Schedule(c) \/ Collapse(c)
    BY <2>3, OutsideMoves DEF Moves
  <2>. QED  BY <1>1, <2>1, <2>2, <2>3 DEF Request
<1>2. CASE Cancel \/ SetPolicy \/ \E id \in Ids : Elapse(id)
  BY <1>2, OutsideMoves DEF Moves
<1>3. ASSUME NEW t \in Ticks, Run(t) PROVE Moves
  <2>1. CASE Reap(t)
    BY <2>1, SweptStep DEF Moves
  <2>2. CASE Claim(t)
    BY <2>2, ClaimedStep DEF Moves
  <2>3. CASE Release(t)
    BY <1>3, <2>3, ReleasedStep DEF Moves
  <2>4. CASE Chain(t) /\ ~Conflict(work[t].cur.id)
    BY <1>3, <2>4, ChainedStep DEF Moves
  <2>5. CASE \/ Done(t) \/ Fail(t)
             \/ Hold(t) /\ ~(Conflict(work[t].cur.id) /\ work[t].phase = "hold")
    BY <1>3, <2>5, EndedStep DEF Moves
  <2>6. CASE \/ Begin(t) \/ Pick(t) \/ Defer(t) \/ Beat(t) \/ Handle(t)
             \/ EndLoop(t) \/ End(t)
             \/ Chain(t) /\ Conflict(work[t].cur.id)
             \/ Hold(t) /\ Conflict(work[t].cur.id) /\ work[t].phase = "hold"
    BY <1>3, <2>6, WalkedStep DEF Moves
  <2>. QED  BY <1>3, <2>1, <2>2, <2>3, <2>4, <2>5, <2>6 DEF Run
<1>. QED  BY <1>1, <1>2, <1>3 DEF OrderlyNext

\* Requests are numbered as they are made.
LEMMA PastStep ==
    ASSUME IInv, overruns = 0, RequestsPast, Moves
    PROVE  /\ RequestsPast'
           /\ \A key \in Keys : owed'[key] \in {owed[key], 0, requests + 1}
<1>1. /\ requests \in Nat /\ \A key \in Keys : owed[key] \in Nat
      /\ \A id \in Ids : rows[id].request \in Nat
  BY JobsAssumption DEF IInv, TypeOK, Requests, Row
<1>2. \A job \in Hand : job.id \in Ids
  BY HandCurrent
<1>3. ASSUME requests' = requests, \A id \in Ids : rows'[id].request = rows[id].request,
             \A key \in Keys : owed'[key] \in {owed[key], 0}
      PROVE  /\ RequestsPast'
             /\ \A key \in Keys : owed'[key] \in {owed[key], 0, requests + 1}
  BY <1>1, <1>3 DEF RequestsPast
<1>4. CASE Walked \/ Swept
  BY <1>3, <1>4 DEF Walked, Swept, SameRow
<1>5. CASE \E job \in Hand : Requeued(job) \/ Refused(job) \/ Over(job)
  <2>1. PICK job \in Hand : LetGo(job) /\ \A key \in Keys : owed'[key] \in {owed[key], 0}
    BY <1>5 DEF Requeued, Refused, Over
  <2>. QED  BY <1>2, <1>3, <2>1 DEF LetGo, SameBut, SameRow
<1>6. CASE \E id \in Ids : Called(id)
  BY <1>3, <1>6 DEF Called, SameBut, SameRow, Settle
<1>7. CASE \E S \in SUBSET Ids : Claimed(S)
  BY <1>3, <1>7 DEF Claimed
<1>8. CASE \E id \in Ids : Renewed(id)
  <2>1. PICK id \in Ids : Renewed(id)
    BY <1>8
  <2>2. requests' = requests + 1 /\ \A key \in Keys : owed'[key] \in {owed[key], requests + 1}
    BY <2>1 DEF Renewed
  <2>3. \A x \in Ids : rows'[x].request \in {rows[x].request, requests + 1}
    BY <2>1 DEF Renewed, SameBut, SameRow
  <2>4. \A x \in Ids : rows'[x].request <= requests'
    BY <1>1, <2>2, <2>3 DEF RequestsPast
  <2>5. \A key \in Keys : owed'[key] <= requests'
    BY <1>1, <2>2 DEF RequestsPast
  <2>. QED  BY <2>2, <2>4, <2>5 DEF RequestsPast
<1>. QED  BY <1>4, <1>5, <1>6, <1>7, <1>8 DEF Moves

\* A row keeps its key.
LEMMA KeysStay ==
    ASSUME IInv, overruns = 0, Moves, NEW id \in Ids, rows[id].status # "none"
    PROVE  rows'[id].status # "none" /\ rows'[id].key = rows[id].key
<1>1. \A job \in Hand : job.id \in Ids /\ rows[job.id].status = "RUNNING"
  BY HandCurrent
<1>2. CASE Walked \/ Swept
  BY <1>2 DEF Walked, Swept, SameRow
<1>3. CASE \E job \in Hand : Requeued(job) \/ Refused(job) \/ Over(job)
  <2>1. PICK job \in Hand : Requeued(job) \/ Refused(job) \/ Over(job)
    BY <1>3
  <2>2. LetGo(job) /\ rows'[job.id].status # "none"
    BY <1>1, <2>1 DEF Requeued, Refused, Over
  <2>. QED  BY <1>1, <2>2 DEF LetGo, SameBut, SameRow
<1>4. CASE \E x \in Ids : Renewed(x) \/ Called(x)
  <2>1. PICK x \in Ids : Renewed(x) \/ Called(x)
    BY <1>4
  <2>2. /\ SameBut(x) /\ rows'[x].status # "none"
        /\ rows[x].status = "none" \/ rows'[x].key = rows[x].key
    BY <2>1 DEF Renewed, Called
  <2>. QED  BY <2>2 DEF SameBut, SameRow
<1>5. CASE \E S \in SUBSET Ids : Claimed(S)
  <2>1. PICK S \in SUBSET Ids : Claimed(S)
    BY <1>5
  <2>2. /\ rows'[id].key = rows[id].key
        /\ rows'[id].status \in {"RUNNING", rows[id].status}
    BY <2>1 DEF Claimed
  <2>. QED  BY <2>2
<1>. QED  BY <1>2, <1>3, <1>4, <1>5 DEF Moves

LEMMA FitsStep ==
    ASSUME IInv, overruns = 0, CallFits, Moves, OrderlyNext
    PROVE  CallFits'
<1>0. calls \in [Callers -> Call]
  BY DEF IInv, TypeOK
<1>1. ASSUME NEW d \in Callers, calls'[d] = calls[d] PROVE
        calls'[d].step = "update" => /\ rows'[calls'[d].id].status # "none"
                                     /\ rows'[calls'[d].id].key = calls'[d].key
  <2>1. calls[d].step = "update" => calls[d].id \in Ids
    BY DEF IInv, Known
  <2>. QED  BY <1>1, <2>1, KeysStay DEF CallFits
<1>2. ASSUME NEW c \in Callers, NEW call, calls' = [calls EXCEPT ![c] = call],
             call.step = "update" => /\ rows'[call.id].status # "none"
                                     /\ rows'[call.id].key = call.key
      PROVE  CallFits'
  <2>1. calls'[c] = call /\ \A d \in Callers \ {c} : calls'[d] = calls[d]
    BY <1>0, <1>2
  <2>. QED  BY <1>1, <1>2, <2>1 DEF CallFits
<1>3. ASSUME NEW c \in Callers, Request(c) PROVE CallFits'
  <2>1. CASE Schedule(c)
    <3>1. CASE \E key \in Keys \cup {NoKey} :
                 calls' = [calls EXCEPT ![c] = [step |-> "create", key |-> key, id |-> 0]]
      BY <1>2, <3>1
    <3>2. CASE \E key \in Keys \cup {NoKey} : \E id \in Pending(key) :
                 calls' = [calls EXCEPT ![c] = [step |-> "update", key |-> key, id |-> id]]
      <4>0. PICK key \in Keys \cup {NoKey} : \E id \in Pending(key) :
              calls' = [calls EXCEPT ![c] = [step |-> "update", key |-> key, id |-> id]]
        BY <3>2
      <4>1. PICK id \in Pending(key) :
              calls' = [calls EXCEPT ![c] = [step |-> "update", key |-> key, id |-> id]]
        BY <4>0
      <4>2. id \in Ids /\ rows[id].status # "none" /\ rows[id].key = key
        BY DEF Pending, Having
      <4>3. rows'[id].status # "none" /\ rows'[id].key = key
        BY <4>2, KeysStay
      <4>. QED  BY <1>2, <4>1, <4>3
    <3>. QED  BY <2>1, <3>1, <3>2 DEF Schedule
  <2>2. CASE calls' = [calls EXCEPT ![c] = NoCall]
    BY <1>2, <2>2 DEF NoCall
  <2>3. ASSUME NEW step \in {"create", "collapse"},
               calls' = [calls EXCEPT ![c] = [calls[c] EXCEPT !.step = step]]
        PROVE  CallFits'
    <3>1. [calls[c] EXCEPT !.step = step].step = step
      BY <1>0 DEF Call
    <3>. QED  BY <1>2, <2>3, <3>1
  <2>4. CASE Reschedule(c)
    BY <2>2, <2>3, <2>4 DEF Reschedule
  <2>5. CASE Create(c)
    BY <2>2, <2>3, <2>5 DEF Create
  <2>6. CASE Collapse(c)
    BY <2>2, <2>6 DEF Collapse
  <2>. QED  BY <1>3, <2>1, <2>4, <2>5, <2>6 DEF Request
<1>4. CASE ~\E c \in Callers : Request(c)
  <2>1. calls' = calls
    BY <1>4 DEF OrderlyNext, Cancel, Run, Begin, Reap, Claim, Pick, Defer, Beat, Handle, Done,
                Chain, Hold, Fail, EndLoop, Release, End, Elapse, SetPolicy
  <2>. QED  BY <1>1, <2>1 DEF CallFits
<1>. QED  BY <1>3, <1>4


\* Where the steps of a tick lead.
LEMMA RunLeads ==
    ASSUME IInv, BatchDone, NEW t \in Ticks, Run(t)
    PROVE  /\ work'[t].phase = "release" => work'[t].batch = {}
           /\ work'[t].phase \in {"ok", "chain"} =>
                /\ Handle(t) /\ work'[t].cur = work[t].cur
                /\ owed' = Settle(work[t].cur.request)
<1>0. work \in [Ticks -> Tick] /\ work[t] \in Tick
  BY DEF IInv, TypeOK
<1>1. ASSUME NEW phase \in Phases, Goto(t, phase)
      PROVE  /\ work'[t].phase = phase /\ work'[t].cur = work[t].cur
             /\ work'[t].batch = work[t].batch
  <2>. DEFINE w == [work[t] EXCEPT !.phase = phase]
  <2>1. work' = [work EXCEPT ![t] = w]
    BY <1>1 DEF Goto
  <2>2. w.batch = work[t].batch /\ w.phase = phase /\ w.cur = work[t].cur
    BY <1>0 DEF Tick
  <2>. HIDE DEF w
  <2>. QED  BY <1>0, <2>1, <2>2
<1>2. ASSUME NextJob(t) PROVE work'[t].phase = "loop"
  <2>. DEFINE w == [work[t] EXCEPT !.phase = "loop", !.cur = NoJob]
  <2>1. work' = [work EXCEPT ![t] = w]
    BY <1>2 DEF NextJob
  <2>2. w.phase = "loop"
    BY <1>0 DEF Tick
  <2>. HIDE DEF w
  <2>. QED  BY <1>0, <2>1, <2>2
<1>3. ASSUME Catch(t) PROVE work'[t].phase \in {"fail", "catchhold"}
  <2>1. PICK phase \in {"fail", "catchhold"} : Goto(t, phase)
    BY <1>3 DEF Catch
  <2>. QED  BY <1>1, <2>1 DEF Phases
<1>4. CASE Begin(t) \/ Reap(t) \/ Beat(t)
  BY <1>1, <1>4 DEF Begin, Reap, Beat, Phases
<1>5. CASE EndLoop(t)
  BY <1>1, <1>5 DEF EndLoop, Phases
<1>6. CASE Done(t) \/ Fail(t) \/ Chain(t) \/ Hold(t)
  <2>1. NextJob(t) \/ Catch(t)
    BY <1>6 DEF Done, Fail, Chain, Hold
  <2>. QED  BY <1>2, <1>3, <2>1
<1>7. CASE Claim(t)
  <2>1. PICK w \in Tick : work' = [work EXCEPT ![t] = w] /\ w.phase = "loop"
    BY <1>7, ClaimWork
  <2>. QED  BY <1>0, <2>1
<1>8. CASE Pick(t)
  <2>1. PICK job \in work[t].batch, phase \in {"beat", "hold"} :
          work' = [work EXCEPT ![t] = [work[t] EXCEPT !.phase = phase, !.cur = job,
                                    !.batch = work[t].batch \ {job}, !.ran = TRUE]]
    BY <1>8 DEF Pick
  <2>. DEFINE w == [work[t] EXCEPT !.phase = phase, !.cur = job,
                                   !.batch = work[t].batch \ {job}, !.ran = TRUE]
  <2>2. work' = [work EXCEPT ![t] = w]
    BY <2>1
  <2>3. w.phase = phase
    BY <1>0 DEF Tick
  <2>. HIDE DEF w
  <2>. QED  BY <1>0, <2>2, <2>3
<1>9. CASE Defer(t)
  <2>1. PICK job \in work[t].batch :
          work' = [work EXCEPT ![t] = [work[t] EXCEPT !.batch = work[t].batch \ {job},
                                                   !.later = work[t].later \cup {job}]]
    BY <1>9 DEF Defer
  <2>. DEFINE w == [work[t] EXCEPT !.batch = work[t].batch \ {job},
                                   !.later = work[t].later \cup {job}]
  <2>2. work' = [work EXCEPT ![t] = w]
    BY <2>1
  <2>3. w.phase = work[t].phase
    BY <1>0 DEF Tick
  <2>. HIDE DEF w
  <2>. QED  BY <1>0, <1>9, <2>2, <2>3 DEF Defer
<1>10. CASE Release(t)
  <2>1. PICK job \in work[t].later :
          work' = [work EXCEPT ![t] = [work[t] EXCEPT !.later = work[t].later \ {job}]]
    BY <1>10 DEF Release
  <2>. DEFINE w == [work[t] EXCEPT !.later = work[t].later \ {job}]
  <2>2. work' = [work EXCEPT ![t] = w]
    BY <2>1
  <2>3. w.phase = work[t].phase /\ w.batch = work[t].batch
    BY <1>0 DEF Tick
  <2>. HIDE DEF w
  <2>. QED  BY <1>0, <1>10, <2>2, <2>3 DEF Release, BatchDone
<1>11. CASE End(t)
  BY <1>0, <1>11 DEF End, Idle
<1>12. CASE Handle(t)
  <2>1. CASE /\ \E phase \in {"ok", "chain", "hold"} : Goto(t, phase)
             /\ owed' = Settle(work[t].cur.request)
    BY <1>1, <1>12, <2>1 DEF Phases
  <2>2. CASE \E phase \in {"fail", "catchhold"} : Goto(t, phase)
    BY <1>1, <2>2 DEF Phases
  <2>. QED  BY <1>12, <2>1, <2>2 DEF Handle
<1>. QED
  BY <1>4, <1>5, <1>6, <1>7, <1>8, <1>9, <1>10, <1>11, <1>12 DEF Run

LEMMA TicksAlong ==
    ASSUME IInv, overruns = 0, HandledIsSettled, RequestsPast, BatchDone, Moves, OrderlyNext
    PROVE  HandledIsSettled' /\ BatchDone'
<1>1. ASSUME NEW u \in Ticks, work'[u] = work[u]
      PROVE  /\ work'[u].phase = "release" => work'[u].batch = {}
             /\ work'[u].phase \in {"ok", "chain"} =>
                  \A key \in Keys : owed'[key] # work'[u].cur.request
  <2>1. work'[u].phase = "release" => work'[u].batch = {}
    BY <1>1 DEF BatchDone
  <2>2. ASSUME work[u].phase \in {"ok", "chain"}, NEW key \in Keys
        PROVE  owed'[key] # work[u].cur.request
    <3>. DEFINE job == work[u].cur
    <3>1. job \in Hand
      BY <2>2, CurHeld DEF Busy, Hand
    <3>2. job.request \in Requests /\ job.id \in Ids /\ rows[job.id].request = job.request
      BY <3>1, HandCurrent
    <3>3. job.request \in Nat /\ job.request # 0 /\ job.request <= requests /\ requests \in Nat
      BY <3>2, JobsAssumption DEF RequestsPast, Requests, IInv, TypeOK
    <3>4. owed'[key] \in {owed[key], 0, requests + 1}
      BY PastStep
    <3>5. owed[key] # job.request
      BY <2>2 DEF HandledIsSettled
    <3>. QED  BY <3>3, <3>4, <3>5
  <2>. QED  BY <1>1, <2>1, <2>2
<1>2. ASSUME NEW t \in Ticks, Run(t)
      PROVE  HandledIsSettled' /\ BatchDone'
  <2>1. \A u \in Ticks \ {t} : work'[u] = work[u]
    BY <1>2, OneTick
  <2>2. ASSUME work'[t].phase \in {"ok", "chain"}, NEW key \in Keys
        PROVE  owed'[key] # work'[t].cur.request
    <3>1. /\ Handle(t) /\ work'[t].cur = work[t].cur
          /\ owed' = Settle(work[t].cur.request)
      BY <1>2, <2>2, RunLeads
    <3>2. work[t].cur \in Jobs
      BY <3>1, CurHeld DEF Handle, Busy
    <3>3. work[t].cur.request # 0
      BY <3>2, JobsAssumption DEF Jobs, Requests
    <3>. QED  BY <3>1, <3>3 DEF Settle
  <2>3. work'[t].phase = "release" => work'[t].batch = {}
    BY <1>2, RunLeads
  <2>4. HandledIsSettled'
    BY <1>1, <2>1, <2>2 DEF HandledIsSettled
  <2>5. BatchDone'
    BY <1>1, <2>1, <2>3 DEF BatchDone
  <2>. QED  BY <2>4, <2>5
<1>3. CASE ~\E t \in Ticks : Run(t)
  <2>1. work' = work
    BY <1>3 DEF OrderlyNext, Request, Schedule, Reschedule, Create, Collapse, Cancel, Elapse,
                SetPolicy
  <2>2. HandledIsSettled'
    BY <1>1, <2>1 DEF HandledIsSettled
  <2>3. BatchDone'
    BY <1>1, <2>1 DEF BatchDone
  <2>. QED  BY <2>2, <2>3
<1>. QED  BY <1>2, <1>3

-----------------------------------------------------------------------------
\* Newest holds initially and is preserved by every step.
LEMMA NewestInit == Init => Newest
<1>. SUFFICES ASSUME Init PROVE Newest
  OBVIOUS
<1>1. \A t \in Ticks : work[t] = Idle /\ Held(t) = {}
  BY DEF Init, Held, HeldOf, Idle
<1>2. Hand = {}
  BY <1>1 DEF Hand
<1>3. Carried /\ PendingIsNewest /\ OneHeldPerKey
  BY <1>2 DEF Init, Carried, PendingIsNewest, OneHeldPerKey, NoRow
<1>4. HandledIsSettled /\ BatchDone
  BY <1>1 DEF HandledIsSettled, BatchDone, Idle
<1>5. RequestsPast /\ CallFits
  BY DEF Init, RequestsPast, CallFits, NoRow, NoCall
<1>. QED  BY <1>3, <1>4, <1>5 DEF Newest

LEMMA NewestStep == IInv /\ Newest /\ [Next]_vars => Newest'
<1>1. ASSUME IInv, Newest, Next, Orderly' PROVE Newest'
  <2>1. Orderly /\ OrderlyNext /\ overruns = 0
    BY <1>1, OrderlyStep DEF Orderly
  <2>2. /\ Carried /\ PendingIsNewest /\ OneHeldPerKey /\ HandledIsSettled
        /\ RequestsPast /\ CallFits /\ BatchDone
    BY <1>1, <2>1 DEF Newest
  <2>3. Moves
    BY <1>1, <2>1, <2>2, MovesStep
  <2>4. Carried' /\ PendingIsNewest' /\ OneHeldPerKey'
    BY <1>1, <2>1, <2>2, <2>3, CarriedStep, PendingStep, OneHeldStep
  <2>5. RequestsPast' /\ CallFits'
    BY <1>1, <2>1, <2>2, <2>3, PastStep, FitsStep
  <2>6. HandledIsSettled' /\ BatchDone'
    BY <1>1, <2>1, <2>2, <2>3, TicksAlong
  <2>. QED  BY <2>4, <2>5, <2>6 DEF Newest
<1>2. ASSUME Newest, UNCHANGED vars PROVE Newest'
  BY <1>2 DEF Newest, vars, bounds, Orderly, Carried, PendingIsNewest, OneHeldPerKey,
              HandledIsSettled, RequestsPast, CallFits, BatchDone, Going, InHand, Hand, Held
<1>. QED  BY <1>1, <1>2 DEF Newest

\* The newest request of a key is not lost to a race between schedule, claim, requeue
\* and reaper: as long as nothing crashes, fails or outlives its lock, what is owed is
\* with a row that is PENDING or in the hand of a tick (schedule, hold, reapStuck and
\* tickBody of the scheduler).
THEOREM NewestKeptAlways == Spec => []NewestKept
<1>1. IInv /\ Newest => NewestKept
  BY DEF Newest, Orderly, NewestKept, Carried, Going, Having
<1>. QED  BY <1>1, NewestInit, NewestStep, Invariant, PTL DEF Spec
=============================================================================
