---------------------------- MODULE ScheduledJobs ----------------------------
(***************************************************************************)
(* Delayed work of the backend: the table "scheduled_jobs", the callers of *)
(* ScheduledJobService.schedule and cancel, and the ticks of the runner    *)
(* (ScheduledJobRunnerService), of which an advisory lock admits one.      *)
(*                                                                         *)
(* One SQL statement, or the reaper's transaction of three, is one step.   *)
(* A partial unique index on (kind, dedupKey) covers the PENDING rows; a   *)
(* statement that would violate it fails as a whole.                       *)
(*                                                                         *)
(* Time is one bit per row: `elapsed' says that the instant which matters  *)
(* in the row's status has passed: runAt of a PENDING row, lockedAt +      *)
(* STUCK_AFTER_MS of a RUNNING one.                                        *)
(***************************************************************************)
EXTENDS Integers, FiniteSets

\* A definition named Bug_X is the definition after it with a plausible mistake;
\* no action uses it.  Each property fails under one of them (PROJECT.json).

CONSTANTS
    Ticks,          \* executions of tickBody that may be alive at once
    NoTick,
    Callers,        \* concurrent callers of schedule
    Keys, NoKey,    \* dedup keys of one kind, and none
    MaxRows,        \* bound: rows inserted
    MaxRequests,    \* bound: payloads written into rows
    Batch,          \* BATCH
    MaxAttempts,    \* maxAttempts of every job
    MaxEvents       \* bound: crashes, failing statements, locks lost by a tick that
                    \* goes on, and edits of the AI spend policy, all told

ASSUME JobsAssumption ==
    /\ MaxRows \in Nat \ {0} /\ MaxRequests \in Nat \ {0} /\ Batch \in Nat \ {0}
    /\ MaxAttempts \in Nat \ {0} /\ MaxEvents \in Nat
    /\ NoKey \notin Keys /\ NoTick \notin Ticks

VARIABLES
    rows,       \* [Ids -> status, key, request, attempts, elapsed, older]
    inserted,   \* number of rows
    requests,   \* number of payloads written so far; a payload is its number
    calls,      \* [Callers -> step of its schedule call]
    lock,       \* the tick that holds the advisory lock
    work,       \* [Ticks -> where the tick stands]
    enabled,    \* whether the policy lets the jobs run
    owed,       \* ghost: [Keys -> newest request of the key, 0 once it was handled,
                \*         cancelled or dead-lettered]
    faults, overruns, changes

bounds == <<faults, overruns, changes>>
vars == <<rows, inserted, requests, calls, lock, work, enabled, owed, bounds>>

Ids == 1 .. MaxRows
Requests == 1 .. MaxRequests
Status == {"none", "PENDING", "RUNNING", "DONE", "FAILED", "CANCELLED"}

\* `older' is all that matters of lockedAt: the rows of the same key with an
\* earlier one.
Row == [status : Status, key : Keys \cup {NoKey}, request : {0} \cup Requests,
        attempts : Nat, elapsed : BOOLEAN, older : SUBSET Ids]
NoRow == [status |-> "none", key |-> NoKey, request |-> 0, attempts |-> 0,
          elapsed |-> FALSE, older |-> {}]

Call == [step : {"idle", "update", "create", "collapse"}, key : Keys \cup {NoKey},
         id : {0} \cup Ids]
NoCall == [step |-> "idle", key |-> NoKey, id |-> 0]

\* ClaimedJob.
Jobs == [id : Ids, request : Requests, attempts : Nat]
NoJob == [id |-> 0, request |-> 0, attempts |-> 0]

\* "hold" and "fail" are in the try and catch of run; "catchhold" is the hold of
\* its catch branch.
Phases == {"idle", "reap", "claim", "loop", "beat", "handler", "ok", "chain", "hold",
           "fail", "catchhold", "release"}
Tick == [phase : Phases, batch : SUBSET Jobs, cur : Jobs \cup {NoJob},
         later : SUBSET Jobs, ran : BOOLEAN]
Idle == [phase |-> "idle", batch |-> {}, cur |-> NoJob, later |-> {}, ran |-> FALSE]

Init ==
    /\ rows = [id \in Ids |-> NoRow]
    /\ inserted = 0
    /\ requests = 0
    /\ calls = [c \in Callers |-> NoCall]
    /\ lock = NoTick
    /\ work = [t \in Ticks |-> Idle]
    /\ enabled = TRUE
    /\ owed = [key \in Keys |-> 0]
    /\ faults = 0 /\ overruns = 0 /\ changes = 0

Having(status) == {id \in Ids : rows[id].status = status}
Pending(key) == {id \in Having("PENDING") : rows[id].key = key}

\* What the unique index refuses: the row would be PENDING beside another one.
Conflict(id) == rows[id].key # NoKey /\ Pending(rows[id].key) \ {id} # {}

\* A row that is not RUNNING any more; due says whether its runAt has passed.
\* (Nothing reads runAt or lockedAt of a settled row.)
Moved(row, status, attempts, due) ==
    [row EXCEPT !.status = status, !.attempts = attempts, !.elapsed = due, !.older = {}]

\* Ghost: request is the newest of key; request needs no handler any more.
Owe(key, request) == [k \in Keys |-> IF k = key THEN request ELSE owed[k]]
Settle(request) == [k \in Keys |-> IF owed[k] = request THEN 0 ELSE owed[k]]

-----------------------------------------------------------------------------
(***************************************************************************)
(* ScheduledJobService                                                     *)
(***************************************************************************)
Schedule(c) ==
    /\ calls[c].step = "idle"
    /\ \E key \in Keys \cup {NoKey} :
         \/ /\ key = NoKey \/ Pending(key) = {}
            /\ calls' = [calls EXCEPT ![c] = [step |-> "create", key |-> key, id |-> 0]]
         \/ /\ key # NoKey
            /\ \E id \in Pending(key) :
                 calls' = [calls EXCEPT ![c] = [step |-> "update", key |-> key, id |-> id]]
    /\ UNCHANGED <<rows, inserted, requests, lock, work, enabled, owed, bounds>>

Bug_Reschedulable(id) == rows[id].status # "none"

\* The guard of the conditional update.
Reschedulable(id) == rows[id].status = "PENDING"

\* Put a new request into the PENDING row, unless a claim was faster.
Reschedule(c) ==
    /\ calls[c].step = "update"
    /\ IF Reschedulable(calls[c].id)
       THEN /\ requests < MaxRequests
            /\ requests' = requests + 1
            /\ rows' = [rows EXCEPT ![calls[c].id] =
                           [@ EXCEPT !.request = requests + 1, !.elapsed = FALSE]]
            /\ owed' = Owe(calls[c].key, requests + 1)
            /\ calls' = [calls EXCEPT ![c] = NoCall]
       ELSE /\ calls' = [calls EXCEPT ![c] = [@ EXCEPT !.step = "create"]]
            /\ UNCHANGED <<rows, requests, owed>>
    /\ UNCHANGED <<inserted, lock, work, enabled, bounds>>

\* Insert a row, unless the index refuses it.
Create(c) ==
    /\ calls[c].step = "create"
    /\ IF calls[c].key # NoKey /\ Pending(calls[c].key) # {}
       THEN /\ calls' = [calls EXCEPT ![c] = [@ EXCEPT !.step = "collapse"]]
            /\ UNCHANGED <<rows, inserted, requests, owed>>
       ELSE /\ inserted < MaxRows /\ requests < MaxRequests
            /\ inserted' = inserted + 1
            /\ requests' = requests + 1
            /\ rows' = [rows EXCEPT ![inserted + 1] =
                           [NoRow EXCEPT !.status = "PENDING", !.key = calls[c].key,
                                         !.request = requests + 1]]
            /\ owed' = Owe(calls[c].key, requests + 1)
            /\ calls' = [calls EXCEPT ![c] = NoCall]
    /\ UNCHANGED <<lock, work, enabled, bounds>>

\* P2002: answer with the winner's row, or fail if it is not PENDING any more.
\* Neither writes anything.
Collapse(c) ==
    /\ calls[c].step = "collapse"
    /\ calls' = [calls EXCEPT ![c] = NoCall]
    /\ UNCHANGED <<rows, inserted, requests, lock, work, enabled, owed, bounds>>

Bug_Cancellable == Having("PENDING") \cup Having("RUNNING")

\* The guard of cancel and cancelById.
Cancellable == Having("PENDING")

Cancel ==
    /\ \E id \in Cancellable :
         /\ rows' = [rows EXCEPT ![id] = Moved(@, "CANCELLED", @.attempts, FALSE)]
         /\ owed' = Settle(rows[id].request)
    /\ UNCHANGED <<inserted, requests, calls, lock, work, enabled, bounds>>

-----------------------------------------------------------------------------
(***************************************************************************)
(* The runner: one tick                                                    *)
(***************************************************************************)
Goto(t, phase) == work' = [work EXCEPT ![t] = [@ EXCEPT !.phase = phase]]

\* run is over, in whatever way: on with the next job.
NextJob(t) == work' = [work EXCEPT ![t] = [@ EXCEPT !.phase = "loop", !.cur = NoJob]]

\* pg_try_advisory_xact_lock.
Acquirable == lock = NoTick

Begin(t) ==
    /\ work[t].phase = "idle"
    /\ Acquirable
    /\ lock' = t
    /\ Goto(t, "reap")
    /\ UNCHANGED <<rows, inserted, requests, calls, enabled, owed, bounds>>

Bug_Stuck(id) == rows[id].status = "RUNNING" /\ rows[id].elapsed /\ rows[id].key # NoKey

Stuck(id) == rows[id].status = "RUNNING" /\ rows[id].elapsed

Group(id) == {x \in Ids : Stuck(x) /\ rows[x].key = rows[id].key}

Bug_EverySurvives(id) == TRUE

\* Pass 2 keeps the stuck row of a key that was locked last.
Survivor(id) == \A x \in Group(id) \ {id} : x \in rows[id].older

Retired(id) == rows[id].key # NoKey /\ (Pending(rows[id].key) # {} \/ ~Survivor(id))

\* The three passes: retire stuck rows whose key has a PENDING successor, retire
\* all but one of the others with a key, revive what is left.  (A successor
\* inserted between two passes only leaves its predecessor to the next tick.)
Reap(t) ==
    /\ work[t].phase = "reap"
    /\ rows' = [id \in Ids |->
           IF ~Stuck(id) THEN rows[id]
           ELSE IF Retired(id) THEN Moved(rows[id], "DONE", rows[id].attempts, FALSE)
           ELSE Moved(rows[id], "PENDING", rows[id].attempts, TRUE)]
    /\ Goto(t, "claim")
    /\ UNCHANGED <<inserted, requests, calls, lock, enabled, owed, bounds>>

Due(id) == rows[id].status = "PENDING" /\ rows[id].elapsed /\ enabled
Dues == {id \in Ids : Due(id)}

\* LIMIT: the oldest ones by runAt, which the model does not keep.
Take(S) == {T \in SUBSET S : \/ T = S /\ Cardinality(S) <= Batch
                             \/ Cardinality(T) = Batch}

\* The rows that are older than id once the rows of S are locked.
Older(id, S) == {x \in Having("RUNNING") \ S : rows[x].key = rows[id].key}

\* The table once the rows of S are RUNNING with lockedAt = now.
Locked(S) ==
    [id \in Ids |->
        IF id \in S
        THEN [rows[id] EXCEPT !.status = "RUNNING", !.elapsed = FALSE,
                              !.older = Older(id, S)]
        ELSE [rows[id] EXCEPT !.older = @ \ S]]

Claim(t) ==
    /\ work[t].phase = "claim"
    /\ \E claimed \in Take(Dues) :
         /\ rows' = Locked(claimed)
         /\ work' = [work EXCEPT ![t] = [Idle EXCEPT !.phase = "loop",
                !.batch = {[id |-> id, request |-> rows[id].request,
                            attempts |-> rows[id].attempts] : id \in claimed}]]
    /\ UNCHANGED <<inserted, requests, calls, lock, enabled, owed, bounds>>

\* run begins, with a first look at the policy.
Pick(t) ==
    /\ work[t].phase = "loop"
    /\ \E job \in work[t].batch :
         work' = [work EXCEPT ![t] = [@ EXCEPT !.phase = IF enabled THEN "beat" ELSE "hold",
                      !.cur = job, !.batch = work[t].batch \ {job}, !.ran = TRUE]]
    /\ UNCHANGED <<rows, inserted, requests, calls, lock, enabled, owed, bounds>>

\* After the first job, any may be over the cap of its kind, or too late.
Defer(t) ==
    /\ work[t].phase = "loop"
    /\ work[t].ran
    /\ \E job \in work[t].batch :
         work' = [work EXCEPT ![t] = [@ EXCEPT !.batch = work[t].batch \ {job},
                                               !.later = work[t].later \cup {job}]]
    /\ UNCHANGED <<rows, inserted, requests, calls, lock, enabled, owed, bounds>>

\* The heartbeat before the handler: lockedAt, which means nothing in a row that
\* is not RUNNING any more.
Beat(t) ==
    /\ work[t].phase = "beat"
    /\ LET id == work[t].cur.id
       IN  rows' = IF rows[id].status = "RUNNING" THEN Locked({id}) ELSE rows
    /\ Goto(t, "handler")
    /\ UNCHANGED <<inserted, requests, calls, lock, enabled, owed, bounds>>

\* The handler returns, asks for another turn, or throws; a second look at the
\* policy follows.
Handle(t) ==
    /\ work[t].phase = "handler"
    /\ \/ /\ \E phase \in {"ok"} \cup {x \in {"chain"} : requests < MaxRequests} :
               Goto(t, IF enabled THEN phase ELSE "hold")
          /\ owed' = Settle(work[t].cur.request)
       \/ /\ Goto(t, IF enabled THEN "fail" ELSE "catchhold")
          /\ UNCHANGED owed
    /\ UNCHANGED <<rows, inserted, requests, calls, lock, enabled, bounds>>

\* Where an error in the try of run leads.
Catch(t) == Goto(t, IF enabled THEN "fail" ELSE "catchhold")

\* The terminal and requeueing writes name the row by its id only.
Done(t) ==
    /\ work[t].phase = "ok"
    /\ LET id == work[t].cur.id
       IN  rows' = [rows EXCEPT ![id] = Moved(@, "DONE", @.attempts, FALSE)]
    /\ NextJob(t)
    /\ UNCHANGED <<inserted, requests, calls, lock, enabled, owed, bounds>>

\* The directive to run the same row again: with a new payload, or, when the
\* bound on requests is reached, with the old one.
Chain(t) ==
    /\ work[t].phase = "chain"
    /\ LET id == work[t].cur.id
           new == requests < MaxRequests
           request == IF new THEN requests + 1 ELSE rows[id].request
       IN  IF Conflict(id)
           THEN Catch(t) /\ UNCHANGED <<rows, requests, owed>>
           ELSE /\ requests' = IF new THEN requests + 1 ELSE requests
                /\ rows' = [rows EXCEPT ![id] =
                               [Moved(@, "PENDING", 0, FALSE) EXCEPT !.request = request]]
                /\ owed' = IF new THEN Owe(rows[id].key, request) ELSE owed
                /\ NextJob(t)
    /\ UNCHANGED <<inserted, calls, lock, enabled, bounds>>

\* hold: back to the queue; runAt stays, so the row is still due.
Hold(t) ==
    /\ work[t].phase \in {"hold", "catchhold"}
    /\ LET id == work[t].cur.id
       IN  IF Conflict(id)
           THEN /\ IF work[t].phase = "hold" THEN Catch(t) ELSE NextJob(t)
                /\ UNCHANGED rows
           ELSE /\ rows' = [rows EXCEPT ![id] = Moved(@, "PENDING", @.attempts, TRUE)]
                /\ NextJob(t)
    /\ UNCHANGED <<inserted, requests, calls, lock, enabled, owed, bounds>>

Bug_Exhausted(attempts) == attempts > MaxAttempts

Exhausted(attempts) == attempts >= MaxAttempts

\* The catch of run: dead-letter the row, or requeue it with a backoff; if the
\* index refuses that, the row stays RUNNING.
Fail(t) ==
    /\ work[t].phase = "fail"
    /\ LET id == work[t].cur.id
           attempts == work[t].cur.attempts + 1
       IN  \/ /\ Exhausted(attempts)
              /\ rows' = [rows EXCEPT ![id] = Moved(@, "FAILED", attempts, FALSE)]
              /\ owed' = Settle(work[t].cur.request)
           \/ /\ ~Exhausted(attempts)
              /\ rows' = IF Conflict(id) THEN rows
                         ELSE [rows EXCEPT ![id] = Moved(@, "PENDING", attempts, FALSE)]
              /\ UNCHANGED owed
    /\ NextJob(t)
    /\ UNCHANGED <<inserted, requests, calls, lock, enabled, bounds>>

-----------------------------------------------------------------------------
(***************************************************************************)
(* The end of a tick                                                       *)
(***************************************************************************)
EndLoop(t) ==
    /\ work[t].phase = "loop"
    /\ work[t].batch = {}
    /\ Goto(t, "release")
    /\ UNCHANGED <<rows, inserted, requests, calls, lock, enabled, owed, bounds>>

\* Hand back one deferred row that is still RUNNING; if the index refuses, the
\* row, and only it, waits for the reaper.  (One statement releases all rows of
\* a workspace when none conflicts: the same steps with nothing in between.)
Release(t) ==
    /\ work[t].phase = "release"
    /\ \E job \in work[t].later :
         /\ rows' = IF rows[job.id].status = "RUNNING" /\ ~Conflict(job.id)
                    THEN [rows EXCEPT ![job.id] = Moved(@, "PENDING", @.attempts, TRUE)]
                    ELSE rows
         /\ work' = [work EXCEPT ![t] = [@ EXCEPT !.later = work[t].later \ {job}]]
    /\ UNCHANGED <<inserted, requests, calls, lock, enabled, owed, bounds>>

Unlock(t) == IF lock = t THEN NoTick ELSE lock

End(t) ==
    /\ work[t].phase = "release"
    /\ work[t].later = {}
    /\ lock' = Unlock(t)
    /\ work' = [work EXCEPT ![t] = Idle]
    /\ UNCHANGED <<rows, inserted, requests, calls, enabled, owed, bounds>>

-----------------------------------------------------------------------------
(***************************************************************************)
(* Failures, time and policy                                               *)
(***************************************************************************)
Bounded == faults + overruns + changes < MaxEvents

Fault == Bounded /\ faults' = faults + 1

\* A statement fails.  The phases of a tick are isolated from each other; run
\* catches the errors of its try, the loop those of its catch.
Throw(t) ==
    /\ Fault
    /\ \/ work[t].phase = "reap" /\ Goto(t, "claim")
       \/ work[t].phase = "claim" /\ Goto(t, "release")
       \/ work[t].phase \in {"beat", "ok", "chain", "hold"} /\ Catch(t)
       \/ work[t].phase \in {"fail", "catchhold"} /\ NextJob(t)
       \/ work[t].phase = "release"
          /\ \E job \in work[t].later :
               work' = [work EXCEPT ![t] = [@ EXCEPT !.later = work[t].later \ {job}]]
    /\ UNCHANGED <<rows, inserted, requests, calls, lock, enabled, owed, overruns, changes>>

\* The process dies: its transaction, and with it the lock, goes too.
Crash(t) ==
    /\ work[t].phase # "idle"
    /\ Fault
    /\ work' = [work EXCEPT ![t] = Idle]
    /\ lock' = Unlock(t)
    /\ UNCHANGED <<rows, inserted, requests, calls, enabled, owed, overruns, changes>>

\* The lock's transaction ends under a tick that goes on: it ran longer than
\* LOCK_BODY_TIMEOUT_MS, or its connection broke.
LoseLock(t) ==
    /\ lock = t
    /\ Bounded
    /\ overruns' = overruns + 1
    /\ lock' = NoTick
    /\ UNCHANGED <<rows, inserted, requests, calls, work, enabled, owed, faults, changes>>

Elapse(id) ==
    /\ rows[id].status \in {"PENDING", "RUNNING"}
    /\ ~rows[id].elapsed
    /\ rows' = [rows EXCEPT ![id] = [@ EXCEPT !.elapsed = TRUE]]
    /\ UNCHANGED <<inserted, requests, calls, lock, work, enabled, owed, bounds>>

\* The owner edits aiSpendPolicy.
SetPolicy ==
    /\ Bounded
    /\ changes' = changes + 1
    /\ enabled' = ~enabled
    /\ UNCHANGED <<rows, inserted, requests, calls, lock, work, owed, faults, overruns>>

-----------------------------------------------------------------------------
Request(c) == Schedule(c) \/ Reschedule(c) \/ Create(c) \/ Collapse(c)

Run(t) ==
    \/ Begin(t) \/ Reap(t) \/ Claim(t) \/ Pick(t) \/ Defer(t) \/ Beat(t) \/ Handle(t)
    \/ Done(t) \/ Chain(t) \/ Hold(t) \/ Fail(t) \/ EndLoop(t) \/ Release(t) \/ End(t)

Next ==
    \/ \E c \in Callers : Request(c)
    \/ Cancel
    \/ \E t \in Ticks : Run(t) \/ Throw(t) \/ Crash(t) \/ LoseLock(t)
    \/ \E id \in Ids : Elapse(id)
    \/ SetPolicy

Spec == Init /\ [][Next]_vars

\* A tick every minute, each of which goes on until it ends, and time passes.
Fairness ==
    /\ \A t \in Ticks : WF_vars(Run(t))
    /\ \A id \in Ids : WF_vars(Elapse(id))

FairSpec == Spec /\ Fairness

-----------------------------------------------------------------------------
(***************************************************************************)
(* Properties                                                              *)
(***************************************************************************)
\* No row counts more attempts than its job is allowed, as long as no tick outlives
\* its lock.
WithinCap == overruns = 0 => \A id \in Ids : rows[id].attempts <= MaxAttempts

\* Every variable has its type, attempts with the cap of run's catch
\* (scheduled-job-runner.service.ts).
TypeOK ==
    /\ rows \in [Ids -> Row]
    /\ WithinCap
    /\ inserted \in 0 .. MaxRows
    /\ requests \in 0 .. MaxRequests
    /\ calls \in [Callers -> Call]
    /\ lock \in Ticks \cup {NoTick}
    /\ work \in [Ticks -> Tick]
    /\ enabled \in BOOLEAN
    /\ owed \in [Keys -> {0} \cup Requests]
    /\ faults \in Nat /\ overruns \in Nat /\ changes \in Nat
    /\ faults + overruns + changes <= MaxEvents

\* The post-condition the reaper is written for: whatever callers and ticks do,
\* a key has at most one PENDING row, so that no revive is refused by the index.
OnePendingPerKey ==
    \A x, y \in Having("PENDING") :
        rows[x].key = rows[y].key /\ rows[x].key # NoKey => x = y

\* The jobs a tick has claimed and not yet settled.
HeldOf(w) == w.batch \cup w.later \cup ({w.cur} \ {NoJob})
Held(t) == HeldOf(work[t])

\* What a tick keeps in memory for minutes is what the table says, and is held by
\* no other tick, as long as no tick outlives its lock: no caller and no reaper
\* touches a claimed row.
HeldJobsCurrent ==
    overruns = 0 =>
        \A t \in Ticks : \A job \in Held(t) :
            /\ rows[job.id].status = "RUNNING"
            /\ rows[job.id].request = job.request
            /\ rows[job.id].attempts = job.attempts
            /\ \A u \in Ticks \ {t} : \A other \in Held(u) : other.id # job.id

\* Without crashes and overruns the newest request of a key is not lost, whatever
\* the race between schedule, claim, requeue and reaper: until it is handled,
\* cancelled or dead-lettered, a live row carries it.
NewestKept ==
    faults = 0 /\ overruns = 0 =>
        \A key \in Keys : owed[key] # 0 =>
            \E id \in Having("PENDING") \cup Having("RUNNING") :
                rows[id].key = key /\ rows[id].request = owed[key]

\* Every row is settled in the end, crashes, failing statements, lost locks and
\* refused requeues included, if the policy lets the jobs run from some time on.
EventuallySettled ==
    <>[]enabled =>
        \A id \in Ids : rows[id].status = "PENDING"
                            ~> rows[id].status \in {"DONE", "FAILED", "CANCELLED"}
=============================================================================
