------------------------------- MODULE Outbox -------------------------------
(***************************************************************************)
(* The transactional outbox of the backend: the table "outbox_events",     *)
(* the producers that append to it (OutboxService.append), the replicas    *)
(* that drain it (OutboxWorkerService) and the in-process bus each replica *)
(* dispatches onto (DomainEventBus).                                       *)
(*                                                                         *)
(* One SQL statement is one step: Postgres executes each atomically, and   *)
(* FOR UPDATE SKIP LOCKED only makes a statement pass over rows another    *)
(* statement is about to change.  Everything between two statements of a   *)
(* replica (awaits, listeners, crashes) is interleaved.                    *)
(*                                                                         *)
(* Time is kept as one bit per row: `elapsed' says that the instant which  *)
(* matters in the row's current status has passed: nextAttemptAt of a      *)
(* queued row, claimedAt + RECLAIM_AFTER_MS of a dispatching one,          *)
(* dispatchedAt + RETENTION_DAYS of a dispatched one.                      *)
(***************************************************************************)
EXTENDS Integers, FiniteSets

\* A definition named Bug_X is the definition after it with a plausible mistake;
\* no action uses it.  Each property fails under one of them (PROJECT.json).

CONSTANTS
    Workers,        \* replicas of the backend, each with one poll loop
    Producers,      \* concurrent callers of append
    Keys,           \* idempotency keys that producers supply
    NoKey,          \* no key supplied: the row is keyed by its own fresh id
    Tenants,        \* tenant ids
    NoTenant,       \* tenantId null
    NoWorker,
    MaxRows,        \* bound: appended rows
    Batch,          \* BATCH
    MaxAttempts,    \* MAX_ATTEMPTS
    NumListeners,   \* listeners registered for the event's type and for "*"
    MaxFaults,      \* bound: crashes and failing statements
    MaxOverruns     \* bound: reclaim windows that pass under a live worker

ASSUME OutboxAssumption ==
    /\ MaxRows \in Nat \ {0} /\ Batch \in Nat \ {0}
    /\ MaxAttempts \in Nat \ {0} /\ NumListeners \in Nat
    /\ MaxFaults \in Nat /\ MaxOverruns \in Nat
    /\ NoKey \notin Keys /\ NoTenant \notin Tenants /\ NoWorker \notin Workers

\* Needed where replicas or calls of append are counted.
ASSUME FiniteAssumption == IsFiniteSet(Workers) /\ IsFiniteSet(Producers)

VARIABLES
    rows,       \* [Ids -> status, attempts and elapsed of the row]
    event,      \* [Ids -> the request the row was inserted for]
    nextId,     \* the id the next insert gets
    appends,    \* [Producers -> step, request and answer of its append call]
    work,       \* [Workers -> where the replica stands in drainOnce]
    calls,      \* ghost: [Ids -> [Listeners -> how often it was invoked]]
    owner,      \* ghost: [Ids -> the replica that made the latest claim]
    faults,     \* crashes and failed statements so far
    overruns    \* windows that passed under a live worker so far

vars == <<rows, event, nextId, appends, work, calls, owner, faults, overruns>>

Ids == 1 .. MaxRows                 \* UUIDv7: ordered by creation
Listeners == 1 .. NumListeners      \* by registration order
Requests == [key : Keys \cup {NoKey}, tenant : Tenants \cup {NoTenant}]
NoRequest == [key |-> NoKey, tenant |-> NoTenant]

\* "none" before the insert; "pruned" once the retention sweep deleted it.
Status == {"none", "queued", "dispatching", "dispatched", "failed", "pruned"}

Row == [status : Status, attempts : Nat, elapsed : BOOLEAN]
AppendCall == [step : {"idle", "insert", "done"}, req : Requests,
               answer : {0} \cup Ids]

\* What drainOnce keeps of a claimed row: RETURNING "id", "attempts".
Claims == [id : Ids, attempts : Nat]
NoClaim == [id |-> 0, attempts |-> 0]

\* drainOnce: reclaim, claim, then for each claimed row dispatch and flip.
Phases == {"idle", "claim", "loop", "dispatch", "listener", "catch"}
DrainState == [phase : Phases, batch : SUBSET Claims, cur : Claims \cup {NoClaim},
               pos : {0} \cup Listeners]
Idle == [phase |-> "idle", batch |-> {}, cur |-> NoClaim, pos |-> 0]

Existing == {id \in Ids : rows[id].status \notin {"none", "pruned"}}

\* The rows that ORDER BY "id" LIMIT n keeps of a selection.
Limit(selection, n) ==
    {x \in selection : Cardinality({y \in selection : y < x}) < n}

Init ==
    /\ rows = [id \in Ids |->
                  [status |-> "none", attempts |-> 0, elapsed |-> FALSE]]
    /\ event = [id \in Ids |-> NoRequest]
    /\ nextId = 1
    /\ appends = [p \in Producers |->
                     [step |-> "idle", req |-> NoRequest, answer |-> 0]]
    /\ work = [w \in Workers |-> Idle]
    /\ calls = [id \in Ids |-> [l \in Listeners |-> 0]]
    /\ owner = [id \in Ids |-> NoWorker]
    /\ faults = 0
    /\ overruns = 0

-----------------------------------------------------------------------------
(***************************************************************************)
(* Producers: OutboxService.append                                         *)
(***************************************************************************)

\* The findFirst of the dedup guard: scoped by key and tenant, and only made
\* for a key the producer supplied.
Bug_DuplicatesQueuedOnly(req) ==
    IF req.key = NoKey THEN {}
    ELSE {id \in Existing : event[id] = req /\ rows[id].status = "queued"}
Bug_DuplicatesAnyTenant(req) ==
    IF req.key = NoKey THEN {} ELSE {id \in Existing : event[id].key = req.key}

Duplicates(req) ==
    IF req.key = NoKey THEN {} ELSE {id \in Existing : event[id] = req}

Lookup(p) ==
    /\ appends[p].step # "insert"
    /\ \E req \in Requests :
         \/ /\ Duplicates(req) = {}
            /\ appends' = [appends EXCEPT ![p] =
                              [step |-> "insert", req |-> req, answer |-> 0]]
         \/ \E id \in Duplicates(req) :
              appends' = [appends EXCEPT ![p] =
                             [step |-> "done", req |-> req, answer |-> id]]
    /\ UNCHANGED <<rows, event, nextId, work, calls, owner, faults, overruns>>

\* The create, visible from the commit of the producer's transaction.  There
\* is no unique index on idempotencyKey, so it cannot fail on a duplicate.
Insert(p) ==
    /\ appends[p].step = "insert"
    /\ nextId <= MaxRows
    /\ rows' = [rows EXCEPT ![nextId] =
                   [status |-> "queued", attempts |-> 0, elapsed |-> TRUE]]
    /\ event' = [event EXCEPT ![nextId] = appends[p].req]
    /\ nextId' = nextId + 1
    /\ appends' = [appends EXCEPT ![p] =
                      [@ EXCEPT !.step = "done", !.answer = nextId]]
    /\ UNCHANGED <<work, calls, owner, faults, overruns>>

\* The producer's transaction rolls back (or the caller dies): no row.
Rollback(p) ==
    /\ appends[p].step = "insert"
    /\ appends' = [appends EXCEPT ![p] =
                      [step |-> "idle", req |-> NoRequest, answer |-> 0]]
    /\ UNCHANGED <<rows, event, nextId, work, calls, owner, faults, overruns>>

-----------------------------------------------------------------------------
(***************************************************************************)
(* One replica: drainOnce, run by a poll loop that never overlaps itself   *)
(***************************************************************************)

Bug_StaleIgnoresWindow(id) == rows[id].status = "dispatching"
Bug_StaleBelowCap(id) ==
    /\ rows[id].status = "dispatching" /\ rows[id].elapsed
    /\ rows[id].attempts < MaxAttempts

Stale(id) == rows[id].status = "dispatching" /\ rows[id].elapsed

\* Orphaned claims go back to the queue, due at once, attempts not bumped.
Reclaim(w) ==
    /\ work[w].phase = "idle"
    /\ LET reclaimed == Limit({id \in Ids : Stale(id)}, Batch)
       IN  rows' = [id \in Ids |->
                       IF id \in reclaimed
                       THEN [rows[id] EXCEPT !.status = "queued", !.elapsed = TRUE]
                       ELSE rows[id]]
    /\ work' = [work EXCEPT ![w] = [@ EXCEPT !.phase = "claim"]]
    /\ UNCHANGED <<event, nextId, appends, calls, owner, faults, overruns>>

Bug_DueBelowCap(id) ==
    /\ rows[id].status = "queued" /\ rows[id].elapsed
    /\ rows[id].attempts < MaxAttempts

Due(id) == rows[id].status = "queued" /\ rows[id].elapsed


Claimed(row) ==
    [status |-> "dispatching", attempts |-> row.attempts + 1, elapsed |-> FALSE]

\* Claim the due rows, up to BATCH of them, in one statement.
Claim(w) ==
    /\ work[w].phase = "claim"
    /\ LET claimed == Limit({id \in Ids : Due(id)}, Batch)
       IN  /\ rows' = [id \in Ids |->
                          IF id \in claimed THEN Claimed(rows[id]) ELSE rows[id]]
           /\ owner' = [id \in Ids |-> IF id \in claimed THEN w ELSE owner[id]]
           /\ work' = [work EXCEPT ![w] = [@ EXCEPT !.phase = "loop",
                          !.batch = {[id |-> id,
                                      attempts |-> Claimed(rows[id]).attempts] :
                                       id \in claimed}]]
    /\ UNCHANGED <<event, nextId, appends, calls, faults, overruns>>

\* Next turn of the for loop.  RETURNING promises no order.
Take(w) ==
    /\ work[w].phase = "loop"
    /\ \E c \in work[w].batch :
         work' = [work EXCEPT ![w] = [phase |-> "dispatch", cur |-> c, pos |-> 0,
                                      batch |-> work[w].batch \ {c}]]
    /\ UNCHANGED <<rows, event, nextId, appends, calls, owner, faults, overruns>>

\* The loop is over: the tick ends and schedules the next one.
EndTick(w) ==
    /\ work[w].phase = "loop"
    /\ work[w].batch = {}
    /\ work' = [work EXCEPT ![w] = Idle]
    /\ UNCHANGED <<rows, event, nextId, appends, calls, owner, faults, overruns>>

Bug_MoreListeners(w) == work[w].pos <= NumListeners

MoreListeners(w) == work[w].pos < NumListeners

\* bus.dispatch invokes the next listener ...
Invoke(w) ==
    /\ work[w].phase = "dispatch"
    /\ MoreListeners(w)
    /\ LET id == work[w].cur.id
           l == work[w].pos + 1
       IN  /\ calls' = [calls EXCEPT ![id] = [@ EXCEPT ![l] = calls[id][l] + 1]]
           /\ work' = [work EXCEPT ![w] =
                          [@ EXCEPT !.phase = "listener", !.pos = l]]
    /\ UNCHANGED <<rows, event, nextId, appends, owner, faults, overruns>>

\* ... and goes on when its promise settles: a rejection is swallowed.
Return(w) ==
    /\ work[w].phase = "listener"
    /\ work' = [work EXCEPT ![w] = [@ EXCEPT !.phase = "dispatch"]]
    /\ UNCHANGED <<rows, event, nextId, appends, calls, owner, faults, overruns>>

Bug_UnguardedWrite(id, status) ==
    rows' = [rows EXCEPT ![id] = [@ EXCEPT !.status = status, !.elapsed = FALSE]]

\* The statement both terminal writes are: updateMany where id and status.
GuardedWrite(id, status) ==
    rows' = IF rows[id].status = "dispatching"
            THEN [rows EXCEPT ![id] = [@ EXCEPT !.status = status, !.elapsed = FALSE]]
            ELSE rows

Bug_FlipFirst(w) == work[w].phase = "dispatch"

\* dispatch resolves once the last listener settled.
AllInvoked(w) == work[w].phase = "dispatch" /\ work[w].pos = NumListeners

\* The success flip, after dispatch resolved.
Flip(w) ==
    /\ AllInvoked(w)
    /\ GuardedWrite(work[w].cur.id, "dispatched")
    /\ work' = [work EXCEPT ![w] =
                   [@ EXCEPT !.phase = "loop", !.cur = NoClaim, !.pos = 0]]
    /\ UNCHANGED <<event, nextId, appends, calls, owner, faults, overruns>>

\* The success flip throws; the database may or may not have executed it.
FlipThrows(w) ==
    /\ AllInvoked(w)
    /\ faults < MaxFaults
    /\ faults' = faults + 1
    /\ \/ GuardedWrite(work[w].cur.id, "dispatched")
       \/ rows' = rows
    /\ work' = [work EXCEPT ![w] = [@ EXCEPT !.phase = "catch"]]
    /\ UNCHANGED <<event, nextId, appends, calls, owner, overruns>>

Bug_ExhaustedEarly(attempts) == attempts + 1 >= MaxAttempts

Exhausted(attempts) == attempts >= MaxAttempts

\* The catch branch: back to the queue with a backoff, or to the DLQ when the
\* attempts this replica read at its claim have reached the cap.
RecordFailure(w) ==
    /\ work[w].phase = "catch"
    /\ LET final == Exhausted(work[w].cur.attempts)
       IN  GuardedWrite(work[w].cur.id, IF final THEN "failed" ELSE "queued")
    /\ work' = [work EXCEPT ![w] =
                   [@ EXCEPT !.phase = "loop", !.cur = NoClaim, !.pos = 0]]
    /\ UNCHANGED <<event, nextId, appends, calls, owner, faults, overruns>>

\* The replica loses its batch: the process dies and is restarted, or the
\* failure write throws too and the error ends the tick.  Rows it claimed
\* stay dispatching.
Crash(w) ==
    /\ work[w].phase # "idle"
    /\ faults < MaxFaults
    /\ faults' = faults + 1
    /\ work' = [work EXCEPT ![w] = Idle]
    /\ UNCHANGED <<rows, event, nextId, appends, calls, owner, overruns>>

-----------------------------------------------------------------------------
(***************************************************************************)
(* Retention and time                                                      *)
(***************************************************************************)

Bug_PrunableAnyStatus(id) == rows[id].status # "none" /\ rows[id].elapsed

Prunable(id) == rows[id].status = "dispatched" /\ rows[id].elapsed

\* pruneOnce: dispatched rows past the retention window are deleted (all of
\* them here: its own LIMIT of 5000 only splits the deletion).
Prune ==
    /\ \E id \in Ids : Prunable(id)
    /\ rows' = [id \in Ids |->
                   IF Prunable(id) THEN [rows[id] EXCEPT !.status = "pruned"]
                   ELSE rows[id]]
    /\ UNCHANGED <<event, nextId, appends, work, calls, owner, faults, overruns>>

\* w still has the row ahead of it in its loop, or in hand.
Holds(w, id) == id \in {c.id : c \in work[w].batch \cup {work[w].cur}}

Elapse(id) ==
    /\ rows[id].status \in {"queued", "dispatching", "dispatched"}
    /\ ~rows[id].elapsed
    /\ IF rows[id].status = "dispatching" /\ \E w \in Workers : Holds(w, id)
       THEN overruns < MaxOverruns /\ overruns' = overruns + 1
       ELSE overruns' = overruns
    /\ rows' = [rows EXCEPT ![id] = [@ EXCEPT !.elapsed = TRUE]]
    /\ UNCHANGED <<event, nextId, appends, work, calls, owner, faults>>

-----------------------------------------------------------------------------
Append(p) == Lookup(p) \/ Insert(p) \/ Rollback(p)

Drain(w) ==
    \/ Reclaim(w) \/ Claim(w) \/ Take(w) \/ EndTick(w) \/ Invoke(w)
    \/ Return(w) \/ Flip(w) \/ RecordFailure(w)

Next ==
    \/ \E p \in Producers : Append(p)
    \/ \E w \in Workers : Drain(w) \/ FlipThrows(w) \/ Crash(w)
    \/ Prune
    \/ \E id \in Ids : Elapse(id)

Spec == Init /\ [][Next]_vars

\* The poll loop reschedules itself whatever a tick did, listeners settle,
\* and time passes.  Producers, failures and the pruner owe nothing.
Fairness ==
    /\ \A w \in Workers : WF_vars(Drain(w))
    /\ \A id \in Ids : WF_vars(Elapse(id))

FairSpec == Spec /\ Fairness
-----------------------------------------------------------------------------
(***************************************************************************)
(* Properties                                                              *)
(***************************************************************************)

\* Every variable keeps its shape.
TypeOK ==
    /\ rows \in [Ids -> Row]
    /\ event \in [Ids -> Requests]
    /\ nextId \in 1 .. MaxRows + 1
    /\ appends \in [Producers -> AppendCall]
    /\ work \in [Workers -> DrainState]
    /\ calls \in [Ids -> [Listeners -> Nat]]
    /\ owner \in [Ids -> Workers \cup {NoWorker}]
    /\ faults \in 0 .. MaxFaults
    /\ overruns \in 0 .. MaxOverruns

Settled(id) == rows[id].status \in {"dispatched", "failed", "pruned"}

\* No event is lost: a row leaves the queue for good (dispatched, in the DLQ,
\* or deleted by retention) only after every listener was invoked with it,
\* whichever replicas claimed, lost and reclaimed it on the way.
SettledWasHeard ==
    \A id \in Ids : Settled(id) => \A l \in Listeners : calls[id][l] >= 1

\* The DLQ holds only rows that used up their attempts, although the replica
\* that gives up decides on the attempts it read at its claim.
DlqOnlyAtCap ==
    \A id \in Ids : rows[id].status = "failed" => rows[id].attempts >= MaxAttempts

\* Redelivery has a cause: a listener hears an event twice only after a crash,
\* a failed statement or a reclaim window that ran out, once for each.
RedeliveryHasCause ==
    \A id \in Ids, l \in Listeners :
        calls[id][l] <= 1 + faults + overruns /\ calls[id][l] <= rows[id].attempts

\* As long as no reclaim window passes under a live replica, no two replicas
\* have the same row in hand, crashes and retries included.
ClaimIsExclusive ==
    overruns = 0 =>
        \A w1, w2 \in Workers : \A id \in Ids :
            Holds(w1, id) /\ Holds(w2, id) => w1 = w2

\* Two rows for one key of one tenant exist only if that many calls of append
\* overlapped: the lookup collapses every retry that starts after the insert.
DuplicatesOnlyByOverlap ==
    \A req \in Requests : req.key # NoKey =>
        Cardinality({id \in Existing : event[id] = req})
          + Cardinality({p \in Producers : /\ appends[p].step = "insert"
                                           /\ appends[p].req = req})
        <= Cardinality(Producers)

\* A producer that got an id back got the id of its own event: the same key of
\* the same tenant, never a row of another tenant that uses the same key.
AnswerIsOwnEvent ==
    \A p \in Producers : appends[p].step = "done" =>
        /\ rows[appends[p].answer].status # "none"
        /\ event[appends[p].answer] = appends[p].req

\* A settled row stays as it is: a late or repeated write of a replica whose
\* claim was lost never brings it back (retention may delete what succeeded).
SettledIsFinal ==
    [][\A id \in Ids : Settled(id) =>
          \/ rows'[id].status = rows[id].status
          \/ rows[id].status = "dispatched" /\ rows'[id].status = "pruned"]_vars

\* A step of a replica that changes the row it has in hand is made under the
\* row's latest claim.
OutcomeByOwner ==
    \A w \in Workers, id \in Ids :
        work[w].cur.id = id /\ work'[w] # work[w] /\ rows'[id] # rows[id]
            => owner[id] = w

\* As long as no reclaim window passes under a live replica, the outcome of a
\* row is written by the replica of its latest claim, whatever crashed before.
OwnerSettlesInWindow == [][overruns = 0 => OutcomeByOwner]_vars

\* "only the worker that still owns the claim writes" the outcome of a row.
OnlyOwnerSettles == [][OutcomeByOwner]_vars

\* Every appended event is eventually dispatched or put in the DLQ, once
\* failures and overruns stop.
EveryEventSettles ==
    \A id \in Ids : rows[id].status = "queued" ~> Settled(id)

(***************************************************************************)
(* The inductive invariant behind SettledWasHeard, DlqOnlyAtCap and        *)
(* ClaimIsExclusive, in named parts.                                       *)
(***************************************************************************)
Hand(w) == work[w].batch \cup {work[w].cur}

\* Where a replica stands says what it has in hand.
InHandOf(w) ==
    /\ work[w].phase \in {"idle", "claim"} => Hand(w) = {NoClaim}
    /\ work[w].phase = "loop" => work[w].cur = NoClaim
    /\ work[w].phase \in {"dispatch", "listener", "catch"} => work[w].cur \in Claims
    /\ \A c, d \in Hand(w) : c.id = d.id => c = d
    /\ work[w].cur \notin work[w].batch

InHand == \A w \in Workers : InHandOf(w)

\* Rows are inserted once, at nextId.
Fresh ==
    \A id \in Ids : id >= nextId => rows[id].status = "none" /\ rows[id].attempts = 0

\* A row in hand was inserted, and was claimed at least as often as its
\* claimer read.
HandIsPast ==
    \A w \in Workers : \A c \in Hand(w) : c # NoClaim =>
        rows[c.id].status # "none" /\ c.attempts <= rows[c.id].attempts

\* The listeners a dispatch has passed were invoked.
HeardSoFar ==
    \A w \in Workers :
        /\ work[w].phase \in {"dispatch", "listener"} =>
              \A l \in 1 .. work[w].pos : calls[work[w].cur.id][l] >= 1
        /\ work[w].phase = "catch" =>
              \A l \in Listeners : calls[work[w].cur.id][l] >= 1

\* While no window has passed under a live replica, a row in hand belongs to
\* the replica that has it, and only its own flip can have changed it.
HandIsOwned ==
    overruns = 0 =>
        \A w \in Workers : \A c \in Hand(w) : c # NoClaim =>
            /\ owner[c.id] = w
            /\ \/ rows[c.id].status = "dispatching" /\ ~rows[c.id].elapsed
               \/ /\ work[w].phase = "catch" /\ c = work[w].cur
                  /\ rows[c.id].status \in {"dispatched", "pruned"}

IInv ==
    /\ TypeOK /\ InHand /\ Fresh /\ HandIsPast /\ HeardSoFar
    /\ SettledWasHeard /\ DlqOnlyAtCap /\ HandIsOwned

(***************************************************************************)
(* The outbox implements at-least-once delivery.                           *)
(***************************************************************************)
Outcome(id) ==
    CASE rows[id].status = "none" -> "unknown"
      [] rows[id].status \in {"queued", "dispatching"} -> "pending"
      [] rows[id].status \in {"dispatched", "pruned"} -> "done"
      [] rows[id].status = "failed" -> "dead"

HeardBy(id) == {l \in Listeners : calls[id][l] >= 1}

Delivery == INSTANCE AtLeastOnce WITH
    Events <- Ids,
    state <- [id \in Ids |-> Outcome(id)],
    heard <- [id \in Ids |-> HeardBy(id)]

\* Every step of the outbox is a step of at-least-once delivery, or leaves
\* what it promises unchanged; and what it owes is done.
ImplementsDelivery == Delivery!Spec
ImplementsFairDelivery == Delivery!FairSpec
=============================================================================
