---------------------------- MODULE OutboxProofs ----------------------------
(***************************************************************************)
(* Theorems about Outbox, for any number of replicas, producers, rows,     *)
(* listeners and failures.                                                 *)
(***************************************************************************)
EXTENDS Outbox, TLAPS

\* What LIMIT keeps was selected.
LEMMA LimitSubset ==
    ASSUME NEW S, NEW n
    PROVE  Limit(S, n) \subseteq S
BY DEF Limit

\* The guarded terminal write keeps the table well-typed.
LEMMA GuardedWriteType ==
    ASSUME TypeOK, NEW id \in Ids, NEW status \in Status, GuardedWrite(id, status)
    PROVE  rows' \in [Ids -> Row]
<1>1. [rows[id] EXCEPT !.status = status, !.elapsed = FALSE] \in Row
  BY DEF TypeOK, Row
<1>. QED  BY <1>1 DEF TypeOK, GuardedWrite

-----------------------------------------------------------------------------
\* The empty table is well-typed.
LEMMA InitType == Init => TypeOK
<1>. SUFFICES ASSUME Init PROVE TypeOK
  OBVIOUS
<1>1. rows \in [Ids -> Row]
  BY DEF Init, Row, Status
<1>2. NoRequest \in Requests
  BY DEF NoRequest, Requests
<1>3. appends \in [Producers -> AppendCall]
  BY <1>2 DEF Init, AppendCall
<1>4. Idle \in DrainState
  BY DEF Idle, DrainState, Phases
<1>5. calls \in [Ids -> [Listeners -> Nat]]
  BY DEF Init
<1>6. nextId \in 1 .. MaxRows + 1 /\ faults \in 0 .. MaxFaults /\ overruns \in 0 .. MaxOverruns
  BY OutboxAssumption DEF Init
<1>. QED  BY <1>1, <1>2, <1>3, <1>4, <1>5, <1>6 DEF Init, TypeOK

\* Calls of append keep the types.
LEMMA AppendType ==
    ASSUME TypeOK, NEW p \in Producers, Append(p)
    PROVE  TypeOK'
<1>1. CASE Lookup(p)
  <2>1. PICK req \in Requests, answer \in {0} \cup Ids, step \in {"insert", "done"} :
            appends' = [appends EXCEPT ![p] = [step |-> step, req |-> req, answer |-> answer]]
    BY <1>1 DEF Lookup, Duplicates, Existing
  <2>2. [step |-> step, req |-> req, answer |-> answer] \in AppendCall
    BY <2>1 DEF AppendCall
  <2>. QED  BY <1>1, <2>1, <2>2 DEF Lookup, TypeOK
<1>2. CASE Insert(p)
  <2>1. nextId \in Ids /\ nextId' \in 1 .. MaxRows + 1
    BY <1>2, OutboxAssumption DEF Insert, TypeOK, Ids
  <2>2. [status |-> "queued", attempts |-> 0, elapsed |-> TRUE] \in Row
    BY DEF Row, Status
  <2>3. appends[p].req \in Requests
    BY DEF TypeOK, AppendCall
  <2>4. [appends[p] EXCEPT !.step = "done", !.answer = nextId] \in AppendCall
    BY <2>1 DEF TypeOK, AppendCall
  <2>. QED  BY <1>2, <2>1, <2>2, <2>3, <2>4 DEF Insert, TypeOK
<1>3. CASE Rollback(p)
  <2>1. [step |-> "idle", req |-> NoRequest, answer |-> 0] \in AppendCall
    BY DEF NoRequest, Requests, AppendCall
  <2>. QED  BY <1>3, <2>1 DEF Rollback, TypeOK
<1>. QED  BY <1>1, <1>2, <1>3 DEF Append

\* So does every step of a replica, provided what it has in hand fits its phase.
LEMMA DrainType ==
    ASSUME TypeOK, InHand, NEW w \in Workers, Drain(w) \/ FlipThrows(w) \/ Crash(w)
    PROVE  TypeOK'
<1>. work[w] \in DrainState
  BY DEF TypeOK
<1>1. CASE Reclaim(w)
  <2>1. \A id \in Ids : [rows[id] EXCEPT !.status = "queued", !.elapsed = TRUE] \in Row
    BY DEF TypeOK, Row, Status
  <2>2. rows' \in [Ids -> Row]
    BY <1>1, <2>1 DEF Reclaim, TypeOK
  <2>3. [work[w] EXCEPT !.phase = "claim"] \in DrainState
    BY DEF DrainState, Phases
  <2>. QED  BY <1>1, <2>2, <2>3 DEF Reclaim, TypeOK
<1>2. CASE Claim(w)
  <2>. DEFINE claimed == Limit({id \in Ids : Due(id)}, Batch)
              batch == {[id |-> id, attempts |-> Claimed(rows[id]).attempts] : id \in claimed}
  <2>1. \A id \in Ids : Claimed(rows[id]) \in Row /\ Claimed(rows[id]).attempts \in Nat
    BY DEF Claimed, TypeOK, Row, Status
  <2>2. rows' \in [Ids -> Row]
    BY <1>2, <2>1 DEF Claim, TypeOK
  <2>3. claimed \subseteq Ids
    BY LimitSubset
  <2>4. batch \subseteq Claims
    <3>1. \A id \in Ids : [id |-> id, attempts |-> Claimed(rows[id]).attempts] \in Claims
      BY <2>1 DEF Claims
    <3>. QED  BY <2>3, <3>1
  <2>5. [work[w] EXCEPT !.phase = "loop", !.batch = batch] \in DrainState
    <3>. HIDE DEF batch
    <3>. QED  BY <2>4 DEF DrainState, Phases
  <2>6. work' \in [Workers -> DrainState]
    <3>1. work' = [work EXCEPT ![w] = [work[w] EXCEPT !.phase = "loop", !.batch = batch]]
      BY <1>2, Zenon DEF Claim
    <3>. HIDE DEF batch
    <3>. QED  BY <2>5, <3>1 DEF TypeOK
  <2>7. owner' \in [Ids -> Workers \cup {NoWorker}]
    BY <1>2 DEF Claim, TypeOK
  <2>. QED  BY <1>2, <2>2, <2>6, <2>7 DEF Claim, TypeOK
<1>3. CASE Take(w)
  <2>1. PICK c \in work[w].batch :
          work' = [work EXCEPT ![w] = [phase |-> "dispatch", cur |-> c, pos |-> 0,
                                       batch |-> work[w].batch \ {c}]]
    BY <1>3 DEF Take
  <2>2. [phase |-> "dispatch", cur |-> c, pos |-> 0, batch |-> work[w].batch \ {c}]
          \in DrainState
    BY DEF DrainState, Phases
  <2>. QED  BY <1>3, <2>1, <2>2 DEF Take, TypeOK
<1>4. CASE EndTick(w)
  <2>1. Idle \in DrainState
    BY DEF Idle, DrainState, Phases
  <2>. QED  BY <1>4, <2>1 DEF EndTick, TypeOK
<1>5. CASE Invoke(w)
  <2>. DEFINE l == work[w].pos + 1  id == work[w].cur.id
  <2>1. l \in Listeners
    BY <1>5, OutboxAssumption DEF Invoke, MoreListeners, DrainState, Listeners
  <2>2. id \in Ids
    BY <1>5 DEF Invoke, InHand, InHandOf, Claims
  <2>3. [calls[id] EXCEPT ![l] = calls[id][l] + 1] \in [Listeners -> Nat]
    <3>1. calls[id] \in [Listeners -> Nat] /\ calls[id][l] + 1 \in Nat
      BY <2>1, <2>2 DEF TypeOK
    <3>. HIDE DEF id, l
    <3>. QED  BY <3>1
  <2>4. [work[w] EXCEPT !.phase = "listener", !.pos = l] \in DrainState
    BY <2>1 DEF DrainState, Phases
  <2>5. calls' \in [Ids -> [Listeners -> Nat]]
    <3>1. calls' = [calls EXCEPT ![id] = [calls[id] EXCEPT ![l] = calls[id][l] + 1]]
      BY <1>5, Zenon DEF Invoke
    <3>. HIDE DEF id, l
    <3>. QED  BY <2>2, <2>3, <3>1 DEF TypeOK
  <2>. QED  BY <1>5, <2>4, <2>5 DEF Invoke, TypeOK
<1>6. CASE Return(w)
  <2>1. [work[w] EXCEPT !.phase = "dispatch"] \in DrainState
    BY DEF DrainState, Phases
  <2>. QED  BY <1>6, <2>1 DEF Return, TypeOK
<1>7. ASSUME Flip(w) \/ RecordFailure(w) PROVE TypeOK'
  <2>1. work[w].cur.id \in Ids
    BY <1>7 DEF Flip, RecordFailure, AllInvoked, InHand, InHandOf, Claims
  <2>2. PICK status \in Status : GuardedWrite(work[w].cur.id, status)
    BY <1>7 DEF Flip, RecordFailure, Status
  <2>3. rows' \in [Ids -> Row]
    BY <2>1, <2>2, GuardedWriteType
  <2>4. [work[w] EXCEPT !.phase = "loop", !.cur = NoClaim, !.pos = 0] \in DrainState
    BY DEF DrainState, Phases
  <2>. QED  BY <1>7, <2>3, <2>4 DEF Flip, RecordFailure, TypeOK
<1>8. CASE FlipThrows(w)
  <2>1. work[w].cur.id \in Ids
    BY <1>8 DEF FlipThrows, AllInvoked, InHand, InHandOf, Claims
  <2>2. rows' \in [Ids -> Row]
    BY <1>8, <2>1, GuardedWriteType DEF FlipThrows, Status, TypeOK
  <2>3. [work[w] EXCEPT !.phase = "catch"] \in DrainState
    BY DEF DrainState, Phases
  <2>4. faults' \in 0 .. MaxFaults
    BY <1>8, OutboxAssumption DEF FlipThrows, TypeOK
  <2>. QED  BY <1>8, <2>2, <2>3, <2>4 DEF FlipThrows, TypeOK
<1>9. CASE Crash(w)
  <2>1. Idle \in DrainState
    BY DEF Idle, DrainState, Phases
  <2>2. faults' \in 0 .. MaxFaults
    BY <1>9, OutboxAssumption DEF Crash, TypeOK
  <2>. QED  BY <1>9, <2>1, <2>2 DEF Crash, TypeOK
<1>. QED
  BY <1>1, <1>2, <1>3, <1>4, <1>5, <1>6, <1>7, <1>8, <1>9 DEF Drain

\* So does retention.
LEMMA PruneType == TypeOK /\ Prune => TypeOK'
<1>. SUFFICES ASSUME TypeOK, Prune PROVE TypeOK'
  OBVIOUS
<1>1. \A id \in Ids : [rows[id] EXCEPT !.status = "pruned"] \in Row
  BY DEF TypeOK, Row, Status
<1>2. rows' \in [Ids -> Row]
  BY <1>1 DEF Prune, TypeOK
<1>. QED  BY <1>2 DEF Prune, TypeOK

\* So does time.
LEMMA ElapseType ==
    ASSUME TypeOK, NEW id \in Ids, Elapse(id)
    PROVE  TypeOK'
<1>1. [rows[id] EXCEPT !.elapsed = TRUE] \in Row
  BY DEF TypeOK, Row
<1>2. overruns' \in 0 .. MaxOverruns
  BY OutboxAssumption DEF Elapse, TypeOK
<1>. QED  BY <1>1, <1>2 DEF Elapse, TypeOK

\* All of them together.
LEMMA NextType == TypeOK /\ InHand /\ [Next]_vars => TypeOK'
<1>1. TypeOK /\ UNCHANGED vars => TypeOK'
  BY DEF TypeOK, vars
<1>. QED
  BY <1>1, AppendType, DrainType, PruneType, ElapseType DEF Next

-----------------------------------------------------------------------------
(***************************************************************************)
(* The inductive invariant                                                 *)
(***************************************************************************)
\* Nothing is in hand before the first claim.
LEMMA InitInv == Init => IInv
<1>. SUFFICES ASSUME Init PROVE IInv
  OBVIOUS
<1>1. TypeOK
  BY InitType
<1>2. InHand /\ HandIsPast /\ HeardSoFar /\ HandIsOwned
  BY DEF Init, Idle, Hand, InHand, InHandOf, HandIsPast, HeardSoFar, HandIsOwned
<1>3. Fresh /\ SettledWasHeard /\ DlqOnlyAtCap
  BY DEF Init, Fresh, SettledWasHeard, Settled, DlqOnlyAtCap
<1>. QED  BY <1>1, <1>2, <1>3 DEF IInv

\* A row in hand is a row of the table.
LEMMA HandInIds ==
    ASSUME TypeOK, NEW w \in Workers, NEW c \in Hand(w), c # NoClaim
    PROVE  c \in Claims /\ c.id \in Ids
BY DEF TypeOK, DrainState, Hand, Claims

\* Calls of append that insert nothing touch no row.
LEMMA LookupRollbackInv ==
    ASSUME IInv, NEW p \in Producers, Lookup(p) \/ Rollback(p)
    PROVE  IInv'
<1>1. TypeOK'
  BY AppendType DEF IInv, Append
<1>2. UNCHANGED <<rows, nextId, work, calls, owner, overruns>>
  BY DEF Lookup, Rollback
<1>. QED
  BY <1>1, <1>2 DEF IInv, Hand, InHand, InHandOf, Fresh, HandIsPast, HeardSoFar, HandIsOwned,
     SettledWasHeard, Settled, DlqOnlyAtCap

\* The new row is nobody's, and nothing was heard of it.
LEMMA InsertInv ==
    ASSUME IInv, NEW p \in Producers, Insert(p)
    PROVE  IInv'
<1>1. TypeOK'
  BY AppendType DEF IInv, Append
<1>2. nextId \in Ids /\ nextId' = nextId + 1 /\ nextId \in Nat
  BY OutboxAssumption DEF Insert, IInv, TypeOK, Ids
<1>3. UNCHANGED <<work, calls, owner, overruns>>
  BY DEF Insert
<1>4. /\ rows'[nextId] = [status |-> "queued", attempts |-> 0, elapsed |-> TRUE]
      /\ \A id \in Ids : id # nextId => rows'[id] = rows[id]
  BY <1>2 DEF Insert, IInv, TypeOK
<1>5. \A w \in Workers : \A c \in Hand(w) : c # NoClaim =>
          c.id \in Ids /\ rows'[c.id] = rows[c.id]
  BY <1>2, <1>4, HandInIds DEF IInv, HandIsPast, Fresh, Ids
<1>6. InHand' /\ HeardSoFar'
  BY <1>3 DEF IInv, InHand, InHandOf, HeardSoFar, Hand
<1>7. HandIsPast' /\ HandIsOwned'
  BY <1>3, <1>5 DEF IInv, HandIsPast, HandIsOwned, Hand
<1>8. Fresh'
  BY <1>2, <1>4 DEF IInv, Fresh, Ids
<1>9. SettledWasHeard' /\ DlqOnlyAtCap'
  BY <1>3, <1>4 DEF IInv, SettledWasHeard, Settled, DlqOnlyAtCap
<1>. QED  BY <1>1, <1>6, <1>7, <1>8, <1>9 DEF IInv

\* A reclaim takes rows whose window has passed: none in hand before an overrun.
LEMMA ReclaimInv ==
    ASSUME IInv, NEW w \in Workers, Reclaim(w)
    PROVE  IInv'
<1>1. TypeOK'
  BY DrainType DEF IInv, Drain
<1>2. UNCHANGED <<nextId, calls, owner, overruns>>
  BY DEF Reclaim
<1>3. \A id \in Ids :
          \/ rows'[id] = rows[id]
          \/ /\ rows[id].status = "dispatching" /\ rows[id].elapsed
             /\ rows'[id].status = "queued" /\ rows'[id].attempts = rows[id].attempts
  <2>1. Limit({id \in Ids : Stale(id)}, Batch) \subseteq {id \in Ids : Stale(id)}
    BY LimitSubset
  <2>. QED  BY <2>1 DEF Reclaim, Stale, IInv, TypeOK, Row
<1>4. /\ work'[w] = [work[w] EXCEPT !.phase = "claim"]
      /\ \A v \in Workers : v # w => work'[v] = work[v]
      /\ work[w] \in DrainState /\ work[w].phase = "idle"
  BY DEF Reclaim, IInv, TypeOK
<1>5. \A v \in Workers : work'[v].batch = work[v].batch /\ work'[v].cur = work[v].cur
  BY <1>4 DEF DrainState
<1>6. InHand' /\ HeardSoFar'
  BY <1>2, <1>4, <1>5 DEF IInv, InHand, InHandOf, HeardSoFar, Hand, DrainState
<1>7. HandIsPast'
  BY <1>3, <1>5, HandInIds DEF IInv, HandIsPast, Hand
<1>8. HandIsOwned'
  <2>1. \A v \in Workers : work[v].phase = "catch" => work'[v] = work[v]
    BY <1>4
  <2>. QED  BY <1>2, <1>3, <1>5, <2>1, HandInIds DEF IInv, HandIsOwned, Hand
<1>9. Fresh'
  BY <1>2, <1>3 DEF IInv, Fresh
<1>10. SettledWasHeard' /\ DlqOnlyAtCap'
  BY <1>2, <1>3 DEF IInv, SettledWasHeard, Settled, DlqOnlyAtCap
<1>. QED  BY <1>1, <1>6, <1>7, <1>8, <1>9, <1>10 DEF IInv

\* A claim takes due rows, which no replica has in hand before an overrun.
LEMMA ClaimInv ==
    ASSUME IInv, NEW w \in Workers, Claim(w)
    PROVE  IInv'
<1>. DEFINE claimed == Limit({id \in Ids : Due(id)}, Batch)
            batch == {[id |-> id, attempts |-> Claimed(rows[id]).attempts] : id \in claimed}
<1>1. TypeOK'
  BY DrainType DEF IInv, Drain
<1>2. UNCHANGED <<nextId, calls, overruns>>
  BY DEF Claim
<1>3. claimed \subseteq {id \in Ids : Due(id)}
  BY LimitSubset
<1>4. \A id \in claimed :
          /\ rows[id].status = "queued" /\ rows[id].attempts \in Nat
          /\ rows'[id].status = "dispatching" /\ ~rows'[id].elapsed
          /\ rows'[id].attempts = rows[id].attempts + 1
          /\ owner'[id] = w
  BY <1>3, Z3 DEF Claim, Due, Claimed, IInv, TypeOK, Row
<1>5. \A id \in Ids \ claimed : rows'[id] = rows[id] /\ owner'[id] = owner[id]
  BY DEF Claim
<1>6. /\ work'[w] = [work[w] EXCEPT !.phase = "loop", !.batch = batch]
      /\ \A v \in Workers : v # w => work'[v] = work[v]
      /\ work[w] \in DrainState /\ work[w].phase = "claim"
  <2>1. /\ work' = [work EXCEPT ![w] = [work[w] EXCEPT !.phase = "loop", !.batch = batch]]
        /\ work[w].phase = "claim"
    BY Zenon DEF Claim
  <2>. HIDE DEF batch
  <2>. QED  BY <2>1 DEF IInv, TypeOK
<1>7. /\ work'[w].phase = "loop" /\ work'[w].batch = batch /\ work'[w].cur = NoClaim
  <2>1. work[w].cur = NoClaim
    BY <1>6 DEF IInv, InHand, InHandOf, Hand
  <2>. HIDE DEF batch
  <2>. QED  BY <1>6, <2>1 DEF DrainState
<1>8. \A c \in batch : c.id \in claimed /\ c.attempts = rows'[c.id].attempts
  <2>1. \A id \in claimed : Claimed(rows[id]).attempts = rows'[id].attempts
    BY <1>4 DEF Claimed
  <2>2. \A c \in batch : \E id \in claimed : c = [id |-> id, attempts |-> rows'[id].attempts]
    BY <2>1
  <2>. HIDE DEF batch, claimed
  <2>. QED  BY <2>2
<1>9. \A c, d \in batch : c.id = d.id => c = d
  <2>1. batch \subseteq Claims
    BY <1>1, <1>7 DEF TypeOK, DrainState
  <2>. HIDE DEF batch, claimed
  <2>. QED  BY <1>8, <2>1 DEF Claims
<1>10. \A c \in batch : c.id \in Ids /\ c.id # 0
  <2>1. claimed \subseteq Ids /\ 0 \notin Ids
    BY <1>3 DEF Ids
  <2>. HIDE DEF batch, claimed
  <2>. QED  BY <1>8, <2>1
<1>. HIDE DEF batch, claimed
<1>11. \A v \in Workers : v # w => Hand(v)' = Hand(v) /\ work'[v] = work[v]
  BY <1>6 DEF Hand
<1>12. Hand(w)' = batch \cup {NoClaim}
  BY <1>7 DEF Hand
<1>13. InHand'
  <2>1. \A c, d \in batch \cup {NoClaim} : c.id = d.id => c = d
    BY <1>9, <1>10 DEF NoClaim
  <2>2. NoClaim \notin batch
    BY <1>10 DEF NoClaim
  <2>. QED  BY <1>7, <1>11, <1>12, <2>1, <2>2 DEF IInv, InHand, InHandOf
<1>14. HeardSoFar'
  BY <1>2, <1>7, <1>11 DEF IInv, HeardSoFar
<1>15. HandIsPast'
  <2>1. \A c \in batch : rows'[c.id].status # "none" /\ c.attempts <= rows'[c.id].attempts
    BY <1>4, <1>8
  <2>2. \A id \in Ids : rows[id].status # "none" =>
            rows'[id].status # "none" /\ rows[id].attempts <= rows'[id].attempts
    BY <1>4, <1>5 DEF IInv, TypeOK, Row
  <2>3. \A v \in Workers : \A c \in Hand(v) : c # NoClaim =>
            rows'[c.id].status # "none" /\ c.attempts <= rows'[c.id].attempts
    <3>. SUFFICES ASSUME NEW v \in Workers, NEW c \in Hand(v), c # NoClaim
                  PROVE  rows'[c.id].status # "none" /\ c.attempts <= rows'[c.id].attempts
      OBVIOUS
    <3>1. c \in Claims /\ c.id \in Ids
      BY HandInIds DEF IInv
    <3>2. c.attempts \in Nat /\ rows[c.id].attempts \in Nat /\ rows'[c.id].attempts \in Nat
      BY <1>1, <3>1 DEF IInv, TypeOK, Row, Claims
    <3>. QED  BY <2>2, <3>1, <3>2 DEF IInv, HandIsPast
  <2>. QED  BY <1>11, <1>12, <2>1, <2>3 DEF HandIsPast
<1>16. HandIsOwned'
  <2>. SUFFICES ASSUME overruns = 0, NEW v \in Workers, NEW c \in Hand(v)', c # NoClaim
                PROVE  /\ owner'[c.id] = v
                       /\ \/ rows'[c.id].status = "dispatching" /\ ~rows'[c.id].elapsed
                          \/ /\ work'[v].phase = "catch" /\ c = work'[v].cur
                             /\ rows'[c.id].status \in {"dispatched", "pruned"}
    BY <1>2 DEF HandIsOwned
  <2>1. CASE v = w
    BY <1>4, <1>8, <1>12, <2>1
  <2>2. CASE v # w
    <3>1. c \in Hand(v) /\ work'[v] = work[v] /\ c.id \in Ids
      BY <1>11, <2>2, HandInIds DEF IInv
    <3>2. rows[c.id].status # "queued"
      BY <3>1 DEF IInv, HandIsOwned
    <3>3. c.id \notin claimed
      BY <1>4, <3>2
    <3>. QED  BY <1>5, <3>1, <3>3 DEF IInv, HandIsOwned
  <2>. QED  BY <2>1, <2>2
<1>17. Fresh'
  BY <1>2, <1>4, <1>5 DEF IInv, Fresh
<1>18. SettledWasHeard' /\ DlqOnlyAtCap'
  BY <1>2, <1>4, <1>5 DEF IInv, SettledWasHeard, Settled, DlqOnlyAtCap
<1>. QED  BY <1>1, <1>13, <1>14, <1>15, <1>16, <1>17, <1>18 DEF IInv

\* Taking the next claim moves it from the batch to the hand.
LEMMA TakeInv ==
    ASSUME IInv, NEW w \in Workers, Take(w)
    PROVE  IInv'
<1>1. TypeOK'
  BY DrainType DEF IInv, Drain
<1>2. UNCHANGED <<rows, nextId, calls, owner, overruns>>
  BY DEF Take
<1>3. PICK c \in work[w].batch :
        work' = [work EXCEPT ![w] = [phase |-> "dispatch", cur |-> c, pos |-> 0,
                                     batch |-> work[w].batch \ {c}]]
  BY DEF Take
<1>4. /\ work'[w] = [phase |-> "dispatch", cur |-> c, pos |-> 0, batch |-> work[w].batch \ {c}]
      /\ \A v \in Workers : v # w => work'[v] = work[v]
      /\ work[w].phase = "loop" /\ work[w].cur = NoClaim /\ c \in Claims
  BY <1>3 DEF Take, IInv, TypeOK, InHand, InHandOf, DrainState
<1>5. \A v \in Workers : Hand(v)' \subseteq Hand(v)
  BY <1>4 DEF Hand
<1>6. InHand'
  BY <1>4, <1>5 DEF IInv, InHand, InHandOf, Hand
<1>7. HeardSoFar'
  BY <1>2, <1>4 DEF IInv, HeardSoFar
<1>8. HandIsPast'
  BY <1>2, <1>5 DEF IInv, HandIsPast
<1>9. HandIsOwned'
  BY <1>2, <1>4, <1>5 DEF IInv, HandIsOwned
<1>. QED
  BY <1>1, <1>2, <1>6, <1>7, <1>8, <1>9
     DEF IInv, Fresh, SettledWasHeard, Settled, DlqOnlyAtCap

\* A replica that loses its batch or ends its tick has nothing in hand.
LEMMA DropInv ==
    ASSUME IInv, NEW w \in Workers, EndTick(w) \/ Crash(w)
    PROVE  IInv'
<1>1. TypeOK'
  BY DrainType DEF IInv, Drain
<1>2. UNCHANGED <<rows, nextId, calls, owner, overruns>>
  BY DEF EndTick, Crash
<1>3. /\ work'[w] = Idle
      /\ \A v \in Workers : v # w => work'[v] = work[v]
  BY DEF EndTick, Crash, IInv, TypeOK
<1>4. Hand(w)' = {NoClaim} /\ \A v \in Workers : v # w => Hand(v)' = Hand(v)
  BY <1>3 DEF Hand, Idle
<1>5. InHand' /\ HeardSoFar'
  BY <1>2, <1>3, <1>4 DEF IInv, InHand, InHandOf, HeardSoFar, Idle
<1>6. HandIsPast' /\ HandIsOwned'
  BY <1>2, <1>3, <1>4 DEF IInv, HandIsPast, HandIsOwned, Idle
<1>. QED
  BY <1>1, <1>2, <1>5, <1>6 DEF IInv, Fresh, SettledWasHeard, Settled, DlqOnlyAtCap

\* Invoking a listener makes it one that heard the event.
LEMMA InvokeInv ==
    ASSUME IInv, NEW w \in Workers, Invoke(w)
    PROVE  IInv'
<1>. DEFINE l == work[w].pos + 1  id == work[w].cur.id
<1>1. TypeOK'
  BY DrainType DEF IInv, Drain
<1>2. UNCHANGED <<rows, nextId, owner, overruns>>
  BY DEF Invoke
<1>3. /\ work'[w] = [work[w] EXCEPT !.phase = "listener", !.pos = l]
      /\ \A v \in Workers : v # w => work'[v] = work[v]
      /\ work[w] \in DrainState /\ work[w].phase = "dispatch" /\ work[w].cur \in Claims
  BY DEF Invoke, IInv, TypeOK, InHand, InHandOf
<1>4. /\ work'[w].phase = "listener" /\ work'[w].pos = l
      /\ work'[w].cur = work[w].cur /\ work'[w].batch = work[w].batch
  BY <1>3 DEF DrainState
<1>5. id \in Ids /\ l \in Listeners /\ work[w].pos \in Nat
  BY <1>3, OutboxAssumption DEF Claims, Invoke, MoreListeners, DrainState, Listeners
<1>6. /\ calls'[id][l] >= 1
      /\ \A i \in Ids, k \in Listeners : calls'[i][k] >= calls[i][k]
  BY <1>5 DEF Invoke, IInv, TypeOK
<1>7. \A v \in Workers : Hand(v)' = Hand(v)
  BY <1>3, <1>4 DEF Hand
<1>8. InHand'
  <2>1. InHandOf(w)'
    BY <1>3, <1>4, <1>7 DEF IInv, InHand, InHandOf
  <2>2. \A v \in Workers : v # w => (InHandOf(v) <=> InHandOf(v)')
    BY <1>3, <1>7 DEF InHandOf
  <2>. QED  BY <2>1, <2>2 DEF IInv, InHand
<1>9. HeardSoFar'
  <2>1. \A v \in Workers : work[v].phase \in {"dispatch", "listener", "catch"} =>
            work[v].cur.id \in Ids
    BY DEF IInv, InHand, InHandOf, Claims
  <2>2. \A i \in Ids, k \in Listeners :
            /\ calls[i][k] \in Nat /\ calls'[i][k] \in Nat
            /\ calls[i][k] >= 1 => calls'[i][k] >= 1
    BY <1>1, <1>6 DEF IInv, TypeOK
  <2>3. \A v \in Workers : \A k \in 1 .. work[v].pos : k \in Listeners
    BY OutboxAssumption DEF IInv, TypeOK, DrainState, Listeners
  <2>4. \A k \in 1 .. l : calls'[id][k] >= 1
    <3>1. \A k \in 1 .. work[w].pos : calls[id][k] >= 1
      BY <1>3 DEF IInv, HeardSoFar
    <3>. QED  BY <1>5, <1>6, <2>2, <2>3, <3>1
  <2>5. \A v \in Workers : v # w =>
          /\ work[v].phase \in {"dispatch", "listener"} =>
                \A k \in 1 .. work[v].pos : calls'[work[v].cur.id][k] >= 1
          /\ work[v].phase = "catch" =>
                \A k \in Listeners : calls'[work[v].cur.id][k] >= 1
    BY <2>1, <2>2, <2>3 DEF IInv, HeardSoFar
  <2>. QED  BY <1>3, <1>4, <2>4, <2>5 DEF HeardSoFar
<1>10. HandIsPast' /\ HandIsOwned'
  BY <1>2, <1>3, <1>4, <1>7 DEF IInv, HandIsPast, HandIsOwned
<1>11. SettledWasHeard'
  <2>1. \A i \in Ids, k \in Listeners : calls[i][k] >= 1 => calls'[i][k] >= 1
    BY <1>1, <1>6 DEF IInv, TypeOK
  <2>. QED  BY <1>2, <2>1 DEF IInv, SettledWasHeard, Settled
<1>. QED
  BY <1>1, <1>2, <1>8, <1>9, <1>10, <1>11 DEF IInv, Fresh, DlqOnlyAtCap

\* A listener that settles changes no row.
LEMMA ReturnInv ==
    ASSUME IInv, NEW w \in Workers, Return(w)
    PROVE  IInv'
<1>1. TypeOK'
  BY DrainType DEF IInv, Drain
<1>2. UNCHANGED <<rows, nextId, calls, owner, overruns>>
  BY DEF Return
<1>3. /\ work'[w] = [work[w] EXCEPT !.phase = "dispatch"]
      /\ \A v \in Workers : v # w => work'[v] = work[v]
      /\ work[w] \in DrainState /\ work[w].phase = "listener"
  BY DEF Return, IInv, TypeOK
<1>4. /\ work'[w].phase = "dispatch" /\ work'[w].pos = work[w].pos
      /\ work'[w].cur = work[w].cur /\ work'[w].batch = work[w].batch
  BY <1>3 DEF DrainState
<1>5. \A v \in Workers : Hand(v)' = Hand(v)
  BY <1>3, <1>4 DEF Hand
<1>6. InHand'
  <2>1. InHandOf(w)'
    BY <1>3, <1>4, <1>5 DEF IInv, InHand, InHandOf
  <2>2. \A v \in Workers : v # w => (InHandOf(v) <=> InHandOf(v)')
    BY <1>3, <1>5 DEF InHandOf
  <2>. QED  BY <2>1, <2>2 DEF IInv, InHand
<1>. HeardSoFar'
  BY <1>2, <1>3, <1>4 DEF IInv, HeardSoFar
<1>7. HandIsPast' /\ HandIsOwned'
  BY <1>2, <1>3, <1>4, <1>5 DEF IInv, HandIsPast, HandIsOwned
<1>. QED
  BY <1>1, <1>2, <1>6, <1>7 DEF IInv, Fresh, SettledWasHeard, Settled, DlqOnlyAtCap

\* A terminal write changes at most the row in hand, and only a dispatching one.
LEMMA GuardedWriteEffect ==
    ASSUME TypeOK, NEW id \in Ids, NEW status, GuardedWrite(id, status)
    PROVE  /\ \A i \in Ids : i # id => rows'[i] = rows[i]
           /\ rows'[id].attempts = rows[id].attempts
           /\ \/ rows'[id] = rows[id] /\ rows[id].status # "dispatching"
              \/ /\ rows[id].status = "dispatching"
                 /\ rows'[id].status = status /\ ~rows'[id].elapsed
BY DEF GuardedWrite, TypeOK, Row

\* The row in hand of a replica that finished its dispatch was heard by all.
LEMMA AllInvokedHeard ==
    ASSUME IInv, NEW w \in Workers, AllInvoked(w)
    PROVE  \A l \in Listeners : calls[work[w].cur.id][l] >= 1
BY DEF AllInvoked, IInv, HeardSoFar, Listeners

\* Flip and RecordFailure: the claimed row leaves the replica's hand.
LEMMA SettleInv ==
    ASSUME IInv, NEW w \in Workers, Flip(w) \/ RecordFailure(w)
    PROVE  IInv'
<1>. DEFINE cur == work[w].cur  id == work[w].cur.id
<1>1. TypeOK'
  BY DrainType DEF IInv, Drain
<1>2. UNCHANGED <<nextId, calls, owner, overruns>>
  BY DEF Flip, RecordFailure
<1>3. /\ work'[w] = [work[w] EXCEPT !.phase = "loop", !.cur = NoClaim, !.pos = 0]
      /\ \A v \in Workers : v # w => work'[v] = work[v]
      /\ work[w] \in DrainState /\ cur \in Claims /\ id \in Ids /\ cur \in Hand(w)
      /\ cur # NoClaim
  BY DEF Flip, RecordFailure, AllInvoked, IInv, TypeOK, InHand, InHandOf, Claims, Hand,
         NoClaim, Ids
<1>4. /\ work'[w].phase = "loop" /\ work'[w].cur = NoClaim /\ work'[w].batch = work[w].batch
  BY <1>3 DEF DrainState
<1>5. PICK status \in {"dispatched", "failed", "queued"} :
        /\ GuardedWrite(id, status)
        /\ status = "failed" => cur.attempts >= MaxAttempts
  BY DEF Flip, RecordFailure, Exhausted
<1>6. /\ \A i \in Ids : i # id => rows'[i] = rows[i]
      /\ rows'[id].attempts = rows[id].attempts
      /\ \/ rows'[id] = rows[id]
         \/ rows[id].status = "dispatching" /\ rows'[id].status = status
  BY <1>3, <1>5, GuardedWriteEffect DEF IInv
<1>7. \A l \in Listeners : calls[id][l] >= 1
  BY AllInvokedHeard DEF Flip, RecordFailure, IInv, HeardSoFar
<1>. HIDE DEF cur, id
<1>8. /\ Hand(w)' = work[w].batch \cup {NoClaim}
      /\ \A v \in Workers : v # w => Hand(v)' = Hand(v)
  BY <1>3, <1>4 DEF Hand
<1>9. \A v \in Workers : \A c \in Hand(v)' : c # NoClaim => c \in Hand(v)
  BY <1>8 DEF Hand
<1>10. InHand'
  <2>1. InHandOf(w)'
    <3>1. NoClaim \notin work[w].batch
      BY <1>3 DEF DrainState, Claims, NoClaim, Ids
    <3>2. \A c, d \in work[w].batch \cup {NoClaim} : c.id = d.id => c = d
      <4>1. \A c \in work[w].batch : c.id \in Ids /\ c.id # NoClaim.id
        BY <1>3 DEF DrainState, Claims, Ids, NoClaim
      <4>2. \A c, d \in work[w].batch : c.id = d.id => c = d
        BY DEF IInv, InHand, InHandOf, Hand
      <4>. QED  BY <4>1, <4>2
    <3>. QED  BY <1>4, <1>8, <3>1, <3>2 DEF InHandOf
  <2>2. \A v \in Workers : v # w => (InHandOf(v) <=> InHandOf(v)')
    BY <1>3, <1>8 DEF InHandOf
  <2>. QED  BY <2>1, <2>2 DEF IInv, InHand
<1>11. HeardSoFar'
  BY <1>2, <1>3, <1>4 DEF IInv, HeardSoFar
<1>12. HandIsPast'
  <2>1. \A i \in Ids : rows'[i].attempts = rows[i].attempts
                      /\ (rows[i].status # "none" => rows'[i].status # "none")
    BY <1>6
  <2>. QED  BY <1>9, <2>1, HandInIds DEF IInv, HandIsPast
<1>13. HandIsOwned'
  <2>. SUFFICES ASSUME overruns = 0, NEW v \in Workers, NEW c \in Hand(v)', c # NoClaim
                PROVE  /\ owner[c.id] = v
                       /\ \/ rows'[c.id].status = "dispatching" /\ ~rows'[c.id].elapsed
                          \/ /\ work'[v].phase = "catch" /\ c = work'[v].cur
                             /\ rows'[c.id].status \in {"dispatched", "pruned"}
    BY <1>2 DEF HandIsOwned
  <2>1. c \in Hand(v) /\ c.id \in Ids /\ owner[c.id] = v
    BY <1>9, HandInIds DEF IInv, HandIsOwned
  <2>2. c.id # id
    <3>1. CASE v = w
      <4>1. c \in work[w].batch
        BY <1>8, <3>1
      <4>2. c # cur
        BY <4>1 DEF cur, IInv, InHand, InHandOf
      <4>. QED  BY <1>3, <2>1, <3>1, <4>2 DEF id, cur, IInv, InHand, InHandOf
    <3>2. CASE v # w
      <4>1. owner[id] = w
        BY <1>3 DEF id, cur, IInv, HandIsOwned
      <4>. QED  BY <2>1, <3>2, <4>1
    <3>. QED  BY <3>1, <3>2
  <2>3. rows'[c.id] = rows[c.id]
    BY <1>6, <2>1, <2>2
  <2>4. CASE v # w
    BY <1>3, <2>1, <2>3, <2>4 DEF IInv, HandIsOwned
  <2>5. CASE v = w
    <3>1. c # work[w].cur
      BY <1>8, <2>5 DEF IInv, InHand, InHandOf
    <3>. QED  BY <2>1, <2>3, <2>5, <3>1 DEF IInv, HandIsOwned
  <2>. QED  BY <2>4, <2>5
<1>14. Fresh'
  BY <1>2, <1>6 DEF IInv, Fresh
<1>15. SettledWasHeard'
  BY <1>2, <1>6, <1>7 DEF IInv, SettledWasHeard, Settled
<1>16. DlqOnlyAtCap'
  <2>1. cur.attempts \in Nat /\ rows[id].attempts \in Nat
    BY <1>3 DEF IInv, TypeOK, Row, Claims
  <2>2. cur.attempts <= rows[id].attempts
    BY <1>3 DEF id, cur, IInv, HandIsPast
  <2>. QED  BY <1>5, <1>6, <2>1, <2>2, OutboxAssumption DEF IInv, DlqOnlyAtCap
<1>. QED
  BY <1>1, <1>10, <1>11, <1>12, <1>13, <1>14, <1>15, <1>16 DEF IInv

\* A flip that throws leaves the row in hand, perhaps already dispatched.
LEMMA FlipThrowsInv ==
    ASSUME IInv, NEW w \in Workers, FlipThrows(w)
    PROVE  IInv'
<1>. DEFINE cur == work[w].cur  id == work[w].cur.id
<1>1. TypeOK'
  BY DrainType DEF IInv
<1>2. UNCHANGED <<nextId, calls, owner, overruns>>
  BY DEF FlipThrows
<1>3. /\ work'[w] = [work[w] EXCEPT !.phase = "catch"]
      /\ \A v \in Workers : v # w => work'[v] = work[v]
      /\ work[w] \in DrainState /\ cur \in Claims /\ id \in Ids /\ cur \in Hand(w)
      /\ work[w].phase = "dispatch" /\ cur # NoClaim
  BY DEF FlipThrows, AllInvoked, IInv, TypeOK, InHand, InHandOf, Claims, Hand, NoClaim, Ids
<1>4. /\ work'[w].phase = "catch" /\ work'[w].cur = work[w].cur
      /\ work'[w].batch = work[w].batch
  BY <1>3 DEF DrainState
<1>5. /\ \A i \in Ids : i # id => rows'[i] = rows[i]
      /\ rows'[id].attempts = rows[id].attempts
      /\ \/ rows'[id] = rows[id]
         \/ rows[id].status = "dispatching" /\ rows'[id].status = "dispatched"
  BY <1>3, GuardedWriteEffect DEF FlipThrows, IInv
<1>6. \A l \in Listeners : calls[id][l] >= 1
  BY AllInvokedHeard DEF FlipThrows
<1>. HIDE DEF cur, id
<1>7. \A v \in Workers : Hand(v)' = Hand(v)
  BY <1>3, <1>4 DEF Hand
<1>8. InHand'
  <2>1. InHandOf(w)'
    BY <1>3, <1>4, <1>7 DEF IInv, InHand, InHandOf
  <2>2. \A v \in Workers : v # w => (InHandOf(v) <=> InHandOf(v)')
    BY <1>3, <1>7 DEF InHandOf
  <2>. QED  BY <2>1, <2>2 DEF IInv, InHand
<1>9. HeardSoFar'
  BY <1>2, <1>3, <1>4, <1>6 DEF id, IInv, HeardSoFar
<1>10. HandIsPast'
  <2>1. \A i \in Ids : rows'[i].attempts = rows[i].attempts
                      /\ (rows[i].status # "none" => rows'[i].status # "none")
    BY <1>5
  <2>. QED  BY <1>7, <2>1, HandInIds DEF IInv, HandIsPast
<1>11. HandIsOwned'
  <2>. SUFFICES ASSUME overruns = 0, NEW v \in Workers, NEW c \in Hand(v), c # NoClaim
                PROVE  /\ owner[c.id] = v
                       /\ \/ rows'[c.id].status = "dispatching" /\ ~rows'[c.id].elapsed
                          \/ /\ work'[v].phase = "catch" /\ c = work'[v].cur
                             /\ rows'[c.id].status \in {"dispatched", "pruned"}
    BY <1>2, <1>7 DEF HandIsOwned
  <2>1. c.id \in Ids /\ owner[c.id] = v
    BY HandInIds DEF IInv, HandIsOwned
  <2>2. CASE c.id = id
    <3>1. v = w /\ c = cur
      BY <1>3, <2>1, <2>2 DEF id, cur, IInv, HandIsOwned, InHand, InHandOf
    <3>2. rows[id].status = "dispatching" /\ ~rows[id].elapsed
      BY <1>3, <2>1, <2>2, <3>1 DEF IInv, HandIsOwned
    <3>3. work'[w].cur = cur
      BY <1>4 DEF cur
    <3>. QED  BY <1>4, <1>5, <2>1, <2>2, <3>1, <3>2, <3>3
  <2>3. CASE c.id # id
    <3>1. rows'[c.id] = rows[c.id]
      BY <1>5, <2>1, <2>3
    <3>2. ~(v = w /\ work[v].phase = "catch")
      BY <1>3
    <3>. QED  BY <1>3, <2>1, <3>1, <3>2 DEF IInv, HandIsOwned
  <2>. QED  BY <2>2, <2>3
<1>12. Fresh' /\ DlqOnlyAtCap'
  BY <1>2, <1>5 DEF IInv, Fresh, DlqOnlyAtCap
<1>13. SettledWasHeard'
  BY <1>2, <1>5, <1>6 DEF IInv, SettledWasHeard, Settled
<1>. QED  BY <1>1, <1>8, <1>9, <1>10, <1>11, <1>12, <1>13 DEF IInv

\* Retention deletes only rows that were heard.
LEMMA PruneInv == IInv /\ Prune => IInv'
<1>. SUFFICES ASSUME IInv, Prune PROVE IInv'
  OBVIOUS
<1>1. TypeOK'
  BY PruneType DEF IInv
<1>2. UNCHANGED <<nextId, work, calls, owner, overruns>>
  BY DEF Prune
<1>3. \A id \in Ids :
          \/ rows'[id] = rows[id]
          \/ /\ rows[id].status = "dispatched" /\ rows'[id].status = "pruned"
             /\ rows'[id].attempts = rows[id].attempts
  BY DEF Prune, Prunable, IInv, TypeOK, Row
<1>4. InHand' /\ HeardSoFar'
  BY <1>2 DEF IInv, InHand, InHandOf, HeardSoFar, Hand
<1>5. HandIsPast' /\ HandIsOwned'
  BY <1>2, <1>3, HandInIds DEF IInv, HandIsPast, HandIsOwned, Hand
<1>6. Fresh' /\ SettledWasHeard' /\ DlqOnlyAtCap'
  BY <1>2, <1>3 DEF IInv, Fresh, SettledWasHeard, Settled, DlqOnlyAtCap
<1>. QED  BY <1>1, <1>4, <1>5, <1>6 DEF IInv

\* Time passes under a row in hand only as an overrun.
LEMMA ElapseInv ==
    ASSUME IInv, NEW id \in Ids, Elapse(id)
    PROVE  IInv'
<1>1. TypeOK'
  BY ElapseType DEF IInv
<1>2. UNCHANGED <<nextId, work, calls, owner>>
  BY DEF Elapse
<1>3. /\ \A i \in Ids : i # id => rows'[i] = rows[i]
      /\ rows'[id].status = rows[id].status /\ rows'[id].attempts = rows[id].attempts
  BY DEF Elapse, IInv, TypeOK, Row
<1>4. InHand' /\ HeardSoFar'
  BY <1>2 DEF IInv, InHand, InHandOf, HeardSoFar, Hand
<1>5. HandIsPast'
  BY <1>2, <1>3, HandInIds DEF IInv, HandIsPast, Hand
<1>6. HandIsOwned'
  <2>. SUFFICES ASSUME overruns' = 0, NEW w \in Workers, NEW c \in Hand(w), c # NoClaim
                PROVE  /\ owner[c.id] = w
                       /\ \/ rows'[c.id].status = "dispatching" /\ ~rows'[c.id].elapsed
                          \/ /\ work[w].phase = "catch" /\ c = work[w].cur
                             /\ rows'[c.id].status \in {"dispatched", "pruned"}
    BY <1>2 DEF HandIsOwned, Hand
  <2>1. overruns = 0 /\ ~(rows[id].status = "dispatching" /\ \E v \in Workers : Holds(v, id))
    BY OutboxAssumption DEF Elapse, IInv, TypeOK
  <2>2. c.id \in Ids /\ Holds(w, c.id)
    BY HandInIds DEF Holds, Hand, IInv
  <2>3. c.id = id => rows[id].status # "dispatching"
    BY <2>1, <2>2
  <2>. QED  BY <1>3, <2>1, <2>2, <2>3 DEF IInv, HandIsOwned
<1>7. Fresh' /\ SettledWasHeard' /\ DlqOnlyAtCap'
  BY <1>2, <1>3 DEF IInv, Fresh, SettledWasHeard, Settled, DlqOnlyAtCap
<1>. QED  BY <1>1, <1>4, <1>5, <1>6, <1>7 DEF IInv

\* The invariant is inductive.
LEMMA NextInv == IInv /\ [Next]_vars => IInv'
<1>. SUFFICES ASSUME IInv, [Next]_vars PROVE IInv'
  OBVIOUS
<1>1. CASE UNCHANGED vars
  BY <1>1 DEF vars, IInv, TypeOK, InHand, InHandOf, Hand, Fresh, HandIsPast, HeardSoFar,
     HandIsOwned, SettledWasHeard, Settled, DlqOnlyAtCap
<1>2. ASSUME NEW p \in Producers, Append(p) PROVE IInv'
  BY <1>2, LookupRollbackInv, InsertInv DEF Append
<1>3. ASSUME NEW w \in Workers, Drain(w) \/ FlipThrows(w) \/ Crash(w) PROVE IInv'
  BY <1>3, ReclaimInv, ClaimInv, TakeInv, DropInv, InvokeInv, ReturnInv, SettleInv,
     FlipThrowsInv DEF Drain
<1>4. CASE Prune
  BY <1>4, PruneInv
<1>5. ASSUME NEW id \in Ids, Elapse(id) PROVE IInv'
  BY <1>5, ElapseInv
<1>. QED  BY <1>1, <1>2, <1>3, <1>4, <1>5 DEF Next

\* The strengthened invariant holds in every reachable state.
THEOREM Invariant == Spec => []IInv
BY InitInv, NextInv, PTL DEF Spec

-----------------------------------------------------------------------------
(***************************************************************************)
(* The safety properties                                                   *)
(***************************************************************************)

\* The types of all variables: rows, calls of append, drain loops.
THEOREM TypeCorrect == Spec => []TypeOK
BY Invariant, PTL DEF IInv

\* No replica, crash or retry settles a row that some listener never heard.
THEOREM SettledWasHeardAlways == Spec => []SettledWasHeard
BY Invariant, PTL DEF IInv

\* A row is given up only with its attempts used up, also when the replica that
\* gives up had lost its claim and reads an older count than the row's.
THEOREM DlqOnlyAtCapAlways == Spec => []DlqOnlyAtCap
BY Invariant, PTL DEF IInv

\* Until a reclaim window passes under a live replica, a row is in one hand.
THEOREM ClaimIsExclusiveAlways == Spec => []ClaimIsExclusive
<1>1. IInv => ClaimIsExclusive
  <2>. SUFFICES ASSUME IInv, overruns = 0, NEW w1 \in Workers, NEW w2 \in Workers,
                       NEW id \in Ids, Holds(w1, id), Holds(w2, id)
                PROVE  w1 = w2
    BY DEF ClaimIsExclusive
  <2>1. id # 0
    BY DEF Ids
  <2>2. PICK c \in Hand(w1), d \in Hand(w2) : c.id = id /\ d.id = id
    BY DEF Holds, Hand
  <2>3. c # NoClaim /\ d # NoClaim
    BY <2>1, <2>2 DEF NoClaim
  <2>4. owner[id] = w1 /\ owner[id] = w2
    BY <2>2, <2>3 DEF IInv, HandIsOwned
  <2>. QED  BY <2>4
<1>. QED  BY <1>1, Invariant, PTL

\* Until a reclaim window passes under a live replica, the guard on the status
\* is as good as a check of ownership: only the owner settles a row.
THEOREM OwnerSettlesInWindowAlways == Spec => OwnerSettlesInWindow
<1>. DEFINE Owned == overruns = 0 => OutcomeByOwner
<1>1. IInv => Owned
  <2>. SUFFICES ASSUME IInv, overruns = 0, NEW w \in Workers, NEW id \in Ids,
                       work[w].cur.id = id
                PROVE  owner[id] = w
    BY DEF OutcomeByOwner
  <2>1. work[w].cur \in Hand(w) /\ work[w].cur # NoClaim
    BY DEF Hand, NoClaim, Ids
  <2>. QED  BY <2>1 DEF IInv, HandIsOwned
<1>2. OwnerSettlesInWindow <=> [][Owned]_vars
  BY DEF OwnerSettlesInWindow
<1>. QED  BY <1>1, <1>2, Invariant, PTL

\* Terminal writes are guarded on "dispatching": nothing reopens a settled row.
THEOREM SettledIsFinalAlways == Spec => SettledIsFinal
<1>. DEFINE Final == \A id \in Ids : Settled(id) =>
                        \/ rows'[id].status = rows[id].status
                        \/ rows[id].status = "dispatched" /\ rows'[id].status = "pruned"
<1>1. ASSUME IInv, [Next]_vars PROVE Final
  <2>. SUFFICES ASSUME NEW id \in Ids, Settled(id)
                PROVE  \/ rows'[id].status = rows[id].status
                       \/ rows[id].status = "dispatched" /\ rows'[id].status = "pruned"
    OBVIOUS
  <2>1. rows \in [Ids -> Row]
    BY <1>1 DEF IInv, TypeOK
  <2>2. ASSUME NEW p \in Producers, Append(p)
        PROVE  rows'[id].status = rows[id].status
    <3>1. Insert(p) => id # nextId
      BY <1>1 DEF Settled, IInv, Fresh, TypeOK
    <3>. QED  BY <2>1, <2>2, <3>1 DEF Append, Lookup, Insert, Rollback
  <2>3. ASSUME NEW w \in Workers, Reclaim(w) \/ Claim(w)
        PROVE  rows'[id] = rows[id]
    <3>1. /\ id \notin Limit({i \in Ids : Stale(i)}, Batch)
          /\ id \notin Limit({i \in Ids : Due(i)}, Batch)
      BY LimitSubset DEF Settled, Stale, Due
    <3>. QED  BY <2>3, <3>1 DEF Reclaim, Claim
  <2>4. ASSUME NEW w \in Workers, Flip(w) \/ FlipThrows(w) \/ RecordFailure(w)
        PROVE  rows'[id] = rows[id]
    BY <2>1, <2>4 DEF Flip, FlipThrows, RecordFailure, GuardedWrite, Settled
  <2>5. ASSUME NEW w \in Workers, Take(w) \/ EndTick(w) \/ Invoke(w) \/ Return(w) \/ Crash(w)
        PROVE  rows'[id] = rows[id]
    BY <2>5 DEF Take, EndTick, Invoke, Return, Crash
  <2>6. CASE Prune
    BY <2>1, <2>6 DEF Prune, Prunable
  <2>7. ASSUME NEW i \in Ids, Elapse(i) PROVE rows'[id].status = rows[id].status
    BY <2>1, <2>7 DEF Elapse, Row
  <2>8. CASE UNCHANGED vars
    BY <2>8 DEF vars
  <2>. QED  BY <1>1, <2>2, <2>3, <2>4, <2>5, <2>6, <2>7, <2>8 DEF Next, Drain
<1>2. SettledIsFinal <=> [][Final]_vars
  BY DEF SettledIsFinal
<1>. QED  BY <1>1, <1>2, Invariant, PTL DEF Spec

-----------------------------------------------------------------------------
(***************************************************************************)
(* The outbox implements at-least-once delivery (safety).  A step leaves   *)
(* what the abstraction sees unchanged, or accepts, lets hear or closes    *)
(* one event.                                                              *)
(***************************************************************************)

\* What the abstraction sees of a row depends on its status and calls only.
LEMMA SameView ==
    ASSUME \A id \in Ids : Outcome(id)' = Outcome(id) /\ HeardBy(id)' = HeardBy(id)
    PROVE  UNCHANGED Delivery!vars
BY DEF Delivery!vars

\* The initial table is the initial abstraction.
LEMMA InitImplements == Init => Delivery!Init
<1>. SUFFICES ASSUME Init PROVE Delivery!Init
  OBVIOUS
<1>1. \A id \in Ids : Outcome(id) = "unknown" /\ HeardBy(id) = {}
  BY DEF Init, Outcome, HeardBy
<1>. QED  BY <1>1 DEF Delivery!Init

\* An insert accepts the event.
LEMMA InsertAccepts ==
    ASSUME IInv, NEW p \in Producers, Insert(p)
    PROVE  Delivery!Next
<1>1. PICK new \in Ids : new = nextId /\ rows[new].status = "none"
  BY OutboxAssumption DEF Insert, IInv, TypeOK, Fresh, Ids
<1>2. /\ rows'[new].status = "queued"
      /\ \A id \in Ids : id # new => rows'[id] = rows[id]
      /\ calls' = calls
  BY <1>1 DEF Insert, IInv, TypeOK
<1>3. Outcome(new) = "unknown" /\ Outcome(new)' = "pending"
  BY <1>1, <1>2 DEF Outcome
<1>4. \A id \in Ids : id # new => Outcome(id)' = Outcome(id)
  BY <1>2 DEF Outcome
<1>5. \A id \in Ids : HeardBy(id)' = HeardBy(id)
  BY <1>2 DEF HeardBy
<1>6. Delivery!Accept(new)
  BY <1>1, <1>3, <1>4, <1>5 DEF Delivery!Accept
<1>. QED  BY <1>1, <1>6 DEF Delivery!Next

\* Invoking a listener for the first time is hearing; again, it is nothing new.
LEMMA InvokeHears ==
    ASSUME IInv, NEW w \in Workers, Invoke(w)
    PROVE  [Delivery!Next]_(Delivery!vars)
<1>1. PICK id \in Ids :
        /\ id = work[w].cur.id /\ work[w].cur \in Hand(w) /\ work[w].cur # NoClaim
        /\ work[w].phase = "dispatch"
  BY DEF Invoke, IInv, InHand, InHandOf, Claims, Hand, NoClaim, Ids
<1>2. PICK l \in Listeners : l = work[w].pos + 1 /\ work[w].pos \in Nat
  <2>1. work[w] \in DrainState /\ work[w].pos < NumListeners
    BY DEF Invoke, MoreListeners, IInv, TypeOK
  <2>. QED  BY <2>1, OutboxAssumption DEF DrainState, Listeners
<1>3. calls' = [calls EXCEPT ![id] = [calls[id] EXCEPT ![l] = calls[id][l] + 1]]
  BY <1>1, <1>2 DEF Invoke
<1>4. \A k \in 1 .. work[w].pos : calls[id][k] >= 1
  BY <1>1 DEF IInv, HeardSoFar
<1>5. \A i \in Ids : Outcome(i)' = Outcome(i)
  BY DEF Invoke, Outcome
<1>6. rows[id].status # "none"
  BY <1>1 DEF IInv, HandIsPast
<1>7. \A i \in Ids : i # id => HeardBy(i)' = HeardBy(i)
  BY <1>3 DEF HeardBy, IInv, TypeOK
<1>8. HeardBy(id)' = HeardBy(id) \cup {l}
  <2>1. calls'[id] = [calls[id] EXCEPT ![l] = calls[id][l] + 1]
    BY <1>1, <1>3 DEF IInv, TypeOK
  <2>2. calls[id] \in [Listeners -> Nat]
    BY <1>1 DEF IInv, TypeOK
  <2>3. calls'[id][l] >= 1 /\ \A k \in Listeners : k # l => calls'[id][k] = calls[id][k]
    BY <1>2, <2>1, <2>2
  <2>. QED  BY <1>2, <2>3 DEF HeardBy
<1>9. CASE l \in HeardBy(id)
  <2>1. \A i \in Ids : HeardBy(i)' = HeardBy(i)
    BY <1>7, <1>8, <1>9
  <2>. QED  BY <1>5, <2>1, SameView
<1>10. CASE l \notin HeardBy(id)
  <2>1. Outcome(id) = "pending"
    <3>1. ~Settled(id)
      BY <1>1, <1>2, <1>10 DEF HeardBy, IInv, SettledWasHeard
    <3>. QED  BY <1>1, <1>6, <3>1 DEF Settled, Outcome, IInv, TypeOK, Row, Status
  <2>2. \A k \in Listeners : k < l => k \in HeardBy(id)
    BY <1>2, <1>4 DEF HeardBy, Listeners
  <2>3. [i \in Ids |-> HeardBy(i)]' =
            [[i \in Ids |-> HeardBy(i)] EXCEPT ![id] = HeardBy(id) \cup {l}]
    BY <1>1, <1>7, <1>8
  <2>4. Delivery!Hear(id, l)
    BY <1>1, <1>5, <1>10, <2>1, <2>2, <2>3 DEF Delivery!Hear
  <2>. QED  BY <1>1, <1>2, <2>4 DEF Delivery!Next, Delivery!Progress
<1>. QED  BY <1>9, <1>10

\* A terminal write closes the event, or changes nothing the abstraction sees.
LEMMA WriteCloses ==
    ASSUME IInv, NEW w \in Workers, NEW status \in {"dispatched", "failed", "queued"},
           work[w].cur.id \in Ids,
           \A l \in Listeners : calls[work[w].cur.id][l] >= 1,
           GuardedWrite(work[w].cur.id, status), calls' = calls
    PROVE  [Delivery!Next]_(Delivery!vars)
<1>0. PICK id \in Ids : id = work[w].cur.id
  OBVIOUS
<1>1. /\ \A i \in Ids : i # id => rows'[i] = rows[i]
      /\ \/ rows'[id] = rows[id]
         \/ rows[id].status = "dispatching" /\ rows'[id].status = status
  BY <1>0, GuardedWriteEffect DEF IInv
<1>2. HeardBy(id) = Listeners
  BY <1>0 DEF HeardBy
<1>3. \A i \in Ids : HeardBy(i)' = HeardBy(i)
  BY DEF HeardBy
<1>4. \A i \in Ids : i # id => Outcome(i)' = Outcome(i)
  BY <1>1 DEF Outcome
<1>5. CASE Outcome(id)' = Outcome(id)
  BY <1>3, <1>4, <1>5, SameView
<1>6. CASE Outcome(id)' # Outcome(id)
  <2>1. rows[id].status = "dispatching" /\ rows'[id].status = status
    BY <1>1, <1>6 DEF Outcome
  <2>2. Outcome(id) = "pending" /\ Outcome(id)' \in {"done", "dead"}
    BY <1>6, <2>1 DEF Outcome
  <2>3. \E o \in {"done", "dead"} :
          [i \in Ids |-> Outcome(i)]' = [[i \in Ids |-> Outcome(i)] EXCEPT ![id] = o]
    BY <1>4, <2>2
  <2>4. Delivery!Close(id)
    BY <1>2, <1>3, <2>2, <2>3 DEF Delivery!Close
  <2>. QED  BY <2>4 DEF Delivery!Next, Delivery!Progress
<1>. QED  BY <1>5, <1>6

\* Every other step keeps the outcome of every row.
LEMMA NextImplements == IInv /\ [Next]_vars => [Delivery!Next]_(Delivery!vars)
<1>. SUFFICES ASSUME IInv, [Next]_vars PROVE [Delivery!Next]_(Delivery!vars)
  OBVIOUS
<1>1. ASSUME UNCHANGED <<rows, calls>> PROVE [Delivery!Next]_(Delivery!vars)
  BY <1>1, SameView DEF Outcome, HeardBy
<1>2. ASSUME NEW p \in Producers, Append(p) PROVE [Delivery!Next]_(Delivery!vars)
  BY <1>1, <1>2, InsertAccepts DEF Append, Lookup, Rollback
<1>3. ASSUME NEW w \in Workers, Drain(w) \/ FlipThrows(w) \/ Crash(w)
      PROVE  [Delivery!Next]_(Delivery!vars)
  <2>1. CASE Reclaim(w) \/ Claim(w)
    <3>1. Limit({i \in Ids : Stale(i)}, Batch) \subseteq {i \in Ids : Stale(i)}
      BY LimitSubset
    <3>2. Limit({i \in Ids : Due(i)}, Batch) \subseteq {i \in Ids : Due(i)}
      BY LimitSubset
    <3>3. \A id \in Ids :
              \/ rows'[id].status = rows[id].status
              \/ /\ rows[id].status \in {"queued", "dispatching"}
                 /\ rows'[id].status \in {"queued", "dispatching"}
      <4>1. CASE Reclaim(w)
        BY <3>1, <4>1 DEF Reclaim, Stale, IInv, TypeOK, Row
      <4>2. CASE Claim(w)
        BY <3>2, <4>2, Z3 DEF Claim, Due, Claimed, IInv, TypeOK, Row
      <4>. QED  BY <2>1, <4>1, <4>2
    <3>4. \A id \in Ids : Outcome(id)' = Outcome(id)
      BY <3>3 DEF Outcome
    <3>5. \A id \in Ids : HeardBy(id)' = HeardBy(id)
      BY <2>1 DEF Reclaim, Claim, HeardBy
    <3>. QED  BY <3>4, <3>5, SameView
  <2>2. CASE Take(w) \/ EndTick(w) \/ Return(w) \/ Crash(w)
    BY <1>1, <2>2 DEF Take, EndTick, Return, Crash
  <2>3. CASE Invoke(w)
    BY <2>3, InvokeHears
  <2>4. CASE Flip(w) \/ RecordFailure(w) \/ FlipThrows(w)
    <3>1. /\ work[w].cur.id \in Ids /\ calls' = calls
          /\ \A l \in Listeners : calls[work[w].cur.id][l] >= 1
      BY <2>4, AllInvokedHeard
         DEF Flip, RecordFailure, FlipThrows, AllInvoked, IInv, InHand, InHandOf, Claims, HeardSoFar
    <3>2. \/ rows' = rows
          \/ \E status \in {"dispatched", "failed", "queued"} :
                GuardedWrite(work[w].cur.id, status)
      BY <2>4 DEF Flip, RecordFailure, FlipThrows
    <3>. QED  BY <1>1, <3>1, <3>2, WriteCloses
  <2>. QED  BY <1>3, <2>1, <2>2, <2>3, <2>4 DEF Drain
<1>4. CASE Prune
  <2>1. \A id \in Ids : Outcome(id)' = Outcome(id)
    BY <1>4 DEF Prune, Prunable, Outcome, IInv, TypeOK, Row
  <2>2. \A id \in Ids : HeardBy(id)' = HeardBy(id)
    BY <1>4 DEF Prune, HeardBy
  <2>. QED  BY <2>1, <2>2, SameView
<1>5. ASSUME NEW id \in Ids, Elapse(id) PROVE [Delivery!Next]_(Delivery!vars)
  <2>1. \A i \in Ids : Outcome(i)' = Outcome(i)
    BY <1>5 DEF Elapse, Outcome, IInv, TypeOK, Row
  <2>2. \A i \in Ids : HeardBy(i)' = HeardBy(i)
    BY <1>5 DEF Elapse, HeardBy
  <2>. QED  BY <2>1, <2>2, SameView
<1>6. CASE UNCHANGED vars
  BY <1>1, <1>6 DEF vars
<1>. QED  BY <1>2, <1>3, <1>4, <1>5, <1>6 DEF Next

\* Every behaviour of the outbox is at-least-once delivery, in order, to every
\* listener before an event is closed, whatever crashes and overruns happen.
THEOREM OutboxImplementsDelivery == Spec => ImplementsDelivery
BY InitImplements, NextImplements, Invariant, PTL
   DEF Spec, ImplementsDelivery, Delivery!Spec
=============================================================================
