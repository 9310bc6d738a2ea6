-------------------------- MODULE OutboxCountProofs --------------------------
(***************************************************************************)
(* The theorems about Outbox that count: how often a listener hears an     *)
(* event, and how many rows of a key there are.  The counts are balanced:  *)
(* every invocation is paid for by a claim, and every claim but the first  *)
(* by a crash, a failed statement or a window that ran out.                *)
(***************************************************************************)
EXTENDS OutboxProofs, FiniteSetTheorems

Bit(b) == IF b THEN 1 ELSE 0

\* The replica has the listener's invocation with the row still ahead of it.
Pending(w, id, l) ==
    \/ \E c \in work[w].batch : c.id = id
    \/ /\ work[w].cur.id = id
       /\ work[w].phase \in {"dispatch", "listener"}
       /\ work[w].pos < l

\* The replica is about to write the failure of a row it dispatched.
Failing(w, id) == work[w].phase = "catch" /\ work[w].cur.id = id

Owes(w, id, l) == Pending(w, id, l) \/ Failing(w, id)

Awaiting(id, l) == {w \in Workers : Pending(w, id, l)}
Owing(id, l) == {w \in Workers : Owes(w, id, l)}

Held(id) == \E w \in Workers : Holds(w, id)

\* The row can be claimed without another accident.
Open(id) ==
    \/ rows[id].status = "queued"
    \/ rows[id].status = "dispatching" /\ (rows[id].elapsed \/ ~Held(id))

\* Every claim is worth one invocation of each listener: made, or still ahead.
ClaimsPay(id, l) == calls[id][l] + Cardinality(Awaiting(id, l)) <= rows[id].attempts

\* There is one delivery and one more for each accident: it was made, or a replica
\* is at it, or it still can be claimed.
AccidentsPay(id, l) ==
    calls[id][l] + Cardinality(Owing(id, l)) + Bit(Open(id)) <= 1 + faults + overruns

CallsArePaid == \A id \in Ids, l \in Listeners : ClaimsPay(id, l) /\ AccidentsPay(id, l)

-----------------------------------------------------------------------------
LEMMA BitType == \A b : Bit(b) \in {0, 1}
BY DEF Bit

\* Two sets of replicas that agree on all but one differ by that one.
LEMMA OneCounted ==
    ASSUME NEW W, IsFiniteSet(W), NEW w \in W,
           NEW S \in SUBSET W, NEW T \in SUBSET W, S \ {w} = T \ {w}
    PROVE  /\ Cardinality(S) \in Nat /\ Cardinality(T) \in Nat
           /\ Cardinality(T) + Bit(w \in S) = Cardinality(S) + Bit(w \in T)
<1>1. IsFiniteSet(S) /\ IsFiniteSet(T)
  BY FS_Subset
<1>2. Cardinality(S) \in Nat /\ Cardinality(T) \in Nat
  BY <1>1, FS_CardinalityType
<1>3. /\ Cardinality(S \ {w}) = IF w \in S THEN Cardinality(S) - 1 ELSE Cardinality(S)
      /\ Cardinality(T \ {w}) = IF w \in T THEN Cardinality(T) - 1 ELSE Cardinality(T)
  BY <1>1, FS_RemoveElement
<1>. DEFINE s == Cardinality(S)  t == Cardinality(T)  r == Cardinality(S \ {w})
<1>4. /\ r = IF w \in S THEN s - 1 ELSE s
      /\ r = IF w \in T THEN t - 1 ELSE t
  BY <1>3
<1>5. s \in Nat /\ t \in Nat
  BY <1>2
<1>6. /\ Bit(w \in S) = IF w \in S THEN 1 ELSE 0
      /\ Bit(w \in T) = IF w \in T THEN 1 ELSE 0
  BY DEF Bit
<1>7. t + Bit(w \in S) = s + Bit(w \in T)
  <2>. HIDE DEF s, t, r
  <2>. QED  BY <1>4, <1>5, <1>6
<1>. QED  BY <1>2, <1>7

\* Numbers, whatever the state.
LEMMA CountTypes ==
    ASSUME TypeOK, NEW id \in Ids, NEW l \in Listeners
    PROVE  /\ calls[id][l] \in Nat /\ rows[id].attempts \in Nat
           /\ faults \in Nat /\ overruns \in Nat
           /\ Cardinality(Awaiting(id, l)) \in Nat /\ Cardinality(Owing(id, l)) \in Nat
<1>1. IsFiniteSet(Awaiting(id, l)) /\ IsFiniteSet(Owing(id, l))
  BY FiniteAssumption, FS_Subset DEF Awaiting, Owing
<1>. QED  BY <1>1, FS_CardinalityType, OutboxAssumption DEF TypeOK, Row

LEMMA CountTypesNext ==
    ASSUME TypeOK', NEW id \in Ids, NEW l \in Listeners
    PROVE  /\ calls'[id][l] \in Nat /\ rows'[id].attempts \in Nat
           /\ faults' \in Nat /\ overruns' \in Nat
           /\ Cardinality(Awaiting(id, l)') \in Nat /\ Cardinality(Owing(id, l)') \in Nat
<1>1. IsFiniteSet(Awaiting(id, l)') /\ IsFiniteSet(Owing(id, l)')
  BY FiniteAssumption, FS_Subset DEF Awaiting, Owing
<1>. QED  BY <1>1, FS_CardinalityType, OutboxAssumption DEF TypeOK, Row

LEMMA InitCounts == Init => CallsArePaid
<1>. SUFFICES ASSUME Init, NEW id \in Ids, NEW l \in Listeners
              PROVE  ClaimsPay(id, l) /\ AccidentsPay(id, l)
  BY DEF CallsArePaid
<1>1. id # 0
  BY DEF Ids
<1>2. Awaiting(id, l) = {} /\ Owing(id, l) = {}
  BY <1>1 DEF Init, Awaiting, Owing, Owes, Pending, Failing, Idle, NoClaim
<1>3. ~Open(id)
  BY DEF Init, Open
<1>4. calls[id][l] = 0 /\ rows[id].attempts = 0 /\ faults = 0 /\ overruns = 0
  BY DEF Init
<1>. QED  BY <1>2, <1>3, <1>4, FS_EmptySet DEF ClaimsPay, AccidentsPay, Bit


-----------------------------------------------------------------------------
(***************************************************************************)
(* A step of one replica keeps the balance of a row and a listener if what *)
(* it adds to one side it adds to the other.                               *)
(***************************************************************************)
Others(w) == \A v \in Workers : v # w => work'[v] = work[v]

Pays(w, id, l) ==
    /\ calls'[id][l] + Bit(Pending(w, id, l)') + rows[id].attempts
         <= calls[id][l] + Bit(Pending(w, id, l)) + rows'[id].attempts
    /\ calls'[id][l] + Bit(Owes(w, id, l)') + Bit(Open(id)') + faults + overruns
         <= calls[id][l] + Bit(Owes(w, id, l)) + Bit(Open(id)) + faults' + overruns'

LEMMA PaidStep ==
    ASSUME TypeOK, TypeOK', CallsArePaid, NEW w \in Workers, Others(w),
           \A id \in Ids, l \in Listeners : Pays(w, id, l)
    PROVE  CallsArePaid'
<1>. SUFFICES ASSUME NEW id \in Ids, NEW l \in Listeners
              PROVE  ClaimsPay(id, l)' /\ AccidentsPay(id, l)'
  BY DEF CallsArePaid
<1>1. \A v \in Workers : v # w =>
        /\ Pending(v, id, l)' <=> Pending(v, id, l)
        /\ Owes(v, id, l)' <=> Owes(v, id, l)
  BY DEF Others, Owes, Pending, Failing
<1>2. Cardinality(Awaiting(id, l)') + Bit(Pending(w, id, l))
        = Cardinality(Awaiting(id, l)) + Bit(Pending(w, id, l)')
  <2>. DEFINE S == Awaiting(id, l)  T == Awaiting(id, l)'
  <2>1. S \in SUBSET Workers /\ T \in SUBSET Workers /\ S \ {w} = T \ {w}
    BY <1>1 DEF Awaiting
  <2>2. (w \in S <=> Pending(w, id, l)) /\ (w \in T <=> Pending(w, id, l)')
    BY DEF Awaiting
  <2>3. Cardinality(T) + Bit(w \in S) = Cardinality(S) + Bit(w \in T)
    <3>. HIDE DEF S, T
    <3>. QED  BY <2>1, OneCounted, FiniteAssumption
  <2>. QED  BY <2>2, <2>3 DEF Bit
<1>3. Cardinality(Owing(id, l)') + Bit(Owes(w, id, l))
        = Cardinality(Owing(id, l)) + Bit(Owes(w, id, l)')
  <2>. DEFINE S == Owing(id, l)  T == Owing(id, l)'
  <2>1. S \in SUBSET Workers /\ T \in SUBSET Workers /\ S \ {w} = T \ {w}
    BY <1>1 DEF Owing
  <2>2. (w \in S <=> Owes(w, id, l)) /\ (w \in T <=> Owes(w, id, l)')
    BY DEF Owing
  <2>3. Cardinality(T) + Bit(w \in S) = Cardinality(S) + Bit(w \in T)
    <3>. HIDE DEF S, T
    <3>. QED  BY <2>1, OneCounted, FiniteAssumption
  <2>. QED  BY <2>2, <2>3 DEF Bit
<1>4. ClaimsPay(id, l) /\ AccidentsPay(id, l) /\ Pays(w, id, l)
  BY DEF CallsArePaid
<1>5. /\ Bit(Pending(w, id, l)) \in {0, 1} /\ Bit(Pending(w, id, l)') \in {0, 1}
      /\ Bit(Owes(w, id, l)) \in {0, 1} /\ Bit(Owes(w, id, l)') \in {0, 1}
      /\ Bit(Open(id)) \in {0, 1} /\ Bit(Open(id)') \in {0, 1}
  BY BitType
<1>6. ClaimsPay(id, l)'
  <2>1. /\ calls[id][l] + Cardinality(Awaiting(id, l)) <= rows[id].attempts
        /\ calls'[id][l] + Bit(Pending(w, id, l)') + rows[id].attempts
             <= calls[id][l] + Bit(Pending(w, id, l)) + rows'[id].attempts
    BY <1>4 DEF ClaimsPay, Pays
  <2>2. calls'[id][l] + Cardinality(Awaiting(id, l)') <= rows'[id].attempts
    BY <1>2, <1>5, <2>1, CountTypes, CountTypesNext
  <2>. QED  BY <2>2 DEF ClaimsPay
<1>7. AccidentsPay(id, l)'
  <2>1. /\ calls[id][l] + Cardinality(Owing(id, l)) + Bit(Open(id)) <= 1 + faults + overruns
        /\ calls'[id][l] + Bit(Owes(w, id, l)') + Bit(Open(id)') + faults + overruns
             <= calls[id][l] + Bit(Owes(w, id, l)) + Bit(Open(id)) + faults' + overruns'
    BY <1>4 DEF AccidentsPay, Pays
  <2>2. calls'[id][l] + Cardinality(Owing(id, l)') + Bit(Open(id)') <= 1 + faults' + overruns'
    BY <1>3, <1>5, <2>1, CountTypes, CountTypesNext
  <2>. QED  BY <2>2 DEF AccidentsPay
<1>. QED  BY <1>6, <1>7

\* A step that neither invokes, claims nor fails, and opens no row, is free.
LEMMA FreeStep ==
    ASSUME TypeOK, TypeOK', NEW w \in Workers, NEW id \in Ids, NEW l \in Listeners,
           calls'[id][l] = calls[id][l], rows'[id].attempts = rows[id].attempts,
           Pending(w, id, l)' => Pending(w, id, l),
           Owes(w, id, l)' => Owes(w, id, l), Open(id)' => Open(id),
           faults' = faults, overruns' = overruns
    PROVE  Pays(w, id, l)
<1>1. /\ Bit(Pending(w, id, l)') <= Bit(Pending(w, id, l))
      /\ Bit(Owes(w, id, l)') <= Bit(Owes(w, id, l))
      /\ Bit(Open(id)') <= Bit(Open(id))
  BY DEF Bit
<1>2. /\ Bit(Pending(w, id, l)) \in {0, 1} /\ Bit(Pending(w, id, l)') \in {0, 1}
      /\ Bit(Owes(w, id, l)) \in {0, 1} /\ Bit(Owes(w, id, l)') \in {0, 1}
      /\ Bit(Open(id)) \in {0, 1} /\ Bit(Open(id)') \in {0, 1}
  BY BitType
<1>. QED  BY <1>1, <1>2, CountTypes DEF Pays


\* The row in hand is not also ahead in the batch.
LEMMA HandFacts ==
    ASSUME IInv, NEW w \in Workers
    PROVE  /\ work[w] \in DrainState
           /\ work[w].phase \in {"idle", "claim", "loop"} => work[w].cur.id = 0
           /\ work[w].phase \in {"idle", "claim"} => work[w].batch = {}
           /\ work[w].phase \in {"dispatch", "listener", "catch"} =>
                /\ work[w].cur.id \in Ids
                /\ \A c \in work[w].batch : c.id # work[w].cur.id
<1>1. work[w] \in DrainState /\ InHandOf(w)
  BY DEF IInv, TypeOK, InHand
<1>2. \A c \in work[w].batch : c \in Claims /\ c # NoClaim
  BY <1>1 DEF DrainState, Claims, NoClaim, Ids
<1>3. work[w].phase \in {"idle", "claim"} => work[w].batch = {} /\ work[w].cur = NoClaim
  BY <1>1, <1>2 DEF InHandOf, Hand
<1>4. \A c \in work[w].batch : c.id # work[w].cur.id
  BY <1>1 DEF InHandOf, Hand
<1>. QED  BY <1>1, <1>3, <1>4 DEF InHandOf, NoClaim, Claims

\* A step of a replica that keeps what it has ahead opens no row it leaves alone.
LEMMA SameOpen ==
    ASSUME NEW w \in Workers, NEW id \in Ids, Others(w), Holds(w, id) => Holds(w, id)',
           \/ rows'[id] = rows[id]
           \/ rows[id].status = "dispatching" /\ rows[id].elapsed
           \/ rows'[id].status \notin {"queued", "dispatching"}
    PROVE  Open(id)' => Open(id)
<1>1. \A v \in Workers : v # w => (Holds(v, id)' <=> Holds(v, id))
  BY DEF Others, Holds
<1>2. Held(id) => Held(id)'
  BY <1>1 DEF Held
<1>. QED  BY <1>2 DEF Open

LEMMA ReclaimPays ==
    ASSUME IInv, TypeOK', NEW w \in Workers, Reclaim(w)
    PROVE  Others(w) /\ \A id \in Ids, l \in Listeners : Pays(w, id, l)
<1>1. \A id \in Ids :
          \/ rows'[id] = rows[id]
          \/ /\ rows[id].status = "dispatching" /\ rows[id].elapsed
             /\ rows'[id].attempts = rows[id].attempts
  <2>1. Limit({id \in Ids : Stale(id)}, Batch) \subseteq {id \in Ids : Stale(id)}
    BY LimitSubset
  <2>. QED  BY <2>1 DEF Reclaim, Stale, IInv, TypeOK, Row
<1>2. /\ work'[w] = [work[w] EXCEPT !.phase = "claim"]
      /\ Others(w) /\ work[w] \in DrainState /\ work[w].phase = "idle"
      /\ UNCHANGED <<calls, faults, overruns>>
  BY DEF Reclaim, IInv, TypeOK, Others
<1>3. /\ work'[w].phase = "claim" /\ work'[w].batch = work[w].batch
      /\ work'[w].cur = work[w].cur
  BY <1>2 DEF DrainState
<1>. SUFFICES ASSUME NEW id \in Ids, NEW l \in Listeners PROVE Pays(w, id, l)
  BY <1>2
<1>4. /\ Pending(w, id, l)' => Pending(w, id, l)
      /\ Owes(w, id, l)' => Owes(w, id, l)
      /\ Holds(w, id)' <=> Holds(w, id)
  BY <1>2, <1>3 DEF Pending, Owes, Failing, Holds
<1>5. Open(id)' => Open(id)
  BY <1>1, <1>2, <1>4, SameOpen
<1>. QED  BY <1>1, <1>2, <1>4, <1>5, FreeStep DEF IInv

\* Taking the next row, or the end of the batch, moves no invocation.
LEMMA TurnPays ==
    ASSUME IInv, TypeOK', NEW w \in Workers, Take(w) \/ EndTick(w) \/ Return(w)
    PROVE  Others(w) /\ \A id \in Ids, l \in Listeners : Pays(w, id, l)
<1>1. Others(w) /\ UNCHANGED <<rows, calls, faults, overruns>>
  BY DEF Take, EndTick, Return, IInv, TypeOK, Others
<1>2. \A id \in Ids : id # 0
  BY DEF Ids
<1>. SUFFICES ASSUME NEW id \in Ids, NEW l \in Listeners PROVE Pays(w, id, l)
  BY <1>1
<1>3. /\ Pending(w, id, l)' => Pending(w, id, l)
      /\ Owes(w, id, l)' => Owes(w, id, l)
      /\ Holds(w, id) => Holds(w, id)'
  <2>1. CASE Take(w)
    <3>1. PICK c \in work[w].batch :
            work' = [work EXCEPT ![w] = [phase |-> "dispatch", cur |-> c, pos |-> 0,
                                         batch |-> work[w].batch \ {c}]]
      BY <2>1 DEF Take
    <3>2. /\ work'[w] = [phase |-> "dispatch", cur |-> c, pos |-> 0,
                         batch |-> work[w].batch \ {c}]
          /\ work[w].cur.id = 0
      BY <2>1, <3>1, HandFacts DEF Take, IInv, TypeOK
    <3>. QED  BY <1>2, <3>2 DEF Pending, Owes, Failing, Holds
  <2>2. CASE EndTick(w)
    <3>1. work'[w] = Idle /\ work[w].batch = {} /\ work[w].cur.id = 0
      BY <2>2, HandFacts DEF EndTick, IInv, TypeOK
    <3>. QED  BY <1>2, <3>1 DEF Pending, Owes, Failing, Holds, Idle, NoClaim
  <2>3. CASE Return(w)
    <3>1. work'[w] = [work[w] EXCEPT !.phase = "dispatch"] /\ work[w].phase = "listener"
      BY <2>3 DEF Return, IInv, TypeOK
    <3>2. /\ work'[w].phase = "dispatch" /\ work'[w].pos = work[w].pos
          /\ work'[w].cur = work[w].cur /\ work'[w].batch = work[w].batch
      BY <3>1, HandFacts DEF DrainState
    <3>. QED  BY <3>1, <3>2 DEF Pending, Owes, Failing, Holds
  <2>. QED  BY <2>1, <2>2, <2>3
<1>4. Open(id)' => Open(id)
  BY <1>1, <1>3, SameOpen
<1>. QED  BY <1>1, <1>3, <1>4, FreeStep DEF IInv


\* A claim adds an attempt and an invocation ahead, and closes the row it opens.
LEMMA ClaimPays ==
    ASSUME IInv, TypeOK', NEW w \in Workers, Claim(w)
    PROVE  Others(w) /\ \A id \in Ids, l \in Listeners : Pays(w, id, l)
<1>. DEFINE claimed == Limit({id \in Ids : Due(id)}, Batch)
            batch == {[id |-> id, attempts |-> Claimed(rows[id]).attempts] : id \in claimed}
<1>1. claimed \subseteq {id \in Ids : Due(id)}
  BY LimitSubset
<1>2. \A id \in claimed :
          /\ rows[id].status = "queued"
          /\ rows'[id].status = "dispatching" /\ ~rows'[id].elapsed
          /\ rows'[id].attempts = rows[id].attempts + 1
  BY <1>1, Z3 DEF Claim, Due, Claimed, IInv, TypeOK, Row
<1>3. \A id \in Ids \ claimed : rows'[id] = rows[id]
  BY DEF Claim
<1>4. UNCHANGED <<calls, faults, overruns>>
  BY DEF Claim
<1>5. /\ work' = [work EXCEPT ![w] = [work[w] EXCEPT !.phase = "loop", !.batch = batch]]
      /\ work[w].phase = "claim"
  BY Zenon DEF Claim
<1>6. \A id \in Ids : (\E c \in batch : c.id = id) <=> id \in claimed
  <2>1. \A c \in batch : c.id \in claimed
    OBVIOUS
  <2>2. ASSUME NEW id \in claimed PROVE \E c \in batch : c.id = id
    <3>. DEFINE c == [id |-> id, attempts |-> Claimed(rows[id]).attempts]
    <3>1. c \in batch /\ c.id = id
      BY <2>2
    <3>. QED  BY <3>1
  <2>. HIDE DEF batch, claimed
  <2>. QED  BY <2>1, <2>2
<1>. HIDE DEF batch, claimed
<1>7. /\ Others(w) /\ work[w].batch = {} /\ work[w].cur.id = 0
      /\ work'[w].phase = "loop" /\ work'[w].batch = batch /\ work'[w].cur = work[w].cur
  BY <1>5, HandFacts DEF IInv, TypeOK, Others, DrainState
<1>8. \A id \in Ids : id # 0
  BY DEF Ids
<1>. SUFFICES ASSUME NEW id \in Ids, NEW l \in Listeners PROVE Pays(w, id, l)
  BY <1>7
<1>9. ~Pending(w, id, l) /\ ~Owes(w, id, l) /\ ~Holds(w, id)
  BY <1>5, <1>7, <1>8 DEF Pending, Owes, Failing, Holds
<1>10. CASE id \in claimed
  <2>1. Pending(w, id, l)' /\ Owes(w, id, l)'
    BY <1>6, <1>7, <1>10 DEF Pending, Owes
  <2>2. Open(id)
    BY <1>2, <1>10 DEF Open
  <2>3. ~Open(id)'
    <3>1. Holds(w, id)'
      BY <1>6, <1>7, <1>10 DEF Holds
    <3>. QED  BY <1>2, <1>10, <3>1 DEF Open, Held
  <2>. QED  BY <1>2, <1>4, <1>9, <1>10, <2>1, <2>2, <2>3, CountTypes DEF Pays, Bit, IInv
<1>11. CASE id \notin claimed
  <2>1. ~Pending(w, id, l)' /\ ~Owes(w, id, l)'
    BY <1>6, <1>7, <1>8, <1>11 DEF Pending, Owes, Failing
  <2>2. Open(id)' => Open(id)
    BY <1>3, <1>7, <1>9, <1>11, SameOpen
  <2>. QED  BY <1>3, <1>4, <1>11, <2>1, <2>2, FreeStep DEF IInv
<1>. QED  BY <1>10, <1>11

\* An invocation that was ahead is made.
LEMMA InvokePays ==
    ASSUME IInv, TypeOK', NEW w \in Workers, Invoke(w)
    PROVE  Others(w) /\ \A id \in Ids, l \in Listeners : Pays(w, id, l)
<1>. DEFINE i == work[w].cur.id  k == work[w].pos + 1
<1>1. /\ work' = [work EXCEPT ![w] = [work[w] EXCEPT !.phase = "listener", !.pos = k]]
      /\ calls' = [calls EXCEPT ![i] = [calls[i] EXCEPT ![k] = calls[i][k] + 1]]
      /\ work[w].phase = "dispatch" /\ UNCHANGED <<rows, faults, overruns>>
  BY Zenon DEF Invoke
<1>2. /\ work[w] \in DrainState /\ i \in Ids /\ \A c \in work[w].batch : c.id # i
  BY <1>1, HandFacts
<1>3. k \in Listeners /\ work[w].pos \in Nat
  BY <1>2, OutboxAssumption DEF Invoke, MoreListeners, DrainState, Listeners
<1>. HIDE DEF i, k
<1>4. /\ Others(w) /\ work'[w].phase = "listener" /\ work'[w].pos = k
      /\ work'[w].cur = work[w].cur /\ work'[w].batch = work[w].batch
  BY <1>1, <1>2 DEF IInv, TypeOK, Others, DrainState
<1>5. \A id \in Ids, l \in Listeners :
        calls'[id][l] = IF id = i /\ l = k THEN calls[id][l] + 1 ELSE calls[id][l]
  BY <1>1, <1>2, <1>3 DEF IInv, TypeOK
<1>. SUFFICES ASSUME NEW id \in Ids, NEW l \in Listeners PROVE Pays(w, id, l)
  BY <1>4
<1>6. l \in Nat
  BY OutboxAssumption DEF Listeners
<1>7. Open(id)' => Open(id)
  BY <1>1, <1>4, SameOpen DEF Holds
<1>8. ~Failing(w, id) /\ ~Failing(w, id)'
  BY <1>1, <1>4 DEF Failing
<1>9. CASE id = i /\ l = k
  <2>1. Pending(w, id, l)
    BY <1>1, <1>3, <1>9 DEF Pending, i, k
  <2>2. ~Pending(w, id, l)'
    BY <1>2, <1>4, <1>6, <1>9 DEF Pending
  <2>3. calls'[id][l] = calls[id][l] + 1
    BY <1>5, <1>9
  <2>. QED  BY <1>1, <1>7, <1>8, <2>1, <2>2, <2>3, CountTypes DEF Pays, Bit, Owes, IInv
<1>10. CASE ~(id = i /\ l = k)
  <2>1. Pending(w, id, l)' => Pending(w, id, l)
    BY <1>1, <1>3, <1>4, <1>6, <1>10 DEF Pending, i, k
  <2>. QED  BY <1>1, <1>5, <1>7, <1>8, <1>10, <2>1, FreeStep DEF Owes, IInv
<1>. QED  BY <1>9, <1>10


\* The flip closes the row, if it is still dispatching; the failure write may open it
\* again, for the delivery that failed.
LEMMA SettlePays ==
    ASSUME IInv, TypeOK', NEW w \in Workers, Flip(w) \/ RecordFailure(w)
    PROVE  Others(w) /\ \A id \in Ids, l \in Listeners : Pays(w, id, l)
<1>. DEFINE i == work[w].cur.id
<1>1. /\ work' = [work EXCEPT ![w] = [work[w] EXCEPT !.phase = "loop", !.cur = NoClaim,
                                                     !.pos = 0]]
      /\ UNCHANGED <<calls, faults, overruns>>
      /\ \/ /\ work[w].phase = "dispatch" /\ work[w].pos = NumListeners
            /\ GuardedWrite(i, "dispatched")
         \/ /\ work[w].phase = "catch"
            /\ \E status \in {"failed", "queued"} : GuardedWrite(i, status)
  BY Zenon DEF Flip, AllInvoked, RecordFailure
<1>2. work[w] \in DrainState /\ i \in Ids /\ \A c \in work[w].batch : c.id # i
  BY <1>1, HandFacts
<1>. HIDE DEF i
<1>3. /\ Others(w) /\ work'[w].phase = "loop" /\ work'[w].cur.id = 0
      /\ work'[w].batch = work[w].batch
  BY <1>1, <1>2 DEF IInv, TypeOK, Others, DrainState, NoClaim
<1>4. /\ \A id \in Ids : id # i => rows'[id] = rows[id]
      /\ rows'[i].attempts = rows[i].attempts
      /\ \/ rows'[i] = rows[i]
         \/ work[w].phase = "catch"
         \/ rows'[i].status = "dispatched"
  BY <1>1, <1>2, GuardedWriteEffect DEF IInv
<1>5. \A id \in Ids : id # 0
  BY DEF Ids
<1>. SUFFICES ASSUME NEW id \in Ids, NEW l \in Listeners PROVE Pays(w, id, l)
  BY <1>3
<1>6. l \in Nat /\ l <= NumListeners
  BY OutboxAssumption DEF Listeners
<1>7. /\ Pending(w, id, l)' => Pending(w, id, l)
      /\ Owes(w, id, l)' => Owes(w, id, l)
  BY <1>3, <1>5 DEF Pending, Owes, Failing
<1>8. rows'[id].attempts = rows[id].attempts
  BY <1>4
<1>9. CASE id # i
  <2>1. Holds(w, id) => Holds(w, id)'
    BY <1>3, <1>9 DEF Holds, i
  <2>2. Open(id)' => Open(id)
    BY <1>3, <1>4, <1>9, <2>1, SameOpen
  <2>. QED  BY <1>1, <1>7, <1>8, <2>2, FreeStep DEF IInv
<1>10. CASE id = i /\ work[w].phase = "catch"
  <2>1. Owes(w, id, l) /\ ~Pending(w, id, l)
    BY <1>2, <1>10 DEF Owes, Failing, Pending, i
  <2>2. ~Owes(w, id, l)' /\ ~Pending(w, id, l)'
    BY <1>2, <1>3, <1>5, <1>10 DEF Owes, Failing, Pending
  <2>3. Bit(Open(id)') <= Bit(Open(id)) + 1
    BY DEF Bit
  <2>4. Bit(Open(id)') \in {0, 1} /\ Bit(Open(id)) \in {0, 1}
    BY BitType
  <2>5. /\ Bit(Owes(w, id, l)) = 1 /\ Bit(Owes(w, id, l)') = 0
        /\ Bit(Pending(w, id, l)) = 0 /\ Bit(Pending(w, id, l)') = 0
    BY <2>1, <2>2 DEF Bit
  <2>. QED  BY <1>1, <1>8, <2>3, <2>4, <2>5, CountTypes DEF Pays, IInv
<1>11. CASE id = i /\ work[w].phase # "catch"
  <2>1. GuardedWrite(i, "dispatched")
    BY <1>1, <1>11
  <2>2. \/ rows'[id] = rows[id] /\ rows[id].status # "dispatching"
        \/ rows'[id].status = "dispatched"
    BY <1>2, <1>11, <2>1, GuardedWriteEffect DEF IInv
  <2>3. Open(id)' => Open(id)
    BY <2>2 DEF Open
  <2>. QED  BY <1>1, <1>7, <1>8, <2>3, FreeStep DEF IInv
<1>. QED  BY <1>9, <1>10, <1>11

\* An accident pays for the delivery that follows from it.
LEMMA AccidentPays ==
    ASSUME IInv, TypeOK', NEW w \in Workers, FlipThrows(w) \/ Crash(w)
    PROVE  Others(w) /\ \A id \in Ids, l \in Listeners : Pays(w, id, l)
<1>1. Others(w) /\ UNCHANGED <<calls, overruns>> /\ faults' = faults + 1
  BY DEF FlipThrows, Crash, IInv, TypeOK, Others
<1>2. \A id \in Ids : id # 0
  BY DEF Ids
<1>. SUFFICES ASSUME NEW id \in Ids, NEW l \in Listeners PROVE Pays(w, id, l)
  BY <1>1
<1>3. /\ Bit(Open(id)') \in {0, 1} /\ Bit(Open(id)) \in {0, 1}
      /\ Bit(Owes(w, id, l)) \in {0, 1} /\ Bit(Owes(w, id, l)') \in {0, 1}
      /\ Bit(Pending(w, id, l)) \in {0, 1} /\ Bit(Pending(w, id, l)') \in {0, 1}
  BY BitType
<1>4. CASE Crash(w)
  <2>1. work'[w] = Idle /\ rows' = rows
    BY <1>4 DEF Crash, IInv, TypeOK
  <2>2. ~Pending(w, id, l)' /\ ~Owes(w, id, l)'
    BY <1>2, <2>1 DEF Pending, Owes, Failing, Idle, NoClaim
  <2>3. Bit(Pending(w, id, l)') = 0 /\ Bit(Owes(w, id, l)') = 0
    BY <2>2 DEF Bit
  <2>. QED  BY <1>1, <1>3, <2>1, <2>3, CountTypes DEF Pays, IInv
<1>5. CASE FlipThrows(w)
  <2>. DEFINE i == work[w].cur.id
  <2>1. /\ work' = [work EXCEPT ![w] = [work[w] EXCEPT !.phase = "catch"]]
        /\ work[w].phase = "dispatch" /\ work[w].pos = NumListeners
        /\ GuardedWrite(i, "dispatched") \/ rows' = rows
    BY <1>5, Zenon DEF FlipThrows, AllInvoked
  <2>2. work[w] \in DrainState /\ i \in Ids
    BY <2>1, HandFacts
  <2>. HIDE DEF i
  <2>3. /\ work'[w].phase = "catch" /\ work'[w].cur = work[w].cur
        /\ work'[w].batch = work[w].batch /\ work'[w].pos = work[w].pos
    BY <2>1, <2>2 DEF IInv, TypeOK, DrainState
  <2>4. /\ rows'[id].attempts = rows[id].attempts
        /\ rows'[id] = rows[id] \/ rows'[id].status = "dispatched"
    BY <2>1, <2>2, GuardedWriteEffect DEF IInv
  <2>5. Open(id)' => Open(id)
    BY <1>1, <2>3, <2>4, SameOpen DEF Holds
  <2>6. Pending(w, id, l)' => Pending(w, id, l)
    BY <2>3 DEF Pending
  <2>7. Bit(Open(id)') <= Bit(Open(id)) /\ Bit(Pending(w, id, l)') <= Bit(Pending(w, id, l))
    BY <2>5, <2>6 DEF Bit
  <2>. QED  BY <1>1, <1>3, <2>4, <2>7, CountTypes DEF Pays, IInv
<1>. QED  BY <1>4, <1>5

-----------------------------------------------------------------------------
\* A step that changes neither replicas nor calls keeps the balance of every row that
\* it does not open, or opens by an overrun.
LEMMA NobodysStep ==
    ASSUME TypeOK, TypeOK', CallsArePaid, NEW id \in Ids, NEW l \in Listeners,
           work' = work, calls'[id][l] = calls[id][l], faults' = faults,
           rows'[id].attempts = rows[id].attempts, overruns' >= overruns,
           Open(id)' => Open(id) \/ overruns' > overruns
    PROVE  ClaimsPay(id, l)' /\ AccidentsPay(id, l)'
<1>1. Awaiting(id, l)' = Awaiting(id, l) /\ Owing(id, l)' = Owing(id, l)
  BY DEF Awaiting, Owing, Owes, Pending, Failing
<1>2. ClaimsPay(id, l) /\ AccidentsPay(id, l)
  BY DEF CallsArePaid
<1>3. Bit(Open(id)') \in {0, 1} /\ Bit(Open(id)) \in {0, 1}
  BY BitType
<1>4. Bit(Open(id)') + overruns <= Bit(Open(id)) + overruns'
  BY CountTypes, CountTypesNext DEF Bit
<1>5. ClaimsPay(id, l)'
  BY <1>1, <1>2 DEF ClaimsPay
<1>6. AccidentsPay(id, l)'
  <2>1. calls[id][l] + Cardinality(Owing(id, l)) + Bit(Open(id)) <= 1 + faults + overruns
    BY <1>2 DEF AccidentsPay
  <2>2. calls'[id][l] + Cardinality(Owing(id, l)') + Bit(Open(id)') <= 1 + faults' + overruns'
    BY <1>1, <1>3, <1>4, <2>1, CountTypes, CountTypesNext
  <2>. QED  BY <2>2 DEF AccidentsPay
<1>. QED  BY <1>5, <1>6

\* The new row was not heard and is in nobody's hand: its first delivery is free.
LEMMA InsertCounts ==
    ASSUME IInv, TypeOK', CallsArePaid, NEW p \in Producers, Insert(p)
    PROVE  CallsArePaid'
<1>. SUFFICES ASSUME NEW id \in Ids, NEW l \in Listeners
              PROVE  ClaimsPay(id, l)' /\ AccidentsPay(id, l)'
  BY DEF CallsArePaid
<1>1. UNCHANGED <<work, calls, faults, overruns>>
  BY DEF Insert
<1>2. /\ rows' = [rows EXCEPT ![nextId] =
                    [status |-> "queued", attempts |-> 0, elapsed |-> TRUE]]
      /\ TypeOK
  BY DEF Insert, IInv
<1>3. CASE id # nextId
  <2>1. rows'[id] = rows[id]
    BY <1>2, <1>3 DEF TypeOK
  <2>2. Open(id)' => Open(id)
    BY <1>1, <2>1 DEF Open, Held, Holds
  <2>. QED  BY <1>1, <1>2, <2>1, <2>2, NobodysStep, CountTypes
<1>4. CASE id = nextId
  <2>1. rows'[id].attempts = 0
    BY <1>2, <1>4 DEF TypeOK
  <2>2. rows[id].status = "none" /\ rows[id].attempts = 0
    BY <1>4 DEF IInv, Fresh, TypeOK
  <2>3. \A w \in Workers : ~Holds(w, id)
    <3>1. ASSUME NEW w \in Workers, Holds(w, id) PROVE FALSE
      <4>1. PICK c \in Hand(w) : c.id = id
        BY <3>1 DEF Holds, Hand
      <4>2. c # NoClaim
        BY <4>1 DEF NoClaim, Ids
      <4>. QED  BY <2>2, <4>1, <4>2 DEF IInv, HandIsPast
    <3>. QED  BY <3>1
  <2>4. Owing(id, l)' = {} /\ Awaiting(id, l)' = {}
    BY <1>1, <2>3 DEF Owing, Awaiting, Owes, Pending, Failing, Holds
  <2>5. calls[id][l] = 0
    BY <2>2, CountTypes DEF CallsArePaid, ClaimsPay, IInv
  <2>6. ClaimsPay(id, l)'
    BY <1>1, <2>1, <2>4, <2>5, FS_EmptySet DEF ClaimsPay
  <2>7. AccidentsPay(id, l)'
    <3>1. Cardinality(Owing(id, l)') = 0 /\ calls'[id][l] = 0
      BY <1>1, <2>4, <2>5, FS_EmptySet
    <3>. QED  BY <3>1, BitType, CountTypesNext DEF AccidentsPay
  <2>. QED  BY <2>6, <2>7
<1>. QED  BY <1>3, <1>4


\* Lookups, rollbacks and retention open no row; time opens one that is in hand only
\* as an overrun.
LEMMA IdleCounts ==
    ASSUME IInv, TypeOK', CallsArePaid,
           \/ \E p \in Producers : Lookup(p) \/ Rollback(p)
           \/ Prune \/ UNCHANGED vars \/ \E i \in Ids : Elapse(i)
    PROVE  CallsArePaid'
<1>. SUFFICES ASSUME NEW id \in Ids, NEW l \in Listeners
              PROVE  ClaimsPay(id, l)' /\ AccidentsPay(id, l)'
  BY DEF CallsArePaid
<1>0. TypeOK /\ rows \in [Ids -> Row]
  BY DEF IInv, TypeOK
<1>1. work' = work /\ calls' = calls /\ faults' = faults
  BY DEF Lookup, Rollback, Prune, Elapse, vars
<1>2. Held(id)' <=> Held(id)
  BY <1>1 DEF Held, Holds
<1>3. ASSUME rows'[id] = rows[id] \/ rows'[id].status \notin {"queued", "dispatching"},
             rows'[id].attempts = rows[id].attempts, overruns' = overruns
      PROVE  ClaimsPay(id, l)' /\ AccidentsPay(id, l)'
  <2>1. Open(id)' => Open(id)
    BY <1>2, <1>3 DEF Open
  <2>. QED  BY <1>0, <1>1, <1>3, <2>1, NobodysStep, CountTypes
<1>4. CASE (\E p \in Producers : Lookup(p) \/ Rollback(p)) \/ UNCHANGED vars
  BY <1>3, <1>4 DEF Lookup, Rollback, vars
<1>5. CASE Prune
  <2>1. /\ rows'[id] = rows[id] \/ rows'[id].status = "pruned"
        /\ rows'[id].attempts = rows[id].attempts /\ overruns' = overruns
    BY <1>0, <1>5 DEF Prune, Row
  <2>. QED  BY <1>3, <2>1
<1>6. ASSUME NEW i \in Ids, Elapse(i) PROVE ClaimsPay(id, l)' /\ AccidentsPay(id, l)'
  <2>1. overruns' >= overruns
    BY <1>0, <1>6, CountTypes DEF Elapse
  <2>2. rows'[id].attempts = rows[id].attempts
    BY <1>0, <1>6 DEF Elapse, Row
  <2>3. Open(id)' => Open(id) \/ overruns' > overruns
    <3>1. /\ rows'[id].status = rows[id].status
          /\ id # i => rows'[id] = rows[id]
      BY <1>0, <1>6 DEF Elapse, Row
    <3>2. rows[i].status = "dispatching" /\ Held(i) => overruns' > overruns
      BY <1>6, CountTypes, <1>0 DEF Elapse, Held
    <3>. QED  BY <1>2, <3>1, <3>2 DEF Open
  <2>. QED  BY <1>0, <1>1, <2>1, <2>2, <2>3, NobodysStep
<1>. QED  BY <1>4, <1>5, <1>6

LEMMA NextCounts == IInv /\ CallsArePaid /\ [Next]_vars => CallsArePaid'
<1>. SUFFICES ASSUME IInv, CallsArePaid, [Next]_vars PROVE CallsArePaid'
  OBVIOUS
<1>1. TypeOK /\ TypeOK'
  BY NextType DEF IInv
<1>2. ASSUME NEW w \in Workers, Drain(w) \/ FlipThrows(w) \/ Crash(w) PROVE CallsArePaid'
  <2>1. Others(w) /\ \A id \in Ids, l \in Listeners : Pays(w, id, l)
    BY <1>1, <1>2, ReclaimPays, ClaimPays, TurnPays, InvokePays, SettlePays, AccidentPays
       DEF Drain
  <2>. QED  BY <1>1, <2>1, PaidStep
<1>3. ASSUME NEW p \in Producers, Insert(p) PROVE CallsArePaid'
  BY <1>1, <1>3, InsertCounts
<1>4. CASE \/ \E p \in Producers : Lookup(p) \/ Rollback(p)
           \/ Prune \/ UNCHANGED vars \/ \E i \in Ids : Elapse(i)
  BY <1>1, <1>4, IdleCounts
<1>. QED  BY <1>2, <1>3, <1>4 DEF Next, Append

LEMMA CountsHold == Spec => []CallsArePaid
BY InitCounts, NextCounts, Invariant, PTL DEF Spec

\* A listener hears an event as often as it was claimed at most, and beyond the first
\* time only for a crash, a failed statement or a window that ran out, one for one,
\* with any number of replicas and listeners.
THEOREM RedeliveryHasCauseAlways == Spec => []RedeliveryHasCause
<1>1. IInv /\ CallsArePaid => RedeliveryHasCause
  <2>. SUFFICES ASSUME IInv, CallsArePaid, NEW id \in Ids, NEW l \in Listeners
                PROVE  /\ calls[id][l] <= 1 + faults + overruns
                       /\ calls[id][l] <= rows[id].attempts
    BY DEF RedeliveryHasCause
  <2>1. TypeOK
    BY DEF IInv
  <2>2. /\ calls[id][l] + Cardinality(Awaiting(id, l)) <= rows[id].attempts
        /\ calls[id][l] + Cardinality(Owing(id, l)) + Bit(Open(id)) <= 1 + faults + overruns
    BY DEF CallsArePaid, ClaimsPay, AccidentsPay
  <2>. QED  BY <2>1, <2>2, BitType, CountTypes
<1>. QED  BY <1>1, CountsHold, Invariant, PTL


-----------------------------------------------------------------------------
(***************************************************************************)
(* Calls of append.                                                        *)
(***************************************************************************)
Copies(req) == {id \in Existing : event[id] = req}
Inserting(req) ==
    {p \in Producers : appends[p].step = "insert" /\ appends[p].req = req}

\* A call that is done answered with the id of a row: its own, or the copy it found.
AnswersAreRows ==
    \A p \in Producers : appends[p].step = "done" => appends[p].answer \in Ids

\* DuplicatesOnlyByOverlap, with names for what it counts.
Overlapping(req) ==
    Cardinality(Copies(req)) + Cardinality(Inserting(req)) <= Cardinality(Producers)
ByOverlap == \A req \in Requests : req.key # NoKey => Overlapping(req)

AppendInv == AnswersAreRows /\ AnswerIsOwnEvent /\ ByOverlap

LEMMA CopiesFinite ==
    \A req : /\ IsFiniteSet(Copies(req)) /\ Cardinality(Copies(req)) \in Nat
            /\ IsFiniteSet(Copies(req)') /\ Cardinality(Copies(req)') \in Nat
<1>1. IsFiniteSet(Ids)
  BY FS_Interval, OutboxAssumption DEF Ids
<1>2. \A req : Copies(req) \in SUBSET Ids /\ Copies(req)' \in SUBSET Ids
  BY DEF Copies, Existing
<1>. QED  BY <1>1, <1>2, FS_Subset, FS_CardinalityType

LEMMA InsertingFinite ==
    /\ Cardinality(Producers) \in Nat
    /\ \A req : /\ IsFiniteSet(Inserting(req)) /\ Cardinality(Inserting(req)) \in Nat
                /\ IsFiniteSet(Inserting(req)') /\ Cardinality(Inserting(req)') \in Nat
                /\ Cardinality(Inserting(req)') <= Cardinality(Producers)
<1>1. \A req : Inserting(req) \in SUBSET Producers /\ Inserting(req)' \in SUBSET Producers
  BY DEF Inserting
<1>. QED  BY <1>1, FS_Subset, FS_CardinalityType, FiniteAssumption

LEMMA InitAppend == Init => AppendInv
<1>. SUFFICES ASSUME Init PROVE AppendInv
  OBVIOUS
<1>1. \A p \in Producers : appends[p].step = "idle"
  BY DEF Init
<1>2. \A req : Copies(req) = {} /\ Inserting(req) = {}
  BY <1>1 DEF Init, Copies, Inserting, Existing
<1>3. ByOverlap
  <2>1. \A req : Cardinality(Copies(req)) = 0 /\ Cardinality(Inserting(req)) = 0
    BY <1>2, FS_EmptySet
  <2>2. Cardinality(Producers) >= 0
    BY InsertingFinite
  <2>. QED  BY <2>1, <2>2 DEF ByOverlap, Overlapping
<1>. QED  BY <1>1, <1>3 DEF AppendInv, AnswersAreRows, AnswerIsOwnEvent

\* A step that inserts nothing creates no row and renames none.
LEMMA TableSteps ==
    ASSUME IInv, [Next]_vars, \A p \in Producers : ~Insert(p)
    PROVE  /\ event' = event /\ Existing' \subseteq Existing
           /\ \A id \in Ids : rows[id].status # "none" => rows'[id].status # "none"
<1>0. rows \in [Ids -> Row] /\ TypeOK
  BY DEF IInv, TypeOK
<1>1. event' = event
  BY DEF Next, Append, Lookup, Rollback, Drain, Reclaim, Claim, Take, EndTick, Invoke, Return,
         Flip, RecordFailure, FlipThrows, Crash, Prune, Elapse, vars
<1>2. \A id \in Ids :
        \/ rows'[id].status = rows[id].status
        \/ /\ rows[id].status \in {"queued", "dispatching", "dispatched"}
           /\ rows'[id].status # "none"
  <2>. SUFFICES ASSUME NEW id \in Ids
                PROVE  \/ rows'[id].status = rows[id].status
                       \/ /\ rows[id].status \in {"queued", "dispatching", "dispatched"}
                          /\ rows'[id].status # "none"
    OBVIOUS
  <2>1. ASSUME rows' = rows PROVE rows'[id].status = rows[id].status
    BY <2>1
  <2>2. CASE (\E p \in Producers : Append(p)) \/ UNCHANGED vars
    BY <2>1, <2>2 DEF Append, Lookup, Rollback, vars
  <2>3. ASSUME NEW w \in Workers, Drain(w) \/ FlipThrows(w) \/ Crash(w)
        PROVE  \/ rows'[id].status = rows[id].status
               \/ /\ rows[id].status \in {"queued", "dispatching", "dispatched"}
                  /\ rows'[id].status # "none"
    <3>1. CASE Reclaim(w)
      <4>1. Limit({i \in Ids : Stale(i)}, Batch) \subseteq {i \in Ids : Stale(i)}
        BY LimitSubset
      <4>. QED  BY <1>0, <3>1, <4>1 DEF Reclaim, Stale, Row
    <3>2. CASE Claim(w)
      <4>1. Limit({i \in Ids : Due(i)}, Batch) \subseteq {i \in Ids : Due(i)}
        BY LimitSubset
      <4>. QED  BY <1>0, <3>2, <4>1 DEF Claim, Due, Claimed
    <3>3. CASE Take(w) \/ EndTick(w) \/ Invoke(w) \/ Return(w) \/ Crash(w)
      BY <2>1, <3>3 DEF Take, EndTick, Invoke, Return, Crash
    <3>4. CASE Flip(w) \/ RecordFailure(w) \/ FlipThrows(w)
      <4>1. work[w].cur.id \in Ids
        BY <3>4, HandFacts DEF Flip, RecordFailure, FlipThrows, AllInvoked
      <4>2. \/ rows' = rows
            \/ \E status \in {"dispatched", "failed", "queued"} :
                 GuardedWrite(work[w].cur.id, status)
        BY <3>4 DEF Flip, RecordFailure, FlipThrows
      <4>. QED  BY <1>0, <4>1, <4>2, GuardedWriteEffect
    <3>. QED  BY <2>3, <3>1, <3>2, <3>3, <3>4 DEF Drain
  <2>4. CASE Prune
    BY <1>0, <2>4 DEF Prune, Prunable, Row
  <2>5. ASSUME NEW i \in Ids, Elapse(i) PROVE rows'[id].status = rows[id].status
    BY <1>0, <2>5 DEF Elapse, Row
  <2>. QED  BY <2>2, <2>3, <2>4, <2>5 DEF Next
<1>. QED  BY <1>1, <1>2 DEF Existing


\* An answer stays what it was: rows are not renamed, and only one producer moves.
LEMMA AnswerSteps ==
    ASSUME IInv, AnswersAreRows, AnswerIsOwnEvent, [Next]_vars
    PROVE  AnswersAreRows' /\ AnswerIsOwnEvent'
<1>0. TypeOK /\ appends \in [Producers -> AppendCall] /\ rows \in [Ids -> Row]
      /\ event \in [Ids -> Requests]
  BY DEF IInv, TypeOK
<1>1. ASSUME NEW id \in Ids, rows[id].status # "none"
      PROVE  rows'[id].status # "none" /\ event'[id] = event[id]
  <2>1. ASSUME NEW p \in Producers, Insert(p)
        PROVE  rows'[id].status # "none" /\ event'[id] = event[id]
    <3>1. id # nextId
      BY <1>1 DEF IInv, TypeOK, Fresh
    <3>. QED  BY <1>0, <1>1, <2>1, <3>1 DEF Insert
  <2>2. CASE \A p \in Producers : ~Insert(p)
    BY <1>1, <2>2, TableSteps
  <2>. QED  BY <2>1, <2>2
<1>2. ASSUME NEW p \in Producers, appends'[p] = appends[p], appends[p].step = "done"
      PROVE  /\ appends'[p].answer \in Ids /\ rows'[appends'[p].answer].status # "none"
             /\ event'[appends'[p].answer] = appends'[p].req
  BY <1>1, <1>2 DEF AnswersAreRows, AnswerIsOwnEvent
<1>3. ASSUME NEW p \in Producers, Append(p)
      PROVE  /\ \A q \in Producers : q # p => appends'[q] = appends[q]
             /\ appends'[p].step = "done" =>
                  /\ appends'[p].answer \in Ids /\ rows'[appends'[p].answer].status # "none"
                  /\ event'[appends'[p].answer] = appends'[p].req
  <2>1. CASE Lookup(p)
    <3>1. PICK req \in Requests :
            \/ appends' = [appends EXCEPT ![p] =
                             [step |-> "insert", req |-> req, answer |-> 0]]
            \/ \E id \in Duplicates(req) :
                 appends' = [appends EXCEPT ![p] =
                               [step |-> "done", req |-> req, answer |-> id]]
      BY <2>1 DEF Lookup
    <3>2. \A id \in Duplicates(req) :
            id \in Ids /\ rows[id].status # "none" /\ event[id] = req
      BY DEF Duplicates, Existing
    <3>3. UNCHANGED <<rows, event>>
      BY <2>1 DEF Lookup
    <3>. QED  BY <1>0, <3>1, <3>2, <3>3
  <2>2. CASE Insert(p)
    <3>1. nextId \in Ids
      BY <2>2, OutboxAssumption DEF Insert, IInv, TypeOK, Ids
    <3>2. /\ appends' = [appends EXCEPT ![p] =
                           [appends[p] EXCEPT !.step = "done", !.answer = nextId]]
          /\ event' = [event EXCEPT ![nextId] = appends[p].req]
          /\ rows' = [rows EXCEPT ![nextId] =
                        [status |-> "queued", attempts |-> 0, elapsed |-> TRUE]]
      BY <2>2 DEF Insert
    <3>3. appends'[p].answer = nextId /\ appends'[p].req = appends[p].req
      BY <1>0, <3>2 DEF AppendCall
    <3>. QED  BY <1>0, <3>1, <3>2, <3>3
  <2>3. CASE Rollback(p)
    BY <1>0, <2>3 DEF Rollback
  <2>. QED  BY <1>3, <2>1, <2>2, <2>3 DEF Append
<1>4. CASE \A p \in Producers : ~Append(p)
  <2>1. appends' = appends
    BY <1>4 DEF Next, Drain, Reclaim, Claim, Take, EndTick, Invoke, Return,
       Flip, RecordFailure, FlipThrows, Crash, Prune, Elapse, vars
  <2>. QED  BY <1>2, <2>1 DEF AnswersAreRows, AnswerIsOwnEvent
<1>. QED  BY <1>2, <1>3, <1>4 DEF AnswersAreRows, AnswerIsOwnEvent

\* A lookup lets a call insert only if there is no copy; the insert makes it one.
LEMMA OverlapSteps ==
    ASSUME IInv, ByOverlap, [Next]_vars
    PROVE  ByOverlap'
<1>0. TypeOK /\ appends \in [Producers -> AppendCall] /\ rows \in [Ids -> Row]
      /\ event \in [Ids -> Requests]
  BY DEF IInv, TypeOK
<1>. SUFFICES ASSUME NEW req \in Requests, req.key # NoKey PROVE Overlapping(req)'
  BY DEF ByOverlap
<1>. DEFINE C == Copies(req)  I == Inserting(req)  N == Cardinality(Producers)
<1>1. Cardinality(C) + Cardinality(I) <= N
  BY DEF ByOverlap, Overlapping
<1>2. /\ IsFiniteSet(C) /\ Cardinality(C) \in Nat
      /\ IsFiniteSet(I) /\ Cardinality(I) \in Nat /\ N \in Nat
      /\ IsFiniteSet(C') /\ Cardinality(C') \in Nat
      /\ IsFiniteSet(I') /\ Cardinality(I') \in Nat /\ Cardinality(I') <= N
  BY CopiesFinite, InsertingFinite
<1>3. ASSUME C' \subseteq C, I' \subseteq I PROVE Overlapping(req)'
  <2>1. Cardinality(C') <= Cardinality(C) /\ Cardinality(I') <= Cardinality(I)
    <3>. HIDE DEF C, I
    <3>. QED  BY <1>2, <1>3, FS_Subset
  <2>2. Cardinality(C') + Cardinality(I') <= N
    <3>. HIDE DEF C, I, N
    <3>. QED  BY <1>1, <1>2, <2>1
  <2>. QED  BY <2>2 DEF Overlapping
<1>4. ASSUME \A p \in Producers : ~Insert(p) PROVE C' \subseteq C
  BY <1>4, TableSteps DEF Copies
<1>5. ASSUME NEW p \in Producers, Lookup(p) PROVE Overlapping(req)'
  <2>1. PICK r \in Requests :
          \/ /\ Duplicates(r) = {}
             /\ appends' = [appends EXCEPT ![p] =
                              [step |-> "insert", req |-> r, answer |-> 0]]
          \/ \E id \in Duplicates(r) :
               appends' = [appends EXCEPT ![p] =
                             [step |-> "done", req |-> r, answer |-> id]]
    BY <1>5 DEF Lookup
  <2>2. C' = C
    BY <1>5 DEF Lookup, Copies, Existing
  <2>3. CASE r = req /\ Duplicates(r) = {}
    <3>1. C' = {}
      BY <2>2, <2>3 DEF Duplicates, Copies
    <3>2. Cardinality(C') + Cardinality(I') <= N
      <4>1. Cardinality(C') = 0
        BY <3>1, FS_EmptySet
      <4>. HIDE DEF C, I, N
      <4>. QED  BY <1>2, <4>1
    <3>. QED  BY <3>2 DEF Overlapping
  <2>4. CASE ~(r = req /\ Duplicates(r) = {})
    <3>1. I' \subseteq I
      BY <1>0, <2>1, <2>4 DEF Inserting
    <3>. QED  BY <1>3, <2>2, <3>1
  <2>. QED  BY <2>3, <2>4
<1>6. ASSUME NEW p \in Producers, Insert(p) PROVE Overlapping(req)'
  <2>1. /\ appends' = [appends EXCEPT ![p] =
                         [appends[p] EXCEPT !.step = "done", !.answer = nextId]]
        /\ event' = [event EXCEPT ![nextId] = appends[p].req]
        /\ rows' = [rows EXCEPT ![nextId] =
                      [status |-> "queued", attempts |-> 0, elapsed |-> TRUE]]
        /\ appends[p].step = "insert" /\ nextId \in Ids
    BY <1>6, OutboxAssumption DEF Insert, IInv, TypeOK, Ids
  <2>2. appends'[p].step = "done" /\ \A q \in Producers : q # p => appends'[q] = appends[q]
    BY <1>0, <2>1 DEF AppendCall
  <2>3. I' = I \ {p}
    BY <2>2 DEF Inserting
  <2>4. \A id \in Ids : id # nextId => rows'[id] = rows[id] /\ event'[id] = event[id]
    BY <1>0, <2>1
  <2>5. event'[nextId] = appends[p].req
    BY <1>0, <2>1
  <2>6. CASE appends[p].req = req
    <3>1. p \in I
      BY <2>1, <2>6 DEF Inserting
    <3>2. C' \subseteq C \cup {nextId}
      BY <2>4 DEF Copies, Existing
    <3>3. Cardinality(I') = Cardinality(I) - 1
      <4>. HIDE DEF C, I, N
      <4>. QED  BY <1>2, <2>3, <3>1, FS_RemoveElement
    <3>4. Cardinality(C') <= Cardinality(C) + 1
      <4>. HIDE DEF C, I, N
      <4>1. /\ IsFiniteSet(C \cup {nextId})
            /\ \/ Cardinality(C \cup {nextId}) = Cardinality(C)
               \/ Cardinality(C \cup {nextId}) = Cardinality(C) + 1
        BY <1>2, FS_AddElement
      <4>2. /\ Cardinality(C') <= Cardinality(C \cup {nextId})
            /\ Cardinality(C \cup {nextId}) \in Nat
        BY <3>2, <4>1, FS_Subset, FS_CardinalityType
      <4>. QED  BY <1>2, <4>1, <4>2
    <3>5. Cardinality(C') + Cardinality(I') <= N
      <4>. HIDE DEF C, I, N
      <4>. QED  BY <1>1, <1>2, <3>3, <3>4
    <3>. QED  BY <3>5 DEF Overlapping
  <2>7. CASE appends[p].req # req
    <3>1. C' \subseteq C
      BY <2>4, <2>5, <2>7 DEF Copies, Existing
    <3>. QED  BY <1>3, <2>3, <3>1
  <2>. QED  BY <2>6, <2>7
<1>7. ASSUME NEW p \in Producers, Rollback(p) PROVE Overlapping(req)'
  <2>1. I' \subseteq I
    BY <1>0, <1>7 DEF Rollback, Inserting
  <2>2. C' = C
    BY <1>7 DEF Rollback, Copies, Existing
  <2>. QED  BY <1>3, <2>1, <2>2
<1>8. CASE \A p \in Producers : ~Append(p)
  <2>1. appends' = appends
    BY <1>8 DEF Next, Drain, Reclaim, Claim, Take, EndTick, Invoke, Return,
       Flip, RecordFailure, FlipThrows, Crash, Prune, Elapse, vars
  <2>2. I' = I
    BY <2>1 DEF Inserting
  <2>. QED  BY <1>3, <1>4, <1>8, <2>2 DEF Append
<1>. QED  BY <1>5, <1>6, <1>7, <1>8 DEF Append

LEMMA AppendHolds == Spec => []AppendInv
<1>1. IInv /\ AppendInv /\ [Next]_vars => AppendInv'
  BY AnswerSteps, OverlapSteps DEF AppendInv
<1>. QED  BY <1>1, InitAppend, Invariant, PTL DEF Spec

\* A producer is never answered with another event's row, of another tenant or of
\* another key, and the row it is answered with was inserted.
THEOREM AnswerIsOwnEventAlways == Spec => []AnswerIsOwnEvent
BY AppendHolds, PTL DEF AppendInv

\* There are never more rows of a key than calls that can overlap: a retry that
\* starts after an insert adds none.
THEOREM DuplicatesOnlyByOverlapAlways == Spec => []DuplicatesOnlyByOverlap
<1>1. AppendInv => DuplicatesOnlyByOverlap
  BY Zenon DEF AppendInv, ByOverlap, Overlapping, Copies, Inserting, DuplicatesOnlyByOverlap
<1>. QED  BY <1>1, AppendHolds, PTL
=============================================================================
