------------------------ MODULE CampaignMeterProofs ------------------------
(***************************************************************************)
(* The message pool is charged for the mails that went out: MeterTellsTruth *)
(* of CampaignSender, for any finite audience and any number of ticks that *)
(* overlap.  Units, sends in hand and mails are counted and balanced.      *)
(***************************************************************************)
EXTENDS CampaignGoingProofs, FiniteSetTheorems

\* The tick has reserved a unit that it has neither given back nor spent on a mail.
Charged(w) ==
    \/ ticks[w].step \in {"ask", "open", "reopen", "dispatch", "refund"}
    \/ At(w, "settle") /\ ticks[w].out.is # "SENT"

LEMMA InHandCharged == InHand = {w \in Ticks : Charged(w)} /\ InHand' = {w \in Ticks : Charged(w)'}
BY DEF InHand, Charged

Bit(b) == IF b THEN 1 ELSE 0

\* A step that moves at most one tick in or out of the set changes its size by that.
LEMMA HandMoves ==
    ASSUME NEW w \in Ticks, \A v \in Ticks \ {w} : Charged(v)' <=> Charged(v)
    PROVE  /\ Cardinality(InHand) \in Nat /\ Cardinality(InHand') \in Nat
           /\ Cardinality(InHand') + Bit(Charged(w)) = Cardinality(InHand) + Bit(Charged(w)')
           /\ Charged(w) => Cardinality(InHand) > 0
<1>1. InHand \subseteq Ticks /\ InHand' \subseteq Ticks
  BY InHandCharged
<1>2. IsFiniteSet(InHand) /\ IsFiniteSet(InHand')
  BY <1>1, FiniteAssumption, FS_Subset
<1>3. Cardinality(InHand) \in Nat /\ Cardinality(InHand') \in Nat
  BY <1>2, FS_CardinalityType
<1>4. InHand \ {w} = InHand' \ {w}
  BY InHandCharged
<1> DEFINE s == Cardinality(InHand)  t == Cardinality(InHand')  k == Cardinality(InHand \ {w})
<1>5. /\ Cardinality(InHand \ {w}) = IF w \in InHand THEN Cardinality(InHand) - 1 ELSE Cardinality(InHand)
      /\ Cardinality(InHand' \ {w}) = IF w \in InHand' THEN Cardinality(InHand') - 1 ELSE Cardinality(InHand')
  BY <1>2, FS_RemoveElement
<1>6. (w \in InHand <=> Charged(w)) /\ (w \in InHand' <=> Charged(w)')
  BY InHandCharged
<1>7. k = (IF Charged(w) THEN s - 1 ELSE s) /\ k = (IF Charged(w)' THEN t - 1 ELSE t)
  BY <1>4, <1>5, <1>6
<1>8. k \in Nat
  <2>1. IsFiniteSet(InHand \ {w})
    BY <1>2, FS_Subset
  <2> QED
    BY <2>1, FS_CardinalityType
<1>9. s \in Nat /\ t \in Nat
  BY <1>3
<1> HIDE DEF s, t, k
<1>10. t + Bit(Charged(w)) = s + Bit(Charged(w)') /\ (Charged(w) => s > 0)
  BY ONLY <1>7, <1>8, <1>9 DEF Bit
<1> QED
  BY <1>9, <1>10 DEF s, t

LEMMA HandStays ==
    ASSUME \A v \in Ticks : Charged(v)' <=> Charged(v)
    PROVE  InHand' = InHand
BY InHandCharged

-----------------------------------------------------------------------------
LEMMA MailsAre ==
    /\ \A m : m \in Mails <=> \E r \in Recipients : \E n \in 1 .. mailed[r] : m = <<r, n>>
    /\ \A m : m \in Mails' <=> \E r \in Recipients : \E n \in 1 .. mailed'[r] : m = <<r, n>>
BY DEF Mails

LEMMA NoMail == ASSUME \A r \in Recipients : mailed[r] = 0 PROVE Mails = {}
<1>1. ASSUME NEW r \in Recipients PROVE 1 .. mailed[r] = {}
  BY <1>1
<1>2. \A m : m \notin Mails
  BY <1>1, MailsAre
<1> QED
  BY <1>2

\* One more mail to r.
LEMMA OneMail ==
    ASSUME mailed \in [Recipients -> Nat], IsFiniteSet(Mails), NEW r \in Recipients,
           mailed' = [mailed EXCEPT ![r] = @ + 1]
    PROVE  /\ IsFiniteSet(Mails') /\ Cardinality(Mails) \in Nat
           /\ Cardinality(Mails') = Cardinality(Mails) + 1
<1> DEFINE new == <<r, mailed[r] + 1>>
<1>1. mailed'[r] = mailed[r] + 1 /\ \A x \in Recipients \ {r} : mailed'[x] = mailed[x]
  OBVIOUS
<1>2. mailed[r] \in Nat
  OBVIOUS
<1>3. 1 .. mailed'[r] = (1 .. mailed[r]) \cup {mailed[r] + 1} /\ mailed[r] + 1 \notin 1 .. mailed[r]
  BY <1>1, <1>2
<1>4. new \notin Mails
  BY <1>3, MailsAre
<1>5. ASSUME NEW m \in Mails' PROVE m \in Mails \cup {new}
  <2>1. PICK x \in Recipients : \E n \in 1 .. mailed'[x] : m = <<x, n>>
    BY <1>5, MailsAre
  <2>2. PICK n \in 1 .. mailed'[x] : m = <<x, n>>
    BY <2>1
  <2>3. CASE x = r
    BY <1>3, <2>2, <2>3, MailsAre
  <2>4. CASE x # r
    BY <1>1, <2>2, <2>4, MailsAre
  <2> QED
    BY <2>3, <2>4
<1>6. ASSUME NEW m \in Mails PROVE m \in Mails'
  <2>1. PICK x \in Recipients : \E n \in 1 .. mailed[x] : m = <<x, n>>
    BY <1>6, MailsAre
  <2>2. PICK n \in 1 .. mailed[x] : m = <<x, n>>
    BY <2>1
  <2>3. n \in 1 .. mailed'[x]
    BY <1>1, <1>3
  <2> QED
    BY <2>2, <2>3, MailsAre
<1>7. new \in Mails'
  BY <1>3, MailsAre
<1>8. Mails' = Mails \cup {new}
  BY <1>5, <1>6, <1>7
<1> HIDE DEF new
<1>9. /\ IsFiniteSet(Mails \cup {new})
      /\ new \in Mails \/ Cardinality(Mails \cup {new}) = Cardinality(Mails) + 1
  BY FS_AddElement
<1> QED
  BY <1>4, <1>8, <1>9, FS_CardinalityType


-----------------------------------------------------------------------------
Metered == IsFiniteSet(Mails) /\ MeterTellsTruth

\* Units, sends in hand, mails and faults, before and after a step.
Weighs(u, c, m, f) == u \in Nat /\ c \in Nat /\ m \in Nat /\ f \in Nat /\ u - c - m \in (0 - f) .. f

\* ... and a step of one tick, with what it holds before (p) and after (q), and its mails.
Balanced(u, c, m, f, p, v, d, n, g, q) ==
    /\ Weighs(u, c, m, f) /\ v \in Nat /\ d \in Nat /\ g \in Nat
    /\ n \in {0, 1} /\ p \in {0, 1} /\ q \in {0, 1} /\ d + p = c + q
    /\ \/ v + p = u + q + n /\ g \in {f, f + 1}
       \/ v + p \in {u + q + n + 1, u + q + n - 1} /\ g = f + 1
       \/ u = 0 /\ v = 0 /\ p = 1 /\ q = 0 /\ n = 0 /\ g = f

LEMMA Weighing ==
    ASSUME NEW u, NEW c, NEW m, NEW f, NEW p, NEW v, NEW d, NEW n, NEW g, NEW q,
           Balanced(u, c, m, f, p, v, d, n, g, q)
    PROVE  Weighs(v, d, m + n, g)
<1>1. /\ u \in Nat /\ c \in Nat /\ m \in Nat /\ f \in Nat /\ v \in Nat /\ d \in Nat /\ g \in Nat
      /\ u - c - m >= 0 - f /\ u - c - m <= f /\ d + p = c + q
      /\ p \in {0, 1} /\ q \in {0, 1} /\ n \in {0, 1} /\ m + n \in Nat
  BY DEF Weighs, Balanced
<1>3. CASE v + p = u + q + n /\ g \in {f, f + 1}
  <2>1. v - d - (m + n) = u - c - m
    BY <1>1, <1>3
  <2> QED
    BY <1>1, <1>3, <2>1 DEF Weighs
<1>4. CASE v + p = u + q + n + 1 /\ g = f + 1
  <2>1. v - d - (m + n) = u - c - m + 1
    BY <1>1, <1>4
  <2> QED
    BY <1>1, <1>4, <2>1 DEF Weighs
<1>5. CASE v + p = u + q + n - 1 /\ g = f + 1
  <2>1. v - d - (m + n) = u - c - m - 1
    BY <1>1, <1>5
  <2> QED
    BY <1>1, <1>5, <2>1 DEF Weighs
<1>6. CASE u = 0 /\ v = 0 /\ p = 1 /\ q = 0 /\ n = 0 /\ g = f
  <2>1. v - d - (m + n) = u - c - m + 1 /\ v - d - (m + n) <= 0
    BY <1>1, <1>6
  <2> QED
    BY <1>1, <1>6, <2>1 DEF Weighs
<1> QED
  BY <1>3, <1>4, <1>5, <1>6 DEF Balanced

LEMMA MeteredWeighs ==
    ASSUME Typed, Metered
    PROVE  Weighs(used, Cardinality(InHand), Cardinality(Mails), faults)
<1>1. used \in Nat /\ faults \in 0 .. MaxFaults
  BY DEF Typed, TypeOK
<1>2. faults \in Nat
  BY <1>1, BoundsTyped
<1>3. IsFiniteSet(InHand)
  <2>1. InHand \subseteq Ticks
    BY InHandCharged
  <2> QED
    BY <2>1, FiniteAssumption, FS_Subset
<1>4. Cardinality(InHand) \in Nat /\ Cardinality(Mails) \in Nat
  BY <1>3, FS_CardinalityType DEF Metered
<1> QED
  BY <1>1, <1>2, <1>4 DEF Weighs, Metered, MeterTellsTruth

\* A step that leaves units, sends in hand and mails alone.
Even == /\ UNCHANGED <<used, mailed>> /\ faults' \in {faults, faults + 1}
        /\ \A v \in Ticks : Charged(v)' <=> Charged(v)

LEMMA EvenStep == ASSUME Typed, Metered, Even PROVE Metered'
<1>1. Weighs(used, Cardinality(InHand), Cardinality(Mails), faults)
  BY MeteredWeighs
<1>2. InHand' = InHand /\ Mails' = Mails
  BY HandStays DEF Even, Mails
<1>3. faults \in Nat /\ faults' \in {faults, faults + 1}
  BY <1>1 DEF Weighs, Even
<1>4. used - Cardinality(InHand) - Cardinality(Mails) \in (0 - faults') .. faults'
  BY ONLY <1>1, <1>3 DEF Weighs
<1>5. used' = used
  BY DEF Even
<1> QED
  BY <1>2, <1>4, <1>5 DEF Metered, MeterTellsTruth

\* A step of w, told by how it moves the units, its own send, the mails and the faults.
LEMMA OneMetered ==
    ASSUME Typed, Metered, NEW w \in Ticks, \A v \in Ticks \ {w} : Charged(v)' <=> Charged(v),
           used' \in Nat, faults' \in Nat,
           NEW n \in {0, 1}, IsFiniteSet(Mails'), Cardinality(Mails') = Cardinality(Mails) + n,
           LET own == Bit(Charged(w))  left == Bit(Charged(w)')
           IN \/ used' + own = used + left + n /\ faults' \in {faults, faults + 1}
              \/ used' + own \in {used + left + n + 1, used + left + n - 1} /\ faults' = faults + 1
              \/ used = 0 /\ used' = 0 /\ Charged(w) /\ ~Charged(w)' /\ n = 0 /\ faults' = faults
    PROVE  Metered'
<1>1. Weighs(used, Cardinality(InHand), Cardinality(Mails), faults)
  BY MeteredWeighs
<1>2. /\ Cardinality(InHand) \in Nat /\ Cardinality(InHand') \in Nat
      /\ Cardinality(InHand') + Bit(Charged(w)) = Cardinality(InHand) + Bit(Charged(w)')
      /\ Charged(w) => Cardinality(InHand) > 0
  BY HandMoves
<1> DEFINE c == Cardinality(InHand)  d == Cardinality(InHand')
           m == Cardinality(Mails)  k == Cardinality(Mails')
           p == Bit(Charged(w))  q == Bit(Charged(w)')
<1>3. /\ c \in Nat /\ d \in Nat /\ m \in Nat /\ k = m + n /\ d + p = c + q
      /\ used \in Nat /\ faults \in Nat /\ Weighs(used, c, m, faults)
  BY <1>1, <1>2 DEF Weighs
<1>4. p \in {0, 1} /\ q \in {0, 1} /\ (Charged(w) <=> p = 1) /\ (Charged(w)' <=> q = 1)
  BY DEF Bit
<1>5. \/ used' + p = used + q + n /\ faults' \in {faults, faults + 1}
      \/ used' + p \in {used + q + n + 1, used + q + n - 1} /\ faults' = faults + 1
      \/ used = 0 /\ used' = 0 /\ p = 1 /\ q = 0 /\ n = 0 /\ faults' = faults
  BY <1>4
<1>6. p \in {0, 1} /\ q \in {0, 1} /\ used' \in Nat /\ faults' \in Nat /\ n \in {0, 1}
  BY <1>4
<1> HIDE DEF c, d, m, k, p, q
<1>7. Balanced(used, c, m, faults, p, used', d, n, faults', q)
  BY <1>3, <1>5, <1>6 DEF Balanced
<1>8. Weighs(used', d, k, faults')
  BY <1>3, <1>7, Weighing
<1>9. MeterTellsTruth'
  BY <1>8 DEF Weighs, MeterTellsTruth, d, k
<1> QED
  BY <1>9 DEF Metered

-----------------------------------------------------------------------------
LEMMA SendMetered ==
    ASSUME Typed, Metered, NEW w \in Ticks, SendMail(w)
    PROVE  Metered'
<1>t. /\ mailed \in [Recipients -> Nat] /\ used \in Nat /\ used' \in Nat
      /\ faults \in Nat /\ faults' \in Nat /\ ticks[w] \in Tick
  <2>1. Typed'
    BY TypedStep DEF Next
  <2>2. used \in Nat /\ faults \in 0 .. MaxFaults /\ mailed \in [Recipients -> Nat] /\ ticks[w] \in Tick
    BY DEF Typed, TypeOK
  <2>3. used' \in Nat /\ faults' \in 0 .. MaxFaults
    BY <2>1 DEF Typed, TypeOK
  <2> QED
    BY <2>2, <2>3, BoundsTyped
<1>1. SendMoves(w, ticks[w]) /\ ticks[w].cur \in Recipients
      /\ \A v \in Ticks \ {w} : ticks'[v] = ticks[v]
  BY SendSteps
<1>2. \A v \in Ticks \ {w} : Charged(v)' <=> Charged(v)
  BY <1>1 DEF Charged, At
<1>e. ASSUME UNCHANGED <<used, mailed>>, faults' \in {faults, faults + 1}, Charged(w)' <=> Charged(w)
      PROVE  Metered'
  BY <1>2, <1>e, EvenStep DEF Even
<1>m. UNCHANGED mailed => IsFiniteSet(Mails') /\ Cardinality(Mails') = Cardinality(Mails) + 0
  <2>1. UNCHANGED mailed => Mails' = Mails
    BY DEF Mails
  <2>2. Cardinality(Mails) \in Nat
    BY FS_CardinalityType DEF Metered
  <2> QED
    BY <2>1, <2>2 DEF Metered
<1>3. CASE AskGateway(w) \/ Open(w) \/ Reopen(w)
  <2>1. /\ UNCHANGED <<used, mailed>> /\ faults' \in {faults, faults + 1}
        /\ ticks[w].step \in {"ask", "open", "reopen"}
    BY <1>3 DEF AskGateway, Open, Reopen, Fault, gatewayVars, At
  <2>2. ticks'[w].step \in {"open", "reopen", "dispatch", "refund"}
    BY ONLY <1>1, <2>1 DEF SendMoves
  <2> QED
    BY <1>e, <2>1, <2>2 DEF Charged
<1>4. CASE Dispatch(w)
  <2>1. ticks[w].step = "dispatch" /\ UNCHANGED used
    BY <1>4 DEF Dispatch, At
  <2>2. Charged(w) /\ ticks'[w].step = "settle" /\ (Charged(w)' <=> ticks'[w].out.is # "SENT")
    <3>1. ticks'[w].step = "settle"
      BY ONLY <1>1, <2>1 DEF SendMoves
    <3> QED
      BY <2>1, <3>1 DEF Charged, At
  <2>3. ASSUME mailed' = [mailed EXCEPT ![ticks[w].cur] = @ + 1]
        PROVE  IsFiniteSet(Mails') /\ Cardinality(Mails') = Cardinality(Mails) + 1
    BY <1>t, <1>1, <2>3, OneMail DEF Metered
  <2>4. \/ /\ mailed' = [mailed EXCEPT ![ticks[w].cur] = @ + 1] /\ UNCHANGED faults
           /\ ticks' = [ticks EXCEPT ![w].step = "settle", ![w].out = Is("SENT")]
        \/ /\ UNCHANGED <<mailed, faults>>
           /\ \E out \in Failures : ticks' = [ticks EXCEPT ![w].step = "settle", ![w].out = out]
        \/ mailed' = [mailed EXCEPT ![ticks[w].cur] = @ + 1] /\ Fault
           /\ ticks' = [ticks EXCEPT ![w].step = "settle", ![w].out = Is("RETRY")]
    BY <1>4 DEF Dispatch
  <2>o. ASSUME NEW out, ticks' = [ticks EXCEPT ![w].step = "settle", ![w].out = out]
        PROVE  ticks'[w].out = out
    BY <1>t, <2>o DEF Tick, Typed, TypeOK
  <2>5. ASSUME mailed' = [mailed EXCEPT ![ticks[w].cur] = @ + 1], UNCHANGED faults,
               ticks' = [ticks EXCEPT ![w].step = "settle", ![w].out = Is("SENT")]
        PROVE  Metered'
    <3>1. ~Charged(w)'
      BY <2>2, <2>5, <2>o, OutcomeOf
    <3>2. used' + Bit(Charged(w)) = used + Bit(Charged(w)') + 1
      BY <1>t, <2>1, <2>2, <3>1 DEF Bit
    <3> QED
      BY <1>2, <1>t, <2>3, <2>5, <3>2, OneMetered
  <2>6. ASSUME UNCHANGED <<mailed, faults>>,
               \E out \in Failures : ticks' = [ticks EXCEPT ![w].step = "settle", ![w].out = out]
        PROVE  Metered'
    <3>1. Charged(w)'
      BY <2>2, <2>6, <2>o, OutcomeOf
    <3> QED
      BY <1>e, <2>1, <2>2, <2>6, <3>1
  <2>7. ASSUME mailed' = [mailed EXCEPT ![ticks[w].cur] = @ + 1], Fault,
               ticks' = [ticks EXCEPT ![w].step = "settle", ![w].out = Is("RETRY")]
        PROVE  Metered'
    <3>o. ticks'[w].out = Is("RETRY")
      BY <2>7, <2>o
    <3>1. Charged(w)'
      BY <2>2, <3>o DEF Is
    <3>2. faults' = faults + 1 /\ used' + Bit(Charged(w)) = used + Bit(Charged(w)') + 1 - 1
      BY <1>t, <2>1, <2>2, <2>7, <3>1 DEF Bit, Fault
    <3> QED
      BY <1>2, <1>t, <2>3, <2>7, <3>2, OneMetered
  <2> QED
    BY <2>4, <2>5, <2>6, <2>7
<1>5. CASE Settle(w)
  <2>1. UNCHANGED <<used, mailed>> /\ faults' \in {faults, faults + 1} /\ ticks[w].step = "settle"
    BY <1>5 DEF Settle, Fault, At
  <2>2. IF ticks[w].out.is = "SENT" THEN ticks'[w].step = "mark" ELSE ticks'[w].step = "refund"
    BY ONLY <1>1, <2>1 DEF SendMoves
  <2> QED
    BY <1>e, <2>1, <2>2 DEF Charged, At
<1>6. CASE Refund(w)
  <2>1. ticks[w].step = "refund" /\ UNCHANGED mailed
    BY <1>6 DEF Refund, At, gatewayVars
  <2>2. ticks'[w].step = "mark"
    BY ONLY <1>1, <2>1 DEF SendMoves
  <2>3. Charged(w) /\ ~Charged(w)'
    BY <2>1, <2>2 DEF Charged, At
  <2>4. \/ used' = used - 1 /\ used > 0 /\ UNCHANGED faults
        \/ used' = 0 /\ used = 0 /\ UNCHANGED faults
        \/ used' = used /\ faults' = faults + 1
    BY <1>6, <1>t DEF Refund, Refunded, Fault
  <2>5. Bit(Charged(w)') = 0 /\ Bit(Charged(w)) = 1
    BY <2>3 DEF Bit
  <2>6. \/ used' + 1 = used + 0 + 0 /\ faults' = faults
        \/ used' + 1 = used + 0 + 0 + 1 /\ faults' = faults + 1
        \/ used = 0 /\ used' = 0 /\ faults' = faults
    <3>1. CASE used' = used - 1 /\ UNCHANGED faults
      <4>1. used' + 1 = used + 0 + 0
        BY <1>t, <3>1
      <4> QED
        BY <3>1, <4>1
    <3>2. CASE used' = used /\ faults' = faults + 1
      <4>1. used' + 1 = used + 0 + 0 + 1
        BY <1>t, <3>2
      <4> QED
        BY <3>2, <4>1
    <3> QED
      BY <2>4, <3>1, <3>2
  <2> QED
    BY <1>2, <1>m, <1>t, <2>1, <2>3, <2>5, <2>6, OneMetered
<1> QED
  BY <1>3, <1>4, <1>5, <1>6 DEF SendMail

LEMMA CrashMetered ==
    ASSUME Typed, Metered, NEW w \in Ticks, Crash(w)
    PROVE  Metered'
<1>1. /\ UNCHANGED <<used, mailed>> /\ faults' = faults + 1 /\ ticks' = [ticks EXCEPT ![w] = NoWork]
  BY DEF Crash, Fault
<1>2. ticks'[w].step = "idle" /\ \A v \in Ticks \ {w} : ticks'[v] = ticks[v]
  BY <1>1, GoSteps, NoWorkTyped
<1>3. ~Charged(w)' /\ \A v \in Ticks \ {w} : Charged(v)' <=> Charged(v)
  BY <1>2 DEF Charged, At
<1>4. CASE ~Charged(w)
  BY <1>1, <1>3, <1>4, EvenStep DEF Even
<1>5. CASE Charged(w)
  <2>t. used \in Nat /\ faults \in 0 .. MaxFaults
    BY DEF Typed, TypeOK
  <2>1. used \in Nat /\ faults \in Nat
    BY <2>t, BoundsTyped
  <2>2. Mails' = Mails
    BY <1>1 DEF Mails
  <2>3. IsFiniteSet(Mails') /\ Cardinality(Mails') = Cardinality(Mails) + 0
    BY <2>2, FS_CardinalityType DEF Metered
  <2>b. Bit(Charged(w)') = 0 /\ Bit(Charged(w)) = 1
    BY <1>3, <1>5 DEF Bit
  <2>4. used' + 1 = used + 0 + 0 + 1
    BY <1>1, <2>1
  <2>5. used' \in Nat /\ faults' \in Nat
    BY <1>1, <2>1
  <2> QED
    BY <1>1, <1>3, <2>3, <2>b, <2>4, <2>5, OneMetered
<1> QED
  BY <1>4, <1>5


-----------------------------------------------------------------------------
\* A step of a tick that has no unit in hand, neither before nor after.
LEMMA FreeHanded ==
    ASSUME Typed, Metered, NEW w \in Ticks, ticks[w].step \notin Gateway,
           ticks'[w].step \notin Gateway, \A v \in Ticks \ {w} : ticks'[v] = ticks[v],
           UNCHANGED <<used, mailed>>, faults' \in {faults, faults + 1}
    PROVE  Metered'
<1>1. \A v \in Ticks : Charged(v)' <=> Charged(v)
  BY DEF Charged, At, Gateway
<1> QED
  BY <1>1, EvenStep DEF Even

LEMMA StartMetered ==
    ASSUME Typed, KindFits, Metered, NEW w \in Ticks,
           LaunchScheduled(w) \/ DecideAbWinner(w) \/ KickBatch(w)
    PROVE  Metered'
<1>1. Handled(w)
  BY StartHandled
<1>2. /\ ticks[w].step \in {"flip", "rearm", "look", "elect", "release", "kick"}
      /\ UNCHANGED <<used, mailed, faults>>
  BY DEF LaunchScheduled, FlipSending, Rearm, DecideAbWinner, Look, Elect, Release, KickBatch,
         gatewayVars, bounds, At
<1>3. ticks'[w].step \notin Gateway /\ \A v \in Ticks \ {w} : ticks'[v] = ticks[v]
  <2>1. \A v \in Ticks \ {w} : ticks'[v] = ticks[v]
    BY <1>1 DEF Handled, Stepping
  <2>2. CASE Walks(w)
    BY <1>2, <2>1, <2>2 DEF Walks, Gateway, Holding
  <2>3. CASE Starts(w)
    BY <1>2, <2>1, <2>3 DEF Starts, Gateway
  <2>4. CASE Writes(w)
    BY <1>2, <2>1, <2>4 DEF Writes, Gateway
  <2>5. CASE Ends(w)
    BY <1>2, <2>1, <2>5 DEF Ends, Gateway
  <2> QED
    BY <1>1, <2>1, <2>2, <2>3, <2>4, <2>5 DEF Handled
<1>4. ticks[w].step \notin Gateway
  BY <1>2 DEF Gateway
<1> QED
  BY <1>2, <1>3, <1>4, FreeHanded

LEMMA BatchMetered ==
    ASSUME Typed, KindFits, Metered, NEW w \in Ticks, Batch(w)
    PROVE  Metered'
<1>1. Handled(w)
  BY BatchHandled
<1>2. \A v \in Ticks \ {w} : ticks'[v] = ticks[v]
  BY <1>1 DEF Handled, Stepping
<1>3. CASE Check(w)
  <2>1. UNCHANGED <<mailed, faults>> /\ ticks[w].step = "check"
    BY <1>3 DEF Check, gatewayVars, bounds, At
  <2>2. CASE used' = used + 1 /\ Go(w, "ask")
    <3>1. ticks'[w].step = "ask"
      BY <2>2, GoOn DEF TickStep
    <3>2. Charged(w)' /\ ~Charged(w) /\ \A v \in Ticks \ {w} : Charged(v)' <=> Charged(v)
      BY <1>2, <2>1, <3>1 DEF Charged, At
    <3>3. Bit(Charged(w)') = 1 /\ Bit(Charged(w)) = 0
      BY <3>2 DEF Bit
    <3>4. used \in Nat /\ faults \in 0 .. MaxFaults
      BY DEF Typed, TypeOK
    <3>5. used' \in Nat /\ faults' \in Nat /\ used' + 0 = used + 1 + 0
      BY <2>1, <2>2, <3>4, BoundsTyped
    <3>6. Mails' = Mails
      BY <2>1 DEF Mails
    <3>7. IsFiniteSet(Mails') /\ Cardinality(Mails') = Cardinality(Mails) + 0
      BY <3>6, FS_CardinalityType DEF Metered
    <3> QED
      BY <2>1, <3>2, <3>3, <3>5, <3>7, OneMetered
  <2>3. CASE UNCHANGED used /\ ticks'[w].step = "mark"
    BY <1>2, <2>1, <2>3, FreeHanded DEF Gateway
  <2>4. ASSUME NEW out \in Outcome, ticks' = [ticks EXCEPT ![w].step = "mark", ![w].out = out]
        PROVE  ticks'[w].step = "mark"
    BY <2>4 DEF Typed, TypeOK, Tick
  <2>5. Is("SKIPPED") \in Outcome /\ [Is("RETRY") EXCEPT !.stop = TRUE] \in Outcome
    BY Outcomes
  <2> QED
    BY <1>3, <2>2, <2>3, <2>4, <2>5 DEF Check
<1>4. CASE ~Check(w)
  <2>1. ticks[w].step \in {"read", "reclaim", "list", "loop", "mark", "streak", "count", "held", "close"}
    BY <1>4 DEF Batch, Read, Reclaim, List, Turn, Leave, Mark, Streak, Count, Held, Close, At
  <2>2. UNCHANGED <<used, mailed, faults>>
    BY <1>4 DEF Batch, Read, Reclaim, List, Turn, Leave, Mark, Streak, Count, Held, Close,
                gatewayVars, bounds
  <2>3. ticks'[w].step \notin Gateway /\ ticks[w].step \notin Gateway
    <3>1. CASE Walks(w)
      BY <2>1, <3>1 DEF Walks, Gateway, Holding
    <3>2. CASE Starts(w) \/ Ends(w)
      BY <2>1, <3>2 DEF Starts, Ends, Gateway
    <3>3. CASE Writes(w)
      BY <2>1, <3>3 DEF Writes, Gateway
    <3> QED
      BY <1>1, <3>1, <3>2, <3>3 DEF Handled
  <2> QED
    BY <1>2, <2>2, <2>3, FreeHanded
<1> QED
  BY <1>3, <1>4

\* A step from outside the handlers.
LEMMA OtherMetered ==
    ASSUME Typed, Metered,
           \/ Operator \/ Block \/ UNCHANGED vars
           \/ \E kind \in Kinds : Reap(kind)
           \/ \E w \in Ticks : LoseLock(w)
           \/ \E r \in Recipients : Elapse(r) \/ OptOut(r) \/ Unsubscribe(r)
    PROVE  Metered'
<1>e. ASSUME UNCHANGED <<used, mailed, ticks>>, faults' \in {faults, faults + 1} PROVE Metered'
  BY <1>e, EvenStep DEF Even, Charged, At
<1> USE DEF gatewayVars, bounds
<1>1. CASE Operator
  <2>1. CASE RequestDies
    BY <1>e, <2>1 DEF RequestDies, Fault
  <2>2. CASE ~RequestDies
    BY <1>e, <1>1, <2>2 DEF Operator, AskLaunch, AskPause, AskResume, AskCancel, Ask, Freeze,
                            Unbook, Set, Arm, Kick, Book
  <2> QED
    BY <2>1, <2>2
<1>2. CASE Block \/ UNCHANGED vars
  BY <1>e, <1>2 DEF Block, vars
<1>3. CASE \E kind \in Kinds : Reap(kind)
  BY <1>e, <1>3 DEF Reap
<1>4. CASE \E w \in Ticks : LoseLock(w)
  BY <1>e, <1>4 DEF LoseLock, Fault
<1>5. CASE \E r \in Recipients : Elapse(r) \/ OptOut(r) \/ Unsubscribe(r)
  BY <1>e, <1>5 DEF Elapse, OptOut, Unsubscribe
<1> QED
  BY <1>1, <1>2, <1>3, <1>4, <1>5

LEMMA BeginMetered ==
    ASSUME Typed, Metered, NEW w \in Ticks, NEW kind \in Kinds, Begin(w, kind)
    PROVE  Metered'
<1> DEFINE t == [NoWork EXCEPT !.step = First(kind), !.kind = kind]
<1>1. First(kind) \in TickStep \ Gateway
  BY DEF First, TickStep, Gateway
<1>2. t \in Tick /\ t.step = First(kind)
  BY <1>1, NoWorkTyped DEF Tick
<1>3. ticks' = [ticks EXCEPT ![w] = t]
  BY Zenon DEF Begin
<1> HIDE DEF t
<1>4. ticks'[w] = t /\ \A v \in Ticks \ {w} : ticks'[v] = ticks[v]
  BY <1>2, <1>3, GoSteps
<1>5. ticks[w].step \notin Gateway /\ UNCHANGED <<used, mailed, faults>>
  BY DEF Begin, At, Gateway, gatewayVars, bounds
<1> QED
  BY <1>1, <1>2, <1>4, <1>5, FreeHanded

LEMMA ThrowMetered ==
    ASSUME Typed, Metered, NEW w \in Ticks, Throw(w)
    PROVE  Metered'
<1>1. ticks'[w].step = "idle" /\ \A v \in Ticks \ {w} : ticks'[v] = ticks[v]
  BY FinishOff DEF Throw
<1>2. /\ ticks[w].step \notin Gateway /\ UNCHANGED <<used, mailed>> /\ faults' = faults + 1
  BY DEF Throw, Fault, gatewayVars
<1> QED
  BY <1>1, <1>2, FreeHanded DEF Gateway

LEMMA MeteredStep == ASSUME Typed, KindFits, Metered, [Next]_vars PROVE Metered'
<1>1. ASSUME NEW w \in Ticks, NEW kind \in Kinds, Begin(w, kind) PROVE Metered'
  BY <1>1, BeginMetered
<1>2. ASSUME NEW w \in Ticks, LaunchScheduled(w) \/ DecideAbWinner(w) \/ KickBatch(w)
      PROVE  Metered'
  BY <1>2, StartMetered
<1>3. ASSUME NEW w \in Ticks, Batch(w) PROVE Metered'
  BY <1>3, BatchMetered
<1>4. ASSUME NEW w \in Ticks, SendMail(w) PROVE Metered'
  BY <1>4, SendMetered
<1>5. ASSUME NEW w \in Ticks, Crash(w) \/ Throw(w) PROVE Metered'
  BY <1>5, CrashMetered, ThrowMetered
<1>6. CASE \/ Operator \/ Block \/ UNCHANGED vars
           \/ \E kind \in Kinds : Reap(kind)
           \/ \E w \in Ticks : LoseLock(w)
           \/ \E r \in Recipients : Elapse(r) \/ OptOut(r) \/ Unsubscribe(r)
  BY <1>6, OtherMetered
<1> QED
  BY <1>1, <1>2, <1>3, <1>4, <1>5, <1>6 DEF Next

LEMMA MeteredInit == Init => Metered
<1> SUFFICES ASSUME Init PROVE Metered
  OBVIOUS
<1>1. Mails = {}
  BY NoMail DEF Init
<1>2. InHand = {}
  BY InHandCharged, NoWorkTyped DEF Init, Charged, At
<1>3. IsFiniteSet({}) /\ Cardinality({}) = 0
  BY FS_EmptySet
<1>4. used = 0 /\ faults = 0
  BY DEF Init
<1>5. used - Cardinality(InHand) - Cardinality(Mails) = 0
  BY <1>1, <1>2, <1>3, <1>4
<1> QED
  BY <1>1, <1>3, <1>4, <1>5 DEF Metered, MeterTellsTruth

\* The message pool is charged for the mails that went out, give or take one unit per
\* fault: every reserve, send, refund and crash of any number of ticks keeps the balance.
THEOREM MeterTold == Spec => []MeterTellsTruth
<1>1. Typed /\ GoingInv => Typed /\ KindFits
  BY DEF GoingInv, Known, Rests
<1>2. Typed /\ KindFits /\ Metered /\ [Next]_vars => Metered'
  BY MeteredStep
<1>3. Metered => MeterTellsTruth
  BY DEF Metered
<1> QED
  BY <1>1, <1>2, <1>3, MeteredInit, TypedInit, TypedStep, GoingAlways, PTL DEF Spec
=============================================================================
