------------------------ MODULE CampaignSenderProofs ------------------------
(***************************************************************************)
(* Theorems about CampaignSender, for any audience and any number of       *)
(* ticks, requests, opt-outs, suspensions and failures.                    *)
(***************************************************************************)
EXTENDS CampaignSender, TLAPS

\* The statements at which a tick has a recipient in hand.
Holding == {"check", "ask", "open", "reopen", "dispatch", "settle", "refund", "mark"}
Hand == {t \in Tick : t.step \in Holding => t.cur \in Recipients}
HandsFull == ticks \in [Ticks -> Hand]

Typed == TypeOK /\ HandsFull

\* The statements a handler goes on to without one.
Onward == TickStep \ (Holding \cup {"flip"})

LEMMA Outcomes ==
    /\ \A what \in {"SENT", "SKIPPED", "FAILED", "RETRY"} : Is(what) \in Outcome
    /\ [Is("RETRY") EXCEPT !.stop = TRUE] \in Outcome
    /\ Refusals \subseteq Outcome /\ Failures \subseteq Outcome
<1>1. \A what \in {"SENT", "SKIPPED", "FAILED", "RETRY"} : Is(what) \in Outcome
  BY DEF Is, Outcome
<1>2. Is("RETRY") \in Outcome /\ Is("SKIPPED") \in Outcome /\ Is("FAILED") \in Outcome
  BY <1>1
<1>3. ASSUME NEW out \in Outcome
      PROVE  /\ [out EXCEPT !.stop = TRUE] \in Outcome
             /\ [out EXCEPT !.stop = TRUE, !.defer = TRUE] \in Outcome
  BY DEF Outcome
<1>4. /\ [Is("RETRY") EXCEPT !.stop = TRUE] \in Outcome
      /\ [Is("RETRY") EXCEPT !.stop = TRUE, !.defer = TRUE] \in Outcome
  BY <1>2, <1>3
<1> QED
  BY <1>1, <1>2, <1>4 DEF Refusals, Failures

\* The bounds are numbers.
LEMMA BoundsTyped ==
    /\ FailLimit \in Nat \ {0} /\ MaxFaults \in Nat /\ MaxRequests \in Nat
    /\ MaxOptOuts \in Nat /\ MaxBlocks \in Nat
BY CampaignAssumption, Zenon DEF CampaignAssumption

\* A counter below its bound may be raised, and any may be reset.
LEMMA Counted ==
    /\ \A n \in Nat : \A k \in 0 .. n : k < n => k + 1 \in 0 .. n
    /\ \A n \in Nat : 0 \in 0 .. n
OBVIOUS

LEMMA FaultTyped == faults \in 0 .. MaxFaults /\ Fault => faults' \in 0 .. MaxFaults
BY BoundsTyped DEF Fault

LEMMA NoWorkTyped == NoWork \in Hand /\ NoWork \in Tick /\ NoWork.step = "idle"
<1>1. NoWork \in Tick
  BY Outcomes DEF NoWork, Tick, TickStep, Kinds
<1> QED
  BY <1>1 DEF Hand, NoWork, Holding

LEMMA NoRequestTyped == NoRequest \in Request
BY DEF NoRequest, Request, Ops

LEMMA HandsTyped ==
    /\ HandsFull => ticks \in [Ticks -> Tick]
    /\ HandsFull' => ticks' \in [Ticks -> Tick]
BY DEF HandsFull, Hand

\* What a handler keeps of its tick when it goes on to another statement.
LEMMA GoTyped ==
    ASSUME HandsFull, NEW w \in Ticks, NEW step \in TickStep, Go(w, step),
           step \in Holding => ticks[w].step \in Holding
    PROVE  HandsFull'
<1>1. [ticks[w] EXCEPT !.step = step] \in Hand
  BY DEF HandsFull, Hand, Tick
<1> QED
  BY <1>1 DEF Go, HandsFull

LEMMA FinishedTyped ==
    ASSUME HandsFull, lock \in Ticks \cup {NoTick}, NEW w \in Ticks, Finished(w)
    PROVE  HandsFull' /\ lock' \in Ticks \cup {NoTick}
BY NoWorkTyped DEF Finished, HandsFull

JobsTyped == queued \subseteq Kinds /\ dead \subseteq Kinds /\ lock \in Ticks \cup {NoTick}

\* How a statement that has no recipient in hand ends.
Leaves(w) ==
    \/ Finish(w)
    \/ \E kind \in Kinds : FinishAfter(w, kind)
    \/ \E step \in Onward : Go(w, step) /\ UNCHANGED jobVars
    \/ \E step \in Onward, kind \in Kinds : Go(w, step) /\ Schedule(kind)

LEMMA LeavesTyped ==
    ASSUME HandsFull, JobsTyped, NEW w \in Ticks, Leaves(w)
    PROVE  HandsFull' /\ JobsTyped'
<1>1. CASE Finish(w)
  BY <1>1, FinishedTyped DEF Finish, JobsTyped
<1>2. CASE \E kind \in Kinds : FinishAfter(w, kind)
  BY <1>2, FinishedTyped DEF FinishAfter, JobsTyped
<1>3. CASE \E step \in Onward : Go(w, step) /\ UNCHANGED jobVars
  <2>1. JobsTyped'
    BY <1>3 DEF JobsTyped, jobVars
  <2>2. PICK step \in Onward : Go(w, step)
    BY <1>3
  <2>3. step \in TickStep /\ (step \in Holding => ticks[w].step \in Holding)
    BY <2>2 DEF Onward
  <2>4. HandsFull'
    BY <2>2, <2>3, GoTyped
  <2> QED
    BY <2>1, <2>4
<1>4. CASE \E step \in Onward, kind \in Kinds : Go(w, step) /\ Schedule(kind)
  <2>1. JobsTyped'
    BY <1>4 DEF JobsTyped, Schedule
  <2>2. PICK step \in Onward : Go(w, step)
    BY <1>4
  <2>3. step \in TickStep /\ (step \in Holding => ticks[w].step \in Holding)
    BY <2>2 DEF Onward
  <2>4. HandsFull'
    BY <2>2, <2>3, GoTyped
  <2> QED
    BY <2>1, <2>4
<1> QED
  BY <1>1, <1>2, <1>3, <1>4 DEF Leaves

LEMMA SettledTyped ==
    ASSUME HandsFull, NEW w \in Ticks, NEW step \in Onward, Settled(w, step)
    PROVE  HandsFull'
<1>1. ticks[w].undecided \in BOOLEAN
  BY DEF HandsFull, Hand, Tick
<1>2. [NoWork EXCEPT !.step = step, !.undecided = ticks[w].undecided] \in Hand
  BY <1>1, NoWorkTyped DEF Tick, Hand, Onward
<1> QED
  BY <1>2 DEF Settled, HandsFull

-----------------------------------------------------------------------------
LEMMA OperatorTyped == Typed /\ Operator => Typed'
<1> SUFFICES ASSUME TypeOK, HandsFull, Operator PROVE TypeOK'
  <2>1. Operator => UNCHANGED ticks
    BY DEF Operator, AskLaunch, AskPause, AskResume, AskCancel, Ask, Freeze, Unbook, Set, Arm,
           Kick, Book, RequestDies
  <2> QED
    BY <2>1 DEF Typed, HandsFull
<1> USE DEF TypeOK, campaignVars, gatewayVars, jobVars, bounds
<1>p. ASSUME Proceed, Following \in {"idle", "unbook", "set", "arm", "kick", "book"}
      PROVE  request' \in Request
  BY <1>p, NoRequestTyped DEF Proceed, Request
<1>f. Following \in {"idle", "unbook", "set", "arm", "kick", "book"}
  <2>1. CASE request.step = "freeze"
    BY <2>1 DEF Following
  <2>2. CASE request.step = "unbook"
    BY <2>2 DEF Following
  <2>3. CASE request.step = "set"
    BY <2>3 DEF Following
  <2>4. CASE request.step = "arm"
    BY <2>4 DEF Following
  <2>5. CASE request.step \notin {"freeze", "unbook", "set", "arm"}
    BY <2>5 DEF Following
  <2> QED
    BY <2>1, <2>2, <2>3, <2>4, <2>5
<1>1. ASSUME NEW step \in {"freeze", "set", "unbook"}, NEW op \in Ops, Ask(step, op) PROVE TypeOK'
  <2>1. requests' \in 0 .. MaxRequests
    <3>1. requests \in 0 .. MaxRequests
      OBVIOUS
    <3>2. requests < MaxRequests /\ requests' = requests + 1
      BY <1>1 DEF Ask
    <3> QED
      BY ONLY <3>1, <3>2, BoundsTyped, Counted
  <2>2. request' \in Request
    BY <1>1 DEF Ask, Request
  <2> QED
    BY <1>1, <2>1, <2>2 DEF Ask
<1>2. CASE AskLaunch \/ AskPause \/ AskResume \/ AskCancel
  <2>1. {"launch now", "launch later", "pause", "resume", "cancel"} \subseteq Ops
    BY DEF Ops
  <2>2. \/ Ask("freeze", "launch now") \/ Ask("freeze", "launch later")
        \/ Ask("set", "pause") \/ Ask("set", "resume") \/ Ask("unbook", "cancel")
    BY <1>2 DEF AskLaunch, AskPause, AskResume, AskCancel
  <2> QED
    BY ONLY <1>1, <2>1, <2>2
<1>3. CASE Freeze
  <2>1. rec' \in [Recipients -> RecipientStatus]
    BY <1>3 DEF Freeze, RecipientStatus
  <2>2. request' \in Request
    <3>1. \A holds \in BOOLEAN :
            [request EXCEPT !.step = Following, !.holds = holds] \in Request
      BY <1>f DEF Request
    <3>2. CASE request' = NoRequest
      BY <3>2, NoRequestTyped
    <3>3. CASE request' # NoRequest
      <4>1. PICK hold \in SUBSET (Recipients \ optedOut) :
              request' = [request EXCEPT !.step = Following, !.holds = (hold # {})]
        BY <1>3, <3>3 DEF Freeze
      <4>2. (hold # {}) \in BOOLEAN
        OBVIOUS
      <4> QED
        BY <4>1, <4>2, <3>1
    <3> QED
      BY <3>2, <3>3
  <2> QED
    BY <1>3, <2>1, <2>2 DEF Freeze
<1>4. CASE Unbook
  BY <1>4, <1>p, <1>f DEF Unbook
<1>5. CASE Set
  <2>1. status' \in Status
    BY <1>5 DEF Set, Request, Ops, Status
  <2> QED
    <3>1. streak' \in 0 .. FailLimit
      <4>1. streak \in 0 .. FailLimit
        OBVIOUS
      <4>2. streak' = 0 \/ streak' = streak
        BY <1>5 DEF Set
      <4> QED
        BY ONLY <4>1, <4>2, BoundsTyped, Counted
    <3>2. request' \in Request
      BY <1>5, <1>p, <1>f DEF Set
    <3> QED
      BY <1>5, <2>1, <3>1, <3>2 DEF Set
<1>6. CASE Arm
  BY <1>6, <1>p, <1>f DEF Arm, Schedule, Kinds
<1>7. CASE Kick
  BY <1>7, <1>p, <1>f DEF Kick, Schedule, Kinds
<1>8. CASE Book
  BY <1>8, <1>p, <1>f DEF Book, Schedule, Kinds
<1>9. CASE RequestDies
  <2>1. CASE request.step \in {"arm", "kick"}
    BY <1>9, <2>1, NoRequestTyped, FaultTyped DEF RequestDies
  <2>2. CASE request.step = "book"
    BY <1>9, <2>2, NoRequestTyped, FaultTyped DEF RequestDies
  <2>3. CASE request.step \notin {"arm", "kick", "book"} /\ Unbooked
    BY <1>9, <2>3, NoRequestTyped, FaultTyped DEF RequestDies
  <2>4. CASE request.step \notin {"arm", "kick", "book"} /\ ~Unbooked
    BY <1>9, <2>4, NoRequestTyped, FaultTyped DEF RequestDies
  <2> QED
    BY <2>1, <2>2, <2>3, <2>4
<1> QED
  BY <1>2, <1>3, <1>4, <1>5, <1>6, <1>7, <1>8, <1>9 DEF Operator

-----------------------------------------------------------------------------
LEMMA RunnerTyped ==
    ASSUME Typed, NEW w \in Ticks, NEW kind \in Kinds,
           Begin(w, kind) \/ Reap(kind) \/ Crash(w) \/ Throw(w) \/ LoseLock(w)
    PROVE  Typed'
<1> SUFFICES TypeOK' /\ HandsFull'
  BY DEF Typed
<1> USE DEF TypeOK, campaignVars, gatewayVars, jobVars, bounds
<1>t. TypeOK /\ HandsFull
  BY DEF Typed
<1>k. ticks[w] \in Tick /\ ticks[w].kind \in Kinds
  BY <1>t DEF Tick
<1>b. Fault => faults' \in 0 .. MaxFaults
  BY <1>t, FaultTyped
<1>u. Undone(w) \subseteq {"remainder lost", "batch lost"}
  BY DEF Undone
<1>1. CASE Begin(w, kind)
  <2>1. First(kind) \in TickStep /\ First(kind) \notin Holding
    BY DEF First, TickStep, Kinds, Holding
  <2>2. [NoWork EXCEPT !.step = First(kind), !.kind = kind] \in Hand
    BY <2>1, NoWorkTyped DEF Tick, Hand
  <2>3. HandsFull'
    BY <1>1, <1>t, <2>2 DEF Begin, HandsFull
  <2> QED
    BY <1>1, <1>t, <2>3, HandsTyped DEF Begin
<1>2. CASE Reap(kind)
  BY <1>2, <1>t DEF Reap, HandsFull
<1>3. CASE Crash(w)
  <2>1. HandsFull'
    BY <1>3, <1>t, NoWorkTyped DEF Crash, HandsFull
  <2>2. lost' \subseteq Recipients
    BY <1>3, <1>t DEF Crash, HandsFull, Hand, Holding, At
  <2> QED
    BY <1>3, <1>t, <2>1, <2>2, <1>b, <1>u, <1>k, HandsTyped DEF Crash
<1>4. CASE Throw(w)
  <2>1. HandsFull' /\ lock' \in Ticks \cup {NoTick}
    BY <1>4, <1>t, FinishedTyped DEF Throw
  <2>2. excuse' \subseteq {"batch lost", "launch lost", "remainder lost", "overlap"}
    <3>1. CASE ticks[w].kind = "decide"
      BY <1>4, <1>t, <1>u, <3>1 DEF Throw
    <3>2. CASE ticks[w].kind = "launch"
      BY <1>4, <1>t, <1>u, <3>2 DEF Throw
    <3>3. CASE ticks[w].kind = "batch"
      BY <1>4, <1>t, <1>u, <3>3 DEF Throw
    <3> QED
      BY <3>1, <3>2, <3>3, <1>k DEF Kinds
  <2>3. status' \in Status /\ queued' \subseteq Kinds
    BY <1>4, <1>t, <1>k DEF Throw, Status
  <2> QED
    BY <1>4, <1>t, <2>1, <2>2, <2>3, <1>b, HandsTyped DEF Throw
<1>5. CASE LoseLock(w)
  BY <1>5, <1>t, <1>b, <1>k DEF LoseLock, HandsFull
<1> QED
  BY <1>1, <1>2, <1>3, <1>4, <1>5

LEMMA LaunchTyped ==
    ASSUME Typed, NEW w \in Ticks, LaunchScheduled(w) \/ DecideAbWinner(w) \/ KickBatch(w)
    PROVE  Typed'
<1> SUFFICES TypeOK' /\ HandsFull'
  BY DEF Typed
<1>t. TypeOK /\ HandsFull /\ JobsTyped
  BY DEF Typed, TypeOK, JobsTyped
<1>k. Kinds = {"launch", "decide", "batch"}
  BY DEF Kinds
<1>s. {"rearm", "kick", "elect", "release"} \subseteq Onward
  BY DEF Onward, TickStep, Holding
<1>g. Leaves(w) => HandsFull' /\ JobsTyped' /\ ticks' \in [Ticks -> Tick]
  BY <1>t, LeavesTyped, HandsTyped
<1> USE DEF campaignVars, gatewayVars, bounds
<1>1. CASE FlipSending(w)
  <2>1. Leaves(w)
    BY <1>1, <1>s DEF FlipSending, Leaves
  <2>2. status' \in Status
    BY <1>1, <1>t DEF FlipSending, TypeOK, Status
  <2> QED
    BY <1>1, <1>t, <1>g, <2>1, <2>2 DEF FlipSending, TypeOK, JobsTyped
<1>2. CASE Rearm(w)
  <2>1. Leaves(w)
    BY <1>2, <1>s, <1>k DEF Rearm, Leaves
  <2> QED
    BY <1>2, <1>t, <1>g, <2>1 DEF Rearm, TypeOK, JobsTyped
<1>3. CASE Look(w)
  <2>1. Leaves(w)
    BY <1>3, <1>s DEF Look, Leaves
  <2> QED
    BY <1>3, <1>t, <1>g, <2>1 DEF Look, TypeOK, JobsTyped
<1>4. CASE Elect(w)
  <2>1. Leaves(w)
    BY <1>4, <1>s DEF Elect, Leaves
  <2> QED
    BY <1>4, <1>t, <1>g, <2>1 DEF Elect, TypeOK, JobsTyped
<1>5. CASE Release(w)
  <2>1. Leaves(w)
    BY <1>5, <1>s DEF Release, Leaves
  <2>2. rec' \in [Recipients -> RecipientStatus]
    BY <1>5, <1>t DEF Release, TypeOK, RecipientStatus
  <2> QED
    BY <1>5, <1>t, <1>g, <2>1, <2>2 DEF Release, TypeOK, JobsTyped
<1>6. CASE KickBatch(w)
  <2>1. Leaves(w)
    BY <1>6, <1>k DEF KickBatch, Leaves
  <2> QED
    BY <1>6, <1>t, <1>g, <2>1 DEF KickBatch, TypeOK, JobsTyped
<1> QED
  BY <1>1, <1>2, <1>3, <1>4, <1>5, <1>6 DEF LaunchScheduled, DecideAbWinner

LEMMA BatchTyped ==
    ASSUME Typed, NEW w \in Ticks, Batch(w)
    PROVE  Typed'
<1> SUFFICES TypeOK' /\ HandsFull'
  BY DEF Typed
<1>t. TypeOK /\ HandsFull /\ JobsTyped
  BY DEF Typed, TypeOK, JobsTyped
<1>w. ticks[w] \in Hand /\ ticks[w] \in Tick
  BY <1>t DEF HandsFull, Hand
<1>k. Kinds = {"launch", "decide", "batch"}
  BY DEF Kinds
<1>s. {"reclaim", "list", "loop", "streak", "count", "held", "close"} \subseteq Onward
  BY DEF Onward, TickStep, Holding
<1>h. {"check", "ask", "mark"} \subseteq TickStep \cap Holding
  BY DEF Onward, TickStep, Holding
<1>o. Is("SENT") \in Outcome /\ Is("SKIPPED") \in Outcome /\ [Is("RETRY") EXCEPT !.stop = TRUE] \in Outcome
  BY Outcomes
<1>g. Leaves(w) => HandsFull' /\ JobsTyped' /\ ticks' \in [Ticks -> Tick]
  BY <1>t, LeavesTyped, HandsTyped
<1>u. ASSUME NEW t \in Hand, ticks' = [ticks EXCEPT ![w] = t]
      PROVE  HandsFull' /\ ticks' \in [Ticks -> Tick]
  BY <1>t, <1>u, HandsTyped DEF HandsFull
<1>e. ASSUME NEW step \in Onward, Settled(w, step)
      PROVE  HandsFull' /\ ticks' \in [Ticks -> Tick]
  BY <1>t, <1>e, SettledTyped, HandsTyped
<1> USE DEF campaignVars, gatewayVars, bounds
<1>1. CASE Read(w)
  <2>1. CASE status = "SENDING" /\ ~blocked
    <3> DEFINE t == [ticks[w] EXCEPT !.step = "reclaim", !.undecided = ~decided]
    <3>1. t \in Hand
      BY <1>w, <1>t, <1>s DEF Onward, Hand, Tick, TypeOK
    <3>2. ticks' = [ticks EXCEPT ![w] = t] /\ UNCHANGED jobVars
      BY <1>1, <1>t, <1>w, <2>1 DEF Read, HandsFull
    <3> QED
      BY <1>1, <1>t, <1>u, <2>1, <3>1, <3>2 DEF Read, TypeOK, jobVars
  <2>2. CASE ~(status = "SENDING" /\ ~blocked)
    <3>1. Leaves(w)
      BY <1>1, <2>2 DEF Read, Leaves
    <3> QED
      BY <1>1, <1>t, <1>g, <3>1 DEF Read, TypeOK, JobsTyped
  <2> QED
    BY <2>1, <2>2
<1>2. CASE Reclaim(w)
  <2>1. Leaves(w)
    BY <1>2, <1>s DEF Reclaim, Leaves
  <2>2. rec' \in [Recipients -> RecipientStatus]
    BY <1>2, <1>t DEF Reclaim, Reclaimed, TypeOK, RecipientStatus
  <2> QED
    BY <1>2, <1>t, <1>g, <2>1, <2>2 DEF Reclaim, TypeOK, JobsTyped
<1>3. CASE List(w)
  <2> DEFINE t == [ticks[w] EXCEPT !.todo = Having("PENDING"),
                                   !.step = IF Having("PENDING") = {} THEN "held" ELSE "loop"]
  <2>1. t \in Hand
    BY <1>w, <1>s DEF Onward, Hand, Tick, Having
  <2>2. ticks' = [ticks EXCEPT ![w] = t]
    BY <1>3, <1>w, <1>t DEF List, HandsFull
  <2> QED
    BY <1>3, <1>t, <1>u, <2>1, <2>2 DEF List, TypeOK, jobVars
<1>4. ASSUME NEW r \in Recipients, Turn(w, r) PROVE TypeOK' /\ HandsFull'
  <2>1. CASE ClaimRow(w, r)
    <3> DEFINE t == [ticks[w] EXCEPT !.todo = ticks[w].todo \ {r}, !.cur = r, !.claimed = TRUE,
                                     !.step = "check"]
    <3>1. t \in Hand
      BY <1>w, <1>h DEF Hand, Tick
    <3>2. ticks' = [ticks EXCEPT ![w] = t]
      BY <1>4, <1>w, <1>t, <2>1 DEF Turn, HandsFull
    <3>3. rec' \in [Recipients -> RecipientStatus]
      BY <1>4, <1>t, <2>1 DEF Turn, TypeOK, RecipientStatus
    <3> QED
      BY <1>4, <1>t, <1>u, <3>1, <3>2, <3>3 DEF Turn, TypeOK, jobVars
  <2>2. CASE ~ClaimRow(w, r)
    <3> DEFINE t == [ticks[w] EXCEPT !.todo = ticks[w].todo \ {r}]
    <3>1. t \in Hand
      BY <1>w DEF Hand, Tick
    <3>2. ticks' = [ticks EXCEPT ![w] = t] /\ UNCHANGED rec
      BY <1>4, <1>w, <1>t, <2>2 DEF Turn, HandsFull
    <3> QED
      BY <1>4, <1>t, <1>u, <3>1, <3>2 DEF Turn, TypeOK, jobVars
  <2> QED
    BY <2>1, <2>2
<1>5. CASE Leave(w)
  <2>1. CASE ticks[w].sent \/ ticks[w].back
    <3> DEFINE t == [ticks[w] EXCEPT !.todo = {}, !.step = "streak"]
    <3>1. t \in Hand
      BY <1>w, <1>s DEF Onward, Hand, Tick
    <3>2. ticks' = [ticks EXCEPT ![w] = t]
      BY <1>5, <1>w, <1>t, <2>1 DEF Leave, HandsFull
    <3> QED
      BY <1>5, <1>t, <1>u, <3>1, <3>2 DEF Leave, TypeOK, jobVars
  <2>2. CASE ~(ticks[w].sent \/ ticks[w].back)
    <3>1. Settled(w, "count")
      BY <1>5, <2>2 DEF Leave
    <3> QED
      BY <1>5, <1>t, <1>e, <1>s, <3>1 DEF Leave, TypeOK, jobVars
  <2> QED
    BY <2>1, <2>2
<1>6. CASE Check(w)
  <2>1. \E t \in Hand : ticks' = [ticks EXCEPT ![w] = t]
    <3> DEFINE mark(out) == [ticks[w] EXCEPT !.step = "mark", !.out = out]
               ask == [ticks[w] EXCEPT !.step = "ask"]
    <3>1. ticks[w].cur \in Recipients
      BY <1>6, <1>w, <1>h DEF Check, At, Hand
    <3>2. ask \in Hand /\ \A out \in Outcome : mark(out) \in Hand
      BY <1>w, <1>h, <3>1 DEF Hand, Tick
    <3>3. \/ ticks' = [ticks EXCEPT ![w] = ask]
          \/ ticks' = [ticks EXCEPT ![w] = mark(Is("SKIPPED"))]
          \/ ticks' = [ticks EXCEPT ![w] = mark([Is("RETRY") EXCEPT !.stop = TRUE])]
      BY <1>6, <1>w, <1>t DEF Check, Go, HandsFull
    <3> QED
      BY <1>o, <3>2, <3>3
  <2>2. used' \in Nat
    <3>1. used \in Nat
      BY <1>t DEF TypeOK
    <3>2. used' = used \/ used' = used + 1
      BY <1>6 DEF Check
    <3> QED
      BY ONLY <3>1, <3>2
  <2> QED
    BY <1>6, <1>t, <1>u, <2>1, <2>2 DEF Check, TypeOK, jobVars
<1>7. CASE Mark(w)
  <2>1. \E t \in Hand : ticks' = [ticks EXCEPT ![w] = t]
    <3> DEFINE todo == IF ticks[w].out.stop THEN {} ELSE ticks[w].todo
               sent == ticks[w].sent \/ ticks[w].out.is = "SENT"
               back == ticks[w].back \/ (ticks[w].out.is = "RETRY" /\ ~ticks[w].out.defer)
               t == [ticks[w] EXCEPT !.step = "loop", !.cur = NoRecipient, !.out = Is("SENT"),
                                     !.write = "PENDING", !.row = TRUE, !.todo = todo, !.sent = sent,
                                     !.back = back]
    <3>1. todo \in SUBSET Recipients /\ sent \in BOOLEAN /\ back \in BOOLEAN
      BY <1>w DEF Tick
    <3>2. ticks' = [ticks EXCEPT ![w] = t]
      BY <1>7, <1>w, <1>t DEF Mark, HandsFull
    <3> HIDE DEF todo, sent, back
    <3>3. t \in Hand
      BY <1>w, <1>s, <1>o, <3>1 DEF Onward, Hand, Tick
    <3> QED
      BY <3>2, <3>3
  <2>2. rec' \in [Recipients -> RecipientStatus]
    <3>1. ticks[w].cur \in Recipients /\ ticks[w].out.is \in {"SENT", "SKIPPED", "FAILED", "RETRY"}
      BY <1>7, <1>w, <1>h DEF Mark, At, Hand, Tick, Outcome
    <3>2. Marked(w) \in RecipientStatus
      BY <1>t, <3>1 DEF Marked, RecipientStatus, TypeOK
    <3> QED
      BY <1>7, <1>t, <3>2 DEF Mark, TypeOK
  <2> QED
    BY <1>7, <1>t, <1>u, <2>1, <2>2 DEF Mark, TypeOK, jobVars
<1>8. CASE Streak(w)
  <2>1. streak' \in 0 .. FailLimit
    <3>1. streak \in 0 .. FailLimit
      BY <1>t DEF TypeOK
    <3>2. \/ streak' = 0 \/ streak' = streak \/ streak' = FailLimit
          \/ streak + 1 < FailLimit /\ streak' = streak + 1
      BY <1>8 DEF Streak
    <3> QED
      BY ONLY <3>1, <3>2, BoundsTyped
  <2>2. HandsFull' /\ JobsTyped' /\ ticks' \in [Ticks -> Tick]
    <3>1. CASE Settled(w, "count") /\ UNCHANGED jobVars
      BY <1>t, <1>e, <1>s, <3>1 DEF JobsTyped, jobVars
    <3>2. CASE Finish(w)
      BY <1>g, <3>2 DEF Leaves
    <3> QED
      BY <1>8, <3>1, <3>2 DEF Streak
  <2>3. status' \in Status
    BY <1>8, <1>t DEF Streak, TypeOK, Status
  <2> QED
    BY <1>8, <1>t, <2>1, <2>2, <2>3 DEF Streak, TypeOK, JobsTyped
<1>9. CASE Count(w) \/ Held(w) \/ Close(w)
  <2>1. Leaves(w)
    BY <1>9, <1>s, <1>k DEF Count, Held, Close, Leaves
  <2>2. status' \in Status
    BY <1>9, <1>t DEF Count, Held, Close, TypeOK, Status
  <2> QED
    BY <1>9, <1>t, <1>g, <2>1, <2>2 DEF Count, Held, Close, TypeOK, JobsTyped
<1> QED
  BY <1>1, <1>2, <1>3, <1>4, <1>5, <1>6, <1>7, <1>8, <1>9 DEF Batch

LEMMA SendMailTyped ==
    ASSUME Typed, NEW w \in Ticks, SendMail(w)
    PROVE  Typed'
<1> SUFFICES TypeOK' /\ HandsFull'
  BY DEF Typed
<1>t. TypeOK /\ HandsFull
  BY DEF Typed
<1>w. ticks[w] \in Hand /\ ticks[w] \in Tick
  BY <1>t DEF HandsFull, Hand
<1>r. ticks[w].cur \in Recipients
  BY <1>w DEF SendMail, AskGateway, Open, Reopen, Dispatch, Settle, Refund, At, Hand, Holding
<1>h. {"open", "reopen", "dispatch", "settle", "refund", "mark"} \subseteq TickStep
  BY DEF TickStep
<1>o. Is("SENT") \in Outcome /\ Is("RETRY") \in Outcome
      /\ Refusals \subseteq Outcome /\ Failures \subseteq Outcome
  BY Outcomes
<1>u. ASSUME NEW t \in Hand, ticks' = [ticks EXCEPT ![w] = t]
      PROVE  HandsFull' /\ ticks' \in [Ticks -> Tick]
  BY <1>t, <1>u, HandsTyped DEF HandsFull
<1>s. \A step \in TickStep : [ticks[w] EXCEPT !.step = step] \in Hand
  BY <1>w, <1>r DEF Hand, Tick
<1>m. \A step \in TickStep, out \in Outcome :
        [ticks[w] EXCEPT !.step = step, !.out = out] \in Hand
  BY <1>w, <1>r DEF Hand, Tick
<1>g. ASSUME NEW step \in TickStep, Go(w, step)
      PROVE  HandsFull' /\ ticks' \in [Ticks -> Tick]
  <2>1. ticks' = [ticks EXCEPT ![w] = [ticks[w] EXCEPT !.step = step]]
    BY <1>g, <1>w, <1>t DEF Go, HandsFull
  <2> QED
    BY <1>s, <1>u, <2>1
<1>a. ASSUME NEW step \in TickStep, NEW out \in Outcome,
             ticks' = [ticks EXCEPT ![w].step = step, ![w].out = out]
      PROVE  HandsFull' /\ ticks' \in [Ticks -> Tick]
  <2>1. ticks' = [ticks EXCEPT ![w] = [ticks[w] EXCEPT !.step = step, !.out = out]]
    BY <1>a, <1>w, <1>t DEF HandsFull
  <2> QED
    BY <1>m, <1>u, <2>1
<1>n. Then(w) \in TickStep
  BY DEF Then, TickStep
<1>p. ticks[w].write \in LedgerStatus
  BY <1>w DEF Tick, LedgerStatus
<1> USE DEF campaignVars, jobVars, bounds
<1>1. CASE AskGateway(w)
  <2>1. HandsFull' /\ ticks' \in [Ticks -> Tick]
    <3> DEFINE send == [ticks[w] EXCEPT !.step = "open", !.write = "PENDING"]
               refuse(out) == [ticks[w] EXCEPT !.step = "open", !.write = "FAILED", !.out = out]
    <3>1. send \in Hand /\ \A out \in Outcome : refuse(out) \in Hand
      BY <1>w, <1>r, <1>h DEF Hand, Tick
    <3>2. CASE \/ ticks' = [ticks EXCEPT ![w].step = "refund", ![w].out = Is("SENT")]
               \/ ticks' = [ticks EXCEPT ![w].step = "refund", ![w].out = Is("RETRY")]
      BY <1>a, <1>h, <1>o, <3>2
    <3>3. CASE ticks' = [ticks EXCEPT ![w].step = "open", ![w].write = "PENDING"]
      <4>1. ticks' = [ticks EXCEPT ![w] = send]
        BY <1>w, <1>t, <3>3 DEF HandsFull
      <4> QED
        BY <1>u, <3>1, <4>1
    <3>4. ASSUME NEW out \in Refusals,
                 ticks' = [ticks EXCEPT ![w].step = "open", ![w].write = "FAILED", ![w].out = out]
          PROVE  HandsFull' /\ ticks' \in [Ticks -> Tick]
      <4>1. ticks' = [ticks EXCEPT ![w] = refuse(out)]
        BY <1>w, <1>t, <3>4 DEF HandsFull
      <4> QED
        BY <1>u, <1>o, <3>1, <4>1
    <3> QED
      BY <1>1, <3>2, <3>3, <3>4 DEF AskGateway
  <2>2. faults' \in 0 .. MaxFaults
    BY <1>1, <1>t, FaultTyped DEF AskGateway, TypeOK
  <2> QED
    BY <1>1, <1>t, <2>1, <2>2 DEF AskGateway, TypeOK, gatewayVars
<1>2. CASE Open(w)
  <2>1. HandsFull' /\ ticks' \in [Ticks -> Tick]
    <3>1. CASE Go(w, Then(w)) \/ Go(w, "reopen")
      BY <1>g, <1>n, <1>h, <3>1
    <3>2. ASSUME NEW out \in Outcome, ticks' = [ticks EXCEPT ![w].step = "refund", ![w].out = out]
          PROVE  HandsFull' /\ ticks' \in [Ticks -> Tick]
      BY <1>a, <1>h, <3>2
    <3>3. (IF ticks[w].write = "PENDING" THEN Is("SENT") ELSE ticks[w].out) \in Outcome
      BY <1>w, <1>o DEF Tick
    <3>4. CASE ticks' = [ticks EXCEPT ![w].step = Then(w), ![w].row = FALSE]
      <4> DEFINE t == [ticks[w] EXCEPT !.step = Then(w), !.row = FALSE]
      <4>1. t \in Hand
        BY <1>w, <1>r, <1>n DEF Hand, Tick
      <4>2. ticks' = [ticks EXCEPT ![w] = t]
        BY <1>w, <1>t, <3>4 DEF HandsFull
      <4> QED
        BY <1>u, <4>1, <4>2
    <3> QED
      BY <1>2, <3>1, <3>2, <3>3, <3>4 DEF Open
  <2>2. ledger' \in [Recipients -> LedgerStatus]
    BY <1>2, <1>t, <1>p DEF Open, Insert, TypeOK
  <2>3. fresh' \subseteq Recipients /\ guessed' \subseteq Recipients
    BY <1>2, <1>t, <1>r DEF Open, Insert, TypeOK
  <2>4. lost' \subseteq Recipients /\ faults' \in 0 .. MaxFaults
    BY <1>2, <1>t, <1>r, FaultTyped DEF Open, LoseTrack, TypeOK
  <2> QED
    BY <1>2, <1>t, <2>1, <2>2, <2>3, <2>4 DEF Open, TypeOK
<1>3. CASE Reopen(w)
  <2>1. HandsFull' /\ ticks' \in [Ticks -> Tick]
    BY <1>3, <1>g, <1>n DEF Reopen
  <2>2. ledger' \in [Recipients -> LedgerStatus]
    BY <1>3, <1>t, <1>p DEF Reopen, TypeOK
  <2>3. fresh' \subseteq Recipients /\ lost' \subseteq Recipients /\ faults' \in 0 .. MaxFaults
    BY <1>3, <1>t, <1>r, FaultTyped DEF Reopen, LoseTrack, TypeOK
  <2> QED
    BY <1>3, <1>t, <2>1, <2>2, <2>3 DEF Reopen, TypeOK
<1>4. CASE Dispatch(w)
  <2>1. HandsFull' /\ ticks' \in [Ticks -> Tick]
    <3>1. \E out \in Outcome : ticks' = [ticks EXCEPT ![w].step = "settle", ![w].out = out]
      BY <1>4, <1>o DEF Dispatch
    <3> QED
      BY <1>a, <1>h, <3>1
  <2>2. mailed' \in [Recipients -> Nat]
    <3>1. mailed \in [Recipients -> Nat]
      BY <1>t DEF TypeOK
    <3>2. mailed' = mailed \/ mailed' = [mailed EXCEPT ![ticks[w].cur] = @ + 1]
      BY <1>4 DEF Dispatch
    <3> QED
      BY ONLY <3>1, <3>2
  <2>3. lost' \subseteq Recipients /\ faults' \in 0 .. MaxFaults
    BY <1>4, <1>t, <1>r, FaultTyped DEF Dispatch, TypeOK
  <2> QED
    BY <1>4, <1>t, <2>1, <2>2, <2>3 DEF Dispatch, TypeOK
<1>5. CASE Settle(w)
  <2>1. HandsFull' /\ ticks' \in [Ticks -> Tick]
    BY <1>5, <1>g, <1>h DEF Settle
  <2>2. ledger' \in [Recipients -> LedgerStatus]
    BY <1>5, <1>t DEF Settle, TypeOK, LedgerStatus
  <2>3. fresh' \subseteq Recipients /\ lost' \subseteq Recipients /\ faults' \in 0 .. MaxFaults
    BY <1>5, <1>t, <1>r, FaultTyped DEF Settle, TypeOK
  <2> QED
    BY <1>5, <1>t, <2>1, <2>2, <2>3 DEF Settle, TypeOK
<1>6. CASE Refund(w)
  <2>1. HandsFull' /\ ticks' \in [Ticks -> Tick]
    BY <1>6, <1>g, <1>h DEF Refund
  <2>2. used' \in Nat /\ faults' \in 0 .. MaxFaults
    <3>1. used \in Nat /\ faults \in 0 .. MaxFaults
      BY <1>t DEF TypeOK
    <3>2. \/ used' = Refunded /\ faults' = faults
          \/ Fault /\ used' = used
      BY <1>6 DEF Refund
    <3> QED
      BY ONLY <3>1, <3>2, FaultTyped DEF Refunded
  <2> QED
    BY <1>6, <1>t, <2>1, <2>2 DEF Refund, TypeOK, gatewayVars
<1> QED
  BY <1>1, <1>2, <1>3, <1>4, <1>5, <1>6 DEF SendMail

LEMMA OutsideTyped ==
    ASSUME Typed, Block \/ \E r \in Recipients : Elapse(r) \/ OptOut(r) \/ Unsubscribe(r)
    PROVE  Typed'
<1> SUFFICES TypeOK' /\ HandsFull'
  BY DEF Typed
<1>t. TypeOK /\ HandsFull
  BY DEF Typed
<1> USE DEF campaignVars, jobVars, bounds, gatewayVars
<1>1. ASSUME NEW r \in Recipients, Elapse(r) PROVE TypeOK' /\ HandsFull'
  BY <1>1, <1>t DEF Elapse, TypeOK, HandsFull
<1>2. ASSUME NEW r \in Recipients, OptOut(r) PROVE TypeOK' /\ HandsFull'
  BY <1>2, <1>t DEF OptOut, TypeOK, HandsFull
<1>3. ASSUME NEW r \in Recipients, Unsubscribe(r) PROVE TypeOK' /\ HandsFull'
  <2>1. rec' \in [Recipients -> RecipientStatus]
    BY <1>3, <1>t DEF Unsubscribe, TypeOK, RecipientStatus
  <2> QED
    BY <1>3, <1>t, <2>1 DEF Unsubscribe, TypeOK, HandsFull
<1>4. CASE Block
  <2>1. blocks' \in 0 .. MaxBlocks
    <3>1. blocks \in 0 .. MaxBlocks /\ blocks < MaxBlocks /\ blocks' = blocks + 1
      BY <1>4, <1>t DEF Block, TypeOK
    <3> QED
      BY ONLY <3>1, BoundsTyped
  <2> QED
    BY <1>4, <1>t, <2>1 DEF Block, TypeOK, HandsFull
<1> QED
  BY <1>1, <1>2, <1>3, <1>4

LEMMA TypedStep == Typed /\ [Next]_vars => Typed'
<1> SUFFICES ASSUME Typed, [Next]_vars PROVE Typed'
  OBVIOUS
<1>1. CASE Operator
  BY <1>1, OperatorTyped
<1>2. ASSUME NEW w \in Ticks, NEW kind \in Kinds,
             Begin(w, kind) \/ Reap(kind) \/ Crash(w) \/ Throw(w) \/ LoseLock(w)
      PROVE  Typed'
  BY <1>2, RunnerTyped
<1>3. ASSUME NEW kind \in Kinds, Reap(kind) PROVE Typed'
  BY <1>3 DEF Reap, Typed, TypeOK, HandsFull, campaignVars, gatewayVars, bounds
<1>4. ASSUME NEW w \in Ticks, LaunchScheduled(w) \/ DecideAbWinner(w) \/ KickBatch(w)
      PROVE  Typed'
  BY <1>4, LaunchTyped
<1>5. ASSUME NEW w \in Ticks, Batch(w) PROVE Typed'
  BY <1>5, BatchTyped
<1>6. ASSUME NEW w \in Ticks, SendMail(w) PROVE Typed'
  BY <1>6, SendMailTyped
<1>7. CASE Block \/ \E r \in Recipients : Elapse(r) \/ OptOut(r) \/ Unsubscribe(r)
  BY <1>7, OutsideTyped
<1>8. CASE UNCHANGED vars
  BY <1>8 DEF vars, Typed, TypeOK, HandsFull
<1>9. "batch" \in Kinds
  BY DEF Kinds
<1> QED
  BY <1>1, <1>2, <1>3, <1>4, <1>5, <1>6, <1>7, <1>8, <1>9 DEF Next

LEMMA TypedInit == Init => Typed
<1> SUFFICES ASSUME Init PROVE Typed
  OBVIOUS
<1>1. HandsFull
  BY NoWorkTyped DEF Init, HandsFull
<1>2. winnerMode \in BOOLEAN
  <2>1. WinnerModes \subseteq BOOLEAN
    BY CampaignAssumption, Zenon DEF CampaignAssumption
  <2> QED
    BY <2>1, Zenon DEF Init
<1>3. streak \in 0 .. FailLimit /\ faults \in 0 .. MaxFaults /\ requests \in 0 .. MaxRequests
      /\ blocks \in 0 .. MaxBlocks
  BY BoundsTyped, Counted DEF Init
<1>4. TypeOK
  BY <1>1, <1>2, <1>3, HandsTyped, NoRequestTyped
     DEF Init, TypeOK, Status, RecipientStatus, LedgerStatus
<1> QED
  BY <1>1, <1>4 DEF Typed

\* Every variable keeps its shape.
THEOREM TypeCorrect == Spec => []TypeOK
<1>1. Typed => TypeOK
  BY DEF Typed
<1> QED
  BY <1>1, TypedInit, TypedStep, PTL DEF Spec

-----------------------------------------------------------------------------
\* What a step does to the row of a recipient.
RowMoves(r) ==
    \/ rec'[r] = rec[r]
    \/ rec[r] # "UNSUBSCRIBED" /\ rec'[r] # "SENT"
    \/ rec'[r] = "UNSUBSCRIBED"
    \/ \E w \in Ticks : /\ At(w, "mark") /\ ticks[w].cur = r
                       /\ ticks[w].out.is # "RETRY" /\ rec'[r] = ticks[w].out.is

LEMMA RowSteps ==
    ASSUME Typed, [Next]_vars, NEW r \in Recipients
    PROVE  RowMoves(r)
<1>t. rec \in [Recipients -> RecipientStatus]
  BY DEF Typed, TypeOK
<1>1. CASE UNCHANGED rec
  BY <1>1 DEF RowMoves
<1>2. CASE Freeze
  BY <1>2, <1>t DEF Freeze, RowMoves
<1>3. CASE \E w \in Ticks : Release(w) \/ Reclaim(w)
  BY <1>3, <1>t DEF Release, Reclaim, Reclaimed, RowMoves
<1>4. CASE \E w \in Ticks, x \in Recipients : Turn(w, x)
  BY <1>4, <1>t DEF Turn, ClaimRow, RowMoves
<1>5. ASSUME NEW w \in Ticks, Mark(w) PROVE RowMoves(r)
  <2>1. rec' = [rec EXCEPT ![ticks[w].cur] = Marked(w)] /\ At(w, "mark")
    BY <1>5 DEF Mark
  <2>2. CASE ticks[w].cur # r
    BY <1>t, <2>1, <2>2 DEF RowMoves
  <2>3. CASE ticks[w].cur = r
    BY <1>t, <2>1, <2>3 DEF RowMoves, Marked
  <2> QED
    BY <2>2, <2>3
<1>6. CASE \E x \in Recipients : Unsubscribe(x)
  BY <1>6, <1>t DEF Unsubscribe, RowMoves
<1>7. CASE Operator /\ ~Freeze
  BY <1>1, <1>7 DEF Operator, AskLaunch, AskPause, AskResume, AskCancel, Ask, Unbook, Set, Arm, Kick,
                    Book, RequestDies
<1>8. ASSUME NEW w \in Ticks, NEW kind \in Kinds, Begin(w, kind) PROVE RowMoves(r)
  BY <1>1, <1>8 DEF Begin
<1>9. ASSUME NEW w \in Ticks, Crash(w) \/ Throw(w) \/ LoseLock(w) PROVE RowMoves(r)
  BY <1>1, <1>9 DEF Crash, Throw, LoseLock
<1>10. ASSUME NEW w \in Ticks, LaunchScheduled(w) \/ DecideAbWinner(w) \/ KickBatch(w)
       PROVE  RowMoves(r)
  BY <1>1, <1>3, <1>10 DEF LaunchScheduled, FlipSending, Rearm, DecideAbWinner, Look, Elect, KickBatch
<1>11. ASSUME NEW w \in Ticks, Batch(w) PROVE RowMoves(r)
  BY <1>1, <1>3, <1>4, <1>5, <1>11 DEF Batch, Read, List, Leave, Check, Streak, Count, Held, Close
<1>12. ASSUME NEW w \in Ticks, SendMail(w) PROVE RowMoves(r)
  BY <1>1, <1>12 DEF SendMail, AskGateway, Open, Reopen, Dispatch, Settle, Refund
<1>13. ASSUME NEW x \in Recipients, Elapse(x) \/ OptOut(x) PROVE RowMoves(r)
  BY <1>1, <1>13 DEF Elapse, OptOut
<1>14. ASSUME NEW kind \in Kinds, Reap(kind) PROVE RowMoves(r)
  BY <1>1, <1>14 DEF Reap
<1>15. CASE Block
  BY <1>1, <1>15 DEF Block
<1>16. CASE UNCHANGED vars
  BY <1>1, <1>16 DEF vars
<1> QED
  BY <1>2, <1>6, <1>7, <1>8, <1>9, <1>10, <1>11, <1>12, <1>13, <1>14, <1>15, <1>16 DEF Next

\* Nobody who used the link of a mail is put back into the queue.
THEOREM UnsubscribedStays == Spec => UnsubscribedStaysOut
<1>1. ASSUME Typed, [Next]_vars
      PROVE  [\A r \in Recipients :
                rec[r] = "UNSUBSCRIBED" => rec'[r] \notin {"PENDING", "SENDING"}]_vars
  <2>1. ASSUME NEW r \in Recipients, rec[r] = "UNSUBSCRIBED"
        PROVE  rec'[r] \notin {"PENDING", "SENDING"}
    <3>1. RowMoves(r)
      BY <1>1, RowSteps
    <3>2. ASSUME NEW w \in Ticks PROVE ticks[w].out.is \in {"SENT", "SKIPPED", "FAILED", "RETRY"}
      BY <1>1 DEF Typed, TypeOK, Tick, Outcome
    <3> QED
      BY <2>1, <3>1, <3>2 DEF RowMoves
  <2> QED
    BY <2>1
<1> QED
  BY <1>1, TypedInit, TypedStep, PTL DEF Spec, UnsubscribedStaysOut

-----------------------------------------------------------------------------
(***************************************************************************)
(* The ledger and the mails.  Most steps are quiet: they leave the ledger  *)
(* alone, and no tick enters or leaves a send in them.                     *)
(***************************************************************************)
\* A mail to r is with the relay, or its outcome is not in the ledger yet.
OnTheWay(w, r) == ticks[w].step \in {"dispatch", "settle"} /\ ticks[w].cur = r
Accepted(w) == At(w, "settle") /\ ticks[w].out.is = "SENT"

QuietTick(w) ==
    \/ ticks'[w] = ticks[w]
    \/ /\ ticks[w].step \notin {"dispatch", "settle"}
       /\ ticks'[w].step \notin {"open", "reopen", "dispatch", "settle", "refund"}
       /\ ticks'[w].step = "mark" => ticks'[w].out.is # "SENT"
       /\ ticks'[w].step = "flip" => ticks'[w].kind = "launch"
       /\ ticks[w].step = "flip" => FlipSending(w) \/ Throw(w)
Quiet == UNCHANGED gatewayVars /\ \A w \in Ticks : QuietTick(w)

LEMMA QuietUpdate ==
    ASSUME HandsFull, NEW w \in Ticks, NEW t, ticks' = [ticks EXCEPT ![w] = t],
           ticks[w].step \notin {"dispatch", "settle"},
           t.step \notin {"open", "reopen", "dispatch", "settle", "refund"},
           t.step = "mark" => t.out.is # "SENT",
           t.step = "flip" => t.kind = "launch",
           ticks[w].step = "flip" => FlipSending(w) \/ Throw(w)
    PROVE  \A v \in Ticks : QuietTick(v)
BY DEF QuietTick, HandsFull

LEMMA QuietLeaves ==
    ASSUME Typed, NEW w \in Ticks, ticks[w].step \notin {"dispatch", "settle"},
           ticks[w].step = "flip" => FlipSending(w) \/ Throw(w),
           Leaves(w) \/ Finished(w) \/ \E step \in Onward : Settled(w, step)
    PROVE  \A v \in Ticks : QuietTick(v)
<1>t. HandsFull /\ ticks[w] \in Tick
  BY DEF Typed, TypeOK
<1>1. CASE \E step \in Onward : Go(w, step)
  <2>1. PICK step \in Onward : Go(w, step)
    BY <1>1
  <2> DEFINE t == [ticks[w] EXCEPT !.step = step]
  <2>2. ticks' = [ticks EXCEPT ![w] = t] /\ t.step = step
    BY <1>t, <2>1 DEF Go, HandsFull, Tick
  <2> QED
    BY <1>t, <2>2, QuietUpdate DEF Onward, Holding
<1>2. CASE Finished(w)
  BY <1>t, <1>2, NoWorkTyped, QuietUpdate DEF Finished
<1>3. CASE \E step \in Onward : Settled(w, step)
  <2>1. PICK step \in Onward : Settled(w, step)
    BY <1>3
  <2> DEFINE t == [NoWork EXCEPT !.step = step, !.undecided = ticks[w].undecided]
  <2>2. ticks' = [ticks EXCEPT ![w] = t] /\ t.step = step
    BY <2>1, NoWorkTyped DEF Settled, Tick
  <2> QED
    BY <1>t, <2>2, QuietUpdate DEF Onward, Holding
<1> QED
  BY <1>1, <1>2, <1>3 DEF Leaves, Finish, FinishAfter

LEMMA QuietSteps ==
    ASSUME Typed, [Next]_vars
    PROVE  \/ Quiet
           \/ \E w \in Ticks : SendMail(w) \/ Crash(w)
           \/ \E r \in Recipients : Elapse(r)
<1>t. HandsFull /\ ticks \in [Ticks -> Tick]
  BY DEF Typed, TypeOK
<1>0. ASSUME UNCHANGED gatewayVars, UNCHANGED ticks PROVE Quiet
  BY <1>0 DEF Quiet, QuietTick
<1>1. CASE Operator
  BY <1>0, <1>1 DEF Operator, AskLaunch, AskPause, AskResume, AskCancel, Ask, Freeze, Unbook, Set, Arm,
                    Kick, Book, RequestDies
<1>2. ASSUME NEW w \in Ticks, NEW kind \in Kinds, Begin(w, kind) PROVE Quiet
  <2> DEFINE t == [NoWork EXCEPT !.step = First(kind), !.kind = kind]
  <2>1. ticks' = [ticks EXCEPT ![w] = t] /\ At(w, "idle")
    BY <1>2 DEF Begin
  <2>2. First(kind) \in {"flip", "look", "read"} /\ (First(kind) = "flip" => kind = "launch")
    BY DEF First
  <2>3. t.step = First(kind) /\ t.kind = kind
    BY NoWorkTyped DEF Tick
  <2> QED
    BY <1>2, <1>t, <2>1, <2>2, <2>3, QuietUpdate DEF Begin, Quiet, At
<1>3. ASSUME NEW kind \in Kinds, Reap(kind) PROVE Quiet
  BY <1>0, <1>3 DEF Reap
<1>4. ASSUME NEW w \in Ticks, Throw(w) \/ LoseLock(w) PROVE Quiet
  <2>1. CASE Throw(w)
    BY <2>1, QuietLeaves DEF Throw, Quiet, Gateway
  <2>2. CASE LoseLock(w)
    BY <1>0, <2>2 DEF LoseLock
  <2> QED
    BY <1>4, <2>1, <2>2
<1>5. ASSUME NEW w \in Ticks, LaunchScheduled(w) \/ DecideAbWinner(w) \/ KickBatch(w)
      PROVE  Quiet
  <2>1. UNCHANGED gatewayVars
    BY <1>5 DEF LaunchScheduled, FlipSending, Rearm, DecideAbWinner, Look, Elect, Release, KickBatch
  <2>2. /\ ticks[w].step \notin {"dispatch", "settle"}
        /\ ticks[w].step = "flip" => FlipSending(w)
    BY <1>5 DEF LaunchScheduled, FlipSending, Rearm, DecideAbWinner, Look, Elect, Release, KickBatch, At
  <2>3. Leaves(w)
    <3>1. {"rearm", "kick", "elect", "release"} \subseteq Onward
          /\ {"decide", "batch"} \subseteq Kinds
      BY DEF Onward, TickStep, Holding, Kinds
    <3>2. CASE FlipSending(w)
      BY <3>1, <3>2 DEF FlipSending, Leaves
    <3>3. CASE Rearm(w)
      BY <3>1, <3>3 DEF Rearm, Leaves
    <3>4. CASE Look(w) \/ Elect(w) \/ Release(w)
      BY <3>1, <3>4 DEF Look, Elect, Release, Leaves
    <3>5. CASE KickBatch(w)
      BY <3>1, <3>5 DEF KickBatch, Leaves
    <3> QED
      BY <1>5, <3>2, <3>3, <3>4, <3>5 DEF LaunchScheduled, DecideAbWinner
  <2> QED
    BY <2>1, <2>2, <2>3, QuietLeaves DEF Quiet
<1>6. ASSUME NEW w \in Ticks, Batch(w) PROVE Quiet
  <2>1. UNCHANGED gatewayVars
    BY <1>6 DEF Batch, Read, Reclaim, List, Turn, Leave, Check, Mark, Streak, Count, Held, Close
  <2>2. ticks[w].step \notin {"dispatch", "settle", "flip"}
    BY <1>6 DEF Batch, Read, Reclaim, List, Turn, Leave, Check, Mark, Streak, Count, Held, Close, At
  <2>s. {"reclaim", "list", "loop", "streak", "count", "held", "close"} \subseteq Onward
        /\ {"decide", "batch"} \subseteq Kinds
    BY DEF Onward, TickStep, Holding, Kinds
  <2>o. Is("SKIPPED").is = "SKIPPED" /\ [Is("RETRY") EXCEPT !.stop = TRUE].is = "RETRY"
    <3>1. Is("RETRY").is = "RETRY" /\ Is("RETRY") \in Outcome
      BY Outcomes DEF Is
    <3> QED
      BY <3>1 DEF Is, Outcome
  <2>3. CASE Read(w) \/ List(w) \/ (\E r \in Recipients : Turn(w, r)) \/ Leave(w) \/ Mark(w) \/ Check(w)
    <3>1. CASE Leaves(w) \/ \E step \in Onward : Settled(w, step)
      BY <2>1, <2>2, <3>1, QuietLeaves DEF Quiet
    <3>2. CASE /\ \A v \in Ticks \ {w} : ticks'[v] = ticks[v]
               /\ \/ ticks'[w].step \in {"reclaim", "list", "loop", "held", "check", "streak", "ask"}
                  \/ ticks'[w].step = "mark" /\ ticks'[w].out.is # "SENT"
      BY <2>1, <2>2, <3>2 DEF Quiet, QuietTick
    <3>3. CASE Read(w)
      BY <1>t, <3>1, <3>2, <3>3 DEF Read, Leaves, Tick
    <3>4. CASE List(w)
      BY <1>t, <3>2, <3>4 DEF List, Tick
    <3>5. ASSUME NEW r \in Recipients, Turn(w, r) PROVE Quiet
      BY <1>t, <3>2, <3>5 DEF Turn, Tick, At
    <3>6. CASE Leave(w)
      BY <1>t, <2>s, <3>1, <3>2, <3>6 DEF Leave, Tick
    <3>7. CASE Mark(w)
      BY <1>t, <3>2, <3>7 DEF Mark, Tick
    <3>8. CASE Check(w)
      <4>1. CASE Go(w, "ask")
        BY <1>t, <3>2, <4>1 DEF Go, Tick
      <4>2. CASE ticks' = [ticks EXCEPT ![w].step = "mark", ![w].out = Is("SKIPPED")]
        BY <1>t, <2>o, <3>2, <4>2 DEF Tick
      <4>3. CASE ticks' = [ticks EXCEPT ![w].step = "mark",
                                        ![w].out = [Is("RETRY") EXCEPT !.stop = TRUE]]
        <5> DEFINE out == [Is("RETRY") EXCEPT !.stop = TRUE]
        <5>1. out.is = "RETRY"
          BY <2>o
        <5> HIDE DEF out
        <5>2. ticks' = [ticks EXCEPT ![w].step = "mark", ![w].out = out]
          BY <4>3 DEF out
        <5> QED
          BY <1>t, <3>2, <5>1, <5>2 DEF Tick
      <4> QED
        BY <3>8, <4>1, <4>2, <4>3 DEF Check
    <3> QED
      BY <2>3, <3>3, <3>4, <3>5, <3>6, <3>7, <3>8
  <2>4. CASE Reclaim(w) \/ Count(w) \/ Held(w) \/ Close(w)
    <3>1. Leaves(w)
      BY <2>s, <2>4 DEF Reclaim, Count, Held, Close, Leaves
    <3> QED
      BY <2>1, <2>2, <3>1, QuietLeaves DEF Quiet
  <2>5. CASE Streak(w)
    <3>1. Finished(w) \/ \E step \in Onward : Settled(w, step)
      BY <2>s, <2>5 DEF Streak, Finish
    <3> QED
      BY <2>1, <2>2, <3>1, QuietLeaves DEF Quiet
  <2> QED
    BY <1>6, <2>3, <2>4, <2>5 DEF Batch
<1>7. ASSUME NEW r \in Recipients, OptOut(r) \/ Unsubscribe(r) PROVE Quiet
  BY <1>0, <1>7 DEF OptOut, Unsubscribe
<1>8. CASE Block
  BY <1>0, <1>8 DEF Block
<1>9. CASE UNCHANGED vars
  BY <1>0, <1>9 DEF vars, gatewayVars
<1> QED
  BY <1>1, <1>2, <1>3, <1>4, <1>5, <1>6, <1>7, <1>8, <1>9 DEF Next

\* Where a send of w stands after a step of its own; was is the tick before it.
SendMoves(w, was) ==
    LET now == ticks'[w]  r == was.cur IN
    /\ now.cur = r
    /\ \/ /\ was.step = "ask" /\ UNCHANGED gatewayVars
          /\ \/ now.step = "refund" /\ (ledger[r] = "SENT" \/ now.out.is # "SENT")
             \/ now.step = "open" /\ now.write = "PENDING"
             \/ now.step = "open" /\ now.write = "FAILED" /\ now.out.is # "SENT"
       \/ /\ was.step = "open" /\ UNCHANGED mailed /\ lost \subseteq lost'
          /\ \/ /\ ~Taken(r) /\ UNCHANGED gatewayVars
                /\ now.step = "reopen" /\ now.write = was.write /\ now.out = was.out
             \/ /\ ledger[r] = "none" /\ ledger' = [ledger EXCEPT ![r] = was.write]
                /\ UNCHANGED <<guessed, lost>> /\ now.out = was.out
                /\ \/ now.step = "dispatch" /\ was.write = "PENDING" /\ fresh' = fresh \cup {r}
                   \/ now.step = "refund" /\ was.write = "FAILED" /\ UNCHANGED fresh
             \/ /\ UNCHANGED <<ledger, fresh>> /\ now.step = "refund" /\ guessed \subseteq guessed'
                /\ \/ ledger[r] = "SENT"
                   \/ r \in guessed'
                   \/ was.write = "FAILED" /\ now.out = was.out
             \/ /\ UNCHANGED guessed /\ now.out = was.out
                /\ \/ UNCHANGED <<ledger, fresh>>
                   \/ /\ ledger[r] = "none" /\ ledger' = [ledger EXCEPT ![r] = was.write]
                      /\ fresh' = fresh \/ fresh' = fresh \cup {r}
                /\ \/ now.step = "dispatch" /\ was.write = "PENDING" /\ r \in lost'
                   \/ now.step = "refund" /\ was.write = "FAILED"
       \/ /\ was.step = "reopen" /\ UNCHANGED <<mailed, guessed>>
          /\ \/ /\ ledger' = [ledger EXCEPT ![r] = was.write]
                /\ Taken(r) => r \in lost'
                /\ \/ now.step = "dispatch" /\ was.write = "PENDING" /\ fresh' = fresh \cup {r}
                   \/ now.step = "refund" /\ was.write = "FAILED" /\ fresh' = fresh \ {r}
             \/ /\ UNCHANGED <<ledger, fresh>>
                /\ \/ now.step = "dispatch" /\ was.write = "PENDING" /\ r \in lost'
                   \/ now.step = "refund" /\ was.write = "FAILED"
          /\ lost \subseteq lost'
          /\ now.out = was.out
       \/ /\ was.step = "dispatch" /\ now.step = "settle" /\ UNCHANGED <<ledger, fresh, guessed>>
          /\ \/ /\ mailed' = [mailed EXCEPT ![r] = @ + 1] /\ now.out.is = "SENT"
                /\ UNCHANGED lost
             \/ /\ now.out.is # "SENT" /\ UNCHANGED <<mailed, lost>>
             \/ /\ now.out.is # "SENT" /\ mailed' = [mailed EXCEPT ![r] = @ + 1]
                /\ lost' = lost \cup {r}
       \/ /\ was.step = "settle" /\ now.out = was.out /\ UNCHANGED <<mailed, guessed>>
          /\ was.out.is = "SENT" => now.step = "mark"
          /\ was.out.is # "SENT" => now.step = "refund"
          /\ lost \subseteq lost' /\ lost' \subseteq lost \cup {r}
          /\ \/ /\ fresh' = fresh \ {r}
                /\ ledger' = [ledger EXCEPT ![r] = IF was.out.is = "SENT" THEN "SENT" ELSE "FAILED"]
             \/ /\ UNCHANGED <<ledger, fresh>>
                /\ was.out.is = "SENT" => r \in lost'
       \/ /\ was.step = "refund" /\ UNCHANGED gatewayVars
          /\ now.step = "mark" /\ now.out = was.out

LEMMA OutcomeOf ==
    /\ \A what : Is(what).is = what
    /\ \A out \in Refusals \cup Failures : out.is # "SENT"
<1>1. \A what : Is(what).is = what
  BY DEF Is
<1>2. Is("RETRY") \in Outcome
  BY Outcomes
<1>3. /\ [Is("RETRY") EXCEPT !.stop = TRUE].is = "RETRY"
      /\ [Is("RETRY") EXCEPT !.stop = TRUE, !.defer = TRUE].is = "RETRY"
  <2>1. \A out \in Outcome : /\ [out EXCEPT !.stop = TRUE].is = out.is
                             /\ [out EXCEPT !.stop = TRUE, !.defer = TRUE].is = out.is
    BY DEF Outcome
  <2> QED
    BY <1>1, <1>2, <2>1
<1> QED
  BY <1>1, <1>3 DEF Refusals, Failures

LEMMA SendSteps ==
    ASSUME Typed, NEW w \in Ticks, SendMail(w)
    PROVE  /\ \A v \in Ticks \ {w} : ticks'[v] = ticks[v]
           /\ ticks[w].cur \in Recipients
           /\ SendMoves(w, ticks[w])
<1>t. ticks \in [Ticks -> Tick] /\ ticks[w] \in Tick
  BY DEF Typed, TypeOK
<1>r. ticks[w].cur \in Recipients
  BY DEF Typed, HandsFull, SendMail, AskGateway, Open, Reopen, Dispatch, Settle, Refund, At, Hand, Holding
<1>g. ASSUME NEW step, Go(w, step)
      PROVE  /\ \A v \in Ticks \ {w} : ticks'[v] = ticks[v]
             /\ ticks'[w].step = step /\ ticks'[w].cur = ticks[w].cur
             /\ ticks'[w].out = ticks[w].out /\ ticks'[w].write = ticks[w].write
  BY <1>t, <1>g DEF Go, Tick
<1>a. ASSUME NEW step, NEW out, ticks' = [ticks EXCEPT ![w].step = step, ![w].out = out]
      PROVE  /\ \A v \in Ticks \ {w} : ticks'[v] = ticks[v]
             /\ ticks'[w].step = step /\ ticks'[w].cur = ticks[w].cur
             /\ ticks'[w].out = out /\ ticks'[w].write = ticks[w].write
  BY <1>t, <1>a DEF Tick
<1>1. CASE AskGateway(w)
  <2>1. UNCHANGED gatewayVars /\ ticks[w].step = "ask"
    BY <1>1 DEF AskGateway, At
  <2>2. CASE Delivered(ticks[w].cur) /\ ticks' = [ticks EXCEPT ![w].step = "refund", ![w].out = Is("SENT")]
    BY <1>a, <1>r, <2>1, <2>2 DEF Delivered, SendMoves
  <2>5. CASE ticks' = [ticks EXCEPT ![w].step = "refund", ![w].out = Is("RETRY")]
    <3>1. Is("RETRY").is # "SENT"
      BY OutcomeOf
    <3>2. /\ \A v \in Ticks \ {w} : ticks'[v] = ticks[v]
          /\ ticks'[w].step = "refund" /\ ticks'[w].cur = ticks[w].cur /\ ticks'[w].out.is # "SENT"
      BY <1>a, <2>5, <3>1
    <3> QED
      BY <1>r, <2>1, <3>2 DEF SendMoves
  <2>3. CASE ticks' = [ticks EXCEPT ![w].step = "open", ![w].write = "PENDING"]
    <3>1. /\ \A v \in Ticks \ {w} : ticks'[v] = ticks[v]
          /\ ticks'[w].step = "open" /\ ticks'[w].cur = ticks[w].cur /\ ticks'[w].write = "PENDING"
      BY <1>t, <2>3 DEF Tick
    <3> QED
      BY <1>r, <2>1, <3>1 DEF SendMoves
  <2>4. ASSUME NEW out \in Refusals,
               ticks' = [ticks EXCEPT ![w].step = "open", ![w].write = "FAILED", ![w].out = out]
        PROVE  (\A v \in Ticks \ {w} : ticks'[v] = ticks[v]) /\ SendMoves(w, ticks[w])
    <3>1. /\ \A v \in Ticks \ {w} : ticks'[v] = ticks[v]
          /\ ticks'[w].step = "open" /\ ticks'[w].cur = ticks[w].cur
          /\ ticks'[w].write = "FAILED" /\ ticks'[w].out = out
      BY <1>t, <2>4 DEF Tick
    <3> QED
      BY <2>1, <3>1, OutcomeOf DEF SendMoves
  <2> QED
    BY <1>1, <1>r, <2>2, <2>3, <2>4, <2>5 DEF AskGateway
<1>2. CASE Open(w)
  <2> DEFINE r == ticks[w].cur
  <2>1. UNCHANGED mailed /\ ticks[w].step = "open"
    BY <1>2 DEF Open, At
  <2>2. CASE /\ ledger[r] = "none" /\ Go(w, Then(w)) /\ UNCHANGED <<guessed, lost>>
             /\ ledger' = [ledger EXCEPT ![r] = ticks[w].write]
             /\ fresh' = IF ticks[w].write = "PENDING" THEN fresh \cup {r} ELSE fresh
    <3>1. ticks[w].write = "PENDING" \/ ticks[w].write = "FAILED"
      BY <1>t DEF Tick
    <3> QED
      BY <1>g, <1>r, <2>1, <2>2, <3>1 DEF Then, SendMoves
  <2>3. CASE /\ Taken(r) /\ UNCHANGED <<ledger, fresh, lost>>
             /\ ticks' = [ticks EXCEPT ![w].step = "refund",
                  ![w].out = IF ticks[w].write = "PENDING" THEN Is("SENT") ELSE ticks[w].out]
             /\ guessed' = IF ticks[w].write = "PENDING" /\ ledger[r] = "PENDING"
                           THEN guessed \cup {r} ELSE guessed
    <3>1. ticks[w].write = "PENDING" \/ ticks[w].write = "FAILED"
      BY <1>t DEF Tick
    <3>2. ledger[r] = "SENT" \/ ledger[r] = "PENDING"
      BY <2>3 DEF Taken, Delivered
    <3> DEFINE out == IF ticks[w].write = "PENDING" THEN Is("SENT") ELSE ticks[w].out
    <3>3. ticks' = [ticks EXCEPT ![w].step = "refund", ![w].out = out]
      BY <2>3
    <3>4. ticks[w].write = "FAILED" => out = ticks[w].out
      OBVIOUS
    <3>5. /\ guessed \subseteq guessed'
          /\ ledger[r] = "SENT" \/ r \in guessed' \/ ticks[w].write = "FAILED"
      BY <2>3, <3>1, <3>2
    <3> HIDE DEF out
    <3>6. /\ \A v \in Ticks \ {w} : ticks'[v] = ticks[v]
          /\ ticks'[w].step = "refund" /\ ticks'[w].cur = r /\ ticks'[w].out = out
      BY <1>a, <3>3
    <3> QED
      <4>1. \/ ledger[r] = "SENT" \/ r \in guessed'
            \/ ticks[w].write = "FAILED" /\ ticks'[w].out = ticks[w].out
        BY ONLY <3>4, <3>5, <3>6
      <4>2. UNCHANGED <<mailed, lost, ledger, fresh>> /\ guessed \subseteq guessed'
        BY <2>1, <2>3, <3>5
      <4> HIDE DEF r
      <4>3. r = ticks[w].cur
        BY DEF r
      <4>4. SendMoves(w, ticks[w])
        BY ONLY <2>1, <3>6, <4>1, <4>2, <4>3 DEF SendMoves
      <4> QED
        BY <3>6, <4>4, <1>r
  <2>4. CASE ~Taken(r) /\ Go(w, "reopen") /\ UNCHANGED <<ledger, fresh, guessed, lost>>
    BY <1>g, <1>r, <2>1, <2>4 DEF SendMoves, gatewayVars
  <2>5. CASE /\ Insert(w) \/ UNCHANGED <<ledger, fresh>>
             /\ ticks' = [ticks EXCEPT ![w].step = Then(w), ![w].row = FALSE]
             /\ LoseTrack(w) /\ UNCHANGED guessed
    <3>1. ticks[w].write = "PENDING" \/ ticks[w].write = "FAILED"
      BY <1>t DEF Tick
    <3>2. /\ \A v \in Ticks \ {w} : ticks'[v] = ticks[v]
          /\ ticks'[w].step = Then(w) /\ ticks'[w].cur = r /\ ticks'[w].out = ticks[w].out
      BY <1>t, <2>5 DEF Tick
    <3>3. /\ lost \subseteq lost'
          /\ \/ Then(w) = "dispatch" /\ ticks[w].write = "PENDING" /\ r \in lost'
             \/ Then(w) = "refund" /\ ticks[w].write = "FAILED"
      BY <2>5, <3>1 DEF LoseTrack, Then
    <3>4. \/ UNCHANGED <<ledger, fresh>>
          \/ /\ ledger[r] = "none" /\ ledger' = [ledger EXCEPT ![r] = ticks[w].write]
             /\ fresh' = fresh \/ fresh' = fresh \cup {r}
      BY <2>5 DEF Insert
    <3>5. r = ticks[w].cur
      OBVIOUS
    <3> HIDE DEF r
    <3> QED
      BY <1>r, <2>1, <2>5, <3>2, <3>3, <3>4, <3>5 DEF SendMoves
  <2> QED
    BY <1>2, <2>2, <2>3, <2>4, <2>5 DEF Open, Insert
<1>3. CASE Reopen(w)
  <2>1. ticks[w].write = "PENDING" \/ ticks[w].write = "FAILED"
    BY <1>t DEF Tick
  <2> QED
    BY <1>3, <1>g, <1>r, <2>1 DEF Reopen, LoseTrack, Then, At, SendMoves
<1>4. CASE Dispatch(w)
  <2>1. PICK out :
                 /\ ticks' = [ticks EXCEPT ![w].step = "settle", ![w].out = out]
                 /\ \/ out.is = "SENT" /\ UNCHANGED lost
                       /\ mailed' = [mailed EXCEPT ![ticks[w].cur] = @ + 1]
                    \/ out.is # "SENT" /\ UNCHANGED <<mailed, lost>>
                    \/ /\ out.is # "SENT" /\ mailed' = [mailed EXCEPT ![ticks[w].cur] = @ + 1]
                       /\ lost' = lost \cup {ticks[w].cur}
    BY <1>4, OutcomeOf DEF Dispatch
  <2>2. UNCHANGED <<ledger, fresh, guessed>> /\ ticks[w].step = "dispatch"
    BY <1>4 DEF Dispatch, At
  <2>3. /\ \A v \in Ticks \ {w} : ticks'[v] = ticks[v]
        /\ ticks'[w].step = "settle" /\ ticks'[w].cur = ticks[w].cur /\ ticks'[w].out = out
    BY <1>a, <2>1
  <2> QED
    BY <1>r, <2>1, <2>2, <2>3 DEF SendMoves
<1>5. CASE Settle(w)
  BY <1>5, <1>g, <1>r DEF Settle, At, SendMoves
<1>6. CASE Refund(w)
  BY <1>6, <1>g, <1>r DEF Refund, At, SendMoves
<1> QED
  BY <1>1, <1>2, <1>3, <1>4, <1>5, <1>6, <1>r DEF SendMail

-----------------------------------------------------------------------------
\* A ledger row that says SENT, and a tick that says so of its recipient, are right;
\* a tick that the guard refused does not say so.
LedgerTold == \A r \in Recipients : ledger[r] = "SENT" => mailed[r] > 0
TickTold(w) ==
    /\ Accepted(w) => mailed[ticks[w].cur] > 0
    /\ ticks[w].step \in {"refund", "mark"} /\ ticks[w].out.is = "SENT" =>
          mailed[ticks[w].cur] > 0 \/ ticks[w].cur \in guessed
    /\ ticks[w].step \in {"open", "reopen"} /\ ticks[w].write = "FAILED" => ticks[w].out.is # "SENT"
Told == LedgerTold /\ \A w \in Ticks : TickTold(w)

\* What was mailed or guessed stays so.
LEMMA Grows ==
    ASSUME Typed, [Next]_vars
    PROVE  guessed \subseteq guessed' /\ \A r \in Recipients : mailed[r] > 0 => mailed'[r] > 0
<1>t. mailed \in [Recipients -> Nat]
  BY DEF Typed, TypeOK
<1>1. CASE Quiet
  BY <1>1 DEF Quiet, gatewayVars
<1>2. ASSUME NEW w \in Ticks, SendMail(w)
      PROVE  guessed \subseteq guessed' /\ \A r \in Recipients : mailed[r] > 0 => mailed'[r] > 0
  <2>1. SendMoves(w, ticks[w]) /\ ticks[w].cur \in Recipients
    BY <1>2, SendSteps
  <2>2. mailed' = mailed \/ mailed' = [mailed EXCEPT ![ticks[w].cur] = @ + 1]
    BY ONLY <2>1 DEF SendMoves, gatewayVars
  <2>3. guessed \subseteq guessed'
    BY ONLY <2>1 DEF SendMoves, gatewayVars
  <2> QED
    BY ONLY <1>t, <2>1, <2>2, <2>3
<1>3. ASSUME NEW w \in Ticks, Crash(w)
      PROVE  guessed \subseteq guessed' /\ \A r \in Recipients : mailed[r] > 0 => mailed'[r] > 0
  BY <1>3 DEF Crash
<1>4. ASSUME NEW r \in Recipients, Elapse(r)
      PROVE  guessed \subseteq guessed' /\ \A x \in Recipients : mailed[x] > 0 => mailed'[x] > 0
  BY <1>4 DEF Elapse
<1> QED
  BY <1>1, <1>2, <1>3, <1>4, QuietSteps

LEMMA ToldStep ==
    ASSUME Typed, Told, [Next]_vars
    PROVE  Told'
<1>t. mailed \in [Recipients -> Nat] /\ ledger \in [Recipients -> LedgerStatus] /\ ticks \in [Ticks -> Tick]
  BY DEF Typed, TypeOK
<1>g. guessed \subseteq guessed' /\ \A r \in Recipients : mailed[r] > 0 => mailed'[r] > 0
  BY Grows
<1>c. ASSUME NEW w \in Ticks, ticks'[w] = ticks[w] PROVE TickTold(w)'
  <2>1. ticks[w].step \in Holding => ticks[w].cur \in Recipients
    BY DEF Typed, HandsFull, Hand
  <2> QED
    BY <1>c, <1>g, <2>1 DEF Told, TickTold, Accepted, At, Holding
<1>1. CASE Quiet
  <2>1. LedgerTold'
    BY <1>1 DEF Quiet, gatewayVars, Told, LedgerTold
  <2>2. ASSUME NEW w \in Ticks PROVE TickTold(w)'
    <3>1. CASE ticks'[w] = ticks[w]
      BY <1>c, <3>1
    <3>2. CASE ticks'[w] # ticks[w]
      BY <1>1, <3>2 DEF Quiet, QuietTick, TickTold, Accepted, At
    <3> QED
      BY <3>1, <3>2
  <2> QED
    BY <2>1, <2>2 DEF Told
<1>2. ASSUME NEW w \in Ticks, SendMail(w) PROVE Told'
  <2> DEFINE r == ticks[w].cur
  <2>1. /\ SendMoves(w, ticks[w]) /\ r \in Recipients
        /\ \A v \in Ticks \ {w} : ticks'[v] = ticks[v]
    BY <1>2, SendSteps
  <2>2. TickTold(w) /\ LedgerTold
    BY DEF Told
  <2>3. LedgerTold'
    <3>1. CASE UNCHANGED ledger
      BY <1>g, <2>2, <3>1 DEF LedgerTold
    <3>2. CASE ledger' = [ledger EXCEPT ![r] = ticks[w].write]
      BY <1>t, <1>g, <2>2, <3>2 DEF LedgerTold, Tick
    <3>3. CASE ticks[w].step = "settle"
      <4>1. ticks[w].out.is = "SENT" => mailed[r] > 0
        BY <2>2, <3>3 DEF TickTold, Accepted, At
      <4>2. \/ UNCHANGED ledger
            \/ ledger' = [ledger EXCEPT ![r] = IF ticks[w].out.is = "SENT" THEN "SENT" ELSE "FAILED"]
        BY ONLY <2>1, <3>3 DEF SendMoves
      <4> QED
        BY <1>t, <1>g, <2>2, <4>1, <4>2 DEF LedgerTold
    <3> QED
      BY ONLY <2>1, <3>1, <3>2, <3>3 DEF SendMoves, gatewayVars
  <2>4. TickTold(w)'
    <3>1. ticks'[w].cur = r
      BY ONLY <2>1 DEF SendMoves
    <3>2. ledger[r] = "SENT" => mailed'[r] > 0
      BY <1>g, <2>1, <2>2 DEF LedgerTold
    <3>3. CASE ticks[w].step = "ask"
      BY ONLY <2>1, <3>1, <3>2, <3>3 DEF SendMoves, TickTold, Accepted, At
    <3>4. CASE ticks[w].step \in {"open", "reopen"}
      <4>1. ticks[w].write = "FAILED" => ticks[w].out.is # "SENT"
        BY <2>2, <3>4 DEF TickTold
      <4> QED
        BY ONLY <2>1, <3>1, <3>2, <3>4, <4>1 DEF SendMoves, TickTold, Accepted, At
    <3>5. CASE ticks[w].step = "dispatch"
      <4>1. ticks'[w].step = "settle"
        BY ONLY <2>1, <3>5 DEF SendMoves
      <4>2. ticks'[w].out.is = "SENT" => mailed' = [mailed EXCEPT ![r] = @ + 1]
        BY ONLY <2>1, <3>5 DEF SendMoves
      <4>3. mailed' = [mailed EXCEPT ![r] = @ + 1] => mailed'[r] > 0
        BY ONLY <1>t, <2>1
      <4> QED
        BY ONLY <3>1, <4>1, <4>2, <4>3 DEF TickTold, Accepted, At
    <3>6. CASE ticks[w].step \in {"settle", "refund"}
      <4>1. ticks[w].out.is = "SENT" => mailed[r] > 0 \/ r \in guessed
        BY <2>2, <3>6 DEF TickTold, Accepted, At
      <4>2. ticks'[w].step \in {"refund", "mark"} /\ ticks'[w].out = ticks[w].out
        BY ONLY <2>1, <3>6 DEF SendMoves
      <4> QED
        BY <1>g, <2>1, <3>1, <4>1, <4>2 DEF TickTold, Accepted, At
    <3> QED
      BY ONLY <2>1, <3>3, <3>4, <3>5, <3>6 DEF SendMoves
  <2> QED
    BY <1>c, <2>1, <2>3, <2>4 DEF Told
<1>3. ASSUME NEW w \in Ticks, Crash(w) PROVE Told'
  <2>1. ticks' = [ticks EXCEPT ![w] = NoWork] /\ UNCHANGED <<ledger, mailed>>
    BY <1>3 DEF Crash
  <2>2. TickTold(w)'
    BY <1>t, <2>1, NoWorkTyped DEF TickTold, Accepted, At
  <2> QED
    BY <1>c, <1>t, <2>1, <2>2 DEF Told, LedgerTold
<1>4. ASSUME NEW r \in Recipients, Elapse(r) PROVE Told'
  BY <1>c, <1>4 DEF Elapse, Told, LedgerTold
<1> QED
  BY <1>1, <1>2, <1>3, <1>4, QuietSteps

LEMMA SentStep ==
    ASSUME Typed, Told, SentWasMailed, [Next]_vars
    PROVE  SentWasMailed'
<1>t. mailed \in [Recipients -> Nat] /\ mailed' \in [Recipients -> Nat]
  BY TypedStep DEF Typed, TypeOK
<1>g. guessed \subseteq guessed' /\ \A r \in Recipients : mailed[r] > 0 => mailed'[r] > 0
  BY Grows
<1>1. ASSUME NEW r \in Recipients, rec'[r] = "SENT"
      PROVE  mailed'[r] > 0 \/ r \in guessed'
  <2>1. RowMoves(r)
    BY RowSteps
  <2>2. CASE rec[r] = "SENT"
    <3>1. mailed[r] > 0 \/ r \in guessed
      BY <1>t, <2>2 DEF SentWasMailed
    <3> QED
      BY <1>g, <3>1
  <2>3. ASSUME NEW w \in Ticks, At(w, "mark"), ticks[w].cur = r, ticks[w].out.is = "SENT"
        PROVE  mailed'[r] > 0 \/ r \in guessed'
    <3>1. mailed[r] > 0 \/ r \in guessed
      BY <2>3 DEF Told, TickTold, At
    <3> QED
      BY <1>g, <3>1
  <2> QED
    BY <1>1, <2>1, <2>2, <2>3 DEF RowMoves
<1> QED
  BY <1>1, <1>t DEF SentWasMailed

\* A row says SENT only when the mail went out, unless the sender took a send that
\* was in flight for a delivery.
THEOREM SentMeansMailed == Spec => []SentWasMailed
<1>1. Init => Told /\ SentWasMailed
  BY NoWorkTyped DEF Init, Told, LedgerTold, TickTold, Accepted, At, SentWasMailed
<1>2. Typed /\ Told /\ SentWasMailed /\ [Next]_vars => (Told /\ SentWasMailed)'
  BY ToldStep, SentStep
<1> QED
  BY <1>1, <1>2, TypedInit, TypedStep, PTL DEF Spec

-----------------------------------------------------------------------------
\* As long as the ledger has not lost track of r, a send to r that is under way has
\* the ledger row for itself, and a mail that went out is in the ledger or in the
\* hand of that send.
ExclusiveFor(r) ==
    /\ mailed[r] \in {0, 1}
    /\ \A w \in Ticks : OnTheWay(w, r) => ledger[r] = "PENDING" /\ r \in fresh
    /\ \A w, v \in Ticks : OnTheWay(w, r) /\ OnTheWay(v, r) => w = v
    /\ mailed[r] # 0 => ledger[r] = "SENT" \/ \E w \in Ticks : OnTheWay(w, r) /\ Accepted(w)
    /\ \A w \in Ticks : OnTheWay(w, r) /\ ~Accepted(w) => mailed[r] = 0
Exclusive == \A r \in Recipients \ lost : ExclusiveFor(r)

\* A ledger row that is not taken is in nobody's hand, and reached nobody.
LEMMA NotTaken ==
    ASSUME NEW r, ExclusiveFor(r), ~Taken(r)
    PROVE  mailed[r] = 0 /\ \A w \in Ticks : ~OnTheWay(w, r)
BY DEF ExclusiveFor, Taken, Delivered

\* A step that leaves the row of r and its sends alone leaves it exclusive.
LEMMA ExclusiveKept ==
    ASSUME NEW r, ExclusiveFor(r), mailed'[r] = mailed[r], ledger'[r] = ledger[r],
           r \in fresh => r \in fresh',
           \A w \in Ticks : /\ OnTheWay(w, r)' <=> OnTheWay(w, r)
                            /\ OnTheWay(w, r) => (Accepted(w)' <=> Accepted(w))
    PROVE  ExclusiveFor(r)'
BY DEF ExclusiveFor

LEMMA ExclusiveSend ==
    ASSUME Typed, Exclusive, NEW w \in Ticks, SendMail(w), NEW r \in Recipients \ lost'
    PROVE  ExclusiveFor(r)'
<1>1. /\ SendMoves(w, ticks[w]) /\ ticks[w].cur \in Recipients
      /\ \A v \in Ticks \ {w} : ticks'[v] = ticks[v]
  BY SendSteps
<1>t. /\ mailed \in [Recipients -> Nat] /\ ledger \in [Recipients -> LedgerStatus]
      /\ ticks[w] \in Tick
  BY DEF Typed, TypeOK
<1>2. lost \subseteq lost' /\ ticks'[w].cur = ticks[w].cur
  BY ONLY <1>1 DEF SendMoves, gatewayVars
<1>3. ExclusiveFor(r)
  BY <1>2 DEF Exclusive
<1>4. ASSUME NEW v \in Ticks \ {w}
      PROVE  (OnTheWay(v, r)' <=> OnTheWay(v, r)) /\ (Accepted(v)' <=> Accepted(v))
  <2>1. ticks'[v] = ticks[v]
    BY <1>1
  <2> QED
    BY ONLY <2>1 DEF OnTheWay, Accepted, At
<1>5. CASE ticks[w].cur # r
  <2>1. ~OnTheWay(w, r) /\ ~OnTheWay(w, r)'
    BY <1>2, <1>5 DEF OnTheWay
  <2>2. mailed'[r] = mailed[r] /\ ledger'[r] = ledger[r] /\ (r \in fresh => r \in fresh')
    <3>1. mailed' = mailed \/ mailed' = [mailed EXCEPT ![ticks[w].cur] = @ + 1]
      BY ONLY <1>1 DEF SendMoves, gatewayVars
    <3>2. \/ ledger' = ledger
          \/ ledger' = [ledger EXCEPT ![ticks[w].cur] = ticks[w].write]
          \/ ledger' = [ledger EXCEPT ![ticks[w].cur] =
                           IF ticks[w].out.is = "SENT" THEN "SENT" ELSE "FAILED"]
      BY ONLY <1>1 DEF SendMoves, gatewayVars
    <3>3. fresh' = fresh \/ fresh' = fresh \cup {ticks[w].cur} \/ fresh' = fresh \ {ticks[w].cur}
      BY ONLY <1>1 DEF SendMoves, gatewayVars
    <3> QED
      BY ONLY <1>t, <1>1, <1>5, <3>1, <3>2, <3>3
  <2> QED
    BY <1>3, <1>4, <2>1, <2>2, ExclusiveKept
<1>6. CASE ticks[w].cur = r
  <2>0. r \in Recipients /\ r \notin lost'
    OBVIOUS
  <2>1. CASE /\ ticks[w].step \in {"ask", "open", "reopen", "refund"}
             /\ ticks'[w].step \notin {"dispatch", "settle"}
             /\ UNCHANGED <<ledger, fresh, mailed>>
    <3>1. ~OnTheWay(w, r) /\ ~OnTheWay(w, r)'
      BY <2>1 DEF OnTheWay
    <3> QED
      BY <1>3, <1>4, <2>1, <3>1, ExclusiveKept
  <2>2. CASE /\ ticks[w].step \in {"open", "reopen"} /\ ~Taken(r) /\ UNCHANGED mailed
             /\ ledger' = [ledger EXCEPT ![r] = ticks[w].write]
             /\ \/ ticks'[w].step = "dispatch" /\ ticks[w].write = "PENDING" /\ r \in fresh'
                \/ ticks'[w].step = "refund"
    <3>1. mailed[r] = 0 /\ \A v \in Ticks : ~OnTheWay(v, r)
      BY <1>3, <2>2, NotTaken
    <3>2. \A v \in Ticks \ {w} : ~OnTheWay(v, r)'
      BY <1>4, <3>1
    <3>3. mailed'[r] = 0 /\ ledger'[r] = ticks[w].write
      BY ONLY <1>t, <2>0, <2>2, <3>1
    <3>4. OnTheWay(w, r)' => ledger'[r] = "PENDING" /\ r \in fresh'
      BY <2>2, <3>3 DEF OnTheWay
    <3> QED
      BY <3>2, <3>3, <3>4 DEF ExclusiveFor
  <2>3. CASE ticks[w].step = "dispatch"
    <3>1. OnTheWay(w, r) /\ ~Accepted(w) /\ OnTheWay(w, r)'
      <4>1. ticks'[w].step = "settle"
        BY ONLY <1>1, <2>3 DEF SendMoves
      <4> QED
        BY <1>2, <1>6, <2>3, <4>1 DEF OnTheWay, Accepted, At
    <3>2. UNCHANGED <<ledger, fresh>>
      BY ONLY <1>1, <2>3 DEF SendMoves
    <3>3. /\ mailed[r] = 0 /\ ledger[r] = "PENDING" /\ r \in fresh
          /\ \A v \in Ticks \ {w} : ~OnTheWay(v, r)
      BY <1>3, <3>1 DEF ExclusiveFor
    <3>4. \/ mailed'[r] = 1 /\ Accepted(w)'
          \/ mailed'[r] = 0 /\ ~Accepted(w)'
      <4>1. \/ mailed' = [mailed EXCEPT ![r] = @ + 1] /\ ticks'[w].out.is = "SENT"
            \/ mailed' = mailed /\ ticks'[w].out.is # "SENT"
        BY ONLY <1>1, <1>6, <2>0, <2>3 DEF SendMoves
      <4>2. ticks'[w].step = "settle"
        BY ONLY <1>1, <2>3 DEF SendMoves
      <4>3. Accepted(w)' <=> ticks'[w].out.is = "SENT"
        BY ONLY <4>2 DEF Accepted, At
      <4> QED
        BY ONLY <1>t, <2>0, <3>3, <4>1, <4>3
    <3>5. \A v \in Ticks \ {w} : ~OnTheWay(v, r)'
      BY <1>4, <3>3
    <3> QED
      BY <3>1, <3>2, <3>3, <3>4, <3>5 DEF ExclusiveFor
  <2>4. CASE ticks[w].step = "settle"
    <3>1. OnTheWay(w, r)
      BY <1>6, <2>4 DEF OnTheWay
    <3>2. ~OnTheWay(w, r)' /\ UNCHANGED mailed
      <4>1. ticks'[w].step \in {"mark", "refund"} /\ UNCHANGED mailed
        BY ONLY <1>1, <2>4 DEF SendMoves
      <4> QED
        BY <4>1 DEF OnTheWay
    <3>3. \A v \in Ticks : ~OnTheWay(v, r)'
      BY <1>3, <1>4, <3>1, <3>2 DEF ExclusiveFor
    <3>4. mailed[r] # 0 => ledger'[r] = "SENT"
      <4>1. mailed[r] # 0 => ticks[w].out.is = "SENT"
        BY <1>3, <3>1 DEF ExclusiveFor, Accepted
      <4>2. \/ ledger' = [ledger EXCEPT ![r] = IF ticks[w].out.is = "SENT" THEN "SENT" ELSE "FAILED"]
            \/ ticks[w].out.is # "SENT"
        BY ONLY <1>1, <1>6, <2>0, <2>4 DEF SendMoves
      <4> QED
        BY ONLY <1>t, <2>0, <4>1, <4>2
    <3>5. mailed'[r] = mailed[r] /\ mailed[r] \in {0, 1}
      BY <1>3, <3>2 DEF ExclusiveFor
    <3> QED
      BY <3>3, <3>4, <3>5 DEF ExclusiveFor
  <2>5. CASE ticks[w].step = "open"
    <3>1. ledger[r] = "none" => ~Taken(r)
      BY DEF Taken, Delivered
    <3>2. \/ /\ ticks'[w].step \notin {"dispatch", "settle"}
             /\ UNCHANGED <<ledger, fresh, mailed>>
          \/ /\ ~Taken(r) /\ UNCHANGED mailed
             /\ ledger' = [ledger EXCEPT ![r] = ticks[w].write]
             /\ \/ ticks'[w].step = "dispatch" /\ ticks[w].write = "PENDING" /\ r \in fresh'
                \/ ticks'[w].step = "refund"
      BY ONLY <1>1, <1>6, <2>0, <2>5, <3>1 DEF SendMoves, gatewayVars
    <3> QED
      BY <2>1, <2>2, <2>5, <3>2
  <2>6. CASE ticks[w].step = "reopen"
    <3>1. \/ /\ ~Taken(r) /\ UNCHANGED mailed
             /\ ledger' = [ledger EXCEPT ![r] = ticks[w].write]
             /\ \/ ticks'[w].step = "dispatch" /\ ticks[w].write = "PENDING" /\ r \in fresh'
                \/ ticks'[w].step = "refund"
          \/ ticks'[w].step = "refund" /\ UNCHANGED <<ledger, fresh, mailed>>
      BY ONLY <1>1, <1>6, <2>0, <2>6 DEF SendMoves
    <3> QED
      BY <2>1, <2>2, <2>6, <3>1
  <2>7. CASE ticks[w].step \in {"ask", "refund"}
    <3>1. ticks'[w].step \in {"refund", "open", "mark"} /\ UNCHANGED <<ledger, fresh, mailed>>
      BY ONLY <1>1, <2>7 DEF SendMoves, gatewayVars
    <3> QED
      BY <2>1, <2>7, <3>1
  <2> QED
    BY ONLY <1>1, <2>3, <2>4, <2>5, <2>6, <2>7 DEF SendMoves
<1> QED
  BY <1>5, <1>6

LEMMA ExclusiveStep ==
    ASSUME Typed, Exclusive, [Next]_vars
    PROVE  Exclusive'
<1>t. ticks \in [Ticks -> Tick]
  BY DEF Typed, TypeOK
<1>1. CASE Quiet
  <2>1. UNCHANGED <<ledger, fresh, mailed, lost>>
    BY <1>1 DEF Quiet, gatewayVars
  <2>2. \A w \in Ticks, r \in Recipients :
          /\ OnTheWay(w, r)' <=> OnTheWay(w, r)
          /\ OnTheWay(w, r) => (Accepted(w)' <=> Accepted(w))
    BY <1>1 DEF Quiet, QuietTick, OnTheWay, Accepted, At
  <2>3. ASSUME NEW r \in Recipients \ lost PROVE ExclusiveFor(r)'
    <3>1. ExclusiveFor(r)
      BY DEF Exclusive
    <3> QED
      BY <2>1, <2>2, <3>1, ExclusiveKept
  <2> QED
    BY <2>1, <2>3 DEF Exclusive
<1>2. ASSUME NEW w \in Ticks, SendMail(w) PROVE Exclusive'
  BY <1>2, ExclusiveSend DEF Exclusive
<1>3. ASSUME NEW w \in Ticks, Crash(w) PROVE Exclusive'
  <2>1. /\ UNCHANGED <<ledger, fresh, mailed>> /\ lost \subseteq lost'
        /\ \A v \in Ticks \ {w} : ticks'[v] = ticks[v]
        /\ ticks'[w].step = "idle"
    BY <1>3, <1>t, NoWorkTyped DEF Crash
  <2>2. ASSUME NEW r \in Recipients \ lost' PROVE ExclusiveFor(r)'
    <3>1. ExclusiveFor(r)
      BY <2>1 DEF Exclusive
    <3>2. ~(OnTheWay(w, r) /\ Accepted(w))
      BY <1>3 DEF Crash, OnTheWay, Accepted
    <3>3. ~OnTheWay(w, r)'
      BY <2>1 DEF OnTheWay
    <3>4. ASSUME NEW v \in Ticks \ {w}
          PROVE  (OnTheWay(v, r)' <=> OnTheWay(v, r)) /\ (Accepted(v)' <=> Accepted(v))
      <4>1. ticks'[v] = ticks[v]
        BY <2>1
      <4> QED
        BY ONLY <4>1 DEF OnTheWay, Accepted, At
    <3> QED
      BY <2>1, <3>1, <3>2, <3>3, <3>4 DEF ExclusiveFor
  <2> QED
    BY <2>2 DEF Exclusive
<1>4. ASSUME NEW x \in Recipients, Elapse(x) PROVE Exclusive'
  <2>1. /\ UNCHANGED <<ledger, mailed, ticks>> /\ lost \subseteq lost' /\ fresh' = fresh \ {x}
        /\ (\E w \in Ticks : OnTheWay(w, x)) => x \in lost'
    BY <1>4 DEF Elapse, OnTheWay
  <2>2. ASSUME NEW r \in Recipients \ lost' PROVE ExclusiveFor(r)'
    <3>1. ExclusiveFor(r)
      BY <2>1 DEF Exclusive
    <3>2. \A w \in Ticks : /\ OnTheWay(w, r)' <=> OnTheWay(w, r)
                           /\ Accepted(w)' <=> Accepted(w)
      BY <2>1 DEF OnTheWay, Accepted, At
    <3> QED
      BY <2>1, <3>1, <3>2 DEF ExclusiveFor
  <2> QED
    BY <2>2 DEF Exclusive
<1> QED
  BY <1>1, <1>2, <1>3, <1>4, QuietSteps

\* A lead is mailed once, through pauses, retries, crashes and overlapping ticks,
\* unless its ledger row has lost track of a mail.
THEOREM AtMostOneMail == Spec => []MailedOnce
<1>1. Init => Exclusive
  BY NoWorkTyped DEF Init, Exclusive, ExclusiveFor, OnTheWay
<1>2. Typed /\ Exclusive /\ [Next]_vars => Exclusive'
  BY ExclusiveStep
<1>3. Exclusive => MailedOnce
  BY DEF Exclusive, ExclusiveFor, MailedOnce
<1> QED
  BY <1>1, <1>2, <1>3, TypedInit, TypedStep, PTL DEF Spec

-----------------------------------------------------------------------------
(***************************************************************************)
(* A scheduled campaign and its job: the job waits, or is at its first     *)
(* statement, or a request has the queue in its hand.                      *)
(***************************************************************************)
Coming ==
    \/ "launch" \in queued \cup dead
    \/ \E w \in Ticks : At(w, "flip")
    \/ request.step = "book" \/ Unbooked
    \/ "launch lost" \in excuse

FlipIsLaunch == \A w \in Ticks : At(w, "flip") => ticks[w].kind = "launch"
UnbookIsCancel == request.step = "unbook" => request.op \in {"cancel", "launch now"}
Booked ==
    /\ FlipIsLaunch /\ UnbookIsCancel
    /\ status = "SCHEDULED" => Coming

\* A step that neither schedules the campaign nor takes anything out of the queue.
Calm ==
    /\ queued \subseteq queued' /\ dead \subseteq dead'
    /\ status' = "SCHEDULED" => status = "SCHEDULED"
    /\ "launch lost" \in excuse => "launch lost" \in excuse'
    /\ UNCHANGED request
    /\ \A w \in Ticks : At(w, "flip") => At(w, "flip")'
    /\ FlipIsLaunch'

LEMMA CalmBooked == ASSUME Booked, Calm PROVE Booked'
BY DEF Booked, Calm, Coming, UnbookIsCancel, Unbooked

LEMMA OperatorBooked == ASSUME Typed, Booked, Operator PROVE Booked'
<1>t. request \in Request
  BY DEF Typed, TypeOK
<1>k. FlipIsLaunch' /\ UNCHANGED <<ticks, dead>>
  <2>1. UNCHANGED <<ticks, dead>>
    BY DEF Operator, AskLaunch, AskPause, AskResume, AskCancel, Ask, Freeze, Unbook, Set, Arm, Kick,
           Book, RequestDies, Schedule, jobVars
  <2> QED
    BY <2>1 DEF Booked, FlipIsLaunch, At
<1>f. \A step \in {"idle", "freeze", "unbook", "set", "arm", "kick", "book"} :
        [request EXCEPT !.step = step].step = step /\ [request EXCEPT !.step = step].op = request.op
  BY <1>t DEF Request
<1>p. ASSUME Proceed, Following \in {"idle", "set", "arm", "kick", "book"}
      PROVE  /\ request'.step = Following
             /\ Following # "idle" => request'.op = request.op
  BY <1>p, <1>f DEF Proceed, NoRequest
<1>1. ASSUME NEW step, NEW op, Ask(step, op), step = "unbook" => op = "cancel"
      PROVE  Booked'
  <2>1. request.step = "idle" /\ request'.step = step /\ request'.op = op
    BY <1>1 DEF Ask
  <2>2. UNCHANGED <<status, queued, excuse>>
    BY <1>1 DEF Ask, campaignVars, jobVars
  <2> QED
    BY <1>1, <1>k, <2>1, <2>2 DEF Booked, UnbookIsCancel, Coming, Unbooked, At
<1>2. CASE AskLaunch \/ AskPause \/ AskResume \/ AskCancel
  <2>1. \/ Ask("freeze", "launch now") \/ Ask("freeze", "launch later")
        \/ Ask("set", "pause") \/ Ask("set", "resume") \/ Ask("unbook", "cancel")
    BY <1>2 DEF AskLaunch, AskPause, AskResume, AskCancel
  <2> QED
    BY <1>1, <2>1
<1>3. CASE Freeze
  <2>1. request.step = "freeze" /\ UNCHANGED <<status, queued, excuse>>
    BY <1>3 DEF Freeze, campaignVars, jobVars
  <2>2. UnbookIsCancel'
    <3>1. Following = IF request.op = "launch now" THEN "unbook" ELSE "set"
      BY <2>1 DEF Following
    <3>2. CASE request' = NoRequest
      BY <3>2 DEF UnbookIsCancel, NoRequest
    <3>3. ASSUME NEW holds, request' = [request EXCEPT !.step = Following, !.holds = holds]
          PROVE  UnbookIsCancel'
      <4>1. request'.step = Following /\ request'.op = request.op
        BY <1>t, <3>3 DEF Request
      <4> QED
        BY <3>1, <4>1 DEF UnbookIsCancel
    <3> QED
      BY <1>3, <3>2, <3>3 DEF Freeze
  <2> QED
    BY <1>k, <2>1, <2>2 DEF Booked, Coming, Unbooked, At
<1>4. CASE Unbook
  <2>1. request.step = "unbook" /\ request.op \in {"cancel", "launch now"}
    BY <1>4 DEF Unbook, Booked, UnbookIsCancel
  <2>2. Following = "set"
    BY <2>1 DEF Following
  <2>3. request'.step = "set" /\ request'.op = request.op
    BY <1>4, <1>p, <2>2 DEF Unbook
  <2> QED
    BY <1>k, <2>1, <2>3 DEF Booked, Coming, UnbookIsCancel, Unbooked
<1>5. CASE Set
  <2>1. request.step = "set" /\ request.op \in Ops /\ UNCHANGED <<queued, excuse>>
    BY <1>5, <1>t DEF Set, Request, jobVars
  <2>2. request.op = "launch later" => Following = "book"
    BY <2>1 DEF Following
  <2>3. request.op = "launch later" \/ status' # "SCHEDULED"
    BY <1>5, <2>1 DEF Set, Ops
  <2>4. Following \in {"idle", "arm", "kick", "book"}
    BY <2>1 DEF Following, Ops
  <2>5. request'.step = Following
    BY <1>5, <1>p, <2>4 DEF Set
  <2> QED
    BY <1>k, <2>2, <2>3, <2>4, <2>5 DEF Booked, Coming, UnbookIsCancel
<1>6. CASE Arm \/ Kick \/ Book
  <2>1. request.step \in {"arm", "kick", "book"}
    BY <1>6 DEF Arm, Kick, Book
  <2>2. Following \in {"idle", "kick"}
    <3>1. CASE request.step = "arm"
      BY <3>1 DEF Following
    <3>2. CASE request.step \in {"kick", "book"}
      BY <3>2 DEF Following
    <3> QED
      BY <2>1, <3>1, <3>2
  <2>3. request'.step = Following
    BY <1>6, <1>p, <2>2 DEF Arm, Kick, Book
  <2>4. /\ UNCHANGED status /\ queued \subseteq queued'
        /\ "launch lost" \in excuse => "launch lost" \in excuse'
        /\ request.step = "book" => "launch" \in queued'
    BY <1>6 DEF Arm, Kick, Book, Schedule, campaignVars, jobVars
  <2> QED
    BY <1>k, <2>1, <2>2, <2>3, <2>4 DEF Booked, Coming, UnbookIsCancel, Unbooked, At
<1>7. CASE RequestDies
  <2>1. request'.step = "idle" /\ UNCHANGED <<status, queued>>
    BY <1>7 DEF RequestDies, NoRequest, campaignVars, jobVars
  <2>2. "launch lost" \in excuse => "launch lost" \in excuse'
    BY <1>7 DEF RequestDies
  <2>3. request.step = "book" => "launch lost" \in excuse'
    BY <1>7 DEF RequestDies
  <2>4. Unbooked => "launch lost" \in excuse'
    <3>1. Unbooked => request.step = "set"
      BY DEF Unbooked
    <3> QED
      BY <1>7, <3>1 DEF RequestDies
  <2> QED
    BY <1>k, <2>1, <2>2, <2>3, <2>4 DEF Booked, Coming, UnbookIsCancel, At
<1> QED
  BY <1>2, <1>3, <1>4, <1>5, <1>6, <1>7 DEF Operator

\* Ticks that stay at the flip, or come to it by a launch.
LEMMA QuietFlip ==
    ASSUME Typed, Booked, Quiet
    PROVE  /\ FlipIsLaunch'
           /\ \A w \in Ticks : At(w, "flip") => At(w, "flip")' \/ FlipSending(w) \/ Throw(w)
BY DEF Booked, FlipIsLaunch, Quiet, QuietTick, At

LEMMA RunnerBooked ==
    ASSUME Typed, Booked, NEW w \in Ticks, Crash(w) \/ (Quiet /\ Throw(w))
    PROVE  Booked'
<1>t. ticks \in [Ticks -> Tick]
  BY DEF Typed, TypeOK
<1>1. ticks' = [ticks EXCEPT ![w] = NoWork]
  BY DEF Crash, Throw, Finished
<1>2. /\ ticks'[w].step = "idle"
      /\ \A v \in Ticks \ {w} : ticks'[v] = ticks[v]
  BY <1>t, <1>1, NoWorkTyped
<1>3. FlipIsLaunch' /\ \A v \in Ticks \ {w} : At(v, "flip") => At(v, "flip")'
  BY <1>2 DEF Booked, FlipIsLaunch, At
<1>4. /\ UNCHANGED request /\ queued \subseteq queued' /\ dead \subseteq dead'
      /\ status' = "SCHEDULED" => status = "SCHEDULED"
      /\ "launch lost" \in excuse => "launch lost" \in excuse'
  BY DEF Crash, Throw, campaignVars
<1>5. At(w, "flip") => "launch" \in queued' \cup dead' \/ "launch lost" \in excuse'
  BY DEF Crash, Throw, Booked, FlipIsLaunch
<1> QED
  BY <1>3, <1>4, <1>5 DEF Booked, Coming, UnbookIsCancel, Unbooked

LEMMA QuietBooked ==
    ASSUME Typed, Booked, [Next]_vars, Quiet
    PROVE  Booked'
<1>q. /\ FlipIsLaunch'
      /\ \A w \in Ticks : At(w, "flip") => At(w, "flip")' \/ FlipSending(w) \/ Throw(w)
  BY QuietFlip
<1> DEFINE Fine == /\ queued \subseteq queued' /\ dead \subseteq dead'
                   /\ status' = "SCHEDULED" => status = "SCHEDULED"
                   /\ "launch lost" \in excuse => "launch lost" \in excuse'
                   /\ UNCHANGED request
<1>0. ASSUME \E w \in Ticks : FlipSending(w) \/ Throw(w) PROVE Booked'
  <2>1. ASSUME NEW w \in Ticks, FlipSending(w) PROVE Booked'
    <3>1. status' # "SCHEDULED" /\ UNCHANGED request
      BY <2>1 DEF FlipSending
    <3> QED
      BY <1>q, <3>1 DEF Booked, UnbookIsCancel
  <2> QED
    BY <1>0, <2>1, RunnerBooked
<1>1. ASSUME Fine PROVE Booked'
  <2>1. CASE \E w \in Ticks : FlipSending(w) \/ Throw(w)
    BY <1>0, <2>1
  <2>2. CASE ~\E w \in Ticks : FlipSending(w) \/ Throw(w)
    BY <1>1, <1>q, <2>2, CalmBooked DEF Calm
  <2> QED
    BY <2>1, <2>2
<1> HIDE DEF Fine
<1>2. CASE Operator
  BY <1>2, OperatorBooked
<1>3. ASSUME NEW w \in Ticks, NEW kind \in Kinds, Begin(w, kind) PROVE Booked'
  <2>1. /\ UNCHANGED <<status, dead, excuse, request>> /\ queued' = queued \ {kind}
        /\ At(w, "idle")
    BY <1>3 DEF Begin, campaignVars
  <2>2. kind = "launch" => At(w, "flip")'
    <3>1. ASSUME kind = "launch" PROVE At(w, "flip")'
      <4>1. First(kind) = "flip"
        BY <3>1 DEF First
      <4>2. [NoWork EXCEPT !.step = First(kind), !.kind = kind].step = "flip"
        BY <4>1, NoWorkTyped DEF Tick
      <4> QED
        BY <1>3, <4>2 DEF Begin, At, Typed, TypeOK
    <3> QED
      BY <3>1
  <2>3. \A v \in Ticks : At(v, "flip") => At(v, "flip")'
    <3>1. \A v \in Ticks \ {w} : ticks'[v] = ticks[v]
      BY <1>3 DEF Begin, Typed, TypeOK
    <3> QED
      BY <2>1, <3>1 DEF At
  <2> QED
    BY <1>q, <2>1, <2>2, <2>3 DEF Booked, Coming, UnbookIsCancel, Unbooked
<1>4. ASSUME NEW kind \in Kinds, Reap(kind) PROVE Booked'
  <2>1. /\ UNCHANGED <<status, ticks, excuse, request>>
        /\ queued' = queued \cup {kind} /\ dead' = dead \ {kind}
    BY <1>4 DEF Reap, campaignVars
  <2> QED
    BY <1>q, <2>1 DEF Booked, Coming, UnbookIsCancel, Unbooked, At
<1>5. ASSUME NEW w \in Ticks, Throw(w) \/ FlipSending(w) PROVE Booked'
  BY <1>0, <1>5
<1>6. ASSUME NEW w \in Ticks, LoseLock(w) PROVE Booked'
  BY <1>1, <1>6 DEF LoseLock, Fine, campaignVars
<1>7. ASSUME NEW w \in Ticks, Rearm(w) \/ DecideAbWinner(w) \/ KickBatch(w) PROVE Booked'
  <2>1. Fine
    BY <1>7 DEF Rearm, DecideAbWinner, Look, Elect, Release, KickBatch, Schedule, Finish, FinishAfter,
                Fine, campaignVars, jobVars
  <2> QED
    BY <1>1, <2>1
<1>8. ASSUME NEW w \in Ticks, Batch(w) PROVE Booked'
  <2>1. Fine
    BY <1>8 DEF Batch, Read, Reclaim, List, Turn, Leave, Check, Mark, Streak, Count, Held, Close, Schedule,
                Finish, FinishAfter, Fine, campaignVars, jobVars
  <2> QED
    BY <1>1, <2>1
<1>9. ASSUME NEW w \in Ticks, SendMail(w) PROVE Booked'
  BY <1>1, <1>9 DEF SendMail, AskGateway, Open, Reopen, Dispatch, Settle, Refund, Fine, campaignVars, jobVars
<1>10. ASSUME NEW w \in Ticks, Crash(w) PROVE Booked'
  BY <1>10, RunnerBooked
<1>11. ASSUME NEW r \in Recipients, Elapse(r) \/ OptOut(r) \/ Unsubscribe(r) PROVE Booked'
  BY <1>1, <1>11 DEF Elapse, OptOut, Unsubscribe, Fine, campaignVars, jobVars
<1>12. CASE Block
  BY <1>1, <1>12 DEF Block, Fine, campaignVars, jobVars
<1>13. CASE UNCHANGED vars
  BY <1>1, <1>13 DEF vars, Fine
<1> QED
  BY <1>2, <1>3, <1>4, <1>5, <1>6, <1>7, <1>8, <1>9, <1>10, <1>11, <1>12, <1>13 DEF Next, LaunchScheduled

LEMMA BookedStep ==
    ASSUME Typed, Booked, [Next]_vars
    PROVE  Booked'
<1>1. CASE Quiet
  BY <1>1, QuietBooked
<1>2. ASSUME NEW w \in Ticks, SendMail(w) PROVE Booked'
  <2>1. /\ ticks[w].step # "flip" /\ ticks'[w].step # "flip"
        /\ \A v \in Ticks \ {w} : ticks'[v] = ticks[v]
    <3>1. SendMoves(w, ticks[w]) /\ \A v \in Ticks \ {w} : ticks'[v] = ticks[v]
      BY <1>2, SendSteps
    <3> QED
      BY ONLY <3>1 DEF SendMoves
  <2>2. UNCHANGED <<status, queued, dead, excuse, request>>
    BY <1>2 DEF SendMail, AskGateway, Open, Reopen, Dispatch, Settle, Refund, campaignVars, jobVars
  <2>3. Calm
    BY <2>1, <2>2 DEF Calm, Booked, FlipIsLaunch, At
  <2> QED
    BY <2>3, CalmBooked
<1>3. ASSUME NEW w \in Ticks, Crash(w) PROVE Booked'
  BY <1>3, RunnerBooked
<1>4. ASSUME NEW r \in Recipients, Elapse(r) PROVE Booked'
  <2>1. UNCHANGED <<status, queued, dead, excuse, request, ticks>>
    BY <1>4 DEF Elapse, campaignVars, jobVars
  <2>2. Calm
    BY <2>1 DEF Calm, Booked, FlipIsLaunch, At
  <2> QED
    BY <2>2, CalmBooked
<1> QED
  BY <1>1, <1>2, <1>3, <1>4, QuietSteps

\* A campaign that waits for its time has the job that will start it.
THEOREM ScheduledHasJob == Spec => []ScheduledIsBooked
<1>1. Init => Booked
  BY NoWorkTyped DEF Init, NoRequest, Booked, FlipIsLaunch, UnbookIsCancel, At
<1>2. Typed /\ Booked /\ [Next]_vars => Booked'
  BY BookedStep
<1>3. Booked => ScheduledIsBooked
  <2> SUFFICES ASSUME Booked, Coming
               PROVE  Attended("launch") \/ request.step # "idle" \/ "launch lost" \in excuse
    BY DEF Booked, ScheduledIsBooked
  <2>1. Unbooked => request.step = "set"
    BY DEF Unbooked
  <2> QED
    BY <2>1 DEF Coming, Attended, Booked, FlipIsLaunch, At
<1> QED
  BY <1>1, <1>2, <1>3, TypedInit, TypedStep, PTL DEF Spec

=============================================================================
