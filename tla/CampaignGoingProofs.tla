------------------------ MODULE CampaignGoingProofs ------------------------
(***************************************************************************)
(* A campaign neither falls asleep nor ends early: KeepsGoing and          *)
(* SentIsDone of CampaignSender, for any audience and any number of        *)
(* ticks, requests, opt-outs, suspensions and failures.                    *)
(***************************************************************************)
EXTENDS CampaignSenderProofs

\* The statements of a batch between the list and the end, without a row in hand.
Sweeping == {"list", "loop", "streak", "count", "held", "close"}
Batching == {"read", "reclaim"} \cup Sweeping \cup Holding

\* A tick is at a statement of the handler of its kind.
KindFits == \A w \in Ticks :
    /\ ticks[w].step \in {"flip", "rearm"} => ticks[w].kind = "launch"
    /\ ticks[w].step \in {"look", "elect", "release"} => ticks[w].kind = "decide"
    /\ At(w, "kick") => ticks[w].kind \in {"launch", "decide"}
    /\ ticks[w].step \in Batching => ticks[w].kind = "batch"

-----------------------------------------------------------------------------
(***************************************************************************)
(* What a statement of a handler does to the part of the state that the    *)
(* invariants are about.                                                   *)
(***************************************************************************)
\* Nothing but the tick moves; it goes on with its job, or it is done with it.
Stepping(w) ==
    /\ UNCHANGED <<optedOut, request, dead>>
    /\ \A v \in Ticks \ {w} : ticks'[v] = ticks[v]
    /\ \/ ticks'[w].step = "idle" /\ lock' = IF lock = w THEN NoTick ELSE lock
       \/ /\ ticks'[w].step # "idle" /\ ticks'[w].kind = ticks[w].kind /\ lock' = lock
          /\ At(w, "read") \/ ticks'[w].undecided = ticks[w].undecided

\* Statements that only read.
Walks(w) ==
    LET from == ticks[w].step  to == ticks'[w].step IN
    /\ UNCHANGED <<status, decided, rec, queued, excuse>>
    /\ \/ from = "look" /\ to = "elect"
       \/ from = "read" /\ to = "reclaim" /\ ticks'[w].undecided = ~decided
       \/ from = "list" /\ to = "loop"
       \/ from \in {"list", "count"} /\ to = "held" /\ Having("PENDING") = {}
       \/ from = "loop" /\ to \in {"loop", "streak", "count"}
       \/ from = "streak" /\ to = "count"
       \/ from = "held" /\ to = "close" /\ Having("HOLD") = {}
       \/ from \in Holding \ {"mark"} /\ to \in Holding /\ ticks'[w].cur = ticks[w].cur

\* Statements that start the campaign or decide about it.
Starts(w) ==
    LET from == ticks[w].step  to == ticks'[w].step IN
    /\ queued \subseteq queued' /\ UNCHANGED excuse
    /\ \/ /\ from = "flip" /\ to = "rearm" /\ UNCHANGED <<decided, rec>>
          /\ status' = IF status = "SCHEDULED" THEN "SENDING" ELSE status
       \/ from = "rearm" /\ to = "kick" /\ UNCHANGED <<status, decided, rec>>
       \/ from = "elect" /\ to = "release" /\ decided' = TRUE /\ UNCHANGED <<status, rec>>
       \/ /\ from = "release" /\ to = "kick" /\ UNCHANGED <<status, decided>>
          /\ rec' = [r \in Recipients |-> IF rec[r] = "HOLD" THEN "PENDING" ELSE rec[r]]

\* Statements that write a row.
Writes(w) ==
    LET from == ticks[w].step  to == ticks'[w].step IN
    /\ UNCHANGED <<status, decided, queued, excuse>>
    /\ \/ from = "reclaim" /\ to = "list" /\ rec' = Reclaimed
       \/ /\ from = "loop" /\ to = "check"
          /\ \E r \in Recipients : /\ rec[r] = "PENDING" /\ ticks'[w].cur = r
                                   /\ rec' = [rec EXCEPT ![r] = "SENDING"]
       \/ from = "mark" /\ to = "loop" /\ rec' = [rec EXCEPT ![ticks[w].cur] = Marked(w)]

\* Statements that end a handler.
Ends(w) ==
    LET from == ticks[w].step IN
    /\ ticks'[w].step = "idle" /\ UNCHANGED <<decided, rec>>
    /\ \/ from = "rearm" /\ status # "SENDING" /\ UNCHANGED <<status, queued, excuse>>
       \/ /\ from \in {"look", "elect"}
          /\ decided \/ status # "SENDING"
          /\ UNCHANGED <<status, queued, excuse>>
       \/ /\ from = "kick" /\ queued' = queued \cup {"batch"}
          /\ excuse' = excuse \ {"batch lost"} /\ UNCHANGED status
       \/ from = "read" /\ status # "SENDING" /\ UNCHANGED <<status, queued, excuse>>
       \/ from = "read" /\ excuse' = excuse \cup {"batch lost"} /\ UNCHANGED <<status, queued>>
       \/ from = "streak" /\ status = "SENDING" /\ status' = "PAUSED" /\ UNCHANGED <<queued, excuse>>
       \/ from = "count" /\ queued' = queued \cup {"batch"} /\ UNCHANGED <<status, excuse>>
       \/ /\ from = "held" /\ ticks[w].undecided /\ queued' = queued \cup {"decide"}
          /\ UNCHANGED <<status, excuse>>
       \/ from = "held" /\ ~ticks[w].undecided /\ UNCHANGED <<status, queued, excuse>>
       \/ from = "close" /\ status' = "SENT" /\ UNCHANGED <<queued, excuse>>

Handled(w) == Stepping(w) /\ (Walks(w) \/ Starts(w) \/ Writes(w) \/ Ends(w))

\* A statement that goes on with its tick, and one that ends it.
LEMMA GoSteps ==
    ASSUME Typed, NEW w \in Ticks, NEW t \in Tick, ticks' = [ticks EXCEPT ![w] = t]
    PROVE  ticks'[w] = t /\ \A v \in Ticks \ {w} : ticks'[v] = ticks[v]
BY DEF Typed, TypeOK

LEMMA GoOn ==
    ASSUME Typed, NEW w \in Ticks, NEW step \in TickStep, Go(w, step)
    PROVE  /\ ticks'[w].step = step /\ ticks'[w].kind = ticks[w].kind
           /\ ticks'[w].undecided = ticks[w].undecided /\ ticks'[w].cur = ticks[w].cur
           /\ \A v \in Ticks \ {w} : ticks'[v] = ticks[v]
<1>1. ticks[w] \in Tick
  BY DEF Typed, TypeOK
<1> DEFINE t == [ticks[w] EXCEPT !.step = step]
<1>2. /\ t \in Tick /\ t.step = step /\ t.kind = ticks[w].kind
      /\ t.undecided = ticks[w].undecided /\ t.cur = ticks[w].cur
  BY <1>1 DEF Tick
<1>3. ticks' = [ticks EXCEPT ![w] = t]
  BY Zenon DEF Go
<1> HIDE DEF t
<1> QED
  BY <1>2, <1>3, GoSteps

LEMMA SettleOn ==
    ASSUME Typed, NEW w \in Ticks, NEW step \in TickStep, Settled(w, step)
    PROVE  /\ ticks'[w].step = step /\ ticks'[w].kind = "batch"
           /\ ticks'[w].undecided = ticks[w].undecided
           /\ \A v \in Ticks \ {w} : ticks'[v] = ticks[v]
<1>1. ticks[w] \in Tick
  BY DEF Typed, TypeOK
<1> DEFINE t == [NoWork EXCEPT !.step = step, !.undecided = ticks[w].undecided]
<1>2. t \in Tick /\ t.step = step /\ t.kind = "batch" /\ t.undecided = ticks[w].undecided
  <2>1. NoWork.kind = "batch"
    BY DEF NoWork
  <2> QED
    BY <1>1, <2>1, NoWorkTyped DEF Tick
<1>3. ticks' = [ticks EXCEPT ![w] = t]
  BY Zenon DEF Settled
<1> HIDE DEF t
<1> QED
  BY <1>2, <1>3, GoSteps

LEMMA FinishOff ==
    ASSUME Typed, NEW w \in Ticks, Finished(w)
    PROVE  /\ ticks'[w].step = "idle" /\ lock' = IF lock = w THEN NoTick ELSE lock
           /\ \A v \in Ticks \ {w} : ticks'[v] = ticks[v]
<1>1. ticks' = [ticks EXCEPT ![w] = NoWork]
  BY DEF Finished
<1> QED
  BY <1>1, GoSteps, NoWorkTyped DEF Finished


LEMMA StartHandled ==
    ASSUME Typed, KindFits, NEW w \in Ticks, LaunchScheduled(w) \/ DecideAbWinner(w) \/ KickBatch(w)
    PROVE  Handled(w)
<1>s. {"rearm", "kick", "elect", "release"} \subseteq TickStep
  BY DEF TickStep
<1> USE DEF Stepping, campaignVars, jobVars, At
<1>1. CASE FlipSending(w)
  <2>1. Go(w, "rearm") /\ At(w, "flip")
    BY <1>1 DEF FlipSending
  <2>2. Stepping(w)
    BY <1>1, <1>s, <2>1, GoOn DEF FlipSending
  <2>3. Starts(w)
    BY <1>1, <1>s, <2>1, GoOn DEF FlipSending, Starts
  <2> QED
    BY <2>2, <2>3 DEF Handled
<1>2. CASE Rearm(w)
  <2>1. CASE status = "SENDING"
    <3>1. Go(w, "kick") /\ UNCHANGED <<dead, lock>> /\ queued \subseteq queued'
      BY <1>2, <2>1 DEF Rearm, Schedule
    <3>2. Stepping(w)
      BY <1>2, <1>s, <3>1, GoOn DEF Rearm
    <3>3. Starts(w)
      BY <1>2, <1>s, <3>1, GoOn DEF Rearm, Starts
    <3> QED
      BY <3>2, <3>3 DEF Handled
  <2>2. CASE status # "SENDING"
    <3>1. Finish(w)
      BY <1>2, <2>2 DEF Rearm
    <3>2. Stepping(w)
      BY <1>2, <3>1, FinishOff DEF Rearm, Finish
    <3>3. Ends(w)
      BY <1>2, <2>2, <3>1, FinishOff DEF Rearm, Ends, Finish
    <3> QED
      BY <3>2, <3>3 DEF Handled
  <2> QED
    BY <2>1, <2>2
<1>3. CASE Look(w)
  <2>1. CASE ~decided /\ status = "SENDING"
    <3>1. Go(w, "elect") /\ UNCHANGED jobVars
      BY <1>3, <2>1 DEF Look
    <3>2. Stepping(w)
      BY <1>3, <1>s, <3>1, GoOn DEF Look
    <3>3. Walks(w)
      BY <1>3, <1>s, <3>1, GoOn DEF Look, Walks
    <3> QED
      BY <3>2, <3>3 DEF Handled
  <2>2. CASE ~(~decided /\ status = "SENDING")
    <3>1. Finish(w)
      BY <1>3, <2>2 DEF Look
    <3>2. Stepping(w)
      BY <1>3, <3>1, FinishOff DEF Look, Finish
    <3>3. Ends(w)
      BY <1>3, <2>2, <3>1, FinishOff DEF Look, Ends, Finish, Typed, TypeOK
    <3> QED
      BY <3>2, <3>3 DEF Handled
  <2> QED
    BY <2>1, <2>2
<1>4. CASE Elect(w)
  <2>1. CASE ~decided /\ status = "SENDING"
    <3>1. Go(w, "release") /\ UNCHANGED jobVars
      BY <1>4, <2>1 DEF Elect
    <3>2. Stepping(w)
      BY <1>4, <1>s, <3>1, GoOn DEF Elect
    <3>3. Starts(w)
      BY <1>4, <2>1, <1>s, <3>1, GoOn DEF Elect, Starts
    <3> QED
      BY <3>2, <3>3 DEF Handled
  <2>2. CASE ~(~decided /\ status = "SENDING")
    <3>1. Finish(w) /\ UNCHANGED decided
      BY <1>4, <2>2 DEF Elect
    <3>2. Stepping(w)
      BY <1>4, <3>1, FinishOff DEF Elect, Finish
    <3>3. Ends(w)
      BY <1>4, <2>2, <3>1, FinishOff DEF Elect, Ends, Finish, Typed, TypeOK
    <3> QED
      BY <3>2, <3>3 DEF Handled
  <2> QED
    BY <2>1, <2>2
<1>5. CASE Release(w)
  <2>1. Go(w, "kick") /\ At(w, "release")
    BY <1>5 DEF Release
  <2>2. Stepping(w)
    BY <1>5, <1>s, <2>1, GoOn DEF Release
  <2>3. Starts(w)
    BY <1>5, <1>s, <2>1, GoOn DEF Release, Starts
  <2> QED
    BY <2>2, <2>3 DEF Handled
<1>6. CASE KickBatch(w)
  <2>1. Finished(w) /\ queued' = queued \cup {"batch"} /\ UNCHANGED dead
    BY <1>6 DEF KickBatch, FinishAfter
  <2>2. Stepping(w)
    BY <1>6, <2>1, FinishOff DEF KickBatch
  <2>3. Ends(w)
    BY <1>6, <2>1, FinishOff DEF KickBatch, Ends
  <2> QED
    BY <2>2, <2>3 DEF Handled
<1> QED
  BY <1>1, <1>2, <1>3, <1>4, <1>5, <1>6 DEF LaunchScheduled, DecideAbWinner

\* A send changes where its tick stands, and what it knows of the mail.
LEMMA SendKeeps ==
    ASSUME Typed, NEW w \in Ticks, SendMail(w)
    PROVE  ticks'[w].kind = ticks[w].kind /\ ticks'[w].undecided = ticks[w].undecided
<1>t. ticks \in [Ticks -> Tick] /\ ticks[w] \in Tick
  BY DEF Typed, TypeOK
<1>g. ASSUME NEW step, Go(w, step)
      PROVE  ticks'[w].kind = ticks[w].kind /\ ticks'[w].undecided = ticks[w].undecided
  BY <1>t, <1>g DEF Go, Tick
<1>a. ASSUME NEW step, NEW out, ticks' = [ticks EXCEPT ![w].step = step, ![w].out = out]
      PROVE  ticks'[w].kind = ticks[w].kind /\ ticks'[w].undecided = ticks[w].undecided
  BY <1>t, <1>a DEF Tick
<1>1. CASE AskGateway(w)
  <2>1. ASSUME ticks' = [ticks EXCEPT ![w].step = "open", ![w].write = "PENDING"]
        PROVE  ticks'[w].kind = ticks[w].kind /\ ticks'[w].undecided = ticks[w].undecided
    BY <1>t, <2>1 DEF Tick
  <2>2. ASSUME NEW out \in Refusals,
               ticks' = [ticks EXCEPT ![w].step = "open", ![w].write = "FAILED", ![w].out = out]
        PROVE  ticks'[w].kind = ticks[w].kind /\ ticks'[w].undecided = ticks[w].undecided
    BY <1>t, <2>2 DEF Tick
  <2> QED
    BY <1>1, <1>a, <2>1, <2>2 DEF AskGateway
<1>2. CASE Open(w)
  <2>1. ASSUME ticks' = [ticks EXCEPT ![w].step = Then(w), ![w].row = FALSE]
        PROVE  ticks'[w].kind = ticks[w].kind /\ ticks'[w].undecided = ticks[w].undecided
    BY <1>t, <2>1 DEF Tick
  <2> QED
    BY <1>2, <1>g, <1>a, <2>1 DEF Open
<1>3. CASE Dispatch(w)
  BY <1>3, <1>a DEF Dispatch
<1>4. CASE Reopen(w) \/ Settle(w) \/ Refund(w)
  BY <1>4, <1>g DEF Reopen, Settle, Refund
<1> QED
  BY <1>1, <1>2, <1>3, <1>4 DEF SendMail

LEMMA SendHandled ==
    ASSUME Typed, NEW w \in Ticks, SendMail(w)
    PROVE  Handled(w)
<1>1. SendMoves(w, ticks[w]) /\ \A v \in Ticks \ {w} : ticks'[v] = ticks[v]
  BY SendSteps
<1>2. /\ ticks'[w].cur = ticks[w].cur
      /\ ticks[w].step \in Holding \ {"mark"} /\ ticks'[w].step \in Holding
      /\ ticks'[w].step # "idle"
  BY ONLY <1>1 DEF SendMoves, Holding
<1>3. UNCHANGED <<status, decided, rec, optedOut, request, queued, dead, lock, excuse>>
  BY DEF SendMail, AskGateway, Open, Reopen, Dispatch, Settle, Refund, campaignVars, jobVars
<1> QED
  BY ONLY <1>1, <1>2, <1>3, SendKeeps, Typed, w \in Ticks, SendMail(w) DEF Handled, Stepping, Walks

LEMMA BatchHandled ==
    ASSUME Typed, KindFits, NEW w \in Ticks, Batch(w)
    PROVE  Handled(w)
<1>t. ticks \in [Ticks -> Tick] /\ ticks[w] \in Tick /\ decided \in BOOLEAN
  BY DEF Typed, TypeOK
<1>s. {"reclaim", "list", "loop", "streak", "count", "held", "close", "check", "ask", "mark"}
        \subseteq TickStep
  BY DEF TickStep
<1>b. ticks[w].step \in Sweeping => ticks[w].kind = "batch"
  BY DEF KindFits, Batching
<1>u. ASSUME NEW t \in Tick, ticks' = [ticks EXCEPT ![w] = t],
             t.step # "idle", t.kind = ticks[w].kind, At(w, "read") \/ t.undecided = ticks[w].undecided,
             UNCHANGED <<optedOut, request, dead, lock>>
      PROVE  Stepping(w) /\ ticks'[w] = t
  BY <1>u, GoSteps DEF Stepping
<1>g. ASSUME NEW step \in TickStep, Go(w, step), step # "idle", UNCHANGED <<optedOut, request, dead, lock>>
      PROVE  Stepping(w) /\ ticks'[w].step = step /\ ticks'[w].cur = ticks[w].cur
  BY <1>g, GoOn DEF Stepping
<1>e. ASSUME NEW step \in TickStep, Settled(w, step), step # "idle", ticks[w].step \in Sweeping,
             UNCHANGED <<optedOut, request, dead, lock>>
      PROVE  Stepping(w) /\ ticks'[w].step = step
  BY <1>b, <1>e, SettleOn DEF Stepping
<1>f. ASSUME Finished(w), UNCHANGED <<optedOut, request, dead>>
      PROVE  Stepping(w) /\ ticks'[w].step = "idle"
  BY <1>f, FinishOff DEF Stepping
<1> USE DEF campaignVars, jobVars, At
<1>1. CASE Read(w)
  <2>1. CASE /\ status = "SENDING" /\ ~blocked
             /\ ticks' = [ticks EXCEPT ![w].step = "reclaim", ![w].undecided = ~decided]
             /\ UNCHANGED <<jobVars, excuse>>
    <3> DEFINE t == [ticks[w] EXCEPT !.step = "reclaim", !.undecided = ~decided]
    <3>1. /\ t \in Tick /\ t.step = "reclaim" /\ t.kind = ticks[w].kind
          /\ t.undecided = ~decided
      BY <1>t, <1>s DEF Tick
    <3>2. ticks' = [ticks EXCEPT ![w] = t]
      BY <1>t, <2>1
    <3> HIDE DEF t
    <3>3. Stepping(w) /\ ticks'[w] = t
      BY <1>1, <1>u, <2>1, <3>1, <3>2 DEF Read
    <3> QED
      BY <1>1, <2>1, <3>1, <3>3 DEF Read, Walks, Handled
  <2>2. CASE Finish(w) /\ status # "SENDING" /\ UNCHANGED excuse
    BY <1>1, <1>f, <2>2 DEF Read, Finish, Ends, Handled
  <2>3. CASE Finish(w) /\ excuse' = excuse \cup {"batch lost"}
    BY <1>1, <1>f, <2>3 DEF Read, Finish, Ends, Handled
  <2> QED
    BY <1>1, <2>1, <2>2, <2>3 DEF Read
<1>2. CASE Reclaim(w)
  BY <1>2, <1>s, <1>g DEF Reclaim, Writes, Handled
<1>3. CASE List(w)
  <2> DEFINE t == [ticks[w] EXCEPT !.todo = Having("PENDING"),
                                   !.step = IF Having("PENDING") = {} THEN "held" ELSE "loop"]
  <2>1. /\ t \in Tick /\ t.kind = ticks[w].kind /\ t.undecided = ticks[w].undecided
        /\ t.step = (IF Having("PENDING") = {} THEN "held" ELSE "loop")
    BY <1>t, <1>s DEF Tick, Having
  <2>2. ticks' = [ticks EXCEPT ![w] = t]
    BY <1>3, <1>t DEF List
  <2> HIDE DEF t
  <2>3. Stepping(w) /\ ticks'[w] = t
    BY <1>3, <1>u, <2>1, <2>2 DEF List
  <2> QED
    BY <1>3, <2>1, <2>3 DEF List, Walks, Handled
<1>4. ASSUME NEW r \in Recipients, Turn(w, r) PROVE Handled(w)
  <2>1. CASE ClaimRow(w, r)
    <3> DEFINE t == [ticks[w] EXCEPT !.todo = ticks[w].todo \ {r}, !.cur = r, !.claimed = TRUE,
                                     !.step = "check"]
    <3>1. /\ t \in Tick /\ t.kind = ticks[w].kind /\ t.undecided = ticks[w].undecided
          /\ t.step = "check" /\ t.cur = r
      BY <1>t, <1>s DEF Tick
    <3>2. ticks' = [ticks EXCEPT ![w] = t]
      BY <1>4, <1>t, <2>1 DEF Turn
    <3> HIDE DEF t
    <3>3. Stepping(w) /\ ticks'[w] = t
      BY <1>4, <1>u, <3>1, <3>2 DEF Turn
    <3> QED
      BY <1>4, <2>1, <3>1, <3>3 DEF Turn, ClaimRow, Writes, Handled
  <2>2. CASE ~ClaimRow(w, r)
    <3> DEFINE t == [ticks[w] EXCEPT !.todo = ticks[w].todo \ {r}]
    <3>1. /\ t \in Tick /\ t.kind = ticks[w].kind /\ t.undecided = ticks[w].undecided
          /\ t.step = ticks[w].step
      BY <1>t, <1>s DEF Tick
    <3>2. ticks' = [ticks EXCEPT ![w] = t]
      BY <1>4, <1>t, <2>2 DEF Turn
    <3> HIDE DEF t
    <3>3. Stepping(w) /\ ticks'[w] = t
      BY <1>4, <1>u, <3>1, <3>2 DEF Turn
    <3> QED
      BY <1>4, <2>2, <3>1, <3>3 DEF Turn, Walks, Handled
  <2> QED
    BY <2>1, <2>2
<1>5. CASE Leave(w)
  <2>1. CASE ticks' = [ticks EXCEPT ![w].todo = {}, ![w].step = "streak"]
    <3> DEFINE t == [ticks[w] EXCEPT !.todo = {}, !.step = "streak"]
    <3>1. /\ t \in Tick /\ t.kind = ticks[w].kind /\ t.undecided = ticks[w].undecided
          /\ t.step = "streak"
      BY <1>t, <1>s DEF Tick
    <3>2. ticks' = [ticks EXCEPT ![w] = t]
      BY <1>t, <2>1
    <3> HIDE DEF t
    <3>3. Stepping(w) /\ ticks'[w] = t
      BY <1>5, <1>u, <3>1, <3>2 DEF Leave
    <3> QED
      BY <1>5, <3>1, <3>3 DEF Leave, Walks, Handled
  <2>2. CASE Settled(w, "count")
    BY <1>5, <1>s, <1>e, <2>2 DEF Leave, Sweeping, Walks, Handled
  <2> QED
    BY <1>5, <2>1, <2>2 DEF Leave
<1>6. CASE Check(w)
  <2>1. CASE Go(w, "ask")
    BY <1>6, <1>s, <1>g, <2>1 DEF Check, Holding, Walks, Handled
  <2>2. ASSUME NEW out \in Outcome, ticks' = [ticks EXCEPT ![w].step = "mark", ![w].out = out]
        PROVE  Handled(w)
    <3> DEFINE t == [ticks[w] EXCEPT !.step = "mark", !.out = out]
    <3>1. /\ t \in Tick /\ t.kind = ticks[w].kind /\ t.undecided = ticks[w].undecided
          /\ t.step = "mark" /\ t.cur = ticks[w].cur
      BY <1>t, <1>s DEF Tick
    <3>2. ticks' = [ticks EXCEPT ![w] = t]
      BY <1>t, <2>2
    <3> HIDE DEF t
    <3>3. Stepping(w) /\ ticks'[w] = t
      BY <1>6, <1>u, <3>1, <3>2 DEF Check
    <3> QED
      BY <1>6, <3>1, <3>3 DEF Check, Holding, Walks, Handled
  <2>3. Is("SKIPPED") \in Outcome /\ [Is("RETRY") EXCEPT !.stop = TRUE] \in Outcome
    BY Outcomes
  <2> QED
    BY <1>6, <2>1, <2>2, <2>3 DEF Check
<1>7. CASE Mark(w)
  <2> DEFINE out == ticks[w].out
             t == [ticks[w] EXCEPT !.step = "loop", !.cur = NoRecipient,
                     !.out = Is("SENT"), !.write = "PENDING", !.row = TRUE,
                     !.todo = IF out.stop THEN {} ELSE ticks[w].todo,
                     !.sent = ticks[w].sent \/ out.is = "SENT",
                     !.back = ticks[w].back \/ (out.is = "RETRY" /\ ~out.defer)]
  <2>1. t \in Tick
    BY <1>t, <1>s, Outcomes DEF Tick
  <2>2. t.kind = ticks[w].kind /\ t.undecided = ticks[w].undecided /\ t.step = "loop"
    BY <1>t DEF Tick
  <2>3. ticks' = [ticks EXCEPT ![w] = t]
    BY <1>7, <1>t DEF Mark
  <2> HIDE DEF t
  <2>4. Stepping(w) /\ ticks'[w] = t
    BY <1>7, <1>u, <2>1, <2>2, <2>3 DEF Mark
  <2> QED
    BY <1>7, <2>2, <2>4 DEF Mark, Writes, Handled
<1>8. CASE Streak(w)
  <2>1. CASE status' = status /\ UNCHANGED jobVars /\ Settled(w, "count")
    BY <1>8, <1>s, <1>e, <2>1 DEF Streak, Sweeping, Walks, Handled
  <2>2. CASE status = "SENDING" /\ status' = "PAUSED" /\ Finish(w)
    BY <1>8, <1>f, <2>2 DEF Streak, Finish, Ends, Handled
  <2> QED
    BY <1>8, <2>1, <2>2 DEF Streak
<1>9. CASE Count(w)
  <2>1. CASE FinishAfter(w, "batch")
    BY <1>9, <1>f, <2>1 DEF Count, FinishAfter, Ends, Handled
  <2>2. CASE Having("PENDING") = {} /\ Go(w, "held") /\ UNCHANGED jobVars
    BY <1>9, <1>s, <1>g, <2>2 DEF Count, Walks, Handled
  <2> QED
    BY <1>9, <2>1, <2>2 DEF Count
<1>10. CASE Held(w)
  <2>1. CASE ticks[w].undecided /\ FinishAfter(w, "decide")
    BY <1>10, <1>f, <2>1 DEF Held, FinishAfter, Ends, Handled
  <2>2. CASE ~ticks[w].undecided /\ Finish(w)
    BY <1>10, <1>f, <2>2 DEF Held, Finish, Ends, Handled
  <2>3. CASE Having("HOLD") = {} /\ Go(w, "close") /\ UNCHANGED jobVars
    BY <1>10, <1>s, <1>g, <2>3 DEF Held, Walks, Handled
  <2> QED
    BY <1>10, <2>1, <2>2, <2>3 DEF Held
<1>11. CASE Close(w)
  BY <1>11, <1>f DEF Close, Finish, Ends, Handled
<1> QED
  BY <1>1, <1>2, <1>3, <1>4, <1>5, <1>6, <1>7, <1>8, <1>9, <1>10, <1>11 DEF Batch

-----------------------------------------------------------------------------
\* A tick takes a job.
Begins(w, kind) ==
    /\ lock = NoTick /\ lock' = w /\ At(w, "idle") /\ kind \in queued
    /\ queued' = queued \ {kind} /\ UNCHANGED <<status, decided, rec, optedOut, dead, request, excuse>>
    /\ ticks'[w].step = First(kind) /\ ticks'[w].kind = kind
    /\ \A v \in Ticks \ {w} : ticks'[v] = ticks[v]

\* A tick dies, or a statement of it fails: its job comes back, or it was the last
\* attempt at it.
Dies(w) ==
    /\ ~At(w, "idle") /\ ticks'[w].step = "idle" /\ lock' = IF lock = w THEN NoTick ELSE lock
    /\ \A v \in Ticks \ {w} : ticks'[v] = ticks[v]
    /\ UNCHANGED <<decided, rec, optedOut, request>>
    /\ queued \subseteq queued' /\ dead \subseteq dead' /\ excuse \cup Undone(w) \subseteq excuse'
    /\ \/ ticks[w].kind \in queued' \cup dead' /\ UNCHANGED status
       \/ ticks[w].kind = "decide" /\ "remainder lost" \in excuse' /\ UNCHANGED status
       \/ ticks[w].kind # "decide" /\ status' = IF status = "SENDING" THEN "PAUSED" ELSE status

\* Somebody opts out or leaves, time passes, or nothing that matters here happens.
Outside ==
    /\ UNCHANGED <<status, decided, queued, dead, lock, ticks, request, excuse>>
    /\ optedOut \subseteq optedOut'
    /\ rec' = rec \/ \E r \in Recipients : rec' = [rec EXCEPT ![r] = "UNSUBSCRIBED"]

LEMMA Splits ==
    ASSUME Typed, KindFits, [Next]_vars
    PROVE  \/ Operator
           \/ \E w \in Ticks : \/ \E kind \in Kinds : Begins(w, kind)
                               \/ Handled(w) \/ Dies(w) \/ LoseLock(w)
           \/ \E kind \in Kinds : Reap(kind)
           \/ Outside
<1> DEFINE Goal == \/ Operator
                   \/ \E w \in Ticks : \/ \E kind \in Kinds : Begins(w, kind)
                                       \/ Handled(w) \/ Dies(w) \/ LoseLock(w)
                   \/ \E kind \in Kinds : Reap(kind)
                   \/ Outside
<1>t. ticks \in [Ticks -> Tick]
  BY DEF Typed, TypeOK
<1>1. ASSUME NEW w \in Ticks, NEW kind \in Kinds, Begin(w, kind) PROVE Begins(w, kind)
  <2> DEFINE t == [NoWork EXCEPT !.step = First(kind), !.kind = kind]
  <2>1. First(kind) \in TickStep
    BY DEF First, TickStep
  <2>2. t \in Tick /\ t.step = First(kind) /\ t.kind = kind
    BY <2>1, NoWorkTyped DEF Tick
  <2>3. ticks' = [ticks EXCEPT ![w] = t]
    BY <1>1, Zenon DEF Begin
  <2> HIDE DEF t
  <2>4. ticks'[w] = t /\ \A v \in Ticks \ {w} : ticks'[v] = ticks[v]
    BY <2>2, <2>3, GoSteps
  <2> QED
    BY <1>1, <2>2, <2>4 DEF Begin, Begins, campaignVars
<1>2. ASSUME NEW w \in Ticks, Crash(w) PROVE Dies(w)
  <2>1. ticks' = [ticks EXCEPT ![w] = NoWork]
    BY <1>2 DEF Crash
  <2>2. ticks'[w].step = "idle" /\ \A v \in Ticks \ {w} : ticks'[v] = ticks[v]
    BY <2>1, GoSteps, NoWorkTyped
  <2> QED
    BY <1>2, <2>2 DEF Crash, Dies, campaignVars
<1>3. ASSUME NEW w \in Ticks, Throw(w) PROVE Dies(w)
  <2>1. /\ ticks'[w].step = "idle" /\ lock' = IF lock = w THEN NoTick ELSE lock
        /\ \A v \in Ticks \ {w} : ticks'[v] = ticks[v]
    BY <1>3, FinishOff DEF Throw
  <2>2. /\ ~At(w, "idle") /\ UNCHANGED <<decided, rec, optedOut, request, dead>>
        /\ queued \subseteq queued' /\ excuse \cup Undone(w) \subseteq excuse'
    BY <1>3 DEF Throw, At, campaignVars
  <2>3. \/ ticks[w].kind \in queued' \cup dead' /\ UNCHANGED status
        \/ ticks[w].kind = "decide" /\ "remainder lost" \in excuse' /\ UNCHANGED status
        \/ ticks[w].kind # "decide" /\ status' = IF status = "SENDING" THEN "PAUSED" ELSE status
    BY <1>3 DEF Throw
  <2> QED
    BY <2>1, <2>2, <2>3 DEF Dies
<1>4. ASSUME NEW r \in Recipients, Elapse(r) \/ OptOut(r) \/ Unsubscribe(r) PROVE Outside
  BY <1>4 DEF Elapse, OptOut, Unsubscribe, Outside, campaignVars, jobVars
<1>5. Block \/ UNCHANGED vars => Outside
  BY DEF Block, Outside, campaignVars, jobVars, vars
<1>6. ASSUME NEW w \in Ticks,
             \/ LaunchScheduled(w) \/ DecideAbWinner(w) \/ KickBatch(w) \/ Batch(w) \/ SendMail(w)
      PROVE  Handled(w)
  BY <1>6, StartHandled, BatchHandled, SendHandled
<1>7. Goal
  <2> HIDE DEF Goal
  <2>1. CASE Operator
    BY <2>1 DEF Goal
  <2>2. ASSUME NEW w \in Ticks, NEW kind \in Kinds, Begin(w, kind) PROVE Goal
    BY <1>1, <2>2 DEF Goal
  <2>3. ASSUME NEW w \in Ticks, \/ LaunchScheduled(w) \/ DecideAbWinner(w) \/ KickBatch(w)
                                \/ Batch(w) \/ SendMail(w)
        PROVE  Goal
    BY <1>6, <2>3 DEF Goal
  <2>4. ASSUME NEW w \in Ticks, Crash(w) \/ Throw(w) \/ LoseLock(w) PROVE Goal
    BY <1>2, <1>3, <2>4 DEF Goal
  <2>5. ASSUME NEW kind \in Kinds, Reap(kind) PROVE Goal
    BY <2>5 DEF Goal
  <2>6. ASSUME NEW r \in Recipients, Elapse(r) \/ OptOut(r) \/ Unsubscribe(r) PROVE Goal
    BY <1>4, <2>6 DEF Goal
  <2>7. CASE Block \/ UNCHANGED vars
    BY <1>5, <2>7 DEF Goal
  <2> QED
    BY <2>1, <2>2, <2>3, <2>4, <2>5, <2>6, <2>7 DEF Next
<1> QED
  BY <1>7

\* A handler that makes a step is at work.
LEMMA HandledBusy == ASSUME NEW w \in Ticks, Handled(w) PROVE ~At(w, "idle")
<1>1. CASE Walks(w)
  BY <1>1 DEF Walks, At, Holding
<1>2. CASE Starts(w)
  BY <1>2 DEF Starts, At
<1>3. CASE Writes(w)
  BY <1>3 DEF Writes, At
<1>4. CASE Ends(w)
  BY <1>4 DEF Ends, At
<1> QED
  BY <1>1, <1>2, <1>3, <1>4 DEF Handled

\* The operator leaves the ticks alone.
LEMMA OperatorApart ==
    Operator => UNCHANGED <<ticks, dead, lock, decided, optedOut>>
BY DEF Operator, AskLaunch, AskPause, AskResume, AskCancel, Ask, Freeze, Unbook, Set, Arm, Kick,
       Book, RequestDies, Schedule, campaignVars, jobVars

LEMMA KindStep == ASSUME Typed, KindFits, [Next]_vars PROVE KindFits'
<1> DEFINE Fits(w) == /\ ticks[w].step \in {"flip", "rearm"} => ticks[w].kind = "launch"
                      /\ ticks[w].step \in {"look", "elect", "release"} => ticks[w].kind = "decide"
                      /\ At(w, "kick") => ticks[w].kind \in {"launch", "decide"}
                      /\ ticks[w].step \in Batching => ticks[w].kind = "batch"
<1>f. \A w \in Ticks : Fits(w)
  BY DEF KindFits
<1>u. ASSUME NEW w \in Ticks, ticks'[w] = ticks[w] PROVE Fits(w)'
  BY <1>f, <1>u DEF At
<1>q. (\A w \in Ticks : Fits(w)') => KindFits'
  BY DEF KindFits
<1>1. CASE UNCHANGED ticks
  BY <1>1, <1>u, <1>q
<1>2. ASSUME NEW w \in Ticks, NEW kind \in Kinds, Begins(w, kind) PROVE KindFits'
  <2>1. First(kind) \notin Batching \ {"read"} /\ "flip" \notin Batching /\ "look" \notin Batching
    BY DEF First, Batching, Sweeping, Holding
  <2>2. Fits(w)'
    BY <1>2, <2>1 DEF Begins, First, At, Kinds
  <2> QED
    BY <1>2, <1>u, <1>q, <2>2 DEF Begins
<1>3. ASSUME NEW w \in Ticks, ticks'[w].step = "idle", \A v \in Ticks \ {w} : ticks'[v] = ticks[v]
      PROVE  KindFits'
  <2>1. Fits(w)'
    BY <1>3 DEF At, Batching, Sweeping, Holding
  <2> QED
    BY <1>3, <1>u, <1>q, <2>1
<1>4. ASSUME NEW w \in Ticks, Handled(w) PROVE KindFits'
  <2>1. CASE ticks'[w].step = "idle"
    BY <1>3, <1>4, <2>1 DEF Handled, Stepping
  <2>2. CASE ticks'[w].step # "idle"
    <3>1. ticks'[w].kind = ticks[w].kind /\ \A v \in Ticks \ {w} : ticks'[v] = ticks[v]
      BY <1>4, <2>2 DEF Handled, Stepping
    <3>2. \/ ticks[w].step = "look" /\ ticks'[w].step = "elect"
          \/ ticks[w].step = "flip" /\ ticks'[w].step = "rearm"
          \/ ticks[w].step = "elect" /\ ticks'[w].step = "release"
          \/ ticks[w].step \in {"rearm", "release"} /\ ticks'[w].step = "kick"
          \/ ticks[w].step \in Batching /\ ticks'[w].step \in Batching
      BY <1>4, <2>2 DEF Handled, Walks, Starts, Writes, Ends, Batching, Sweeping, Holding
    <3>3. Fits(w)
      BY <1>f
    <3>4. {"look", "elect", "release", "kick", "flip", "rearm"} \cap Batching = {}
      BY DEF Batching, Sweeping, Holding
    <3>5. Fits(w)'
      BY <3>1, <3>2, <3>3, <3>4 DEF At
    <3> QED
      BY <1>u, <1>q, <3>1, <3>5
  <2> QED
    BY <2>1, <2>2
<1>5. ASSUME NEW w \in Ticks, Dies(w) PROVE KindFits'
  BY <1>3, <1>5 DEF Dies
<1>6. (\E w \in Ticks : LoseLock(w)) \/ (\E kind \in Kinds : Reap(kind)) \/ Outside => UNCHANGED ticks
  BY DEF LoseLock, Reap, Outside
<1> QED
  BY <1>1, <1>2, <1>4, <1>5, <1>6, Splits, OperatorApart


\* What the invariants forgive stays forgiven; a lost batch may be made up for, by a
\* step that queues a batch.
LEMMA ExcusesStay ==
    ASSUME Typed, KindFits, [Next]_vars
    PROVE  /\ "overlap" \in excuse => "overlap" \in excuse'
           /\ "remainder lost" \in excuse => "remainder lost" \in excuse'
<1>1. CASE Operator
  BY <1>1 DEF Operator, AskLaunch, AskPause, AskResume, AskCancel, Ask, Freeze, Unbook, Set, Arm, Kick,
              Book, RequestDies
<1>2. ASSUME NEW w \in Ticks, Handled(w)
      PROVE  /\ "overlap" \in excuse => "overlap" \in excuse'
             /\ "remainder lost" \in excuse => "remainder lost" \in excuse'
  BY <1>2 DEF Handled, Walks, Starts, Writes, Ends
<1>3. ASSUME NEW w \in Ticks, Dies(w) \/ LoseLock(w) \/ \E kind \in Kinds : Begins(w, kind)
      PROVE  /\ "overlap" \in excuse => "overlap" \in excuse'
             /\ "remainder lost" \in excuse => "remainder lost" \in excuse'
  BY <1>3 DEF Dies, LoseLock, Begins
<1>4. CASE (\E kind \in Kinds : Reap(kind)) \/ Outside
  BY <1>4 DEF Reap, Outside
<1> QED
  BY <1>1, <1>2, <1>3, <1>4, Splits

-----------------------------------------------------------------------------
(***************************************************************************)
(* One tick at a time, as long as no lock was lost                         *)
(***************************************************************************)
Ordered == "overlap" \notin excuse
Alone == Ordered => \A w \in Ticks : ~At(w, "idle") => lock = w

\* A tick at work is the only one.
LEMMA OnlyOne ==
    ASSUME Alone, Ordered, NEW w \in Ticks, ~At(w, "idle"), NEW v \in Ticks \ {w}
    PROVE  At(v, "idle")
BY DEF Alone

LEMMA AloneStep ==
    ASSUME Typed, KindFits, Alone, [Next]_vars
    PROVE  Alone'
<1> SUFFICES ASSUME Ordered', NEW v \in Ticks, ~At(v, "idle")'
             PROVE  lock' = v
  BY DEF Alone
<1>0. Ordered
  BY ExcusesStay DEF Ordered
<1>n. NoTick \notin Ticks
  BY CampaignAssumption DEF CampaignAssumption
<1>1. CASE UNCHANGED <<ticks, lock>>
  BY <1>0, <1>1 DEF Alone, At
<1>2. ASSUME NEW w \in Ticks, NEW kind \in Kinds, Begins(w, kind) PROVE lock' = v
  BY <1>0, <1>2, <1>n DEF Begins, Alone, At
<1>3. ASSUME NEW w \in Ticks, ~At(w, "idle"), \A x \in Ticks \ {w} : ticks'[x] = ticks[x],
             \/ ticks'[w].step = "idle" \/ lock' = lock
      PROVE  lock' = v
  <2>1. v = w
    BY <1>0, <1>3, OnlyOne DEF At
  <2>2. lock' = lock
    BY <1>3, <2>1 DEF At
  <2> QED
    BY <1>0, <1>3, <2>1, <2>2 DEF Alone
<1>4. ASSUME NEW w \in Ticks, Handled(w) PROVE lock' = v
  <2>1. /\ \A x \in Ticks \ {w} : ticks'[x] = ticks[x]
        /\ ticks'[w].step = "idle" \/ lock' = lock
    BY <1>4 DEF Handled, Stepping
  <2> QED
    BY <1>3, <1>4, <2>1, HandledBusy
<1>5. ASSUME NEW w \in Ticks, Dies(w) PROVE lock' = v
  BY <1>3, <1>5 DEF Dies
<1>6. ASSUME NEW w \in Ticks, LoseLock(w) PROVE lock' = v
  BY <1>6 DEF LoseLock, Ordered
<1>7. (\E kind \in Kinds : Reap(kind)) \/ Outside => UNCHANGED <<ticks, lock>>
  BY DEF Reap, Outside
<1> QED
  BY <1>1, <1>2, <1>4, <1>5, <1>6, <1>7, Splits, OperatorApart


-----------------------------------------------------------------------------
(***************************************************************************)
(* What a statement of the operator's requests does                        *)
(***************************************************************************)
Asks ==
    /\ request.step = "idle" /\ UNCHANGED <<status, rec, queued, excuse>>
    /\ \/ request'.step = "freeze" /\ request'.op \in {"launch now", "launch later"}
       \/ request'.step \in {"set", "unbook"} /\ status # "DRAFT"

\* A campaign that was launched before keeps the rows it has.
Freezes ==
    /\ request.step = "freeze" /\ UNCHANGED <<status, queued, excuse>>
    /\ \/ request'.step = "idle" /\ UNCHANGED rec /\ Recipients \subseteq optedOut
       \/ /\ request'.step \in {"unbook", "set"} /\ request'.op = request.op
          /\ \A r \in Recipients :
                /\ rec'[r] \in {rec[r], "none", "HOLD", "PENDING"}
                /\ rec'[r] = "none" => r \in optedOut
                /\ status # "DRAFT" /\ (rec[r] # "none" \/ r \in optedOut) => rec'[r] = rec[r]

Unbooks ==
    /\ request.step = "unbook" /\ request'.step = "set" /\ request'.op = request.op
    /\ request.op \in {"cancel", "launch now"}
    /\ queued' \subseteq queued /\ UNCHANGED <<status, rec, excuse>>

Sets ==
    /\ request.step = "set" /\ UNCHANGED <<rec, queued, excuse>>
    /\ status' \notin {"DRAFT", "SENT"}
    /\ status' = "SENDING" => request'.step \in {"arm", "kick"}
    /\ request'.step \in {"idle", "arm", "kick", "book"}

Queues ==
    /\ UNCHANGED <<status, rec>>
    /\ \/ request.step = "arm" /\ request'.step = "kick" /\ queued \subseteq queued' /\ UNCHANGED excuse
       \/ /\ request.step = "kick" /\ request'.step = "idle"
          /\ queued' = queued \cup {"batch"} /\ excuse' = excuse \ {"batch lost"}
       \/ /\ request.step = "book" /\ request'.step = "idle"
          /\ queued' = queued \cup {"launch"} /\ UNCHANGED excuse

Breaks ==
    /\ request.step # "idle" /\ request'.step = "idle" /\ UNCHANGED <<status, rec, queued>>
    /\ excuse \subseteq excuse'
    /\ request.step \in {"arm", "kick"} \/ Unbooked => "batch lost" \in excuse'

LEMMA OperatorMoves ==
    ASSUME Typed, UnbookIsCancel, Operator
    PROVE  Asks \/ Freezes \/ Unbooks \/ Sets \/ Queues \/ Breaks
<1>t. request \in Request
  BY DEF Typed, TypeOK
<1>f. \A step \in {"idle", "freeze", "unbook", "set", "arm", "kick", "book"} :
        [request EXCEPT !.step = step].step = step /\ [request EXCEPT !.step = step].op = request.op
  BY <1>t DEF Request
<1>p. ASSUME Proceed, Following \in {"idle", "set", "arm", "kick", "book"}
      PROVE  /\ request'.step = Following
             /\ Following # "idle" => request'.op = request.op
  BY <1>p, <1>f DEF Proceed, NoRequest
<1>1. ASSUME NEW step, NEW op, Ask(step, op)
      PROVE  /\ request.step = "idle" /\ request'.step = step /\ request'.op = op
             /\ UNCHANGED <<status, rec, queued, excuse>>
  BY <1>1 DEF Ask, campaignVars, jobVars
<1>2. CASE AskLaunch
  BY <1>1, <1>2 DEF AskLaunch, Asks
<1>3. CASE AskPause \/ AskResume \/ AskCancel
  <2>1. CASE AskPause
    BY <1>1, <2>1 DEF AskPause, Asks
  <2>2. CASE AskResume
    BY <1>1, <2>2 DEF AskResume, Asks
  <2>3. CASE AskCancel
    BY <1>1, <2>3 DEF AskCancel, Asks
  <2> QED
    BY <1>3, <2>1, <2>2, <2>3
<1>4. CASE Freeze
  <2>1. request.step = "freeze" /\ UNCHANGED <<status, queued, excuse>>
    BY <1>4 DEF Freeze, campaignVars, jobVars
  <2>2. Following \in {"unbook", "set"}
    BY <2>1 DEF Following
  <2>3. CASE Recipients \ optedOut = {}
    <3>1. request' = NoRequest /\ UNCHANGED rec
      BY <1>4, <2>3 DEF Freeze
    <3> QED
      BY <2>1, <2>3, <3>1 DEF Freezes, NoRequest
  <2>4. CASE Recipients \ optedOut # {}
    <3>1. PICK hold \in SUBSET (Recipients \ optedOut) :
            /\ rec' = [r \in Recipients |->
                         IF rec[r] # "none" /\ ~(status = "DRAFT" /\ rec[r] \in {"PENDING", "HOLD"})
                         THEN rec[r]
                         ELSE IF r \notin Recipients \ optedOut THEN "none"
                         ELSE IF r \in hold THEN "HOLD" ELSE "PENDING"]
            /\ request' = [request EXCEPT !.step = Following, !.holds = (hold # {})]
      BY <1>4, <2>4 DEF Freeze
    <3>2. request'.step = Following /\ request'.op = request.op
      <4>1. \A holds : /\ [request EXCEPT !.step = Following, !.holds = holds].step = Following
                       /\ [request EXCEPT !.step = Following, !.holds = holds].op = request.op
        BY <1>t DEF Request
      <4> QED
        BY <3>1, <4>1
    <3>3. \A r \in Recipients :
                /\ rec'[r] \in {rec[r], "none", "HOLD", "PENDING"}
                /\ rec'[r] = "none" => r \in optedOut
                /\ status # "DRAFT" /\ (rec[r] # "none" \/ r \in optedOut) => rec'[r] = rec[r]
      BY <3>1
    <3> QED
      BY <2>1, <2>2, <3>2, <3>3 DEF Freezes
  <2> QED
    BY <2>3, <2>4
<1>5. CASE Unbook
  <2>1. request.step = "unbook" /\ request.op \in {"cancel", "launch now"}
    BY <1>5 DEF Unbook, UnbookIsCancel
  <2>2. Following = "set"
    BY <2>1 DEF Following
  <2>3. request'.step = "set" /\ request'.op = request.op
    BY <1>5, <1>p, <2>2 DEF Unbook
  <2> QED
    BY <1>5, <2>1, <2>3 DEF Unbook, Unbooks, campaignVars
<1>6. CASE Set
  <2>1. request.step = "set" /\ request.op \in Ops /\ UNCHANGED <<rec, queued, excuse>>
    BY <1>6, <1>t DEF Set, Request, jobVars
  <2>2. Following \in {"idle", "arm", "kick", "book"}
    BY <2>1 DEF Following, Ops
  <2>3. request'.step = Following
    BY <1>6, <1>p, <2>2 DEF Set
  <2>4. status' \notin {"DRAFT", "SENT"}
    BY <1>6, <2>1 DEF Set, Ops
  <2>5. status' = "SENDING" => request.op \in {"launch now", "resume"}
    BY <1>6, <2>1 DEF Set, Ops
  <2>6. request.op \in {"launch now", "resume"} => Following \in {"arm", "kick"}
    BY <2>1 DEF Following
  <2> QED
    BY <2>1, <2>2, <2>3, <2>4, <2>5, <2>6 DEF Sets
<1>7. CASE Arm \/ Kick \/ Book
  <2>1. request.step \in {"arm", "kick", "book"} /\ Proceed /\ UNCHANGED <<status, rec>>
    BY <1>7 DEF Arm, Kick, Book, campaignVars
  <2>2. Following = IF request.step = "arm" THEN "kick" ELSE "idle"
    <3>1. CASE request.step = "arm"
      BY <3>1 DEF Following
    <3>2. CASE request.step \in {"kick", "book"}
      BY <3>2 DEF Following
    <3> QED
      BY <2>1, <3>1, <3>2
  <2>3. request'.step = Following
    BY <1>p, <2>1, <2>2
  <2>4. CASE Arm
    BY <2>1, <2>2, <2>3, <2>4 DEF Arm, Queues, Schedule, jobVars
  <2>5. CASE Kick
    BY <2>1, <2>2, <2>3, <2>5 DEF Kick, Queues, Schedule
  <2>6. CASE Book
    BY <2>1, <2>2, <2>3, <2>6 DEF Book, Queues, Schedule
  <2> QED
    BY <1>7, <2>4, <2>5, <2>6
<1>8. CASE RequestDies
  <2>1. /\ request.step # "idle" /\ request'.step = "idle"
        /\ UNCHANGED <<status, rec, queued>>
    BY <1>8 DEF RequestDies, NoRequest, campaignVars, jobVars
  <2>2. excuse \subseteq excuse'
    BY <1>8 DEF RequestDies
  <2>3. request.step \in {"arm", "kick"} \/ Unbooked => "batch lost" \in excuse'
    <3>1. Unbooked => request.step = "set"
      BY DEF Unbooked
    <3> QED
      BY <1>8, <3>1 DEF RequestDies
  <2> QED
    BY <2>1, <2>2, <2>3 DEF Breaks
<1> QED
  BY <1>2, <1>3, <1>4, <1>5, <1>6, <1>7, <1>8 DEF Operator


-----------------------------------------------------------------------------
(***************************************************************************)
(* Drafts, and the rows of a campaign                                      *)
(***************************************************************************)
\* Nothing works for a draft.
DraftRests ==
    status = "DRAFT" =>
        /\ queued = {} /\ dead = {} /\ ~decided /\ lock = NoTick
        /\ \A w \in Ticks : At(w, "idle")
        /\ request.step \notin {"arm", "kick", "book"}

\* Once the audience is frozen, whoever has no row has opted out.
Frozen ==
    status # "DRAFT" \/ request.step \notin {"idle", "freeze"} => Having("none") \subseteq optedOut

LEMMA NeverDraft ==
    ASSUME Typed, KindFits, UnbookIsCancel, [Next]_vars, status' = "DRAFT"
    PROVE  status = "DRAFT"
<1>1. CASE Operator
  BY <1>1, OperatorMoves DEF Asks, Freezes, Unbooks, Sets, Queues, Breaks
<1>2. ASSUME NEW w \in Ticks, Handled(w) PROVE status = "DRAFT"
  BY <1>2 DEF Handled, Walks, Starts, Writes, Ends
<1>3. ASSUME NEW w \in Ticks, Dies(w) \/ LoseLock(w) \/ \E kind \in Kinds : Begins(w, kind)
      PROVE  status = "DRAFT"
  BY <1>3 DEF Dies, LoseLock, Begins, campaignVars
<1>4. CASE (\E kind \in Kinds : Reap(kind)) \/ Outside
  BY <1>4 DEF Reap, Outside, campaignVars
<1> QED
  BY <1>1, <1>2, <1>3, <1>4, Splits

LEMMA DraftStep ==
    ASSUME Typed, KindFits, UnbookIsCancel, DraftRests, [Next]_vars
    PROVE  DraftRests'
<1> SUFFICES ASSUME status' = "DRAFT"
             PROVE  /\ queued' = {} /\ dead' = {} /\ ~decided' /\ lock' = NoTick
                    /\ \A w \in Ticks : At(w, "idle")'
                    /\ request'.step \notin {"arm", "kick", "book"}
  BY DEF DraftRests
<1>0. /\ status = "DRAFT" /\ queued = {} /\ dead = {} /\ ~decided /\ lock = NoTick
      /\ \A w \in Ticks : At(w, "idle")
      /\ request.step \notin {"arm", "kick", "book"}
  BY NeverDraft DEF DraftRests
<1>n. NoTick \notin Ticks
  BY CampaignAssumption DEF CampaignAssumption
<1>1. CASE Operator
  <2>1. queued' = {} /\ request'.step \notin {"arm", "kick", "book"}
    BY <1>0, <1>1, OperatorMoves DEF Asks, Freezes, Unbooks, Sets, Queues, Breaks
  <2> QED
    BY <1>0, <1>1, <2>1, OperatorApart DEF At
<1>2. \A w \in Ticks : ~Handled(w)
  BY <1>0, HandledBusy
<1>3. \A w \in Ticks : ~Dies(w) /\ ~LoseLock(w) /\ \A kind \in Kinds : ~Begins(w, kind)
  BY <1>0, <1>n DEF Dies, LoseLock, Begins
<1>4. \A kind \in Kinds : ~Reap(kind)
  BY <1>0 DEF Reap
<1>5. CASE Outside
  BY <1>0, <1>5 DEF Outside, At
<1> QED
  BY <1>1, <1>2, <1>3, <1>4, <1>5, Splits

\* What a handler writes into a row.
LEMMA WritesRow ==
    ASSUME Typed, NEW w \in Ticks, Handled(w), NEW r \in Recipients
    PROVE  /\ rec[r] # "none" => rec'[r] # "none"
           /\ rec[r] = "none" => rec'[r] \in {"none", "SENT", "SKIPPED", "FAILED"}
           /\ rec'[r] = "HOLD" => rec[r] = "HOLD"
<1>t. rec \in [Recipients -> RecipientStatus] /\ ticks[w] \in Tick
  BY DEF Typed, TypeOK
<1>m. /\ Marked(w) \in {"SENT", "SKIPPED", "FAILED", "PENDING"} \/ Marked(w) = rec[ticks[w].cur]
      /\ Marked(w) = "PENDING" => rec[ticks[w].cur] \in {"SENDING", "PENDING"}
  BY <1>t DEF Marked, Tick, Outcome
<1>1. CASE UNCHANGED rec
  BY <1>1, <1>t
<1>2. CASE rec' = Reclaimed
  BY <1>2, <1>t DEF Reclaimed
<1>3. ASSUME NEW x \in Recipients, rec[x] = "PENDING", rec' = [rec EXCEPT ![x] = "SENDING"]
      PROVE  /\ rec[r] # "none" => rec'[r] # "none"
             /\ rec[r] = "none" => rec'[r] \in {"none", "SENT", "SKIPPED", "FAILED"}
             /\ rec'[r] = "HOLD" => rec[r] = "HOLD"
  BY <1>3, <1>t
<1>4. CASE rec' = [rec EXCEPT ![ticks[w].cur] = Marked(w)]
  <2>1. r = ticks[w].cur => rec'[r] = Marked(w)
    BY <1>4, <1>t
  <2>2. r # ticks[w].cur => rec'[r] = rec[r]
    BY <1>4, <1>t
  <2> QED
    BY <1>m, <2>1, <2>2
<1>5. CASE rec' = [x \in Recipients |-> IF rec[x] = "HOLD" THEN "PENDING" ELSE rec[x]]
  BY <1>5
<1> QED
  BY <1>1, <1>2, <1>3, <1>4, <1>5 DEF Handled, Walks, Starts, Writes, Ends

LEMMA FrozenStep ==
    ASSUME Typed, KindFits, UnbookIsCancel, DraftRests, Frozen, [Next]_vars
    PROVE  Frozen'
<1>t. rec \in [Recipients -> RecipientStatus]
  BY DEF Typed, TypeOK
<1> SUFFICES ASSUME status' # "DRAFT" \/ request'.step \notin {"idle", "freeze"},
                    NEW r \in Recipients, rec'[r] = "none"
             PROVE  r \in optedOut'
  BY DEF Frozen, Having
<1> DEFINE Premise == status # "DRAFT" \/ request.step \notin {"idle", "freeze"}
<1>p. Premise /\ rec[r] = "none" /\ optedOut \subseteq optedOut' => r \in optedOut'
  BY DEF Frozen, Having
<1>1. CASE Operator
  <2>1. UNCHANGED optedOut
    BY <1>1, OperatorApart
  <2>2. CASE Freezes
    BY <2>1, <2>2 DEF Freezes
  <2>3. CASE Asks \/ Unbooks \/ Sets \/ Queues \/ Breaks
    <3>1. Premise /\ UNCHANGED rec
      BY <2>3 DEF Asks, Unbooks, Sets, Queues, Breaks
    <3> QED
      BY <1>p, <2>1, <3>1
  <2> QED
    BY <1>1, <2>2, <2>3, OperatorMoves
<1>2. ASSUME NEW w \in Ticks, ~At(w, "idle"), UNCHANGED optedOut, rec[r] = "none"
      PROVE  r \in optedOut'
  BY <1>2, <1>p DEF DraftRests
<1>3. ASSUME NEW w \in Ticks, Handled(w) PROVE r \in optedOut'
  BY <1>2, <1>3, HandledBusy, WritesRow DEF Handled, Stepping
<1>4. ASSUME NEW w \in Ticks, Dies(w) PROVE r \in optedOut'
  BY <1>2, <1>4 DEF Dies
<1>5. CASE UNCHANGED <<status, request, optedOut, rec>>
  BY <1>5, <1>p
<1>6. (\E w \in Ticks : LoseLock(w) \/ \E kind \in Kinds : Begins(w, kind))
        \/ (\E kind \in Kinds : Reap(kind))
      => UNCHANGED <<status, request, optedOut, rec>>
  BY DEF LoseLock, Begins, Reap, campaignVars
<1>7. CASE Outside
  BY <1>7, <1>p, <1>t DEF Outside
<1> QED
  BY <1>1, <1>3, <1>4, <1>5, <1>6, <1>7, Splits


\* What everybody but a handler writes into a row.
LEMMA OthersWrite ==
    ASSUME Typed, KindFits, UnbookIsCancel, Frozen, [Next]_vars,
           \A w \in Ticks : ~Handled(w), NEW r \in Recipients
    PROVE  /\ rec'[r] = "SENDING" => rec[r] = "SENDING"
           /\ status # "DRAFT" => rec'[r] \in {rec[r], "UNSUBSCRIBED"}
<1>t. rec \in [Recipients -> RecipientStatus]
  BY DEF Typed, TypeOK
<1>1. CASE Operator
  <2>1. CASE Freezes
    <3>1. status # "DRAFT" /\ rec[r] = "none" => r \in optedOut
      BY DEF Frozen, Having
    <3> QED
      BY <2>1, <3>1 DEF Freezes
  <2>2. CASE Asks \/ Unbooks \/ Sets \/ Queues \/ Breaks
    BY <2>2 DEF Asks, Unbooks, Sets, Queues, Breaks
  <2> QED
    BY <1>1, <2>1, <2>2, OperatorMoves
<1>2. ASSUME NEW w \in Ticks, Dies(w) \/ LoseLock(w) \/ \E kind \in Kinds : Begins(w, kind)
      PROVE  UNCHANGED rec
  BY <1>2 DEF Dies, LoseLock, Begins
<1>3. CASE \E kind \in Kinds : Reap(kind)
  BY <1>3 DEF Reap
<1>4. CASE Outside
  BY <1>4, <1>t DEF Outside
<1> QED
  BY <1>1, <1>2, <1>3, <1>4, Splits

\* Where a tick stands after a step that no handler makes.
LEMMA OthersLeave ==
    ASSUME Typed, KindFits, [Next]_vars, \A w \in Ticks : ~Handled(w), NEW v \in Ticks
    PROVE  ticks'[v] = ticks[v] \/ ticks'[v].step \in {"flip", "look", "read", "idle"}
<1>1. ASSUME NEW w \in Ticks, NEW kind \in Kinds, Begins(w, kind)
      PROVE  ticks'[v] = ticks[v] \/ ticks'[v].step \in {"flip", "look", "read", "idle"}
  BY <1>1 DEF Begins, First
<1>2. ASSUME NEW w \in Ticks, Dies(w)
      PROVE  ticks'[v] = ticks[v] \/ ticks'[v].step \in {"flip", "look", "read", "idle"}
  BY <1>2 DEF Dies
<1>3. (\E w \in Ticks : LoseLock(w)) \/ (\E kind \in Kinds : Reap(kind)) \/ Outside => UNCHANGED ticks
  BY DEF LoseLock, Reap, Outside
<1> QED
  BY <1>1, <1>2, <1>3, OperatorApart, Splits

Rests == KindFits /\ Alone /\ UnbookIsCancel /\ DraftRests /\ Frozen

\* Under one tick at a time, the tick that steps is the only one that is not idle.
LEMMA OthersIdle ==
    ASSUME Rests, Ordered, NEW w \in Ticks, Handled(w), NEW v \in Ticks \ {w}
    PROVE  ticks'[v].step = "idle"
<1>1. At(v, "idle")
  BY HandledBusy, OnlyOne DEF Rests
<1> QED
  BY <1>1 DEF Handled, Stepping, At

-----------------------------------------------------------------------------
(***************************************************************************)
(* What a batch knows of the rows                                          *)
(***************************************************************************)
\* A row that says SENDING is in the hand of the batch that works.
OneInHand == Ordered => \A w \in Ticks :
    /\ ticks[w].step \in Sweeping => Having("SENDING") = {}
    /\ ticks[w].step \in Holding => Having("SENDING") \subseteq {ticks[w].cur}

\* A batch that comes to its end has left nobody behind.
DoneAtEnd == Ordered => \A w \in Ticks :
    /\ ticks[w].step \in {"held", "close"} => Waiting = {}
    /\ At(w, "close") => Having("HOLD") = {}

LEMMA InHandStep ==
    ASSUME Typed, Rests, OneInHand, [Next]_vars
    PROVE  OneInHand'
<1> USE DEF Rests
<1> SUFFICES ASSUME Ordered', NEW v \in Ticks, NEW r \in Recipients, rec'[r] = "SENDING"
             PROVE  /\ ticks'[v].step \notin Sweeping
                    /\ ticks'[v].step \in Holding => r = ticks'[v].cur
  BY DEF OneInHand, Having
<1>0. Ordered
  BY ExcusesStay DEF Ordered
<1>t. rec \in [Recipients -> RecipientStatus] /\ ticks[v] \in Tick
  BY DEF Typed, TypeOK
<1>i. rec[r] = "SENDING" => /\ ticks[v].step \notin Sweeping
                            /\ ticks[v].step \in Holding => r = ticks[v].cur
  BY <1>0 DEF OneInHand, Having
<1>d. {"flip", "look", "read", "idle", "rearm", "elect", "release", "kick", "reclaim"}
        \cap (Sweeping \cup Holding) = {}
  BY DEF Sweeping, Holding
<1>1. CASE \A w \in Ticks : ~Handled(w)
  <2>1. rec[r] = "SENDING"
    BY <1>1, OthersWrite
  <2>2. ticks'[v] = ticks[v] \/ ticks'[v].step \in {"flip", "look", "read", "idle"}
    BY <1>1, OthersLeave
  <2> QED
    BY <1>i, <1>d, <2>1, <2>2
<1>2. ASSUME NEW w \in Ticks, Handled(w), v # w
      PROVE  ticks'[v].step \notin Sweeping \cup Holding
  BY <1>0, <1>2, <1>d, OthersIdle
<1>3. CASE Handled(v)
  <2>1. CASE Walks(v)
    <3>1. rec[r] = "SENDING"
      BY <2>1 DEF Walks
    <3>2. \/ ticks'[v].step \in {"elect", "reclaim"}
          \/ ticks[v].step \in Sweeping
          \/ ticks[v].step \in Holding /\ ticks'[v].step \in Holding /\ ticks'[v].cur = ticks[v].cur
      BY <2>1 DEF Walks, Sweeping
    <3>3. Holding \cap Sweeping = {}
      BY DEF Holding, Sweeping
    <3> QED
      BY <1>i, <1>d, <3>1, <3>2, <3>3
  <2>2. CASE Starts(v) \/ Ends(v)
    <3>1. ticks'[v].step \in {"rearm", "kick", "release", "idle"}
      BY <2>2 DEF Starts, Ends
    <3> QED
      BY <1>d, <3>1
  <2>3. CASE Writes(v)
    <3>1. CASE rec' = Reclaimed
      BY <3>1 DEF Reclaimed
    <3>2. ASSUME NEW x \in Recipients, ticks'[v].cur = x, ticks[v].step = "loop",
                 ticks'[v].step = "check", rec' = [rec EXCEPT ![x] = "SENDING"]
          PROVE  ticks'[v].step \notin Sweeping /\ r = ticks'[v].cur
      <4>1. rec[r] # "SENDING"
        BY <1>i, <3>2 DEF Sweeping
      <4>2. r = x
        BY <1>t, <3>2, <4>1
      <4> QED
        BY <3>2, <4>2 DEF Sweeping
    <3>3. CASE ticks[v].step = "mark" /\ rec' = [rec EXCEPT ![ticks[v].cur] = Marked(v)]
      <4>1. Marked(v) # "SENDING"
        BY <1>t DEF Marked, Tick, Outcome
      <4>2. r # ticks[v].cur /\ rec[r] = "SENDING"
        BY <1>t, <3>3, <4>1
      <4> QED
        BY <1>i, <3>3, <4>2 DEF Holding
    <3> QED
      BY <2>3, <3>1, <3>2, <3>3 DEF Writes
  <2> QED
    BY <1>3, <2>1, <2>2, <2>3 DEF Handled
<1> QED
  BY <1>1, <1>2, <1>3

LEMMA DoneStep ==
    ASSUME Typed, Rests, OneInHand, DoneAtEnd, [Next]_vars
    PROVE  DoneAtEnd'
<1> USE DEF Rests
<1> SUFFICES ASSUME Ordered', NEW v \in Ticks, NEW r \in Recipients,
                    ticks'[v].step \in {"held", "close"}
             PROVE  /\ rec'[r] \notin {"PENDING", "SENDING"}
                    /\ ticks'[v].step = "close" => rec'[r] # "HOLD"
  BY DEF DoneAtEnd, Waiting, Having, At
<1>0. Ordered
  BY ExcusesStay DEF Ordered
<1>i. ticks[v].step \in {"held", "close"} =>
        /\ rec[r] \notin {"PENDING", "SENDING"}
        /\ ticks[v].step = "close" => rec[r] # "HOLD"
  BY <1>0 DEF DoneAtEnd, Waiting, Having, At
<1>1. CASE \A w \in Ticks : ~Handled(w)
  <2>1. ticks'[v] = ticks[v]
    BY <1>1, OthersLeave
  <2>2. status # "DRAFT"
    BY <2>1 DEF DraftRests, At
  <2>3. rec'[r] \in {rec[r], "UNSUBSCRIBED"}
    BY <1>1, <2>2, OthersWrite
  <2> QED
    BY <1>i, <2>1, <2>3
<1>2. ASSUME NEW w \in Ticks, Handled(w), v # w
      PROVE  FALSE
  BY <1>0, <1>2, OthersIdle
<1>3. CASE Handled(v)
  <2>1. /\ UNCHANGED rec
        /\ \/ ticks[v].step \in {"list", "count"} /\ ticks'[v].step = "held" /\ Having("PENDING") = {}
           \/ ticks[v].step = "held" /\ ticks'[v].step = "close" /\ Having("HOLD") = {}
    BY <1>3 DEF Handled, Walks, Starts, Writes, Ends, Holding
  <2>2. ticks[v].step \in {"list", "count"} => rec[r] # "SENDING"
    BY <1>0 DEF OneInHand, Having, Sweeping
  <2> QED
    BY <1>i, <2>1, <2>2 DEF Having
<1> QED
  BY <1>1, <1>2, <1>3

-----------------------------------------------------------------------------
(***************************************************************************)
(* The decision about the remainder                                        *)
(***************************************************************************)
\* A batch that found the decision taken is right about it.
DecidedThen == \A w \in Ticks :
    ticks[w].step \in Batching \ {"read"} /\ ~ticks[w].undecided => decided

\* A remainder outlives the decision only while it is being released, or by an accident.
Freed ==
    decided /\ Having("HOLD") # {} =>
        "remainder lost" \in excuse \/ \E w \in Ticks : At(w, "release")

LEMMA DecidedStays ==
    ASSUME Typed, KindFits, [Next]_vars, decided
    PROVE  decided'
<1>1. ASSUME NEW w \in Ticks, Handled(w) PROVE decided'
  BY <1>1 DEF Handled, Walks, Starts, Writes, Ends
<1>2. ASSUME NEW w \in Ticks, Dies(w) \/ LoseLock(w) \/ \E kind \in Kinds : Begins(w, kind)
      PROVE  decided'
  BY <1>2 DEF Dies, LoseLock, Begins, campaignVars
<1>3. CASE (\E kind \in Kinds : Reap(kind)) \/ Outside
  BY <1>3 DEF Reap, Outside, campaignVars
<1> QED
  BY <1>1, <1>2, <1>3, OperatorApart, Splits

LEMMA DecidedStep ==
    ASSUME Typed, KindFits, DecidedThen, [Next]_vars
    PROVE  DecidedThen'
<1> SUFFICES ASSUME NEW v \in Ticks, ticks'[v].step \in Batching \ {"read"}, ~ticks'[v].undecided
             PROVE  decided'
  BY DEF DecidedThen
<1>d. {"flip", "look", "read", "idle", "rearm", "elect", "release", "kick"} \cap (Batching \ {"read"}) = {}
  BY DEF Batching, Sweeping, Holding
<1>1. CASE ticks'[v] = ticks[v]
  BY <1>1, DecidedStays DEF DecidedThen
<1>2. CASE \A w \in Ticks : ~Handled(w)
  BY <1>1, <1>2, <1>d, OthersLeave
<1>3. ASSUME NEW w \in Ticks, Handled(w), v # w PROVE decided'
  BY <1>1, <1>3 DEF Handled, Stepping
<1>4. CASE Handled(v)
  <2>1. CASE At(v, "read")
    <3>1. ticks'[v].step = "reclaim" => ticks'[v].undecided = ~decided
      BY <1>4, <2>1 DEF Handled, Walks, Starts, Writes, Ends, At, Holding
    <3>2. ticks'[v].step \in {"reclaim", "idle"}
      BY <1>4, <2>1 DEF Handled, Walks, Starts, Writes, Ends, At, Holding
    <3> QED
      BY <1>d, <3>1, <3>2, DecidedStays
  <2>2. CASE ~At(v, "read")
    <3>1. ticks'[v].undecided = ticks[v].undecided
      BY <1>4, <1>d, <2>2 DEF Handled, Stepping
    <3>2. ticks[v].step \in Batching \/ ticks'[v].step \in {"elect", "rearm", "release", "kick", "idle"}
      <4>1. CASE Walks(v)
        BY <4>1 DEF Walks, Batching, Sweeping
      <4>2. CASE Starts(v) \/ Ends(v)
        BY <4>2 DEF Starts, Ends
      <4>3. CASE Writes(v)
        BY <4>3 DEF Writes, Batching, Sweeping, Holding
      <4> QED
        BY <1>4, <4>1, <4>2, <4>3 DEF Handled
    <3> QED
      BY <1>d, <2>2, <3>1, <3>2, DecidedStays DEF DecidedThen, At
  <2> QED
    BY <2>1, <2>2
<1> QED
  BY <1>2, <1>3, <1>4

LEMMA FreedStep ==
    ASSUME Typed, Rests, Freed, [Next]_vars
    PROVE  Freed'
<1> USE DEF Rests
<1> SUFFICES ASSUME decided', NEW r \in Recipients, rec'[r] = "HOLD"
             PROVE  "remainder lost" \in excuse' \/ \E w \in Ticks : At(w, "release")'
  BY DEF Freed, Having
<1>e. "remainder lost" \in excuse => "remainder lost" \in excuse'
  BY ExcusesStay
<1>i. decided /\ rec[r] = "HOLD" => "remainder lost" \in excuse \/ \E w \in Ticks : At(w, "release")
  BY DEF Freed, Having
<1>1. ASSUME NEW w \in Ticks, Handled(w)
      PROVE  "remainder lost" \in excuse' \/ \E x \in Ticks : At(x, "release")'
  <2>1. rec[r] = "HOLD"
    BY <1>1, WritesRow
  <2>2. CASE ticks'[w].step = "release"
    BY <2>2 DEF At
  <2>3. CASE ticks'[w].step # "release"
    <3>1. UNCHANGED decided
      BY <1>1, <2>3 DEF Handled, Walks, Starts, Writes, Ends
    <3>2. ticks[w].step # "release"
      <4>1. ticks[w].step = "release" => rec' = [x \in Recipients |-> IF rec[x] = "HOLD" THEN "PENDING" ELSE rec[x]]
        BY <1>1 DEF Handled, Walks, Starts, Writes, Ends, Holding
      <4> QED
        BY <2>1, <4>1
    <3>3. \A x \in Ticks : At(x, "release") => At(x, "release")'
      BY <1>1, <3>2 DEF Handled, Stepping, At
    <3> QED
      BY <1>e, <1>i, <2>1, <3>1, <3>3
  <2> QED
    BY <2>2, <2>3
<1>2. CASE \A w \in Ticks : ~Handled(w)
  <2>1. UNCHANGED decided
    <3>1. ASSUME NEW w \in Ticks, Dies(w) \/ LoseLock(w) \/ \E kind \in Kinds : Begins(w, kind)
          PROVE  UNCHANGED decided
      BY <3>1 DEF Dies, LoseLock, Begins, campaignVars
    <3>2. CASE (\E kind \in Kinds : Reap(kind)) \/ Outside
      BY <3>2 DEF Reap, Outside, campaignVars
    <3> QED
      BY <1>2, <3>1, <3>2, OperatorApart, Splits
  <2>2. status # "DRAFT"
    BY <2>1 DEF DraftRests
  <2>3. rec[r] = "HOLD"
    BY <1>2, <2>2, OthersWrite
  <2>4. CASE "remainder lost" \in excuse
    BY <1>e, <2>4
  <2>5. ASSUME NEW x \in Ticks, At(x, "release")
        PROVE  "remainder lost" \in excuse' \/ At(x, "release")'
    <3>1. ASSUME Dies(x) PROVE "remainder lost" \in excuse'
      BY <2>5, <3>1 DEF Dies, Undone, KindFits, At
    <3>2. ASSUME NEW w \in Ticks, w # x, Dies(w) PROVE At(x, "release")'
      BY <2>5, <3>2 DEF Dies, At
    <3>3. ASSUME NEW w \in Ticks, NEW kind \in Kinds, Begins(w, kind) PROVE At(x, "release")'
      BY <2>5, <3>3 DEF Begins, At
    <3>4. UNCHANGED ticks => At(x, "release")'
      BY <2>5 DEF At
    <3>5. (\E w \in Ticks : LoseLock(w)) \/ (\E kind \in Kinds : Reap(kind)) \/ Outside => UNCHANGED ticks
      BY DEF LoseLock, Reap, Outside
    <3> QED
      BY <1>2, <3>1, <3>2, <3>3, <3>4, <3>5, OperatorApart, Splits
  <2> QED
    BY <1>i, <2>1, <2>3, <2>4, <2>5
<1> QED
  BY <1>1, <1>2


-----------------------------------------------------------------------------
(***************************************************************************)
(* The campaign goes on                                                    *)
(***************************************************************************)
\* What keeps a campaign going for the rows that wait, and for those held back.
KeptForWaiting == Attended("batch") \/ Kicking \/ "batch lost" \in excuse
KeptForHeld ==
    \/ Attended("decide") \/ Attended("batch") \/ Kicking
    \/ excuse \cap {"batch lost", "remainder lost"} # {}

Known == /\ Rests /\ OneInHand /\ DoneAtEnd /\ DecidedThen /\ Freed

\* A batch that is queued or under way, and a launch, serve both.
LEMMA ServesBoth ==
    \/ Attended("batch")' \/ Kicking' \/ "batch lost" \in excuse'
    => KeptForWaiting' /\ KeptForHeld'
BY DEF KeptForWaiting, KeptForHeld

\* A step that only adds to what keeps the campaign going.
LEMMA Helps ==
    ASSUME "batch lost" \in excuse => "batch lost" \in excuse',
           "remainder lost" \in excuse => "remainder lost" \in excuse',
           \A kind \in Kinds : Attended(kind) => Attended(kind)',
           Kicking => Kicking' \/ "batch lost" \in excuse'
    PROVE  (KeptForWaiting => KeptForWaiting') /\ (KeptForHeld => KeptForHeld')
BY DEF KeptForWaiting, KeptForHeld, Kinds

\* A job that a tick takes, or that comes back, is still attended to.
LEMMA KickingStays ==
    ASSUME UNCHANGED request, Attended("launch") => Attended("launch")',
           \A w \in Ticks : ticks[w].step \in {"release", "kick"} =>
               \/ ticks'[w].step \in {"release", "kick"}
               \/ Attended("launch")' \/ "batch lost" \in excuse'
    PROVE  Kicking => Kicking' \/ "batch lost" \in excuse'
BY DEF Kicking, Unbooked

LEMMA OthersKeep ==
    ASSUME Typed, KindFits, UnbookIsCancel, [Next]_vars,
           \A w \in Ticks : ~Handled(w), ~Operator, Ordered', status' = "SENDING"
    PROVE  (KeptForWaiting => KeptForWaiting') /\ (KeptForHeld => KeptForHeld')
<1> USE DEF Attended, At
<1>1. ASSUME NEW w \in Ticks, NEW kind \in Kinds, Begins(w, kind)
      PROVE  (KeptForWaiting => KeptForWaiting') /\ (KeptForHeld => KeptForHeld')
  <2>1. /\ UNCHANGED <<request, excuse, dead>> /\ ticks'[w].kind = kind /\ ticks'[w].step # "idle"
        /\ ticks[w].step = "idle" /\ queued' = queued \ {kind}
        /\ \A v \in Ticks \ {w} : ticks'[v] = ticks[v]
    BY <1>1 DEF Begins, First
  <2>2. \A k \in Kinds : Attended(k) => Attended(k)'
    BY <2>1
  <2>3. Kicking => Kicking' \/ "batch lost" \in excuse'
    BY <2>1, <2>2, KickingStays DEF Kinds
  <2> QED
    BY <2>1, <2>2, <2>3, Helps
<1>2. ASSUME NEW w \in Ticks, Dies(w)
      PROVE  (KeptForWaiting => KeptForWaiting') /\ (KeptForHeld => KeptForHeld')
  <2>1. /\ UNCHANGED request /\ excuse \cup Undone(w) \subseteq excuse'
        /\ queued \subseteq queued' /\ dead \subseteq dead'
        /\ \A v \in Ticks \ {w} : ticks'[v] = ticks[v]
    BY <1>2 DEF Dies
  <2>2. ticks[w].kind \in Kinds
    BY DEF Typed, TypeOK, Tick
  <2>3. CASE ticks[w].kind \in queued' \cup dead'
    <3>1. \A k \in Kinds : Attended(k) => Attended(k)'
      BY <2>1, <2>3
    <3>2. ticks[w].step \in {"release", "kick"} => Attended("launch")' \/ "batch lost" \in excuse'
      BY <2>1, <2>3 DEF KindFits, Undone
    <3>3. Kicking => Kicking' \/ "batch lost" \in excuse'
      BY <2>1, <3>1, <3>2, KickingStays DEF Kinds
    <3> QED
      BY <2>1, <3>1, <3>3, Helps
  <2>4. CASE ticks[w].kind = "decide" /\ "remainder lost" \in excuse'
    <3>1. KeptForHeld'
      BY <2>4 DEF KeptForHeld
    <3>2. Attended("batch") => Attended("batch")'
      BY <2>1, <2>4
    <3>3. Attended("launch") => Attended("launch")'
      BY <2>1, <2>4
    <3>4. ticks[w].step \in {"release", "kick"} => "batch lost" \in excuse'
      BY <2>1, <2>4 DEF Undone
    <3>5. Kicking => Kicking' \/ "batch lost" \in excuse'
      BY <2>1, <3>3, <3>4, KickingStays
    <3> QED
      BY <2>1, <3>1, <3>2, <3>5 DEF KeptForWaiting
  <2>5. CASE ticks[w].kind # "decide" /\ status' = IF status = "SENDING" THEN "PAUSED" ELSE status
    BY <2>5
  <2> QED
    BY <1>2, <2>3, <2>4, <2>5 DEF Dies
<1>3. ASSUME NEW kind \in Kinds, Reap(kind)
      PROVE  (KeptForWaiting => KeptForWaiting') /\ (KeptForHeld => KeptForHeld')
  <2>1. /\ UNCHANGED <<request, excuse, ticks>> /\ dead' = dead \ {kind} /\ queued' = queued \cup {kind}
    BY <1>3 DEF Reap
  <2>2. \A k \in Kinds : Attended(k) => Attended(k)'
    BY <2>1
  <2>3. Kicking => Kicking' \/ "batch lost" \in excuse'
    BY <2>1, <2>2, KickingStays DEF Kinds
  <2> QED
    BY <2>1, <2>2, <2>3, Helps
<1>4. CASE Outside
  BY <1>4 DEF Outside, KeptForWaiting, KeptForHeld, Kicking, Unbooked
<1>5. \A w \in Ticks : ~LoseLock(w)
  BY DEF LoseLock, Ordered
<1> QED
  BY <1>1, <1>2, <1>3, <1>4, <1>5, Splits

LEMMA OperatorKeeps ==
    ASSUME Typed, UnbookIsCancel, Operator, status' = "SENDING"
    PROVE  (status = "SENDING" /\ KeptForWaiting => KeptForWaiting')
           /\ (status = "SENDING" /\ KeptForHeld => KeptForHeld')
<1>a. UNCHANGED <<ticks, dead, lock>>
  BY OperatorApart
<1>k. request'.step \in {"arm", "kick"} \/ Unbooked' => Kicking'
  BY DEF Kicking
<1>h. ASSUME UNCHANGED <<status, queued, excuse>>, request.step \notin {"arm", "kick"}, ~Unbooked
      PROVE  (KeptForWaiting => KeptForWaiting') /\ (KeptForHeld => KeptForHeld')
  <2>1. \A kind \in Kinds : Attended(kind) => Attended(kind)'
    BY <1>a, <1>h DEF Attended, At
  <2>2. Kicking => Kicking'
    BY <1>a, <1>h, <2>1 DEF Kicking, Kinds
  <2> QED
    BY <1>h, <2>1, <2>2, Helps
<1>1. CASE Asks \/ Freezes
  BY <1>1, <1>h DEF Asks, Freezes, Unbooked
<1>2. CASE Unbooks
  BY <1>2, <1>k, ServesBoth DEF Unbooks, Unbooked
<1>3. CASE Sets
  BY <1>3, <1>k, ServesBoth DEF Sets
<1>4. CASE Queues
  <2>1. request'.step = "kick" \/ "batch" \in queued' \/ "launch" \in queued'
    BY <1>4 DEF Queues
  <2> QED
    BY <1>k, <2>1, ServesBoth DEF Attended, Kicking
<1>5. CASE Breaks
  <2>1. CASE request.step \in {"arm", "kick"} \/ Unbooked
    BY <1>5, <2>1, ServesBoth DEF Breaks
  <2>2. CASE request.step \notin {"arm", "kick"} /\ ~Unbooked
    <3>1. \A kind \in Kinds : Attended(kind) => Attended(kind)'
      BY <1>a, <1>5 DEF Attended, At, Breaks
    <3>2. Kicking => Kicking'
      BY <1>a, <2>2, <3>1 DEF Kicking, Kinds
    <3> QED
      BY <1>5, <3>1, <3>2, Helps DEF Breaks
  <2> QED
    BY <2>1, <2>2
<1> QED
  BY <1>1, <1>2, <1>3, <1>4, <1>5, OperatorMoves


LEMMA HandledKeeps ==
    ASSUME Typed, Known, KeepsGoing, [Next]_vars, Ordered', status' = "SENDING",
           NEW w \in Ticks, Handled(w)
    PROVE  (Waiting' # {} => KeptForWaiting') /\ (Having("HOLD")' # {} => KeptForHeld')
<1>o. Ordered /\ KindFits /\ KindFits'
  BY ExcusesStay, KindStep DEF Known, Rests, Ordered
<1>1. CASE ticks'[w].step \in Batching
  <2>1. ticks'[w].step # "idle" /\ ticks'[w].kind = "batch"
    BY <1>1, <1>o DEF KindFits, Batching, Sweeping, Holding
  <2> QED
    BY <2>1, ServesBoth DEF Attended, At
<1>2. CASE ticks'[w].step \in {"rearm", "release", "kick"}
  <2>1. ticks'[w].step = "rearm" => ticks'[w].kind = "launch"
    BY <1>o DEF KindFits
  <2> QED
    BY <1>2, <2>1, ServesBoth DEF Kicking, Attended, At
<1>w. ASSUME ticks[w].step \in {"look", "elect"},
             UNCHANGED <<queued, dead, request, excuse>>, \A v \in Ticks \ {w} : ticks'[v] = ticks[v]
      PROVE  KeptForWaiting => KeptForWaiting'
  <2>1. ticks[w].kind = "decide"
    BY <1>o, <1>w DEF KindFits
  <2>2. \A kind \in {"launch", "batch"} : Attended(kind) => Attended(kind)'
    BY <1>w, <2>1 DEF Attended, At
  <2>3. Kicking => Kicking'
    BY <1>w, <2>2 DEF Kicking, Unbooked
  <2> QED
    BY <1>w, <2>2, <2>3 DEF KeptForWaiting
<1>h. ASSUME decided, ticks[w].step # "release", Having("HOLD") # {}, excuse' = excuse,
             \A v \in Ticks \ {w} : ticks'[v] = ticks[v]
      PROVE  KeptForHeld'
  <2>1. CASE "remainder lost" \in excuse
    BY <1>h, <2>1 DEF KeptForHeld
  <2>2. ASSUME NEW x \in Ticks, At(x, "release") PROVE KeptForHeld'
    <3>1. At(x, "release")'
      BY <1>h, <2>2 DEF At
    <3> QED
      BY <3>1 DEF KeptForHeld, Kicking, At
  <2> QED
    BY <1>h, <2>1, <2>2 DEF Known, Freed
<1>s. Stepping(w)
  BY DEF Handled
<1>3. CASE ticks'[w].step = "elect"
  <2>1. Walks(w) /\ ticks[w].step = "look"
    BY <1>3 DEF Handled, Walks, Starts, Writes, Ends, Holding
  <2>2. UNCHANGED <<status, rec, queued, dead, request, excuse>>
    BY <1>s, <2>1 DEF Walks, Stepping
  <2>3. ticks'[w].kind = "decide" /\ ticks'[w].step # "idle"
    BY <1>3, <1>o DEF KindFits
  <2>4. KeptForHeld'
    BY <2>3 DEF KeptForHeld, Attended, At
  <2>5. KeptForWaiting => KeptForWaiting'
    BY <1>w, <1>s, <2>1, <2>2 DEF Stepping
  <2>6. Waiting' = Waiting
    BY <2>2 DEF Waiting, Having
  <2> QED
    BY <1>o, <2>2, <2>4, <2>5, <2>6 DEF KeepsGoing, KeptForWaiting, Ordered
<1>4. CASE ticks'[w].step = "idle"
  <2>1. Ends(w)
    BY <1>4 DEF Handled, Walks, Starts, Writes, Holding
  <2>2. UNCHANGED <<rec, decided, dead, request>> /\ \A v \in Ticks \ {w} : ticks'[v] = ticks[v]
    BY <1>s, <2>1 DEF Ends, Stepping
  <2>3. Waiting' = Waiting /\ Having("HOLD")' = Having("HOLD")
    BY <2>2 DEF Waiting, Having
  <2>4. CASE ticks[w].step \in {"look", "elect"}
    <3>1. decided /\ status = "SENDING" /\ UNCHANGED <<queued, excuse>>
      BY <2>1, <2>4 DEF Ends
    <3>2. KeptForWaiting => KeptForWaiting'
      BY <1>w, <2>2, <2>4, <3>1
    <3>3. Having("HOLD") # {} => KeptForHeld'
      BY <1>h, <2>2, <2>4, <3>1
    <3> QED
      BY <1>o, <2>3, <3>1, <3>2, <3>3 DEF KeepsGoing, KeptForWaiting, Ordered
  <2>5. CASE ticks[w].step \in {"kick", "count", "read"}
    <3>1. "batch" \in queued' \/ "batch lost" \in excuse'
      BY <2>1, <2>5 DEF Ends
    <3> QED
      BY <3>1, ServesBoth DEF Attended
  <2>6. CASE ticks[w].step = "held"
    <3>1. Waiting = {}
      BY <1>o, <2>6 DEF Known, DoneAtEnd
    <3>2. CASE "decide" \in queued'
      BY <2>3, <3>1, <3>2 DEF KeptForHeld, Attended
    <3>3. CASE ~ticks[w].undecided /\ UNCHANGED excuse
      <4>1. decided
        BY <2>6, <3>3 DEF Known, DecidedThen, Batching, Sweeping
      <4> QED
        BY <1>h, <2>2, <2>3, <2>6, <3>1, <3>3, <4>1
    <3> QED
      BY <2>1, <2>6, <3>2, <3>3 DEF Ends
  <2>7. ticks[w].step \in {"look", "elect", "kick", "count", "read", "held"}
    BY <2>1 DEF Ends
  <2> QED
    BY <2>4, <2>5, <2>6, <2>7
<1>5. ticks'[w].step \in Batching \cup {"rearm", "release", "kick", "elect", "idle"}
  <2>1. CASE Walks(w)
    BY <2>1 DEF Walks, Batching, Sweeping
  <2>2. CASE Starts(w) \/ Ends(w)
    BY <2>2 DEF Starts, Ends
  <2>3. CASE Writes(w)
    BY <2>3 DEF Writes, Batching, Sweeping, Holding
  <2> QED
    BY <2>1, <2>2, <2>3 DEF Handled
<1> QED
  BY <1>1, <1>2, <1>3, <1>4, <1>5

\* Who waits after a step that no handler makes did so before.
LEMMA OthersWait ==
    ASSUME Typed, Rests, [Next]_vars, \A w \in Ticks : ~Handled(w), status # "DRAFT"
    PROVE  Waiting' \subseteq Waiting /\ Having("HOLD")' \subseteq Having("HOLD")
BY OthersWrite DEF Rests, Waiting, Having

\* The campaign becomes SENDING or SENT by a request or by a handler.
LEMMA OthersStatus ==
    ASSUME Typed, Rests, [Next]_vars, \A w \in Ticks : ~Handled(w), status' # status
    PROVE  status' = "PAUSED" \/ (Operator /\ Sets)
<1>1. CASE Operator
  BY <1>1, OperatorMoves DEF Rests, Asks, Freezes, Unbooks, Queues, Breaks
<1>2. ASSUME NEW w \in Ticks, Dies(w) \/ LoseLock(w) \/ \E kind \in Kinds : Begins(w, kind)
      PROVE  status' = "PAUSED"
  BY <1>2 DEF Dies, LoseLock, Begins, campaignVars
<1>3. CASE (\E kind \in Kinds : Reap(kind)) \/ Outside
  BY <1>3 DEF Reap, Outside, campaignVars
<1> QED
  BY <1>1, <1>2, <1>3, Splits DEF Rests

LEMMA KeepsStep ==
    ASSUME Typed, Known, KeepsGoing, [Next]_vars
    PROVE  KeepsGoing'
<1> SUFFICES ASSUME status' = "SENDING", Ordered'
             PROVE  (Waiting' # {} => KeptForWaiting') /\ (Having("HOLD")' # {} => KeptForHeld')
  BY DEF KeepsGoing, KeptForWaiting, KeptForHeld, Ordered
<1>1. ASSUME NEW w \in Ticks, Handled(w)
      PROVE  (Waiting' # {} => KeptForWaiting') /\ (Having("HOLD")' # {} => KeptForHeld')
  BY <1>1, HandledKeeps
<1>2. CASE \A w \in Ticks : ~Handled(w)
  <2>1. CASE status # "SENDING"
    <3>1. Sets
      BY <1>2, <2>1, OthersStatus DEF Known
    <3> QED
      BY <3>1, ServesBoth DEF Sets, Kicking
  <2>2. CASE status = "SENDING"
    <3>1. Waiting' \subseteq Waiting /\ Having("HOLD")' \subseteq Having("HOLD")
      BY <1>2, <2>2, OthersWait DEF Known
    <3>2. (Waiting # {} => KeptForWaiting) /\ (Having("HOLD") # {} => KeptForHeld)
      BY <2>2, ExcusesStay DEF KeepsGoing, KeptForWaiting, KeptForHeld, Known, Rests, Ordered
    <3>3. (KeptForWaiting => KeptForWaiting') /\ (KeptForHeld => KeptForHeld')
      BY <1>2, <2>2, OthersKeep, OperatorKeeps DEF Known, Rests
    <3> QED
      BY <3>1, <3>2, <3>3
  <2> QED
    BY <2>1, <2>2
<1> QED
  BY <1>1, <1>2

LEMMA SentDoneStep ==
    ASSUME Typed, Known, SentIsDone, [Next]_vars
    PROVE  SentIsDone'
<1> USE DEF Known, Rests
<1> SUFFICES ASSUME status' = "SENT", Ordered', NEW r \in Recipients
             PROVE  rec'[r] \notin {"PENDING", "SENDING", "HOLD"}
  BY DEF SentIsDone, Waiting, Having, Ordered
<1>0. Ordered
  BY ExcusesStay DEF Ordered
<1>t. rec \in [Recipients -> RecipientStatus] /\ ticks \in [Ticks -> Tick]
  BY DEF Typed, TypeOK
<1>d. status = "SENT" => rec[r] \notin {"PENDING", "SENDING", "HOLD"}
  BY <1>0 DEF SentIsDone, Waiting, Having, Ordered
<1>1. CASE \A w \in Ticks : ~Handled(w)
  <2>1. status = "SENT"
    BY <1>1, OthersStatus DEF Sets
  <2> QED
    BY <1>1, <1>d, <2>1, OthersWrite
<1>2. ASSUME NEW w \in Ticks, Handled(w) PROVE rec'[r] \notin {"PENDING", "SENDING", "HOLD"}
  <2>1. CASE ticks[w].step = "close" /\ UNCHANGED rec
    BY <1>0, <2>1 DEF DoneAtEnd, Waiting, Having, At
  <2>2. CASE status = "SENT"
    <3>0. rec'[r] # "HOLD"
      BY <1>2, <1>d, <2>2, WritesRow
    <3>1. CASE UNCHANGED rec
      BY <1>d, <2>2, <3>1
    <3>2. CASE rec' = Reclaimed
      BY <1>d, <2>2, <3>2 DEF Reclaimed
    <3>3. CASE \E x \in Recipients : rec[x] = "PENDING"
      <4>1. PICK x \in Recipients : rec[x] = "PENDING"
        BY <3>3
      <4> QED
        BY <1>0, <2>2, <4>1 DEF SentIsDone, Waiting, Having, Ordered
    <3>4. CASE rec' = [rec EXCEPT ![ticks[w].cur] = Marked(w)]
      <4>1. ticks[w].cur = r => Marked(w) \notin {"PENDING", "SENDING"}
        BY <1>d, <1>t, <2>2 DEF Marked, Tick, Outcome
      <4> QED
        BY <1>d, <1>t, <2>2, <3>0, <3>4, <4>1
    <3>5. CASE rec' = [x \in Recipients |-> IF rec[x] = "HOLD" THEN "PENDING" ELSE rec[x]]
      BY <1>d, <2>2, <3>5
    <3> QED
      BY <1>2, <3>1, <3>2, <3>3, <3>4, <3>5 DEF Handled, Walks, Starts, Writes, Ends
  <2> QED
    BY <1>2, <2>1, <2>2 DEF Handled, Walks, Starts, Writes, Ends
<1> QED
  BY <1>1, <1>2

-----------------------------------------------------------------------------
\* What is known of the campaign at every moment.
GoingInv == UnbookIsCancel /\ Known /\ KeepsGoing /\ SentIsDone

LEMMA GoingInit == Init => GoingInv
<1> SUFFICES ASSUME Init PROVE GoingInv
  OBVIOUS
<1>1. /\ status = "DRAFT" /\ queued = {} /\ dead = {} /\ ~decided /\ lock = NoTick
      /\ request.step = "idle" /\ \A r \in Recipients : rec[r] = "none"
      /\ \A w \in Ticks : ticks[w].step = "idle"
  BY NoWorkTyped DEF Init, NoRequest
<1>2. "idle" \notin Batching \cup Sweeping \cup Holding
  BY DEF Batching, Sweeping, Holding
<1>3. KindFits /\ Alone /\ UnbookIsCancel /\ DraftRests /\ Frozen
  BY <1>1, <1>2 DEF KindFits, Alone, UnbookIsCancel, DraftRests, Frozen, At
<1>4. OneInHand /\ DoneAtEnd /\ DecidedThen /\ Freed
  BY <1>1, <1>2 DEF OneInHand, DoneAtEnd, DecidedThen, Freed, At
<1>5. KeepsGoing /\ SentIsDone
  BY <1>1 DEF KeepsGoing, SentIsDone
<1> QED
  BY <1>3, <1>4, <1>5 DEF GoingInv, Known, Rests

LEMMA GoingStep ==
    ASSUME Typed, Booked, Booked', GoingInv, [Next]_vars
    PROVE  GoingInv'
<1>1. Rests /\ OneInHand /\ DoneAtEnd /\ DecidedThen /\ Freed /\ Known /\ KeepsGoing /\ SentIsDone
  BY DEF GoingInv, Known
<1>2. KindFits /\ Alone /\ UnbookIsCancel /\ DraftRests /\ Frozen
  BY <1>1 DEF Rests
<1>3. UnbookIsCancel'
  BY DEF Booked
<1>4. KindFits' /\ Alone' /\ DraftRests' /\ Frozen'
  BY <1>2, KindStep, AloneStep, DraftStep, FrozenStep
<1>5. Rests'
  BY <1>3, <1>4 DEF Rests
<1>6. OneInHand' /\ DoneAtEnd' /\ DecidedThen' /\ Freed'
  BY <1>1, <1>2, InHandStep, DoneStep, DecidedStep, FreedStep
<1>7. KeepsGoing' /\ SentIsDone'
  BY <1>1, KeepsStep, SentDoneStep
<1> QED
  BY <1>3, <1>5, <1>6, <1>7 DEF GoingInv, Known

LEMMA GoingAlways == Spec => []GoingInv
<1>1. Init => Booked
  BY NoWorkTyped DEF Init, NoRequest, Booked, FlipIsLaunch, UnbookIsCancel, At
<1>2. Typed /\ Booked /\ [Next]_vars => Booked'
  BY BookedStep
<1>3. Typed /\ Booked /\ Booked' /\ GoingInv /\ [Next]_vars => GoingInv'
  BY GoingStep
<1> QED
  BY <1>1, <1>2, <1>3, GoingInit, TypedInit, TypedStep, PTL DEF Spec

\* The campaign does not fall asleep: while it is SENDING and somebody waits, a batch
\* is queued, under way or about to be kicked; while somebody is held back, the
\* decision is too, or a batch that arms it again.
THEOREM NeverFallsAsleep == Spec => []KeepsGoing
<1>1. GoingInv => KeepsGoing
  BY DEF GoingInv
<1> QED
  BY <1>1, GoingAlways, PTL

\* A campaign that is SENT owes nobody a mail, as long as no two ticks overlapped.
THEOREM SentOwesNobody == Spec => []SentIsDone
<1>1. GoingInv => SentIsDone
  BY DEF GoingInv
<1> QED
  BY <1>1, GoingAlways, PTL
=============================================================================
