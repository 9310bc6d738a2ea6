--------------------------- MODULE CampaignSender ---------------------------
(***************************************************************************)
(* One e-mail campaign: the operator's requests (CampaignsService), its    *)
(* three delayed jobs (CampaignSenderService), and the mail gateway with   *)
(* its ledger through which every recipient is mailed.                     *)
(*                                                                         *)
(* The job queue is that of ScheduledJobs, seen from a handler: a kind is  *)
(* queued or not, a tick that holds the lock runs one job, and the job of  *)
(* a dead tick comes back.  One statement of a handler is one step; two    *)
(* are merged only where no other actor could tell.                        *)
(***************************************************************************)
EXTENDS Integers, FiniteSets

\* A definition named Bug_X is the definition after it with a plausible mistake;
\* no action uses it.  Each property fails under one of them (PROJECT.json).

CONSTANTS
    Recipients,     \* the leads of the audience
    NoRecipient,
    Ticks,          \* runner ticks that work on this campaign
    NoTick,
    FailLimit,      \* FAIL_STREAK_LIMIT
    WinnerModes,    \* whether the tests tried end with a winner
    MaxFaults,      \* bound: dead or failing ticks and requests, lost locks, lost outcomes
    MaxRequests,    \* bound: requests of the operator
    MaxOptOuts,     \* bound: leads that opt out
    MaxBlocks       \* bound: suspensions and re-activations of the workspace

ASSUME CampaignAssumption ==
    /\ FailLimit \in Nat \ {0} /\ MaxFaults \in Nat /\ MaxRequests \in Nat
    /\ MaxOptOuts \in Nat /\ MaxBlocks \in Nat /\ WinnerModes \subseteq BOOLEAN
    /\ NoRecipient \notin Recipients /\ NoTick \notin Ticks
ASSUME FiniteAssumption == IsFiniteSet(Recipients) /\ IsFiniteSet(Ticks)

VARIABLES
    status,     \* Campaign.status
    winnerMode, \* abMode is WINNER
    decided,    \* Campaign.abWinnerKey is set
    streak,     \* Campaign.stats.failStreak
    rec,        \* [Recipients -> CampaignRecipient.status, "none" without a row]
    optedOut,   \* the leads whose emailOptOut is set
    ledger,     \* [Recipients -> status of the MailLog row under the recipient's key]
    fresh,      \* the recipients whose ledger row became PENDING within IN_FLIGHT_MS
    used,       \* units of the monthly message pool that are reserved or spent
    mailed,     \* external: [Recipients -> mails the relay accepted]
    queued,     \* the kinds with a PENDING job
    dead,       \* the kinds with a RUNNING job that only the reaper will move
    lock,       \* the tick that holds the runner's lock
    ticks,      \* [Ticks -> where the tick stands in its handler]
    request,    \* where the operator's request stands
    blocked,    \* the workspace is suspended
    faults, requests, blocks,
    lost,       \* ghost: recipients whose ledger row has lost track of a mail
    guessed,    \* ghost: recipients marked SENT because another send was in flight
    excuse      \* ghost: what has left the campaign without its job

campaignVars == <<status, winnerMode, decided, streak>>
gatewayVars == <<ledger, fresh, mailed, lost, guessed>>
jobVars == <<queued, dead, lock>>
bounds == <<faults, requests, blocks>>
vars == <<status, winnerMode, decided, streak, rec, optedOut, ledger, fresh, used, mailed, queued,
          dead, lock, ticks, request, blocked, faults, requests, blocks, lost, guessed,
          excuse>>

Kinds == {"launch", "decide", "batch"}
Status == {"DRAFT", "SCHEDULED", "SENDING", "PAUSED", "SENT", "CANCELLED"}
RecipientStatus ==
    {"none", "HOLD", "PENDING", "SENDING", "SENT", "FAILED", "SKIPPED", "UNSUBSCRIBED"}

\* FAILED stands for every status of a ledger row that reached nobody.
LedgerStatus == {"none", "PENDING", "SENT", "FAILED"}

\* What a send means for the row, with stop: the next ones would meet the same, and
\* defer: it waits for a time rather than failing.
Outcome == [is : {"SENT", "SKIPPED", "FAILED", "RETRY"}, stop : BOOLEAN, defer : BOOLEAN]
Is(what) == [is |-> what, stop |-> FALSE, defer |-> FALSE]

\* todo: the rows listed and not yet looked at; cur: the claimed one; write: what the
\* gateway wants in the ledger; row: the ledger has a row for the outcome; claimed, sent,
\* back: the counters of the loop; undecided: abWinnerKey was null when the campaign was
\* read.
TickStep == {"idle", "flip", "rearm", "look", "elect", "release", "kick", "read", "reclaim",
             "list", "loop", "check", "ask", "open", "reopen", "dispatch", "settle",
             "refund", "mark", "streak", "count", "held", "close"}
Tick == [step : TickStep,
         kind : Kinds, todo : SUBSET Recipients, cur : Recipients \cup {NoRecipient},
         out : Outcome, write : {"PENDING", "FAILED"}, row : BOOLEAN,
         claimed : BOOLEAN, sent : BOOLEAN, back : BOOLEAN, undecided : BOOLEAN]
NoWork == [step |-> "idle", kind |-> "batch", todo |-> {}, cur |-> NoRecipient,
           out |-> Is("SENT"), write |-> "PENDING", row |-> TRUE,
           claimed |-> FALSE, sent |-> FALSE, back |-> FALSE, undecided |-> FALSE]

Ops == {"launch now", "launch later", "pause", "resume", "cancel"}
Request == [step : {"idle", "freeze", "unbook", "set", "arm", "kick", "book"}, op : Ops,
            holds : BOOLEAN]
NoRequest == [step |-> "idle", op |-> "pause", holds |-> FALSE]

Init ==
    /\ status = "DRAFT" /\ winnerMode \in WinnerModes /\ decided = FALSE /\ streak = 0
    /\ rec = [r \in Recipients |-> "none"]
    /\ optedOut = {}
    /\ ledger = [r \in Recipients |-> "none"] /\ fresh = {}
    /\ used = 0
    /\ mailed = [r \in Recipients |-> 0]
    /\ queued = {} /\ dead = {} /\ lock = NoTick
    /\ ticks = [w \in Ticks |-> NoWork]
    /\ request = NoRequest
    /\ blocked = FALSE
    /\ faults = 0 /\ requests = 0 /\ blocks = 0
    /\ lost = {} /\ guessed = {} /\ excuse = {}

Having(s) == {r \in Recipients : rec[r] = s}
At(w, step) == ticks[w].step = step
Go(w, step) == ticks' = [ticks EXCEPT ![w].step = step]
Fault == faults < MaxFaults /\ faults' = faults + 1

\* ScheduledJobService.schedule under the kind's dedupKey.
Schedule(kind) == queued' = queued \cup {kind} /\ UNCHANGED <<dead, lock>>

\* The handler returns: its job is DONE, and the lock is free for the next tick.
Finished(w) ==
    /\ ticks' = [ticks EXCEPT ![w] = NoWork]
    /\ lock' = IF lock = w THEN NoTick ELSE lock
Finish(w) == Finished(w) /\ UNCHANGED <<queued, dead>>
FinishAfter(w, kind) == Finished(w) /\ queued' = queued \cup {kind} /\ UNCHANGED dead

-----------------------------------------------------------------------------
(***************************************************************************)
(* The operator: launch, pause, resume, cancel                             *)
(***************************************************************************)
Ask(step, op) ==
    /\ request.step = "idle" /\ requests < MaxRequests
    /\ request' = [step |-> step, op |-> op, holds |-> FALSE]
    /\ requests' = requests + 1
    /\ UNCHANGED <<campaignVars, rec, optedOut, gatewayVars, used, jobVars, ticks,
                   blocked, faults, blocks, excuse>>

\* The check of the status, read before anything is written.
AskLaunch ==
    /\ status \in {"DRAFT", "SCHEDULED"}
    /\ Ask("freeze", "launch now") \/ Ask("freeze", "launch later")
AskPause == status = "SENDING" /\ Ask("set", "pause")
AskResume == status = "PAUSED" /\ Ask("set", "resume")
AskCancel == status = "SCHEDULED" /\ Ask("unbook", "cancel")

\* The statement a request goes on to; launch writes the status before it queues the
\* job that looks at it.
Bug_Following ==
    CASE request.step = "freeze" -> IF request.op = "launch now" THEN "unbook" ELSE "book"
      [] request.step \in {"unbook", "book"} -> "set"
      [] request.step = "set" /\ request.op = "launch now" -> "arm"
      [] request.step = "set" /\ request.op = "resume" -> "kick"
      [] request.step = "arm" -> "kick"
      [] OTHER -> "idle"
Following ==
    CASE request.step = "freeze" -> IF request.op = "launch now" THEN "unbook" ELSE "set"
      [] request.step = "unbook" -> "set"
      [] request.step = "set" /\ request.op = "launch now" -> "arm"
      [] request.step = "set" /\ request.op = "resume" -> "kick"
      [] request.step = "set" /\ request.op = "launch later" -> "book"
      [] request.step = "arm" -> "kick"
      [] OTHER -> "idle"
Proceed == request' = IF Following = "idle" THEN NoRequest
                      ELSE [request EXCEPT !.step = Following]

\* Waiting rows of a draft are dropped, and every lead of the audience without a row
\* gets one; in winner mode a remainder is held back.
Freeze ==
    /\ request.step = "freeze"
    /\ LET audience == Recipients \ optedOut
           stale(r) == status = "DRAFT" /\ rec[r] \in {"PENDING", "HOLD"}
       IN IF audience = {}
          THEN request' = NoRequest /\ UNCHANGED rec
          ELSE /\ \E hold \in SUBSET audience :
                    /\ hold # audience
                    /\ hold # {} => winnerMode
                    /\ rec' = [r \in Recipients |->
                                 IF rec[r] # "none" /\ ~stale(r) THEN rec[r]
                                 ELSE IF r \notin audience THEN "none"
                                 ELSE IF r \in hold THEN "HOLD" ELSE "PENDING"]
                    /\ request' = [request EXCEPT !.step = Following, !.holds = (hold # {})]
    /\ UNCHANGED <<campaignVars, optedOut, gatewayVars, used, jobVars, ticks, blocked,
                   bounds, excuse>>

\* The queued launch is cancelled, by cancel or by a launch that starts right now;
\* cancel takes a queued batch as well.
Unbook ==
    /\ request.step = "unbook"
    /\ queued' = queued \ (IF request.op = "cancel" THEN {"launch", "batch"} ELSE {"launch"})
    /\ Proceed
    /\ UNCHANGED <<campaignVars, rec, optedOut, gatewayVars, used, dead, lock, ticks,
                   blocked, bounds, excuse>>

\* The request took jobs out of the queue and has not written its status yet.
Unbooked == request.step = "set" /\ request.op \in {"cancel", "launch now"}

\* The update of the status, by id; a launch starts its statistics anew.
Set ==
    /\ request.step = "set"
    /\ status' = CASE request.op \in {"launch now", "resume"} -> "SENDING"
                   [] request.op = "launch later" -> "SCHEDULED"
                   [] request.op = "pause" -> "PAUSED"
                   [] request.op = "cancel" -> "CANCELLED"
    /\ streak' = IF request.op \in {"launch now", "launch later"} THEN 0 ELSE streak
    /\ Proceed
    /\ UNCHANGED <<winnerMode, decided, rec, optedOut, gatewayVars, used, jobVars,
                   ticks, blocked, bounds, excuse>>

\* The decision of the winner is scheduled by a launch that holds a remainder back.
Arm ==
    /\ request.step = "arm"
    /\ IF request.holds THEN Schedule("decide") ELSE UNCHANGED jobVars
    /\ Proceed
    /\ UNCHANGED <<campaignVars, rec, optedOut, gatewayVars, used, ticks, blocked, bounds,
                   excuse>>

\* kickBatch; it also makes up for a batch that was lost.
Kick ==
    /\ request.step = "kick"
    /\ Schedule("batch")
    /\ Proceed
    /\ excuse' = excuse \ {"batch lost"}
    /\ UNCHANGED <<campaignVars, rec, optedOut, gatewayVars, used, ticks, blocked, bounds>>

\* A launch for later queues its job.
Book ==
    /\ request.step = "book"
    /\ Schedule("launch")
    /\ Proceed
    /\ UNCHANGED <<campaignVars, rec, optedOut, gatewayVars, used, ticks, blocked, bounds,
                   excuse>>

\* The request dies between two statements.
RequestDies ==
    /\ request.step # "idle"
    /\ Fault
    /\ request' = NoRequest
    /\ excuse' = CASE request.step \in {"arm", "kick"} -> excuse \cup {"batch lost"}
                   [] request.step = "book" -> excuse \cup {"launch lost"}
                   [] Unbooked -> excuse \cup {"launch lost", "batch lost"}
                   [] OTHER -> excuse
    /\ UNCHANGED <<campaignVars, rec, optedOut, gatewayVars, used, jobVars, ticks, blocked,
                   requests, blocks>>

Operator ==
    \/ AskLaunch \/ AskPause \/ AskResume \/ AskCancel
    \/ Freeze \/ Unbook \/ Set \/ Arm \/ Kick \/ Book \/ RequestDies

-----------------------------------------------------------------------------
(***************************************************************************)
(* The runner: a tick takes one job; jobs of dead ticks come back          *)
(***************************************************************************)
First(kind) == CASE kind = "launch" -> "flip" [] kind = "decide" -> "look" [] OTHER -> "read"

\* The loop is over, and what it kept is not needed any more.
Settled(w, step) ==
    ticks' = [ticks EXCEPT ![w] = [NoWork EXCEPT !.step = step, !.undecided = ticks[w].undecided]]

Begin(w, kind) ==
    /\ lock = NoTick /\ At(w, "idle") /\ kind \in queued
    /\ lock' = w
    /\ queued' = queued \ {kind}
    /\ ticks' = [ticks EXCEPT ![w] = [NoWork EXCEPT !.step = First(kind), !.kind = kind]]
    /\ UNCHANGED <<campaignVars, rec, optedOut, gatewayVars, used, dead, request, blocked,
                   bounds, excuse>>

Reap(kind) ==
    /\ kind \in dead
    /\ dead' = dead \ {kind} /\ queued' = queued \cup {kind}
    /\ UNCHANGED <<campaignVars, rec, optedOut, gatewayVars, used, lock, ticks, request,
                   blocked, bounds, excuse>>

\* What a decision that ends early leaves behind.
Undone(w) == IF ticks[w].step \in {"release", "kick"} /\ ticks[w].kind = "decide"
             THEN {"remainder lost", "batch lost"} ELSE {}

\* The process dies.
Crash(w) ==
    /\ ~At(w, "idle")
    /\ Fault
    /\ dead' = dead \cup {ticks[w].kind}
    /\ lock' = IF lock = w THEN NoTick ELSE lock
    /\ ticks' = [ticks EXCEPT ![w] = NoWork]
    /\ lost' = IF At(w, "settle") /\ ticks[w].out.is = "SENT" THEN lost \cup {ticks[w].cur} ELSE lost
    /\ excuse' = excuse \cup Undone(w)
    /\ UNCHANGED <<campaignVars, rec, optedOut, ledger, fresh, mailed, guessed, used, queued,
                   request, blocked, requests, blocks>>

Gateway == {"ask", "open", "reopen", "dispatch", "settle", "refund"}

\* A statement fails that the handler does not catch: the job is tried again, or it
\* was its last attempt and a launch or a batch pauses its campaign.
Throw(w) ==
    /\ ticks[w].step \notin Gateway \cup {"idle"}
    /\ Fault
    /\ Finished(w)
    /\ \/ /\ queued' = queued \cup {ticks[w].kind}
          /\ excuse' = excuse \cup Undone(w)
          /\ UNCHANGED status
       \/ /\ status' = IF status = "SENDING" /\ ticks[w].kind # "decide" THEN "PAUSED" ELSE status
          /\ excuse' = excuse \cup Undone(w) \cup
                 (CASE ticks[w].kind = "decide" -> {"remainder lost"}
                    [] ticks[w].kind = "launch" -> {"launch lost"} [] OTHER -> {})
          /\ UNCHANGED queued
    /\ UNCHANGED <<winnerMode, decided, streak, rec, optedOut, gatewayVars, used, dead, request,
                   blocked, requests, blocks>>

\* The transaction of the lock ends under a tick that goes on; its row will be reaped.
LoseLock(w) ==
    /\ lock = w
    /\ Fault
    /\ lock' = NoTick
    /\ dead' = dead \cup {ticks[w].kind}
    /\ excuse' = excuse \cup {"overlap"}
    /\ UNCHANGED <<campaignVars, rec, optedOut, gatewayVars, used, queued, ticks, request,
                   blocked, requests, blocks>>

-----------------------------------------------------------------------------
(***************************************************************************)
(* launchScheduled and decideAbWinner                                      *)
(***************************************************************************)
\* The guarded flip, whose count is ignored: the attempt of a dead tick may have made it.
Bug_FlipSending(w) ==
    /\ At(w, "flip")
    /\ IF status = "SCHEDULED"
       THEN status' = "SENDING" /\ Go(w, "rearm") /\ UNCHANGED jobVars
       ELSE Finish(w) /\ UNCHANGED status
    /\ UNCHANGED <<winnerMode, decided, streak, rec, optedOut, gatewayVars, used, request,
                   blocked, bounds, excuse>>
FlipSending(w) ==
    /\ At(w, "flip")
    /\ status' = IF status = "SCHEDULED" THEN "SENDING" ELSE status
    /\ Go(w, "rearm")
    /\ UNCHANGED <<winnerMode, decided, streak, rec, optedOut, gatewayVars, used, jobVars,
                   request, blocked, bounds, excuse>>

\* The re-read: a campaign that is not SENDING is left alone, one that holds a
\* remainder back has its decision scheduled.
Rearm(w) ==
    /\ At(w, "rearm")
    /\ IF status = "SENDING"
       THEN /\ IF Having("HOLD") # {} THEN Schedule("decide") ELSE UNCHANGED jobVars
            /\ Go(w, "kick")
       ELSE Finish(w)
    /\ UNCHANGED <<campaignVars, rec, optedOut, gatewayVars, used, request, blocked, bounds,
                   excuse>>

Look(w) ==
    /\ At(w, "look")
    /\ IF ~decided /\ status = "SENDING"
       THEN Go(w, "elect") /\ UNCHANGED jobVars
       ELSE Finish(w)
    /\ UNCHANGED <<campaignVars, rec, optedOut, gatewayVars, used, request, blocked, bounds,
                   excuse>>

\* The claim of the decision, after the statistics were read.  (There are two variants
\* or more: only then is anybody held back and a decision queued, and a campaign that
\* was launched refuses other variants.  Edits are left out.)
Elect(w) ==
    /\ At(w, "elect")
    /\ IF ~decided /\ status = "SENDING"
       THEN decided' = TRUE /\ Go(w, "release") /\ UNCHANGED jobVars
       ELSE Finish(w) /\ UNCHANGED decided
    /\ UNCHANGED <<status, winnerMode, streak, rec, optedOut, gatewayVars, used, request,
                   blocked, bounds, excuse>>

\* The winner is noted in the statistics and the remainder released; a decision that
\* ends before or between the two has released nobody.
Release(w) ==
    /\ At(w, "release")
    /\ rec' = [r \in Recipients |-> IF rec[r] = "HOLD" THEN "PENDING" ELSE rec[r]]
    /\ Go(w, "kick")
    /\ UNCHANGED <<campaignVars, optedOut, gatewayVars, used, jobVars, request, blocked,
                   bounds, excuse>>

\* Both handlers end by scheduling a batch.
KickBatch(w) ==
    /\ At(w, "kick")
    /\ FinishAfter(w, "batch")
    /\ excuse' = excuse \ {"batch lost"}
    /\ UNCHANGED <<campaignVars, rec, optedOut, gatewayVars, used, request, blocked, bounds>>

-----------------------------------------------------------------------------
(***************************************************************************)
(* batch: the tick                                                         *)
(***************************************************************************)
\* The campaign and its workspace are read; a suspended workspace ends the tick.
Read(w) ==
    /\ At(w, "read")
    /\ \/ /\ status = "SENDING" /\ ~blocked
          /\ ticks' = [ticks EXCEPT ![w].step = "reclaim", ![w].undecided = ~decided]
          /\ UNCHANGED <<jobVars, excuse>>
       \/ /\ status # "SENDING"
          /\ Finish(w) /\ UNCHANGED excuse
       \/ /\ status = "SENDING" /\ blocked
          /\ Finish(w) /\ excuse' = excuse \cup {"batch lost"}
    /\ UNCHANGED <<campaignVars, rec, optedOut, gatewayVars, used, request, blocked, bounds>>

\* Rows that an earlier tick left SENDING are put back.
Bug_Reclaimed == rec
Reclaimed == [r \in Recipients |-> IF rec[r] = "SENDING" THEN "PENDING" ELSE rec[r]]

Reclaim(w) ==
    /\ At(w, "reclaim")
    /\ rec' = Reclaimed
    /\ Go(w, "list")
    /\ UNCHANGED <<campaignVars, optedOut, gatewayVars, used, jobVars, request, blocked,
                   bounds, excuse>>

\* (BATCH_SIZE, 50, is above the number of recipients.)
List(w) ==
    /\ At(w, "list")
    /\ ticks' = [ticks EXCEPT ![w].todo = Having("PENDING"),
                              ![w].step = IF Having("PENDING") = {} THEN "held" ELSE "loop"]
    /\ UNCHANGED <<campaignVars, rec, optedOut, gatewayVars, used, jobVars, request, blocked,
                   bounds, excuse>>

\* The claim of the next row, which may not be PENDING any more.
ClaimRow(w, r) == rec[r] = "PENDING"

Turn(w, r) ==
    /\ At(w, "loop") /\ r \in ticks[w].todo
    /\ IF ClaimRow(w, r)
       THEN /\ rec' = [rec EXCEPT ![r] = "SENDING"]
            /\ ticks' = [ticks EXCEPT ![w].todo = ticks[w].todo \ {r}, ![w].cur = r,
                                      ![w].claimed = TRUE, ![w].step = "check"]
       ELSE /\ ticks' = [ticks EXCEPT ![w].todo = ticks[w].todo \ {r}]
            /\ UNCHANGED rec
    /\ UNCHANGED <<campaignVars, optedOut, gatewayVars, used, jobVars, request, blocked,
                   bounds, excuse>>

\* The list is done, or the time of the tick is up after at least one row.
Leave(w) ==
    /\ At(w, "loop")
    /\ ticks[w].todo = {} \/ ticks[w].claimed
    /\ IF ticks[w].sent \/ ticks[w].back
       THEN ticks' = [ticks EXCEPT ![w].todo = {}, ![w].step = "streak"]
       ELSE Settled(w, "count")
    /\ UNCHANGED <<campaignVars, rec, optedOut, gatewayVars, used, jobVars, request, blocked,
                   bounds, excuse>>

\* The lead is read again, and a unit of the message pool is reserved.
Check(w) ==
    /\ At(w, "check")
    /\ \/ /\ ticks[w].cur \in optedOut
          /\ ticks' = [ticks EXCEPT ![w].step = "mark", ![w].out = Is("SKIPPED")]
          /\ UNCHANGED used
       \/ /\ ticks[w].cur \notin optedOut
          /\ used' = used + 1 /\ Go(w, "ask")
       \/ /\ ticks[w].cur \notin optedOut
          /\ ticks' = [ticks EXCEPT ![w].step = "mark",
                                    ![w].out = [Is("RETRY") EXCEPT !.stop = TRUE]]
          /\ UNCHANGED used
    /\ UNCHANGED <<campaignVars, rec, optedOut, gatewayVars, jobVars, request, blocked,
                   bounds, excuse>>

\* The outcome is written: a retry only over SENDING, anything else by id.
Bug_MarkedRaw(w) == ticks[w].out.is
Bug_Marked(w) == IF ticks[w].out.is = "RETRY" THEN "PENDING" ELSE ticks[w].out.is
Marked(w) ==
    IF ticks[w].out.is # "RETRY" THEN ticks[w].out.is
    ELSE IF rec[ticks[w].cur] = "SENDING" THEN "PENDING" ELSE rec[ticks[w].cur]

Mark(w) ==
    LET out == ticks[w].out IN
    /\ At(w, "mark")
    /\ rec' = [rec EXCEPT ![ticks[w].cur] = Marked(w)]
    /\ ticks' = [ticks EXCEPT
          ![w].step = "loop", ![w].cur = NoRecipient,
          ![w].out = Is("SENT"), ![w].write = "PENDING", ![w].row = TRUE,
          ![w].todo = IF out.stop THEN {} ELSE ticks[w].todo,
          ![w].sent = ticks[w].sent \/ out.is = "SENT",
          ![w].back = ticks[w].back \/ (out.is = "RETRY" /\ ~out.defer)]
    /\ UNCHANGED <<campaignVars, optedOut, gatewayVars, used, jobVars, request, blocked,
                   bounds, excuse>>

\* settleFailStreak: ticks that only put rows back are counted, and the campaign is
\* paused at the limit, which ends the tick without another one.
Streak(w) ==
    /\ At(w, "streak")
    /\ \/ /\ ticks[w].sent
          /\ streak' = 0 /\ Settled(w, "count")
          /\ UNCHANGED <<status, jobVars>>
       \/ /\ ~ticks[w].sent /\ streak + 1 < FailLimit
          /\ streak' = streak + 1 /\ Settled(w, "count")
          /\ UNCHANGED <<status, jobVars>>
       \/ /\ ~ticks[w].sent /\ streak + 1 >= FailLimit
          /\ IF status = "SENDING"
             THEN status' = "PAUSED" /\ streak' = FailLimit /\ Finish(w)
             ELSE Settled(w, "count") /\ UNCHANGED <<status, streak, jobVars>>
    /\ UNCHANGED <<winnerMode, decided, rec, optedOut, gatewayVars, used, request, blocked,
                   bounds, excuse>>

\* Rows that wait get another tick.
Count(w) ==
    /\ At(w, "count")
    /\ IF Having("PENDING") # {}
       THEN FinishAfter(w, "batch")
       ELSE Go(w, "held") /\ UNCHANGED jobVars
    /\ UNCHANGED <<campaignVars, rec, optedOut, gatewayVars, used, request, blocked, bounds,
                   excuse>>

\* A remainder that is held back is not the end: the decision is armed again.
Held(w) ==
    /\ At(w, "held")
    /\ IF Having("HOLD") # {}
       THEN IF ticks[w].undecided THEN FinishAfter(w, "decide") ELSE Finish(w)
       ELSE Go(w, "close") /\ UNCHANGED jobVars
    /\ UNCHANGED <<campaignVars, rec, optedOut, gatewayVars, used, request, blocked, bounds,
                   excuse>>

\* The campaign is SENT, whatever its status is by now.
Close(w) ==
    /\ At(w, "close")
    /\ status' = "SENT"
    /\ Finish(w)
    /\ UNCHANGED <<winnerMode, decided, streak, rec, optedOut, gatewayVars, used, request,
                   blocked, bounds, excuse>>

-----------------------------------------------------------------------------
(***************************************************************************)
(* The gateway: one mail under the recipient's key                         *)
(***************************************************************************)
\* What the gateway does next once the ledger has the row.
Then(w) == IF ticks[w].write = "PENDING" THEN "dispatch" ELSE "refund"

Refusals == {Is("SKIPPED"), [Is("RETRY") EXCEPT !.stop = TRUE],
             [Is("RETRY") EXCEPT !.stop = TRUE, !.defer = TRUE]}

\* A key under which a mail went out needs no other one.
Bug_Delivered(r) == ledger[r] \in {"SENT", "FAILED"}
Delivered(r) == ledger[r] = "SENT"

\* A key that was delivered is answered at once, unless the read of it fails; else the
\* guard decides.  A gateway that throws before it has a row leaves none.
AskGateway(w) ==
    /\ At(w, "ask")
    /\ \/ /\ Delivered(ticks[w].cur) /\ UNCHANGED faults
          /\ ticks' = [ticks EXCEPT ![w].step = "refund", ![w].out = Is("SENT")]
       \/ /\ IF Delivered(ticks[w].cur) THEN Fault ELSE UNCHANGED faults
          /\ \/ ticks' = [ticks EXCEPT ![w].step = "open", ![w].write = "PENDING"]
             \/ \E out \in Refusals :
                  ticks' = [ticks EXCEPT ![w].step = "open", ![w].write = "FAILED", ![w].out = out]
       \/ /\ Fault
          /\ ticks' = [ticks EXCEPT ![w].step = "refund", ![w].out = Is("RETRY")]
    /\ UNCHANGED <<campaignVars, rec, optedOut, gatewayVars, used, jobVars, request, blocked,
                   requests, blocks, excuse>>

\* A row that keeps others from sending: delivered, or still on its way.
Bug_Taken(r) == ledger[r] = "SENT"
Taken(r) == Delivered(r) \/ (ledger[r] = "PENDING" /\ r \in fresh)

\* The row of a new key.
Insert(w) ==
    /\ ledger[ticks[w].cur] = "none"
    /\ ledger' = [ledger EXCEPT ![ticks[w].cur] = ticks[w].write]
    /\ fresh' = IF ticks[w].write = "PENDING" THEN fresh \cup {ticks[w].cur} ELSE fresh

\* A mail that is about to go out on a row that the ledger could not write.
LoseTrack(w) == lost' = IF ticks[w].write = "PENDING" THEN lost \cup {ticks[w].cur} ELSE lost

\* The insert, or on a violation of the key the read of the row that is there.  When one
\* of them fails, or its answer is lost, the send goes on without a row (orphan).
Open(w) ==
    LET r == ticks[w].cur IN
    /\ At(w, "open")
    /\ \/ /\ Insert(w)
          /\ Go(w, Then(w)) /\ UNCHANGED <<guessed, lost, faults>>
       \/ /\ ledger[r] # "none" /\ Taken(r)
          /\ ticks' = [ticks EXCEPT ![w].step = "refund",
                          ![w].out = IF ticks[w].write = "PENDING" THEN Is("SENT") ELSE ticks[w].out]
          /\ guessed' = IF ticks[w].write = "PENDING" /\ ledger[r] = "PENDING"
                        THEN guessed \cup {r} ELSE guessed
          /\ UNCHANGED <<ledger, fresh, lost, faults>>
       \/ /\ ledger[r] # "none" /\ ~Taken(r)
          /\ Go(w, "reopen") /\ UNCHANGED <<ledger, fresh, guessed, lost, faults>>
       \/ /\ Fault
          /\ Insert(w) \/ UNCHANGED <<ledger, fresh>>
          /\ ticks' = [ticks EXCEPT ![w].step = Then(w), ![w].row = FALSE]
          /\ LoseTrack(w) /\ UNCHANGED guessed
    /\ UNCHANGED <<campaignVars, rec, optedOut, mailed, used, jobVars, request, blocked,
                   requests, blocks, excuse>>

\* A row that reached nobody is used again; the update is by id, and an error of it is
\* swallowed.
Reopen(w) ==
    LET r == ticks[w].cur IN
    /\ At(w, "reopen")
    /\ \/ /\ ledger' = [ledger EXCEPT ![r] = ticks[w].write]
          /\ fresh' = IF ticks[w].write = "PENDING" THEN fresh \cup {r} ELSE fresh \ {r}
          /\ lost' = IF Taken(r) THEN lost \cup {r} ELSE lost
          /\ UNCHANGED faults
       \/ /\ Fault
          /\ UNCHANGED <<ledger, fresh>> /\ LoseTrack(w)
    /\ Go(w, Then(w))
    /\ UNCHANGED <<campaignVars, rec, optedOut, mailed, guessed, used, jobVars, request,
                   blocked, requests, blocks, excuse>>

Failures == {Is("FAILED"), Is("RETRY"), [Is("RETRY") EXCEPT !.stop = TRUE]}

\* The relay takes the mail, or refuses it, or takes it and the answer is lost.
Dispatch(w) ==
    LET r == ticks[w].cur IN
    /\ At(w, "dispatch")
    /\ \/ /\ mailed' = [mailed EXCEPT ![r] = @ + 1]
          /\ ticks' = [ticks EXCEPT ![w].step = "settle", ![w].out = Is("SENT")]
          /\ UNCHANGED <<lost, faults>>
       \/ /\ \E out \in Failures :
               ticks' = [ticks EXCEPT ![w].step = "settle", ![w].out = out]
          /\ UNCHANGED <<mailed, lost, faults>>
       \/ /\ Fault
          /\ mailed' = [mailed EXCEPT ![r] = @ + 1] /\ lost' = lost \cup {r}
          /\ ticks' = [ticks EXCEPT ![w].step = "settle", ![w].out = Is("RETRY")]
    /\ UNCHANGED <<campaignVars, rec, optedOut, ledger, fresh, guessed, used, jobVars, request,
                   blocked, requests, blocks, excuse>>

\* The outcome goes into the ledger; an error of that is swallowed, and without a row
\* nothing is written.
Settle(w) ==
    LET r == ticks[w].cur  sent == ticks[w].out.is = "SENT" IN
    /\ At(w, "settle")
    /\ \/ /\ ticks[w].row
          /\ ledger' = [ledger EXCEPT ![r] = IF sent THEN "SENT" ELSE "FAILED"]
          /\ fresh' = fresh \ {r}
          /\ UNCHANGED <<lost, faults>>
       \/ /\ IF ticks[w].row THEN Fault ELSE UNCHANGED faults
          /\ lost' = IF sent THEN lost \cup {r} ELSE lost
          /\ UNCHANGED <<ledger, fresh>>
    /\ Go(w, IF sent THEN "mark" ELSE "refund")
    /\ UNCHANGED <<campaignVars, rec, optedOut, mailed, guessed, used, jobVars, request,
                   blocked, requests, blocks, excuse>>

\* The unit of a mail that this attempt did not send is given back, never below zero;
\* an error of that is swallowed.
Bug_Refunded == used
Refunded == IF used > 0 THEN used - 1 ELSE 0

Refund(w) ==
    /\ At(w, "refund")
    /\ \/ used' = Refunded /\ UNCHANGED faults
       \/ Fault /\ UNCHANGED used
    /\ Go(w, "mark")
    /\ UNCHANGED <<campaignVars, rec, optedOut, gatewayVars, jobVars, request, blocked,
                   requests, blocks, excuse>>

\* IN_FLIGHT_MS pass; a send that is still under way loses its claim on the row.
Elapse(r) ==
    /\ r \in fresh
    /\ fresh' = fresh \ {r}
    /\ lost' = IF \E w \in Ticks : ticks[w].cur = r /\ ticks[w].step \in {"dispatch", "settle"}
               THEN lost \cup {r} ELSE lost
    /\ UNCHANGED <<campaignVars, rec, optedOut, ledger, mailed, guessed, used, jobVars, ticks,
                   request, blocked, bounds, excuse>>

-----------------------------------------------------------------------------
\* A lead opts out, here or elsewhere.
OptOut(r) ==
    /\ r \notin optedOut /\ Cardinality(optedOut) < MaxOptOuts
    /\ optedOut' = optedOut \cup {r}
    /\ UNCHANGED <<campaignVars, rec, gatewayVars, used, jobVars, ticks, request, blocked,
                   bounds, excuse>>

\* unsubscribe, by the link of a mail of this campaign: after the lead, its row.
Unsubscribe(r) ==
    /\ mailed[r] > 0 /\ r \in optedOut
    /\ rec[r] # "UNSUBSCRIBED"
    /\ rec' = [rec EXCEPT ![r] = "UNSUBSCRIBED"]
    /\ UNCHANGED <<campaignVars, optedOut, gatewayVars, used, jobVars, ticks, request, blocked,
                   bounds, excuse>>

Block ==
    /\ blocks < MaxBlocks
    /\ blocks' = blocks + 1
    /\ blocked' = ~blocked
    /\ UNCHANGED <<campaignVars, rec, optedOut, gatewayVars, used, jobVars, ticks, request,
                   faults, requests, excuse>>

LaunchScheduled(w) == FlipSending(w) \/ Rearm(w)
DecideAbWinner(w) == Look(w) \/ Elect(w) \/ Release(w)
Batch(w) ==
    \/ Read(w) \/ Reclaim(w) \/ List(w) \/ Leave(w) \/ Check(w) \/ Mark(w)
    \/ Streak(w) \/ Count(w) \/ Held(w) \/ Close(w)
    \/ \E r \in Recipients : Turn(w, r)
SendMail(w) == AskGateway(w) \/ Open(w) \/ Reopen(w) \/ Dispatch(w) \/ Settle(w) \/ Refund(w)

Next ==
    \/ Operator
    \/ \E w \in Ticks :
         \/ \E kind \in Kinds : Begin(w, kind)
         \/ LaunchScheduled(w) \/ DecideAbWinner(w) \/ KickBatch(w) \/ Batch(w) \/ SendMail(w)
         \/ Crash(w) \/ Throw(w) \/ LoseLock(w)
    \/ \E kind \in Kinds : Reap(kind)
    \/ \E r \in Recipients : Elapse(r) \/ OptOut(r) \/ Unsubscribe(r)
    \/ Block

Spec == Init /\ [][Next]_vars
-----------------------------------------------------------------------------
(***************************************************************************)
(* Properties                                                              *)
(***************************************************************************)

\* Every variable keeps its shape.
TypeOK ==
    /\ status \in Status /\ winnerMode \in BOOLEAN /\ decided \in BOOLEAN
    /\ streak \in 0 .. FailLimit
    /\ rec \in [Recipients -> RecipientStatus]
    /\ optedOut \subseteq Recipients /\ fresh \subseteq Recipients
    /\ ledger \in [Recipients -> LedgerStatus]
    /\ used \in Nat /\ mailed \in [Recipients -> Nat]
    /\ queued \subseteq Kinds /\ dead \subseteq Kinds /\ lock \in Ticks \cup {NoTick}
    /\ ticks \in [Ticks -> Tick] /\ request \in Request
    /\ blocked \in BOOLEAN
    /\ faults \in 0 .. MaxFaults /\ requests \in 0 .. MaxRequests /\ blocks \in 0 .. MaxBlocks
    /\ lost \subseteq Recipients /\ guessed \subseteq Recipients
    /\ excuse \subseteq {"batch lost", "launch lost", "remainder lost", "overlap"}

\* A lead is mailed once, through pauses, retries, crashes and overlapping ticks,
\* unless its ledger row has lost track of a mail: an outcome was never written, a
\* send outlived its minute, two senders used a failed row again at once, or the ledger
\* did not write the row that a send goes out on.
MailedOnce == \A r \in Recipients : mailed[r] > 1 => r \in lost

\* A row says SENT only when the mail went out, unless the sender took a send that
\* was in flight for a delivery.
SentWasMailed == \A r \in Recipients : rec[r] = "SENT" /\ mailed[r] = 0 => r \in guessed

\* The message pool is charged for the mails that went out, give or take one unit
\* per fault: units in hand are those of sends that are not settled with it yet.
InHand == {w \in Ticks : \/ ticks[w].step \in {"ask", "open", "reopen", "dispatch", "refund"}
                         \/ At(w, "settle") /\ ticks[w].out.is # "SENT"}
Mails == UNION {{r} \X (1 .. mailed[r]) : r \in Recipients}
MeterTellsTruth ==
    used - Cardinality(InHand) - Cardinality(Mails) \in (0 - faults) .. faults

Attended(kind) ==
    kind \in queued \cup dead \/ \E w \in Ticks : ~At(w, "idle") /\ ticks[w].kind = kind

Kicking ==
    \/ request.step \in {"arm", "kick"} \/ Unbooked
    \/ Attended("launch")
    \/ \E w \in Ticks : ticks[w].step \in {"release", "kick"}

Waiting == Having("PENDING") \cup Having("SENDING")

\* The campaign does not fall asleep: while it is SENDING and somebody waits, a batch
\* is queued, under way or about to be kicked; while somebody is held back, the
\* decision is too, or a batch that arms it again.
KeepsGoing ==
    status = "SENDING" /\ "overlap" \notin excuse =>
        /\ Waiting # {} => Attended("batch") \/ Kicking \/ "batch lost" \in excuse
        /\ Having("HOLD") # {} =>
              \/ Attended("decide") \/ Attended("batch") \/ Kicking
              \/ excuse \cap {"batch lost", "remainder lost"} # {}

\* A campaign that waits for its time has the job that will start it.
ScheduledIsBooked ==
    status = "SCHEDULED" /\ "overlap" \notin excuse =>
        \/ Attended("launch") \/ request.step # "idle" \/ "launch lost" \in excuse

\* A campaign that is SENT owes nobody a mail.
SentIsDone ==
    status = "SENT" /\ "overlap" \notin excuse => Waiting = {} /\ Having("HOLD") = {}

\* Nobody who used the link of a mail is put back into the queue.
UnsubscribedStaysOut ==
    [][\A r \in Recipients : rec[r] = "UNSUBSCRIBED" => rec'[r] \notin {"PENDING", "SENDING"}]_vars

\* What the comment of the suspension test in batch says: the campaign goes on by
\* itself once the workspace is active again.
BlockedTickHeals ==
    status = "SENDING" /\ ~blocked /\ Waiting # {} => Attended("batch") \/ Kicking
=============================================================================
