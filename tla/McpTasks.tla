------------------------------ MODULE McpTasks ------------------------------
(***************************************************************************)
(* The mailbox through which a workspace's connected assistant answers the *)
(* model calls of the backend (McpAiTaskService), and the journal that     *)
(* keeps the tools of an answer from running twice: callers of generate    *)
(* and runToolOnce, and assistants that poll claim and call complete.      *)
(*                                                                         *)
(* generate's admission and the journalling of a tool are transactions     *)
(* under one advisory lock per workspace, the recording of an outcome one  *)
(* under a lock per task: each is one step.  Everything else takes no      *)
(* lock, and one statement of it is one step.                              *)
(*                                                                         *)
(* A request stands for the hash of action, actor scope and input.  Time   *)
(* is two bits per task: `fresh', TTL_MS have not passed since createdAt,  *)
(* and `leased', LEASE_MS have not passed since lockedAt.                  *)
(***************************************************************************)
EXTENDS Integers, FiniteSets

\* A definition named Bug_X is the definition after it with a plausible mistake;
\* no action uses it.  Each property fails under one of them (PROJECT.json).

CONSTANTS
    Callers,        \* requests of the backend that are under way at once
    NoCaller,
    Assistants,     \* connections of the workspace's assistant
    Requests, NoRequest,
    Tools, NoTool,  \* the tools an answer may use
    MaxTasks,       \* bound: rows inserted
    MaxLeases,      \* bound: claims of one row
    Capacity,       \* rows that may wait for the assistant (50)
    MaxFaults,      \* bound: calls that die or fail, on either side
    MaxChanges      \* bound: edits of the workspace's AI policy

ASSUME McpAssumption ==
    /\ MaxTasks \in Nat \ {0} /\ MaxLeases \in Nat \ {0} /\ Capacity \in Nat \ {0}
    /\ MaxFaults \in Nat /\ MaxChanges \in Nat
    /\ NoCaller \notin Callers /\ NoRequest \notin Requests /\ NoTool \notin Tools

VARIABLES
    rows,       \* [Tasks -> the row: status, request, fresh, leased, token, uses]
    journal,    \* [Tasks -> [Tools -> state and writer of the tool's entry]]
    calls,      \* [Callers -> where the call of generate or runToolOnce stands]
    polls,      \* [Assistants -> where the connection stands]
    mcp,        \* whether the policy sends the action to the assistant
    ran,        \* external: [Tasks -> [Tools -> times the write was performed]]
    faults, changes

vars == <<rows, journal, calls, polls, mcp, ran, faults, changes>>

\* Ids in the order of createdAt.
Tasks == 1 .. MaxTasks
Status == {"none", "MCP_WAITING", "MCP_CLAIMED", "MCP_DONE", "CANCELLED"}

\* token: payload.leaseToken, numbered; uses: the tools of payload.result.
Row == [status : Status, request : Requests \cup {NoRequest}, fresh : BOOLEAN,
        leased : BOOLEAN, token : 0 .. MaxLeases, uses : SUBSET Tools]
NoRow == [status |-> "none", request |-> NoRequest, fresh |-> FALSE, leased |-> FALSE,
          token |-> 0, uses |-> {}]

\* by: the call whose token the entry carries.
Entry == [state : {"none", "RUNNING", "DONE", "UNCERTAIN"}, by : Callers \cup {NoCaller}]
NoEntry == [state |-> "none", by |-> NoCaller]

\* "wait": polls the row of generate; "answered": has the completion; "callback":
\* runs the tool; "written": the write took effect, the callback has not returned;
\* "finish": records the outcome `ok'.
Call == [step : {"idle", "wait", "answered", "callback", "written", "finish"},
         task : {0} \cup Tasks, tool : Tools \cup {NoTool}, ok : BOOLEAN]
NoCall == [step |-> "idle", task |-> 0, tool |-> NoTool, ok |-> FALSE]

\* A caller that waits for task t, and one that has its completion.
Waiting(t) == [step |-> "wait", task |-> t, tool |-> NoTool, ok |-> FALSE]
Answered(t) == [step |-> "answered", task |-> t, tool |-> NoTool, ok |-> FALSE]

\* "scan" and "take": inside claim; "hold": the assistant works on the task;
\* "apply": complete has read the row.
Poll == [step : {"idle", "scan", "take", "hold", "apply"}, todo : SUBSET Tasks,
         task : {0} \cup Tasks, token : 0 .. MaxLeases]
NoPoll == [step |-> "idle", todo |-> {}, task |-> 0, token |-> 0]

Init ==
    /\ rows = [t \in Tasks |-> NoRow]
    /\ journal = [t \in Tasks |-> [u \in Tools |-> NoEntry]]
    /\ calls = [c \in Callers |-> NoCall]
    /\ polls = [a \in Assistants |-> NoPoll]
    /\ mcp = TRUE
    /\ ran = [t \in Tasks |-> [u \in Tools |-> 0]]
    /\ faults = 0 /\ changes = 0

Having(statuses) == {t \in Tasks : rows[t].status \in statuses}
Fresh == {t \in Tasks : rows[t].fresh}
Fault == faults < MaxFaults /\ faults' = faults + 1
Unresolved(t) == \E u \in Tools : journal[t][u].state \in {"RUNNING", "UNCERTAIN"}

-----------------------------------------------------------------------------
(***************************************************************************)
(* generate                                                                *)
(***************************************************************************)
Blocking(r) == {t \in Tasks : rows[t].request = r /\ Unresolved(t)}

Bug_Reusable(r) == {t \in Having({"MCP_WAITING", "MCP_DONE"}) \cap Fresh : rows[t].request = r}
Reusable(r) ==
    {t \in Having({"MCP_WAITING", "MCP_CLAIMED", "MCP_DONE"}) \cap Fresh :
        rows[t].request = r}

Queued == Having({"MCP_WAITING", "MCP_CLAIMED"}) \cap Fresh

Free == Having({"none"})

Asks(c, t) == calls' = [calls EXCEPT ![c] = Waiting(t)]

\* A request with an unresolved write is refused, as is one too many; one that was
\* asked for already shares the newest task.
Admit(c, r) ==
    /\ calls[c].step = "idle"
    /\ mcp
    /\ Blocking(r) = {}
    /\ \/ /\ \E t \in Reusable(r) : (\A s \in Reusable(r) : s <= t) /\ Asks(c, t)
          /\ UNCHANGED rows
       \/ /\ Reusable(r) = {} /\ Cardinality(Queued) < Capacity
          /\ \E t \in Free :
               /\ \A s \in Free : t <= s
               /\ rows' = [rows EXCEPT ![t] = [NoRow EXCEPT !.status = "MCP_WAITING",
                                                !.request = r, !.fresh = TRUE]]
               /\ Asks(c, t)
    /\ UNCHANGED <<journal, polls, mcp, ran, faults, changes>>

\* The poll loop sees the answer, or gives up at its deadline, at a cancelled
\* row, or because the policy changed.
Wait(c) ==
    /\ calls[c].step = "wait"
    /\ \/ /\ rows[calls[c].task].status = "MCP_DONE" /\ mcp
          /\ calls' = [calls EXCEPT ![c] = Answered(calls[c].task)]
       \/ calls' = [calls EXCEPT ![c] = NoCall]
    /\ UNCHANGED <<rows, journal, polls, mcp, ran, faults, changes>>

-----------------------------------------------------------------------------
(***************************************************************************)
(* runToolOnce and finishTool                                              *)
(***************************************************************************)
Bug_Startable(t, u) == journal[t][u].state \in {"none", "UNCERTAIN"}
Startable(t, u) == journal[t][u].state = "none"

Bug_Current(t) == rows[t].status = "MCP_DONE"
Current(t) == rows[t].status = "MCP_DONE" /\ rows[t].fresh

\* Journal the tool as RUNNING before its callback is invoked.  An entry that is
\* DONE is replayed, which changes nothing; any other entry is refused.
StartTool(c, u) ==
    LET t == calls[c].task IN
    /\ calls[c].step = "answered"
    /\ u \in rows[t].uses /\ mcp /\ Current(t)
    /\ Startable(t, u)
    /\ journal' = [journal EXCEPT ![t][u] = [state |-> "RUNNING", by |-> c]]
    /\ calls' = [calls EXCEPT ![c].step = "callback", ![c].tool = u]
    /\ UNCHANGED <<rows, polls, mcp, ran, faults, changes>>

\* The caller has run or replayed the tools it wanted, or was refused one.
Leave(c) ==
    /\ calls[c].step = "answered"
    /\ calls' = [calls EXCEPT ![c] = NoCall]
    /\ UNCHANGED <<rows, journal, polls, mcp, ran, faults, changes>>

\* External: the callback performs its write...
Write(c) ==
    /\ calls[c].step = "callback"
    /\ ran' = [ran EXCEPT ![calls[c].task][calls[c].tool] = @ + 1]
    /\ calls' = [calls EXCEPT ![c].step = "written"]
    /\ UNCHANGED <<rows, journal, polls, mcp, faults, changes>>

\* ... and returns, or throws with or without having written.
Return(c) ==
    /\ \/ /\ calls[c].step = "written"
          /\ calls' = [calls EXCEPT ![c].step = "finish", ![c].ok = TRUE]
       \/ /\ calls[c].step \in {"callback", "written"}
          /\ calls' = [calls EXCEPT ![c].step = "finish", ![c].ok = FALSE]
    /\ UNCHANGED <<rows, journal, polls, mcp, ran, faults, changes>>

Recordable(c) ==
    LET t == calls[c].task  u == calls[c].tool IN
    /\ rows[t].status = "MCP_DONE"
    /\ journal[t][u] = [state |-> "RUNNING", by |-> c]

Record(c, state) ==
    journal' = IF Recordable(c)
               THEN [journal EXCEPT ![calls[c].task][calls[c].tool].state = state]
               ELSE journal

\* The callback returned: its result is recorded and goes back to the caller.  An
\* error, also one that hides a commit, leads into the catch branch.
Confirm(c) ==
    /\ calls[c].step = "finish" /\ calls[c].ok
    /\ \/ /\ Record(c, "DONE")
          /\ calls' = [calls EXCEPT ![c] = IF Recordable(c) THEN Answered(@.task)
                                          ELSE [@ EXCEPT !.ok = FALSE]]
          /\ UNCHANGED faults
       \/ /\ Record(c, "DONE") \/ UNCHANGED journal
          /\ calls' = [calls EXCEPT ![c].ok = FALSE]
          /\ Fault
    /\ UNCHANGED <<rows, polls, mcp, ran, changes>>

\* The catch branch: the entry becomes UNCERTAIN, unless that fails too.
Bug_DoubtCleared == "none"
Bug_DoubtUnknown == "FAILED"
Doubt == "UNCERTAIN"

GiveUp(c) ==
    /\ calls[c].step = "finish" /\ ~calls[c].ok
    /\ \/ Record(c, Doubt) /\ UNCHANGED faults
       \/ UNCHANGED journal /\ Fault
    /\ calls' = [calls EXCEPT ![c] = NoCall]
    /\ UNCHANGED <<rows, polls, mcp, ran, changes>>

\* The process dies.
Crash(c) ==
    /\ calls[c].step # "idle"
    /\ Fault
    /\ calls' = [calls EXCEPT ![c] = NoCall]
    /\ UNCHANGED <<rows, journal, polls, mcp, ran, changes>>

-----------------------------------------------------------------------------
(***************************************************************************)
(* claim and complete                                                      *)
(***************************************************************************)
Bug_Expirable == Having({"MCP_WAITING", "MCP_CLAIMED", "MCP_DONE"}) \ Fresh
Expirable == Having({"MCP_WAITING", "MCP_CLAIMED"}) \ Fresh

Releasable == {t \in Having({"MCP_CLAIMED"}) \cap Fresh : ~rows[t].leased}

\* The two sweeps at the start of claim, which never meet on a row.
Sweep(a) ==
    /\ polls[a].step = "idle"
    /\ rows' = [t \in Tasks |->
          IF t \in Expirable THEN [rows[t] EXCEPT !.status = "CANCELLED"]
          ELSE IF t \in Releasable THEN [rows[t] EXCEPT !.status = "MCP_WAITING"]
          ELSE rows[t]]
    /\ polls' = [polls EXCEPT ![a].step = "scan"]
    /\ UNCHANGED <<journal, calls, mcp, ran, faults, changes>>

\* The query for waiting rows.  (Its limit of 20 is above MaxTasks.)
Scan(a) ==
    /\ polls[a].step = "scan"
    /\ polls' = [polls EXCEPT ![a] = IF Having({"MCP_WAITING"}) = {} THEN NoPoll
                                    ELSE [@ EXCEPT !.step = "take",
                                                   !.todo = Having({"MCP_WAITING"})]]
    /\ UNCHANGED <<rows, journal, calls, mcp, ran, faults, changes>>

\* The loop over the snapshot goes on after row t, or ends without a lease.
Skip(a, t) ==
    LET rest == polls[a].todo \ {t} IN
    polls' = [polls EXCEPT ![a] = IF rest = {} THEN NoPoll ELSE [@ EXCEPT !.todo = rest]]

\* The oldest row of the snapshot, if it is still waiting, is leased under a new
\* token, or cancelled when the policy does not send its action here any more.
Take(a) ==
    /\ polls[a].step = "take"
    /\ \E t \in polls[a].todo :
         /\ \A s \in polls[a].todo : t <= s
         /\ \/ /\ rows[t].status = "MCP_WAITING" /\ mcp /\ rows[t].token < MaxLeases
               /\ rows' = [rows EXCEPT ![t].status = "MCP_CLAIMED", ![t].leased = TRUE,
                                       ![t].token = rows[t].token + 1]
               /\ polls' = [polls EXCEPT ![a] = [NoPoll EXCEPT !.step = "hold", !.task = t,
                                                  !.token = rows[t].token + 1]]
            \/ /\ rows[t].status = "MCP_WAITING" /\ ~mcp
               /\ rows' = [rows EXCEPT ![t].status = "CANCELLED"]
               /\ Skip(a, t)
            \/ /\ rows[t].status # "MCP_WAITING"
               /\ Skip(a, t) /\ UNCHANGED rows
    /\ UNCHANGED <<journal, calls, mcp, ran, faults, changes>>

Bug_Holds(a) == rows[polls[a].task].status = "MCP_CLAIMED"
Holds(a) ==
    /\ rows[polls[a].task].status = "MCP_CLAIMED"
    /\ rows[polls[a].task].token = polls[a].token

\* complete reads the row and refuses an answer under a lease that is gone.
Present(a) ==
    /\ polls[a].step = "hold"
    /\ polls' = [polls EXCEPT ![a] = IF Holds(a) /\ rows[polls[a].task].leased
                                    THEN [@ EXCEPT !.step = "apply"] ELSE NoPoll]
    /\ UNCHANGED <<rows, journal, calls, mcp, ran, faults, changes>>

\* The answer is stored if the lease is still the one that was read.  An answer
\* that is invalid, or that the policy does not want now, may be presented again.
Apply(a) ==
    /\ polls[a].step = "apply"
    /\ \/ /\ mcp
          /\ IF Holds(a)
             THEN \E uses \in SUBSET Tools :
                    rows' = [rows EXCEPT ![polls[a].task] =
                                [@ EXCEPT !.status = "MCP_DONE", !.uses = uses]]
             ELSE UNCHANGED rows
          /\ polls' = [polls EXCEPT ![a] = NoPoll]
       \/ polls' = [polls EXCEPT ![a].step = "hold"] /\ UNCHANGED rows
    /\ UNCHANGED <<journal, calls, mcp, ran, faults, changes>>

\* The connection is lost, a statement of its call fails, or the assistant drops
\* the task.
Drop(a) ==
    /\ polls[a].step # "idle"
    /\ Fault
    /\ polls' = [polls EXCEPT ![a] = NoPoll]
    /\ UNCHANGED <<rows, journal, calls, mcp, ran, changes>>

-----------------------------------------------------------------------------
LeaseEnds(t) ==
    /\ rows[t].status = "MCP_CLAIMED" /\ rows[t].leased
    /\ rows' = [rows EXCEPT ![t].leased = FALSE]
    /\ UNCHANGED <<journal, calls, polls, mcp, ran, faults, changes>>

Age(t) ==
    /\ rows[t].fresh
    /\ rows' = [rows EXCEPT ![t].fresh = FALSE]
    /\ UNCHANGED <<journal, calls, polls, mcp, ran, faults, changes>>

EditPolicy ==
    /\ changes < MaxChanges
    /\ changes' = changes + 1
    /\ mcp' = ~mcp
    /\ UNCHANGED <<rows, journal, calls, polls, ran, faults>>

Generate(c) == Wait(c) \/ \E r \in Requests : Admit(c, r)
RunToolOnce(c) ==
    \/ \E u \in Tools : StartTool(c, u)
    \/ Leave(c) \/ Write(c) \/ Return(c) \/ Confirm(c) \/ GiveUp(c)
Claim(a) == Sweep(a) \/ Scan(a) \/ Take(a)
Complete(a) == Present(a) \/ Apply(a)

Next ==
    \/ \E c \in Callers : Generate(c) \/ RunToolOnce(c) \/ Crash(c)
    \/ \E a \in Assistants : Claim(a) \/ Complete(a) \/ Drop(a)
    \/ \E t \in Tasks : LeaseEnds(t) \/ Age(t)
    \/ EditPolicy

Spec == Init /\ [][Next]_vars
-----------------------------------------------------------------------------
(***************************************************************************)
(* Properties                                                              *)
(***************************************************************************)

\* Every variable keeps its shape.
TypeOK ==
    /\ rows \in [Tasks -> Row]
    /\ journal \in [Tasks -> [Tools -> Entry]]
    /\ calls \in [Callers -> Call]
    /\ polls \in [Assistants -> Poll]
    /\ mcp \in BOOLEAN
    /\ ran \in [Tasks -> [Tools -> Nat]]
    /\ faults \in 0 .. MaxFaults /\ changes \in 0 .. MaxChanges

\* The tools of one answer are written at most once each, and the journal never
\* says less than what happened: a tool without entry was not run, one whose
\* entry is DONE was run exactly once.
JournalTellsTruth ==
    \A t \in Tasks, u \in Tools :
        /\ ran[t][u] <= 1
        /\ journal[t][u].state = "none" => ran[t][u] = 0
        /\ journal[t][u].state = "DONE" => ran[t][u] = 1

\* A write that may or may not have happened blocks its request: while it is
\* unresolved no younger task of the request is there, whatever expired,
\* whoever retried, and also when an old answer is only now acted upon.
UnresolvedIsNewest ==
    \A t, s \in Tasks :
        /\ Unresolved(t) /\ rows[s].request = rows[t].request
        => s <= t

\* The assistant never has two live tasks for one request, so that its callers
\* share one answer.
OneLiveTask ==
    \A t, s \in Having({"MCP_WAITING", "MCP_CLAIMED", "MCP_DONE"}) \cap Fresh :
        rows[t].request = rows[s].request => s = t

\* The answer that is stored was given under the lease in force, not by an
\* assistant whose lease another one took over.
AnswerFromHolder ==
    [][\A t \in Tasks :
          rows[t].status # "MCP_DONE" /\ rows'[t].status = "MCP_DONE" =>
              \E a \in Assistants : /\ polls[a].step = "apply" /\ polls[a].task = t
                                    /\ polls[a].token = rows[t].token
                                    /\ polls'[a] # polls[a]]_vars

\* An answer is never replaced or withdrawn: a retry after a timeout is given the
\* same completion, and the entries of its tools stay reachable.
AnswerIsFinal ==
    [][\A t \in Tasks : rows[t].status = "MCP_DONE" =>
          rows'[t].status = "MCP_DONE" /\ rows'[t].uses = rows[t].uses]_vars

\* The journal implements an at-most-once write for each tool of each task.
WriteState(state) ==
    CASE state = "none" -> "fresh"
      [] state = "RUNNING" -> "begun"
      [] state = "DONE" -> "done"
      [] OTHER -> "uncertain"
Promise == INSTANCE AtMostOnce WITH
    Writes <- Tasks \X Tools,
    record <- [w \in Tasks \X Tools |-> WriteState(journal[w[1]][w[2]].state)],
    performed <- [w \in Tasks \X Tools |-> ran[w[1]][w[2]]]

ImplementsAtMostOnce == Promise!Spec
=============================================================================
