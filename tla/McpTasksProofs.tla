--------------------------- MODULE McpTasksProofs ---------------------------
(***************************************************************************)
(* Theorems about McpTasks, for any number of callers, connections,        *)
(* requests, tools, tasks, leases and failures.                            *)
(***************************************************************************)
EXTENDS McpTasks, TLAPS

Live(t) == rows[t].status \in {"MCP_WAITING", "MCP_CLAIMED", "MCP_DONE"} /\ rows[t].fresh

\* Rows are created in the order of their ids.
Numbered ==
    /\ \A t \in Tasks : rows[t].status = "none" <=> rows[t].request = NoRequest
    /\ \A t, s \in Tasks : rows[t].status = "none" /\ t <= s => rows[s].status = "none"

\* Only an answered task has a journal.
JournalledAreDone ==
    \A t \in Tasks, u \in Tools :
        journal[t][u].state # "none" => rows[t].status = "MCP_DONE"

\* A task that may still be answered or acted upon is the newest of its request.
LiveIsNewest ==
    \A t, s \in Tasks : Live(t) /\ rows[s].request = rows[t].request => s <= t

\* Where a call stands tells what its tool has done and what its entry says.
CallMatches(call, c) ==
    /\ call.step # "idle" => call.task \in Tasks
    /\ call.step = "answered" => rows[call.task].status = "MCP_DONE"
    /\ call.step \in {"callback", "written", "finish"} => call.tool \in Tools
    /\ call.step = "callback" =>
         /\ journal[call.task][call.tool] = [state |-> "RUNNING", by |-> c]
         /\ ran[call.task][call.tool] = 0
    /\ call.step = "written" \/ (call.step = "finish" /\ call.ok) =>
         /\ journal[call.task][call.tool] = [state |-> "RUNNING", by |-> c]
         /\ ran[call.task][call.tool] = 1

CallsMatch == \A c \in Callers : CallMatches(calls[c], c)

IInv == /\ TypeOK /\ Numbered /\ JournalledAreDone /\ LiveIsNewest /\ CallsMatch
        /\ JournalTellsTruth /\ UnresolvedIsNewest

-----------------------------------------------------------------------------
\* The initial states.
LEMMA InitInv == Init => IInv
<1>. SUFFICES ASSUME Init PROVE IInv
  OBVIOUS
<1>1. NoRow \in Row
  BY McpAssumption DEF NoRow, Row, Status
<1>2. NoEntry \in Entry /\ NoEntry.state = "none"
  BY DEF NoEntry, Entry
<1>3. NoCall \in Call /\ NoCall.step = "idle"
  BY DEF NoCall, Call
<1>4. NoPoll \in Poll
  BY McpAssumption DEF NoPoll, Poll
<1>5. TypeOK
  BY <1>1, <1>2, <1>3, <1>4, McpAssumption DEF Init, TypeOK
<1>6. Numbered /\ LiveIsNewest
  BY DEF Init, Numbered, LiveIsNewest, Live, NoRow
<1>7. JournalledAreDone /\ JournalTellsTruth /\ UnresolvedIsNewest
  BY <1>2 DEF Init, JournalledAreDone, JournalTellsTruth, UnresolvedIsNewest, Unresolved
<1>8. CallsMatch
  BY <1>3 DEF Init, CallsMatch, CallMatches
<1>. QED  BY <1>5, <1>6, <1>7, <1>8 DEF IInv

-----------------------------------------------------------------------------
(***************************************************************************)
(* Rows: a step creates one, or keeps all of them in the following sense.  *)
(***************************************************************************)
RowKept(t) ==
    /\ rows'[t] \in Row
    /\ rows'[t].request = rows[t].request
    /\ rows'[t].status = "none" <=> rows[t].status = "none"
    /\ Live(t)' => Live(t)
    /\ rows[t].status = "MCP_DONE" =>
         rows'[t].status = "MCP_DONE" /\ rows'[t].uses = rows[t].uses

RowsKept == rows' \in [Tasks -> Row] /\ \A t \in Tasks : RowKept(t)

Created(t, r) ==
    /\ rows[t].status = "none" /\ \A s \in Tasks : rows[s].status = "none" => t <= s
    /\ Blocking(r) = {} /\ Reusable(r) = {}
    /\ rows' = [rows EXCEPT ![t] = [NoRow EXCEPT !.status = "MCP_WAITING",
                                                 !.request = r, !.fresh = TRUE]]
    /\ UNCHANGED <<journal, ran>>

\* An unchanged table is kept.
LEMMA SameRows == TypeOK /\ rows' = rows => RowsKept
BY DEF TypeOK, RowsKept, RowKept, Live

\* A table of which one row changed is kept when that row is.
LEMMA OneRow ==
    ASSUME TypeOK, NEW t \in Tasks, NEW row \in Row, rows' = [rows EXCEPT ![t] = row],
           row.request = rows[t].request, row.status = "none" <=> rows[t].status = "none",
           row.status \in {"MCP_WAITING", "MCP_CLAIMED", "MCP_DONE"} /\ row.fresh => Live(t),
           rows[t].status = "MCP_DONE" => row.status = "MCP_DONE" /\ row.uses = rows[t].uses
    PROVE  RowsKept
<1>1. rows \in [Tasks -> Row]
  BY DEF TypeOK
<1>2. rows' \in [Tasks -> Row] /\ rows'[t] = row
      /\ \A s \in Tasks : s # t => rows'[s] = rows[s]
  BY <1>1
<1>3. RowKept(t)
  BY <1>2 DEF RowKept, Live
<1>4. ASSUME NEW s \in Tasks, s # t PROVE RowKept(s)
  BY <1>1, <1>2, <1>4 DEF RowKept, Live
<1>. QED  BY <1>2, <1>3, <1>4 DEF RowsKept

\* The steps of a call of the backend leave the rows alone, or create one.
LEMMA CallRows ==
    ASSUME TypeOK, NEW c \in Callers, Generate(c) \/ RunToolOnce(c) \/ Crash(c)
    PROVE  RowsKept \/ \E t \in Tasks, r \in Requests : Created(t, r)
<1>1. CASE \E r \in Requests : Admit(c, r)
  <2>1. PICK r \in Requests : Admit(c, r)
    BY <1>1
  <2>2. CASE rows' = rows
    BY <2>2, SameRows
  <2>3. CASE /\ Reusable(r) = {}
             /\ \E t \in Free :
                  /\ \A s \in Free : t <= s
                  /\ rows' = [rows EXCEPT ![t] = [NoRow EXCEPT !.status = "MCP_WAITING",
                                                   !.request = r, !.fresh = TRUE]]
    BY <2>1, <2>3 DEF Admit, Created, Free, Having
  <2>. QED  BY <2>1, <2>2, <2>3 DEF Admit
<1>2. CASE Wait(c)
  BY <1>2, SameRows DEF Wait
<1>3. CASE RunToolOnce(c) \/ Crash(c)
  BY <1>3, SameRows DEF RunToolOnce, StartTool, Leave, Write, Return, Confirm, GiveUp, Crash
<1>. QED  BY <1>1, <1>2, <1>3 DEF Generate

\* The sweeps of claim keep every row.
LEMMA SweepRows == ASSUME TypeOK, NEW a \in Assistants, Sweep(a) PROVE RowsKept
<1>1. rows \in [Tasks -> Row]
  BY DEF TypeOK
<1>2. ASSUME NEW t \in Tasks PROVE RowKept(t)
  <2>1. rows[t] \in Row
    BY <1>1
  <2>2. rows'[t] = IF t \in Expirable THEN [rows[t] EXCEPT !.status = "CANCELLED"]
                   ELSE IF t \in Releasable THEN [rows[t] EXCEPT !.status = "MCP_WAITING"]
                   ELSE rows[t]
    BY DEF Sweep
  <2>3. CASE t \in Expirable
    <3>1. rows[t].status \in {"MCP_WAITING", "MCP_CLAIMED"}
      BY <2>3 DEF Expirable, Having
    <3>2. rows'[t] = [rows[t] EXCEPT !.status = "CANCELLED"]
      BY <2>2, <2>3
    <3>. QED  BY <2>1, <3>1, <3>2 DEF RowKept, Live, Row, Status
  <2>4. CASE t \notin Expirable /\ t \in Releasable
    <3>1. rows[t].status = "MCP_CLAIMED" /\ rows[t].fresh
      BY <2>4 DEF Releasable, Having, Fresh
    <3>2. rows'[t] = [rows[t] EXCEPT !.status = "MCP_WAITING"]
      BY <2>2, <2>4
    <3>. QED  BY <2>1, <3>1, <3>2 DEF RowKept, Live, Row, Status
  <2>5. CASE t \notin Expirable /\ t \notin Releasable
    BY <2>1, <2>2, <2>5 DEF RowKept, Live
  <2>. QED  BY <2>3, <2>4, <2>5
<1>3. rows' = [t \in Tasks |-> rows'[t]]
  BY DEF Sweep
<1>. QED  BY <1>2, <1>3 DEF RowsKept, RowKept

\* The other steps of an assistant keep every row.
LEMMA PollRows ==
    ASSUME TypeOK, NEW a \in Assistants, Claim(a) \/ Complete(a) \/ Drop(a)
    PROVE  RowsKept
<1>0. rows \in [Tasks -> Row] /\ polls[a] \in Poll
  BY DEF TypeOK
<1>1. CASE Sweep(a)
  BY <1>1, SweepRows
<1>2. CASE Scan(a) \/ Present(a) \/ Drop(a)
  BY <1>2, SameRows DEF Scan, Present, Drop
<1>3. CASE Take(a)
  <2>1. PICK t \in polls[a].todo :
              \/ /\ rows[t].status = "MCP_WAITING" /\ mcp /\ rows[t].token < MaxLeases
                 /\ rows' = [rows EXCEPT ![t].status = "MCP_CLAIMED", ![t].leased = TRUE,
                                         ![t].token = rows[t].token + 1]
              \/ /\ rows[t].status = "MCP_WAITING"
                 /\ rows' = [rows EXCEPT ![t].status = "CANCELLED"]
              \/ rows' = rows
    BY <1>3 DEF Take
  <2>2. t \in Tasks /\ rows[t] \in Row
    BY <1>0 DEF Poll
  <2>3. CASE /\ rows[t].status = "MCP_WAITING" /\ mcp /\ rows[t].token < MaxLeases
             /\ rows' = [rows EXCEPT ![t].status = "MCP_CLAIMED", ![t].leased = TRUE,
                                     ![t].token = rows[t].token + 1]
    <3>. DEFINE row == [rows[t] EXCEPT !.status = "MCP_CLAIMED", !.leased = TRUE,
                                       !.token = rows[t].token + 1]
    <3>1. rows' = [rows EXCEPT ![t] = row]
      BY <1>0, <2>2, <2>3
    <3>3. rows[t].token + 1 \in 0 .. MaxLeases
      BY <2>2, <2>3, McpAssumption DEF Row
    <3>2. row \in Row /\ row.request = rows[t].request /\ row.status = "MCP_CLAIMED"
          /\ row.fresh = rows[t].fresh
      BY <2>2, <3>3 DEF Row, Status
    <3>. HIDE DEF row
    <3>. QED  BY <2>2, <2>3, <3>1, <3>2, OneRow DEF Live
  <2>4. CASE /\ rows[t].status = "MCP_WAITING"
             /\ rows' = [rows EXCEPT ![t].status = "CANCELLED"]
    <3>. DEFINE row == [rows[t] EXCEPT !.status = "CANCELLED"]
    <3>1. rows' = [rows EXCEPT ![t] = row]
      BY <1>0, <2>2, <2>4
    <3>2. row \in Row /\ row.request = rows[t].request /\ row.status = "CANCELLED"
      BY <2>2 DEF Row, Status
    <3>. HIDE DEF row
    <3>. QED  BY <2>2, <2>4, <3>1, <3>2, OneRow
  <2>. QED  BY <2>1, <2>3, <2>4, SameRows
<1>4. CASE Apply(a)
  <2>1. CASE rows' = rows
    BY <2>1, SameRows
  <2>2. CASE Holds(a) /\ \E uses \in SUBSET Tools :
               rows' = [rows EXCEPT ![polls[a].task] =
                           [@ EXCEPT !.status = "MCP_DONE", !.uses = uses]]
    <3>1. PICK uses \in SUBSET Tools :
             rows' = [rows EXCEPT ![polls[a].task] =
                         [rows[polls[a].task] EXCEPT !.status = "MCP_DONE", !.uses = uses]]
      BY <2>2
    <3>. DEFINE t == polls[a].task
                row == [rows[t] EXCEPT !.status = "MCP_DONE", !.uses = uses]
    <3>2. rows[t].status = "MCP_CLAIMED"
      BY <2>2 DEF Holds
    <3>3. CASE t \in Tasks
      <4>1. row \in Row /\ row.request = rows[t].request /\ row.status = "MCP_DONE"
            /\ row.fresh = rows[t].fresh
        BY <1>0, <3>3 DEF Row, Status
      <4>2. rows' = [rows EXCEPT ![t] = row]
        BY <3>1
      <4>. HIDE DEF row
      <4>. QED  BY <3>2, <3>3, <4>1, <4>2, OneRow DEF Live
    <3>4. CASE t \notin Tasks
      BY <1>0, <3>1, <3>4, SameRows
    <3>. QED  BY <3>3, <3>4
  <2>. QED  BY <1>4, <2>1, <2>2 DEF Apply
<1>. QED  BY <1>1, <1>2, <1>3, <1>4 DEF Claim, Complete

\* Time and the policy keep every row.
LEMMA TimeRows ==
    ASSUME TypeOK, EditPolicy \/ \E t \in Tasks : LeaseEnds(t) \/ Age(t)
    PROVE  RowsKept
<1>0. rows \in [Tasks -> Row]
  BY DEF TypeOK
<1>1. CASE EditPolicy
  BY <1>1, SameRows DEF EditPolicy
<1>2. ASSUME NEW t \in Tasks, LeaseEnds(t) PROVE RowsKept
  <2>. DEFINE row == [rows[t] EXCEPT !.leased = FALSE]
  <2>1. rows' = [rows EXCEPT ![t] = row]
    BY <1>0, <1>2 DEF LeaseEnds
  <2>2. row \in Row /\ row.request = rows[t].request /\ row.status = rows[t].status
        /\ row.fresh = rows[t].fresh /\ row.uses = rows[t].uses
    BY <1>0 DEF Row
  <2>. HIDE DEF row
  <2>. QED  BY <2>1, <2>2, OneRow DEF Live
<1>3. ASSUME NEW t \in Tasks, Age(t) PROVE RowsKept
  <2>. DEFINE row == [rows[t] EXCEPT !.fresh = FALSE]
  <2>1. rows' = [rows EXCEPT ![t] = row]
    BY <1>0, <1>3 DEF Age
  <2>2. row \in Row /\ row.request = rows[t].request /\ row.status = rows[t].status
        /\ ~row.fresh /\ row.uses = rows[t].uses
    BY <1>0 DEF Row
  <2>. HIDE DEF row
  <2>. QED  BY <2>1, <2>2, OneRow DEF Live
<1>. QED  BY <1>1, <1>2, <1>3

\* Every step creates a row or keeps them.
LEMMA RowsStep ==
    TypeOK /\ [Next]_vars => RowsKept \/ \E t \in Tasks, r \in Requests : Created(t, r)
BY CallRows, PollRows, TimeRows, SameRows DEF Next, vars

-----------------------------------------------------------------------------
(***************************************************************************)
(* The type invariant, one kind of step at a time.                         *)
(***************************************************************************)

\* The values calls and polls are set to have the right type.
LEMMA NullTypes ==
    /\ NoCall \in Call /\ NoCall.step = "idle" /\ NoPoll \in Poll
    /\ \A t \in Tasks : Answered(t) \in Call
    /\ \A t \in Tasks : Waiting(t) \in Call
BY McpAssumption DEF NoCall, Call, NoPoll, Poll, Answered, Waiting

\* A new row has the type of a row.
LEMMA NewRowType ==
    ASSUME NEW r \in Requests
    PROVE  [NoRow EXCEPT !.status = "MCP_WAITING", !.request = r, !.fresh = TRUE] \in Row
<1>1. NoRow \in Row
  BY McpAssumption DEF NoRow, Row, Status
<1>. QED  BY <1>1 DEF Row, Status

\* Rows keep their type.
LEMMA RowsType == TypeOK /\ [Next]_vars => rows' \in [Tasks -> Row]
<1>. SUFFICES ASSUME TypeOK, [Next]_vars PROVE rows' \in [Tasks -> Row]
  OBVIOUS
<1>1. CASE RowsKept
  BY <1>1 DEF RowsKept
<1>2. ASSUME NEW t \in Tasks, NEW r \in Requests, Created(t, r)
      PROVE  rows' \in [Tasks -> Row]
  BY <1>2, NewRowType DEF Created, TypeOK
<1>. QED  BY <1>1, <1>2, RowsStep

\* A call of generate or runToolOnce keeps the other variables' types.
LEMMA CallTypes ==
    ASSUME TypeOK, CallsMatch, NEW c \in Callers, Generate(c) \/ RunToolOnce(c) \/ Crash(c)
    PROVE  /\ journal' \in [Tasks -> [Tools -> Entry]] /\ ran' \in [Tasks -> [Tools -> Nat]]
           /\ calls' \in [Callers -> Call] /\ UNCHANGED <<polls, mcp, changes>>
           /\ faults' \in 0 .. MaxFaults
<1>0. /\ journal \in [Tasks -> [Tools -> Entry]] /\ ran \in [Tasks -> [Tools -> Nat]]
      /\ calls \in [Callers -> Call] /\ faults \in 0 .. MaxFaults /\ calls[c] \in Call
      /\ CallMatches(calls[c], c)
  BY DEF TypeOK, CallsMatch
<1>a. Fault => faults' \in 0 .. MaxFaults
  BY <1>0, McpAssumption DEF Fault
<1>1. CASE \E r \in Requests : Admit(c, r)
  <2>1. PICK r \in Requests, t \in Tasks : Admit(c, r) /\ Asks(c, t)
    BY <1>1 DEF Admit, Reusable, Free, Having
  <2>. QED  BY <1>0, <2>1, NullTypes DEF Admit, Asks
<1>2. CASE Wait(c) \/ Leave(c)
  <2>1. calls[c].task \in Tasks
    BY <1>0, <1>2 DEF Wait, Leave, CallMatches
  <2>2. calls' \in [Callers -> Call]
    BY <1>0, <1>2, <2>1, NullTypes DEF Wait, Leave
  <2>. QED  BY <1>0, <1>2, <2>2 DEF Wait, Leave
<1>3. CASE \E u \in Tools : StartTool(c, u)
  <2>1. PICK u \in Tools : StartTool(c, u)
    BY <1>3
  <2>2. [state |-> "RUNNING", by |-> c] \in Entry
    BY DEF Entry
  <2>3. [calls[c] EXCEPT !.step = "callback", !.tool = u] \in Call
    BY <1>0 DEF Call
  <2>4. calls' = [calls EXCEPT ![c] = [calls[c] EXCEPT !.step = "callback", !.tool = u]]
    BY <1>0, <2>1 DEF StartTool
  <2>5. journal' \in [Tasks -> [Tools -> Entry]]
    BY <1>0, <2>1, <2>2 DEF StartTool, CallMatches
  <2>. QED  BY <1>0, <2>1, <2>3, <2>4, <2>5 DEF StartTool
<1>4. CASE Write(c)
  <2>1. calls[c].task \in Tasks /\ calls[c].tool \in Tools
    BY <1>0, <1>4 DEF Write, CallMatches
  <2>2. [calls[c] EXCEPT !.step = "written"] \in Call
    BY <1>0 DEF Call
  <2>3. ran' \in [Tasks -> [Tools -> Nat]]
    BY <1>0, <1>4, <2>1 DEF Write
  <2>. QED  BY <1>0, <1>4, <2>2, <2>3 DEF Write
<1>5. CASE Return(c)
  <2>1. \A b \in BOOLEAN : [calls[c] EXCEPT !.step = "finish", !.ok = b] \in Call
    BY <1>0 DEF Call
  <2>2. \E b \in BOOLEAN :
           calls' = [calls EXCEPT ![c] = [calls[c] EXCEPT !.step = "finish", !.ok = b]]
    BY <1>0, <1>5 DEF Return
  <2>. QED  BY <1>0, <1>5, <2>1, <2>2 DEF Return
<1>6. \A s \in {"DONE", Doubt} : Record(c, s) => journal' \in [Tasks -> [Tools -> Entry]]
  <2>1. ASSUME NEW s \in {"DONE", Doubt}, Record(c, s), Recordable(c)
        PROVE  journal' \in [Tasks -> [Tools -> Entry]]
    <3>1. PICK t, u : t = calls[c].task /\ u = calls[c].tool
      OBVIOUS
    <3>2. journal' = [journal EXCEPT ![t][u].state = s] /\ s \in {"DONE", "UNCERTAIN"}
      BY <2>1, <3>1 DEF Record, Doubt
    <3>3. ASSUME t \in Tasks, u \in Tools PROVE [journal[t][u] EXCEPT !.state = s] \in Entry
      <4>1. journal[t][u] \in Entry
        BY <1>0, <3>3
      <4>. QED  BY <3>2, <4>1 DEF Entry
    <3>. QED  BY <1>0, <3>2, <3>3
  <2>. QED  BY <1>0, <2>1 DEF Record
<1>7. CASE Confirm(c)
  <2>1. calls[c].task \in Tasks
    BY <1>0, <1>7 DEF Confirm, CallMatches
  <2>2. [calls[c] EXCEPT !.ok = FALSE] \in Call
    BY <1>0 DEF Call
  <2>4. \/ calls' = [calls EXCEPT ![c] = Answered(calls[c].task)]
        \/ calls' = [calls EXCEPT ![c] = [calls[c] EXCEPT !.ok = FALSE]]
    BY <1>0, <1>7 DEF Confirm
  <2>3. calls' \in [Callers -> Call]
    BY <1>0, <2>1, <2>2, <2>4, NullTypes
  <2>. QED  BY <1>0, <1>a, <1>6, <1>7, <2>3 DEF Confirm
<1>8. CASE GiveUp(c)
  BY <1>0, <1>a, <1>6, <1>8, NullTypes DEF GiveUp
<1>9. CASE Crash(c)
  BY <1>0, <1>a, <1>9, NullTypes DEF Crash
<1>. QED  BY <1>1, <1>2, <1>3, <1>4, <1>5, <1>7, <1>8, <1>9 DEF Generate, RunToolOnce

\* An assistant's connection stays well formed.
LEMMA PollTypes ==
    ASSUME TypeOK, NEW a \in Assistants, Claim(a) \/ Complete(a) \/ Drop(a)
    PROVE  /\ polls' \in [Assistants -> Poll] /\ faults' \in 0 .. MaxFaults
           /\ UNCHANGED <<journal, calls, mcp, ran, changes>>
<1>0. /\ polls \in [Assistants -> Poll] /\ faults \in 0 .. MaxFaults /\ polls[a] \in Poll
      /\ rows \in [Tasks -> Row] /\ NoPoll \in Poll
  BY NullTypes DEF TypeOK
<1>1. ASSUME NEW s \in {"scan", "hold", "apply"} PROVE [polls[a] EXCEPT !.step = s] \in Poll
  BY <1>0, <1>1 DEF Poll
<1>2. ASSUME NEW S \in SUBSET Tasks
      PROVE  /\ [polls[a] EXCEPT !.step = "take", !.todo = S] \in Poll
             /\ [polls[a] EXCEPT !.todo = S] \in Poll
  BY <1>0, <1>2 DEF Poll
<1>3. CASE Sweep(a)
  BY <1>0, <1>1, <1>3 DEF Sweep
<1>4. CASE Scan(a)
  BY <1>0, <1>2, <1>4 DEF Scan, Having
<1>5. CASE Take(a)
  <2>1. PICK t \in polls[a].todo :
          \/ /\ rows[t].token < MaxLeases
             /\ polls' = [polls EXCEPT ![a] = [NoPoll EXCEPT !.step = "hold", !.task = t,
                                                !.token = rows[t].token + 1]]
          \/ Skip(a, t)
    BY <1>5 DEF Take
  <2>2. t \in Tasks /\ polls[a].todo \ {t} \in SUBSET Tasks /\ rows[t] \in Row
    BY <1>0 DEF Poll
  <2>3. CASE Skip(a, t)
    BY <1>0, <1>2, <1>5, <2>2, <2>3 DEF Skip, Take
  <2>4. CASE /\ rows[t].token < MaxLeases
             /\ polls' = [polls EXCEPT ![a] = [NoPoll EXCEPT !.step = "hold", !.task = t,
                                                !.token = rows[t].token + 1]]
    <3>1. rows[t].token + 1 \in 0 .. MaxLeases
      BY <2>2, <2>4, McpAssumption DEF Row
    <3>2. [NoPoll EXCEPT !.step = "hold", !.task = t, !.token = rows[t].token + 1] \in Poll
      BY <1>0, <2>2, <3>1 DEF Poll
    <3>. QED  BY <1>0, <1>5, <2>4, <3>2 DEF Take
  <2>. QED  BY <2>1, <2>3, <2>4
<1>6. CASE Present(a) \/ Apply(a)
  BY <1>0, <1>1, <1>6 DEF Present, Apply
<1>7. CASE Drop(a)
  BY <1>0, <1>7, McpAssumption DEF Drop, Fault
<1>. QED  BY <1>3, <1>4, <1>5, <1>6, <1>7 DEF Claim, Complete

\* Every variable keeps its shape.
LEMMA NextType == TypeOK /\ CallsMatch /\ [Next]_vars => TypeOK'
<1>. SUFFICES ASSUME TypeOK, CallsMatch, [Next]_vars PROVE TypeOK'
  OBVIOUS
<1>0. rows' \in [Tasks -> Row]
  BY RowsType
<1>1. ASSUME NEW c \in Callers, Generate(c) \/ RunToolOnce(c) \/ Crash(c) PROVE TypeOK'
  BY <1>0, <1>1, CallTypes DEF TypeOK
<1>2. ASSUME NEW a \in Assistants, Claim(a) \/ Complete(a) \/ Drop(a) PROVE TypeOK'
  BY <1>0, <1>2, PollTypes DEF TypeOK
<1>3. CASE EditPolicy
  BY <1>0, <1>3, McpAssumption DEF EditPolicy, TypeOK
<1>4. ASSUME NEW t \in Tasks, LeaseEnds(t) \/ Age(t) PROVE TypeOK'
  BY <1>0, <1>4 DEF LeaseEnds, Age, TypeOK
<1>5. CASE UNCHANGED vars
  BY <1>5 DEF vars, TypeOK
<1>. QED  BY <1>1, <1>2, <1>3, <1>4, <1>5 DEF Next

-----------------------------------------------------------------------------
(***************************************************************************)
(* The journal: what a step may do to its entries.                         *)
(***************************************************************************)
Begun(c, t, u) ==
    /\ calls[c].step = "answered" /\ t = calls[c].task /\ Live(t)
    /\ rows[t].status = "MCP_DONE" /\ journal[t][u].state = "none"
    /\ journal' = [journal EXCEPT ![t][u] = [state |-> "RUNNING", by |-> c]]
    /\ calls' = [calls EXCEPT ![c].step = "callback", ![c].tool = u]
    /\ UNCHANGED <<rows, ran>>

Written(c, t, u) ==
    /\ calls[c].step = "callback" /\ t = calls[c].task /\ u = calls[c].tool
    /\ ran' = [ran EXCEPT ![t][u] = @ + 1]
    /\ calls' = [calls EXCEPT ![c].step = "written"]
    /\ UNCHANGED <<rows, journal>>

Resolved(c, t, u, state) ==
    /\ calls[c].step = "finish" /\ t = calls[c].task /\ u = calls[c].tool
    /\ journal[t][u] = [state |-> "RUNNING", by |-> c]
    /\ state = "DONE" => calls[c].ok
    /\ journal' = [journal EXCEPT ![t][u].state = state]
    /\ UNCHANGED <<rows, ran>>

Quiet == UNCHANGED <<journal, ran>>

\* Every step of a call is of one of these kinds.
LEMMA CallJournal ==
    ASSUME TypeOK, CallsMatch, NEW c \in Callers, Generate(c) \/ RunToolOnce(c) \/ Crash(c)
    PROVE  \/ Quiet
           \/ \E t \in Tasks, u \in Tools : Begun(c, t, u) \/ Written(c, t, u)
           \/ \E t \in Tasks, u \in Tools, state \in {"DONE", "UNCERTAIN"} :
                 Resolved(c, t, u, state)
<1>0. CallMatches(calls[c], c)
  BY DEF CallsMatch
<1>1. CASE Generate(c) \/ Leave(c) \/ Return(c) \/ Crash(c)
  BY <1>1 DEF Generate, Admit, Wait, Leave, Return, Crash, Quiet
<1>2. CASE \E u \in Tools : StartTool(c, u)
  <2>1. calls[c].task \in Tasks
    BY <1>0, <1>2 DEF StartTool, CallMatches
  <2>. QED  BY <1>2, <2>1 DEF StartTool, Begun, Current, Live, Startable
<1>3. CASE Write(c)
  BY <1>0, <1>3 DEF Write, Written, CallMatches
<1>4. ASSUME NEW state \in {"DONE", "UNCERTAIN"}, Record(c, state), calls[c].step = "finish",
             state = "DONE" => calls[c].ok, UNCHANGED <<rows, ran>>
      PROVE  Quiet \/ \E t \in Tasks, u \in Tools : Resolved(c, t, u, state)
  <2>1. CASE Recordable(c)
    BY <1>0, <1>4, <2>1 DEF Record, Recordable, Resolved, CallMatches
  <2>2. CASE ~Recordable(c)
    BY <1>4, <2>2 DEF Record, Quiet
  <2>. QED  BY <2>1, <2>2
<1>5. CASE Confirm(c)
  <2>1. CASE journal' = journal
    BY <1>5, <2>1 DEF Confirm, Quiet
  <2>2. CASE Record(c, "DONE")
    BY <1>4, <1>5, <2>2 DEF Confirm
  <2>. QED  BY <1>5, <2>1, <2>2 DEF Confirm
<1>6. CASE GiveUp(c)
  <2>1. CASE journal' = journal
    BY <1>6, <2>1 DEF GiveUp, Quiet
  <2>2. CASE Record(c, "UNCERTAIN")
    BY <1>4, <1>6, <2>2 DEF GiveUp
  <2>. QED  BY <1>6, <2>1, <2>2 DEF GiveUp, Doubt
<1>. QED  BY <1>1, <1>2, <1>3, <1>5, <1>6 DEF RunToolOnce

\* Every step is.
LEMMA JournalStep ==
    TypeOK /\ CallsMatch /\ [Next]_vars =>
        \/ Quiet
        \/ \E c \in Callers, t \in Tasks, u \in Tools : Begun(c, t, u) \/ Written(c, t, u)
        \/ \E c \in Callers, t \in Tasks, u \in Tools, state \in {"DONE", "UNCERTAIN"} :
              Resolved(c, t, u, state)
<1>. SUFFICES ASSUME TypeOK, CallsMatch, [Next]_vars
              PROVE  \/ Quiet
                     \/ \E c \in Callers, t \in Tasks, u \in Tools :
                           Begun(c, t, u) \/ Written(c, t, u)
                     \/ \E c \in Callers, t \in Tasks, u \in Tools,
                          state \in {"DONE", "UNCERTAIN"} : Resolved(c, t, u, state)
  OBVIOUS
<1>1. ASSUME NEW a \in Assistants, Claim(a) \/ Complete(a) \/ Drop(a) PROVE Quiet
  BY <1>1, PollTypes DEF Quiet
<1>2. ASSUME NEW t \in Tasks, EditPolicy \/ LeaseEnds(t) \/ Age(t) PROVE Quiet
  BY <1>2 DEF EditPolicy, LeaseEnds, Age, Quiet
<1>3. CASE EditPolicy
  BY <1>3 DEF EditPolicy, Quiet
<1>4. CASE UNCHANGED vars
  BY <1>4 DEF vars, Quiet
<1>5. ASSUME NEW c \in Callers, Generate(c) \/ RunToolOnce(c) \/ Crash(c)
      PROVE  \/ Quiet
             \/ \E t \in Tasks, u \in Tools : Begun(c, t, u) \/ Written(c, t, u)
             \/ \E t \in Tasks, u \in Tools, state \in {"DONE", "UNCERTAIN"} :
                   Resolved(c, t, u, state)
  BY <1>5, CallJournal
<1>. QED  BY <1>1, <1>2, <1>3, <1>4, <1>5 DEF Next

\* What a step may do to one entry.
EntryKept(t, u) == journal'[t][u] = journal[t][u] /\ ran'[t][u] = ran[t][u]

EntryBegins(t, u) ==
    /\ journal[t][u].state = "none" /\ journal'[t][u].state = "RUNNING"
    /\ ran'[t][u] = ran[t][u]
    /\ Live(t) /\ rows[t].status = "MCP_DONE" /\ rows' = rows

EntryWritten(t, u) ==
    /\ journal[t][u].state = "RUNNING" /\ journal'[t][u] = journal[t][u]
    /\ ran[t][u] = 0 /\ ran'[t][u] = 1

EntryResolves(t, u) ==
    /\ journal[t][u].state = "RUNNING"
    /\ \/ journal'[t][u].state = "DONE" /\ ran[t][u] = 1
       \/ journal'[t][u].state = "UNCERTAIN"
    /\ ran'[t][u] = ran[t][u]

EntryChange(t, u) ==
    EntryKept(t, u) \/ EntryBegins(t, u) \/ EntryWritten(t, u) \/ EntryResolves(t, u)

LEMMA EntryStep ==
    ASSUME TypeOK, CallsMatch, [Next]_vars, NEW t \in Tasks, NEW u \in Tools
    PROVE  EntryChange(t, u)
<1>0. /\ journal \in [Tasks -> [Tools -> Entry]] /\ ran \in [Tasks -> [Tools -> Nat]]
      /\ journal[t][u] \in Entry
  BY DEF TypeOK
<1>1. CASE Quiet
  BY <1>1 DEF Quiet, EntryChange, EntryKept
<1>2. ASSUME NEW c \in Callers, NEW x \in Tasks, NEW v \in Tools, Begun(c, x, v)
      PROVE  EntryChange(t, u)
  <2>1. CASE t = x /\ u = v
    <3>1. journal'[t][u] = [state |-> "RUNNING", by |-> c] /\ ran'[t][u] = ran[t][u]
      BY <1>0, <1>2, <2>1 DEF Begun
    <3>. QED  BY <1>2, <2>1, <3>1 DEF Begun, EntryChange, EntryBegins
  <2>2. CASE ~(t = x /\ u = v)
    BY <1>0, <1>2, <2>2 DEF Begun, EntryChange, EntryKept
  <2>. QED  BY <2>1, <2>2
<1>3. ASSUME NEW c \in Callers, NEW x \in Tasks, NEW v \in Tools, Written(c, x, v)
      PROVE  EntryChange(t, u)
  <2>0. journal[x][v] = [state |-> "RUNNING", by |-> c] /\ ran[x][v] = 0
    BY <1>3 DEF Written, CallsMatch, CallMatches
  <2>1. CASE t = x /\ u = v
    <3>1. ran'[t][u] = 1 /\ journal'[t][u] = journal[t][u]
      BY <1>0, <1>3, <2>0, <2>1 DEF Written
    <3>. QED  BY <2>0, <2>1, <3>1 DEF EntryChange, EntryWritten
  <2>2. CASE ~(t = x /\ u = v)
    BY <1>0, <1>3, <2>2 DEF Written, EntryChange, EntryKept
  <2>. QED  BY <2>1, <2>2
<1>4. ASSUME NEW c \in Callers, NEW x \in Tasks, NEW v \in Tools,
             NEW state \in {"DONE", "UNCERTAIN"}, Resolved(c, x, v, state)
      PROVE  EntryChange(t, u)
  <2>0. state = "DONE" => ran[x][v] = 1
    BY <1>4 DEF Resolved, CallsMatch, CallMatches
  <2>1. CASE t = x /\ u = v
    <3>1. journal'[t][u] = [journal[t][u] EXCEPT !.state = state] /\ ran'[t][u] = ran[t][u]
      BY <1>0, <1>4, <2>1 DEF Resolved
    <3>2. journal'[t][u].state = state /\ journal[t][u].state = "RUNNING"
      BY <1>0, <1>4, <2>1, <3>1 DEF Resolved, Entry
    <3>. QED  BY <2>0, <2>1, <3>1, <3>2 DEF EntryChange, EntryResolves
  <2>2. CASE ~(t = x /\ u = v)
    BY <1>0, <1>4, <2>2 DEF Resolved, EntryChange, EntryKept
  <2>. QED  BY <2>1, <2>2
<1>. QED  BY <1>1, <1>2, <1>3, <1>4, JournalStep

-----------------------------------------------------------------------------
(***************************************************************************)
(* The parts of the invariant.                                             *)
(***************************************************************************)

\* Ids stay in the order of creation, and only the newest task of a request lives.
LEMMA RowsInv ==
    ASSUME IInv, [Next]_vars
    PROVE  /\ Numbered' /\ LiveIsNewest'
           /\ \A t \in Tasks : rows[t].status = "MCP_DONE" => rows'[t].status = "MCP_DONE"
<1>0. rows \in [Tasks -> Row] /\ Numbered /\ LiveIsNewest
  BY DEF IInv, TypeOK
<1>1. CASE RowsKept
  <2>1. \A t \in Tasks : RowKept(t)
    BY <1>1 DEF RowsKept
  <2>2. Numbered'
    BY <1>0, <2>1 DEF Numbered, RowKept
  <2>3. LiveIsNewest'
    BY <1>0, <2>1 DEF LiveIsNewest, RowKept
  <2>. QED  BY <2>1, <2>2, <2>3 DEF RowKept
<1>2. ASSUME NEW n \in Tasks, NEW r \in Requests, Created(n, r)
      PROVE  /\ Numbered' /\ LiveIsNewest'
             /\ \A t \in Tasks : rows[t].status = "MCP_DONE" => rows'[t].status = "MCP_DONE"
  <2>. DEFINE new == [NoRow EXCEPT !.status = "MCP_WAITING", !.request = r, !.fresh = TRUE]
  <2>1. new.status = "MCP_WAITING" /\ new.request = r /\ r # NoRequest
    BY McpAssumption DEF NoRow
  <2>2. rows'[n] = new /\ \A t \in Tasks : t # n => rows'[t] = rows[t]
    BY <1>0, <1>2 DEF Created
  <2>. HIDE DEF new
  <2>3. rows[n].status = "none" /\ \A s \in Tasks : rows[s].status = "none" => n <= s
    BY <1>2 DEF Created
  <2>4. Numbered'
    <3>1. \A t \in Tasks : rows'[t].status = "none" <=> rows'[t].request = NoRequest
      BY <1>0, <2>1, <2>2 DEF Numbered
    <3>2. ASSUME NEW t \in Tasks, NEW s \in Tasks, rows'[t].status = "none", t <= s
          PROVE  rows'[s].status = "none"
      <4>1. t # n /\ rows[t].status = "none" /\ n <= t
        BY <2>1, <2>2, <2>3, <3>2
      <4>2. s # n
        BY <3>2, <4>1 DEF Tasks
      <4>. QED  BY <1>0, <2>2, <3>2, <4>1, <4>2 DEF Numbered
    <3>. QED  BY <3>1, <3>2 DEF Numbered
  <2>5. ASSUME NEW t \in Tasks, NEW s \in Tasks, Live(t)', rows'[s].request = rows'[t].request
        PROVE  s <= t
    <3>1. CASE t = n /\ s # n
      <4>1. rows[s].request = r
        BY <2>1, <2>2, <2>5, <3>1
      <4>2. rows[s].status # "none"
        BY <1>0, <2>1, <4>1 DEF Numbered
      <4>. QED  BY <1>0, <2>3, <3>1, <4>2 DEF Numbered, Tasks
    <3>2. CASE t # n /\ s = n
      <4>1. Live(t) /\ rows[t].request = r
        BY <2>1, <2>2, <2>5, <3>2 DEF Live
      <4>2. t \in Reusable(r)
        BY <4>1 DEF Live, Reusable, Having, Fresh
      <4>. QED  BY <1>2, <4>2 DEF Created
    <3>3. CASE t # n /\ s # n
      BY <1>0, <2>2, <2>5, <3>3 DEF LiveIsNewest, Live
    <3>4. CASE t = n /\ s = n
      BY <3>4 DEF Tasks
    <3>. QED  BY <3>1, <3>2, <3>3, <3>4
  <2>6. LiveIsNewest'
    BY <2>5 DEF LiveIsNewest
  <2>. QED  BY <2>2, <2>3, <2>4, <2>6
<1>. QED  BY <1>1, <1>2, RowsStep DEF IInv

\* The journal keeps to the answered tasks, tells the truth, and its unresolved
\* entries are those of the newest task of their request.
LEMMA JournalInv ==
    ASSUME IInv, [Next]_vars
    PROVE  JournalledAreDone' /\ JournalTellsTruth' /\ UnresolvedIsNewest'
<1>0. /\ rows \in [Tasks -> Row] /\ TypeOK /\ CallsMatch /\ Numbered
      /\ JournalledAreDone /\ JournalTellsTruth /\ LiveIsNewest /\ UnresolvedIsNewest
      /\ ran \in [Tasks -> [Tools -> Nat]]
  BY DEF IInv, TypeOK
<1>1. \A t \in Tasks, u \in Tools : EntryChange(t, u)
  BY <1>0, EntryStep
<1>2. JournalledAreDone'
  <2>. SUFFICES ASSUME NEW t \in Tasks, NEW u \in Tools, journal'[t][u].state # "none"
                PROVE  rows'[t].status = "MCP_DONE"
    BY DEF JournalledAreDone
  <2>1. rows[t].status = "MCP_DONE"
    <3>1. CASE journal[t][u].state # "none"
      BY <1>0, <3>1 DEF JournalledAreDone
    <3>2. CASE journal[t][u].state = "none"
      BY <1>1, <3>2 DEF EntryChange, EntryKept, EntryBegins, EntryWritten, EntryResolves
    <3>. QED  BY <3>1, <3>2
  <2>. QED  BY <2>1, RowsInv
<1>3. JournalTellsTruth'
  <2>. SUFFICES ASSUME NEW t \in Tasks, NEW u \in Tools
                PROVE  /\ ran'[t][u] <= 1
                       /\ journal'[t][u].state = "none" => ran'[t][u] = 0
                       /\ journal'[t][u].state = "DONE" => ran'[t][u] = 1
    BY DEF JournalTellsTruth
  <2>1. /\ ran[t][u] <= 1
        /\ journal[t][u].state = "none" => ran[t][u] = 0
        /\ journal[t][u].state = "DONE" => ran[t][u] = 1
    BY <1>0 DEF JournalTellsTruth
  <2>2. EntryChange(t, u)
    BY <1>1
  <2>3. CASE EntryKept(t, u)
    BY <2>1, <2>3 DEF EntryKept
  <2>4. CASE EntryBegins(t, u)
    BY <2>1, <2>4 DEF EntryBegins
  <2>5. CASE EntryWritten(t, u)
    BY <2>1, <2>5 DEF EntryWritten
  <2>6. CASE EntryResolves(t, u)
    BY <2>1, <2>6 DEF EntryResolves
  <2>. QED  BY <2>2, <2>3, <2>4, <2>5, <2>6 DEF EntryChange
<1>4. UnresolvedIsNewest'
  <2>. SUFFICES ASSUME NEW t \in Tasks, NEW s \in Tasks, Unresolved(t)',
                       rows'[s].request = rows'[t].request
                PROVE  s <= t
    BY DEF UnresolvedIsNewest
  <2>1. PICK u \in Tools : journal'[t][u].state \in {"RUNNING", "UNCERTAIN"}
    BY DEF Unresolved
  <2>2. CASE EntryBegins(t, u)
    BY <1>0, <2>2 DEF EntryBegins, LiveIsNewest
  <2>3. CASE ~EntryBegins(t, u)
    <3>1. Unresolved(t)
      BY <1>1, <2>1, <2>3
      DEF EntryChange, EntryKept, EntryWritten, EntryResolves, Unresolved
    <3>2. rows[t].status = "MCP_DONE"
      BY <1>0, <3>1 DEF Unresolved, JournalledAreDone
    <3>3. CASE RowsKept
      BY <1>0, <3>1, <3>3 DEF RowsKept, RowKept, UnresolvedIsNewest
    <3>4. ASSUME NEW n \in Tasks, NEW r \in Requests, Created(n, r)
          PROVE  s <= t
      <4>1. n # t
        BY <3>2, <3>4 DEF Created
      <4>2. rows'[t] = rows[t] /\ (s # n => rows'[s] = rows[s]) /\ rows'[n].request = r
        BY <1>0, <3>4, <4>1 DEF Created, NoRow
      <4>3. s # n
        <5>. SUFFICES ASSUME s = n PROVE FALSE
          OBVIOUS
        <5>1. t \in Blocking(r)
          BY <3>1, <4>2 DEF Blocking
        <5>. QED  BY <3>4, <5>1 DEF Created
      <4>. QED  BY <1>0, <3>1, <4>2, <4>3 DEF UnresolvedIsNewest
    <3>. QED  BY <1>0, <3>3, <3>4, RowsStep
  <2>. QED  BY <2>2, <2>3
<1>. QED  BY <1>2, <1>3, <1>4

\* A call keeps matching what its tool did as long as nothing that it looks at changes.
LEMMA SameMatch ==
    ASSUME TypeOK, NEW call \in Call, NEW c \in Callers, CallMatches(call, c),
           \A t \in Tasks : rows[t].status = "MCP_DONE" => rows'[t].status = "MCP_DONE",
           \A t \in Tasks, u \in Tools :
               journal[t][u] = [state |-> "RUNNING", by |-> c] /\ call.step # "idle"
               /\ call.task = t /\ call.tool = u
               => EntryKept(t, u)
    PROVE  /\ call.step # "idle" => call.task \in Tasks
           /\ call.step = "answered" => rows'[call.task].status = "MCP_DONE"
           /\ call.step \in {"callback", "written", "finish"} => call.tool \in Tools
           /\ call.step = "callback" =>
                /\ journal'[call.task][call.tool] = [state |-> "RUNNING", by |-> c]
                /\ ran'[call.task][call.tool] = 0
           /\ call.step = "written" \/ (call.step = "finish" /\ call.ok) =>
                /\ journal'[call.task][call.tool] = [state |-> "RUNNING", by |-> c]
                /\ ran'[call.task][call.tool] = 1
BY DEF CallMatches, EntryKept

\* Calls that the step does not move keep matching.
LEMMA OtherCalls ==
    ASSUME IInv, [Next]_vars, NEW c \in Callers, calls'[c] = calls[c],
           \A t \in Tasks, u \in Tools :
               journal[t][u] = [state |-> "RUNNING", by |-> c] => EntryKept(t, u)
    PROVE  CallMatches(calls[c], c)'
<1>1. TypeOK /\ CallMatches(calls[c], c) /\ calls[c] \in Call
  BY DEF IInv, CallsMatch, TypeOK
<1>2. \A t \in Tasks : rows[t].status = "MCP_DONE" => rows'[t].status = "MCP_DONE"
  BY RowsInv
<1>. QED  BY <1>1, <1>2, SameMatch DEF CallMatches

\* A step of a call moves that call only, and touches no entry of another call.
LEMMA OneCall ==
    ASSUME IInv, NEW c \in Callers, Generate(c) \/ RunToolOnce(c) \/ Crash(c),
           NEW d \in Callers, d # c
    PROVE  /\ calls'[d] = calls[d]
           /\ \A t \in Tasks, u \in Tools :
                journal[t][u] = [state |-> "RUNNING", by |-> d] => EntryKept(t, u)
<1>0. /\ journal \in [Tasks -> [Tools -> Entry]] /\ ran \in [Tasks -> [Tools -> Nat]]
      /\ calls \in [Callers -> Call] /\ TypeOK /\ CallsMatch
  BY DEF IInv, TypeOK
<1>1. calls'[d] = calls[d]
  BY <1>0 DEF Generate, Admit, Asks, Wait, RunToolOnce, StartTool, Leave, Write, Return,
              Confirm, GiveUp, Crash
<1>2. ASSUME NEW t \in Tasks, NEW u \in Tools, journal[t][u] = [state |-> "RUNNING", by |-> d]
      PROVE  EntryKept(t, u)
  <2>1. CASE Quiet
    BY <2>1 DEF Quiet, EntryKept
  <2>2. ASSUME NEW x \in Tasks, NEW v \in Tools, Begun(c, x, v) PROVE EntryKept(t, u)
    <3>1. ~(t = x /\ u = v)
      BY <1>2, <2>2 DEF Begun
    <3>. QED  BY <1>0, <2>2, <3>1 DEF Begun, EntryKept
  <2>3. ASSUME NEW x \in Tasks, NEW v \in Tools, Written(c, x, v) PROVE EntryKept(t, u)
    <3>1. journal[x][v] = [state |-> "RUNNING", by |-> c]
      BY <1>0, <2>3 DEF Written, CallsMatch, CallMatches
    <3>2. ~(t = x /\ u = v)
      BY <1>2, <3>1
    <3>. QED  BY <1>0, <2>3, <3>2 DEF Written, EntryKept
  <2>4. ASSUME NEW x \in Tasks, NEW v \in Tools, NEW state \in {"DONE", "UNCERTAIN"},
               Resolved(c, x, v, state)
        PROVE  EntryKept(t, u)
    <3>1. ~(t = x /\ u = v)
      BY <1>2, <2>4 DEF Resolved
    <3>. QED  BY <1>0, <2>4, <3>1 DEF Resolved, EntryKept
  <2>. QED  BY <1>0, <2>1, <2>2, <2>3, <2>4, CallJournal
<1>. QED  BY <1>1, <1>2

\* The call that a step moves matches what it did.
LEMMA MovedCall ==
    ASSUME IInv, NEW c \in Callers, Generate(c) \/ RunToolOnce(c) \/ Crash(c), [Next]_vars
    PROVE  CallMatches(calls[c], c)'
<1>0. /\ journal \in [Tasks -> [Tools -> Entry]] /\ ran \in [Tasks -> [Tools -> Nat]]
      /\ calls \in [Callers -> Call] /\ calls[c] \in Call /\ CallMatches(calls[c], c)
      /\ JournalTellsTruth
  BY DEF IInv, TypeOK, CallsMatch
<1>1. CASE calls' = [calls EXCEPT ![c] = NoCall]
  <2>1. calls'[c] = NoCall
    BY <1>0, <1>1
  <2>. QED  BY <2>1 DEF CallMatches, NoCall
<1>2. CASE \E r \in Requests : Admit(c, r)
  <2>1. PICK t \in Tasks : calls' = [calls EXCEPT ![c] = Waiting(t)]
    BY <1>2 DEF Admit, Asks, Reusable, Free, Having
  <2>2. calls'[c] = Waiting(t)
    BY <1>0, <2>1
  <2>. QED  BY <2>2 DEF CallMatches, Waiting
<1>3. CASE Wait(c) /\ calls' # [calls EXCEPT ![c] = NoCall]
  <2>1. calls'[c] = Answered(calls[c].task) /\ rows[calls[c].task].status = "MCP_DONE"
        /\ rows' = rows /\ calls[c].task \in Tasks
    BY <1>0, <1>3 DEF Wait, CallMatches
  <2>. QED  BY <2>1 DEF CallMatches, Answered
<1>4. CASE \E u \in Tools : StartTool(c, u)
  <2>1. PICK u \in Tools : StartTool(c, u)
    BY <1>4
  <2>. DEFINE t == calls[c].task
              next == [calls[c] EXCEPT !.step = "callback", !.tool = u]
  <2>2. t \in Tasks
    BY <1>0, <2>1 DEF StartTool, CallMatches
  <2>3. calls'[c] = next
    BY <1>0, <2>1 DEF StartTool
  <2>4. next.step = "callback" /\ next.task = t /\ next.tool = u
    BY <1>0 DEF Call
  <2>5. journal'[t][u] = [state |-> "RUNNING", by |-> c] /\ ran'[t][u] = ran[t][u]
    BY <1>0, <2>1, <2>2 DEF StartTool
  <2>6. ran[t][u] = 0
    BY <1>0, <2>1, <2>2 DEF StartTool, Startable, JournalTellsTruth
  <2>. HIDE DEF next
  <2>. QED  BY <2>2, <2>3, <2>4, <2>5, <2>6 DEF CallMatches
<1>5. CASE Write(c)
  <2>. DEFINE next == [calls[c] EXCEPT !.step = "written"]
  <2>1. calls'[c] = next
    BY <1>0, <1>5 DEF Write
  <2>2. next.step = "written" /\ next.task = calls[c].task /\ next.tool = calls[c].tool
    BY <1>0 DEF Call
  <2>3. /\ calls[c].task \in Tasks /\ calls[c].tool \in Tools
        /\ journal[calls[c].task][calls[c].tool] = [state |-> "RUNNING", by |-> c]
        /\ ran[calls[c].task][calls[c].tool] = 0
    BY <1>0, <1>5 DEF Write, CallMatches
  <2>4. ran'[calls[c].task][calls[c].tool] = 1 /\ journal' = journal
    BY <1>0, <1>5, <2>3 DEF Write
  <2>. HIDE DEF next
  <2>. QED  BY <2>1, <2>2, <2>3, <2>4 DEF CallMatches
<1>6. CASE Return(c)
  <2>1. PICK b \in BOOLEAN :
           /\ calls' = [calls EXCEPT ![c] = [calls[c] EXCEPT !.step = "finish", !.ok = b]]
           /\ b => calls[c].step = "written"
           /\ calls[c].step \in {"callback", "written"} /\ UNCHANGED <<journal, ran>>
    BY <1>0, <1>6 DEF Return
  <2>. DEFINE next == [calls[c] EXCEPT !.step = "finish", !.ok = b]
  <2>2. calls'[c] = next
    BY <1>0, <2>1
  <2>3. next.step = "finish" /\ next.task = calls[c].task /\ next.tool = calls[c].tool
        /\ next.ok = b
    BY <1>0 DEF Call
  <2>. HIDE DEF next
  <2>. QED  BY <1>0, <2>1, <2>2, <2>3 DEF CallMatches
<1>7. CASE Confirm(c)
  <2>1. calls[c].task \in Tasks /\ calls[c].tool \in Tools /\ calls[c].step = "finish"
    BY <1>0, <1>7 DEF Confirm, CallMatches
  <2>2. \/ calls'[c] = Answered(calls[c].task) /\ Recordable(c) /\ rows' = rows
        \/ calls'[c] = [calls[c] EXCEPT !.ok = FALSE]
    BY <1>0, <1>7 DEF Confirm
  <2>3. CASE calls'[c] = Answered(calls[c].task) /\ Recordable(c) /\ rows' = rows
    BY <2>1, <2>3 DEF CallMatches, Answered, Recordable
  <2>4. CASE calls'[c] = [calls[c] EXCEPT !.ok = FALSE]
    <3>. DEFINE next == [calls[c] EXCEPT !.ok = FALSE]
    <3>1. next.step = "finish" /\ next.task = calls[c].task /\ next.tool = calls[c].tool
          /\ ~next.ok
      BY <1>0, <2>1 DEF Call
    <3>2. calls'[c] = next
      BY <2>4
    <3>. HIDE DEF next
    <3>. QED  BY <2>1, <3>1, <3>2 DEF CallMatches
  <2>. QED  BY <2>2, <2>3, <2>4
<1>8. CASE Leave(c) \/ GiveUp(c) \/ Crash(c)
  BY <1>1, <1>8 DEF Leave, GiveUp, Crash
<1>. QED  BY <1>1, <1>2, <1>3, <1>4, <1>5, <1>6, <1>7, <1>8 DEF Generate, RunToolOnce

LEMMA CallsInv == IInv /\ [Next]_vars => CallsMatch'
<1>. SUFFICES ASSUME IInv, [Next]_vars PROVE CallsMatch'
  OBVIOUS
<1>1. ASSUME NEW c \in Callers, Generate(c) \/ RunToolOnce(c) \/ Crash(c)
      PROVE  CallsMatch'
  <2>1. ASSUME NEW d \in Callers, d # c PROVE CallMatches(calls[d], d)'
    <3>1. calls'[d] = calls[d]
      BY <1>1, <2>1, OneCall
    <3>2. \A t \in Tasks, u \in Tools :
             journal[t][u] = [state |-> "RUNNING", by |-> d] => EntryKept(t, u)
      BY <1>1, <2>1, OneCall
    <3>. QED  BY <3>1, <3>2, OtherCalls
  <2>. QED  BY <1>1, <2>1, MovedCall DEF CallsMatch
<1>2. CASE UNCHANGED <<calls, journal, ran>>
  <2>1. ASSUME NEW d \in Callers PROVE CallMatches(calls[d], d)'
    BY <1>2, OtherCalls DEF EntryKept
  <2>. QED  BY <2>1 DEF CallsMatch
<1>3. ASSUME NEW a \in Assistants, Claim(a) \/ Complete(a) \/ Drop(a)
      PROVE  UNCHANGED <<calls, journal, ran>>
  BY <1>3, PollTypes DEF IInv
<1>4. ASSUME NEW t \in Tasks, LeaseEnds(t) \/ Age(t) PROVE UNCHANGED <<calls, journal, ran>>
  BY <1>4 DEF LeaseEnds, Age
<1>5. CASE EditPolicy \/ UNCHANGED vars
  BY <1>2, <1>5 DEF EditPolicy, vars
<1>. QED  BY <1>1, <1>2, <1>3, <1>4, <1>5 DEF Next

-----------------------------------------------------------------------------
(***************************************************************************)
(* Theorems                                                                *)
(***************************************************************************)

\* The invariant is inductive.
THEOREM Invariance == Spec => []IInv
<1>1. IInv /\ [Next]_vars => IInv'
  BY NextType, RowsInv, JournalInv, CallsInv DEF IInv
<1>. QED  BY <1>1, InitInv, PTL DEF Spec

\* Every variable keeps its shape.
THEOREM TypeCorrect == Spec => []TypeOK
BY Invariance, PTL DEF IInv

\* However many callers share an answer, and wherever they die, a tool of it is
\* written at most once, and the journal never says less than what happened.
THEOREM WrittenOnce == Spec => []JournalTellsTruth
BY Invariance, PTL DEF IInv

\* A write of unknown outcome keeps younger tasks of its request away.
THEOREM UnresolvedBlocks == Spec => []UnresolvedIsNewest
BY Invariance, PTL DEF IInv

\* The callers of one request share one live task.
THEOREM OneLive == Spec => []OneLiveTask
<1>1. IInv => OneLiveTask
  <2>. SUFFICES ASSUME IInv,
                       NEW t \in Having({"MCP_WAITING", "MCP_CLAIMED", "MCP_DONE"}) \cap Fresh,
                       NEW s \in Having({"MCP_WAITING", "MCP_CLAIMED", "MCP_DONE"}) \cap Fresh,
                       rows[t].request = rows[s].request
                PROVE  s = t
    BY DEF OneLiveTask
  <2>1. t \in Tasks /\ s \in Tasks /\ Live(t) /\ Live(s)
    BY DEF Having, Fresh, Live
  <2>2. s <= t /\ t <= s
    BY <2>1 DEF IInv, LiveIsNewest
  <2>. QED  BY <2>1, <2>2 DEF Tasks
<1>. QED  BY <1>1, Invariance, PTL

\* An answer is never replaced or withdrawn.
THEOREM AnswersStay == Spec => AnswerIsFinal
<1>1. IInv /\ [Next]_vars =>
        \A t \in Tasks : rows[t].status = "MCP_DONE" =>
            rows'[t].status = "MCP_DONE" /\ rows'[t].uses = rows[t].uses
  <2>. SUFFICES ASSUME IInv, [Next]_vars, NEW t \in Tasks, rows[t].status = "MCP_DONE"
                PROVE  rows'[t].status = "MCP_DONE" /\ rows'[t].uses = rows[t].uses
    OBVIOUS
  <2>1. CASE RowsKept
    BY <2>1 DEF RowsKept, RowKept
  <2>2. ASSUME NEW n \in Tasks, NEW r \in Requests, Created(n, r)
        PROVE  rows'[t].status = "MCP_DONE" /\ rows'[t].uses = rows[t].uses
    BY <2>2 DEF IInv, TypeOK, Created
  <2>. QED  BY <2>1, <2>2, RowsStep DEF IInv
<1>. QED  BY <1>1, Invariance, PTL DEF Spec, AnswerIsFinal

\* Only complete answers a task, and under the lease in force.
THEOREM HolderAnswers == Spec => AnswerFromHolder
<1>. DEFINE FromHolder(t) ==
              \E a \in Assistants : /\ polls[a].step = "apply" /\ polls[a].task = t
                                    /\ polls[a].token = rows[t].token
                                    /\ polls'[a] # polls[a]
<1>1. IInv /\ [Next]_vars =>
        \A t \in Tasks : rows[t].status # "MCP_DONE" /\ rows'[t].status = "MCP_DONE" =>
            FromHolder(t)
  <2>. SUFFICES ASSUME IInv, [Next]_vars, NEW t \in Tasks,
                       rows[t].status # "MCP_DONE", rows'[t].status = "MCP_DONE"
                PROVE  FromHolder(t)
    OBVIOUS
  <2>0. rows \in [Tasks -> Row] /\ polls \in [Assistants -> Poll]
    BY DEF IInv, TypeOK
  <2>a. rows' # rows
    OBVIOUS
  <2>1. ASSUME NEW c \in Callers PROVE ~(Generate(c) \/ RunToolOnce(c) \/ Crash(c))
    <3>1. ASSUME NEW r \in Requests, Admit(c, r) PROVE FALSE
      <4>1. PICK n \in Tasks :
              rows' = [rows EXCEPT ![n] = [NoRow EXCEPT !.status = "MCP_WAITING",
                                                        !.request = r, !.fresh = TRUE]]
        BY <2>a, <3>1 DEF Admit, Free, Having
      <4>2. rows'[t] = rows[t] \/ rows'[t].status = "MCP_WAITING"
        BY <2>0, <4>1 DEF NoRow
      <4>. QED  BY <4>2
    <3>. QED  BY <2>a, <3>1 DEF Generate, RunToolOnce, Wait, StartTool, Leave, Write, Return,
                                Confirm, GiveUp, Crash
  <2>2. ASSUME NEW a \in Assistants, Claim(a) \/ Complete(a) \/ Drop(a) PROVE FromHolder(t)
    <3>1. ~Sweep(a)
      <4>1. ASSUME Sweep(a) PROVE rows'[t].status \in {rows[t].status, "CANCELLED", "MCP_WAITING"}
        BY <2>0, <4>1 DEF Sweep, Row
      <4>. QED  BY <4>1
    <3>2. ~Take(a)
      <4>1. ASSUME Take(a)
            PROVE  rows'[t].status \in {rows[t].status, "CANCELLED", "MCP_CLAIMED"}
        BY <2>0, <4>1 DEF Take, Row
      <4>. QED  BY <4>1
    <3>3. Apply(a) /\ Holds(a) /\ polls'[a] = NoPoll
      BY <2>0, <2>2, <2>a, <3>1, <3>2 DEF Claim, Complete, Drop, Scan, Present, Apply
    <3>4. polls[a].task = t
      BY <2>0, <3>3 DEF Apply
    <3>5. polls[a].step = "apply" /\ NoPoll.step = "idle"
      BY <3>3 DEF Apply, NoPoll
    <3>. QED  BY <3>3, <3>4, <3>5 DEF Holds
  <2>3. ASSUME NEW s \in Tasks PROVE ~(LeaseEnds(s) \/ Age(s))
    BY <2>0 DEF LeaseEnds, Age, Row
  <2>4. ~EditPolicy /\ ~UNCHANGED vars
    BY <2>a DEF EditPolicy, vars
  <2>. QED  BY <2>1, <2>2, <2>3, <2>4 DEF Next
<1>. QED  BY <1>1, Invariance, PTL DEF Spec, AnswerFromHolder

-----------------------------------------------------------------------------
(***************************************************************************)
(* The journal implements the at-most-once write.                          *)
(***************************************************************************)
Writes == Tasks \X Tools
record == [w \in Writes |-> WriteState(journal[w[1]][w[2]].state)]
performed == [w \in Writes |-> ran[w[1]][w[2]]]

\* Initially no write was begun.
LEMMA InitPromise == Init => Promise!Init
BY DEF Init, Promise!Init, NoEntry, WriteState

\* A write that changes is one of the four steps of the abstract journal, and it is
\* the only one that changes.
LEMMA OneWrite ==
    ASSUME TypeOK, CallsMatch, [Next]_vars
    PROVE  \/ UNCHANGED <<journal, ran>>
           \/ \E t \in Tasks, u \in Tools :
                 /\ ~EntryKept(t, u)
                 /\ \A x \in Tasks, v \in Tools : ~(x = t /\ v = u) => EntryKept(x, v)
<1>0. journal \in [Tasks -> [Tools -> Entry]] /\ ran \in [Tasks -> [Tools -> Nat]]
  BY DEF TypeOK
<1>1. CASE Quiet
  BY <1>1 DEF Quiet
<1>2. ASSUME NEW c \in Callers, NEW t \in Tasks, NEW u \in Tools,
             \/ Begun(c, t, u) \/ Written(c, t, u)
             \/ \E state \in {"DONE", "UNCERTAIN"} : Resolved(c, t, u, state)
      PROVE  \A x \in Tasks, v \in Tools : ~(x = t /\ v = u) => EntryKept(x, v)
  BY <1>0, <1>2 DEF Begun, Written, Resolved, EntryKept
<1>3. ASSUME NEW t \in Tasks, NEW u \in Tools, EntryKept(t, u), TypeOK',
             \A x \in Tasks, v \in Tools : ~(x = t /\ v = u) => EntryKept(x, v)
      PROVE  UNCHANGED <<journal, ran>>
  <2>1. journal' \in [Tasks -> [Tools -> Entry]] /\ ran' \in [Tasks -> [Tools -> Nat]]
    BY <1>3 DEF TypeOK
  <2>2. \A x \in Tasks, v \in Tools : journal'[x][v] = journal[x][v] /\ ran'[x][v] = ran[x][v]
    BY <1>3 DEF EntryKept
  <2>3. \A x \in Tasks : journal'[x] = journal[x] /\ ran'[x] = ran[x]
    BY <1>0, <2>1, <2>2
  <2>. QED  BY <1>0, <2>1, <2>3
<1>. QED  BY <1>1, <1>2, <1>3, JournalStep, NextType

\* What the abstract journal sees of a write that a step leaves alone.
LEMMA OtherWrites ==
    ASSUME NEW t \in Tasks, NEW u \in Tools,
           \A x \in Tasks, v \in Tools : ~(x = t /\ v = u) => EntryKept(x, v)
    PROVE  /\ record' = [record EXCEPT ![<<t, u>>] = WriteState(journal'[t][u].state)]
           /\ performed' = [performed EXCEPT ![<<t, u>>] = ran'[t][u]]
<1>1. ASSUME NEW w \in Writes, w # <<t, u>>
      PROVE  /\ journal'[w[1]][w[2]] = journal[w[1]][w[2]]
             /\ ran'[w[1]][w[2]] = ran[w[1]][w[2]]
  <2>1. PICK x \in Tasks, v \in Tools : w = <<x, v>>
    BY DEF Writes
  <2>2. EntryKept(x, v)
    BY <1>1, <2>1
  <2>. QED  BY <2>1, <2>2 DEF EntryKept
<1>2. record' = [w \in Writes |-> IF w = <<t, u>> THEN WriteState(journal'[t][u].state)
                                  ELSE record[w]]
  BY <1>1 DEF record
<1>3. performed' = [w \in Writes |-> IF w = <<t, u>> THEN ran'[t][u] ELSE performed[w]]
  BY <1>1 DEF performed
<1>. QED  BY <1>2, <1>3 DEF record, performed

\* The step of one write is a step of the abstract journal.
LEMMA WriteStep ==
    ASSUME IInv, [Next]_vars, NEW t \in Tasks, NEW u \in Tools, ~EntryKept(t, u),
           \A x \in Tasks, v \in Tools : ~(x = t /\ v = u) => EntryKept(x, v)
    PROVE  Promise!Next
<1>. DEFINE w == <<t, u>>
<1>0. w \in Writes /\ record[w] = WriteState(journal[t][u].state) /\ performed[w] = ran[t][u]
  BY DEF Writes, record, performed
<1>1. /\ record' = [record EXCEPT ![w] = WriteState(journal'[t][u].state)]
      /\ performed' = [performed EXCEPT ![w] = ran'[t][u]]
  BY OtherWrites
<1>2. record = [record EXCEPT ![w] = record[w]] /\ performed = [performed EXCEPT ![w] = performed[w]]
  BY DEF record, performed
<1>. HIDE DEF w
<1>3. CASE EntryBegins(t, u)
  <2>1. record[w] = "fresh" /\ record' = [record EXCEPT ![w] = "begun"] /\ performed' = performed
    BY <1>0, <1>1, <1>2, <1>3 DEF EntryBegins, WriteState
  <2>. QED  BY <1>0, <2>1 DEF Promise!Next, Promise!Begin, Writes, record, performed
<1>4. CASE EntryWritten(t, u)
  <2>1. /\ record[w] = "begun" /\ performed[w] = 0
        /\ performed' = [performed EXCEPT ![w] = 1] /\ record' = record
    BY <1>0, <1>1, <1>2, <1>4 DEF EntryWritten, WriteState
  <2>. QED  BY <1>0, <2>1 DEF Promise!Next, Promise!Perform, Writes, record, performed
<1>5. CASE EntryResolves(t, u)
  <2>1. record[w] = "begun" /\ performed' = performed
    BY <1>0, <1>1, <1>2, <1>5 DEF EntryResolves, WriteState
  <2>2. CASE journal'[t][u].state = "DONE"
    <3>1. performed[w] = 1 /\ record' = [record EXCEPT ![w] = "done"]
      BY <1>0, <1>1, <1>5, <2>2 DEF EntryResolves, WriteState
    <3>. QED  BY <1>0, <2>1, <3>1 DEF Promise!Next, Promise!Confirm, Writes, record, performed
  <2>3. CASE journal'[t][u].state = "UNCERTAIN"
    <3>1. record' = [record EXCEPT ![w] = "uncertain"]
      BY <1>1, <2>3 DEF WriteState
    <3>. QED  BY <1>0, <2>1, <3>1 DEF Promise!Next, Promise!GiveUp, Writes, record, performed
  <2>. QED  BY <1>5, <2>2, <2>3 DEF EntryResolves
<1>6. EntryChange(t, u)
  BY EntryStep DEF IInv
<1>. QED  BY <1>3, <1>4, <1>5, <1>6 DEF EntryChange

\* Every step of the mailbox is a step of the abstract journal, or none.
LEMMA StepPromise == IInv /\ [Next]_vars => [Promise!Next]_(Promise!vars)
<1>. SUFFICES ASSUME IInv, [Next]_vars PROVE [Promise!Next]_(Promise!vars)
  OBVIOUS
<1>1. CASE UNCHANGED <<journal, ran>>
  BY <1>1 DEF Promise!vars
<1>2. ASSUME NEW t \in Tasks, NEW u \in Tools, ~EntryKept(t, u),
             \A x \in Tasks, v \in Tools : ~(x = t /\ v = u) => EntryKept(x, v)
      PROVE  Promise!Next
  BY <1>2, WriteStep
<1>. QED  BY <1>1, <1>2, OneWrite DEF IInv

\* Every behaviour of the mailbox, with all its retries, lost connections and dead
\* callers, performs each write of an answer at most once, after it was recorded as
\* begun, and never after its outcome was recorded.
THEOREM WritesAreAtMostOnce == Spec => ImplementsAtMostOnce
BY InitPromise, StepPromise, Invariance, PTL DEF Spec, ImplementsAtMostOnce, Promise!Spec
=============================================================================
