---------------------------- MODULE ToolGateway ----------------------------
(***************************************************************************)
(* Capability grants: the ledgers (app/tool_manager/grants.py), the access *)
(* policy and catalog of a Worker's gateway, the turn of an Agent that     *)
(* uses or asks for a tool (app/agent/base_agent.py), the answer of        *)
(* GraphRunner to a capability request, and the approval and revocation by *)
(* the API (app/application/runs.py, app/api/app.py).                      *)
(*                                                                         *)
(* One capability is on demand and offered by several sources.  A request  *)
(* of the API is one step: the ledger files are read and rewritten under a *)
(* lock of one store object, so two requests at the same time may lose a   *)
(* record, which is not modelled.  The gateway of a Worker is its memory.  *)
(***************************************************************************)
EXTENDS Naturals, Sequences, FiniteSets

CONSTANTS
    Traces, Items, Sources,
    work_items,     \* per Trace: the items of its plan
    discover,       \* per source: the names of the tools it declares
    max_retries,    \* bounded retries of a Trace
    MaxApprovals,   \* bound: approvals of the model
    NoItem

ASSUME GatewayAssumption ==
    /\ DOMAIN discover = Sources /\ max_retries \in Nat /\ MaxApprovals \in Nat
    /\ NoItem \notin Items /\ work_items \in [Traces -> SUBSET Items]

VARIABLES
    project_ledger,   \* .projectos/capability-grants.json
    trace_ledger,     \* per Trace: runs/<trace>/capability-grants.json
    events,           \* per Trace: its capability_approved events
    next_id,
    status, waiting,  \* per Trace: its status and the item of its last request
    gateway,          \* per Trace: active grants in the memory of its Worker
    working,          \* per Trace: is there a Worker
    current, offered, \* the item its Agent runs and the sources whose tools it has
    completed, retries,
    approved,         \* what users approved, as asked for
    live              \* per Trace: approvals whose grant was not revoked since

storeVars == <<project_ledger, trace_ledger, events, next_id>>
userVars == <<approved, live>>
turnVars == <<current, offered, completed, retries>>
workerVars == <<gateway, working>>
vars == <<storeVars, userVars, turnVars, workerVars, status, waiting>>

Scopes == {"node", "trace", "project"}

Init ==
    /\ project_ledger = {} /\ trace_ledger = [t \in Traces |-> {}]
    /\ events = [t \in Traces |-> <<>>] /\ next_id = 1
    /\ status = [t \in Traces |-> "running"] /\ waiting = [t \in Traces |-> NoItem]
    /\ gateway = [t \in Traces |-> {}] /\ working = [t \in Traces |-> FALSE]
    /\ current = [t \in Traces |-> NoItem] /\ offered = [t \in Traces |-> {}]
    /\ completed = [t \in Traces |-> {}] /\ retries = [t \in Traces |-> 0]
    /\ approved = {} /\ live = [t \in Traces |-> {}]

----------------------------------------------------------------------------
\* CapabilityGrantStore of a Trace.

\* list: project grants of every Trace and the Trace's own, revoked ones too.
list(t) ==
    {g \in project_ledger \cup trace_ledger[t] : g.scope = "project" \/ g.trace = t}

is_active(g) == g.status = "active"

\* _write_all.
write_all(t, grants) ==
    /\ project_ledger' = {g \in grants : g.scope = "project"}
    /\ trace_ledger' = [trace_ledger EXCEPT ![t] = {g \in grants : g.scope # "project"}]

\* An active grant of the same capability, source and item, whatever its scope.
existing(t, i, s) == {g \in list(t) : is_active(g) /\ g.source = s /\ g.item = i}

\* grant: a project grant is appended to its file; the file of the Trace keeps
\* its active grants only.
grant(t, i, s, scope) ==
    LET g == [id |-> next_id, trace |-> t, item |-> i, source |-> s, scope |-> scope,
              status |-> "active"]
    IN  IF existing(t, i, s) # {}
        THEN UNCHANGED <<project_ledger, trace_ledger, next_id>>
        ELSE /\ next_id' = next_id + 1
             /\ IF scope = "project"
                THEN project_ledger' = project_ledger \cup {g} /\ UNCHANGED trace_ledger
                ELSE /\ trace_ledger' = [trace_ledger EXCEPT
                            ![t] = {h \in @ : is_active(h)} \cup {g}]
                     /\ UNCHANGED project_ledger

\* The id of the grant that answers the approval.
grant_id(t, i, s) ==
    IF existing(t, i, s) = {} THEN next_id
    ELSE (CHOOSE g \in existing(t, i, s) : TRUE).id

----------------------------------------------------------------------------
\* ToolAccessPolicy and ToolCatalog in the memory of a Worker.

\* Mutant: a grant for one item serves its whole Trace.
grant_matches_AnyItem(g, t, i, s) ==
    is_active(g) /\ g.source = s /\ (g.scope = "project" \/ g.trace = t)

\* _grant_matches.
grant_matches(g, t, i, s) ==
    /\ is_active(g) /\ g.source = s
    /\ \/ g.scope = "project"
       \/ g.trace = t /\ (g.scope = "trace" \/ g.item = i)

is_visible(t, i, s) == \E g \in gateway[t] : grant_matches(g, t, i, s)

active_grant_source_names(t) == {g.source : g \in gateway[t]}

\* _refresh_dynamic_sources raises when two authorized sources declare one name.
Conflict(t) ==
    \E s, r \in active_grant_source_names(t) :
        s # r /\ discover[s] \cap discover[r] # {}

\* Events whose capability and source have no revoked grant in the ledgers.
Replayed(t) ==
    LET revoked == {g.source : g \in {h \in list(t) : h.status = "revoked"}}
    IN  {n \in DOMAIN events[t] : events[t][n].source \notin revoked}

\* Replayed events share one grant id per source: the last of them stays.
FromEvents(t) ==
    {[id |-> 0, trace |-> t, item |-> events[t][n].item, source |-> events[t][n].source,
      scope |-> events[t][n].scope, status |-> "active"] :
        n \in {k \in Replayed(t) :
                \A m \in Replayed(t) : m > k => events[t][m].source # events[t][k].source}}

\* Mutant: a revoked source takes the active grants of the ledger with it.
restore_approved_sources_RevokedWins(t) ==
    {g \in list(t) : is_active(g)
        /\ \A h \in list(t) : h.source = g.source => is_active(h)} \cup FromEvents(t)

\* _restore_approved_sources.
restore_approved_sources(t) == {g \in list(t) : is_active(g)} \cup FromEvents(t)

----------------------------------------------------------------------------
\* The Worker and its Agents.

StartWorker(t) ==
    /\ status[t] = "running" /\ ~working[t]
    /\ working' = [working EXCEPT ![t] = TRUE]
    /\ gateway' = [gateway EXCEPT ![t] = restore_approved_sources(t)]
    /\ UNCHANGED <<storeVars, userVars, turnVars, status, waiting>>

Leaves(t) ==
    /\ working' = [working EXCEPT ![t] = FALSE] /\ gateway' = [gateway EXCEPT ![t] = {}]
    /\ current' = [current EXCEPT ![t] = NoItem] /\ offered' = [offered EXCEPT ![t] = {}]

\* A Worker that dies leaves the Trace running; it is resumed.
Die(t) ==
    /\ working[t] /\ Leaves(t)
    /\ UNCHANGED <<storeVars, userVars, completed, retries, status, waiting>>

\* The turn is over and the Worker goes on.
NextItem(t) ==
    /\ current' = [current EXCEPT ![t] = NoItem] /\ offered' = [offered EXCEPT ![t] = {}]

\* RETRY_ITEM while the budget lasts.
Fails(t) ==
    /\ retries' = [retries EXCEPT ![t] = IF @ < max_retries THEN @ + 1 ELSE @]
    /\ IF retries[t] < max_retries
       THEN NextItem(t) /\ UNCHANGED <<workerVars, status>>
       ELSE Leaves(t) /\ status' = [status EXCEPT ![t] = "failed"]

\* BaseAgent.run asks tools_for; a conflict or a discovery that fails raises.
StartTurn(t, i) ==
    /\ working[t] /\ current[t] = NoItem /\ i \in work_items[t] \ completed[t]
    /\ \/ /\ ~Conflict(t)
          /\ current' = [current EXCEPT ![t] = i]
          /\ offered' = [offered EXCEPT ![t] = {s \in Sources : is_visible(t, i, s)}]
          /\ UNCHANGED <<workerVars, status, retries>>
       \/ active_grant_source_names(t) # {} /\ Fails(t)
    /\ UNCHANGED <<storeVars, userVars, completed, waiting>>

\* ProjectOSTool._run: authorized again, then the source answers or fails.
UseTool(t, s) ==
    /\ current[t] # NoItem /\ s \in offered[t]
    /\ \/ /\ is_visible(t, current[t], s)
          /\ UNCHANGED <<current, offered, retries, workerVars, status>>
       \/ Fails(t)
    /\ UNCHANGED <<storeVars, userVars, completed, waiting>>

\* The Agent returns a result that the Runner accepts.
Complete(t) ==
    /\ current[t] # NoItem /\ completed' = [completed EXCEPT ![t] = @ \cup {current[t]}]
    /\ UNCHANGED <<storeVars, userVars, retries, waiting>>
    /\ IF completed'[t] = work_items[t]
       THEN Leaves(t) /\ status' = [status EXCEPT ![t] = "completed"]
       ELSE NextItem(t) /\ UNCHANGED <<workerVars, status>>

\* Mutant: grants for one item are forgotten.
capability_granted_NoNode(t, i) ==
    \E g \in list(t) :
        is_active(g) /\ (g.scope = "project" \/ (g.trace = t /\ g.scope = "trace"))

\* _capability_granted looks at the ledgers.
capability_granted(t, i) ==
    \E g \in list(t) :
        /\ is_active(g)
        /\ \/ g.scope = "project"
           \/ g.trace = t /\ (g.scope = "trace" \/ (g.scope = "node" /\ g.item = i))

\* An approved capability or a tool the Agent has is no request but a failure.
AsksAgain(t) ==
    /\ current[t] # NoItem
    /\ offered[t] # {} \/ capability_granted(t, current[t])
    /\ Fails(t)
    /\ UNCHANGED <<storeVars, userVars, completed, waiting>>

\* _handle_capability_request, without a source or a declared reference.
AsksForNothing(t) ==
    /\ current[t] # NoItem /\ Leaves(t)
    /\ status' = [status EXCEPT ![t] = "blocked"]
    /\ UNCHANGED <<storeVars, userVars, completed, retries, waiting>>

\* ... with candidate sources: the Trace waits for an approval.
Asks(t) ==
    /\ current[t] # NoItem /\ ~capability_granted(t, current[t])
    /\ waiting' = [waiting EXCEPT ![t] = current[t]]
    /\ status' = [status EXCEPT ![t] = "waiting"]
    /\ Leaves(t)
    /\ UNCHANGED <<storeVars, userVars, completed, retries>>

----------------------------------------------------------------------------
\* The API.

\* resume with a source: the last request that waited is granted.
Approve(t, s, scope) ==
    /\ status[t] \in {"waiting", "failed", "blocked"} /\ waiting[t] # NoItem
    /\ grant(t, waiting[t], s, scope)
    /\ Cardinality(approved) < MaxApprovals
    /\ events' = [events EXCEPT ![t] =
                    Append(@, [item |-> waiting[t], source |-> s, scope |-> scope])]
    /\ approved' = approved \cup {[trace |-> t, item |-> waiting[t], source |-> s, scope |-> scope,
                                n |-> Cardinality(approved)]}
    /\ live' = [live EXCEPT ![t] =
                    @ \cup {[item |-> waiting[t], source |-> s, id |-> grant_id(t, waiting[t], s)]}]
    /\ status' = [status EXCEPT ![t] = "running"]
    /\ UNCHANGED <<turnVars, workerVars, waiting>>

\* resume without one.
Resume(t) ==
    /\ status[t] \in {"failed", "blocked"}
    /\ status' = [status EXCEPT ![t] = "running"]
    /\ UNCHANGED <<storeVars, userVars, turnVars, workerVars, waiting>>

\* revoke_run_capability: the ledgers change, the memory of a Worker does not.
Revoke(t, g) ==
    /\ g \in list(t) /\ is_active(g)
    /\ write_all(t, (list(t) \ {g}) \cup {[g EXCEPT !.status = "revoked"]})
    /\ live' = [u \in Traces |-> {a \in live[u] : a.id # g.id}]
    /\ UNCHANGED <<events, next_id, approved, turnVars, workerVars, status, waiting>>

\* A Trace is completed, or it waits for a user.
Over == (\A t \in Traces : status[t] \in {"completed", "waiting"}) /\ UNCHANGED vars

TraceStep(t) ==
    \/ StartWorker(t) \/ Die(t) \/ Complete(t) \/ AsksAgain(t) \/ AsksForNothing(t)
    \/ Asks(t) \/ Resume(t)
    \/ \E i \in Items : StartTurn(t, i)
    \/ \E s \in Sources : UseTool(t, s)
    \/ \E s \in Sources, scope \in Scopes : Approve(t, s, scope)
    \/ \E g \in list(t) : Revoke(t, g)

Next == (\E t \in Traces : TraceStep(t)) \/ Over

Spec == Init /\ [][Next]_vars

----------------------------------------------------------------------------
Grants ==
    [id : Nat, trace : Traces, item : Items, source : Sources, scope : Scopes,
     status : {"active", "revoked"}]

\* Type invariant.
TypeOK ==
    /\ project_ledger \subseteq Grants
    /\ trace_ledger \in [Traces -> SUBSET Grants] /\ gateway \in [Traces -> SUBSET Grants]
    /\ events \in [Traces -> Seq([item : Items, source : Sources, scope : Scopes])]
    /\ next_id \in Nat
    /\ status \in [Traces -> {"running", "waiting", "failed", "blocked", "completed"}]
    /\ waiting \in [Traces -> Items \cup {NoItem}] /\ working \in [Traces -> BOOLEAN]
    /\ current \in [Traces -> Items \cup {NoItem}]
    /\ offered \in [Traces -> SUBSET Sources] /\ completed \in [Traces -> SUBSET Items]
    /\ retries \in [Traces -> 0..max_retries]
    /\ approved \subseteq [trace : Traces, item : Items, source : Sources, scope : Scopes,
                           n : Nat]
    /\ live \in [Traces -> SUBSET [item : Items, source : Sources, id : Nat]]

\* What a user's approval covers.
Covers(a, t, i) ==
    a.scope = "project" \/ (a.trace = t /\ (a.scope = "trace" \/ a.item = i))

\* An Agent has an on-demand tool only when a user approved its source for this
\* item, its Trace or the project, however the grants got into the Worker: from
\* either ledger, from replayed events, or from an older grant the approval
\* was answered with.
OfferedWasApproved ==
    \A t \in Traces : \A s \in offered[t] :
        \E a \in approved : a.source = s /\ Covers(a, t, current[t])

\* Every Worker that starts can offer what was approved for an item of its
\* Trace and not revoked since, whatever else was revoked, approved or dropped
\* from the ledgers in between.
ApprovalReachesWorker ==
    [][\A t \in Traces : working'[t] /\ ~working[t] =>
        \A a \in live[t] :
            \E g \in gateway'[t] : grant_matches(g, t, a.item, a.source)]_vars

\* An item is not sent back to the approval wait while an approval it got is
\* not revoked.
NoSecondWait ==
    [][\A t \in Traces : status'[t] = "waiting" /\ status[t] # "waiting" =>
        \A a \in live[t] : a.item # current[t]]_vars

\* A Worker that starts after a revocation does not replay it: what it offers an
\* item is covered by an active grant of the ledgers.  Refuted (grant_revoked.cfg):
\* the next grant drops the revoked records from the ledger of the Trace, and the
\* event of the revoked approval is replayed.
RevokedNotReplayed ==
    [][\A t \in Traces : working'[t] /\ ~working[t] =>
        \A g \in gateway'[t] : \E h \in list(t) : is_active(h) /\ h.source = g.source]_vars
=============================================================================
