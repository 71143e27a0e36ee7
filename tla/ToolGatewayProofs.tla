------------------------- MODULE ToolGatewayProofs -------------------------
(***************************************************************************)
(* Proofs about ToolGateway for any Traces, items, sources and plans, any  *)
(* number of approvals, revocations, Workers and crashes.                  *)
(***************************************************************************)
EXTENDS ToolGateway, FiniteSetTheorems, TLAPS

----------------------------------------------------------------------------
\* One of the approvals A has exactly these words.
Approved(A, t, i, s, scope) ==
    \E a \in A : a.trace = t /\ a.item = i /\ a.source = s /\ a.scope = scope

\* Every grant of a set repeats an approval, word for word.
AllApproved(A, grants) ==
    \A g \in grants : Approved(A, g.trace, g.item, g.source, g.scope)

\* Each ledger keeps the grants that belong into it.
LedgersSorted ==
    /\ \A g \in project_ledger : g.scope = "project"
    /\ \A t \in Traces : \A g \in trace_ledger[t] : g.scope # "project" /\ g.trace = t

\* Grants come of approvals wherever they are: in the ledgers, in the events of a
\* Trace or in the memory of a Worker.
GrantsApproved ==
    /\ AllApproved(approved, project_ledger)
    /\ \A t \in Traces : AllApproved(approved, trace_ledger[t]) /\ AllApproved(approved, gateway[t])
    /\ \A t \in Traces : \A n \in DOMAIN events[t] :
            Approved(approved, t, events[t][n].item, events[t][n].source, events[t][n].scope)

\* An approval that was not revoked is backed by an active grant for its item.
LiveBacked ==
    \A t \in Traces : \A a \in live[t] :
        \E g \in list(t) :
            is_active(g) /\ g.id = a.id /\ g.source = a.source /\ g.item = a.item

\* The inductive invariant.
Inv ==
    /\ TypeOK /\ IsFiniteSet(approved)
    /\ LedgersSorted /\ GrantsApproved /\ LiveBacked /\ OfferedWasApproved

----------------------------------------------------------------------------
\* What an operation of the ledgers, of the catalog or of the Runner returns.

\* list of typed ledgers; what it holds is of the project or of the Trace.
LEMMA ListType ==
  ASSUME TypeOK, NEW t \in Traces
  PROVE  /\ list(t) \subseteq Grants
         /\ \A g \in list(t) : g.scope = "project" \/ g.trace = t
         /\ \A g \in list(t) : g \in project_ledger \/ g \in trace_ledger[t]
BY DEF list, TypeOK

\* With sorted ledgers, list hides nothing.
LEMMA ListWhole ==
  ASSUME TypeOK, LedgersSorted, NEW t \in Traces
  PROVE  list(t) = project_ledger \cup trace_ledger[t]
BY DEF list, LedgersSorted

\* A restored gateway holds grants, and repeats approvals if the ledgers and the
\* events do.
LEMMA RestoredType ==
  ASSUME TypeOK, NEW t \in Traces
  PROVE  restore_approved_sources(t) \subseteq Grants
<1> DEFINE E == [item : Items, source : Sources, scope : Scopes]
<1>1. \A n \in DOMAIN events[t] : events[t][n] \in E
  <2>1. events[t] \in Seq(E)
    BY DEF TypeOK
  <2> HIDE DEF E
  <2> QED
    BY <2>1
<1>2. FromEvents(t) \subseteq Grants
  BY <1>1 DEF FromEvents, Replayed, Grants
<1> QED
  BY <1>2, ListType DEF restore_approved_sources

LEMMA RestoredApproved ==
  ASSUME TypeOK, GrantsApproved, NEW t \in Traces
  PROVE  AllApproved(approved, restore_approved_sources(t))
<1>1. AllApproved(approved, FromEvents(t))
  <2> SUFFICES ASSUME NEW g \in FromEvents(t)
               PROVE  Approved(approved, g.trace, g.item, g.source, g.scope)
    BY DEF AllApproved
  <2>1. PICK n \in DOMAIN events[t] :
            g = [id |-> 0, trace |-> t, item |-> events[t][n].item,
                 source |-> events[t][n].source, scope |-> events[t][n].scope,
                 status |-> "active"]
    BY DEF FromEvents, Replayed
  <2>2. g.trace = t /\ g.item = events[t][n].item /\ g.source = events[t][n].source
            /\ g.scope = events[t][n].scope
    BY <2>1
  <2> QED
    BY <2>2 DEF GrantsApproved
<1>2. AllApproved(approved, list(t))
  BY ListType DEF AllApproved, GrantsApproved
<1> QED
  BY <1>1, <1>2 DEF AllApproved, restore_approved_sources

\* A Worker that leaves takes its gateway and its turn with it.
LEMMA LeavesType ==
  ASSUME TypeOK, NEW t \in Traces, Leaves(t)
  PROVE  /\ working' \in [Traces -> BOOLEAN]
         /\ gateway' \in [Traces -> SUBSET Grants]
         /\ current' \in [Traces -> Items \cup {NoItem}]
         /\ offered' \in [Traces -> SUBSET Sources]
         /\ \A u \in Traces : gateway'[u] \in {gateway[u], {}}
         /\ \A u \in Traces : (offered'[u] = offered[u] /\ current'[u] = current[u])
                               \/ offered'[u] = {}
BY DEF Leaves, TypeOK

\* A failed turn ends the turn or the Worker, and touches nothing else.
LEMMA FailsType ==
  ASSUME TypeOK, NEW t \in Traces, Fails(t)
  PROVE  /\ retries' \in [Traces -> 0..max_retries]
         /\ working' \in [Traces -> BOOLEAN]
         /\ gateway' \in [Traces -> SUBSET Grants]
         /\ current' \in [Traces -> Items \cup {NoItem}]
         /\ offered' \in [Traces -> SUBSET Sources]
         /\ status' \in [Traces -> {"running", "waiting", "failed", "blocked", "completed"}]
         /\ \A u \in Traces : gateway'[u] \in {gateway[u], {}}
         /\ \A u \in Traces : (offered'[u] = offered[u] /\ current'[u] = current[u])
                               \/ offered'[u] = {}
<1>1. retries' \in [Traces -> 0..max_retries]
  BY GatewayAssumption DEF Fails, TypeOK
<1>2. CASE retries[t] < max_retries
  <2>1. NextItem(t) /\ UNCHANGED <<gateway, working, status>>
    BY <1>2 DEF Fails, workerVars
  <2>2. /\ current' \in [Traces -> Items \cup {NoItem}]
        /\ offered' \in [Traces -> SUBSET Sources]
        /\ \A u \in Traces : (offered'[u] = offered[u] /\ current'[u] = current[u])
                              \/ offered'[u] = {}
    BY <2>1 DEF NextItem, TypeOK
  <2>3. /\ working' \in [Traces -> BOOLEAN]
        /\ gateway' \in [Traces -> SUBSET Grants]
        /\ status' \in [Traces -> {"running", "waiting", "failed", "blocked", "completed"}]
        /\ \A u \in Traces : gateway'[u] \in {gateway[u], {}}
    BY <2>1 DEF TypeOK
  <2> QED
    BY <1>1, <2>2, <2>3
<1>3. CASE ~(retries[t] < max_retries)
  <2>1. Leaves(t) /\ status' = [status EXCEPT ![t] = "failed"]
    BY <1>3 DEF Fails
  <2>2. status' \in [Traces -> {"running", "waiting", "failed", "blocked", "completed"}]
    BY <2>1 DEF TypeOK
  <2> QED
    BY <1>1, <2>1, <2>2, LeavesType
<1> QED
  BY <1>2, <1>3

\* Only an approval and a revocation touch the ledgers, the events and what
\* users know of them.
Keeps == UNCHANGED <<storeVars, userVars>>

\* What a step of a Worker may do to the gateways and the turns: a gateway is
\* restored or dropped, a turn starts with what is visible, or is dropped.
LEMMA WorkerSteps ==
  ASSUME Inv, NEW t \in Traces,
         \/ StartWorker(t) \/ Die(t) \/ Complete(t) \/ AsksAgain(t)
         \/ AsksForNothing(t) \/ Asks(t) \/ Resume(t)
         \/ \E i \in Items : StartTurn(t, i)
         \/ \E s \in Sources : UseTool(t, s)
  PROVE  /\ TypeOK' /\ Keeps
         /\ \A u \in Traces :
                gateway'[u] \in {gateway[u], {}, restore_approved_sources(u)}
         /\ \A u \in Traces :
                \/ offered'[u] = offered[u] /\ current'[u] = current[u]
                \/ offered'[u] = {}
                \/ offered'[u] = {s \in Sources : is_visible(u, current'[u], s)}
<1> USE DEF Keeps, storeVars, userVars
<1>0. TypeOK
  BY DEF Inv
<1>1. CASE StartWorker(t)
  BY <1>0, <1>1, RestoredType DEF StartWorker, TypeOK, turnVars
<1>2. CASE Die(t)
  BY <1>0, <1>2, LeavesType DEF Die, TypeOK
<1>3. CASE Complete(t)
  <2>1. completed' \in [Traces -> SUBSET Items]
    BY <1>0, <1>3 DEF Complete, TypeOK
  <2>2. CASE Leaves(t) /\ status' = [status EXCEPT ![t] = "completed"]
    BY <1>0, <1>3, <2>1, <2>2, LeavesType DEF Complete, TypeOK
  <2>3. CASE NextItem(t) /\ UNCHANGED <<workerVars, status>>
    BY <1>0, <1>3, <2>1, <2>3 DEF Complete, NextItem, TypeOK, workerVars
  <2> QED
    BY <1>3, <2>2, <2>3 DEF Complete
<1>4. CASE AsksAgain(t)
  BY <1>0, <1>4, FailsType DEF AsksAgain, TypeOK
<1>5. CASE AsksForNothing(t)
  BY <1>0, <1>5, LeavesType DEF AsksForNothing, TypeOK
<1>6. CASE Asks(t)
  BY <1>0, <1>6, LeavesType DEF Asks, TypeOK
<1>7. CASE Resume(t)
  BY <1>0, <1>7 DEF Resume, TypeOK, turnVars, workerVars
<1>8. ASSUME NEW i \in Items, StartTurn(t, i)
      PROVE  /\ TypeOK' /\ Keeps
             /\ \A u \in Traces :
                    gateway'[u] \in {gateway[u], {}, restore_approved_sources(u)}
             /\ \A u \in Traces :
                    \/ offered'[u] = offered[u] /\ current'[u] = current[u]
                    \/ offered'[u] = {}
                    \/ offered'[u] = {s \in Sources : is_visible(u, current'[u], s)}
  <2>1. CASE Fails(t)
    BY <1>0, <1>8, <2>1, FailsType DEF StartTurn, TypeOK
  <2>2. CASE ~Fails(t)
    <3> DEFINE visible == {s \in Sources : is_visible(t, i, s)}
    <3>1. /\ current' = [current EXCEPT ![t] = i] /\ offered' = [offered EXCEPT ![t] = visible]
          /\ UNCHANGED <<gateway, working, status, retries, storeVars, userVars, completed,
                         waiting>>
      BY <1>8, <2>2 DEF StartTurn, workerVars
    <3>2. current' \in [Traces -> Items \cup {NoItem}] /\ current'[t] = i
          /\ \A u \in Traces \ {t} : current'[u] = current[u]
      BY <1>0, <3>1 DEF TypeOK
    <3>3. visible \in SUBSET Sources
      OBVIOUS
    <3>4. /\ offered' \in [Traces -> SUBSET Sources] /\ offered'[t] = visible
          /\ \A u \in Traces \ {t} : offered'[u] = offered[u]
      <4> HIDE DEF visible
      <4> QED
        BY <1>0, <3>1, <3>3 DEF TypeOK
    <3>5. TypeOK' /\ Keeps /\ gateway' = gateway
      BY <1>0, <3>1, <3>2, <3>4 DEF TypeOK
    <3> QED
      BY <3>2, <3>4, <3>5
  <2> QED
    BY <2>1, <2>2
<1>9. ASSUME NEW s \in Sources, UseTool(t, s)
      PROVE  /\ TypeOK' /\ Keeps
             /\ \A u \in Traces : gateway'[u] \in {gateway[u], {}}
             /\ \A u \in Traces :
                    \/ offered'[u] = offered[u] /\ current'[u] = current[u]
                    \/ offered'[u] = {}
  <2>1. CASE Fails(t)
    BY <1>0, <1>9, <2>1, FailsType DEF UseTool, TypeOK
  <2>2. CASE ~Fails(t)
    BY <1>0, <1>9, <2>2 DEF UseTool, TypeOK, workerVars
  <2> QED
    BY <2>1, <2>2
<1> QED
  BY <1>1, <1>2, <1>3, <1>4, <1>5, <1>6, <1>7, <1>8, <1>9

\* Hence such a step preserves the invariant.
LEMMA WorkerInv ==
  ASSUME Inv, TypeOK', Keeps,
         \A u \in Traces :
            gateway'[u] \in {gateway[u], {}, restore_approved_sources(u)},
         \A u \in Traces :
            \/ offered'[u] = offered[u] /\ current'[u] = current[u]
            \/ offered'[u] = {}
            \/ offered'[u] = {s \in Sources : is_visible(u, current'[u], s)}
  PROVE  Inv'
<1> USE DEF Keeps, storeVars, userVars
<1>1. IsFiniteSet(approved)' /\ LedgersSorted'
  BY DEF Inv, LedgersSorted
<1>2. GrantsApproved'
  <2>1. \A u \in Traces : AllApproved(approved, gateway[u]) /\ AllApproved(approved, {})
            /\ AllApproved(approved, restore_approved_sources(u))
    BY RestoredApproved DEF Inv, GrantsApproved, AllApproved
  <2>2. \A u \in Traces : AllApproved(approved, gateway'[u])
    BY <2>1
  <2> QED
    BY <2>2 DEF Inv, GrantsApproved
<1>3. LiveBacked'
  BY DEF Inv, LiveBacked, list
<1>4. OfferedWasApproved'
  <2> SUFFICES ASSUME NEW u \in Traces, NEW s \in offered'[u]
               PROVE  \E a \in approved : a.source = s /\ Covers(a, u, current'[u])
    BY DEF OfferedWasApproved, Covers
  <2>1. CASE offered'[u] = offered[u] /\ current'[u] = current[u]
    BY <2>1 DEF Inv, OfferedWasApproved
  <2>2. CASE offered'[u] = {x \in Sources : is_visible(u, current'[u], x)}
    <3>1. PICK g \in gateway[u] : grant_matches(g, u, current'[u], s)
      BY <2>2 DEF is_visible
    <3>2. PICK a \in approved : a.trace = g.trace /\ a.item = g.item
                                /\ a.source = g.source /\ a.scope = g.scope
      BY <3>1 DEF Inv, GrantsApproved, AllApproved, Approved
    <3> QED
      BY <3>1, <3>2 DEF grant_matches, Covers
  <2> QED
    BY <2>1, <2>2
<1> QED
  BY <1>1, <1>2, <1>3, <1>4 DEF Inv

----------------------------------------------------------------------------
\* The API.

\* An approval adds a grant that repeats it, or is answered with an active grant of
\* the same item and source; either is in the ledgers afterwards.
LEMMA ApproveInv ==
  ASSUME Inv, NEW t \in Traces, NEW s \in Sources, NEW scope \in Scopes,
         Approve(t, s, scope)
  PROVE  Inv'
<1> DEFINE i == waiting[t]
           new == [id |-> next_id, trace |-> t, item |-> i, source |-> s, scope |-> scope,
                   status |-> "active"]
           rec == [trace |-> t, item |-> i, source |-> s, scope |-> scope,
                   n |-> Cardinality(approved)]
           ev == [item |-> i, source |-> s, scope |-> scope]
           lv == [item |-> i, source |-> s, id |-> grant_id(t, i, s)]
<1>0. TypeOK /\ LedgersSorted
  BY DEF Inv
<1>1. i \in Items
  BY <1>0 DEF Approve, TypeOK
<1>2. /\ approved' = approved \cup {rec}
      /\ events' = [events EXCEPT ![t] = Append(@, ev)]
      /\ live' = [live EXCEPT ![t] = @ \cup {lv}]
      /\ status' = [status EXCEPT ![t] = "running"]
      /\ UNCHANGED <<current, offered, completed, retries, gateway, working, waiting>>
      /\ grant(t, i, s, scope)
  BY DEF Approve, turnVars, workerVars
<1>3. IsFiniteSet(approved') /\ Cardinality(approved) \in Nat
  BY <1>2, FS_AddElement, FS_CardinalityType DEF Inv
<1>4. new \in Grants /\ is_active(new) /\ new.item = i /\ new.source = s /\ new.id = next_id
      /\ new.scope = scope /\ new.trace = t
  BY <1>0, <1>1 DEF Grants, TypeOK, is_active
<1>5. \/ /\ existing(t, i, s) # {}
         /\ UNCHANGED <<project_ledger, trace_ledger, next_id>>
      \/ /\ existing(t, i, s) = {} /\ next_id' = next_id + 1 /\ scope = "project"
         /\ project_ledger' = project_ledger \cup {new} /\ UNCHANGED trace_ledger
      \/ /\ existing(t, i, s) = {} /\ next_id' = next_id + 1 /\ scope # "project"
         /\ trace_ledger' = [trace_ledger EXCEPT ![t] = {h \in @ : is_active(h)} \cup {new}]
         /\ UNCHANGED project_ledger
  BY <1>2 DEF grant
<1> HIDE DEF new, rec, ev, lv
<1>6. /\ next_id' \in Nat
      /\ project_ledger' \subseteq Grants /\ trace_ledger' \in [Traces -> SUBSET Grants]
      /\ LedgersSorted'
      /\ project_ledger' \subseteq project_ledger \cup {new}
      /\ \A u \in Traces : trace_ledger'[u] \subseteq trace_ledger[u] \cup {new}
  <2>1. CASE UNCHANGED <<project_ledger, trace_ledger, next_id>>
    BY <1>0, <2>1 DEF TypeOK, LedgersSorted
  <2>2. CASE /\ next_id' = next_id + 1 /\ scope = "project"
             /\ project_ledger' = project_ledger \cup {new} /\ UNCHANGED trace_ledger
    BY <1>0, <1>4, <2>2 DEF TypeOK, LedgersSorted
  <2>3. CASE /\ next_id' = next_id + 1 /\ scope # "project"
             /\ trace_ledger' = [trace_ledger EXCEPT
                    ![t] = {h \in @ : is_active(h)} \cup {new}]
             /\ UNCHANGED project_ledger
    <3>1. /\ trace_ledger' \in [Traces -> SUBSET Grants]
          /\ trace_ledger'[t] = {h \in trace_ledger[t] : is_active(h)} \cup {new}
          /\ \A u \in Traces \ {t} : trace_ledger'[u] = trace_ledger[u]
      BY <1>0, <1>4, <2>3 DEF TypeOK
    <3>2. \A u \in Traces : \A g \in trace_ledger'[u] : g \in trace_ledger[u] \/ (u = t /\ g = new)
      BY <3>1
    <3>3. LedgersSorted'
      BY <1>0, <1>4, <2>3, <3>2 DEF LedgersSorted
    <3> QED
      BY <1>0, <2>3, <3>1, <3>2, <3>3 DEF TypeOK
  <2> QED
    BY <1>5, <2>1, <2>2, <2>3
\* No active grant is lost.
<1>7. /\ \A u \in Traces : \A g \in list(u) : is_active(g) => g \in list(u)'
      /\ existing(t, i, s) = {} => new \in list(t)'
  <2>1. project_ledger \subseteq project_ledger'
        /\ \A u \in Traces : \A g \in trace_ledger[u] : is_active(g) => g \in trace_ledger'[u]
    BY <1>0, <1>5 DEF TypeOK
  <2>2. existing(t, i, s) = {} => new \in project_ledger' \cup trace_ledger'[t]
    BY <1>0, <1>5 DEF TypeOK
  <2> QED
    BY <1>4, <2>1, <2>2 DEF list
\* The grant that answers the approval.
<1>8. /\ grant_id(t, i, s) \in Nat
      /\ \E g \in list(t)' : is_active(g) /\ g.id = grant_id(t, i, s) /\ g.source = s /\ g.item = i
  <2>1. CASE existing(t, i, s) = {}
    <3>1. grant_id(t, i, s) = next_id
      BY <2>1 DEF grant_id
    <3> QED
      BY <1>0, <1>4, <1>7, <2>1, <3>1 DEF TypeOK
  <2>2. CASE existing(t, i, s) # {}
    <3> DEFINE e == CHOOSE g \in existing(t, i, s) : TRUE
    <3>1. e \in existing(t, i, s) /\ grant_id(t, i, s) = e.id
      BY <2>2 DEF grant_id
    <3> HIDE DEF e
    <3>2. e \in list(t) /\ is_active(e) /\ e.source = s /\ e.item = i
      BY <3>1 DEF existing
    <3>3. e.id \in Nat
      BY <1>0, <3>2, ListType DEF Grants
    <3> QED
      BY <1>7, <3>1, <3>2, <3>3
  <2> QED
    BY <2>1, <2>2
<1>9. lv \in [item : Items, source : Sources, id : Nat] /\ lv.item = i /\ lv.source = s
      /\ lv.id = grant_id(t, i, s)
  BY <1>1, <1>8 DEF lv
<1>10. /\ rec \in [trace : Traces, item : Items, source : Sources, scope : Scopes, n : Nat]
       /\ rec.trace = t /\ rec.item = i /\ rec.source = s /\ rec.scope = scope
  BY <1>1, <1>3 DEF rec
<1>11. ev \in [item : Items, source : Sources, scope : Scopes] /\ ev.item = i /\ ev.source = s
       /\ ev.scope = scope
  BY <1>1 DEF ev
<1>12. /\ events' \in [Traces -> Seq([item : Items, source : Sources, scope : Scopes])]
       /\ \A u \in Traces : \A n \in DOMAIN events'[u] :
             \/ n \in DOMAIN events[u] /\ events'[u][n] = events[u][n]
             \/ u = t /\ events'[u][n] = ev
  <2> DEFINE E == [item : Items, source : Sources, scope : Scopes]
  <2>1. events \in [Traces -> Seq(E)] /\ ev \in E
    BY <1>0, <1>11 DEF TypeOK
  <2> HIDE DEF E
  <2>2. events' \in [Traces -> Seq(E)] /\ events'[t] = Append(events[t], ev)
        /\ \A u \in Traces \ {t} : events'[u] = events[u]
    BY <1>2, <2>1
  <2>3. \A n \in DOMAIN events'[t] :
            (n \in DOMAIN events[t] /\ events'[t][n] = events[t][n]) \/ events'[t][n] = ev
    BY <2>1, <2>2
  <2> QED
    BY <2>2, <2>3 DEF E
<1>13. TypeOK'
  <2>1. live' \in [Traces -> SUBSET [item : Items, source : Sources, id : Nat]]
    BY <1>0, <1>2, <1>9 DEF TypeOK
  <2>2. status' \in [Traces -> {"running", "waiting", "failed", "blocked", "completed"}]
    BY <1>0, <1>2 DEF TypeOK
  <2>3. approved' \subseteq [trace : Traces, item : Items, source : Sources, scope : Scopes,
                             n : Nat]
    BY <1>0, <1>2, <1>10 DEF TypeOK
  <2> QED
    BY <1>0, <1>2, <1>6, <1>12, <2>1, <2>2, <2>3 DEF TypeOK, Grants
<1>14. GrantsApproved'
  <2>1. \A u, j, r, p : Approved(approved, u, j, r, p) => Approved(approved', u, j, r, p)
    BY <1>2 DEF Approved
  <2>2. Approved(approved', t, i, s, scope)
    BY <1>2, <1>10 DEF Approved
  <2>3. AllApproved(approved', {new})
    BY <1>4, <2>2 DEF AllApproved
  <2>4. AllApproved(approved', project_ledger')
    BY <1>6, <2>1, <2>3 DEF Inv, GrantsApproved, AllApproved
  <2>5. \A u \in Traces : AllApproved(approved', trace_ledger'[u])
    BY <1>6, <2>1, <2>3 DEF Inv, GrantsApproved, AllApproved
  <2>6. \A u \in Traces : AllApproved(approved', gateway'[u])
    BY <1>2, <2>1 DEF Inv, GrantsApproved, AllApproved
  <2>7. \A u \in Traces : \A n \in DOMAIN events'[u] :
            Approved(approved', u, events'[u][n].item, events'[u][n].source, events'[u][n].scope)
    BY <1>11, <1>12, <2>1, <2>2 DEF Inv, GrantsApproved
  <2> QED
    BY <2>4, <2>5, <2>6, <2>7 DEF GrantsApproved
<1>15. LiveBacked'
  <2> SUFFICES ASSUME NEW u \in Traces, NEW a \in live'[u]
               PROVE  \E g \in list(u)' : is_active(g) /\ g.id = a.id /\ g.source = a.source
                                        /\ g.item = a.item
    BY DEF LiveBacked, is_active
  <2>1. CASE a \in live[u]
    BY <1>7, <2>1 DEF Inv, LiveBacked
  <2>2. CASE u = t /\ a = lv
    BY <1>8, <1>9, <2>2
  <2>3. a \in live[u] \/ (u = t /\ a = lv)
    BY <1>0, <1>2 DEF TypeOK
  <2> QED
    BY <2>1, <2>2, <2>3
<1>16. OfferedWasApproved'
  BY <1>2 DEF Inv, OfferedWasApproved, Covers
<1> QED
  BY <1>3, <1>6, <1>13, <1>14, <1>15, <1>16 DEF Inv

\* A revocation keeps every other grant of every Trace.
LEMMA RevokeInv ==
  ASSUME Inv, NEW t \in Traces, NEW g \in list(t), Revoke(t, g)
  PROVE  Inv'
<1> DEFINE revoked == [g EXCEPT !.status = "revoked"]
           kept == (list(t) \ {g}) \cup {revoked}
<1>0. TypeOK /\ LedgersSorted
  BY DEF Inv
<1>1. /\ g \in Grants
      /\ revoked \in Grants /\ revoked.scope = g.scope /\ revoked.trace = g.trace
      /\ revoked.item = g.item /\ revoked.source = g.source
  BY <1>0, ListType DEF Grants
<1>2. /\ project_ledger' = {h \in kept : h.scope = "project"}
      /\ trace_ledger' = [trace_ledger EXCEPT ![t] = {h \in kept : h.scope # "project"}]
      /\ live' = [u \in Traces |-> {a \in live[u] : a.id # g.id}]
      /\ UNCHANGED <<events, next_id, approved, current, offered, completed, retries, gateway,
                     working, status, waiting>>
  BY DEF Revoke, write_all, turnVars, workerVars
<1> HIDE DEF revoked
<1>3. list(t) = project_ledger \cup trace_ledger[t]
  BY <1>0, ListWhole
<1>4. kept \subseteq Grants /\ \A h \in kept : h.scope = "project" \/ h.trace = t
  BY <1>0, <1>1, ListType
<1> HIDE DEF kept
<1>5. /\ project_ledger' \subseteq Grants /\ trace_ledger' \in [Traces -> SUBSET Grants]
      /\ trace_ledger'[t] = {h \in kept : h.scope # "project"}
      /\ \A u \in Traces \ {t} : trace_ledger'[u] = trace_ledger[u]
      /\ \A u \in Traces : live'[u] = {a \in live[u] : a.id # g.id}
  BY <1>0, <1>2, <1>4 DEF TypeOK
<1>6. TypeOK'
  BY <1>0, <1>2, <1>5 DEF TypeOK, Grants
<1>7. LedgersSorted'
  BY <1>0, <1>2, <1>4, <1>5 DEF LedgersSorted
<1>8. \A u \in Traces : \A h \in list(u) : h # g => h \in list(u)'
  <2> SUFFICES ASSUME NEW u \in Traces, NEW h \in list(u), h # g
               PROVE  h \in project_ledger' \cup trace_ledger'[u]
    BY DEF list
  <2>1. CASE h \in project_ledger
    BY <1>0, <1>2, <1>3, <2>1 DEF kept, LedgersSorted
  <2>2. CASE h \in trace_ledger[u]
    BY <1>0, <1>3, <1>5, <2>2 DEF kept, LedgersSorted
  <2> QED
    BY <1>0, <2>1, <2>2, ListWhole
<1>9. GrantsApproved'
  <2>1. AllApproved(approved, kept)
    BY <1>1, <1>3 DEF Inv, GrantsApproved, AllApproved, kept
  <2>2. AllApproved(approved, project_ledger')
        /\ \A u \in Traces : AllApproved(approved, trace_ledger'[u])
    BY <1>2, <1>5, <2>1 DEF Inv, GrantsApproved, AllApproved
  <2> QED
    BY <1>2, <2>2 DEF Inv, GrantsApproved
<1>10. LiveBacked'
  <2> SUFFICES ASSUME NEW u \in Traces, NEW a \in live'[u]
               PROVE  \E h \in list(u)' : is_active(h) /\ h.id = a.id /\ h.source = a.source
                                        /\ h.item = a.item
    BY DEF LiveBacked, is_active
  <2>1. a \in live[u] /\ a.id # g.id
    BY <1>5
  <2>2. PICK h \in list(u) : is_active(h) /\ h.id = a.id /\ h.source = a.source
                            /\ h.item = a.item
    BY <2>1 DEF Inv, LiveBacked
  <2> QED
    BY <1>8, <2>1, <2>2
<1>11. OfferedWasApproved'
  BY <1>2 DEF Inv, OfferedWasApproved, Covers
<1> QED
  BY <1>2, <1>6, <1>7, <1>9, <1>10, <1>11 DEF Inv

LEMMA InitInv == Init => Inv
<1> SUFFICES ASSUME Init PROVE Inv
  OBVIOUS
<1>1. TypeOK
  BY GatewayAssumption DEF Init, TypeOK
<1>2. IsFiniteSet(approved)
  BY FS_EmptySet DEF Init
<1>3. LedgersSorted /\ GrantsApproved /\ LiveBacked /\ OfferedWasApproved
  BY DEF Init, LedgersSorted, GrantsApproved, AllApproved, LiveBacked, OfferedWasApproved
<1> QED
  BY <1>1, <1>2, <1>3 DEF Inv

LEMMA StepInv == Inv /\ [Next]_vars => Inv'
<1> SUFFICES ASSUME Inv, [Next]_vars PROVE Inv'
  OBVIOUS
<1>1. ASSUME NEW t \in Traces, TraceStep(t) PROVE Inv'
  <2>1. ASSUME NEW s \in Sources, NEW scope \in Scopes, Approve(t, s, scope) PROVE Inv'
    BY <2>1, ApproveInv
  <2>2. ASSUME NEW g \in list(t), Revoke(t, g) PROVE Inv'
    BY <2>2, RevokeInv
  <2>3. CASE \/ StartWorker(t) \/ Die(t) \/ Complete(t) \/ AsksAgain(t)
             \/ AsksForNothing(t) \/ Asks(t) \/ Resume(t)
             \/ \E i \in Items : StartTurn(t, i)
             \/ \E s \in Sources : UseTool(t, s)
    BY <2>3, WorkerSteps, WorkerInv
  <2> QED
    BY <1>1, <2>1, <2>2, <2>3 DEF TraceStep
<1>2. CASE UNCHANGED vars
  <2>1. UNCHANGED <<gateway, offered, current>> /\ Keeps
    BY <1>2 DEF vars, turnVars, workerVars, Keeps
  <2>2. TypeOK'
    BY <1>2 DEF vars, storeVars, userVars, turnVars, workerVars, Inv, TypeOK
  <2> QED
    BY <2>1, <2>2, WorkerInv
<1> QED
  BY <1>1, <1>2 DEF Next, Over

LEMMA Invariance == Spec => []Inv
BY InitInv, StepInv, PTL DEF Spec

\* The stores, the gateways and the turns of every Trace keep their types.
THEOREM GatewayTypeCorrect == Spec => []TypeOK
<1>1. Inv => TypeOK
  BY DEF Inv
<1> QED
  BY <1>1, Invariance, PTL

\* An Agent never has an on-demand tool that no user approved for its item, its
\* Trace or the project (policy.py _grant_matches, runs.py _restore_approved_sources).
THEOREM ToolsAreApproved == Spec => []OfferedWasApproved
<1>1. Inv => OfferedWasApproved
  BY DEF Inv
<1> QED
  BY <1>1, Invariance, PTL

\* Every Worker that starts can offer each approval that was not revoked
\* (runs.py _restore_approved_sources against grants.py grant and revoke).
THEOREM ApprovalsReachWorkers == Spec => ApprovalReachesWorker
<1> DEFINE A == \A t \in Traces : working'[t] /\ ~working[t] =>
                  \A a \in live[t] : \E g \in gateway'[t] : grant_matches(g, t, a.item, a.source)
<1>1. Inv /\ [Next]_vars => [A]_vars
  <2> SUFFICES ASSUME Inv, Next, NEW t \in Traces, working'[t], ~working[t], NEW a \in live[t]
               PROVE  \E g \in gateway'[t] : grant_matches(g, t, a.item, a.source)
    OBVIOUS
  <2>1. gateway'[t] = restore_approved_sources(t)
    <3>1. ~UNCHANGED working
      OBVIOUS
    <3>2. ASSUME NEW u \in Traces, TraceStep(u) PROVE StartWorker(u) \/ working'[t] = FALSE
      <4>1. working \in [Traces -> BOOLEAN]
        BY DEF Inv, TypeOK
      <4>2. CASE Leaves(u)
        BY <4>1, <4>2 DEF Leaves
      <4>3. Fails(u) => Leaves(u) \/ UNCHANGED working
        BY DEF Fails, workerVars
      <4>4. CASE ~Leaves(u)
        BY <3>1, <3>2, <4>3, <4>4
           DEF TraceStep, Die, Complete, AsksAgain, AsksForNothing, Asks, Resume, StartTurn,
               UseTool, Approve, Revoke, workerVars
      <4> QED
        BY <4>2, <4>4
    <3> QED
      BY <3>1, <3>2 DEF Inv, TypeOK, Next, Over, vars, workerVars, StartWorker
  <2>2. PICK g \in list(t) : is_active(g) /\ g.source = a.source /\ g.item = a.item
    BY DEF Inv, LiveBacked
  <2>3. g.scope = "project" \/ g.trace = t
    BY ListType DEF Inv
  <2> QED
    BY <2>1, <2>2, <2>3 DEF restore_approved_sources, grant_matches
<1> QED
  BY <1>1, Invariance, PTL DEF Spec, ApprovalReachesWorker

\* No item goes back to the approval wait while an approval of it stands
\* (runner.py _capability_granted against the ledgers).
THEOREM WaitsOnce == Spec => NoSecondWait
<1> DEFINE A == \A t \in Traces : status'[t] = "waiting" /\ status[t] # "waiting" =>
                  \A a \in live[t] : a.item # current[t]
<1>1. Inv /\ [Next]_vars => [A]_vars
  <2> SUFFICES ASSUME Inv, Next, NEW t \in Traces, status'[t] = "waiting",
                      status[t] # "waiting", NEW a \in live[t], a.item = current[t]
               PROVE  FALSE
    OBVIOUS
  <2>1. ~capability_granted(t, current[t])
    <3>1. ASSUME NEW u \in Traces, TraceStep(u) PROVE Asks(u) \/ status'[t] # "waiting"
      <4> DEFINE Verdict == \/ status' = status
                            \/ \E s \in {"running", "failed", "blocked", "completed"} :
                                   status' = [status EXCEPT ![u] = s]
      <4>1. ASSUME StartWorker(u) \/ Die(u) \/ Resume(u) \/ AsksForNothing(u)
            PROVE  Verdict
        BY <4>1 DEF StartWorker, Die, Resume, AsksForNothing
      <4>2. ASSUME Complete(u) PROVE Verdict
        BY <4>2 DEF Complete
      <4>3. ASSUME Fails(u) PROVE Verdict
        BY <4>3 DEF Fails
      <4>4. ASSUME \/ AsksAgain(u)
                   \/ \E i \in Items : StartTurn(u, i)
                   \/ \E s \in Sources : UseTool(u, s)
            PROVE  Verdict
        BY <4>3, <4>4 DEF AsksAgain, StartTurn, UseTool
      <4>5. ASSUME \/ \E s \in Sources, scope \in Scopes : Approve(u, s, scope)
                   \/ \E g \in list(u) : Revoke(u, g)
            PROVE  Verdict
        BY <4>5 DEF Approve, Revoke
      <4>6. Asks(u) \/ Verdict
        BY <3>1, <4>1, <4>2, <4>4, <4>5 DEF TraceStep
      <4>7. status \in [Traces -> {"running", "waiting", "failed", "blocked", "completed"}]
        BY DEF Inv, TypeOK
      <4> QED
        BY <4>6, <4>7
    <3> QED
      BY <3>1 DEF Inv, TypeOK, Next, Over, vars, Asks
  <2>2. PICK g \in list(t) : is_active(g) /\ g.source = a.source /\ g.item = a.item
    BY DEF Inv, LiveBacked
  <2>3. (g.scope = "project" \/ g.trace = t) /\ g.scope \in Scopes
    BY ListType DEF Inv, Grants
  <2> QED
    BY <2>1, <2>2, <2>3 DEF capability_granted, Scopes
<1> QED
  BY <1>1, Invariance, PTL DEF Spec, NoSecondWait
=============================================================================
