----------------------------- MODULE PlanPatch -----------------------------
(***************************************************************************)
(* What the Planner's output may become: a PlanDraft is validated into an  *)
(* ExecutionPlan (app/planner/validator.py, dependency_policy.py), and a   *)
(* PlanPatch is applied to one (app/planner/patch.py).                     *)
(*                                                                         *)
(* A plan is a record of its id, whether a WorkItem of it is controlled    *)
(* (not EXCLUSIVE) and its WorkItems, a function from ids to agent,        *)
(* objective and dependencies.  An objective is the revision of the plan   *)
(* that wrote it.  The id of a patched plan is the id of its base with the *)
(* number of operations appended.  References by name that do not resolve  *)
(* (an unknown agent, template, process or stage, a repeated ref) fail as  *)
(* a draft that does not parse does, and are one case: "malformed".        *)
(***************************************************************************)
EXTENDS Naturals, Sequences, FiniteSets, SequencesExt

StepId(n, agent) == <<"step", n, agent>>
AddedId(n, agent) == <<"patch", n, agent>>

WorkItem(agent, objective, deps) ==
    [agent |-> agent, objective |-> objective, deps |-> deps]

NoPlan == [id |-> <<>>, controlled |-> FALSE, items |-> <<>>]

\* The checks of ExecutionPlan's constructor: dependencies are WorkItems of
\* the plan and no WorkItem waits for itself.
Acyclic(items) ==
    \A S \in (SUBSET DOMAIN items) \ {{}} : \E i \in S : items[i].deps \cap S = {}

WellFormed(items) ==
    /\ \A i \in DOMAIN items : items[i].deps \subseteq DOMAIN items
    /\ Acyclic(items)

----------------------------------------------------------------------------
\* The project a plan is made for, as PlanningContext.build sees it: no
\* implementation file yet, an environment artifact, and the requirement,
\* architecture and tasks artifacts.

BaselineComplete(context) == context.environment /\ context.baseline

\* preflight_controlled_template: a blank project asked for a delivery gets the
\* default controlled template without a call of the model.
PreflightControlled(context, delivery) ==
    context.blank /\ ~BaselineComplete(context) /\ delivery

Agents(draft) == {draft.steps[n].agent : n \in DOMAIN draft.steps}

\* _requires_full_delivery; a plan that starts from a Blueprint is exempt.
RequiresFullDelivery(draft, context) ==
    /\ context.blank /\ ~BaselineComplete(context)
    /\ Agents(draft) \cap {"test_agent", "review_agent"} # {}
    /\ \A n \in DOMAIN draft.steps : ~draft.steps[n].blueprint

\* _apply_system_rules: which agent waits for which.
SystemRules(context) ==
    (IF context.blank
     THEN {<<"test_agent", "code_agent">>, <<"review_agent", "code_agent">>,
           <<"review_agent", "test_agent">>}
     ELSE {})
    \cup
    (IF ~context.environment
     THEN {<<"code_agent", "bootstrap_agent">>, <<"test_agent", "bootstrap_agent">>}
     ELSE {})

StepsOf(draft, agent) == {n \in DOMAIN draft.steps : draft.steps[n].agent = agent}

\* _add_unambiguous_dependency: one candidate, or the one the step names.
add_unambiguous_dependency(draft, n, agent) ==
    IF Cardinality(StepsOf(draft, agent)) = 1 THEN StepsOf(draft, agent)
    ELSE StepsOf(draft, agent) \cap draft.steps[n].depends_on

\* A plausible slip: a rule with several candidates is left to the Planner.
SystemPredecessors_Lenient(draft, context, n) ==
    {agent \in Agents(draft) :
        /\ <<draft.steps[n].agent, agent>> \in SystemRules(context)
        /\ Cardinality(StepsOf(draft, agent)) = 1}

SystemPredecessors(draft, context, n) ==
    {rule[2] : rule \in {r \in SystemRules(context) : r[1] = draft.steps[n].agent}}

\* DependencyPolicy.resolve: the Planner's own choice and the system's rules.
resolve(draft, context, n) ==
    draft.steps[n].depends_on \cup
    UNION {add_unambiguous_dependency(draft, n, agent) :
             agent \in SystemPredecessors(draft, context, n)}

DraftItems(draft, context) ==
    LET Id(n) == StepId(n, draft.steps[n].agent)
    IN  [id \in {Id(n) : n \in DOMAIN draft.steps} |->
           WorkItem(id[3], 1, {Id(m) : m \in resolve(draft, context, id[2])})]

\* What PlanValidator.validate rejects with a PlanValidationError.
Rejected(draft, context) ==
    \/ RequiresFullDelivery(draft, context)
    \/ draft.steps = <<>> \/ "task_agent" \in Agents(draft)
    \/ \E n \in DOMAIN draft.steps :
          \/ ~(draft.steps[n].depends_on \subseteq (DOMAIN draft.steps \ {n}))
          \/ \E agent \in SystemPredecessors(draft, context, n) :
                Cardinality(add_unambiguous_dependency(draft, n, agent)) # 1

\* validate: "rejected", "raised" (a WorkItem refuses a blank criterion with a
\* plain ValueError nobody catches) or "accepted".  A draft that names a
\* controlled template is compiled from it, whatever its steps are.
validate(draft, context) ==
    IF draft.template THEN
        IF RequiresFullDelivery(draft, context) /\ ~draft.lifecycle
        THEN "rejected" ELSE "accepted"
    ELSE IF Rejected(draft, context) THEN "rejected"
    ELSE IF draft.blank_criterion THEN "raised"
    ELSE IF ~Acyclic(DraftItems(draft, context)) THEN "rejected"
    ELSE "accepted"

\* TemplateCompiler.compile (see PlanTemplates), reduced to a chain of two.
ControlledItems ==
    LET first == StepId(1, "task_agent")
    IN  [id \in {first, StepId(2, "code_agent")} |->
           WorkItem(id[3], 1, IF id = first THEN {} ELSE {first})]

DraftPlan(number, draft, context) ==
    [id |-> <<number>>,
     controlled |-> draft.template \/ \E n \in DOMAIN draft.steps : draft.steps[n].blueprint,
     items |-> IF draft.template THEN ControlledItems ELSE DraftItems(draft, context)]

ControlledPlan(number) ==
    [id |-> <<number>>, controlled |-> TRUE, items |-> ControlledItems]

----------------------------------------------------------------------------
\* PatchOperation.  An operation is a modify, a remove or an add; "objective"
\* says whether it carries one.

ItemIds == {"step", "patch"} \X Nat \X STRING

PatchOperation ==
    [operation : {"modify", "remove", "add"}, item : ItemIds \cup {<<>>}, agent : STRING,
     deps : SUBSET ItemIds, objective : BOOLEAN]

ModifyOp(item, deps, objective) ==
    [operation |-> "modify", item |-> item, agent |-> "none", deps |-> deps,
     objective |-> objective]
RemoveOp(item) ==
    [operation |-> "remove", item |-> item, agent |-> "none", deps |-> {},
     objective |-> FALSE]
AddOp(agent, deps) ==
    [operation |-> "add", item |-> <<>>, agent |-> agent, deps |-> deps,
     objective |-> TRUE]

\* ChangeBudget.
max_added == 2
max_removed == 1
max_modified == 2

\* PlanPatch.parse: a list of one to five operations.
Parses(patch) == \E n \in 1..5 : patch.ops \in [1..n -> PatchOperation]

\* The operations of a kind, in their order.
OfKind(patch, kind) ==
    LET at == {n \in DOMAIN patch.ops : patch.ops[n].operation = kind}
    IN  [k \in 1..Cardinality(at) |->
            patch.ops[CHOOSE n \in at : Cardinality({m \in at : m < n}) = k - 1]]

Touched(patch, kind) == {op.item : op \in Range(OfKind(patch, kind))}

\* repair_scope, when the patch carries one, bounds what it names.
WithinScope(items, patch) ==
    patch.scope # {} =>
      /\ patch.scope \subseteq DOMAIN items
      /\ \A op \in Range(patch.ops) :
            /\ op.item # <<>> => op.item \in patch.scope
            /\ op.deps \subseteq patch.scope

\* Dependencies are frozen: a modify may repeat them, never change them.
KeepsDependencies(items, patch) ==
    \A op \in Range(OfKind(patch, "modify")) :
        op.deps # {} /\ op.item \in DOMAIN items => op.deps = items[op.item].deps

WithinBudget(patch) ==
    /\ Len(OfKind(patch, "modify")) <= max_modified
    /\ Len(OfKind(patch, "add")) <= max_added
    /\ Len(OfKind(patch, "remove")) <= max_removed

NamesItemsOnce(items, patch) ==
    LET named == Touched(patch, "modify") \cup Touched(patch, "remove")
    IN  /\ named \subseteq DOMAIN items
        /\ Cardinality(named) = Len(OfKind(patch, "modify")) + Len(OfKind(patch, "remove"))

RemovesLeaves(items, patch) ==
    \A i \in DOMAIN items \ Touched(patch, "remove") :
        items[i].deps \cap Touched(patch, "remove") = {}

\* The ids the adds get: numbered per patch, not per plan.
Added(patch) ==
    LET adds == OfKind(patch, "add")
    IN  [n \in DOMAIN adds |-> AddedId(n, adds[n].agent)]

AddsFit(items, patch) ==
    LET adds == OfKind(patch, "add")
        kept == DOMAIN items \ Touched(patch, "remove")
        Before(n) == kept \cup {Added(patch)[m] : m \in 1 .. n - 1}
    IN  \A n \in DOMAIN adds :
            /\ adds[n].deps \subseteq Before(n)
            /\ Added(patch)[n] \notin Before(n)

\* What parse and apply_patch accept; everything else is a PlanPatchError.
LegalPatch(plan, patch) ==
    /\ Parses(patch)
    /\ patch.base = plan.id /\ ~plan.controlled
    /\ WithinScope(plan.items, patch)
    /\ KeepsDependencies(plan.items, patch)
    /\ WithinBudget(patch)
    /\ NamesItemsOnce(plan.items, patch)
    /\ \A op \in Range(OfKind(patch, "modify")) : op.objective
    /\ RemovesLeaves(plan.items, patch)
    /\ AddsFit(plan.items, patch)

Revision(plan) == Len(plan.id)

\* apply_patch: the WorkItems of the patched plan.
apply_patch(plan, patch) ==
    LET adds == OfKind(patch, "add")
        kept == DOMAIN plan.items \ Touched(patch, "remove")
        revision == Revision(plan) + 1
        New(id) == adds[CHOOSE n \in DOMAIN adds : Added(patch)[n] = id]
    IN  [id |-> Append(plan.id, Len(patch.ops)), controlled |-> plan.controlled,
         items |-> [id \in kept \cup Range(Added(patch)) |->
             IF id \notin kept THEN WorkItem(New(id).agent, revision, New(id).deps)
             ELSE IF id \in Touched(patch, "modify")
                  THEN [plan.items[id] EXCEPT !.objective = revision]
                  ELSE plan.items[id]]]

\* The loop at the end of apply_patch: S and all that waits for it.
Downstream(items, S) ==
    S \cup {i \in DOMAIN items :
        \A U \in SUBSET DOMAIN items :
            /\ S \cap DOMAIN items \subseteq U
            /\ \A j \in DOMAIN items : items[j].deps \cap U # {} => j \in U
            => i \in U}

\* A plausible slip: what waits for a changed WorkItem keeps its result.
Invalidated_TouchedOnly(plan, patch) ==
    Touched(patch, "remove") \cup Touched(patch, "modify") \cup Range(Added(patch))

\* invalidated_work_item_ids.
Invalidated(plan, patch) ==
    Downstream(apply_patch(plan, patch).items,
        Touched(patch, "remove") \cup Touched(patch, "modify") \cup Range(Added(patch)))
=============================================================================
