----------------------------- MODULE PlanGrowth -----------------------------
(***************************************************************************)
(* A plan that grows while it runs: GraphRunner.run expands the blueprint  *)
(* into module items, the module designs into implementation items, the    *)
(* contract into a delivery tail and into code items, between two batches  *)
(* (app/orchestration/runner.py, app/planner/dynamic_builder.py,           *)
(* app/planner/delivery_tail.py, app/workflow/compiler.py).  Every         *)
(* expansion rewrites durable files one after the other; a Worker may die  *)
(* between any two of them, and the resume (app/application/runs.py)       *)
(* rebuilds the run from what is on disk.                                  *)
(*                                                                         *)
(* What an Agent designs is data chosen when its item completes: the       *)
(* module graph of the blueprint, whether a ModuleDesign agrees with it,   *)
(* and the units of the contract.  Batches are atomic here; GraphRunner    *)
(* has their steps.                                                        *)
(***************************************************************************)
EXTENDS PlanTemplates, FiniteSetsExt

CONSTANTS
    Started,      \* ids of the templates a run may start from
    Blueprints,   \* module graphs: functions from modules to their depends_on
    Contracts,    \* unit graphs: functions from units to records
    max_modules,  \* limit of the process definition
    MaxCrashes    \* bound on Worker crashes

NoDesign == <<>>

ASSUME GrowthAssumption ==
    /\ Started \subseteq DOMAIN templates \cup {"planner", "planner_early"}
    /\ max_modules \in Nat \ {0} /\ MaxCrashes \in Nat

VARIABLES
    plan,       \* state.plan
    done,       \* ids with a completed result, in memory
    pc, todo, after,
    template, trace,
    hist,       \* plans/<plan_id>.json
    baseline,   \* baseline.json: the contracts of a plan
    ckpt,       \* checkpoint.json
    logged,     \* items whose last event is work_item_completed
    blueprint, agreed, contract,   \* what the Agents staged and published
    prepared, crashes

vars == <<plan, done, pc, todo, after, template, trace, hist, baseline, ckpt,
          logged, blueprint, agreed, contract, prepared, crashes>>
designVars == <<blueprint, agreed, contract>>
diskVars == <<hist, baseline, ckpt, logged, designVars, prepared>>

----------------------------------------------------------------------------
\* A plan of the Planner's own (PlanValidator.validate without a template):
\* stages up to the contract, then EXCLUSIVE delivery items; early is what the
\* environment item waits for.
PlannerPlan(early) ==
    LET P(name) == <<"planner", name>>
        Ex(name, agent, deps) ==
            Item(P(name), agent, None, "exclusive", NoSlot, None, T(None), deps, {})
        Pub(name, agent, stage, pub, deps) ==
            Item(P(name), agent, stage, "integration", NoSlot, pub, T(None), deps, {})
    IN  << Ex("requirement", "requirement_agent", {}),
           Item(P("blueprint"), "architecture_agent", "architecture_blueprint",
                "partitioned", <<"blueprint", "">>, None, T(None), {P("requirement")}, {}),
           Pub("integration", "architecture_agent", "architecture_integration",
               "architecture", {P("blueprint")}),
           Pub("contract", "architecture_contract_agent", "contract",
               "architecture_contract", {P("integration")}),
           Ex("environment", "bootstrap_agent", {P(early)}),
           Ex("code", "code_agent", {P("contract"), P("environment")}),
           Ex("test", "test_agent", {P("code"), P("environment")}),
           Ex("review", "review_agent", {P("code"), P("test")}) >>

PlanOf(t) ==
    CASE t = "planner" -> PlannerPlan("contract")
      [] t = "planner_early" -> PlannerPlan("requirement")
      [] OTHER -> templates[t]

----------------------------------------------------------------------------
\* BlueprintValidator.validate.
BlueprintValid(bp) ==
    /\ bp # NoDesign
    /\ Cardinality(DOMAIN bp) <= max_modules
    /\ \A m \in DOMAIN bp : bp[m] \subseteq DOMAIN bp /\ m \notin bp[m]
    /\ acyclic(bp)

IsBlueprint(i) == i.stage = "architecture_blueprint"
IsModule(i) == i.stage = "architecture_module" \/ i.slot[1] = "module"
IsImplementation(i) ==
    i.stage = "architecture_implementation" \/ i.slot[1] = "implementation"
IsArchitectureIntegration(i) ==
    \/ i.stage = "architecture_integration"
    \/ /\ i.agent = "architecture_agent" /\ i.mode = "integration"
       /\ i.pub = "architecture"
IsContract(i) == i.agent = "architecture_contract_agent"

ModuleId(m) == <<"module", m>>
ImplementationId(m) == <<"implementation", m>>

Completed(i) == i # <<>> /\ i[1].id \in done

\* waves: the longest chain of depends_on_modules below a module.
module_waves(bp) ==
    LET wave[m \in DOMAIN bp] == Max({0} \cup {wave[d] + 1 : d \in bp[m]})
    IN  wave

\* The integration waits for and reads what an expansion adds.
Extended(i, ids) == [i EXCEPT !.deps = @ \cup ids, !.refs = @ \cup ids]

Ready4Modules ==
    /\ ~\E k \in DOMAIN plan : IsModule(plan[k])
    /\ Completed(First(plan, IsBlueprint))

\* The item of every module of the blueprint, behind the blueprint and the
\* modules it depends on.
module_items ==
    LET root == First(plan, IsBlueprint)[1].id
        inputs(m) == {root} \cup {ModuleId(d) : d \in blueprint[m]}
    IN  {[Item(ModuleId(m), "architecture_agent", "architecture_module", "partitioned",
               <<"module", m>>, None, T(None), inputs(m), inputs(m))
            EXCEPT !.wave = module_waves(blueprint)[m]] : m \in DOMAIN blueprint}

\* Mutant: the integration is not told to wait for the modules.
expand_modules_Detached == plan \o SetToSeq(module_items)

\* DynamicPlanBuilder.expand_modules.
expand_modules ==
    LET root == First(plan, IsBlueprint)[1].id
        integration == First(plan, IsArchitectureIntegration)
        ids == {ModuleId(m) : m \in DOMAIN blueprint}
    IN  [k \in DOMAIN plan |->
            IF integration # <<>> /\ plan[k].id = integration[1].id
            THEN [Extended(plan[k], ids) EXCEPT !.refs = @ \cup {root}]
            ELSE plan[k]]
        \o SetToSeq(module_items)

ModuleIds == {plan[k].id : k \in {j \in DOMAIN plan :
                  plan[j].agent = "architecture_agent"
                  /\ plan[j].stage = "architecture_module"}}

Ready4Implementations ==
    /\ ModuleIds # {} /\ ModuleIds \subseteq done
    /\ Completed(First(plan, IsBlueprint))
    /\ First(plan, IsArchitectureIntegration) # <<>>
    /\ ~\E k \in DOMAIN plan : IsImplementation(plan[k])

\* The checks of expand_implementations: every module of the blueprint has one
\* design that agrees with it, and one item that made it.
DesignsAgree ==
    /\ BlueprintValid(blueprint)
    /\ agreed
    /\ ModuleIds = {ModuleId(m) : m \in DOMAIN blueprint}

\* An implementation waits for its own module design alone and reads those of
\* the modules it depends on.
implementation_items ==
    LET root == First(plan, IsBlueprint)[1].id
    IN  {[Item(ImplementationId(m), "architecture_agent", "architecture_implementation",
               "partitioned", <<"implementation", m>>, None, T(None), {ModuleId(m)},
               {root, ModuleId(m)} \cup {ModuleId(d) : d \in blueprint[m]})
            EXCEPT !.wave = module_waves(blueprint)[m]] : m \in DOMAIN blueprint}

\* DynamicPlanBuilder.expand_implementations: the contract stage reads what the
\* integration reads.
expand_implementations ==
    LET integration == First(plan, IsArchitectureIntegration)[1]
        extended == Extended(integration, {ImplementationId(m) : m \in DOMAIN blueprint})
    IN  [k \in DOMAIN plan |->
            CASE plan[k].id = integration.id -> extended
              [] plan[k].stage = "contract" -> [plan[k] EXCEPT !.refs = extended.refs]
              [] OTHER -> plan[k]]
        \o SetToSeq(implementation_items)

\* Mutant: the Planner's own test item is left in the plan.
delivery_agents_KeepTest ==
    {"task_agent", "bootstrap_agent", "code_agent", "code_integration_agent",
     "review_agent"}

\* delivery_agents: the kinds of item the tail replaces.
delivery_agents ==
    {"task_agent", "bootstrap_agent", "code_agent", "code_integration_agent",
     "test_agent", "review_agent"}

Ready4Tail ==
    /\ template \in {"planner", "planner_early", "project_delivery_dynamic"}
    /\ \E k \in DOMAIN plan : plan[k].agent \in delivery_agents
    /\ ~\E k \in DOMAIN plan : plan[k].id[1] = "tail"
    /\ Completed(First(plan, IsContract))

\* What the tail waits for: the contract, and the requirement and architecture
\* items of the plan, where it has them.
TailInputs ==
    LET known(P(_)) == LET f == First(plan, P) IN IF f = <<>> THEN {} ELSE {f[1].id}
    IN  {First(plan, IsContract)[1].id}
        \cup known(LAMBDA i : i.agent = "requirement_agent")
        \cup known(LAMBDA i : i.agent = "architecture_agent" /\ i.pub = "architecture")

\* DynamicDeliveryTailBuilder.append: every delivery item is replaced.
append_tail ==
    LET X(name) == <<"tail", name>>
        c == First(plan, IsContract)[1].id
        base == TailInputs
        New(name, agent, stage, mode, slot, pub, cand, deps, refs) ==
            Item(X(name), agent, stage, mode, slot, pub, cand, deps, refs)
    IN  SelectSeq(plan, LAMBDA i : i.agent \notin delivery_agents)
        \o << New("tasks-plan", "task_agent", "task", "partitioned", <<"part", "plan">>,
                  None, T(None), base, {}),
              New("tasks-integration", "task_agent", "task", "integration", NoSlot,
                  "tasks", T(None), {X("tasks-plan")}, {X("tasks-plan")}),
              New("tasks-quality", "task_agent", "task", "quality_gate", NoSlot, "tasks",
                  X("tasks-integration"), {X("tasks-integration")}, {}),
              New("environment", "bootstrap_agent", "environment", "exclusive", NoSlot,
                  None, T(None), {c, X("tasks-quality")}, {}),
              New("code-integration", "code_integration_agent", "integration",
                  "integration", NoSlot, "workspace", T(None),
                  {c, X("tasks-quality"), X("environment")}, {}),
              New("test", "test_agent", "test", "exclusive", NoSlot, None, T(None),
                  {X("code-integration"), X("tasks-quality"), X("environment")}, {}),
              New("review", "review_agent", "review", "exclusive", NoSlot, None, T(None),
                  base \cup {X("tasks-quality"), X("environment"),
                             X("code-integration"), X("test")}, {}) >>

----------------------------------------------------------------------------
\* ImplementationContractCompiler.compile.  A unit is a record: depends_on,
\* the owners of the interfaces it consumes, its declared wave and its number
\* of owned files, each of which becomes an item (_split_file_units); a unit
\* that owns review.md is left to the review item.

Units(c) == {u \in DOMAIN c : ~c[u].review}

Files(c) == {<<u, k>> : u \in Units(c), k \in 1..Max({c[v].files : v \in DOMAIN c})}
                \cap UNION {{<<u, k>> : k \in 1..c[u].files} : u \in Units(c)}

\* depends_on, and interface_dependencies for the interfaces of other units.
declared_dependencies(c) ==
    [f \in Files(c) |->
        {g \in Files(c) : g[1] \in c[f[1]].depends_on \cup (c[f[1]].consumes \ {f[1]})}]

\* The lookups of a dependency by unit id that raise KeyError.
ReferencesKnown(c) ==
    \A u \in Units(c) : c[u].depends_on \cup (c[u].consumes \ {u}) \subseteq Units(c)

\* Mutant: the declared wave is taken at its word.
wave_for_Declared(c) == [f \in Files(c) |-> c[f[1]].wave]

\* wave_for: never below the declared wave, always above the dependencies.
wave_for(c) ==
    LET deps == declared_dependencies(c)
        wave[f \in Files(c)] == Max({c[f[1]].wave} \cup {wave[g] + 1 : g \in deps[f]})
    IN  wave

CompileContract(c) ==
    LET waves == wave_for(c)
        deps == declared_dependencies(c)
        barrier(f) == {g \in Files(c) : waves[g] < waves[f]}
    IN  {[Item(<<"code", f>>, "code_agent", None, "partitioned", <<"code", f>>, None,
               T(None), {<<"code", g>> : g \in deps[f] \cup barrier(f)},
               {<<"code", g>> : g \in deps[f]})
            EXCEPT !.wave = waves[f]] : f \in Files(c)}

Compiles(c) ==
    Files(c) # {} /\ ReferencesKnown(c) /\ acyclic(declared_dependencies(c))

IsAnchor(i) == i.agent = "code_integration_agent"

Ready4Code ==
    /\ ~\E k \in DOMAIN plan : plan[k].agent = "code_agent"
    /\ Completed(First(plan, IsContract))
    /\ First(plan, IsAnchor) # <<>>

\* _expand_implementation_plan_if_ready: the code items wait for what the
\* anchor waited for, the anchor for the code items alone.
expand_code ==
    LET anchor == First(plan, IsAnchor)[1]
        code == {[i EXCEPT !.deps = @ \cup anchor.deps] : i \in CompileContract(contract)}
        ids == {i.id : i \in code}
    IN  SelectSeq(plan, LAMBDA i : i.id # anchor.id)
        \o SetToSeq(code)
        \o << [anchor EXCEPT !.deps = ids, !.refs = ids] >>

----------------------------------------------------------------------------
Contracts_of(p) == {p[k] : k \in DOMAIN p}

\* RunState.as_checkpoint; a result of an item that left the plan has no ref.
Checkpoint(d, p) ==
    [results |-> d, refs |-> {i \in Contracts_of(p) : i.id \in d}]

NoCheckpoint == Checkpoint({}, <<>>)

Init ==
    /\ template \in Started
    /\ plan = PlanOf(template)
    /\ hist = plan /\ baseline = Contracts_of(plan)
    /\ done = {} /\ ckpt = NoCheckpoint /\ logged = {}
    /\ pc = "submit" /\ todo = <<>> /\ after = "run" /\ trace = "planned"
    /\ blueprint = NoDesign /\ agreed \in BOOLEAN /\ contract = NoDesign
    /\ prepared \in BOOLEAN
    /\ crashes = 0

\* TemplateCompiler.compile and the constructor of the plan.
Submit ==
    /\ pc = "submit"
    /\ IF Compilable(plan) /\ ValidPlan(plan)
       THEN pc' = "run" /\ trace' = "running"
       ELSE pc' = "off" /\ trace' = "rejected"
    /\ UNCHANGED <<plan, done, todo, after, template, diskVars, crashes>>

\* run: an environment that is already prepared completes its item.
StartRun ==
    /\ pc = "run"
    /\ LET environment == First(plan, LAMBDA i : i.agent = "bootstrap_agent")
           finished == environment # <<>> /\ prepared
                       /\ environment[1].id \notin done
       IN  /\ done' = IF finished THEN done \cup {environment[1].id} ELSE done
           /\ ckpt' = IF finished THEN Checkpoint(done', plan) ELSE ckpt
    /\ pc' = "modules"
    /\ UNCHANGED <<plan, todo, after, template, trace, hist, baseline, logged,
                   designVars, prepared, crashes>>

Ends(status) ==
    /\ pc' = "off" /\ trace' = status
    /\ UNCHANGED <<plan, done, todo, after, template, diskVars, crashes>>

\* One expansion of the loop.  A refused one fails the run; an accepted one
\* replaces the plan in memory and is then written out file by file.
Expansion(at, ready, ok, grown, next) ==
    /\ pc = at
    /\ \/ /\ ~ready
          /\ pc' = next
          /\ UNCHANGED <<plan, done, todo, after, template, trace, diskVars, crashes>>
       \/ /\ ready /\ ~(ok /\ ValidPlan(grown))
          /\ Ends("rejected")
       \/ /\ ready /\ ok /\ ValidPlan(grown)
          /\ plan' = grown
          /\ pc' = "save" /\ after' = next
          /\ todo' = << "history", "baseline", "checkpoint" >>
          /\ UNCHANGED <<done, template, trace, diskVars, crashes>>

ExpandModules ==
    Expansion("modules", Ready4Modules, BlueprintValid(blueprint), expand_modules,
              "implementations")

ExpandImplementations ==
    Expansion("implementations", Ready4Implementations, DesignsAgree,
              expand_implementations, "tail")

AppendTail == Expansion("tail", Ready4Tail, TRUE, append_tail, "code")

ExpandCode == Expansion("code", Ready4Code, Compiles(contract), expand_code, "select")

\* record_plan, record_plan_baseline and _record_checkpoint, in this order.
Save ==
    /\ pc = "save"
    /\ todo' = Tail(todo)
    /\ pc' = IF Len(todo) = 1 THEN after ELSE "save"
    /\ hist' = IF Head(todo) = "history" THEN plan ELSE hist
    /\ baseline' = IF Head(todo) = "baseline" THEN Contracts_of(plan) ELSE baseline
    /\ ckpt' = IF Head(todo) = "checkpoint" THEN Checkpoint(done, plan) ELSE ckpt
    /\ UNCHANGED <<plan, done, after, template, trace, logged, designVars, prepared,
                   crashes>>

\* RunState.is_complete compares the number of results with that of items.
is_complete == Cardinality(done) = Len(plan)

ready_items ==
    {i \in Contracts_of(plan) : i.id \notin done /\ i.deps \subseteq done}

scheduled_items ==
    {i \in ready_items : \A j \in ready_items : i.wave <= j.wave}

\* A batch runs; C completes and, unless that is all of it, the run ends.
RunBatch(C) ==
    /\ pc = "select" /\ ~is_complete
    /\ C \subseteq scheduled_items /\ scheduled_items # {}
    /\ done' = done \cup {i.id : i \in C}
    /\ logged' = logged \cup {i.id : i \in C}
    /\ ckpt' = Checkpoint(done', plan)
    /\ IF \E i \in C : IsBlueprint(i)
       THEN blueprint' \in Blueprints ELSE blueprint' = blueprint
    /\ IF \E i \in C : IsContract(i)
       THEN contract' \in Contracts ELSE contract' = contract
    /\ prepared' = (prepared \/ \E i \in C : i.agent = "bootstrap_agent")
    /\ IF C = scheduled_items
       THEN pc' = "modules" /\ trace' = trace
       ELSE pc' = "off" /\ trace' = "failed"
    /\ UNCHANGED <<plan, todo, after, template, hist, baseline, agreed, crashes>>

\* A complete graph may still be blocked, by the review, the quality policy, the
\* matrix or a missing artifact; a blocked Trace can be resumed like a failed one.
\* run also fails when no item is ready: the deadlock check shows that this
\* does not happen to a valid plan.
Complete ==
    /\ pc = "select" /\ is_complete
    /\ \E status \in {"completed", "failed"} : Ends(status)

\* _rebuild_delivery_state and _sanitize_resume_state: nothing is kept whose
\* dependencies are not.
Prune(p, S) ==
    LET kept[n \in 0..Len(p)] ==
            IF n = 0 THEN S \cap Ids(p)
            ELSE LET before == kept[n - 1]
                 IN  {i \in before : work_item(p, i).deps \subseteq before}
    IN  kept[Len(p)]

\* RunState.from_checkpoint refuses a result or a contract the plan lacks.
Readable == ckpt.results \subseteq Ids(hist) /\ ckpt.refs \subseteq Contracts_of(hist)

\* validate_plan_baseline.
BaselineMatches == baseline = Contracts_of(hist)

\* resume_run and _load_delivery_resume.
Resume ==
    /\ pc = "off" /\ trace = "failed"
    /\ BaselineMatches
    /\ LET rebuilt == Prune(hist, logged)
           richer == Readable /\ Cardinality(ckpt.results) > Cardinality(rebuilt)
       IN  done' = IF richer THEN Prune(hist, ckpt.results) ELSE rebuilt
    /\ plan' = hist
    /\ pc' = "run" /\ trace' = "running"
    /\ UNCHANGED <<todo, after, template, diskVars, crashes>>

\* The Worker process dies; its monitor closes the Trace.
Kill ==
    /\ pc \notin {"submit", "off"} /\ crashes < MaxCrashes
    /\ crashes' = crashes + 1
    /\ pc' = "off" /\ trace' = "failed"
    /\ done' = {} /\ todo' = <<>>
    /\ UNCHANGED <<plan, after, template, diskVars>>

Finished ==
    /\ pc = "off" /\ (trace \in {"completed", "rejected"} \/ ~BaselineMatches)
    /\ UNCHANGED vars

Worker ==
    \/ Submit \/ StartRun \/ ExpandModules \/ ExpandImplementations \/ AppendTail
    \/ ExpandCode \/ Save \/ Complete
    \/ \E C \in SUBSET scheduled_items : RunBatch(C)

Next == Worker \/ Resume \/ Kill \/ Finished

Spec == Init /\ [][Next]_vars

----------------------------------------------------------------------------
\* No item has a result before an item it depends on, although an expansion
\* may give an item new dependencies after the plan was submitted: whatever is
\* added waits in front of what it feeds, also after a crash between the files
\* of an expansion.  The environment may be completed by the shortcut of run.
GrowthClosed ==
    pc \notin {"off", "submit"} =>
        \A i \in Contracts_of(plan) :
            i.id \in done /\ i.agent # "bootstrap_agent" => i.deps \subseteq done

\* The compiled wave barrier: an item that waits for one code item waits for
\* every code item of that wave, and is no member of it itself.  It is what
\* GraphRunner assumes of a plan (WaveAssumption) when it integrates a wave
\* before the next batch.
CompiledBarrier ==
    \A i, d, e \in Contracts_of(plan) :
        /\ d.agent = "code_agent" /\ e.agent = "code_agent"
        /\ d.id \in i.deps /\ d.wave = e.wave
        => e.id \in i.deps

\* A numbering of the nodes in which every edge goes down.
Orderable(edges) ==
    \E rank \in [DOMAIN edges -> 1..Cardinality(DOMAIN edges)] :
        \A m \in DOMAIN edges : \A d \in edges[m] :
            d \in DOMAIN edges /\ rank[d] < rank[m]

\* A plan is refused only for what the Agents designed: every registered
\* template compiles to a plan its constructor accepts, and no expansion of a
\* sound blueprint, of designs that agree with it, or of a contract whose
\* units can be ordered, is refused by the checks on the grown plan.
SoundDesignAccepted ==
    trace = "rejected" =>
        \/ blueprint # NoDesign
           /\ (Cardinality(DOMAIN blueprint) > max_modules \/ ~Orderable(blueprint))
        \/ ~agreed
        \/ contract # NoDesign
           /\ LET used == {u \in DOMAIN contract : ~contract[u].review}
              IN  \/ used = {}
                  \/ ~Orderable([u \in used |->
                        contract[u].depends_on \cup (contract[u].consumes \ {u})])

\* "the expanded plan is written to plan.json/checkpoint at once, and a Worker
\* restart or a resume uses the same WorkItems": a Trace whose Worker died can
\* be resumed, so the files of an expansion agree whenever no Worker runs.
\* Refuted (plan_resume.cfg): a crash between the plan and its baseline.
ExpansionResumable == pc = "off" /\ trace = "failed" => BaselineMatches

\* "Only after the original DAG passed the review may the Trace enter completed":
\* a completed run has a result for every item of its plan.  Refuted
\* (plan_review.cfg): is_complete counts results, and the tail leaves the result
\* of an environment item it removed, so the run ends one item early.
CompletedRanWhole == trace = "completed" => Ids(plan) \subseteq done
=============================================================================
