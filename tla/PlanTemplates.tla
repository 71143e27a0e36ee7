--------------------------- MODULE PlanTemplates ---------------------------
(***************************************************************************)
(* The controlled workflow templates (app/workflow/templates.py), the      *)
(* compiler that turns one into an ExecutionPlan (app/workflow/compiler.py)*)
(* and the checks every ExecutionPlan passes in its constructor            *)
(* (app/orchestration/plan.py, work_item.py, delivery_registry.py).        *)
(*                                                                         *)
(* A WorkItem is a record of the fields the control plane reads: agent,    *)
(* stage, execution mode, slot, publish target, dependencies, the staged   *)
(* outputs it reads (refs) and, of a quality gate, the producer of the     *)
(* candidate.  Prose, paths and published references are left out, stages  *)
(* no test of the code reads share a name, and the artifact key of a       *)
(* staged output is its agent's.  An id is a pair <<family, name>>, a slot *)
(* likewise; a plan is a sequence.                                         *)
(***************************************************************************)
EXTENDS Integers, Sequences, FiniteSets, SequencesExt

None == "none"
NoSlot == <<None, None>>
T(name) == <<"template", name>>

Item(id, agent, stage, mode, slot, pub, cand, deps, refs) ==
    [id |-> id, agent |-> agent, stage |-> stage, mode |-> mode, slot |-> slot,
     pub |-> pub, cand |-> cand, deps |-> deps, refs |-> refs, wave |-> 0]

\* The four shapes TaskBlueprint.__post_init__ and _validate_execution_grant
\* allow: a slot only when PARTITIONED, a publish target only when INTEGRATION
\* or QUALITY_GATE, a candidate source only for a quality gate.
Exclusive(name, agent, stage, deps) ==
    Item(T(name), agent, stage, "exclusive", NoSlot, None, T(None),
         {T(d) : d \in deps}, {})

Partitioned(name, agent, stage, slot, deps, from) ==
    Item(T(name), agent, stage, "partitioned", slot, None, T(None),
         {T(d) : d \in deps}, {T(d) : d \in from})

Integration(name, agent, stage, pub, deps, from) ==
    Item(T(name), agent, stage, "integration", NoSlot, pub, T(None),
         {T(d) : d \in deps}, {T(d) : d \in from})

QualityGate(name, agent, stage, pub, from) ==
    Item(T(name), agent, stage, "quality_gate", NoSlot, pub, T(from),
         {T(from)}, {})

----------------------------------------------------------------------------
\* The stages several templates share.

TaskStages(name, deps) ==
    << Partitioned("tasks-plan", "task_agent", name, <<"part", "plan">>, deps, {}),
       Integration("tasks-integration", "task_agent", name, "tasks",
                   {"tasks-plan"}, {"tasks-plan"}),
       QualityGate("tasks-quality-gate", "task_agent", name, "tasks",
                   "tasks-integration") >>

ArchitectureStages ==
    << Exclusive("requirement", "requirement_agent", "requirement", {}),
       Partitioned("architecture-blueprint", "architecture_agent",
                   "architecture_blueprint", <<"blueprint", "">>, {"requirement"}, {}),
       Integration("architecture-integration", "architecture_agent",
                   "architecture_integration", "architecture",
                   {"architecture-blueprint"}, {"architecture-blueprint"}),
       QualityGate("architecture-quality-gate", "architecture_agent",
                   "architecture_quality_gate", "architecture",
                   "architecture-integration") >>

ContractStage(name, stage, dep, from) ==
    Integration(name, "architecture_contract_agent", stage, "architecture_contract",
                {dep}, from)

delivery_default_template ==
    ArchitectureStages
    \o << ContractStage("contract", "contract", "architecture-quality-gate", {}) >>
    \o TaskStages("tasks", {"requirement", "architecture-blueprint", "contract"})
    \o << Exclusive("environment", "bootstrap_agent", "environment",
                    {"requirement", "architecture-blueprint", "contract",
                     "tasks-quality-gate"}),
          Integration("implementation-anchor", "code_integration_agent",
                      "implementation", "implementation", {"contract", "environment"}, {}),
          Exclusive("tests", "test_agent", "test", {"implementation-anchor"}),
          Exclusive("review", "review_agent", "review", {"tests"}) >>

delivery_incremental_template ==
    TaskStages("tasks", {})
    \o << Exclusive("environment", "bootstrap_agent", "environment",
                    {"tasks-quality-gate"}),
          Integration("implementation-anchor", "code_integration_agent",
                      "implementation", "implementation", {"environment"}, {}),
          Exclusive("tests", "test_agent", "test", {"implementation-anchor"}),
          Exclusive("review", "review_agent", "review", {"tests"}) >>

architecture_only_template == ArchitectureStages

architecture_l0_template ==
    ArchitectureStages
    \o << ContractStage("contract", "contract", "architecture-quality-gate", {}) >>

project_delivery_dynamic_template ==
    SubSeq(ArchitectureStages, 1, 3)
    \o << ContractStage("architecture-contract", "contract",
                        "architecture-integration", {}) >>

\* Tasks to review of project_delivery, behind an architecture item and a
\* contract item.
DeliveryStages(architecture, contract) ==
    TaskStages(None, {"requirement", architecture, contract})
    \o << Exclusive("environment", "bootstrap_agent", None,
                    {"requirement", architecture, contract, "tasks-quality-gate"}),
          Integration("code-integration", "code_integration_agent", None, "workspace",
                      {contract, "tasks-quality-gate", "environment"}, {}),
          Exclusive("tests", "test_agent", None,
                    {"requirement", "tasks-quality-gate", "environment",
                     "code-integration"}),
          Exclusive("review", "review_agent", None,
                    {"requirement", architecture, contract, "tasks-quality-gate",
                     "environment", "code-integration", "tests"}) >>

project_delivery_template ==
    << Exclusive("requirement", "requirement_agent", None, {}),
       Exclusive("architecture", "architecture_agent", None, {"requirement"}),
       Exclusive("architecture-contract", "architecture_contract_agent", None,
                 {"architecture"}) >>
    \o DeliveryStages("architecture", "architecture-contract")

\* architecture_layered_template with root as what the blueprint waits for.
Layered(root) ==
    LET modules == <<"domain", "api", "runtime">>
        design(m) == CASE m = "domain" -> "architecture-module-domain"
                       [] m = "api" -> "architecture-module-api"
                       [] m = "runtime" -> "architecture-module-runtime"
        impl(m) == CASE m = "domain" -> "architecture-implementation-module-domain"
                     [] m = "api" -> "architecture-implementation-module-api"
                     [] m = "runtime" -> "architecture-implementation-module-runtime"
        all == {"architecture-blueprint"} \cup {design(modules[k]) : k \in 1..3}
                                          \cup {impl(modules[k]) : k \in 1..3}
    IN  << Partitioned("architecture-blueprint", "architecture_agent",
                       "architecture_blueprint", <<"blueprint", "">>, root, {}) >>
        \o [k \in 1..3 |->
              Partitioned(design(modules[k]), "architecture_agent",
                          "architecture_module", <<"module", modules[k]>>,
                          {"architecture-blueprint"}, {"architecture-blueprint"})]
        \o [k \in 1..3 |->
              Partitioned(impl(modules[k]), "architecture_agent",
                          "architecture_implementation",
                          <<"implementation", modules[k]>>,
                          {design(modules[k])}, {design(modules[k])})]
        \o << Integration("architecture-layered-integration", "architecture_agent",
                          "architecture_integration", "architecture", all, all),
              QualityGate("architecture-layered-quality-gate", "architecture_agent",
                          "architecture_quality", "architecture",
                          "architecture-layered-integration"),
              ContractStage("architecture-layered-contract", "contract",
                            "architecture-layered-quality-gate", all) >>

architecture_layered_template == Layered({})

project_delivery_layered_template ==
    << Exclusive("requirement", "requirement_agent", None, {}) >>
    \o Layered({"requirement"})
    \o DeliveryStages("architecture-layered-quality-gate", "architecture-layered-contract")

\* The Markdown packages of the two templates without structured objects.
Markdown(slots, deps, packages) ==
    [k \in 1..Len(slots) |->
        Partitioned(packages[k], "architecture_agent", None, <<"markdown", slots[k]>>,
                    deps[k], deps[k])]
    \o LET last == {packages[k] : k \in 1..Len(slots)} \ UNION {deps[k] : k \in 1..Len(slots)}
       IN << Integration("architecture-integration", "architecture_agent",
                         "architecture_markdown_integration", "architecture", last, last),
             QualityGate("architecture-quality-gate", "architecture_agent", None,
                         "architecture", "architecture-integration") >>

architecture_compact_template ==
    Markdown(<<"design">>, <<{}>>, <<"architecture-design">>)

architecture_parallel_template ==
    LET base == {"architecture-baseline"}
    IN  Markdown(<<"baseline", "api", "data", "frontend">>, <<{}, base, base, base>>,
                 <<"architecture-baseline", "architecture-api", "architecture-data",
                   "architecture-frontend">>)

project_delivery_minimal_template ==
    TaskStages(None, {})
    \o << Exclusive("environment", "bootstrap_agent", None, {"tasks-quality-gate"}),
          Partitioned("code-backend", "code_agent", None, <<"code", "backend">>,
                      {"environment"}, {}),
          Partitioned("code-frontend", "code_agent", None, <<"code", "frontend">>,
                      {"environment"}, {}),
          Integration("code-integration", "code_integration_agent", None, "workspace",
                      {"code-backend", "code-frontend"}, {"code-backend", "code-frontend"}),
          Exclusive("tests", "test_agent", None, {"code-integration"}),
          Exclusive("review", "review_agent", None, {"tests"}) >>

\* The templates bootstrap/modules.py registers.
templates ==
    [delivery_default |-> delivery_default_template,
     delivery_incremental |-> delivery_incremental_template,
     architecture_only |-> architecture_only_template,
     architecture_l0 |-> architecture_l0_template,
     architecture_compact |-> architecture_compact_template,
     architecture_parallel |-> architecture_parallel_template,
     architecture_layered |-> architecture_layered_template,
     project_delivery |-> project_delivery_template,
     project_delivery_layered |-> project_delivery_layered_template,
     project_delivery_minimal |-> project_delivery_minimal_template]

----------------------------------------------------------------------------
\* ExecutionPlan.__post_init__.

Ids(plan) == {plan[k].id : k \in DOMAIN plan}

work_item(plan, id) == plan[CHOOSE k \in DOMAIN plan : plan[k].id = id]

\* next((item for item in work_items if Test(item)), None): <<>> or <<item>>.
First(plan, Test(_)) ==
    LET found == SelectSeq(plan, Test)
    IN  IF found = <<>> THEN <<>> ELSE << Head(found) >>

\* DeliveryContractRegistry.contract_for, reduced to the output artifact kind.
output_artifact_kind(i) ==
    IF i.agent # "architecture_agent" THEN None
    ELSE CASE i.mode = "partitioned" /\ i.slot[1] = "markdown" -> "architecture_markdown"
           [] i.mode = "partitioned"
              /\ i.slot[1] \in {"blueprint", "module", "implementation"}
                -> "architecture_design"
           [] i.mode = "integration" /\ i.stage = "architecture_markdown_integration"
                -> "architecture_markdown"
           [] i.mode = "integration"
              /\ (i.stage = "architecture_integration"
                  \/ (i.stage = None /\ i.pub = "architecture"))
                -> "architecture_design"
           [] OTHER -> None

\* DeliveryContractRegistry.validate_plan: one owner of a staged output.
SlotsUnique(plan) ==
    \A j, k \in DOMAIN plan :
        /\ plan[j].mode = "partitioned" /\ plan[k].mode = "partitioned"
        /\ plan[j].slot = plan[k].slot /\ plan[j].stage = plan[k].stage
        /\ (plan[j].agent = plan[k].agent)
        => j = k

\* _ensure_acyclic: peel off what only depends on what is peeled off.
acyclic(deps) ==
    LET ids == DOMAIN deps
        resolved[n \in 0..Cardinality(ids)] ==
            IF n = 0 THEN {}
            ELSE LET before == resolved[n - 1]
                 IN  before \cup {i \in ids : deps[i] \subseteq before}
    IN  resolved[Cardinality(ids)] = ids

\* ancestors() of _validate_artifact_edges.
Upstream(plan, S) ==
    LET up[n \in 0..Len(plan)] ==
            IF n = 0 THEN S
            ELSE LET before == up[n - 1]
                 IN  before \cup UNION {work_item(plan, i).deps : i \in before}
    IN  up[Len(plan)]

\* _validate_artifact_edges.
EdgesValid(plan) ==
    \A k \in DOMAIN plan :
        LET i == plan[k]
        IN  /\ i.mode = "quality_gate" =>
                 LET producer == work_item(plan, i.cand)
                 IN  producer.mode = "integration" /\ producer.pub = i.pub
            /\ i.mode = "integration" /\ output_artifact_kind(i) # None =>
                 /\ i.refs \subseteq Ids(plan)
                 /\ i.refs \subseteq Upstream(plan, i.deps)
                 /\ \A r \in i.refs :
                        LET producer == work_item(plan, r)
                        IN  /\ producer.mode = "partitioned"
                            /\ output_artifact_kind(producer) = output_artifact_kind(i)

ValidPlan(plan) ==
    /\ plan # <<>>
    /\ \A j, k \in DOMAIN plan : plan[j].id = plan[k].id => j = k
    /\ SlotsUnique(plan)
    /\ \A k \in DOMAIN plan :
          /\ plan[k].deps \subseteq Ids(plan) \ {plan[k].id}
          /\ plan[k].mode = "quality_gate" => plan[k].cand \in plan[k].deps
    /\ acyclic([i \in Ids(plan) |-> work_item(plan, i).deps])
    /\ EdgesValid(plan)

\* TemplateCompiler.compile: a node may only read what a PARTITIONED node stages.
Compilable(nodes) ==
    \A k \in DOMAIN nodes : \A r \in nodes[k].refs :
        \E j \in DOMAIN nodes : nodes[j].id = r /\ nodes[j].mode = "partitioned"
=============================================================================
