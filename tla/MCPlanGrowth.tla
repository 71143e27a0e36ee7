---------------------------- MODULE MCPlanGrowth ----------------------------
EXTENDS PlanGrowth

\* The deprecated template is no longer registered but still compiles.
ASSUME DeprecatedCompiles ==
    Compilable(project_delivery_dynamic_template) /\ ValidPlan(project_delivery_dynamic_template)

\* Graphs over one or two modules: independent, chained, cyclic, depending on
\* itself or on an undeclared module, and one over the limit.
AllBlueprints ==
    {[m \in {"a"} |-> d] : d \in {{}, {"a"}, {"b"}}}
        \cup {[m \in {"a", "b"} |-> IF m = "a" THEN d ELSE {"a"}] : d \in {{}, {"b"}}}
        \cup {[m \in {"a", "b", "c"} |-> {}]}

\* Contracts over two units, one of one file and one of two: ordered by
\* depends_on or by an interface, with a declared wave that contradicts the
\* order, cyclic, or left with a dependency on a unit of the review alone.
Unit(d, c, w, f, r) ==
    [depends_on |-> d, consumes |-> c, wave |-> w, files |-> f, review |-> r]

Pair(x, y) == [u \in {"x", "y"} |-> IF u = "x" THEN x ELSE y]

AllContracts ==
    {Pair(Unit({}, {}, w, 1, r), Unit(d, g, 0, 2, FALSE)) :
        w \in {0, 2}, r \in BOOLEAN, d \in {{}, {"x"}}, g \in {{}, {"x"}}}
        \cup {Pair(Unit({"y"}, {"x"}, 0, 1, FALSE), Unit({}, {"x"}, 0, 2, FALSE))}
=============================================================================
