--------------------------- MODULE MCGraphRunner ---------------------------
(* Two small delivery DAGs: two parallel code partitions with their          *)
(* integrator, and two code waves behind an architecture and a bootstrap item. *)
EXTENDS GraphRunner

CONSTANTS a, b, c, d, e, t, CodeAgent, IntegrationAgent, OtherAgent

MCOrder == <<t, e, a, b, c, d>>

MCRank ==
    [i \in Items |-> CHOOSE n \in DOMAIN MCOrder : MCOrder[n] = i]

\* Two code partitions of one wave, their integrator, and in its wave an item d
\* that does not read the code.
MCDeps == [i \in Items |-> IF i = c THEN {a, b} ELSE {}]

MCWave == [i \in Items |-> IF i \in Code THEN 0 ELSE 1]

\* Two code waves, a then b (an integrator may follow), after the architecture item t
\* and the bootstrap item e, which depends on t as in the templates; a depends on e
\* alone (the MVP template), b on t as well.
MCChainDeps ==
    [i \in Items |-> CASE i = t -> {}
                      [] i = e -> {t}
                      [] i = a -> {e}
                      [] i = b -> {t, e, a}
                      [] i = c -> {t, e, a, b}]

MCChainWave == [i \in Items |-> IF i = b THEN 1 ELSE 0]

MCAgent ==
    [i \in Items |-> CASE i \in Code -> CodeAgent
                      [] i \in Integrators -> IntegrationAgent
                      [] OTHER -> OtherAgent]

MCLimit ==
    [g \in {CodeAgent, IntegrationAgent, OtherAgent} |->
        IF g = CodeAgent THEN 4 ELSE 1]

MCKinds == {"code_delivery_incomplete", "worker_crash"}

MCChainKinds ==
    {"test_failure", "sandbox_setup", "provider_stall", "worker_crash"}
=============================================================================
