--------------------------- MODULE MCToolGateway ---------------------------
EXTENDS ToolGateway

CONSTANTS t1, t2, a, b, docs, web

\* Both sources declare one name.
Declared == [s \in Sources |-> IF s = docs THEN {"search"} ELSE {"search", "fetch"}]

\* The ids of WorkItems recur in every Trace.
Plans == [t \in Traces |-> IF t = t1 THEN Items ELSE {a}]
=============================================================================
