------------------------ MODULE MCConversationRuns ------------------------
(* A conversation of two clients: drafts and patches that pass and fail    *)
(* each for a reason of its own.                                           *)
EXTENDS ConversationRuns

Step(agent, deps) == [agent |-> agent, depends_on |-> deps, blueprint |-> FALSE]

Draft(steps) ==
    [steps |-> steps, template |-> FALSE, lifecycle |-> FALSE, blank_criterion |-> FALSE]

Chain == Draft(<<Step("code_agent", {}), Step("test_agent", {})>>)
TwoCoders == Draft(<<Step("code_agent", {}), Step("code_agent", {1}), Step("test_agent", {})>>)

DraftsMC ==
    { Chain, TwoCoders, [Chain EXCEPT !.blank_criterion = TRUE],
      [Draft(<<>>) EXCEPT !.template = TRUE] }

\* One operation, or a removal with an addition; one that would change the
\* dependencies, one on a WorkItem that is not there, one outside its scope.
PatchesMC(plan) ==
    LET ids == DOMAIN plan.items
        Patch(ops) == [base |-> plan.id, scope |-> {}, ops |-> ops]
        first == {i \in ids : plan.items[i].deps = {}}
        single == {ModifyOp(i, {}, TRUE) : i \in first}
                  \cup {ModifyOp(i, ids, TRUE) : i \in ids}
                  \cup {ModifyOp(StepId(9, "code_agent"), {}, TRUE)}
    IN  {Patch(<<op>>) : op \in single}
        \cup {Patch(<<RemoveOp(i), AddOp("code_agent", {})>>) : i \in ids}
        \cup {[Patch(<<ModifyOp(i, {}, TRUE)>>) EXCEPT !.scope = ids \ {i}] : i \in ids}

\* A blank project with its baseline, and one without it.
ProjectsMC ==
    { [blank |-> TRUE, environment |-> TRUE, baseline |-> TRUE],
      [blank |-> TRUE, environment |-> FALSE, baseline |-> FALSE] }
=============================================================================
