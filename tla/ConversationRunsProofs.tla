----------------------- MODULE ConversationRunsProofs -----------------------
(***************************************************************************)
(* What the Planner's answers may do to the plans of a conversation, for   *)
(* every number of clients, Traces, messages, revisions and crashes, and   *)
(* whatever drafts and patches the model answers with (ConversationRuns);  *)
(* and, at the end, that the model's answer arrives whole                  *)
(* (ResponsesStream).                                                      *)
(***************************************************************************)
EXTENDS ConversationRuns, ResponsesStream, FiniteSetTheorems, WellFoundedInduction, TLAPS

----------------------------------------------------------------------------
\* A plan that can be carried out in the order the rules demand, whose
\* objectives come from its own and earlier revisions.
Ordered(items, rules) ==
    \A i \in DOMAIN items : \A rule \in rules :
        i[1] = "step" /\ rule[1] = items[i].agent =>
            \E j \in items[i].deps : items[j].agent = rule[2]

Sound(p, rules) ==
    /\ p.id \in Seq(Nat)
    /\ \A i \in DOMAIN p.items :
          /\ p.items[i] = WorkItem(p.items[i].agent, p.items[i].objective, p.items[i].deps)
          /\ p.items[i].objective \in Nat /\ p.items[i].objective <= Len(p.id)
    /\ WellFormed(p.items)
    /\ Ordered(p.items, rules)

\* The empty plan that stands for a file that is not there.
LEMMA NoPlanSound == ASSUME NEW rules PROVE Sound(NoPlan, rules)
<1>1. NoPlan.id \in Seq(Nat) /\ DOMAIN NoPlan.items = {}
  BY DEF NoPlan
<1> QED
  BY <1>1 DEF Sound, WellFormed, Acyclic, Ordered

\* The compiled template: two WorkItems in a row, and no rule of a draft.
LEMMA ControlledItemsSound ==
  /\ WellFormed(ControlledItems)
  /\ \A i \in DOMAIN ControlledItems :
        /\ ControlledItems[i] = WorkItem(ControlledItems[i].agent, 1, ControlledItems[i].deps)
        /\ ControlledItems[i].objective = 1
<1> DEFINE first == StepId(1, "task_agent")
           second == StepId(2, "code_agent")
<1>1. DOMAIN ControlledItems = {first, second} /\ first # second
  BY DEF ControlledItems, StepId
<1>2. ControlledItems[first].deps = {} /\ ControlledItems[second].deps = {first}
  BY DEF ControlledItems, StepId, WorkItem
<1>3. Acyclic(ControlledItems)
  <2> SUFFICES ASSUME NEW S \in SUBSET {first, second}, S # {}
               PROVE  \E i \in S : ControlledItems[i].deps \cap S = {}
    BY <1>1 DEF Acyclic
  <2> HIDE DEF first, second
  <2>1. CASE first \in S
    BY <1>2, <2>1
  <2>2. CASE first \notin S
    BY <1>2, <2>2
  <2> QED
    BY <2>1, <2>2
<1>4. WellFormed(ControlledItems)
  BY <1>1, <1>2, <1>3 DEF WellFormed
<1>5. \A i \in DOMAIN ControlledItems :
        /\ ControlledItems[i] = WorkItem(ControlledItems[i].agent, 1, ControlledItems[i].deps)
        /\ ControlledItems[i].objective = 1
  BY DEF ControlledItems, WorkItem
<1> QED
  BY <1>4, <1>5

LEMMA ControlledSound ==
  ASSUME NEW t \in Nat
  PROVE  Sound(ControlledPlan(t), {})
<1>1. /\ ControlledPlan(t).id = <<t>> /\ ControlledPlan(t).items = ControlledItems
  BY DEF ControlledPlan
<1>2. <<t>> \in Seq(Nat) /\ Len(<<t>>) = 1
  OBVIOUS
<1> QED
  BY <1>1, <1>2, ControlledItemsSound DEF Sound, Ordered

----------------------------------------------------------------------------
\* A draft that the validator accepts.

\* The WorkItems of a draft, one by one.
LEMMA DraftItem ==
  ASSUME NEW draft, NEW context, NEW n \in DOMAIN draft.steps
  PROVE  LET Id(m) == StepId(m, draft.steps[m].agent)
         IN  /\ Id(n) \in DOMAIN DraftItems(draft, context)
             /\ DraftItems(draft, context)[Id(n)] =
                  WorkItem(draft.steps[n].agent, 1, {Id(m) : m \in resolve(draft, context, n)})
<1> DEFINE Id(m) == StepId(m, draft.steps[m].agent)
<1>1. Id(n)[2] = n /\ Id(n)[3] = draft.steps[n].agent
  BY DEF StepId
<1>2. DraftItems(draft, context) =
        [id \in {Id(m) : m \in DOMAIN draft.steps} |->
           WorkItem(id[3], 1, {Id(m) : m \in resolve(draft, context, id[2])})]
  BY DEF DraftItems
<1> HIDE DEF Id
<1>3. Id(n) \in {Id(m) : m \in DOMAIN draft.steps}
  OBVIOUS
<1>4. /\ Id(n) \in DOMAIN DraftItems(draft, context)
      /\ DraftItems(draft, context)[Id(n)] =
           WorkItem(draft.steps[n].agent, 1, {Id(m) : m \in resolve(draft, context, n)})
  BY <1>1, <1>2, <1>3
<1> QED
  BY <1>4 DEF Id

\* Its dependencies are steps of the draft, the Planner's and the system's.
LEMMA ResolvedSteps ==
  ASSUME NEW draft, NEW context, ~Rejected(draft, context), NEW n \in DOMAIN draft.steps
  PROVE  /\ resolve(draft, context, n) \subseteq DOMAIN draft.steps
         /\ \A agent \in SystemPredecessors(draft, context, n) :
               \E m \in resolve(draft, context, n) : draft.steps[m].agent = agent
<1>1. draft.steps[n].depends_on \subseteq DOMAIN draft.steps
  BY DEF Rejected
<1>2. \A agent : add_unambiguous_dependency(draft, n, agent) \subseteq StepsOf(draft, agent)
  BY DEF add_unambiguous_dependency
<1>3. \A agent : \A m \in StepsOf(draft, agent) :
         m \in DOMAIN draft.steps /\ draft.steps[m].agent = agent
  BY DEF StepsOf
<1>4. ASSUME NEW agent \in SystemPredecessors(draft, context, n)
      PROVE  \E m \in add_unambiguous_dependency(draft, n, agent) : TRUE
  <2>1. Cardinality(add_unambiguous_dependency(draft, n, agent)) = 1
    BY <1>4 DEF Rejected
  <2>2. add_unambiguous_dependency(draft, n, agent) # {}
    BY <2>1, FS_EmptySet
  <2> QED
    BY <2>2
<1>5. \A agent \in SystemPredecessors(draft, context, n) :
         add_unambiguous_dependency(draft, n, agent) \subseteq resolve(draft, context, n)
  BY DEF resolve
<1>6. resolve(draft, context, n) \subseteq DOMAIN draft.steps
  BY <1>1, <1>2, <1>3 DEF resolve
<1> QED
  BY <1>2, <1>3, <1>4, <1>5, <1>6

\* The WorkItems of a draft that is not rejected have known dependencies, and
\* wait as the system's rules demand.
LEMMA DraftItemsOrdered ==
  ASSUME NEW draft, NEW context, ~Rejected(draft, context)
  PROVE  LET items == DraftItems(draft, context)
         IN  /\ \A i \in DOMAIN items :
                   /\ items[i] = WorkItem(items[i].agent, 1, items[i].deps)
                   /\ items[i].objective = 1
                   /\ items[i].deps \subseteq DOMAIN items
             /\ Ordered(items, SystemRules(context))
<1> DEFINE items == DraftItems(draft, context)
           Id(m) == StepId(m, draft.steps[m].agent)
           Waits(n) == {Id(m) : m \in resolve(draft, context, n)}
<1>1. \A n \in DOMAIN draft.steps :
         Id(n) \in DOMAIN items /\ items[Id(n)] = WorkItem(draft.steps[n].agent, 1, Waits(n))
  BY DraftItem
<1>2. \A i \in DOMAIN items : \E n \in DOMAIN draft.steps : i = Id(n)
  BY DEF DraftItems
<1>3. \A agent, deps : /\ WorkItem(agent, 1, deps).agent = agent
                       /\ WorkItem(agent, 1, deps).deps = deps
                       /\ WorkItem(agent, 1, deps).objective = 1
  BY DEF WorkItem
<1> HIDE DEF items, Id
<1>4. ASSUME NEW i \in DOMAIN items
      PROVE  /\ items[i] = WorkItem(items[i].agent, 1, items[i].deps)
             /\ items[i].objective = 1
             /\ items[i].deps \subseteq DOMAIN items
             /\ \A rule \in SystemRules(context) : rule[1] = items[i].agent =>
                   \E j \in items[i].deps : items[j].agent = rule[2]
  <2>1. PICK n \in DOMAIN draft.steps : i = Id(n)
    BY <1>2
  <2>2. items[i] = WorkItem(draft.steps[n].agent, 1, Waits(n))
    BY <1>1, <2>1
  <2>3. /\ items[i].agent = draft.steps[n].agent /\ items[i].deps = Waits(n)
        /\ items[i].objective = 1
    BY <1>3, <2>2
  <2>4. resolve(draft, context, n) \subseteq DOMAIN draft.steps
    BY ResolvedSteps
  <2>5. Waits(n) \subseteq DOMAIN items
    BY <1>1, <2>4
  <2>6. ASSUME NEW rule \in SystemRules(context), rule[1] = draft.steps[n].agent
        PROVE  \E j \in Waits(n) : items[j].agent = rule[2]
    <3>1. rule[2] \in SystemPredecessors(draft, context, n)
      BY <2>6 DEF SystemPredecessors
    <3>2. PICK m \in resolve(draft, context, n) : draft.steps[m].agent = rule[2]
      BY <3>1, ResolvedSteps
    <3>3. Id(m) \in Waits(n)
      OBVIOUS
    <3>4. items[Id(m)] = WorkItem(draft.steps[m].agent, 1, Waits(m))
      BY <1>1, <2>4
    <3>5. items[Id(m)].agent = rule[2]
      BY <1>3, <3>2, <3>4
    <3> QED
      BY <3>3, <3>5
  <2> QED
    BY <2>2, <2>3, <2>5, <2>6
<1>5. Ordered(items, SystemRules(context))
  BY <1>4 DEF Ordered
<1> QED
  BY <1>4, <1>5 DEF items

\* An accepted draft becomes a sound plan.
LEMMA DraftSound ==
  ASSUME NEW t \in Nat, NEW draft, NEW context, validate(draft, context) = "accepted"
  PROVE  Sound(DraftPlan(t, draft, context),
               IF draft.template THEN {} ELSE SystemRules(context))
<1>1. /\ DraftPlan(t, draft, context).id = <<t>>
      /\ DraftPlan(t, draft, context).items =
            IF draft.template THEN ControlledItems ELSE DraftItems(draft, context)
  BY DEF DraftPlan
<1>2. <<t>> \in Seq(Nat) /\ Len(<<t>>) = 1
  OBVIOUS
<1>3. CASE draft.template
  BY <1>1, <1>2, <1>3, ControlledItemsSound DEF Sound, Ordered
<1>4. CASE ~draft.template
  <2>1. ~Rejected(draft, context) /\ Acyclic(DraftItems(draft, context))
    BY <1>4 DEF validate
  <2>2. WellFormed(DraftItems(draft, context))
    BY <2>1, DraftItemsOrdered DEF WellFormed
  <2> QED
    BY <1>1, <1>2, <1>4, <2>1, <2>2, DraftItemsOrdered DEF Sound
<1> QED
  BY <1>3, <1>4

----------------------------------------------------------------------------
\* A patch that apply_patch accepts.

\* The operations of one kind are a list.
LEMMA KindList ==
  ASSUME NEW patch, Parses(patch), NEW kind
  PROVE  \E k \in Nat : DOMAIN OfKind(patch, kind) = 1..k /\ Len(OfKind(patch, kind)) = k
<1> DEFINE at == {n \in DOMAIN patch.ops : patch.ops[n].operation = kind}
           k == Cardinality(at)
<1>1. PICK n \in 1..5 : DOMAIN patch.ops = 1..n
  BY DEF Parses
<1>2. IsFiniteSet(1..n)
  BY FS_Interval
<1>3. k \in Nat
  BY <1>1, <1>2, FS_Subset, FS_CardinalityType
<1>4. OfKind(patch, kind) =
        [j \in 1..k |-> patch.ops[CHOOSE m \in at : Cardinality({l \in at : l < m}) = j - 1]]
  BY DEF OfKind
<1> HIDE DEF at, k
<1>5. DOMAIN OfKind(patch, kind) = 1..k /\ Len(OfKind(patch, kind)) = k
  BY <1>3, <1>4
<1> QED
  BY <1>3, <1>5

\* The added WorkItems are at most two, with different ids of their own kind.
LEMMA AddedItems ==
  ASSUME NEW patch, Parses(patch), WithinBudget(patch)
  PROVE  /\ DOMAIN OfKind(patch, "add") \subseteq {1, 2}
         /\ DOMAIN Added(patch) = DOMAIN OfKind(patch, "add")
         /\ \A n \in DOMAIN Added(patch) :
               /\ Added(patch)[n] = AddedId(n, OfKind(patch, "add")[n].agent)
               /\ Added(patch)[n][1] = "patch"
               /\ \A m \in DOMAIN Added(patch) : Added(patch)[m] = Added(patch)[n] => m = n
<1>1. PICK k \in Nat : DOMAIN OfKind(patch, "add") = 1..k /\ Len(OfKind(patch, "add")) = k
  BY KindList
<1>2. k <= 2
  BY <1>1 DEF WithinBudget, max_added
<1>3. DOMAIN OfKind(patch, "add") \subseteq {1, 2}
  BY <1>1, <1>2
<1>4. Added(patch) =
        [n \in DOMAIN OfKind(patch, "add") |-> AddedId(n, OfKind(patch, "add")[n].agent)]
  BY DEF Added
<1>5. \A n, agent : AddedId(n, agent)[1] = "patch" /\ AddedId(n, agent)[2] = n
  BY DEF AddedId
<1>6. \A n \in DOMAIN Added(patch) :
         /\ Added(patch)[n] = AddedId(n, OfKind(patch, "add")[n].agent)
         /\ Added(patch)[n][1] = "patch" /\ Added(patch)[n][2] = n
  BY <1>4, <1>5
<1> QED
  BY <1>3, <1>4, <1>6

\* The WorkItems of a patched plan: those that are kept, with a new objective
\* if the patch names them, and those that are added.
LEMMA PatchedItems ==
  ASSUME NEW plan, NEW rules, Sound(plan, rules), NEW patch, LegalPatch(plan, patch)
  PROVE  LET items == plan.items
             new == apply_patch(plan, patch).items
             kept == DOMAIN items \ Touched(patch, "remove")
             adds == OfKind(patch, "add")
             revision == Len(plan.id) + 1
         IN  /\ DOMAIN new = kept \cup Range(Added(patch))
             /\ kept \cap Range(Added(patch)) = {}
             /\ \A i \in kept :
                   /\ i \in Touched(patch, "modify") =>
                        new[i] = WorkItem(items[i].agent, revision, items[i].deps)
                   /\ i \notin Touched(patch, "modify") => new[i] = items[i]
                   /\ new[i].agent = items[i].agent /\ new[i].deps = items[i].deps
                   /\ items[i].deps \subseteq kept
             /\ \A n \in DOMAIN adds :
                   /\ Added(patch)[n] \in DOMAIN new
                   /\ new[Added(patch)[n]] = WorkItem(adds[n].agent, revision, adds[n].deps)
                   /\ new[Added(patch)[n]].deps
                        \subseteq kept \cup {Added(patch)[m] : m \in 1 .. n - 1}
<1> DEFINE items == plan.items
           new == apply_patch(plan, patch).items
           kept == DOMAIN items \ Touched(patch, "remove")
           adds == OfKind(patch, "add")
           revision == Len(plan.id) + 1
           New(id) == adds[CHOOSE n \in DOMAIN adds : Added(patch)[n] = id]
<1>1. new = [id \in kept \cup Range(Added(patch)) |->
               IF id \notin kept THEN WorkItem(New(id).agent, revision, New(id).deps)
               ELSE IF id \in Touched(patch, "modify")
                    THEN [items[id] EXCEPT !.objective = revision]
                    ELSE items[id]]
  BY DEF apply_patch, Revision
<1>2. /\ Parses(patch) /\ WithinBudget(patch)
      /\ RemovesLeaves(items, patch) /\ AddsFit(items, patch)
  BY DEF LegalPatch
<1>3. \A n \in DOMAIN adds :
         /\ n \in {1, 2} /\ n \in DOMAIN Added(patch)
         /\ \A m \in DOMAIN adds : Added(patch)[m] = Added(patch)[n] => m = n
  BY <1>2, AddedItems
<1>4. \A n \in DOMAIN adds :
         /\ adds[n].deps \subseteq kept \cup {Added(patch)[m] : m \in 1 .. n - 1}
         /\ Added(patch)[n] \notin kept
  BY <1>2 DEF AddsFit
<1>5. Range(Added(patch)) = {Added(patch)[n] : n \in DOMAIN adds}
  BY <1>2, AddedItems DEF Range
<1>6. \A i \in kept : items[i].deps \subseteq kept
  <2>1. \A i \in kept : items[i].deps \cap Touched(patch, "remove") = {}
    BY <1>2 DEF RemovesLeaves
  <2>2. \A i \in kept : items[i].deps \subseteq DOMAIN items
    BY DEF Sound, WellFormed
  <2> QED
    BY <2>1, <2>2
<1>7. \A i \in kept : items[i] = WorkItem(items[i].agent, items[i].objective, items[i].deps)
  BY DEF Sound
<1> HIDE DEF new, kept, adds, items, revision, New
<1>8. DOMAIN new = kept \cup Range(Added(patch)) /\ kept \cap Range(Added(patch)) = {}
  BY <1>1, <1>4, <1>5
<1>9. ASSUME NEW i \in kept
      PROVE  /\ i \in Touched(patch, "modify") =>
                  new[i] = WorkItem(items[i].agent, revision, items[i].deps)
             /\ i \notin Touched(patch, "modify") => new[i] = items[i]
             /\ new[i].agent = items[i].agent /\ new[i].deps = items[i].deps
  <2>1. new[i] = IF i \in Touched(patch, "modify")
                 THEN [items[i] EXCEPT !.objective = revision] ELSE items[i]
    BY <1>1
  <2>2. [items[i] EXCEPT !.objective = revision] =
          WorkItem(items[i].agent, revision, items[i].deps)
    <3>1. PICK a, o, d : items[i] = WorkItem(a, o, d)
      BY <1>7
    <3>2. items[i].agent = a /\ items[i].deps = d
      BY <3>1 DEF WorkItem
    <3>3. [WorkItem(a, o, d) EXCEPT !.objective = revision] = WorkItem(a, revision, d)
      BY DEF WorkItem
    <3> QED
      BY <3>1, <3>2, <3>3
  <2>3. \A a, o, d : WorkItem(a, o, d).agent = a /\ WorkItem(a, o, d).deps = d
    BY DEF WorkItem
  <2> QED
    BY <2>1, <2>2, <2>3
<1>10. ASSUME NEW n \in DOMAIN adds
       PROVE  /\ Added(patch)[n] \in DOMAIN new
              /\ new[Added(patch)[n]] = WorkItem(adds[n].agent, revision, adds[n].deps)
              /\ new[Added(patch)[n]].deps
                   \subseteq kept \cup {Added(patch)[m] : m \in 1 .. n - 1}
  <2>1. Added(patch)[n] \in DOMAIN new /\ Added(patch)[n] \notin kept
    BY <1>4, <1>5, <1>8
  <2>2. (CHOOSE m \in DOMAIN adds : Added(patch)[m] = Added(patch)[n]) = n
    BY <1>3
  <2>3. New(Added(patch)[n]) = adds[n]
    BY <2>2 DEF New
  <2>4. new[Added(patch)[n]] = WorkItem(adds[n].agent, revision, adds[n].deps)
    BY <1>1, <1>8, <2>1, <2>3
  <2>5. new[Added(patch)[n]].deps = adds[n].deps
    BY <2>4 DEF WorkItem
  <2> QED
    BY <1>4, <2>1, <2>4, <2>5
<1> QED
  BY <1>6, <1>8, <1>9, <1>10 DEF new, kept, adds, items, revision

\* Adding in order and removing only what nothing waits for makes no cycle:
\* a set of WorkItems with one that is kept has a first one among those, and a
\* set of added ones has the one that was added first.
LEMMA PatchedAcyclic ==
  ASSUME NEW plan, NEW rules, Sound(plan, rules), NEW patch, LegalPatch(plan, patch)
  PROVE  WellFormed(apply_patch(plan, patch).items)
<1> DEFINE items == plan.items
           new == apply_patch(plan, patch).items
           kept == DOMAIN items \ Touched(patch, "remove")
           adds == OfKind(patch, "add")
           id(n) == Added(patch)[n]
<1>1. /\ DOMAIN new = kept \cup Range(Added(patch))
      /\ \A i \in kept : new[i].deps = items[i].deps /\ items[i].deps \subseteq kept
      /\ \A n \in DOMAIN adds :
            new[id(n)].deps \subseteq kept \cup {id(m) : m \in 1 .. n - 1}
  BY PatchedItems
<1>2. /\ DOMAIN adds \subseteq {1, 2}
      /\ Range(Added(patch)) = {id(n) : n \in DOMAIN adds}
      /\ \A n, m \in DOMAIN adds : id(m) = id(n) => m = n
      /\ \A n \in DOMAIN adds : \A m \in 1 .. n - 1 : m \in DOMAIN adds
  <2>1. PICK k \in Nat : DOMAIN adds = 1..k
    BY KindList DEF LegalPatch
  <2> QED
    BY <2>1, AddedItems DEF LegalPatch, Range
<1>3. kept \cap Range(Added(patch)) = {}
  BY PatchedItems
<1>4. Acyclic(items)
  BY DEF Sound, WellFormed
<1>5. kept \subseteq DOMAIN items
  OBVIOUS
<1> HIDE DEF items, new, kept, adds, id
<1>6. \A i \in DOMAIN new : new[i].deps \subseteq DOMAIN new
  <2>1. \A n \in DOMAIN adds : new[id(n)].deps \subseteq kept \cup Range(Added(patch))
    BY <1>1, <1>2
  <2> QED
    BY <1>1, <1>2, <2>1
<1>7. ASSUME NEW S \in SUBSET DOMAIN new, S # {}
      PROVE  \E i \in S : new[i].deps \cap S = {}
  <2>1. CASE S \cap kept # {}
    <3>1. PICK i \in S \cap kept : items[i].deps \cap (S \cap kept) = {}
      BY <1>4, <1>5, <2>1 DEF Acyclic
    <3>2. new[i].deps = items[i].deps /\ items[i].deps \subseteq kept
      BY <1>1
    <3> QED
      BY <3>1, <3>2
  <2>2. CASE S \cap kept = {}
    <3>1. \A i \in S : \E n \in DOMAIN adds : i = id(n)
      BY <1>1, <1>2, <2>2
    <3>2. PICK n \in DOMAIN adds : id(n) \in S /\ \A m \in DOMAIN adds : m < n => id(m) \notin S
      <4>1. CASE \E m \in DOMAIN adds : m = 1 /\ id(m) \in S
        BY <1>2, <4>1
      <4>2. CASE ~\E m \in DOMAIN adds : m = 1 /\ id(m) \in S
        <5>1. PICK m \in DOMAIN adds : id(m) \in S
          BY <1>7, <3>1
        <5>2. \A l \in DOMAIN adds : l < m => l = 1
          BY <1>2
        <5> QED
          BY <4>2, <5>1, <5>2
      <4> QED
        BY <4>1, <4>2
    <3>3. \A m \in 1 .. n - 1 : id(m) \notin S
      BY <1>2, <3>2
    <3> QED
      BY <1>1, <2>2, <3>2, <3>3
  <2> QED
    BY <2>1, <2>2
<1>8. Acyclic(new)
  BY <1>7 DEF Acyclic
<1> QED
  BY <1>6, <1>8 DEF WellFormed, new

\* A legal patch of a sound plan makes a sound plan: no order of the system is
\* lost, for a step keeps its agent and its dependencies.
LEMMA PatchSound ==
  ASSUME NEW plan, NEW rules, Sound(plan, rules), NEW patch, LegalPatch(plan, patch)
  PROVE  Sound(apply_patch(plan, patch), rules)
<1> DEFINE items == plan.items
           next == apply_patch(plan, patch)
           new == next.items
           kept == DOMAIN items \ Touched(patch, "remove")
           adds == OfKind(patch, "add")
           revision == Len(plan.id) + 1
<1>1. /\ DOMAIN new = kept \cup Range(Added(patch))
      /\ \A i \in kept :
            /\ i \in Touched(patch, "modify") =>
                 new[i] = WorkItem(items[i].agent, revision, items[i].deps)
            /\ i \notin Touched(patch, "modify") => new[i] = items[i]
            /\ new[i].agent = items[i].agent /\ new[i].deps = items[i].deps
            /\ items[i].deps \subseteq kept
      /\ \A n \in DOMAIN adds :
            new[Added(patch)[n]] = WorkItem(adds[n].agent, revision, adds[n].deps)
  BY PatchedItems
<1>2. /\ \A i \in Range(Added(patch)) : \E n \in DOMAIN adds : i = Added(patch)[n]
      /\ \A n \in DOMAIN adds : Added(patch)[n][1] = "patch"
  BY AddedItems DEF LegalPatch, Range
<1>3. next.id \in Seq(Nat) /\ Len(next.id) = revision /\ revision \in Nat
  <2>1. PICK n \in 1..5 : patch.ops \in [1..n -> PatchOperation]
    BY DEF LegalPatch, Parses
  <2>2. Len(patch.ops) = n /\ n \in Nat
    BY <2>1
  <2>3. next.id = Append(plan.id, n) /\ plan.id \in Seq(Nat)
    BY <2>2 DEF apply_patch, Sound
  <2> QED
    BY <2>2, <2>3
<1>4. Ordered(items, rules) /\ WellFormed(new)
  BY PatchedAcyclic DEF Sound
<1>5. \A i \in kept : /\ items[i] = WorkItem(items[i].agent, items[i].objective, items[i].deps)
                      /\ items[i].objective \in Nat /\ items[i].objective <= revision
  BY <1>3 DEF Sound
<1>6. \A a, o, d : /\ WorkItem(a, o, d).agent = a /\ WorkItem(a, o, d).deps = d
                   /\ WorkItem(a, o, d).objective = o
  BY DEF WorkItem
<1>7. kept \subseteq DOMAIN items
  OBVIOUS
<1> HIDE DEF items, next, kept, adds, revision
<1>8. \A i \in DOMAIN new : /\ new[i] = WorkItem(new[i].agent, new[i].objective, new[i].deps)
                            /\ new[i].objective \in Nat /\ new[i].objective <= revision
  <2> TAKE i \in DOMAIN new
  <2>1. PICK a, o, d : new[i] = WorkItem(a, o, d) /\ o \in Nat /\ o <= revision
    <3>1. CASE i \in kept
      BY <1>1, <1>3, <1>5, <3>1
    <3>2. CASE i \notin kept
      BY <1>1, <1>2, <1>3, <3>2
    <3> QED
      BY <3>1, <3>2
  <2> QED
    BY <1>6, <2>1
<1>9. Ordered(new, rules)
  <2> SUFFICES ASSUME NEW i \in DOMAIN new, NEW rule \in rules, i[1] = "step",
                      rule[1] = new[i].agent
               PROVE  \E j \in new[i].deps : new[j].agent = rule[2]
    BY DEF Ordered
  <2>1. i \in kept
    BY <1>1, <1>2
  <2>2. PICK j \in items[i].deps : items[j].agent = rule[2]
    BY <1>1, <1>4, <1>7, <2>1 DEF Ordered
  <2> QED
    BY <1>1, <2>1, <2>2
<1> QED
  BY <1>3, <1>4, <1>8, <1>9 DEF Sound, next

----------------------------------------------------------------------------
\* What a patch invalidates.

\* Sets that hold what waits for their members.
Upward(items, U) == \A j \in DOMAIN items : items[j].deps \cap U # {} => j \in U

\* Downstream is the least such set.
LEMMA DownstreamLeast ==
  ASSUME NEW items, NEW S, NEW i \in DOMAIN items
  PROVE  i \in Downstream(items, S) <=>
           \/ i \in S
           \/ \A U \in SUBSET DOMAIN items :
                 S \cap DOMAIN items \subseteq U /\ Upward(items, U) => i \in U
BY DEF Downstream, Upward

\* What is downstream of a set is downstream of one of its members.
LEMMA DownstreamOfOne ==
  ASSUME NEW items, NEW T, NEW i \in DOMAIN items
  PROVE  i \in Downstream(items, T) <=>
           \E j \in T \cap DOMAIN items : i \in Downstream(items, {j})
<1> DEFINE D == DOMAIN items
           Below(j) == Downstream(items, {j})
<1>1. ASSUME NEW j \in D, NEW k \in Below(j), NEW V \in SUBSET D, j \in V, Upward(items, V)
      PROVE  k \in V
  <2>1. CASE k \in D
    BY <1>1, <2>1, DownstreamLeast
  <2>2. CASE k \notin D
    BY <1>1, <2>2 DEF Downstream
  <2> QED
    BY <2>1, <2>2
<1>2. ASSUME NEW j \in T \cap D, i \in Below(j)
      PROVE  i \in Downstream(items, T)
  <2> SUFFICES ASSUME NEW U \in SUBSET D, T \cap D \subseteq U, Upward(items, U)
               PROVE  i \in U
    BY DownstreamLeast
  <2> QED
    BY <1>1, <1>2
<1>3. ASSUME i \in Downstream(items, T)
      PROVE  \E j \in T \cap D : i \in Below(j)
  <2> DEFINE U == {k \in D : \E j \in T \cap D : k \in Below(j)}
  <2>1. \A j \in D : j \in Below(j)
    BY DownstreamLeast
  <2>2. T \cap D \subseteq U
    BY <2>1
  <2>3. Upward(items, U)
    <3> SUFFICES ASSUME NEW k \in D, NEW m \in items[k].deps \cap U PROVE k \in U
      BY DEF Upward
    <3>1. PICK j \in T \cap D : m \in Below(j)
      OBVIOUS
    <3>2. k \in Below(j)
      <4> SUFFICES ASSUME NEW V \in SUBSET D, j \in V, Upward(items, V) PROVE k \in V
        BY DownstreamLeast
      <4>1. m \in V
        BY <1>1, <3>1
      <4> QED
        BY <4>1 DEF Upward
    <3> QED
      BY <3>1, <3>2
  <2>4. CASE i \in T
    BY <2>1, <2>4
  <2>5. CASE i \notin T
    <3>1. U \in SUBSET D
      OBVIOUS
    <3> HIDE DEF U
    <3>2. i \in U
      BY <1>3, <2>2, <2>3, <2>5, <3>1, DownstreamLeast
    <3> QED
      BY <3>2 DEF U
  <2> QED
    BY <2>4, <2>5
<1> QED
  BY <1>2, <1>3

\* A WorkItem of the patched plan is what it was exactly if the patch does not
\* touch it: a new objective is of a revision no older one is of.
LEMMA TouchedDiffer ==
  ASSUME NEW plan, NEW rules, Sound(plan, rules), NEW patch, LegalPatch(plan, patch),
         NEW j \in DOMAIN apply_patch(plan, patch).items
  PROVE  j \in DOMAIN plan.items /\ plan.items[j] = apply_patch(plan, patch).items[j]
           <=> j \notin Touched(patch, "remove") \cup Touched(patch, "modify")
                          \cup Range(Added(patch))
<1> DEFINE items == plan.items
           new == apply_patch(plan, patch).items
           kept == DOMAIN items \ Touched(patch, "remove")
           adds == OfKind(patch, "add")
           revision == Len(plan.id) + 1
<1>1. /\ DOMAIN new = kept \cup Range(Added(patch))
      /\ kept \cap Range(Added(patch)) = {}
      /\ \A i \in kept :
            /\ i \in Touched(patch, "modify") =>
                 new[i] = WorkItem(items[i].agent, revision, items[i].deps)
            /\ i \notin Touched(patch, "modify") => new[i] = items[i]
      /\ \A n \in DOMAIN adds :
            new[Added(patch)[n]] = WorkItem(adds[n].agent, revision, adds[n].deps)
  BY PatchedItems
<1>2. \A i \in Range(Added(patch)) : \E n \in DOMAIN adds : i = Added(patch)[n]
  BY AddedItems DEF LegalPatch, Range
<1>3. \A i \in DOMAIN items : items[i].objective # revision
  <2>1. Len(plan.id) \in Nat
    BY DEF Sound
  <2> QED
    BY <2>1 DEF Sound
<1>4. \A a, o, d : WorkItem(a, o, d).objective = o
  BY DEF WorkItem
<1>5. kept \subseteq DOMAIN items /\ kept \cap Touched(patch, "remove") = {}
  OBVIOUS
<1> HIDE DEF items, new, kept, adds, revision
<1>6. CASE j \in Range(Added(patch))
  <2>1. new[j].objective = revision
    BY <1>1, <1>2, <1>4, <1>6
  <2> QED
    BY <1>3, <1>6, <2>1 DEF items, new
<1>7. CASE j \in kept /\ j \in Touched(patch, "modify")
  <2>1. new[j].objective = revision
    BY <1>1, <1>4, <1>7
  <2> QED
    BY <1>3, <1>7, <2>1 DEF items, new
<1>8. CASE j \in kept /\ j \notin Touched(patch, "modify")
  BY <1>1, <1>5, <1>8 DEF items, new
<1> QED
  BY <1>1, <1>6, <1>7, <1>8 DEF new

\* Of the results that were read, those outside of what the patch invalidates
\* are the ones whose WorkItem and all it waits for are unchanged.
LEMMA PatchKeeps ==
  ASSUME NEW plan, NEW rules, Sound(plan, rules), NEW patch, LegalPatch(plan, patch),
         NEW read
  PROVE  LET new == apply_patch(plan, patch).items
             Same(j) == j \in DOMAIN plan.items /\ plan.items[j] = new[j]
         IN  (read \ Invalidated(plan, patch)) \cap DOMAIN new =
               {i \in read \cap DOMAIN new : \A j \in Ancestors(new, i) : Same(j)}
<1> DEFINE new == apply_patch(plan, patch).items
           Same(j) == j \in DOMAIN plan.items /\ plan.items[j] = new[j]
           T == Touched(patch, "remove") \cup Touched(patch, "modify") \cup Range(Added(patch))
<1>1. \A j \in DOMAIN new : Same(j) <=> j \notin T
  BY TouchedDiffer
<1>2. Invalidated(plan, patch) = Downstream(new, T)
  BY DEF Invalidated
<1> HIDE DEF new, T, Same
<1>3. ASSUME NEW i \in DOMAIN new
      PROVE  i \notin Downstream(new, T) <=> \A j \in Ancestors(new, i) : Same(j)
  <2>1. i \in Downstream(new, {i})
    BY DEF Downstream
  <2>2. \A j : j \in Ancestors(new, i) <=> j \in DOMAIN new /\ i \in Downstream(new, {j})
    BY <2>1 DEF Ancestors
  <2>3. i \in Downstream(new, T) <=> \E j \in T \cap DOMAIN new : i \in Downstream(new, {j})
    BY DownstreamOfOne
  <2> QED
    BY <1>1, <2>2, <2>3
<1>4. (read \ Downstream(new, T)) \cap DOMAIN new =
        {i \in read \cap DOMAIN new : \A j \in Ancestors(new, i) : Same(j)}
  BY <1>3
<1> QED
  BY <1>2, <1>4 DEF new, Same

----------------------------------------------------------------------------
\* The inductive invariant.

RequestFields ==
    {"pc", "trace", "attempt", "context", "base", "plan", "read", "done", "intent"}

FileNames ==
    {"status", "plans", "plan", "delivery", "baseline", "checkpoint", "completed", "made",
     "rules"}

\* Every request has its fields and every Trace its files.
Shape ==
    /\ DOMAIN client = Clients /\ DOMAIN trace = Traces
    /\ \A c \in Clients : /\ DOMAIN client[c] = RequestFields
                          /\ client[c].trace \in Traces \cup {NoTrace}
    /\ \A t \in Traces : DOMAIN trace[t] = FileNames
    /\ turns \in Seq([role : {"user", "system", "assistant"}, trace : Traces])
    /\ sync \subseteq Traces

\* A message, or a reader of the conversation, knows of a Trace.
Named(t) == t \in sync \/ \E n \in DOMAIN turns : turns[n].trace = t

Empty(t) == trace[t].plans = {} /\ trace[t].plan = NoPlan

\* Nobody knows of a Trace that was not started.
Unstarted ==
    \A t \in Traces : trace[t].status = "none" =>
        ~Named(t) /\ Empty(t) /\ \A c \in Clients : client[c].trace # t

\* A Trace whose plan is being drafted has no plan yet, and belongs to one
\* request: its rules change under no one.
Drafting ==
    \A c \in Clients : client[c].pc = "draft" =>
        /\ ~Named(client[c].trace) /\ Empty(client[c].trace)
        /\ \A d \in Clients \ {c} : client[d].trace # client[c].trace

\* The plans on disk are sound, and the delivery plan is one of them.
FilesSound(t) ==
    /\ \A p \in trace[t].plans \cup {trace[t].plan} : Sound(p, trace[t].rules)
    /\ trace[t].delivery = <<>> \/ \E p \in trace[t].plans : p.id = trace[t].delivery

\* So are the plans that a request has read or made, whatever others write.
RequestSound(c) ==
    LET r == client[c]
    IN  /\ r.pc \notin {"idle", "new"} => r.trace \in Traces
        /\ r.pc \in {"baseline", "record", "deliver", "submit"} =>
              Sound(r.plan, trace[r.trace].rules)
        /\ r.pc = "patch" => Sound(r.base, trace[r.trace].rules)
        /\ r.pc = "deliver" => \E p \in trace[r.trace].plans : p.id = r.plan.id
        /\ r.pc \in {"modify", "patch"} => r.plan = NoPlan
        /\ r.pc \in {"new", "draft", "resume"} => r.intent # "modify"

\* PatchKeepsUnaffected of one request.
KeepsUnaffected(r) ==
    LET new == r.plan.items
        old == r.base.items
        Same(j) == j \in DOMAIN old /\ old[j] = new[j]
    IN  r.intent = "modify" /\ r.plan # NoPlan =>
          r.done = {i \in r.read \cap DOMAIN new : \A j \in Ancestors(new, i) : Same(j)}

Inv ==
    /\ Shape /\ Unstarted /\ Drafting
    /\ \A t \in Traces : FilesSound(t)
    /\ \A c \in Clients : RequestSound(c) /\ KeepsUnaffected(client[c])

LEMMA InitInv == Init => Inv
<1> SUFFICES ASSUME Init PROVE Inv
  OBVIOUS
<1>1. /\ DOMAIN client = Clients /\ DOMAIN trace = Traces
      /\ \A c \in Clients : client[c] = Idle
      /\ \A t \in Traces : trace[t] = NewTrace
      /\ turns = <<>> /\ sync = {}
  BY DEF Init
<1>2. /\ DOMAIN Idle = RequestFields /\ Idle.trace = NoTrace /\ Idle.pc = "idle"
      /\ Idle.intent = "none"
  BY DEF Idle, RequestFields
<1>3. /\ DOMAIN NewTrace = FileNames /\ NewTrace.plans = {} /\ NewTrace.plan = NoPlan
      /\ NewTrace.delivery = <<>>
  BY DEF NewTrace, FileNames
<1>4. Shape
  BY <1>1, <1>2, <1>3 DEF Shape
<1>5. NoTrace \notin Traces
  BY DEF NoTrace, Traces
<1>6. Unstarted
  BY <1>1, <1>2, <1>3, <1>5 DEF Unstarted, Named, Empty
<1>7. Drafting
  BY <1>1, <1>2 DEF Drafting
<1>8. \A t \in Traces : FilesSound(t)
  BY <1>1, <1>3, NoPlanSound DEF FilesSound
<1>9. \A c \in Clients : RequestSound(c) /\ KeepsUnaffected(client[c])
  BY <1>1, <1>2 DEF RequestSound, KeepsUnaffected
<1> QED
  BY <1>4, <1>6, <1>7, <1>8, <1>9 DEF Inv

----------------------------------------------------------------------------
\* A step of one request changes the request and at most one Trace: the one it
\* works on, or one nobody knew of.

OnlyRequest(c) ==
    /\ DOMAIN client' = Clients /\ \A d \in Clients \ {c} : client'[d] = client[d]
    /\ DOMAIN client'[c] = RequestFields
    /\ client'[c].trace \in Traces \cup {NoTrace}

OnlyTrace(t0) ==
    /\ DOMAIN trace' = Traces /\ \A t \in Traces \ {t0} : trace'[t] = trace[t]
    /\ t0 \in Traces => DOMAIN trace'[t0] = FileNames /\ trace'[t0].status # "none"

\* What is said names no Trace but the one of the request.
SaysOnly(t0) ==
    /\ turns' \in Seq([role : {"user", "system", "assistant"}, trace : Traces])
    /\ sync' = sync
    /\ \A t \in Traces : Named(t)' => Named(t) \/ t = t0

\* What others have read of the Trace stays what it was.
KeepsRules(t0) ==
    /\ trace'[t0].rules = trace[t0].rules
    /\ \A p \in trace[t0].plans : \E q \in trace'[t0].plans : q.id = p.id

LEMMA RequestKeeps ==
  ASSUME Inv, NEW c \in Clients, NEW t0 \in Traces \cup {NoTrace},
         OnlyRequest(c), OnlyTrace(t0), SaysOnly(client[c].trace),
         t0 \in Traces => FilesSound(t0)',
         t0 = NoTrace \/ t0 = client[c].trace \/ trace[t0].status = "none",
         \/ client'[c].trace \in {NoTrace, client[c].trace, t0}
         \/ Named(client'[c].trace),
         \A d \in Clients \ {c} : client[d].trace = t0 /\ t0 \in Traces => KeepsRules(t0),
         RequestSound(c)', KeepsUnaffected(client'[c]),
         client'[c].pc = "draft" =>
            /\ ~Named(client[c].trace)' /\ Empty(client[c].trace)'
            /\ \A d \in Clients \ {c} : client[d].trace # client'[c].trace
  PROVE  Inv'
<1> DEFINE mine == client[c].trace
           next == client'[c].trace
<1>0. Shape /\ Unstarted /\ Drafting
  BY DEF Inv
<1>1. NoTrace \notin Traces
  BY DEF NoTrace, Traces
<1>2. Shape'
  <2>1. \A d \in Clients : /\ DOMAIN client'[d] = RequestFields
                           /\ client'[d].trace \in Traces \cup {NoTrace}
    BY <1>0 DEF Shape, OnlyRequest
  <2>2. \A t \in Traces : DOMAIN trace'[t] = FileNames
    BY <1>0 DEF Shape, OnlyTrace
  <2> QED
    BY <1>0, <2>1, <2>2 DEF Shape, OnlyRequest, OnlyTrace, SaysOnly
<1>3. ASSUME NEW t \in Traces, trace'[t].status = "none"
      PROVE  ~Named(t)' /\ Empty(t)' /\ \A d \in Clients : client'[d].trace # t
  <2>1. t # t0 /\ trace'[t] = trace[t]
    BY <1>3 DEF OnlyTrace
  <2>2. ~Named(t) /\ Empty(t) /\ \A d \in Clients : client[d].trace # t
    BY <1>0, <1>3, <2>1 DEF Unstarted
  <2>3. ~Named(t)'
    BY <2>2 DEF SaysOnly
  <2>4. Empty(t)'
    BY <2>1, <2>2 DEF Empty
  <2>5. next # t
    BY <1>1, <2>1, <2>2
  <2>6. \A d \in Clients : client'[d].trace # t
    BY <2>2, <2>5 DEF OnlyRequest
  <2> QED
    BY <2>3, <2>4, <2>6
<1>4. ASSUME NEW d \in Clients \ {c}, client'[d].pc = "draft"
      PROVE  /\ ~Named(client[d].trace)' /\ Empty(client[d].trace)'
             /\ \A e \in Clients \ {d} : client'[e].trace # client'[d].trace
  <2>1. client'[d] = client[d] /\ client[d].pc = "draft"
    BY <1>4 DEF OnlyRequest
  <2>0. PICK t \in Traces : t = client[d].trace
    BY <2>1 DEF Inv, RequestSound
  <2>2. ~Named(t) /\ Empty(t) /\ \A e \in Clients \ {d} : client[e].trace # t
    BY <1>0, <2>0, <2>1 DEF Drafting
  <2>3. trace[t].status # "none"
    BY <1>0, <2>0 DEF Unstarted
  <2>4. t # mine
    BY <2>2
  <2>5. t # t0
    BY <1>1, <2>3, <2>4
  <2>6. ~Named(t)'
    BY <2>2, <2>3, <2>4 DEF SaysOnly
  <2>7. Empty(t)'
    BY <2>2, <2>3, <2>5 DEF Empty, OnlyTrace
  <2>8. next # t
    BY <1>1, <2>2, <2>3, <2>4, <2>5
  <2>9. \A e \in Clients \ {d} : client'[e].trace # t
    BY <2>2, <2>8 DEF OnlyRequest
  <2> QED
    BY <2>0, <2>1, <2>6, <2>7, <2>9
<1>5. \A d \in Clients \ {c} : client'[d].trace # next
        \/ client'[c].pc # "draft"
  BY DEF OnlyRequest
<1>6. ASSUME NEW t \in Traces PROVE FilesSound(t)'
  <2>1. CASE t = t0
    BY <2>1
  <2>2. CASE t # t0
    BY <2>2 DEF Inv, FilesSound, OnlyTrace
  <2> QED
    BY <2>1, <2>2
<1>7. ASSUME NEW d \in Clients \ {c} PROVE RequestSound(d)' /\ KeepsUnaffected(client'[d])
  <2>1. client'[d] = client[d] /\ RequestSound(d) /\ KeepsUnaffected(client[d])
    BY DEF Inv, OnlyRequest
  <2> DEFINE t == client[d].trace
  <2>2. t \in Traces => KeepsRules(t)
    <3>1. CASE t # t0
      BY <3>1 DEF OnlyTrace, KeepsRules
    <3> QED
      BY <3>1
  <2>3. ASSUME client[d].pc \notin {"idle", "new"}
        PROVE  RequestSound(d)'
    <3>1. t \in Traces /\ KeepsRules(t)
      BY <2>1, <2>2, <2>3 DEF RequestSound
    <3> QED
      BY <2>1, <2>3, <3>1 DEF RequestSound, KeepsRules
  <2>4. ASSUME client[d].pc \in {"idle", "new"}
        PROVE  RequestSound(d)'
    BY <2>1, <2>4 DEF RequestSound
  <2> QED
    BY <2>1, <2>3, <2>4
<1>8. Unstarted'
  BY <1>3 DEF Unstarted
<1>9. Drafting'
  BY <1>4, <1>5 DEF Drafting
<1>10. \A d \in Clients : RequestSound(d)' /\ KeepsUnaffected(client'[d])
  BY <1>7
<1> QED
  BY <1>2, <1>6, <1>8, <1>9, <1>10 DEF Inv

----------------------------------------------------------------------------
\* What the steps of a request have in common.

LEMMA SaysType ==
  ASSUME Shape, NEW role \in {"user", "system", "assistant"},
         NEW t \in Traces \cup {NoTrace}, Says(role, t), sync' = sync
  PROVE  SaysOnly(t)
<1> DEFINE Message == [role : {"user", "system", "assistant"}, trace : Traces]
<1>1. turns \in Seq(Message)
  BY DEF Shape
<1>2. CASE t = NoTrace
  BY <1>1, <1>2 DEF Says, SaysOnly, Named
<1>3. CASE t # NoTrace
  <2>1. turns' = Append(turns, Turn(role, t))
    BY <1>3 DEF Says
  <2>2. Turn(role, t) \in Message /\ Turn(role, t).trace = t
    BY <1>3 DEF Turn
  <2> HIDE DEF Message
  <2>3. /\ turns' \in Seq(Message) /\ DOMAIN turns' = 1 .. Len(turns) + 1
        /\ turns'[Len(turns) + 1] = Turn(role, t)
        /\ \A n \in 1 .. Len(turns) : n \in DOMAIN turns /\ turns'[n] = turns[n]
    BY <1>1, <2>1, <2>2
  <2>4. \A n \in DOMAIN turns' : n \in 1 .. Len(turns) \/ n = Len(turns) + 1
    BY <1>1, <2>3
  <2>5. \A u \in Traces : Named(u)' => Named(u) \/ u = t
    BY <2>2, <2>3, <2>4 DEF Named
  <2> QED
    BY <2>3, <2>5 DEF SaysOnly, Message
<1> QED
  BY <1>2, <1>3

LEMMA SaysNothing ==
  ASSUME Shape, NEW t, UNCHANGED <<turns, sync>>
  PROVE  SaysOnly(t)
BY DEF Shape, SaysOnly, Named

LEMMA LatestKnown ==
  ASSUME Shape
  PROVE  /\ LatestTrace \in Traces \cup {NoTrace}
         /\ LatestTrace \in Traces => Named(LatestTrace)
<1>1. CASE turns = <<>>
  BY <1>1 DEF LatestTrace, Traces, NoTrace
<1>2. CASE turns # <<>>
  <2> DEFINE Message == [role : {"user", "system", "assistant"}, trace : Traces]
  <2>0. turns \in Seq(Message) /\ \A m \in Message : m.trace \in Traces
    BY DEF Shape
  <2> HIDE DEF Message
  <2>1. Len(turns) \in DOMAIN turns /\ turns[Len(turns)] \in Message
    BY <1>2, <2>0
  <2>2. turns[Len(turns)].trace \in Traces
    BY <2>0, <2>1
  <2> QED
    BY <1>2, <2>1, <2>2 DEF LatestTrace, Named
<1> QED
  BY <1>1, <1>2

\* A request that returns knows nothing any more.
LEMMA RequestReturns ==
  ASSUME Inv, NEW c \in Clients, Return(c)
  PROVE  /\ OnlyRequest(c) /\ client'[c] = Idle
         /\ client'[c].trace = NoTrace /\ client'[c].pc = "idle"
         /\ RequestSound(c)' /\ KeepsUnaffected(client'[c])
<1>1. /\ DOMAIN client' = Clients /\ client'[c] = Idle
      /\ \A d \in Clients \ {c} : client'[d] = client[d]
  BY DEF Inv, Shape, Return
<1>2. /\ DOMAIN Idle = RequestFields /\ Idle.trace = NoTrace /\ Idle.pc = "idle"
      /\ Idle.intent = "none"
  BY DEF Idle, RequestFields
<1> QED
  BY <1>1, <1>2 DEF OnlyRequest, RequestSound, KeepsUnaffected

LEMMA SameTraces ==
  ASSUME Inv, UNCHANGED trace
  PROVE  OnlyTrace(NoTrace) /\ NoTrace \notin Traces
BY DEF Inv, Shape, OnlyTrace, NoTrace, Traces

LEMMA ReturnKeeps ==
  ASSUME Inv, NEW c \in Clients, Return(c), UNCHANGED trace, SaysOnly(client[c].trace)
  PROVE  Inv'
BY RequestReturns, SameTraces, RequestKeeps

\* A request that goes on with its Trace and changes no file.
LEMMA MoveKeeps ==
  ASSUME Inv, NEW c \in Clients, UNCHANGED trace, SaysOnly(client[c].trace),
         OnlyRequest(c), client'[c].trace = client[c].trace,
         RequestSound(c)', KeepsUnaffected(client'[c]),
         client'[c].pc = "draft" => client[c].pc = "draft" /\ UNCHANGED turns
  PROVE  Inv'
<1>1. ASSUME client'[c].pc = "draft"
      PROVE  /\ ~Named(client[c].trace)' /\ Empty(client[c].trace)'
             /\ \A d \in Clients \ {c} : client[d].trace # client'[c].trace
  <2>1. /\ ~Named(client[c].trace) /\ Empty(client[c].trace)
        /\ \A d \in Clients \ {c} : client[d].trace # client[c].trace
    BY <1>1 DEF Inv, Drafting
  <2> QED
    BY <1>1, <2>1 DEF Named, Empty, SaysOnly
<1> QED
  BY <1>1, SameTraces, RequestKeeps

----------------------------------------------------------------------------
\* send_message up to the dispatch.

LEMMA AskKeeps ==
  ASSUME Inv, NEW c \in Clients, Ask(c)
  PROVE  Inv'
<1>0. Shape
  BY DEF Inv
<1>1. SaysOnly(LatestTrace)
  BY <1>0, LatestKnown, SaysType DEF Ask
<1>2. SaysOnly(client[c].trace)
  BY <1>0, <1>1, LatestKnown DEF SaysOnly
<1>3. UNCHANGED <<client, trace>> /\ client[c].pc = "idle"
  BY DEF Ask
<1>4. OnlyRequest(c)
  BY <1>0, <1>3 DEF OnlyRequest, Shape
<1>5. RequestSound(c)' /\ KeepsUnaffected(client'[c])
  BY <1>3 DEF Inv, RequestSound
<1> QED
  BY <1>2, <1>3, <1>4, <1>5, MoveKeeps

LEMMA SendKeeps ==
  ASSUME Inv, NEW c \in Clients, NEW intent \in {"new", "modify", "resume"}, Send(c, intent)
  PROVE  Inv'
<1> DEFINE t == LatestTrace
           refused == \/ intent # "new" /\ t = NoTrace
                      \/ intent # "resume" /\ Status(t) \in Active
           asked == [Idle EXCEPT !.pc = intent, !.intent = intent, !.trace = t]
<1>0. Shape
  BY DEF Inv
<1>1. /\ client' = [client EXCEPT ![c] = IF refused THEN Idle ELSE asked]
      /\ Says("user", NoTrace) /\ UNCHANGED <<trace, sync>>
  BY DEF Send
<1>2. UNCHANGED turns
  BY <1>1 DEF Says
<1>3. SaysOnly(client[c].trace)
  BY <1>0, <1>1, <1>2, SaysNothing
<1>4. CASE refused
  BY <1>1, <1>3, <1>4, ReturnKeeps DEF Return
<1>5. CASE ~refused
  <2>1. /\ DOMAIN asked = RequestFields /\ asked.pc = intent /\ asked.intent = intent
        /\ asked.trace = t /\ asked.plan = NoPlan
    BY DEF Idle, RequestFields
  <2>2. /\ DOMAIN client' = Clients /\ client'[c] = asked
        /\ \A d \in Clients \ {c} : client'[d] = client[d]
    BY <1>0, <1>1, <1>5 DEF Shape
  <2>3. t \in Traces \cup {NoTrace} /\ (t \in Traces => Named(t))
    BY <1>0, LatestKnown
  <2>4. intent # "new" => t \in Traces
    BY <1>5, <2>3
  <2> HIDE DEF asked, refused, t
  <2>5. OnlyRequest(c)
    BY <2>1, <2>2, <2>3 DEF OnlyRequest
  <2>6. RequestSound(c)'
    BY <2>1, <2>2, <2>4 DEF RequestSound
  <2>7. KeepsUnaffected(client'[c])
    BY <2>1, <2>2 DEF KeepsUnaffected
  <2>8. client'[c].pc # "draft" /\ client'[c].trace = t
    BY <2>1, <2>2
  <2> QED
    BY <1>1, <1>3, <2>3, <2>5, <2>6, <2>7, <2>8, SameTraces, RequestKeeps
<1> QED
  BY <1>4, <1>5

----------------------------------------------------------------------------
\* PlannerService.plan.

LEMMA FirstUnused ==
  ASSUME Unused # {}
  PROVE  (CHOOSE u \in Unused : \A v \in Unused : u <= v) \in Unused
<1>1. Unused \subseteq Nat
  BY ConversationAssumption DEF Unused, Traces
<1>2. \E x \in Unused : \A y \in Unused : ~(<<y, x>> \in OpToRel(<, Nat))
  BY <1>1, NatLessThanWellFounded, WFMin
<1>3. OpToRel(<, Nat) = {ss \in Nat \X Nat : ss[1] < ss[2]}
  BY Zenon DEF OpToRel
<1>4. \E x \in Unused : \A y \in Unused : x <= y
  <2> DEFINE L == OpToRel(<, Nat)
  <2>1. /\ L = {ss \in Nat \X Nat : ss[1] < ss[2]}
        /\ \E x \in Unused : \A y \in Unused : ~(<<y, x>> \in L)
    BY <1>2, <1>3
  <2> HIDE DEF L
  <2>2. \A x, y \in Nat : ~(<<y, x>> \in L) => x <= y
    BY <2>1
  <2> QED
    BY <1>1, <2>1, <2>2
<1> QED
  BY <1>4

LEMMA StartPlanningKeeps ==
  ASSUME Inv, NEW c \in Clients, NEW delivery \in BOOLEAN, StartPlanning(c, delivery)
  PROVE  Inv'
<1>0. Shape /\ Unstarted /\ Unused # {} /\ UNCHANGED <<turns, sync>> /\ client[c].pc = "new"
  BY DEF Inv, StartPlanning
<1>1. PICK t \in Unused : t = CHOOSE u \in Unused : \A v \in Unused : u <= v
  BY <1>0, FirstUnused
<1>2. t \in Traces /\ t \in Nat /\ trace[t].status = "none"
  BY <1>1, ConversationAssumption DEF Unused, Traces
<1>3. ~Named(t) /\ \A d \in Clients : client[d].trace # t
  BY <1>0, <1>2 DEF Unstarted
<1> DEFINE controlled == PreflightControlled(project, delivery)
<1>4. /\ trace' = [trace EXCEPT ![t] =
               Started(t, IF controlled THEN "planned" ELSE "planning")]
      /\ client' = [client EXCEPT ![c] =
               [client[c] EXCEPT
                         !.pc = IF controlled THEN "baseline" ELSE "draft",
                         !.trace = t, !.attempt = 1, !.context = project,
                         !.plan = IF controlled THEN ControlledPlan(t) ELSE NoPlan]]
  BY <1>1 DEF StartPlanning
<1> HIDE DEF controlled
<1>5. \A s : /\ DOMAIN Started(t, s) = FileNames /\ Started(t, s).status = s
             /\ Started(t, s).plans = {} /\ Started(t, s).plan = NoPlan
             /\ Started(t, s).delivery = <<>> /\ Started(t, s).rules = {}
  BY DEF Started, NewTrace, FileNames
<1>6. /\ DOMAIN trace' = Traces /\ DOMAIN trace'[t] = FileNames /\ trace'[t].status # "none"
      /\ \A u \in Traces \ {t} : trace'[u] = trace[u]
      /\ trace'[t].plans = {} /\ trace'[t].plan = NoPlan
      /\ trace'[t].delivery = <<>> /\ trace'[t].rules = {}
  <2>1. trace'[t] = Started(t, IF controlled THEN "planned" ELSE "planning")
    BY <1>0, <1>2, <1>4 DEF Shape
  <2>2. DOMAIN trace' = Traces /\ \A u \in Traces \ {t} : trace'[u] = trace[u]
    BY <1>0, <1>2, <1>4 DEF Shape
  <2> QED
    BY <1>5, <2>1, <2>2
<1>7. /\ DOMAIN client' = Clients /\ \A d \in Clients \ {c} : client'[d] = client[d]
      /\ DOMAIN client'[c] = RequestFields /\ client'[c].trace = t
      /\ client'[c].pc = IF controlled THEN "baseline" ELSE "draft"
      /\ client'[c].intent = client[c].intent
      /\ controlled => client'[c].plan = ControlledPlan(t)
  BY <1>0, <1>4 DEF Shape, RequestFields
<1>8. OnlyTrace(t) /\ OnlyRequest(c) /\ SaysOnly(client[c].trace)
  BY <1>0, <1>2, <1>6, <1>7, SaysNothing DEF OnlyTrace, OnlyRequest
<1>9. FilesSound(t)'
  BY <1>6, NoPlanSound DEF FilesSound
<1>10. client[c].intent # "modify"
  BY <1>0 DEF Inv, RequestSound
<1>11. RequestSound(c)'
  <2>1. controlled => Sound(client'[c].plan, trace'[t].rules)
    BY <1>2, <1>6, <1>7, ControlledSound
  <2> QED
    BY <1>2, <1>7, <1>10, <2>1 DEF RequestSound
<1>12. KeepsUnaffected(client'[c])
  BY <1>7, <1>10 DEF KeepsUnaffected
<1>13. ~Named(t)' /\ Empty(t)'
  BY <1>0, <1>3, <1>6 DEF Named, Empty
<1>14. /\ ~Named(client[c].trace)' /\ Empty(client[c].trace)'
       /\ \A d \in Clients \ {c} : client[d].trace # client'[c].trace
  BY <1>3, <1>7, <1>13
<1> QED
  BY <1>2, <1>3, <1>7, <1>8, <1>9, <1>11, <1>12, <1>14, RequestKeeps

\* A step that leaves the plans of a Trace alone.
LEMMA PlansKept ==
  ASSUME Inv, NEW t \in Traces,
         trace'[t].plans = trace[t].plans, trace'[t].plan = trace[t].plan,
         trace'[t].rules = trace[t].rules, trace'[t].delivery = trace[t].delivery
  PROVE  FilesSound(t)' /\ KeepsRules(t)
BY DEF Inv, FilesSound, KeepsRules

LEMMA NextAttemptKeeps ==
  ASSUME Inv, NEW c \in Clients, NextAttempt(c), UNCHANGED <<trace, turns, sync>>
  PROVE  Inv'
<1>0. Shape /\ RequestSound(c) /\ KeepsUnaffected(client[c])
  BY DEF Inv
<1>1. /\ DOMAIN client' = Clients /\ \A d \in Clients \ {c} : client'[d] = client[d]
      /\ client'[c] = [client[c] EXCEPT !.attempt = 2]
  BY <1>0 DEF Shape, NextAttempt
<1>2. /\ DOMAIN client'[c] = RequestFields
      /\ \A f \in RequestFields \ {"attempt"} : client'[c][f] = client[c][f]
  BY <1>0, <1>1 DEF Shape
<1>3. /\ client'[c].pc = client[c].pc /\ client'[c].trace = client[c].trace
      /\ client'[c].plan = client[c].plan /\ client'[c].base = client[c].base
      /\ client'[c].intent = client[c].intent /\ client'[c].read = client[c].read
      /\ client'[c].done = client[c].done
  BY <1>2 DEF RequestFields
<1>4. OnlyRequest(c) /\ SaysOnly(client[c].trace)
  BY <1>0, <1>1, <1>2, <1>3, SaysNothing DEF OnlyRequest, Shape
<1>5. RequestSound(c)'
  BY <1>0, <1>3 DEF RequestSound
<1>6. KeepsUnaffected(client'[c])
  BY <1>0, <1>3 DEF KeepsUnaffected
<1> QED
  BY <1>3, <1>4, <1>5, <1>6, MoveKeeps

LEMMA AttemptFailsKeeps ==
  ASSUME Inv, NEW c \in Clients, client[c].pc = "draft", AttemptFails(c)
  PROVE  Inv'
<1>0. Shape /\ sync' = sync
  BY DEF Inv, AttemptFails
<1>1. CASE client[c].attempt # 2
  BY <1>0, <1>1, NextAttemptKeeps DEF AttemptFails
<1>2. CASE client[c].attempt = 2
  <2>1. PICK t \in Traces : t = client[c].trace
    BY DEF Inv, RequestSound
  <2>2. trace' = [trace EXCEPT ![t].status = "failed"] /\ Says("system", t) /\ Return(c)
    BY <1>2, <2>1 DEF AttemptFails
  <2>3. SaysOnly(client[c].trace)
    BY <1>0, <2>1, <2>2, SaysType
  <2>4. /\ OnlyTrace(t)
        /\ trace'[t].plans = trace[t].plans /\ trace'[t].plan = trace[t].plan
        /\ trace'[t].rules = trace[t].rules /\ trace'[t].delivery = trace[t].delivery
    BY <1>0, <2>2 DEF Shape, OnlyTrace, FileNames
  <2>5. FilesSound(t)' /\ KeepsRules(t)
    BY <2>4, PlansKept
  <2> QED
    BY <2>1, <2>2, <2>3, <2>4, <2>5, RequestReturns, RequestKeeps
<1> QED
  BY <1>1, <1>2

LEMMA PlanningRaisesKeeps ==
  ASSUME Inv, NEW c \in Clients, PlanningRaises(c)
  PROVE  Inv'
<1>1. Return(c) /\ UNCHANGED <<trace, turns, sync>>
  BY DEF PlanningRaises, Says
<1> QED
  BY <1>1, SaysNothing, ReturnKeeps DEF Inv

LEMMA OutOfTracesKeeps ==
  ASSUME Inv, NEW c \in Clients, OutOfTraces(c)
  PROVE  Inv'
BY SaysNothing, ReturnKeeps DEF Inv, OutOfTraces

LEMMA PlanningSucceedsKeeps ==
  ASSUME Inv, NEW c \in Clients, NEW draft, PlanningSucceeds(c, draft)
  PROVE  Inv'
<1> DEFINE rules == IF draft.template THEN {} ELSE SystemRules(client[c].context)
           plan == DraftPlan(client[c].trace, draft, client[c].context)
<1>0. /\ Shape /\ UNCHANGED <<turns, sync>> /\ client[c].pc = "draft" /\ RequestSound(c)
      /\ Drafting
  BY DEF Inv, PlanningSucceeds
<1>1. PICK t \in Traces : t = client[c].trace
  BY <1>0 DEF RequestSound
<1>2. /\ client' = [client EXCEPT ![c].pc = "baseline", ![c].plan = plan]
      /\ trace' = [trace EXCEPT ![t].status = "planned", ![t].rules = rules]
  BY <1>1 DEF PlanningSucceeds
<1>3. Sound(plan, rules)
  <2>1. t \in Nat
    BY ConversationAssumption DEF Traces
  <2> QED
    BY <1>1, <2>1, DraftSound DEF PlanningSucceeds
<1> HIDE DEF plan, rules
<1>4. /\ OnlyTrace(t) /\ trace'[t].rules = rules
      /\ trace'[t].plans = trace[t].plans /\ trace'[t].plan = trace[t].plan
      /\ trace'[t].delivery = trace[t].delivery
  BY <1>0, <1>2 DEF Shape, OnlyTrace, FileNames
<1>5. /\ DOMAIN client' = Clients /\ \A d \in Clients \ {c} : client'[d] = client[d]
      /\ DOMAIN client'[c] = RequestFields
      /\ client'[c].pc = "baseline" /\ client'[c].plan = plan /\ client'[c].trace = t
      /\ client'[c].intent = client[c].intent
  BY <1>0, <1>1, <1>2 DEF Shape, RequestFields
<1>6. Empty(t) /\ \A d \in Clients \ {c} : client[d].trace # t
  BY <1>0, <1>1 DEF Drafting
<1>7. FilesSound(t)'
  <2>1. trace[t].delivery = <<>>
    BY <1>6 DEF Inv, FilesSound, Empty
  <2> QED
    BY <1>4, <1>6, <2>1, NoPlanSound DEF FilesSound, Empty
<1>8. RequestSound(c)'
  BY <1>3, <1>4, <1>5 DEF RequestSound
<1>9. KeepsUnaffected(client'[c])
  BY <1>0, <1>5 DEF KeepsUnaffected, RequestSound
<1>10. OnlyRequest(c) /\ SaysOnly(client[c].trace)
  BY <1>0, <1>5, SaysNothing DEF OnlyRequest
<1> QED
  BY <1>1, <1>4, <1>5, <1>6, <1>7, <1>8, <1>9, <1>10, RequestKeeps

----------------------------------------------------------------------------
\* The files of a plan.

\* What a Goto leaves alone.
LEMMA GotoRequest ==
  ASSUME Inv, NEW c \in Clients, NEW pc, Goto(c, pc)
  PROVE  /\ OnlyRequest(c) /\ client'[c].pc = pc /\ client'[c].trace = client[c].trace
         /\ client'[c].plan = client[c].plan /\ client'[c].base = client[c].base
         /\ client'[c].intent = client[c].intent
         /\ KeepsUnaffected(client'[c])
<1>0. Shape /\ KeepsUnaffected(client[c])
  BY DEF Inv
<1>1. /\ DOMAIN client' = Clients /\ \A d \in Clients \ {c} : client'[d] = client[d]
      /\ client'[c] = [client[c] EXCEPT !.pc = pc]
  BY <1>0 DEF Shape, Goto
<1>2. /\ DOMAIN client'[c] = RequestFields /\ client'[c].pc = pc
      /\ client'[c].trace = client[c].trace
      /\ client'[c].plan = client[c].plan /\ client'[c].base = client[c].base
      /\ client'[c].intent = client[c].intent /\ client'[c].read = client[c].read
      /\ client'[c].done = client[c].done
  BY <1>0, <1>1 DEF Shape, RequestFields
<1>3. KeepsUnaffected(client'[c])
  BY <1>0, <1>2 DEF KeepsUnaffected
<1> QED
  BY <1>0, <1>1, <1>2, <1>3 DEF OnlyRequest, Shape

\* A request that goes on to write about its Trace and writes a sound plan.
LEMMA WriteKeeps ==
  ASSUME Inv, NEW c \in Clients, NEW t \in Traces, t = client[c].trace,
         OnlyRequest(c), client'[c].trace = t, client'[c].pc # "draft",
         RequestSound(c)', KeepsUnaffected(client'[c]),
         OnlyTrace(t), FilesSound(t)', KeepsRules(t), UNCHANGED <<turns, sync>>
  PROVE  Inv'
<1>1. SaysOnly(client[c].trace)
  BY SaysNothing DEF Inv
<1> QED
  BY <1>1, RequestKeeps

\* A Trace that a request works on was started.
LEMMA Begun ==
  ASSUME Inv, NEW c \in Clients, client[c].pc \notin {"idle", "new"}
  PROVE  client[c].trace \in Traces /\ trace[client[c].trace].status # "none"
<1>1. client[c].trace \in Traces
  BY DEF Inv, RequestSound
<1> QED
  BY <1>1 DEF Inv, Unstarted

LEMMA RecordBaselineKeeps ==
  ASSUME Inv, NEW c \in Clients, RecordBaseline(c)
  PROVE  Inv'
<1>0. /\ Shape /\ UNCHANGED <<turns, sync>> /\ client[c].pc = "baseline" /\ RequestSound(c)
  BY DEF Inv, RecordBaseline
<1>1. PICK t \in Traces : t = client[c].trace /\ trace[t].status # "none"
  BY <1>0, Begun
<1>2. PICK pc \in {"record", "submit"} : Goto(c, pc)
  BY DEF RecordBaseline
<1>3. trace' = [trace EXCEPT ![t].baseline = Digests(client[c].plan)]
  BY <1>1 DEF RecordBaseline
<1>4. /\ OnlyTrace(t)
      /\ trace'[t].plans = trace[t].plans /\ trace'[t].plan = trace[t].plan
      /\ trace'[t].rules = trace[t].rules /\ trace'[t].delivery = trace[t].delivery
  BY <1>0, <1>1, <1>3 DEF Shape, OnlyTrace, FileNames
<1>5. FilesSound(t)' /\ KeepsRules(t)
  BY <1>4, PlansKept
<1>6. /\ OnlyRequest(c) /\ client'[c].pc = pc /\ client'[c].trace = t
      /\ client'[c].plan = client[c].plan /\ KeepsUnaffected(client'[c])
  BY <1>1, <1>2, GotoRequest
<1>7. RequestSound(c)'
  <2>1. Sound(client[c].plan, trace[t].rules)
    BY <1>0, <1>1 DEF RequestSound
  <2> QED
    BY <1>2, <1>4, <1>6, <2>1 DEF RequestSound
<1> QED
  BY <1>0, <1>1, <1>2, <1>4, <1>5, <1>6, <1>7, WriteKeeps

\* record_plan of a sound plan: the others stay, and what was found by its id
\* is found by it.
LEMMA WithPlanSound ==
  ASSUME Inv, NEW t \in Traces, NEW plan, Sound(plan, trace[t].rules)
  PROVE  LET files == WithPlan(trace[t], plan)
         IN  /\ DOMAIN files = FileNames /\ files.status = trace[t].status
             /\ files.rules = trace[t].rules /\ files.delivery = trace[t].delivery
             /\ files.plan = plan /\ plan \in files.plans
             /\ \A p \in files.plans \cup {files.plan} : Sound(p, trace[t].rules)
             /\ \A p \in trace[t].plans : \E q \in files.plans : q.id = p.id
<1> DEFINE files == WithPlan(trace[t], plan)
<1>0. DOMAIN trace[t] = FileNames
  BY DEF Inv, Shape
<1>1. /\ DOMAIN files = FileNames /\ files.status = trace[t].status
      /\ files.rules = trace[t].rules /\ files.delivery = trace[t].delivery
      /\ files.plan = plan
      /\ files.plans = {p \in trace[t].plans : p.id # plan.id} \cup {plan}
  BY <1>0 DEF WithPlan, FileNames
<1>2. \A p \in trace[t].plans : Sound(p, trace[t].rules)
  BY DEF Inv, FilesSound
<1> HIDE DEF files
<1>3. \A p \in trace[t].plans : \E q \in files.plans : q.id = p.id
  BY <1>1
<1> QED
  BY <1>1, <1>2, <1>3 DEF files

LEMMA RecordPatchedPlanKeeps ==
  ASSUME Inv, NEW c \in Clients, RecordPatchedPlan(c)
  PROVE  Inv'
<1>0. /\ Shape /\ UNCHANGED <<turns, sync>> /\ client[c].pc = "record" /\ RequestSound(c)
      /\ Goto(c, "deliver")
  BY DEF Inv, RecordPatchedPlan
<1>1. PICK t \in Traces : t = client[c].trace /\ trace[t].status # "none"
  BY <1>0, Begun
<1> DEFINE files == WithPlan(trace[t], client[c].plan)
<1>2. trace' = [trace EXCEPT ![t] = files]
  BY <1>1 DEF RecordPatchedPlan
<1>3. Sound(client[c].plan, trace[t].rules)
  BY <1>0, <1>1 DEF RequestSound
<1>4. /\ DOMAIN files = FileNames /\ files.status = trace[t].status
      /\ files.rules = trace[t].rules /\ files.delivery = trace[t].delivery
      /\ files.plan = client[c].plan /\ client[c].plan \in files.plans
      /\ \A p \in files.plans \cup {files.plan} : Sound(p, trace[t].rules)
      /\ \A p \in trace[t].plans : \E q \in files.plans : q.id = p.id
  BY <1>3, WithPlanSound
<1> HIDE DEF files
<1>5. OnlyTrace(t) /\ trace'[t] = files
  BY <1>0, <1>1, <1>2, <1>4 DEF Shape, OnlyTrace
<1>6. KeepsRules(t)
  BY <1>4, <1>5 DEF KeepsRules
<1>7. FilesSound(t)'
  <2>1. trace[t].delivery = <<>> \/ \E p \in trace[t].plans : p.id = trace[t].delivery
    BY DEF Inv, FilesSound
  <2> QED
    BY <1>4, <1>5, <2>1 DEF FilesSound
<1>8. /\ OnlyRequest(c) /\ client'[c].pc = "deliver" /\ client'[c].trace = t
      /\ client'[c].plan = client[c].plan /\ KeepsUnaffected(client'[c])
  BY <1>0, <1>1, GotoRequest
<1>9. RequestSound(c)'
  BY <1>3, <1>4, <1>5, <1>8 DEF RequestSound
<1> QED
  BY <1>0, <1>1, <1>5, <1>6, <1>7, <1>8, <1>9, WriteKeeps

LEMMA RecordPatchedDeliveryKeeps ==
  ASSUME Inv, NEW c \in Clients, RecordPatchedDelivery(c)
  PROVE  Inv'
<1>0. /\ Shape /\ UNCHANGED <<turns, sync>> /\ client[c].pc = "deliver" /\ RequestSound(c)
      /\ Goto(c, "submit")
  BY DEF Inv, RecordPatchedDelivery
<1>1. PICK t \in Traces : t = client[c].trace /\ trace[t].status # "none"
  BY <1>0, Begun
<1> DEFINE files == WithDelivery(trace[t], client[c].plan, TRUE)
<1>2. trace' = [trace EXCEPT ![t] = files]
  BY <1>1 DEF RecordPatchedDelivery
<1>3. /\ Sound(client[c].plan, trace[t].rules)
      /\ \E p \in trace[t].plans : p.id = client[c].plan.id
  BY <1>0, <1>1 DEF RequestSound
<1>4. /\ DOMAIN files = FileNames /\ files.status = trace[t].status
      /\ files.rules = trace[t].rules /\ files.delivery = client[c].plan.id
      /\ files.plan = trace[t].plan /\ files.plans = trace[t].plans
  BY <1>0 DEF Shape, WithDelivery, FileNames
<1> HIDE DEF files
<1>5. OnlyTrace(t) /\ trace'[t] = files
  BY <1>0, <1>1, <1>2, <1>4 DEF Shape, OnlyTrace
<1>6. KeepsRules(t)
  BY <1>4, <1>5 DEF KeepsRules
<1>7. FilesSound(t)'
  <2>1. \A p \in trace[t].plans \cup {trace[t].plan} : Sound(p, trace[t].rules)
    BY DEF Inv, FilesSound
  <2> QED
    BY <1>3, <1>4, <1>5, <2>1 DEF FilesSound
<1>8. /\ OnlyRequest(c) /\ client'[c].pc = "submit" /\ client'[c].trace = t
      /\ client'[c].plan = client[c].plan /\ KeepsUnaffected(client'[c])
  BY <1>0, <1>1, GotoRequest
<1>9. RequestSound(c)'
  BY <1>3, <1>4, <1>5, <1>8 DEF RequestSound
<1> QED
  BY <1>0, <1>1, <1>5, <1>6, <1>7, <1>8, <1>9, WriteKeeps

LEMMA SubmitKeeps ==
  ASSUME Inv, NEW c \in Clients, Submit(c)
  PROVE  Inv'
<1>0. Shape /\ sync' = sync /\ client[c].pc = "submit" /\ RequestSound(c)
  BY DEF Inv, Submit
<1>1. PICK t \in Traces : t = client[c].trace /\ trace[t].status # "none"
  BY <1>0, Begun
<1> DEFINE plan == client[c].plan
           noted == WithPlan(trace[t], plan)
           files == WithDelivery(noted, plan, FALSE)
           all == IF client[c].intent = "new" THEN files
                  ELSE [files EXCEPT !.checkpoint = Checkpoint(plan, client[c].done)]
<1>2. CASE future[t] = "running"
  <2>1. Return(c) /\ UNCHANGED trace /\ (Says("system", t) \/ UNCHANGED turns)
    BY <1>1, <1>2 DEF Submit
  <2>2. SaysOnly(client[c].trace)
    BY <1>0, <1>1, <2>1, SaysType, SaysNothing
  <2> QED
    BY <2>1, <2>2, ReturnKeeps
<1>3. CASE future[t] # "running"
  <2>1. trace' = [trace EXCEPT ![t] = all] /\ Goto(c, "answer") /\ UNCHANGED turns
    BY <1>1, <1>3 DEF Submit
  <2>2. Sound(plan, trace[t].rules)
    BY <1>0, <1>1 DEF RequestSound
  <2>3. /\ DOMAIN noted = FileNames /\ noted.status = trace[t].status
        /\ noted.rules = trace[t].rules /\ noted.delivery = trace[t].delivery
        /\ plan \in noted.plans
        /\ \A p \in noted.plans \cup {noted.plan} : Sound(p, trace[t].rules)
        /\ \A p \in trace[t].plans : \E q \in noted.plans : q.id = p.id
    BY <2>2, WithPlanSound
  <2> HIDE DEF noted
  <2>4. /\ DOMAIN files = FileNames /\ files.status = noted.status
        /\ files.rules = noted.rules /\ files.plan = noted.plan /\ files.plans = noted.plans
        /\ files.delivery = IF noted.delivery # <<>> THEN noted.delivery ELSE plan.id
    BY <2>3 DEF WithDelivery, FileNames
  <2> HIDE DEF files
  <2>5. /\ DOMAIN all = FileNames /\ all.status = files.status /\ all.rules = files.rules
        /\ all.plan = files.plan /\ all.plans = files.plans /\ all.delivery = files.delivery
    BY <2>4 DEF FileNames
  <2> HIDE DEF all
  <2>6. OnlyTrace(t) /\ trace'[t] = all
    BY <1>0, <1>1, <2>1, <2>3, <2>4, <2>5 DEF Shape, OnlyTrace
  <2>7. KeepsRules(t)
    BY <2>3, <2>4, <2>5, <2>6 DEF KeepsRules
  <2>8. FilesSound(t)'
    <3>1. trace[t].delivery = <<>> \/ \E p \in trace[t].plans : p.id = trace[t].delivery
      BY DEF Inv, FilesSound
    <3>2. all.delivery = <<>> \/ \E p \in all.plans : p.id = all.delivery
      BY <2>3, <2>4, <2>5, <3>1
    <3>3. \A p \in all.plans \cup {all.plan} : Sound(p, all.rules)
      BY <2>3, <2>4, <2>5
    <3> QED
      BY <2>6, <3>2, <3>3 DEF FilesSound
  <2>9. /\ OnlyRequest(c) /\ client'[c].pc = "answer" /\ client'[c].trace = t
        /\ KeepsUnaffected(client'[c])
    BY <1>1, <2>1, GotoRequest
  <2>10. RequestSound(c)'
    BY <2>9 DEF RequestSound
  <2> QED
    BY <1>0, <1>1, <2>1, <2>6, <2>7, <2>8, <2>9, <2>10, WriteKeeps
<1> QED
  BY <1>2, <1>3

LEMMA AnswerStartedKeeps ==
  ASSUME Inv, NEW c \in Clients, AnswerStarted(c)
  PROVE  Inv'
<1>1. Return(c) /\ UNCHANGED <<trace, sync>> /\ Says("system", client[c].trace)
  BY DEF AnswerStarted
<1>2. Shape /\ client[c].trace \in Traces \cup {NoTrace}
  BY DEF Inv, Shape
<1>3. SaysOnly(client[c].trace)
  BY <1>1, <1>2, SaysType
<1> QED
  BY <1>1, <1>3, ReturnKeeps

----------------------------------------------------------------------------
\* start_patch_plan and plan_patch.

LEMMA StartPatchKeeps ==
  ASSUME Inv, NEW c \in Clients, StartPatch(c)
  PROVE  Inv'
<1>0. /\ Shape /\ UNCHANGED <<trace, sync>> /\ client[c].pc = "modify" /\ RequestSound(c)
  BY DEF Inv, StartPatch
<1>1. PICK t \in Traces : t = client[c].trace
  BY <1>0, Begun
<1> DEFINE Based == [client EXCEPT ![c].pc = "patch", ![c].attempt = 1,
                        ![c].base = trace[t].plan, ![c].read = trace[t].checkpoint.done]
<1>2. \/ Return(c) /\ (Says("system", t) \/ UNCHANGED turns)
      \/ client' = Based /\ UNCHANGED turns
  BY <1>1 DEF StartPatch
<1>3. SaysOnly(client[c].trace)
  BY <1>0, <1>1, <1>2, SaysType, SaysNothing
<1>4. CASE Return(c)
  BY <1>0, <1>3, <1>4, ReturnKeeps
<1>5. CASE client' = Based /\ UNCHANGED turns
  <2>1. /\ DOMAIN client' = Clients /\ \A d \in Clients \ {c} : client'[d] = client[d]
        /\ DOMAIN client'[c] = RequestFields
        /\ client'[c].pc = "patch" /\ client'[c].trace = t
        /\ client'[c].base = trace[t].plan /\ client'[c].plan = client[c].plan
        /\ client'[c].intent = client[c].intent
    BY <1>0, <1>1, <1>5 DEF Shape, RequestFields
  <2>2. OnlyRequest(c) /\ client'[c].trace = client[c].trace
    BY <1>1, <2>1 DEF OnlyRequest
  <2>3. client[c].plan = NoPlan
    BY <1>0 DEF RequestSound
  <2>4. Sound(trace[t].plan, trace[t].rules)
    BY DEF Inv, FilesSound
  <2>5. RequestSound(c)'
    BY <1>0, <2>1, <2>3, <2>4 DEF RequestSound
  <2>6. KeepsUnaffected(client'[c])
    BY <2>1, <2>3 DEF KeepsUnaffected
  <2> QED
    BY <1>0, <1>3, <2>1, <2>2, <2>5, <2>6, MoveKeeps
<1> QED
  BY <1>2, <1>4, <1>5

LEMMA PatchingFailsKeeps ==
  ASSUME Inv, NEW c \in Clients, PatchingFails(c)
  PROVE  Inv'
<1>0. Shape /\ UNCHANGED <<trace, sync>> /\ client[c].trace \in Traces \cup {NoTrace}
  BY DEF Inv, Shape, PatchingFails
<1>1. CASE client[c].attempt = 2
  <2>1. Says("system", client[c].trace) /\ Return(c)
    BY <1>1 DEF PatchingFails
  <2>2. SaysOnly(client[c].trace)
    BY <1>0, <2>1, SaysType
  <2> QED
    BY <1>0, <2>1, <2>2, ReturnKeeps
<1>2. CASE client[c].attempt # 2
  BY <1>0, <1>2, NextAttemptKeeps DEF PatchingFails
<1> QED
  BY <1>1, <1>2

LEMMA PatchingSucceedsKeeps ==
  ASSUME Inv, NEW c \in Clients, NEW patch, PatchingSucceeds(c, patch)
  PROVE  Inv'
<1> DEFINE base == client[c].base
           plan == apply_patch(base, patch)
           kept == (client[c].read \ Invalidated(base, patch)) \cap DOMAIN plan.items
<1>0. /\ Shape /\ UNCHANGED <<trace, turns, sync>> /\ client[c].pc = "patch"
      /\ RequestSound(c) /\ LegalPatch(base, patch)
  BY DEF Inv, PatchingSucceeds
<1>1. PICK t \in Traces : t = client[c].trace
  BY <1>0, Begun
<1>2. client' = [client EXCEPT ![c].pc = "baseline", ![c].plan = plan, ![c].done = kept]
  BY DEF PatchingSucceeds
<1>3. Sound(base, trace[t].rules)
  BY <1>0, <1>1 DEF RequestSound
<1>4. Sound(plan, trace[t].rules)
  BY <1>0, <1>3, PatchSound
<1>5. kept = {i \in client[c].read \cap DOMAIN plan.items :
                \A j \in Ancestors(plan.items, i) :
                    j \in DOMAIN base.items /\ base.items[j] = plan.items[j]}
  BY <1>0, <1>3, PatchKeeps
<1> HIDE DEF plan, kept
<1>6. /\ DOMAIN client' = Clients /\ \A d \in Clients \ {c} : client'[d] = client[d]
      /\ DOMAIN client'[c] = RequestFields
      /\ client'[c].pc = "baseline" /\ client'[c].trace = t /\ client'[c].plan = plan
      /\ client'[c].base = base /\ client'[c].read = client[c].read
      /\ client'[c].done = kept /\ client'[c].intent = client[c].intent
  BY <1>0, <1>1, <1>2 DEF Shape, RequestFields
<1>7. OnlyRequest(c) /\ SaysOnly(client[c].trace) /\ client'[c].trace = client[c].trace
  BY <1>0, <1>1, <1>6, SaysNothing DEF OnlyRequest
<1>8. RequestSound(c)'
  BY <1>0, <1>4, <1>6 DEF RequestSound
<1>9. KeepsUnaffected(client'[c])
  BY <1>5, <1>6 DEF KeepsUnaffected
<1> QED
  BY <1>0, <1>6, <1>7, <1>8, <1>9, MoveKeeps

----------------------------------------------------------------------------
\* resume_run.

LEMMA DeliveryPlanSound ==
  ASSUME Inv, NEW t \in Traces
  PROVE  Sound(DeliveryPlan(trace[t]), trace[t].rules)
<1>1. FilesSound(t)
  BY DEF Inv
<1>2. CASE trace[t].delivery = <<>>
  BY <1>1, <1>2 DEF DeliveryPlan, FilesSound
<1>3. CASE trace[t].delivery # <<>>
  <2>1. \E p \in trace[t].plans : p.id = trace[t].delivery
    BY <1>1, <1>3 DEF FilesSound
  <2>2. load_plan(trace[t], trace[t].delivery) \in trace[t].plans
    BY <2>1 DEF load_plan
  <2> QED
    BY <1>1, <1>3, <2>2 DEF DeliveryPlan, FilesSound
<1> QED
  BY <1>2, <1>3

LEMMA ResumeKeeps ==
  ASSUME Inv, NEW c \in Clients, Resume(c)
  PROVE  Inv'
<1>0. /\ Shape /\ UNCHANGED <<turns, sync>> /\ client[c].pc = "resume" /\ RequestSound(c)
  BY DEF Inv, Resume
<1>1. PICK t \in Traces : t = client[c].trace /\ trace[t].status # "none"
  BY <1>0, Begun
<1> DEFINE plan == DeliveryPlan(trace[t])
           noted == WithPlan(trace[t], plan)
           files == [noted EXCEPT !.status = "running"]
           done == LoadedState(trace[t])
<1>2. \/ Return(c) /\ UNCHANGED trace
      \/ /\ trace' = [trace EXCEPT ![t] = files]
         /\ client' = [client EXCEPT ![c].pc = "submit", ![c].plan = plan, ![c].done = done]
  BY <1>1 DEF Resume
<1>3. CASE Return(c) /\ UNCHANGED trace
  BY <1>0, <1>3, SaysNothing, ReturnKeeps
<1>4. CASE /\ trace' = [trace EXCEPT ![t] = files]
           /\ client' = [client EXCEPT ![c].pc = "submit", ![c].plan = plan, ![c].done = done]
  <2>1. Sound(plan, trace[t].rules)
    BY DeliveryPlanSound
  <2>2. /\ DOMAIN noted = FileNames
        /\ noted.rules = trace[t].rules /\ noted.delivery = trace[t].delivery
        /\ \A p \in noted.plans \cup {noted.plan} : Sound(p, trace[t].rules)
        /\ \A p \in trace[t].plans : \E q \in noted.plans : q.id = p.id
    BY <2>1, WithPlanSound
  <2> HIDE DEF noted, plan, done
  <2>3. /\ DOMAIN files = FileNames /\ files.status = "running" /\ files.rules = noted.rules
        /\ files.plan = noted.plan /\ files.plans = noted.plans
        /\ files.delivery = noted.delivery
    BY <2>2 DEF FileNames
  <2> HIDE DEF files
  <2>4. OnlyTrace(t) /\ trace'[t] = files
    BY <1>0, <1>4, <2>3 DEF Shape, OnlyTrace
  <2>5. KeepsRules(t)
    BY <2>2, <2>3, <2>4 DEF KeepsRules
  <2>6. FilesSound(t)'
    <3>1. trace[t].delivery = <<>> \/ \E p \in trace[t].plans : p.id = trace[t].delivery
      BY DEF Inv, FilesSound
    <3> QED
      BY <2>2, <2>3, <2>4, <3>1 DEF FilesSound
  <2>7. /\ DOMAIN client' = Clients /\ \A d \in Clients \ {c} : client'[d] = client[d]
        /\ DOMAIN client'[c] = RequestFields
        /\ client'[c].pc = "submit" /\ client'[c].trace = t /\ client'[c].plan = plan
        /\ client'[c].intent = client[c].intent
    BY <1>0, <1>1, <1>4 DEF Shape, RequestFields
  <2>8. OnlyRequest(c)
    BY <2>7 DEF OnlyRequest
  <2>9. RequestSound(c)'
    BY <2>1, <2>2, <2>3, <2>4, <2>7 DEF RequestSound
  <2>10. KeepsUnaffected(client'[c])
    BY <1>0, <2>7 DEF KeepsUnaffected, RequestSound
  <2> QED
    BY <1>0, <1>1, <2>4, <2>5, <2>6, <2>7, <2>8, <2>9, <2>10, WriteKeeps
<1> QED
  BY <1>2, <1>3, <1>4

----------------------------------------------------------------------------
\* The Worker, the reader of the conversation, and a crash.

\* A Worker writes no plan.
LEMMA WorkerKeeps ==
  ASSUME Inv, NEW t \in Traces, UNCHANGED <<client, turns, sync>>,
         DOMAIN trace' = Traces, \A u \in Traces \ {t} : trace'[u] = trace[u],
         DOMAIN trace'[t] = FileNames,
         trace'[t].status # "none" \/ trace'[t].status = trace[t].status,
         trace'[t].plans = trace[t].plans, trace'[t].plan = trace[t].plan,
         trace'[t].rules = trace[t].rules, trace'[t].delivery = trace[t].delivery
  PROVE  Inv'
<1>0. Shape /\ Unstarted /\ Drafting
  BY DEF Inv
<1>1. \A u \in Traces : /\ DOMAIN trace'[u] = FileNames
                        /\ trace'[u].status = "none" => trace[u].status = "none"
                        /\ trace'[u].plans = trace[u].plans /\ trace'[u].plan = trace[u].plan
                        /\ trace'[u].rules = trace[u].rules
                        /\ trace'[u].delivery = trace[u].delivery
  BY <1>0 DEF Shape
<1>2. \A u : Named(u)' <=> Named(u)
  BY DEF Named
<1>3. Shape'
  BY <1>0, <1>1 DEF Shape
<1>4. Unstarted'
  BY <1>0, <1>1, <1>2 DEF Unstarted, Empty
<1>5. \A c \in Clients : client[c].pc = "draft" => client[c].trace \in Traces
  BY DEF Inv, RequestSound
<1>6. Drafting'
  BY <1>0, <1>1, <1>2, <1>5 DEF Drafting, Empty
<1>7. ASSUME NEW u \in Traces PROVE FilesSound(u)'
  BY <1>1 DEF Inv, FilesSound
<1>8. ASSUME NEW c \in Clients PROVE RequestSound(c)' /\ KeepsUnaffected(client'[c])
  <2>1. RequestSound(c) /\ KeepsUnaffected(client[c])
    BY DEF Inv
  <2>2. RequestSound(c)'
    <3>1. CASE client[c].trace \in Traces
      BY <1>1, <2>1, <3>1 DEF RequestSound
    <3>2. CASE client[c].trace \notin Traces
      BY <2>1, <3>2 DEF RequestSound
    <3> QED
      BY <3>1, <3>2
  <2> QED
    BY <2>1, <2>2
<1> QED
  BY <1>3, <1>4, <1>6, <1>7, <1>8 DEF Inv

LEMMA WorkerStepKeeps ==
  ASSUME Inv, NEW t \in Traces, WorkerStep(t)
  PROVE  Inv'
<1>0. Shape /\ DOMAIN trace = Traces /\ DOMAIN trace[t] = FileNames
  BY DEF Inv, Shape
<1>1. ASSUME NEW status \in {"failed", "completed"}, WorkerEnds(t, status),
             UNCHANGED <<client, turns, sync>>
      PROVE  Inv'
  <2>1. trace' = [trace EXCEPT ![t].status = status]
    BY <1>1 DEF WorkerEnds
  <2>2. /\ DOMAIN trace' = Traces /\ \A u \in Traces \ {t} : trace'[u] = trace[u]
        /\ DOMAIN trace'[t] = FileNames /\ trace'[t].status # "none"
        /\ trace'[t].plans = trace[t].plans /\ trace'[t].plan = trace[t].plan
        /\ trace'[t].rules = trace[t].rules /\ trace'[t].delivery = trace[t].delivery
    BY <1>0, <2>1 DEF FileNames
  <2> QED
    BY <1>1, <2>2, WorkerKeeps
<1>2. CASE WorkerLoads(t)
  <2>1. UNCHANGED <<client, turns, sync>> /\ (UNCHANGED trace \/ WorkerEnds(t, "failed"))
    BY <1>2 DEF WorkerLoads
  <2> QED
    BY <1>0, <1>1, <2>1, WorkerKeeps
<1>3. ASSUME NEW i, WorkItemCompletes(t, i) PROVE Inv'
  <2>1. UNCHANGED <<client, turns, sync>>
    BY <1>3 DEF WorkItemCompletes
  <2>2. PICK completed, made, checkpoint :
          trace' = [trace EXCEPT ![t].completed = completed, ![t].made = made,
                                 ![t].checkpoint = checkpoint]
    BY <1>3 DEF WorkItemCompletes
  <2>3. /\ DOMAIN trace' = Traces /\ \A u \in Traces \ {t} : trace'[u] = trace[u]
        /\ DOMAIN trace'[t] = FileNames /\ trace'[t].status = trace[t].status
        /\ trace'[t].plans = trace[t].plans /\ trace'[t].plan = trace[t].plan
        /\ trace'[t].rules = trace[t].rules /\ trace'[t].delivery = trace[t].delivery
    BY <1>0, <2>2 DEF FileNames
  <2> QED
    BY <2>1, <2>3, WorkerKeeps
<1>4. ASSUME NEW i, WorkItemFails(t, i) PROVE Inv'
  <2>1. UNCHANGED <<client, turns, sync>>
    BY <1>4 DEF WorkItemFails
  <2>2. PICK completed :
          trace' = [trace EXCEPT ![t].status = "failed", ![t].completed = completed]
    BY <1>4 DEF WorkItemFails
  <2>3. /\ DOMAIN trace' = Traces /\ \A u \in Traces \ {t} : trace'[u] = trace[u]
        /\ DOMAIN trace'[t] = FileNames /\ trace'[t].status # "none"
        /\ trace'[t].plans = trace[t].plans /\ trace'[t].plan = trace[t].plan
        /\ trace'[t].rules = trace[t].rules /\ trace'[t].delivery = trace[t].delivery
    BY <1>0, <2>2 DEF FileNames
  <2> QED
    BY <2>1, <2>3, WorkerKeeps
<1>5. CASE WorkerFinishes(t)
  BY <1>1, <1>5 DEF WorkerFinishes
<1> QED
  BY <1>2, <1>3, <1>4, <1>5 DEF WorkerStep

\* Reading names no Trace that was not named.
LEMMA ReaderKeeps ==
  ASSUME Inv, UNCHANGED <<client, trace>>,
         turns' \in Seq([role : {"user", "system", "assistant"}, trace : Traces]),
         sync' \subseteq Traces, \A t \in Traces : Named(t)' => Named(t)
  PROVE  Inv'
<1>0. Shape /\ Unstarted /\ Drafting
  BY DEF Inv
<1>1. Shape'
  BY <1>0 DEF Shape
<1>2. Unstarted'
  BY <1>0 DEF Unstarted, Empty
<1>3. \A c \in Clients : client[c].pc = "draft" => client[c].trace \in Traces
  BY DEF Inv, RequestSound
<1>4. Drafting'
  BY <1>0, <1>3 DEF Drafting, Empty
<1>5. \A t \in Traces : FilesSound(t)'
  BY DEF Inv, FilesSound
<1>6. \A c \in Clients : RequestSound(c)' /\ KeepsUnaffected(client'[c])
  BY DEF Inv, RequestSound
<1> QED
  BY <1>1, <1>2, <1>4, <1>5, <1>6 DEF Inv

LEMMA ReaderStepKeeps ==
  ASSUME Inv, Reader
  PROVE  Inv'
<1> DEFINE Message == [role : {"user", "system", "assistant"}, trace : Traces]
<1>0. Shape /\ turns \in Seq(Message) /\ sync \subseteq Traces
  BY DEF Inv, Shape
<1>1. CASE SyncStarts
  <2>1. UNCHANGED <<client, trace, turns>> /\ sync' = Unanswered
    BY <1>1 DEF SyncStarts
  <2>2. \A m \in Message : m.trace \in Traces
    OBVIOUS
  <2> HIDE DEF Message
  <2>3. \A n \in DOMAIN turns : turns[n].trace \in Traces
    BY <1>0, <2>2
  <2>4. \A t \in Unanswered : t \in Traces /\ \E n \in DOMAIN turns : turns[n].trace = t
    BY <2>3 DEF Unanswered, TracesOf
  <2>5. \A t \in Traces : Named(t)' => Named(t)
    BY <2>1, <2>4 DEF Named
  <2> QED
    BY <1>0, <2>1, <2>4, <2>5, ReaderKeeps DEF Message
<1>2. ASSUME NEW t \in Traces, SyncAnswers(t) PROVE Inv'
  <2>1. /\ UNCHANGED <<client, trace>> /\ t \in sync /\ sync' = sync \ {t}
        /\ UNCHANGED turns \/ turns' = Append(turns, Turn("assistant", t))
    BY <1>2 DEF SyncAnswers, Says, Traces, NoTrace
  <2>2. Turn("assistant", t) \in Message /\ Turn("assistant", t).trace = t
    BY DEF Turn
  <2>3. /\ turns' \in Seq(Message)
        /\ \A n \in DOMAIN turns' : (n \in DOMAIN turns /\ turns'[n] = turns[n])
                                      \/ turns'[n].trace = t
    <3> HIDE DEF Message
    <3>1. CASE UNCHANGED turns
      BY <1>0, <3>1
    <3>2. CASE turns' = Append(turns, Turn("assistant", t))
      BY <1>0, <2>2, <3>2
    <3> QED
      BY <2>1, <3>1, <3>2
  <2>4. \A u \in Traces : Named(u)' => Named(u)
    BY <2>1, <2>3 DEF Named
  <2>5. sync' \subseteq Traces
    BY <1>0, <2>1
  <2> QED
    BY <2>1, <2>3, <2>4, <2>5, ReaderKeeps
<1> QED
  BY <1>1, <1>2 DEF Reader

LEMMA HostCrashKeeps ==
  ASSUME Inv, HostCrash
  PROVE  Inv'
<1>0. Shape /\ Unstarted
  BY DEF Inv
<1>1. /\ DOMAIN client' = Clients /\ \A c \in Clients : client'[c] = Idle
      /\ UNCHANGED <<trace, turns>> /\ sync' = {}
  BY DEF HostCrash
<1>2. /\ DOMAIN Idle = RequestFields /\ Idle.trace = NoTrace /\ Idle.pc = "idle"
      /\ Idle.intent = "none"
  BY DEF Idle, RequestFields
<1>3. NoTrace \notin Traces
  BY DEF NoTrace, Traces
<1>4. Shape'
  BY <1>0, <1>1, <1>2 DEF Shape
<1>5. Unstarted'
  BY <1>0, <1>1, <1>2, <1>3 DEF Unstarted, Empty, Named
<1>6. Drafting'
  BY <1>1, <1>2 DEF Drafting
<1>7. \A t \in Traces : FilesSound(t)'
  BY <1>1 DEF Inv, FilesSound
<1>8. \A c \in Clients : RequestSound(c)' /\ KeepsUnaffected(client'[c])
  BY <1>1, <1>2 DEF RequestSound, KeepsUnaffected
<1> QED
  BY <1>4, <1>5, <1>6, <1>7, <1>8 DEF Inv

----------------------------------------------------------------------------
LEMMA RequestStepKeeps ==
  ASSUME Inv, NEW c \in Clients, RequestStep(c)
  PROVE  Inv'
<1>1. CASE \E delivery \in BOOLEAN : StartPlanning(c, delivery)
  BY <1>1, StartPlanningKeeps
<1>2. CASE OutOfTraces(c)
  BY <1>2, OutOfTracesKeeps
<1>3. CASE PlanningFails(c) \/ DraftRejected(c)
  BY <1>3, AttemptFailsKeeps DEF PlanningFails, DraftRejected
<1>4. CASE PlanningRaises(c)
  BY <1>4, PlanningRaisesKeeps
<1>5. CASE \E draft \in Drafts : PlanningSucceeds(c, draft)
  BY <1>5, PlanningSucceedsKeeps
<1>6. CASE RecordBaseline(c)
  BY <1>6, RecordBaselineKeeps
<1>7. CASE RecordPatchedPlan(c)
  BY <1>7, RecordPatchedPlanKeeps
<1>8. CASE RecordPatchedDelivery(c)
  BY <1>8, RecordPatchedDeliveryKeeps
<1>9. CASE Submit(c)
  BY <1>9, SubmitKeeps
<1>10. CASE AnswerStarted(c)
  BY <1>10, AnswerStartedKeeps
<1>11. CASE StartPatch(c)
  BY <1>11, StartPatchKeeps
<1>12. CASE PatchingFails(c)
  BY <1>12, PatchingFailsKeeps
<1>13. CASE \E patch \in PatchSets(client[c].base) : PatchingSucceeds(c, patch)
  BY <1>13, PatchingSucceedsKeeps
<1>14. CASE Resume(c)
  BY <1>14, ResumeKeeps
<1> QED
  BY <1>1, <1>2, <1>3, <1>4, <1>5, <1>6, <1>7, <1>8, <1>9, <1>10, <1>11, <1>12, <1>13,
     <1>14 DEF RequestStep

LEMMA NextInv == Inv /\ [Next]_vars => Inv'
<1> SUFFICES ASSUME Inv, [Next]_vars PROVE Inv'
  OBVIOUS
<1>1. ASSUME NEW c \in Clients, Ask(c) PROVE Inv'
  BY <1>1, AskKeeps
<1>2. ASSUME NEW c \in Clients, RequestStep(c) PROVE Inv'
  BY <1>2, RequestStepKeeps
<1>3. ASSUME NEW c \in Clients, NEW intent \in {"new", "modify", "resume"}, Send(c, intent)
      PROVE  Inv'
  BY <1>3, SendKeeps
<1>4. ASSUME NEW t \in Traces, WorkerStep(t) PROVE Inv'
  BY <1>4, WorkerStepKeeps
<1>5. CASE Reader
  BY <1>5, ReaderStepKeeps
<1>6. CASE HostCrash
  BY <1>6, HostCrashKeeps
<1>7. CASE UNCHANGED vars
  <2>1. UNCHANGED <<client, trace, turns, sync>>
    BY <1>7 DEF vars
  <2>2. Shape /\ \A t \in Traces : Named(t)' => Named(t)
    BY <2>1 DEF Inv, Named
  <2> QED
    BY <2>1, <2>2, ReaderKeeps DEF Shape
<1> QED
  BY <1>1, <1>2, <1>3, <1>4, <1>5, <1>6, <1>7 DEF Next

LEMMA AlwaysInv == Spec => []Inv
BY InitInv, NextInv, PTL DEF Spec

----------------------------------------------------------------------------
\* Whatever the Planner answers, to however many clients and across however
\* many crashes: a plan that plan, start_patch_plan or resume_run leaves on
\* disk waits for no WorkItem it does not have and not for itself, and has the
\* order the system's rules demand (patch.py apply_patch, validator.py).
THEOREM PlansStaySound == Spec => []AcceptedPlansSound
<1>1. ASSUME Inv PROVE AcceptedPlansSound
  <2>1. \A t \in Traces : \A p \in trace[t].plans \cup {trace[t].plan} :
           Sound(p, trace[t].rules)
    BY <1>1 DEF Inv, FilesSound
  <2>2. PlansExecutable
    BY <2>1 DEF PlansExecutable, Sound
  <2>3. SystemOrderKept
    BY <2>1 DEF SystemOrderKept, Sound, Ordered
  <2> QED
    BY <2>2, <2>3 DEF AcceptedPlansSound
<1> QED
  BY <1>1, AlwaysInv, PTL

\* Of the results it has read, a patched run keeps exactly those of WorkItems
\* that are unchanged and wait for unchanged ones only, for every plan and
\* every patch that apply_patch accepts (patch.py, start_patch_plan).
THEOREM PatchInvalidatesExactly == Spec => []PatchKeepsUnaffected
<1>1. Inv => PatchKeepsUnaffected
  BY DEF Inv, KeepsUnaffected, PatchKeepsUnaffected
<1> QED
  BY <1>1, AlwaysInv, PTL

----------------------------------------------------------------------------
(***************************************************************************)
(* The stream of a model call, which a request waits for while its plan is *)
(* drafted or patched, for every number of attempts.                       *)
(***************************************************************************)
\* The events between the relay and the handler: at most one in the reader's
\* hand and one in the queue.
InFlight(n) ==
    (IF reader[n] \in Events THEN 1 ELSE 0) + (IF events[n] \in Events THEN 1 ELSE 0)

\* While the caller takes events nothing is lost on the way, and the end of the
\* stream is the last thing in the queue.
CallSound(n) ==
    /\ mode = "async" =>
          /\ call[n] \notin {"waiting", "abandoning"} /\ reader[n] = "idle"
          /\ events[n] = "empty" /\ sent[n] = handled[n]
    /\ call[n] \in {"idle", "waiting", "abandoning"} =>
          /\ reader[n] = "idle" /\ events[n] = "empty" /\ sent[n] = handled[n] /\ ~stopped[n]
    /\ call[n] = "iterating" =>
          /\ ~stopped[n] /\ sent[n] = (handled[n] + InFlight(n)) % 3
          /\ events[n] = "end" => reader[n] = "over"
    /\ call[n] \in Returned =>
          /\ reader[n] \in {"idle", "over"} /\ events[n] = "empty" /\ sent[n] = handled[n]

StreamInv == StreamTypeOK /\ \A n \in Attempts : CallSound(n)

\* Counting modulo 3.
LEMMA Modulo ==
  \A h \in 0..2 : /\ (h + 1) % 3 \in 0..2 /\ h = (h + 0) % 3
                  /\ (h + 1) % 3 = (h + (0 + 1)) % 3
                  /\ (((h + 1) % 3) + 1) % 3 = (h + 2) % 3
<1> SUFFICES ASSUME NEW h \in {0, 1, 2}
             PROVE  /\ (h + 1) % 3 \in 0..2 /\ h = (h + 0) % 3
                    /\ (h + 1) % 3 = (h + (0 + 1)) % 3
                    /\ (((h + 1) % 3) + 1) % 3 = (h + 2) % 3
  OBVIOUS
<1>1. CASE h = 0
  BY <1>1
<1>2. CASE h = 1
  BY <1>2
<1>3. CASE h = 2
  BY <1>3
<1> QED
  BY <1>1, <1>2, <1>3

LEMMA InitStream ==
  ASSUME StreamInit
  PROVE  StreamInv
<1>1. StreamTypeOK
  BY StreamAssumption DEF StreamInit, StreamTypeOK, Attempts, Nothing
<1>2. \A n \in Attempts : CallSound(n)
  BY DEF StreamInit, CallSound, Returned
<1> QED
  BY <1>1, <1>2 DEF StreamInv

\* A step of one attempt leaves the others alone.
LEMMA OtherCalls ==
  ASSUME NEW n \in Attempts, \A m \in Attempts : CallSound(m), mode' = mode,
         \A m \in Attempts \ {n} :
            /\ call'[m] = call[m] /\ reader'[m] = reader[m] /\ events'[m] = events[m]
            /\ sent'[m] = sent[m] /\ handled'[m] = handled[m] /\ stopped'[m] = stopped[m],
         CallSound(n)'
  PROVE  \A m \in Attempts : CallSound(m)'
<1>1. ASSUME NEW m \in Attempts \ {n} PROVE CallSound(m)'
  BY <1>1 DEF CallSound, InFlight
<1> QED
  BY <1>1

\* What a step of the calling thread, with no event on the way, leads to.
LEMMA ConnectKeeps ==
  ASSUME StreamInv, NEW n \in Attempts,
         \/ StartCall(n) \/ Created(n) \/ HandOver(n) \/ Take(n) \/ GetTimesOut(n)
         \/ Abandon(n) \/ Close(n)
  PROVE  StreamInv'
<1>0. StreamTypeOK /\ \A m \in Attempts : CallSound(m)
  BY DEF StreamInv
<1>1. ASSUME UNCHANGED <<mode, call, reader, events, sent, handled, stopped>>
      PROVE  \A m \in Attempts : CallSound(m)'
  BY <1>0, <1>1 DEF CallSound, InFlight
<1>2. CASE StartCall(n)
  <2>1. StreamTypeOK'
    BY <1>0, <1>2 DEF StartCall, StreamTypeOK, relayVars
  <2>2. /\ call' = [call EXCEPT ![n] = "waiting"] /\ call[n] = "idle" /\ mode = "sync"
        /\ UNCHANGED <<mode, reader, events, sent, handled, stopped>>
    BY <1>2 DEF StartCall, relayVars
  <2>3. CallSound(n)'
    BY <1>0, <2>2 DEF CallSound, StreamTypeOK, Returned
  <2> QED
    BY <1>0, <2>1, <2>2, <2>3, OtherCalls DEF StreamInv, StreamTypeOK
<1>3. CASE Created(n)
  <2>1. StreamTypeOK'
    BY <1>0, <1>3 DEF Created, StreamTypeOK, callVars
  <2> QED
    BY <1>1, <1>3, <2>1 DEF StreamInv, Created, callVars
<1>4. CASE HandOver(n)
  <2>1. StreamTypeOK'
    BY <1>0, <1>4 DEF HandOver, StreamTypeOK, callVars, relayVars
  <2> QED
    BY <1>1, <1>4, <2>1 DEF StreamInv, HandOver, callVars, relayVars
<1>5. CASE Take(n)
  <2>1. StreamTypeOK'
    BY <1>0, <1>5 DEF Take, StreamTypeOK, relayVars, Failed
  <2>2. /\ call[n] = "waiting" /\ UNCHANGED <<mode, events, sent, handled, stopped>>
        /\ \/ /\ call' = [call EXCEPT ![n] = "iterating"]
              /\ reader' = [reader EXCEPT ![n] = "reading"]
           \/ call' = [call EXCEPT ![n] = "unavailable"] /\ UNCHANGED reader
    BY <1>5 DEF Take, relayVars
  <2>3. /\ reader[n] = "idle" /\ events[n] = "empty" /\ sent[n] = handled[n] /\ ~stopped[n]
        /\ mode # "async" /\ handled[n] \in 0..2
    BY <1>0, <2>2 DEF CallSound, StreamTypeOK
  <2>4. CallSound(n)'
    <3>1. CASE call' = [call EXCEPT ![n] = "unavailable"] /\ UNCHANGED reader
      BY <1>0, <2>2, <2>3, <3>1 DEF CallSound, StreamTypeOK, Returned
    <3>2. CASE /\ call' = [call EXCEPT ![n] = "iterating"]
               /\ reader' = [reader EXCEPT ![n] = "reading"]
      <4>1. call'[n] = "iterating" /\ reader'[n] = "reading" /\ InFlight(n)' = 0 + 0
        BY <1>0, <2>2, <2>3, <3>2 DEF StreamTypeOK, InFlight, Events
      <4>2. sent'[n] = (handled'[n] + InFlight(n)') % 3
        BY <2>2, <2>3, <4>1, Modulo
      <4> QED
        BY <2>2, <2>3, <4>1, <4>2 DEF CallSound, Returned
    <3> QED
      BY <2>2, <3>1, <3>2
  <2>5. \A m \in Attempts \ {n} : call'[m] = call[m] /\ reader'[m] = reader[m]
    BY <1>0, <2>2 DEF StreamTypeOK
  <2> QED
    BY <1>0, <2>1, <2>2, <2>4, <2>5, OtherCalls DEF StreamInv
<1>6. CASE GetTimesOut(n)
  <2>1. StreamTypeOK'
    BY <1>0, <1>6 DEF GetTimesOut, StreamTypeOK, relayVars
  <2>2. /\ call' = [call EXCEPT ![n] = "abandoning"] /\ call[n] = "waiting"
        /\ UNCHANGED <<mode, reader, events, sent, handled, stopped>>
    BY <1>6 DEF GetTimesOut, relayVars
  <2>3. CallSound(n)'
    BY <1>0, <2>2 DEF CallSound, StreamTypeOK, Returned
  <2> QED
    BY <1>0, <2>1, <2>2, <2>3, OtherCalls DEF StreamInv, StreamTypeOK
<1>7. CASE Abandon(n)
  <2>1. StreamTypeOK'
    BY <1>0, <1>7 DEF Abandon, StreamTypeOK, relayVars, Failed
  <2>2. /\ call' = [call EXCEPT ![n] = "timed_out"] /\ call[n] = "abandoning"
        /\ UNCHANGED <<mode, reader, events, sent, handled, stopped>>
    BY <1>7 DEF Abandon, relayVars
  <2>3. CallSound(n)'
    BY <1>0, <2>2 DEF CallSound, StreamTypeOK, Returned
  <2> QED
    BY <1>0, <2>1, <2>2, <2>3, OtherCalls DEF StreamInv, StreamTypeOK
<1>8. CASE Close(n)
  <2>1. StreamTypeOK'
    BY <1>0, <1>8 DEF Close, StreamTypeOK, callVars
  <2> QED
    BY <1>1, <1>8, <2>1 DEF StreamInv, Close, callVars
<1> QED
  BY <1>2, <1>3, <1>4, <1>5, <1>6, <1>7, <1>8

\* The relay, the reader and the handler at the queue.
LEMMA QueueKeeps ==
  ASSUME StreamInv, NEW n \in Attempts,
         \/ Publish(n) \/ Quit(n) \/ End(n) \/ Handle(n)
         \/ \E event \in Events : RelaySends(n, event)
  PROVE  StreamInv'
<1>0. StreamTypeOK /\ \A m \in Attempts : CallSound(m)
  BY DEF StreamInv
<1>1. /\ CallSound(n) /\ handled[n] \in 0..2 /\ sent[n] \in 0..2
      /\ "idle" \notin Events /\ "reading" \notin Events /\ "end" \notin Events
      /\ "error" \notin Events /\ "over" \notin Events /\ "empty" \notin Events
  BY <1>0 DEF StreamTypeOK, Events
<1>2. CASE Publish(n)
  <2>1. StreamTypeOK'
    BY <1>0, <1>2 DEF Publish, StreamTypeOK, callVars, relayVars
  <2>2. /\ UNCHANGED <<mode, call, sent, handled, stopped>>
        /\ reader[n] \notin {"idle", "reading", "over"} /\ ~stopped[n] /\ events[n] = "empty"
        /\ events'[n] = reader[n]
        /\ reader'[n] = IF reader[n] = "end" THEN "over"
                        ELSE IF reader[n] = "error" THEN "end" ELSE "reading"
        /\ \A m \in Attempts \ {n} : events'[m] = events[m] /\ reader'[m] = reader[m]
    BY <1>0, <1>2 DEF Publish, StreamTypeOK, callVars, relayVars
  <2>3. InFlight(n)' = InFlight(n)
    BY <1>1, <2>2 DEF InFlight
  <2>4. CallSound(n)'
    BY <1>1, <2>2, <2>3 DEF CallSound
  <2> QED
    BY <1>0, <2>1, <2>2, <2>4, OtherCalls DEF StreamInv
<1>3. CASE Quit(n)
  <2>1. StreamTypeOK'
    BY <1>0, <1>3 DEF Quit, StreamTypeOK, callVars, relayVars
  <2>2. /\ UNCHANGED <<mode, call, events, sent, handled, stopped>>
        /\ reader[n] # "idle" /\ stopped[n] /\ reader'[n] = "over"
        /\ \A m \in Attempts \ {n} : reader'[m] = reader[m]
    BY <1>0, <1>3 DEF Quit, StreamTypeOK, callVars, relayVars
  <2>3. CallSound(n)'
    BY <1>1, <2>2 DEF CallSound
  <2> QED
    BY <1>0, <2>1, <2>2, <2>3, OtherCalls DEF StreamInv
<1>4. CASE End(n)
  <2>1. StreamTypeOK'
    BY <1>0, <1>4 DEF End, StreamTypeOK, callVars
  <2>2. /\ UNCHANGED <<mode, call, events, sent, handled, stopped>>
        /\ reader[n] = "reading" /\ reader'[n] \in {"end", "error"}
        /\ \A m \in Attempts \ {n} : reader'[m] = reader[m]
    BY <1>0, <1>4 DEF End, StreamTypeOK, callVars
  <2>3. InFlight(n)' = InFlight(n)
    BY <1>1, <2>2 DEF InFlight
  <2>4. CallSound(n)'
    BY <1>1, <2>2, <2>3 DEF CallSound
  <2> QED
    BY <1>0, <2>1, <2>2, <2>4, OtherCalls DEF StreamInv
<1>5. ASSUME NEW event \in Events, RelaySends(n, event) PROVE StreamInv'
  <2>1. /\ UNCHANGED <<mode, preflight, attempt, call, connect, results, abandoned, stream,
                       closer, events, stopped, handled, received>>
        /\ reader[n] = "reading" /\ reader' = [reader EXCEPT ![n] = event]
        /\ sent' = IF stopped[n] THEN sent ELSE [sent EXCEPT ![n] = (sent[n] + 1) % 3]
    BY <1>5 DEF RelaySends, callVars
  <2>2. /\ reader'[n] = event
        /\ sent'[n] = IF stopped[n] THEN sent[n] ELSE (sent[n] + 1) % 3
        /\ \A m \in Attempts \ {n} : reader'[m] = reader[m] /\ sent'[m] = sent[m]
    BY <1>0, <2>1 DEF StreamTypeOK
  <2>3. StreamTypeOK'
    <3>1. (sent[n] + 1) % 3 \in 0..2
      BY <1>1, Modulo
    <3>2. sent' \in [Attempts -> 0..2]
      BY <1>0, <2>1, <3>1 DEF StreamTypeOK
    <3> QED
      BY <1>0, <2>1, <3>2 DEF StreamTypeOK
  <2>4. ASSUME call[n] = "iterating"
        PROVE  sent'[n] = (handled'[n] + InFlight(n)') % 3
    <3>1. sent'[n] = (sent[n] + 1) % 3
      BY <1>1, <2>2, <2>4 DEF CallSound
    <3>2. CASE events[n] \in Events
      <4>1. InFlight(n) = 1 /\ InFlight(n)' = 2
        BY <1>1, <2>1, <2>2, <3>2 DEF InFlight
      <4>2. sent[n] = (handled[n] + 1) % 3
        BY <1>1, <2>4, <4>1 DEF CallSound
      <4> QED
        BY <1>1, <2>1, <3>1, <4>1, <4>2, Modulo
    <3>3. CASE events[n] \notin Events
      <4>1. InFlight(n) = 0 /\ InFlight(n)' = 1
        BY <1>1, <2>1, <2>2, <3>3 DEF InFlight
      <4>2. sent[n] = (handled[n] + 0) % 3
        BY <1>1, <2>4, <4>1 DEF CallSound
      <4>3. sent[n] = handled[n]
        BY <1>1, <4>2, Modulo
      <4> QED
        BY <2>1, <3>1, <4>1, <4>3
    <3> QED
      BY <3>2, <3>3
  <2>5. CallSound(n)'
    BY <1>1, <2>1, <2>2, <2>4 DEF CallSound
  <2> QED
    BY <1>0, <2>1, <2>2, <2>3, <2>5, OtherCalls DEF StreamInv
<1>6. CASE Handle(n)
  <2>1. /\ UNCHANGED <<mode, preflight, attempt, abandoned, stream, sent, connect, results,
                       closer, reader>>
        /\ call[n] = "iterating" /\ events[n] # "empty"
        /\ events' = [events EXCEPT ![n] = "empty"]
    BY <1>6 DEF Handle, relayVars
  <2>2. mode # "async" /\ ~stopped[n] /\ sent[n] = (handled[n] + InFlight(n)) % 3
    BY <1>1, <2>1 DEF CallSound
  <2>3. ASSUME NEW outcome \in Failed \cup Returned,
               Leave(n, outcome), UNCHANGED <<handled, received>>,
               outcome \in Returned => events[n] = "end"
        PROVE  StreamInv'
    <3>1. StreamTypeOK'
      BY <1>0, <2>1, <2>3 DEF StreamTypeOK, Leave
    <3>2. /\ call'[n] = outcome /\ stopped'[n] = TRUE /\ events'[n] = "empty"
          /\ \A m \in Attempts \ {n} :
                call'[m] = call[m] /\ stopped'[m] = stopped[m] /\ events'[m] = events[m]
      BY <1>0, <2>1, <2>3 DEF StreamTypeOK, Leave
    <3>3. CallSound(n)'
      <4>1. outcome \notin {"idle", "waiting", "abandoning", "iterating"}
        BY DEF Failed, Returned
      <4>2. CASE events[n] = "end"
        <5>1. reader[n] = "over" /\ InFlight(n) = 0
          BY <1>1, <2>1, <4>2 DEF CallSound, InFlight
        <5>2. sent[n] = handled[n]
          BY <1>1, <2>2, <5>1, Modulo
        <5> QED
          BY <2>1, <2>2, <2>3, <3>2, <4>1, <5>1, <5>2 DEF CallSound
      <4>3. CASE events[n] # "end"
        BY <2>1, <2>2, <2>3, <3>2, <4>1, <4>3 DEF CallSound
      <4> QED
        BY <4>2, <4>3
    <3> QED
      BY <1>0, <2>1, <2>3, <3>1, <3>2, <3>3, OtherCalls DEF StreamInv
  <2>4. CASE events[n] = "end"
    <3>1. Outcome(received[n]) \in Failed \cup Returned
      BY DEF Outcome, Failed, Returned
    <3>2. Leave(n, Outcome(received[n])) /\ UNCHANGED <<handled, received>>
      BY <1>6, <2>4 DEF Handle
    <3> QED
      BY <2>3, <2>4, <3>1, <3>2
  <2>5. CASE events[n] = "error"
    <3>1. Leave(n, "broken") /\ UNCHANGED <<handled, received>>
      BY <1>6, <2>5 DEF Handle
    <3>2. "broken" \in Failed /\ "broken" \notin Returned
      BY DEF Failed, Returned
    <3> QED
      BY <2>3, <3>1, <3>2
  <2>6. CASE events[n] \notin {"end", "error"}
    <3>1. /\ received' = [received EXCEPT ![n] = @ \cup {events[n]}]
          /\ handled' = [handled EXCEPT ![n] = (handled[n] + 1) % 3]
          /\ UNCHANGED <<call, stopped>>
      BY <1>6, <2>6 DEF Handle
    <3>2. events[n] \in Events
      BY <1>0, <2>1, <2>6 DEF StreamTypeOK
    <3>3. (handled[n] + 1) % 3 \in 0..2
      BY <1>1, Modulo
    <3>4. StreamTypeOK'
      BY <1>0, <2>1, <3>1, <3>2, <3>3 DEF StreamTypeOK
    <3>5. /\ events'[n] = "empty" /\ handled'[n] = (handled[n] + 1) % 3
          /\ \A m \in Attempts \ {n} : events'[m] = events[m] /\ handled'[m] = handled[m]
      BY <1>0, <2>1, <3>1 DEF StreamTypeOK
    <3>6. sent'[n] = (handled'[n] + InFlight(n)') % 3
      <4>1. CASE reader[n] \in Events
        <5>1. InFlight(n) = 2 /\ InFlight(n)' = 1
          BY <1>1, <2>1, <3>2, <3>5, <4>1 DEF InFlight
        <5> QED
          BY <1>1, <2>1, <2>2, <3>5, <5>1, Modulo
      <4>2. CASE reader[n] \notin Events
        <5>1. InFlight(n) = 1 /\ InFlight(n)' = 0
          BY <1>1, <2>1, <3>2, <3>5, <4>2 DEF InFlight
        <5> QED
          BY <1>1, <2>1, <2>2, <3>3, <3>5, <5>1, Modulo
      <4> QED
        BY <4>1, <4>2
    <3>7. CallSound(n)'
      BY <2>1, <2>2, <3>1, <3>5, <3>6 DEF CallSound, Returned
    <3> QED
      BY <1>0, <2>1, <3>1, <3>4, <3>5, <3>7, OtherCalls DEF StreamInv
  <2> QED
    BY <2>4, <2>5, <2>6
<1> QED
  BY <1>2, <1>3, <1>4, <1>5, <1>6

\* A call that gives up, and the handler without threads.
LEMMA LeaveKeeps ==
  ASSUME StreamInv, NEW n \in Attempts,
         \/ ReadTimesOut(n) \/ Ceiling(n) \/ AsyncStep(n)
  PROVE  StreamInv'
<1>0. StreamTypeOK /\ (\A m \in Attempts : CallSound(m)) /\ CallSound(n)
  BY DEF StreamInv
<1>1. ASSUME NEW outcome \in Failed \cup Returned, call[n] = "iterating",
             Leave(n, outcome), outcome \in Returned => mode = "async",
             UNCHANGED <<mode, reader, events, sent, handled>>
      PROVE  \A m \in Attempts : CallSound(m)'
  <2>1. /\ call'[n] = outcome /\ stopped'[n] = TRUE
        /\ \A m \in Attempts \ {n} : call'[m] = call[m] /\ stopped'[m] = stopped[m]
    BY <1>0, <1>1 DEF StreamTypeOK, Leave
  <2>2. outcome \notin {"idle", "waiting", "abandoning", "iterating"}
    BY DEF Failed, Returned
  <2>3. CallSound(n)'
    BY <1>0, <1>1, <2>1, <2>2 DEF CallSound
  <2> QED
    BY <1>0, <1>1, <2>1, <2>3, OtherCalls
<1>2. "timed_out" \in Failed /\ "broken" \in Failed /\ Failed \cap Returned = {}
  BY DEF Failed, Returned
<1>3. CASE ReadTimesOut(n)
  <2>1. StreamTypeOK'
    BY <1>0, <1>2, <1>3 DEF ReadTimesOut, Leave, StreamTypeOK, relayVars
  <2>2. \A m \in Attempts : CallSound(m)'
    BY <1>1, <1>2, <1>3 DEF ReadTimesOut, relayVars
  <2> QED
    BY <2>1, <2>2 DEF StreamInv
<1>4. CASE Ceiling(n)
  <2>1. StreamTypeOK'
    BY <1>0, <1>2, <1>4 DEF Ceiling, Leave, StreamTypeOK, relayVars
  <2>2. \A m \in Attempts : CallSound(m)'
    BY <1>1, <1>2, <1>4 DEF Ceiling, relayVars
  <2> QED
    BY <2>1, <2>2 DEF StreamInv
<1>5. CASE AsyncCreate(n)
  <2>1. /\ mode = "async" /\ call[n] = "idle"
        /\ UNCHANGED <<mode, preflight, attempt, abandoned, connect, results, closer, reader,
                       events, sent, handled, received, stopped>>
        /\ \E to \in {"iterating", "unavailable", "timed_out"} :
              call' = [call EXCEPT ![n] = to]
        /\ UNCHANGED stream \/ stream' = [stream EXCEPT ![n] = "open"]
    BY <1>5 DEF AsyncCreate, AsyncQuiet
  <2>2. PICK to \in {"iterating", "unavailable", "timed_out"} :
            call' = [call EXCEPT ![n] = to]
    BY <2>1
  <2>3. StreamTypeOK'
    BY <1>0, <2>1, <2>2 DEF StreamTypeOK, Failed
  <2>4. call'[n] = to /\ \A m \in Attempts \ {n} : call'[m] = call[m]
    BY <1>0, <2>2 DEF StreamTypeOK
  <2>5. InFlight(n)' = 0 + 0 /\ handled[n] \in 0..2 /\ sent[n] = handled[n] /\ ~stopped[n]
    BY <1>0, <2>1 DEF CallSound, InFlight, Events, StreamTypeOK
  <2>6. sent'[n] = (handled'[n] + InFlight(n)') % 3
    BY <2>1, <2>5, Modulo
  <2>7. CallSound(n)'
    BY <1>0, <2>1, <2>2, <2>4, <2>5, <2>6 DEF CallSound, Returned
  <2> QED
    BY <1>0, <2>1, <2>3, <2>4, <2>7, OtherCalls DEF StreamInv
<1>6. CASE AsyncReturn(n) \/ AsyncEnd(n)
  <2>1. /\ mode = "async" /\ call[n] = "iterating"
        /\ stream' = [stream EXCEPT ![n] = "closed"]
        /\ UNCHANGED <<mode, preflight, attempt, abandoned, connect, results, closer, reader,
                       events, sent, handled, received>>
    BY <1>6 DEF AsyncReturn, AsyncEnd, AsyncQuiet
  <2>2. PICK outcome \in Failed \cup Returned : Leave(n, outcome)
    <3>1. Outcome(received[n]) \in Failed \cup Returned
      BY DEF Outcome, Failed, Returned
    <3> QED
      BY <1>2, <1>6, <3>1 DEF AsyncReturn, AsyncEnd
  <2>3. StreamTypeOK'
    BY <1>0, <2>1, <2>2 DEF Leave, StreamTypeOK
  <2>4. \A m \in Attempts : CallSound(m)'
    BY <1>1, <2>1, <2>2
  <2> QED
    BY <2>3, <2>4 DEF StreamInv
<1>7. ASSUME NEW event \in Events, AsyncEvent(n, event) PROVE StreamInv'
  <2>1. /\ mode = "async" /\ call[n] = "iterating"
        /\ received' = [received EXCEPT ![n] = @ \cup {event}]
        /\ sent' = [sent EXCEPT ![n] = (sent[n] + 1) % 3]
        /\ handled' = [handled EXCEPT ![n] = (handled[n] + 1) % 3]
        /\ UNCHANGED <<mode, preflight, attempt, call, abandoned, connect, results, closer,
                       reader, events, stream, stopped>>
    BY <1>7 DEF AsyncEvent, AsyncQuiet
  <2>2. /\ handled[n] \in 0..2 /\ sent[n] = handled[n] /\ (handled[n] + 1) % 3 \in 0..2
        /\ reader[n] = "idle" /\ events[n] = "empty" /\ ~stopped[n]
    BY <1>0, <2>1, Modulo DEF StreamTypeOK, CallSound
  <2>3. StreamTypeOK'
    BY <1>0, <2>1, <2>2 DEF StreamTypeOK
  <2>4. /\ sent'[n] = handled'[n] /\ handled'[n] \in 0..2
        /\ \A m \in Attempts \ {n} : sent'[m] = sent[m] /\ handled'[m] = handled[m]
    BY <1>0, <2>1, <2>2 DEF StreamTypeOK
  <2>5. InFlight(n)' = 0 + 0
    BY <2>1, <2>2 DEF InFlight, Events
  <2>6. sent'[n] = (handled'[n] + InFlight(n)') % 3
    BY <2>4, <2>5, Modulo
  <2>7. CallSound(n)'
    BY <2>1, <2>2, <2>4, <2>6 DEF CallSound
  <2> QED
    BY <1>0, <2>1, <2>3, <2>4, <2>7, OtherCalls DEF StreamInv
<1> QED
  BY <1>3, <1>4, <1>5, <1>6, <1>7 DEF AsyncStep

\* Only a failed attempt is given up for the next.
LEMMA RetryCallKeeps ==
  ASSUME StreamInv, RetryCall
  PROVE  StreamInv'
<1>0. StreamTypeOK /\ (\A m \in Attempts : CallSound(m)) /\ attempt \in Attempts
  BY DEF StreamInv, StreamTypeOK
<1>1. /\ call[attempt] \in Failed /\ attempt' = attempt + 1 /\ attempt < max_attempts
      /\ received' = [received EXCEPT ![attempt] = Nothing]
      /\ handled' = [handled EXCEPT ![attempt] = 0] /\ sent' = [sent EXCEPT ![attempt] = 0]
      /\ events' = [events EXCEPT ![attempt] = "empty"]
      /\ UNCHANGED <<mode, preflight, call, abandoned, stopped, stream, connect, results,
                     closer, reader>>
  BY DEF RetryCall
<1>2. attempt' \in Attempts
  BY <1>0, <1>1, StreamAssumption DEF Attempts
<1>3. StreamTypeOK'
  BY <1>0, <1>1, <1>2 DEF StreamTypeOK, Nothing
<1>4. PICK n \in Attempts : n = attempt
  BY <1>0
<1>5. /\ handled'[n] = 0 /\ sent'[n] = 0 /\ events'[n] = "empty"
      /\ \A m \in Attempts \ {n} :
            handled'[m] = handled[m] /\ sent'[m] = sent[m] /\ events'[m] = events[m]
  BY <1>0, <1>1, <1>4 DEF StreamTypeOK
<1>6. call[n] \notin {"idle", "waiting", "abandoning", "iterating"} \cup Returned
  BY <1>1, <1>4 DEF Failed, Returned
<1>7. CallSound(n)'
  BY <1>0, <1>1, <1>5, <1>6 DEF CallSound
<1> QED
  BY <1>0, <1>1, <1>3, <1>5, <1>7, OtherCalls DEF StreamInv

LEMMA NextStream ==
  ASSUME StreamInv, [StreamNext]_streamVars
  PROVE  StreamInv'
<1>1. ASSUME NEW n \in Attempts, Caller(n) PROVE StreamInv'
  BY <1>1, ConnectKeeps, QueueKeeps DEF Caller
<1>2. ASSUME NEW n \in Attempts, Threads(n) PROVE StreamInv'
  BY <1>2, ConnectKeeps, QueueKeeps DEF Threads
<1>3. ASSUME NEW n \in Attempts, Relay(n) PROVE StreamInv'
  BY <1>3, ConnectKeeps, QueueKeeps DEF Relay
<1>4. ASSUME NEW n \in Attempts, ReadTimesOut(n) \/ Ceiling(n) \/ AsyncStep(n)
      PROVE  StreamInv'
  BY <1>4, LeaveKeeps
<1>5. CASE RetryCall
  BY <1>5, RetryCallKeeps
<1>6. CASE Preflight \/ Done \/ UNCHANGED streamVars
  <2>1. /\ UNCHANGED <<mode, attempt, call, connect, results, abandoned, stream, closer,
                       reader, events, stopped, sent, handled, received>>
        /\ \/ UNCHANGED preflight
           \/ preflight' \in {"passed", "blocked", "unavailable", "failed"}
    BY <1>6 DEF Preflight, Done, streamVars, callVars, relayVars
  <2>2. StreamTypeOK'
    BY <2>1 DEF StreamInv, StreamTypeOK
  <2>3. \A m \in Attempts : CallSound(m)'
    BY <2>1 DEF StreamInv, CallSound, InFlight
  <2> QED
    BY <2>2, <2>3 DEF StreamInv
<1> QED
  BY <1>1, <1>2, <1>3, <1>4, <1>5, <1>6 DEF StreamNext

\* A call that returned has handled every event of its stream, whatever the
\* relay does and wherever the connect and reader threads of this and earlier
\* attempts are (responses.py _iter_sse_events, _handle_streaming_responses).
THEOREM NoEventLost == StreamSpec => []EveryEventHandled
<1>1. StreamInit => StreamInv
  BY InitStream
<1>2. StreamInv /\ [StreamNext]_streamVars => StreamInv'
  BY NextStream
<1>3. StreamInv => EveryEventHandled
  BY DEF StreamInv, CallSound, EveryEventHandled
<1> QED
  BY <1>1, <1>2, <1>3, PTL DEF StreamSpec
=============================================================================
