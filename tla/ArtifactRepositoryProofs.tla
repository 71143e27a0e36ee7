----------------------- MODULE ArtifactRepositoryProofs -----------------------
(***************************************************************************)
(* Proofs about ArtifactRepository, for every set of producers, every      *)
(* dependency relation between them and any number of faults.              *)
(*                                                                         *)
(* CompletedBacked is not inductive.  It needs that completed items are    *)
(* closed under dependencies (Closed), that an item at work is not         *)
(* completed and has completed dependencies (Working), so that a write     *)
(* never touches what a completed item was made of; that no two candidates *)
(* have the same sources (Distinct), since texts may return to an earlier  *)
(* version; and what the gate has already written at each of its steps     *)
(* (GateAt).                                                               *)
(***************************************************************************)
EXTENDS ArtifactRepository, TLAPS

\* Completed items have completed dependencies.
Closed == \A i \in done : Deps(i) \subseteq done

\* An item at work belongs to a live Worker, is not completed, and its
\* dependencies are.
Working == \A i \in Items : job[i] # "idle" => Up /\ i \notin done /\ Deps(i) \subseteq done

\* Producers never stand at a step of the gate, and conversely.
Stages == \A p \in Producers : job[p] \in {"idle", "agent", "text", "receipt", "written"}

\* Candidates differ in their sources.
Distinct == \A c, d \in DOMAIN cands : cands[c].src = cands[d].src => c = d

\* The gate holds the one current candidate and has written what comes before
\* its present step.
GateAt ==
    /\ job["gate"] \in {"idle", "revision", "current", "projection", "verify"}
    /\ job["gate"] # "idle" => chosen \in DOMAIN cands /\ Selectable(chosen)
    /\ job["gate"] = "revision" => ~(current.file = "ready" /\ current.cand = chosen)
    /\ job["gate"] = "current" => Len(revs) > 0 /\ revs[Len(revs)] = chosen
    /\ job["gate"] \in {"projection", "verify"} =>
           current.file = "ready" /\ current.cand = chosen
    /\ job["gate"] = "verify" => projection = chosen

IInv == /\ TypeOK /\ Closed /\ Working /\ Stages /\ Distinct
        /\ GateAt /\ CurrentBacked /\ CompletedBacked

----------------------------------------------------------------------------
\* The dependencies of each kind of item.
LEMMA DepsOf ==
    /\ \A p \in Producers : Deps(p) = Inputs[p]
    /\ Deps("integration") = Producers
    /\ Deps("gate") = {"integration"}
BY ArtifactAssumption DEF Deps

\* What recovery looks at, for each kind of item.
LEMMA RecoverableOf ==
    /\ \A p \in Producers : Recoverable(p) <=> StagedValid(p)
    /\ Recoverable("integration") <=> CandidateReady
    /\ Recoverable("gate") <=> \E c \in DOMAIN cands : Selectable(c) /\ PublishedAs(c)
BY ArtifactAssumption DEF Recoverable

\* Pruning keeps a closed subset.
LEMMA PrunedClosed ==
    ASSUME NEW S
    PROVE  Pruned(S) \subseteq S /\ \A i \in Pruned(S) : Deps(i) \subseteq Pruned(S)
<1>1. Pruned(S) \subseteq S
  BY DEF Pruned
<1>2. ASSUME NEW i \in Pruned(S) PROVE Deps(i) \subseteq Pruned(S)
  <2>1. PICK K \in SUBSET S : i \in K /\ \A j \in K : Deps(j) \subseteq K
    BY <1>2 DEF Pruned
  <2>2. K \subseteq Pruned(S)
    BY <2>1 DEF Pruned
  <2> QED BY <2>1, <2>2
<1> QED BY <1>1, <1>2

\* The invariant holds before anything is written.
LEMMA InitInv == Init => IInv
<1> SUFFICES ASSUME Init PROVE IInv
  OBVIOUS
<1> USE ArtifactAssumption DEF Init
<1>1. TypeOK
  BY DEF TypeOK, FileTexts, Manifests, Absent, JobStates, Items
<1>2. Closed /\ Working /\ Stages /\ CompletedBacked
  BY DEF Closed, Working, Stages, CompletedBacked, Items
<1>3. Distinct /\ CurrentBacked
  BY DEF Distinct, CurrentBacked
<1>4. GateAt
  BY DEF GateAt, Items
<1> QED BY <1>1, <1>2, <1>3, <1>4 DEF IInv

----------------------------------------------------------------------------
(* Type correctness *)

\* Completing an item keeps the types of the checkpoint.
LEMMA CompleteType ==
    ASSUME TypeOK, NEW i \in Items, Complete(i)
    PROVE  /\ done' \subseteq Items /\ forced' \subseteq Producers
           /\ blame' \in Producers \cup {NoFile} /\ job' \in [Items -> JobStates]
BY DEF Complete, TypeOK, JobStates

\* The candidates, as TypeOK has them.
CandidateType == [file : {"ready", "torn"}, src : [Producers -> FileTexts], wording : Wordings]

\* A record that is appended is the last one, and moves no other.
LEMMA AppendLast ==
    ASSUME NEW S, NEW seq \in Seq(S), NEW x
    PROVE  /\ Len(Append(seq, x)) > 0 /\ Append(seq, x)[Len(Append(seq, x))] = x
           /\ DOMAIN seq \subseteq DOMAIN Append(seq, x)
           /\ \A n \in DOMAIN seq : Append(seq, x)[n] = seq[n]
OBVIOUS

\* Append keeps the type of a sequence.
LEMMA AppendSeq ==
    ASSUME NEW S, NEW s \in Seq(S), NEW e \in S
    PROVE  Append(s, e) \in Seq(S)
OBVIOUS

\* An element of a sequence has the type of its elements.
LEMMA SeqElement ==
    ASSUME NEW S, NEW s \in Seq(S), NEW n \in DOMAIN s
    PROVE  s[n] \in S
OBVIOUS

\* The digests a manifest or a candidate records are texts of files.
LEMMA SourceType ==
    ASSUME TypeOK, NEW c \in DOMAIN cands
    PROVE  cands[c].src \in [Producers -> FileTexts]
<1>1. cands \in Seq(CandidateType)
  BY DEF TypeOK, CandidateType
<1>2. cands[c] \in CandidateType
  BY <1>1, SeqElement
<1> QED BY <1>2 DEF CandidateType

\* Every step keeps the types.
LEMMA TypeStep == TypeOK /\ [Next]_vars => TypeOK'
<1> SUFFICES ASSUME TypeOK, [Next]_vars PROVE TypeOK'
  OBVIOUS
<1> USE ArtifactAssumption
<1>0. "integration" \in Items /\ "gate" \in Items /\ Producers \subseteq Items
  BY DEF Items
<1>1. ASSUME NEW i \in Items, Step(i) PROVE TypeOK'
  <2>1. CASE Recover(i)
    BY <2>1, CompleteType DEF Recover, TypeOK, fileVars, countVars
  <2>2. CASE StartAgent(i)
    BY <2>2 DEF StartAgent, TypeOK, fileVars, progressVars, countVars, JobStates
  <2>3. CASE Refuse(i)
    BY <2>3 DEF Refuse, TypeOK, fileVars, countVars, JobStates, AllIdle
  <2>4. ASSUME i \in Producers, NEW t \in Texts, WriteText(i, t) PROVE TypeOK'
    BY <2>4 DEF WriteText, TypeOK, progressVars, publishVars, JobStates, FileTexts
  <2>5. CASE i \in Producers /\ WriteManifest(i)
    <3>1. From(i) \in [Producers -> FileTexts]
      BY <2>5 DEF From, TypeOK, FileTexts
    <3>2. [digest |-> text[i], from |-> From(i)] \in Manifests
      BY <2>5, <3>1 DEF TypeOK, Manifests
    <3> QED BY <2>5, <3>2 DEF WriteManifest, TypeOK, progressVars, publishVars, countVars, JobStates
  <2>6. CASE i \in Producers /\ WriteReceipt(i)
    BY <2>6 DEF WriteReceipt, TypeOK, progressVars, publishVars, countVars, JobStates
  <2>7. CASE i \in Producers /\ Deliver(i)
    BY <2>7, CompleteType DEF Deliver, TypeOK, fileVars, countVars
  <2>8. CASE i \in Producers /\ Reject(i)
    BY <2>8 DEF Reject, TypeOK, fileVars, progressVars, countVars, JobStates
  <2>9. ASSUME NEW w \in Wordings, CreateCandidate(w) PROVE TypeOK'
    BY <2>9 DEF CreateCandidate, Candidate, TypeOK, stageVars, progressVars, publishVars, countVars
  <2>10. CASE FinishIntegration
    BY <2>10, <1>0, CompleteType DEF FinishIntegration, TypeOK, fileVars, countVars
  <2>11. ASSUME NEW c \in DOMAIN cands, SelectCandidate(c) PROVE TypeOK'
    BY <2>11, <1>0 DEF SelectCandidate, TypeOK, fileVars, progressVars, countVars, JobStates
  <2>12. CASE WriteRevision
    BY <2>12, <1>0 DEF WriteRevision, TypeOK, stageVars, progressVars, countVars, JobStates
  <2>13. CASE WriteCurrent
    BY <2>13, <1>0 DEF WriteCurrent, TypeOK, stageVars, progressVars, countVars, JobStates
  <2>14. CASE WriteProjection
    BY <2>14, <1>0 DEF WriteProjection, TypeOK, stageVars, progressVars, countVars, JobStates
  <2>15. CASE VerifyPublished
    BY <2>15, <1>0, CompleteType DEF VerifyPublished, TypeOK, fileVars, countVars
  <2> QED BY <1>1, <2>1, <2>2, <2>3, <2>4, <2>5, <2>6, <2>7, <2>8, <2>9, <2>10, <2>11,
             <2>12, <2>13, <2>14, <2>15 DEF Step
<1>2. ASSUME NEW i \in Items, Abort(i) PROVE TypeOK'
  BY <1>2 DEF Abort, TypeOK, fileVars, progressVars, JobStates
<1>3. ASSUME NEW p \in Producers, Blame(p) PROVE TypeOK'
  BY <1>3 DEF Blame, TypeOK, fileVars, JobStates, AllIdle
<1>4. ASSUME NEW cut \in SUBSET {i \in Items : job[i] # "idle"}, Crash(cut) PROVE TypeOK'
  <2> USE <1>4 DEF Crash
  <2>1. text' \in [Producers -> FileTexts]
    BY DEF TypeOK, FileTexts
  <2>2. [Absent EXCEPT !.digest = Torn] \in Manifests
    BY DEF Absent, Manifests, FileTexts
  <2>3. manifest' \in [Producers -> Manifests]
    BY <2>2 DEF TypeOK
  <2>4. Candidate("torn", CHOOSE w \in Wordings : TRUE) \in CandidateType
    BY DEF Candidate, TypeOK, CandidateType
  <2>5. cands \in Seq(CandidateType)
    BY DEF TypeOK, CandidateType
  <2>6. cands' \in Seq(CandidateType)
    <3>1. cands' = cands \/ cands' = Append(cands, Candidate("torn", CHOOSE w \in Wordings : TRUE))
      OBVIOUS
    <3> QED BY ONLY <3>1, <2>4, <2>5, AppendSeq
  <2>7. revs' \in Seq(Nat) /\ projection' \in Nat
        /\ current' \in [file : {"absent", "torn", "ready"}, rev : Nat, cand : Nat]
    BY DEF TypeOK
  <2>8. /\ job' \in [Items -> JobStates] /\ blame' \in Producers \cup {NoFile}
        /\ worker' \in {"up", "down"} /\ faults' \in Nat
    BY DEF TypeOK, AllIdle, JobStates
  <2>9. UNCHANGED <<mode, receipt, done, forced, chosen, failures, reruns>>
    OBVIOUS
  <2> QED BY ONLY TypeOK, <2>1, <2>3, <2>6, <2>7, <2>8, <2>9 DEF TypeOK, CandidateType
<1>5. CASE Pause
  BY <1>5 DEF Pause, TypeOK, fileVars, progressVars
<1>6. CASE Resume
  <2>1. Kept \subseteq done /\ Pruned(Kept \ {blame}) \subseteq done
    BY PrunedClosed DEF Kept
  <2>2. blame \in Kept => blame \in Producers
    BY <2>1 DEF TypeOK, Items
  <2>3. done' \subseteq Items /\ forced' \subseteq Producers /\ reruns' \in Nat
    <3>1. /\ done' = Pruned(Kept \ {blame}) \/ done' = Kept
          /\ forced' = forced \/ (blame \in Kept /\ forced' = forced \cup {blame})
          /\ reruns' = reruns \/ reruns' = reruns + 1
      BY <1>6 DEF Resume
    <3>2. done \subseteq Items /\ forced \subseteq Producers /\ reruns \in Nat
      BY DEF TypeOK
    <3> QED BY ONLY <3>1, <3>2, <2>1, <2>2
  <2>4. worker' = "up" /\ UNCHANGED <<mode, fileVars, blame, job, chosen, faults, failures>>
    BY <1>6 DEF Resume
  <2> QED BY ONLY TypeOK, <2>3, <2>4 DEF TypeOK, fileVars
<1>7. CASE UNCHANGED vars
  BY <1>7 DEF TypeOK, vars, fileVars, progressVars, countVars
<1> QED BY <1>1, <1>2, <1>3, <1>4, <1>5, <1>6, <1>7 DEF Next

----------------------------------------------------------------------------
(* The inductive step *)

\* Who can be at work beside whom, and over which completed items.
LEMMA WorkOrder ==
    ASSUME Closed, Working
    PROVE  /\ "integration" \in done => Producers \subseteq done
           /\ "gate" \in done => "integration" \in done
           /\ \A p \in Producers : job[p] # "idle" =>
                 /\ p \notin done /\ "integration" \notin done /\ "gate" \notin done
                 /\ job["integration"] = "idle" /\ job["gate"] = "idle"
           /\ job["integration"] # "idle" =>
                 /\ Producers \subseteq done /\ "integration" \notin done /\ "gate" \notin done
                 /\ job["gate"] = "idle"
           /\ job["gate"] # "idle" =>
                 /\ Producers \subseteq done /\ "integration" \in done /\ "gate" \notin done
<1>1. /\ "integration" \in done => Producers \subseteq done
      /\ "gate" \in done => "integration" \in done
  BY DepsOf DEF Closed
<1>2. /\ \A p \in Producers : job[p] # "idle" => p \notin done
      /\ job["integration"] # "idle" => Producers \subseteq done /\ "integration" \notin done
      /\ job["gate"] # "idle" => "integration" \in done /\ "gate" \notin done
  BY DepsOf DEF Working, Items
<1> QED BY <1>1, <1>2

\* A completed output stays valid when no completed producer's files change.
LEMMA StagedKept ==
    ASSUME Closed, NEW p \in Producers, p \in done, StagedValid(p),
           \A q \in Producers \cap done : text'[q] = text[q] /\ manifest'[q] = manifest[q]
    PROVE  StagedValid(p)'
<1>1. Inputs[p] \subseteq done /\ Inputs[p] \subseteq Producers
  BY DepsOf, ArtifactAssumption DEF Closed
<1>2. Loadable(p)' /\ \A q \in Inputs[p] : Loadable(q)'
  BY <1>1 DEF StagedValid, Loadable
<1>3. From(p)' = From(p)
  BY <1>1 DEF From
<1> QED BY <1>1, <1>2, <1>3 DEF StagedValid

\* The repository's checks read nothing but its files.
LEMMA SameFiles ==
    ASSUME UNCHANGED fileVars
    PROVE  /\ \A i : Recoverable(i)' <=> Recoverable(i)
           /\ \A c : Selectable(c)' <=> Selectable(c)
           /\ CurrentBacked' <=> CurrentBacked
           /\ Distinct' <=> Distinct
<1> USE DEF fileVars
<1>1. \A p : (Loadable(p)' <=> Loadable(p)) /\ From(p)' = From(p)
  BY DEF Loadable, From
<1>2. \A p : StagedValid(p)' <=> StagedValid(p)
  BY <1>1 DEF StagedValid
<1>3. \A c : SourcesCurrent(c)' <=> SourcesCurrent(c)
  BY <1>1 DEF SourcesCurrent
<1>4. \A c : Selectable(c)' <=> Selectable(c)
  BY <1>3 DEF Selectable
<1>5. \A c : PublishedAs(c)' <=> PublishedAs(c)
  BY DEF PublishedAs
<1>6. \A i : Recoverable(i)' <=> Recoverable(i)
  BY <1>2, <1>4, <1>5 DEF Recoverable, CandidateReady
<1>7. (CurrentBacked' <=> CurrentBacked) /\ (Distinct' <=> Distinct)
  BY DEF CurrentBacked, Distinct
<1> QED BY <1>4, <1>6, <1>7

\* The choice of a candidate depends on the texts, manifests and candidates.
LEMMA SelectableKept ==
    ASSUME UNCHANGED <<text, manifest, cands>>
    PROVE  \A c : Selectable(c)' <=> Selectable(c)
<1>1. \A c : SourcesCurrent(c)' <=> SourcesCurrent(c)
  BY DEF SourcesCurrent, Loadable
<1> QED BY <1>1 DEF Selectable

\* Completed items keep their evidence when a step changes only files of items
\* that are not completed.
LEMMA BackedKept ==
    ASSUME TypeOK, Closed, Working, CompletedBacked, done' = done,
           \A q \in Producers \cap done : text'[q] = text[q] /\ manifest'[q] = manifest[q],
           "integration" \in done => UNCHANGED <<text, manifest, cands>>,
           "gate" \in done => UNCHANGED <<revs, current, projection>>
    PROVE  CompletedBacked'
<1>1. ASSUME NEW p \in Producers, p \in done PROVE StagedValid(p)'
  BY <1>1, StagedKept, RecoverableOf DEF CompletedBacked
<1>2. "integration" \in done => CandidateReady'
  BY SelectableKept, RecoverableOf DEF CompletedBacked, CandidateReady
<1>3. ASSUME "gate" \in done
      PROVE  \E c \in DOMAIN cands' : Selectable(c)' /\ PublishedAs(c)'
  <2>1. UNCHANGED <<text, manifest, cands, revs, current, projection>>
    BY <1>3, WorkOrder
  <2>2. \A c : PublishedAs(c)' <=> PublishedAs(c)
    BY <2>1 DEF PublishedAs
  <2> QED BY <1>3, <2>1, <2>2, SelectableKept, RecoverableOf DEF CompletedBacked
<1> QED BY <1>1, <1>2, <1>3 DEF CompletedBacked, Recoverable

\* A step of the scheduler that writes no file.
LEMMA JobStep ==
    ASSUME IInv, TypeOK', UNCHANGED <<fileVars, done, chosen>>, Working', Stages',
           job'["gate"] \in {"idle", job["gate"]}
    PROVE  IInv'
<1>1. Closed'
  BY DEF IInv, Closed, Deps
<1>2. Distinct' /\ CurrentBacked' /\ CompletedBacked'
  BY SameFiles DEF IInv, CompletedBacked
<1>3. GateAt'
  BY SameFiles DEF IInv, GateAt, fileVars
<1> QED BY <1>1, <1>2, <1>3 DEF IInv

\* A WorkItem is completed over the evidence for it.
LEMMA CompleteStep ==
    ASSUME IInv, TypeOK', NEW i \in Items, Complete(i), Recoverable(i), Deps(i) \subseteq done,
           UNCHANGED <<fileVars, worker, chosen>>
    PROVE  IInv'
<1> USE DEF IInv
<1>1. done' = done \cup {i} /\ job' = [job EXCEPT ![i] = "idle"] /\ job \in [Items -> JobStates]
  BY DEF Complete, TypeOK
<1>2. Closed'
  BY <1>1 DEF Closed, Deps
<1>3. Working'
  <2> SUFFICES ASSUME NEW j \in Items, job'[j] # "idle"
               PROVE  Up' /\ j \notin done' /\ Deps(j) \subseteq done'
    BY DEF Working, Deps
  <2>1. j # i /\ job[j] # "idle"
    BY <1>1
  <2> QED BY <1>1, <2>1 DEF Working, Up
<1>4. Stages'
  BY <1>1 DEF Stages, Items
<1>5. Distinct' /\ CurrentBacked' /\ CompletedBacked'
  BY <1>1, SameFiles DEF CompletedBacked
<1>6. job'["gate"] \in {"idle", job["gate"]}
  BY <1>1 DEF Items
<1>7. GateAt'
  BY <1>6, SameFiles DEF GateAt, fileVars
<1> QED BY <1>2, <1>3, <1>4, <1>5, <1>7

\* A producer at work changes its own files and its place in the work.
LEMMA StageStep ==
    ASSUME IInv, TypeOK', NEW p \in Producers, NEW s \in {"idle", "agent", "text", "receipt", "written"},
           job[p] # "idle", job' = [job EXCEPT ![p] = s],
           \A q \in Producers \ {p} : text'[q] = text[q] /\ manifest'[q] = manifest[q],
           UNCHANGED <<cands, done, worker, publishVars>>
    PROVE  IInv'
<1> USE DEF IInv
<1>1. /\ p \notin done /\ "integration" \notin done /\ "gate" \notin done
      /\ job["gate"] = "idle" /\ job["integration"] = "idle"
  BY WorkOrder
<1>2. job \in [Items -> JobStates] /\ p \in Items /\ "gate" \in Items /\ p # "gate"
  BY ArtifactAssumption DEF TypeOK, Items
<1>3. CompletedBacked'
  BY <1>1, BackedKept
<1>4. Closed' /\ Distinct' /\ CurrentBacked'
  BY DEF Closed, Deps, Distinct, CurrentBacked, publishVars
<1>5. Working'
  <2> SUFFICES ASSUME NEW j \in Items, job'[j] # "idle"
               PROVE  Up' /\ j \notin done' /\ Deps(j) \subseteq done'
    BY DEF Working, Deps
  <2>1. job[j] # "idle"
    BY <1>2
  <2> QED BY <2>1 DEF Working, Up
<1>6. Stages'
  BY <1>2 DEF Stages, Items
<1>7. job'["gate"] = "idle"
  BY <1>1, <1>2
<1>8. GateAt'
  BY <1>7 DEF GateAt
<1> QED BY <1>3, <1>4, <1>5, <1>6, <1>8

\* An item that was not at work and is ready may be started.
LEMMA StartWorking ==
    ASSUME IInv, NEW i \in Items, Ready(i), NEW s, job' = [job EXCEPT ![i] = s],
           UNCHANGED <<done, worker>>
    PROVE  Working'
<1> SUFFICES ASSUME NEW j \in Items, job'[j] # "idle"
             PROVE  Up' /\ j \notin done' /\ Deps(j) \subseteq done'
  BY DEF Working, Deps
<1>1. job \in [Items -> JobStates]
  BY DEF IInv, TypeOK
<1>2. CASE j = i
  BY <1>2 DEF Ready, Up
<1>3. CASE j # i
  BY <1>1, <1>3 DEF IInv, Working, Up
<1> QED BY <1>2, <1>3

\* A Worker that stopped is in the middle of nothing.
LEMMA IdleWorking == job' = AllIdle => Working' /\ Stages' /\ GateAt'
BY DEF Working, Stages, GateAt, AllIdle, Items

\* A candidate is added whose sources are the present texts, which no
\* candidate had.
LEMMA AddCandidate ==
    ASSUME IInv, NEW e, e.src = text, cands' = Append(cands, e),
           job["integration"] # "idle", MayCreate
    PROVE  Distinct' /\ DOMAIN cands \subseteq DOMAIN cands'
<1> USE DEF IInv
<1>1. \A p \in Producers : Loadable(p)
  BY WorkOrder, RecoverableOf DEF CompletedBacked, StagedValid
<1>2. /\ cands \in Seq(CandidateType)
      /\ text \in [Producers -> FileTexts]
  BY DEF TypeOK, CandidateType
<1>3. \A c \in DOMAIN cands : cands[c].src \in [Producers -> FileTexts]
  BY SourceType
<1>4. \A c \in DOMAIN cands : cands[c].src # text
  BY <1>1 DEF MayCreate, SourcesCurrent
<1>5. /\ DOMAIN cands = 1 .. Len(cands) /\ Len(cands) \in Nat
      /\ DOMAIN cands' = 1 .. (Len(cands) + 1)
      /\ \A c \in DOMAIN cands : cands'[c] = cands[c]
      /\ cands'[Len(cands) + 1] = e
  BY <1>2
<1>6. ASSUME NEW c \in DOMAIN cands', NEW d \in DOMAIN cands', cands'[c].src = cands'[d].src
      PROVE  c = d
  <2>1. c \in DOMAIN cands \/ c = Len(cands) + 1
    BY <1>5
  <2>2. d \in DOMAIN cands \/ d = Len(cands) + 1
    BY <1>5
  <2> QED BY <1>4, <1>5, <1>6, <2>1, <2>2 DEF Distinct
<1> QED BY <1>5, <1>6 DEF Distinct

\* Under Distinct, a candidate of the present texts is the only one.
LEMMA OneCurrent ==
    ASSUME TypeOK, Distinct
    PROVE  OneCandidate
<1> SUFFICES ASSUME NEW c \in DOMAIN cands, NEW d \in DOMAIN cands,
                    SourcesCurrent(c), SourcesCurrent(d)
             PROVE  c = d
  BY DEF OneCandidate
<1>1. cands[c].src \in [Producers -> FileTexts] /\ cands[d].src \in [Producers -> FileTexts]
  BY SourceType
<1>2. cands[c].src = cands[d].src
  BY <1>1 DEF SourcesCurrent
<1> QED BY <1>2 DEF Distinct

\* The gate writes one of its own files, or chooses what to write.
LEMMA GateStep ==
    ASSUME IInv, TypeOK', UNCHANGED <<stageVars, cands, done, worker>>,
           "integration" \in done, "gate" \notin done, Up,
           NEW s, job' = [job EXCEPT !["gate"] = s], GateAt', CurrentBacked'
    PROVE  IInv'
<1> USE DEF IInv
<1>1. job \in [Items -> JobStates] /\ "gate" \in Items /\ "gate" \notin Producers
  BY ArtifactAssumption DEF TypeOK, Items
<1>2. Closed' /\ Distinct'
  BY DEF Closed, Deps, Distinct
<1>3. Working'
  BY <1>1, DepsOf DEF Working, Deps, Up
<1>4. Stages'
  BY <1>1 DEF Stages, Items
<1>5. CompletedBacked'
  BY BackedKept DEF stageVars
<1> QED BY <1>2, <1>3, <1>4, <1>5

\* The steps of a producer: write text, manifest and receipt, deliver, reject.
LEMMA ProducerStep ==
    ASSUME IInv, TypeOK', NEW p \in Producers,
           \/ \E t \in Texts : WriteText(p, t)
           \/ WriteManifest(p) \/ WriteReceipt(p) \/ Deliver(p) \/ Reject(p)
    PROVE  IInv'
<1> USE DEF IInv
<1>0. p \in Items /\ job \in [Items -> JobStates]
      /\ text \in [Producers -> FileTexts] /\ manifest \in [Producers -> Manifests]
  BY DEF TypeOK, Items
<1>1. ASSUME NEW t \in Texts, WriteText(p, t) PROVE IInv'
  <2>1. /\ job[p] = "agent" /\ job' = [job EXCEPT ![p] = "text"]
        /\ text' = [text EXCEPT ![p] = t]
        /\ UNCHANGED <<manifest, cands, done, worker, publishVars>>
    BY <1>1 DEF WriteText, progressVars
  <2>2. \A q \in Producers \ {p} : text'[q] = text[q] /\ manifest'[q] = manifest[q]
    BY <1>0, <2>1
  <2> QED BY <2>1, <2>2, StageStep
<1>2. CASE WriteManifest(p)
  <2>1. /\ job[p] = "text"
        /\ manifest' = [manifest EXCEPT ![p] = [digest |-> text[p], from |-> From(p)]]
        /\ UNCHANGED <<text, cands, done, worker, publishVars>>
    BY <1>2 DEF WriteManifest, progressVars
  <2>2. PICK s \in {"receipt", "written"} : job' = [job EXCEPT ![p] = s]
    BY <1>2 DEF WriteManifest
  <2>3. \A q \in Producers \ {p} : text'[q] = text[q] /\ manifest'[q] = manifest[q]
    BY <1>0, <2>1
  <2> QED BY <2>1, <2>2, <2>3, StageStep
<1>3. CASE WriteReceipt(p)
  BY <1>3, StageStep DEF WriteReceipt, progressVars
<1>4. CASE Deliver(p)
  <2>1. Recoverable(p)
    BY <1>4, RecoverableOf DEF Deliver, Deliverable
  <2>2. Deps(p) \subseteq done
    BY <1>0, <1>4 DEF Deliver, Working
  <2> QED BY <1>0, <1>4, <2>1, <2>2, CompleteStep DEF Deliver
<1>5. CASE Reject(p)
  BY <1>5, StageStep DEF Reject, fileVars, progressVars, publishVars
<1> QED BY <1>1, <1>2, <1>3, <1>4, <1>5

\* The steps of the integration: create the candidate, finish.
LEMMA IntegrationStep ==
    ASSUME IInv, TypeOK',
           (\E w \in Wordings : CreateCandidate(w)) \/ FinishIntegration
    PROVE  IInv'
<1> USE DEF IInv
<1>1. ASSUME NEW w \in Wordings, CreateCandidate(w) PROVE IInv'
  <2>1. /\ job["integration"] = "agent" /\ MayCreate
        /\ cands' = Append(cands, Candidate("ready", w))
        /\ UNCHANGED <<text, manifest, done, worker, job, publishVars>>
    BY <1>1 DEF CreateCandidate, stageVars, progressVars
  <2>2. "integration" \notin done /\ "gate" \notin done /\ job["gate"] = "idle"
    BY <2>1, WorkOrder
  <2>3. Candidate("ready", w).src = text
    BY DEF Candidate
  <2>4. Distinct' /\ DOMAIN cands \subseteq DOMAIN cands'
    BY <2>1, <2>3, AddCandidate
  <2>5. CurrentBacked'
    BY <2>1, <2>4 DEF CurrentBacked, publishVars
  <2>6. CompletedBacked'
    BY <2>1, <2>2, BackedKept
  <2>7. Closed' /\ Working' /\ Stages' /\ GateAt'
    BY <2>1, <2>2 DEF Closed, Working, Stages, GateAt, Deps, Up
  <2> QED BY <2>4, <2>5, <2>6, <2>7
<1>2. CASE FinishIntegration
  <2>1. "integration" \in Items /\ Recoverable("integration") /\ Deps("integration") \subseteq done
    BY <1>2, RecoverableOf, DepsOf, WorkOrder DEF FinishIntegration, Items
  <2> QED BY <1>2, <2>1, CompleteStep DEF FinishIntegration
<1> QED BY <1>1, <1>2

\* The steps of the quality gate: select, write three files, verify.
LEMMA QualityGateStep ==
    ASSUME IInv, TypeOK',
           \/ \E c \in DOMAIN cands : SelectCandidate(c)
           \/ WriteRevision \/ WriteCurrent \/ WriteProjection \/ VerifyPublished
    PROVE  IInv'
<1> USE DEF IInv
<1>0. job \in [Items -> JobStates] /\ "gate" \in Items /\ revs \in Seq(Nat)
  BY DEF TypeOK, Items
<1>1. ASSUME NEW c \in DOMAIN cands, SelectCandidate(c) PROVE IInv'
  <2>1. /\ Up /\ "integration" \in done /\ "gate" \notin done
        /\ UNCHANGED <<fileVars, done, worker>> /\ chosen' = c
    BY <1>1, DepsOf DEF SelectCandidate, Ready, progressVars
  <2>2. PICK s : /\ job' = [job EXCEPT !["gate"] = s]
                 /\ s = IF current.file = "ready" /\ current.cand = c THEN "projection" ELSE "revision"
    BY <1>1 DEF SelectCandidate
  <2>3. Selectable(c)'
    BY <1>1, <2>1, SameFiles DEF SelectCandidate
  <2>4. job'["gate"] = s
    BY <1>0, <2>2
  <2>5. GateAt'
    BY <2>1, <2>2, <2>3, <2>4 DEF GateAt, fileVars
  <2>6. CurrentBacked'
    BY <2>1, SameFiles
  <2> QED BY <2>1, <2>2, <2>5, <2>6, GateStep DEF fileVars, stageVars
<1>2. ASSUME job["gate"] # "idle"
      PROVE  /\ "integration" \in done /\ "gate" \notin done /\ Up
             /\ chosen \in DOMAIN cands /\ Selectable(chosen)
  BY <1>0, <1>2, WorkOrder DEF GateAt, Working
<1>3. CASE WriteRevision
  <2>1. /\ job["gate"] = "revision" /\ revs' = Append(revs, chosen)
        /\ job' = [job EXCEPT !["gate"] = "current"]
        /\ UNCHANGED <<stageVars, cands, current, projection, done, worker, chosen>>
    BY <1>3 DEF WriteRevision, progressVars
  <2>2. job'["gate"] = "current"
    BY <1>0, <2>1
  <2>3. Selectable(chosen)'
    BY <1>2, <2>1, SelectableKept DEF stageVars
  <2>4. /\ Len(revs') > 0 /\ revs'[Len(revs')] = chosen
        /\ DOMAIN revs \subseteq DOMAIN revs' /\ \A n \in DOMAIN revs : revs'[n] = revs[n]
    BY <1>0, <2>1, AppendLast
  <2>5. GateAt'
    <3>1. chosen' = chosen /\ chosen' \in DOMAIN cands'
      BY <1>2, <2>1
    <3> QED BY <2>2, <2>3, <2>4, <3>1 DEF GateAt
  <2>6. CurrentBacked'
    BY <2>1, <2>4 DEF CurrentBacked
  <2> QED BY <1>2, <2>1, <2>5, <2>6, GateStep
<1>4. CASE WriteCurrent
  <2>1. /\ job["gate"] = "current"
        /\ current' = [file |-> "ready", rev |-> Len(revs), cand |-> chosen]
        /\ job' = [job EXCEPT !["gate"] = "projection"]
        /\ UNCHANGED <<stageVars, cands, revs, projection, done, worker, chosen>>
    BY <1>4 DEF WriteCurrent, progressVars
  <2>2. job'["gate"] = "projection"
    BY <1>0, <2>1
  <2>3. Selectable(chosen)'
    BY <1>2, <2>1, SelectableKept DEF stageVars
  <2>4. Len(revs) \in DOMAIN revs /\ revs[Len(revs)] = chosen
    BY <1>0, <2>1 DEF GateAt
  <2>5. GateAt'
    BY <1>2, <2>1, <2>2, <2>3 DEF GateAt
  <2>6. CurrentBacked'
    BY <1>2, <2>1, <2>4 DEF CurrentBacked
  <2> QED BY <1>2, <2>1, <2>5, <2>6, GateStep
<1>5. CASE WriteProjection
  <2>1. /\ job["gate"] = "projection" /\ projection' = chosen
        /\ job' = [job EXCEPT !["gate"] = "verify"]
        /\ UNCHANGED <<stageVars, cands, revs, current, done, worker, chosen>>
    BY <1>5 DEF WriteProjection, progressVars
  <2>2. job'["gate"] = "verify"
    BY <1>0, <2>1
  <2>3. Selectable(chosen)'
    BY <1>2, <2>1, SelectableKept DEF stageVars
  <2>4. GateAt' /\ CurrentBacked'
    BY <1>2, <2>1, <2>2, <2>3 DEF GateAt, CurrentBacked
  <2> QED BY <1>2, <2>1, <2>4, GateStep
<1>6. CASE VerifyPublished
  <2>1. Recoverable("gate")
    BY <1>2, <1>6, RecoverableOf DEF VerifyPublished
  <2>2. Deps("gate") \subseteq done
    BY <1>2, <1>6, DepsOf DEF VerifyPublished
  <2> QED BY <1>0, <1>6, <2>1, <2>2, CompleteStep DEF VerifyPublished
<1> QED BY <1>1, <1>3, <1>4, <1>5, <1>6

\* A crash tears at most the files that were being written.
LEMMA CrashStep ==
    ASSUME IInv, TypeOK', NEW cut \in SUBSET {i \in Items : job[i] # "idle"}, Crash(cut)
    PROVE  IInv'
<1> USE DEF IInv
<1>0. /\ text \in [Producers -> FileTexts] /\ manifest \in [Producers -> Manifests]
      /\ revs \in Seq(Nat)
  BY DEF TypeOK
<1>1. done' = done /\ job' = AllIdle
  BY DEF Crash
<1>2. \A p \in Producers : p \notin cut => text'[p] = text[p] /\ manifest'[p] = manifest[p]
  BY <1>0 DEF Crash
<1>3. \A i \in cut : i \in Items /\ job[i] # "idle"
  OBVIOUS
<1>4. \A q \in Producers \cap done : text'[q] = text[q] /\ manifest'[q] = manifest[q]
  BY <1>2, <1>3 DEF Working
<1>5. "integration" \in done => UNCHANGED <<text, manifest, cands>>
  <2> SUFFICES ASSUME "integration" \in done PROVE UNCHANGED <<text, manifest, cands>>
    OBVIOUS
  <2>1. \A p \in Producers : p \notin cut
    BY <1>3, WorkOrder
  <2>2. "integration" \notin cut
    BY <1>3, WorkOrder
  <2>3. text' = text /\ manifest' = manifest
    BY <1>0, <2>1 DEF Crash
  <2>4. cands' = cands
    BY <2>2 DEF Crash
  <2> QED BY <2>3, <2>4
<1>6. "gate" \in done => UNCHANGED <<revs, current, projection>>
  <2> SUFFICES ASSUME "gate" \in done PROVE UNCHANGED <<revs, current, projection>>
    OBVIOUS
  <2>1. "gate" \notin cut
    BY <1>3, WorkOrder
  <2> QED BY <2>1 DEF Crash
<1>7. CompletedBacked'
  BY <1>1, <1>4, <1>5, <1>6, BackedKept
<1>8. Closed' /\ Working' /\ Stages' /\ GateAt'
  BY <1>1, IdleWorking DEF Closed, Deps
<1>9. Distinct' /\ DOMAIN cands \subseteq DOMAIN cands'
  <2>1. CASE "integration" \in cut /\ MayCreate
    <3>1. Candidate("torn", CHOOSE w \in Wordings : TRUE).src = text
      BY DEF Candidate
    <3>2. cands' = Append(cands, Candidate("torn", CHOOSE w \in Wordings : TRUE))
      BY <2>1 DEF Crash
    <3> QED BY <1>3, <2>1, <3>1, <3>2, AddCandidate
  <2>2. CASE ~("integration" \in cut /\ MayCreate)
    <3>1. cands' = cands
      BY <2>2 DEF Crash
    <3> QED BY <3>1 DEF Distinct
  <2> QED BY <2>1, <2>2
<1>10. DOMAIN revs \subseteq DOMAIN revs' /\ \A n \in DOMAIN revs : revs'[n] = revs[n]
  <2>1. revs' = revs \/ revs' = Append(revs, 0)
    BY DEF Crash
  <2>2. revs \in Seq(Nat)
    BY <1>0
  <2>3. CASE revs' = Append(revs, 0)
    BY ONLY <2>2, <2>3
  <2> QED BY <2>1, <2>3
<1>11. CurrentBacked'
  <2>1. current' = current \/ current'.file = "torn"
    BY DEF Crash
  <2> QED BY <1>9, <1>10, <2>1 DEF CurrentBacked
<1> QED BY <1>7, <1>8, <1>9, <1>11

\* A resume keeps a closed set of items that are backed.
LEMMA ResumeStep ==
    ASSUME IInv, TypeOK', Resume
    PROVE  IInv'
<1> USE DEF IInv
<1>1. /\ done' \subseteq done /\ \A i \in done' : Deps(i) \subseteq done'
  <2>1. Kept \subseteq done /\ \A i \in Kept : Deps(i) \subseteq Kept
    BY PrunedClosed DEF Kept
  <2>2. /\ Pruned(Kept \ {blame}) \subseteq done
        /\ \A i \in Pruned(Kept \ {blame}) : Deps(i) \subseteq Pruned(Kept \ {blame})
    BY <2>1, PrunedClosed
  <2>3. done' = Kept \/ done' = Pruned(Kept \ {blame})
    BY DEF Resume
  <2> QED BY ONLY <2>1, <2>2, <2>3
<1>2. \A i \in Items : job[i] = "idle"
  BY DEF Resume, Working
<1>3. UNCHANGED <<fileVars, job, chosen>>
  BY DEF Resume
<1>4. Working' /\ Stages' /\ GateAt'
  BY <1>2, <1>3 DEF Working, Stages, GateAt, Items
<1>5. Closed' /\ Distinct' /\ CurrentBacked' /\ CompletedBacked'
  BY <1>1, <1>3, SameFiles DEF Closed, Deps, CompletedBacked
<1> QED BY <1>4, <1>5

\* Every step keeps the invariant.
LEMMA StepInv == IInv /\ [Next]_vars => IInv'
<1> SUFFICES ASSUME IInv, [Next]_vars PROVE IInv'
  OBVIOUS
<1>0. TypeOK'
  BY TypeStep DEF IInv
<1>1. job \in [Items -> JobStates] /\ "gate" \in Items /\ "gate" \notin Producers
  BY ArtifactAssumption DEF IInv, TypeOK, Items
<1>2. ASSUME NEW i \in Items, Recover(i) PROVE IInv'
  BY <1>0, <1>2, CompleteStep DEF Recover, Ready
<1>3. ASSUME NEW i \in Items, StartAgent(i) PROVE IInv'
  <2>1. /\ i # "gate" /\ Ready(i) /\ job' = [job EXCEPT ![i] = "agent"]
        /\ UNCHANGED <<fileVars, done, worker, chosen>>
    BY <1>3 DEF StartAgent, progressVars
  <2>2. Working'
    BY <2>1, StartWorking
  <2>3. Stages' /\ job'["gate"] \in {"idle", job["gate"]}
    BY <1>1, <2>1 DEF IInv, Stages, Items
  <2> QED BY <1>0, <2>1, <2>2, <2>3, JobStep
<1>4. ASSUME NEW i \in Items, Refuse(i) PROVE IInv'
  <2>1. job' = AllIdle /\ UNCHANGED <<fileVars, done, chosen>>
    BY <1>4 DEF Refuse
  <2> QED BY <1>0, <1>1, <2>1, IdleWorking, JobStep DEF AllIdle
<1>5. ASSUME NEW p \in Producers, Blame(p) PROVE IInv'
  <2>1. job' = AllIdle /\ UNCHANGED <<fileVars, done, chosen>>
    BY <1>5 DEF Blame
  <2> QED BY <1>0, <1>1, <2>1, IdleWorking, JobStep DEF AllIdle
<1>6. ASSUME NEW i \in Items, Abort(i) PROVE IInv'
  <2>1. /\ i # "gate" /\ job' = [job EXCEPT ![i] = "idle"]
        /\ UNCHANGED <<fileVars, done, worker, chosen>>
    BY <1>6 DEF Abort, progressVars
  <2>2. Working' /\ Stages' /\ job'["gate"] \in {"idle", job["gate"]}
    BY <1>1, <2>1 DEF IInv, Working, Stages, Items, Deps, Up
  <2> QED BY <1>0, <2>1, <2>2, JobStep
<1>7. CASE Pause
  <2>1. job = AllIdle /\ job' = AllIdle /\ UNCHANGED <<fileVars, done, chosen>>
    BY <1>7 DEF Pause, progressVars
  <2> QED BY <1>0, <1>1, <2>1, IdleWorking, JobStep DEF AllIdle
<1>8. CASE UNCHANGED vars
  <2>1. UNCHANGED <<fileVars, done, chosen, job, worker>>
    BY <1>8 DEF vars, progressVars
  <2>2. Working' /\ Stages'
    BY <2>1 DEF IInv, Working, Stages, Deps, Up
  <2> QED BY <1>0, <2>1, <2>2, JobStep
<1>9. ASSUME NEW i \in Items, Step(i) PROVE IInv'
  BY <1>0, <1>2, <1>3, <1>4, <1>9, ProducerStep, IntegrationStep, QualityGateStep DEF Step
<1> QED BY <1>0, <1>5, <1>6, <1>7, <1>8, <1>9, CrashStep, ResumeStep DEF Next

----------------------------------------------------------------------------
(* Theorems *)

\* The inductive invariant holds in every reachable state.
LEMMA Invariant == Spec => []IInv
BY InitInv, StepInv, PTL DEF Spec

\* The type invariant of the files, the checkpoint and the Worker.
THEOREM TypeCorrect == Spec => []TypeOK
BY Invariant, PTL DEF IInv

\* Every completed WorkItem has the evidence that a resume asks for, in all
\* interleavings of producers, crashes at any write, reruns and resumes.
THEOREM CompletedIsBacked == Spec => []CompletedBacked
BY Invariant, PTL DEF IInv

\* candidate_for_work_item never finds two candidates of the present designs.
THEOREM CandidateUnique == Spec => []OneCandidate
<1>1. IInv => OneCandidate
  BY OneCurrent DEF IInv
<1> QED BY <1>1, Invariant, PTL

\* Revisions are only appended, and none is appended for the candidate that is
\* current: a promotion repeated after a crash writes no second revision.
THEOREM RevisionsAreKept == Spec => RevisionsKept
<1> DEFINE Appended ==
             /\ SubSeq(revs', 1, Len(revs)) = revs
             /\ Len(revs') > Len(revs) /\ current.file = "ready" => current.cand # chosen
<1>1. ASSUME IInv, [Next]_vars PROVE Appended
  <2>0. revs \in Seq(Nat)
    BY <1>1 DEF IInv, TypeOK
  <2>1. CASE revs' = revs
    BY <2>0, <2>1
  <2>2. CASE job["gate"] = "revision" /\ \E n : revs' = Append(revs, n)
    <3>1. PICK n : revs' = Append(revs, n)
      BY <2>2
    <3>2. SubSeq(revs', 1, Len(revs)) = revs
      BY <2>0, <3>1
    <3>3. current.file = "ready" => current.cand # chosen
      BY <1>1, <2>2 DEF IInv, GateAt
    <3> QED BY <3>2, <3>3
  <2>3. WriteRevision => job["gate"] = "revision" /\ revs' = Append(revs, chosen)
    BY DEF WriteRevision
  <2>4. \A cut : Crash(cut) =>
            revs' = revs \/ (job["gate"] = "revision" /\ revs' = Append(revs, 0))
    BY DEF Crash
  <2>5. ASSUME ~WriteRevision, \A cut : ~Crash(cut) PROVE revs' = revs
    <3> USE DEF fileVars, publishVars
    <3>1. \A i \in Items : Step(i) => revs' = revs
      BY <2>5 DEF Step, Recover, StartAgent, Refuse, WriteText, WriteManifest, WriteReceipt,
         Deliver, Reject, CreateCandidate, FinishIntegration, SelectCandidate,
         WriteCurrent, WriteProjection, VerifyPublished
    <3>2. Pause \/ Resume \/ (\E i \in Items : Abort(i)) \/ (\E p \in Producers : Blame(p))
            => revs' = revs
      BY DEF Pause, Resume, Abort, Blame
    <3>3. UNCHANGED vars => revs' = revs
      BY DEF vars
    <3> QED BY <1>1, <2>5, <3>1, <3>2, <3>3 DEF Next
  <2> QED BY <2>1, <2>2, <2>3, <2>4, <2>5
<1> QED BY <1>1, Invariant, PTL DEF Spec, RevisionsKept

\* current.json, when it can be read, names a revision that holds its candidate.
THEOREM CurrentIsBacked == Spec => []CurrentBacked
BY Invariant, PTL DEF IInv

\* Both together: checkpoint and current.json never promise what no file holds.
THEOREM FilesAreBacked == Spec => []FilesBacked
<1>1. IInv => FilesBacked
  BY DEF IInv, FilesBacked
<1> QED BY <1>1, Invariant, PTL
=============================================================================
