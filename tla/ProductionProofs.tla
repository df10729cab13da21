--------------------------- MODULE ProductionProofs ---------------------------
(***************************************************************************)
(* Proofs about ProductionWorkflow, for every value of its constants.        *)
(*                                                                           *)
(* Most operations only take stages back: whatever is submitted afterwards   *)
(* was so before (Demotes).  Their proof is one lemma about the set of stages *)
(* they take back; Submit, Accept, Reject and the two completions, which     *)
(* bring a stage forward, are proved one by one.                             *)
(***************************************************************************)
EXTENDS ProductionWorkflow, TLAPS

\* Decisions follow revisions: none is ahead of its document, and a document
\* that waits has not been decided in its present revision.
DecisionsBehind ==
  \A k \in Decided :
    /\ approvals[k].revision <= docs[k].revision
    /\ stages[k] = "awaiting-confirmation" => approvals[k].revision < docs[k].revision

\* A later document is only submitted on top of what the user agreed to.
InSequence ==
  /\ Submitted("plan") => Agreed("resources")
  /\ Submitted("resources") \/ Submitted("plan") => Agreed("requirements")

\* The stage the task is in has not passed by a decision.
CurrentOpen == current \in Decided => stages[current] # "passed"

\* A view that is fresh shows the document as it is.
ViewIsTrue ==
  view.fresh /\ view.kind \in Decided => view.revision = docs[view.kind].revision

DocumentsInv ==
  DecisionsBehind /\ PassedIsAccepted /\ NothingOutdatedPasses /\ InSequence /\ DeliveryIsLast
TaskInv == DeliveryAnswersFeedback /\ CurrentOpen /\ PassedIsAnswered
IInv == TypeOK /\ DocumentsInv /\ TaskInv /\ ViewIsTrue

-----------------------------------------------------------------------------
(* Stages and their order.                                                   *)

\* The seven stages by name.
LEMMA StageNames ==
  Stages = {"requirements", "resources", "plan", "implementation", "review",
            "delivery", "closeout"}
BY DEF Stages, Order

\* What resetting from a stage reaches.
LEMMA FromReaches ==
  /\ \A s \in Stages : From(s) \subseteq Stages /\ s \in From(s)
  /\ \A s \in Stages : s # "closeout" => "delivery" \in From(s)
  /\ \A s \in Stages : s \in {"requirements", "resources"} => "plan" \in From(s)
  /\ From("requirements") = Stages
  /\ From("resources") = Stages \ {"requirements"}
  /\ From("plan") = Stages \ {"requirements", "resources"}
  /\ From("closeout") = {"closeout"}
  /\ {"requirements", "resources"} \cap From("plan") = {}
  /\ \A s \in Stages : s \notin {"requirements", "resources"} => "resources" \notin From(s)
  /\ \A s \in Stages : s # "requirements" => "requirements" \notin From(s)
BY StageNames DEF From, Order

\* Committing keeps the type of the stages and brings none of them forward.
LEMMA CommitKeeps ==
  ASSUME NEW st \in [Stages -> Statuses], NEW cur \in Stages, TypeOK, Commit(st, cur)
  PROVE  /\ stages' \in [Stages -> Statuses] /\ current' = cur /\ current' \in Stages
         /\ \A s \in Stages :
              /\ stages'[s] = "passed" <=> st[s] = "passed"
              /\ stages'[s] = "awaiting-confirmation" <=> st[s] = "awaiting-confirmation"
         /\ view' = [view EXCEPT !.fresh = FALSE]
         /\ view' \in [kind : Decided \cup {"none"}, revision : Nat, hash : Nat,
                       fresh : BOOLEAN]
         /\ ~view'.fresh
  <1>1. /\ stages' \in [Stages -> Statuses]
        /\ \A s \in Stages :
              /\ stages'[s] = "passed" <=> st[s] = "passed"
              /\ stages'[s] = "awaiting-confirmation" <=> st[s] = "awaiting-confirmation"
    <2>1. CASE st[cur] = "not-started"
      BY <2>1 DEF Commit, Statuses
    <2>2. CASE st[cur] # "not-started"
      BY <2>2 DEF Commit
    <2>. QED BY <2>1, <2>2
  <1>2. view' = [view EXCEPT !.fresh = FALSE] /\ current' = cur
    BY DEF Commit
  <1>3. view \in [kind : Decided \cup {"none"}, revision : Nat, hash : Nat, fresh : BOOLEAN]
    BY DEF TypeOK
  <1>. QED BY <1>1, <1>2, <1>3

\* Resetting stages gives them a status, and the reset ones are not submitted.
LEMMA ResetTypes ==
  ASSUME TypeOK, NEW S
  PROVE  /\ Reset(S) \in [Stages -> Statuses]
         /\ \A s \in Stages : Reset(S)[s] = IF s \in S THEN "not-started" ELSE stages[s]
BY DEF Reset, TypeOK, Statuses

-----------------------------------------------------------------------------
(* Types.                                                                    *)

StagesType ==
  /\ stages \in [Stages -> Statuses] /\ current \in Stages
  /\ view \in [kind : Decided \cup {"none"}, revision : Nat, hash : Nat, fresh : BOOLEAN]

WorkType ==
  /\ docs \in [Kinds -> [revision : Nat, hash : Nat, art : Nat,
                         version : Versions \cup {NoVersion}]]
  /\ approvals \in [Decided -> [revision : Nat, hash : Nat, accepted : BOOLEAN, seen : Nat]]
  /\ cycle \in Nat /\ outdated \subseteq Kinds

RestType ==
  /\ task \in {"active", "completed", "archived"} /\ completing \in BOOLEAN
  /\ version \in Versions \cup {NoVersion} /\ details \in Builds
  /\ tests \in [Versions -> [cycle : Nat, passed : BOOLEAN, build : Builds]]
  /\ groups \in [Groups -> [stage : Stages,
                            status : {"absent", "pending", "submitted", "cancelled"}]]
  /\ questionMode \in QuestionModes /\ playerMode \in PlayerModes
  /\ feedback \in [Feedbacks ->
       [status : {"absent", "open", "in-progress", "awaiting-recheck", "resolved"},
        visual : BOOLEAN, version : Versions \cup {NoVersion}, art : Nat]]
  /\ issues \subseteq IssueScopes /\ art \in [number : Nat, cycle : Nat]
  /\ files \in [Kinds -> Nat] /\ build \in Builds /\ edits \in Nat

\* The type invariant in its three parts.
LEMMA TypeParts == TypeOK <=> StagesType /\ WorkType /\ RestType
BY DEF TypeOK, StagesType, WorkType, RestType

\* The same for the next state.
LEMMA TypePartsNext == TypeOK' <=> StagesType' /\ WorkType' /\ RestType'
BY DEF TypeOK, StagesType, WorkType, RestType

\* Every map of stages an operation commits is well typed.
LEMMA StageMaps ==
  ASSUME TypeOK
  PROVE  /\ stages \in [Stages -> Statuses] /\ current \in Stages
         /\ \A s \in Stages : Reopened(s) \in [Stages -> Statuses]
         /\ BackInReview \in [Stages -> Statuses]
         /\ ForNewVersion \in [Stages -> Statuses]
         /\ \A k \in Kinds : SubmittedStages(k) \in [Stages -> Statuses]
  <1>1. stages \in [Stages -> Statuses] /\ current \in Stages
    BY DEF TypeOK
  <1>2. \A S : Reset(S) \in [Stages -> Statuses]
    BY ResetTypes
  <1>3. \A s \in Stages : Reopened(s) \in [Stages -> Statuses]
    BY <1>2 DEF Reopened, Statuses
  <1>4. BackInReview \in [Stages -> Statuses] /\ ForNewVersion \in [Stages -> Statuses]
    BY <1>2 DEF BackInReview, ForNewVersion, Statuses
  <1>5. \A k \in Kinds : SubmittedStages(k) \in [Stages -> Statuses]
    BY <1>1, <1>2 DEF SubmittedStages, Statuses
  <1>. QED BY <1>1, <1>3, <1>4, <1>5

\* A committed map of stages leaves the stages, the current one and the view typed.
LEMMA CommitTypes ==
  ASSUME NEW st \in [Stages -> Statuses], NEW cur \in Stages, TypeOK, Commit(st, cur)
  PROVE  StagesType'
BY CommitKeeps DEF StagesType

\* Every step keeps the types.
LEMMA TypeStep == TypeOK /\ [Next]_vars => TypeOK'
  <1>. SUFFICES ASSUME TypeOK, [Next]_vars
                PROVE  StagesType' /\ WorkType' /\ RestType'
    BY TypePartsNext
  <1>. USE ConstantsAssumption
  <1>0. StagesType /\ WorkType /\ RestType
    BY TypeParts
  <1>1. ASSUME NEW k \in Kinds, Submit(k)
       PROVE  StagesType' /\ WorkType' /\ RestType'
    <2>1. StagesType'
      BY <1>1, CommitTypes, StageMaps, StageNames DEF Submit, Kinds, Decided
    <2>2. WorkType'
      BY <1>0, <1>1 DEF Submit, WorkType, Document, Shown, RestType, Predating, Restarts, diskVars
    <2>3. RestType'
      BY <1>0, <1>1 DEF Submit, RestType, taskVars, gameVars, askVars, noteVars, diskVars
    <2>. QED BY <2>1, <2>2, <2>3
  <1>2. ASSUME NEW k \in Kinds, SubmitAgain(k)
       PROVE  StagesType' /\ WorkType' /\ RestType'
    <2>1. StagesType'
      BY <1>2, CommitTypes, StageMaps DEF SubmitAgain
    <2>2. WorkType'
      BY <1>0, <1>2 DEF SubmitAgain, WorkType
    <2>3. RestType'
      BY <1>0, <1>2 DEF SubmitAgain, RestType, taskVars, gameVars, askVars, noteVars, diskVars
    <2>. QED BY <2>1, <2>2, <2>3
  <1>3. ASSUME NEW k \in Decided, Look(k)
       PROVE  StagesType' /\ WorkType' /\ RestType'
    BY <1>0, <1>3 DEF Look, StagesType, WorkType, RestType, taskVars, workVars, gameVars,
       askVars, noteVars, diskVars, Decided, Kinds
  <1>4. ASSUME NEW k \in Decided, Accept(k)
       PROVE  StagesType' /\ WorkType' /\ RestType'
    <2>0. /\ [stages EXCEPT ![k] = "passed",
                           !["review"] = IF k = "delivery" THEN "passed" ELSE @]
               \in [Stages -> Statuses]
          /\ NextStage[k] \in Stages
      BY <1>0, StageNames DEF StagesType, Statuses, NextStage, Decided
    <2>1. StagesType'
      BY <1>4, <2>0, CommitTypes DEF Accept
    <2>2. WorkType'
      BY <1>0, <1>4 DEF Accept, WorkType, Decision, StagesType, Kinds
    <2>3. RestType'
      BY <1>0, <1>4 DEF Accept, RestType, taskVars, gameVars, askVars, noteVars, diskVars
    <2>. QED BY <2>1, <2>2, <2>3
  <1>5. ASSUME NEW k \in Decided, Reject(k)
       PROVE  StagesType' /\ WorkType' /\ RestType'
    <2>0. [stages EXCEPT ![k] = "in-progress"] \in [Stages -> Statuses]
      BY <1>0, StageNames DEF StagesType, Statuses
    <2>1. StagesType'
      BY <1>5, <2>0, CommitTypes, StageMaps, StageNames DEF Reject, Decided
    <2>2. WorkType'
      BY <1>0, <1>5 DEF Reject, WorkType, Decision, StagesType, Kinds
    <2>3. RestType'
      BY <1>0, <1>5 DEF Reject, RestType, taskVars, gameVars, askVars, noteVars, diskVars
    <2>. QED BY <2>1, <2>2, <2>3
  <1>6. ASSUME NEW v \in Versions, SetVersion(v)
       PROVE  StagesType' /\ WorkType' /\ RestType'
    <2>1. StagesType'
      BY <1>6, CommitTypes, StageMaps DEF SetVersion
    <2>2. WorkType'
      BY <1>0, <1>6 DEF SetVersion, WorkType, Predating
    <2>3. RestType'
      BY <1>0, <1>6 DEF SetVersion, RestType, taskVars, gameVars, askVars, noteVars, diskVars
    <2>. QED BY <2>1, <2>2, <2>3
  <1>7. ASSUME NEW passed \in BOOLEAN, SaveTest(passed)
       PROVE  StagesType' /\ WorkType' /\ RestType'
    <2>1. StagesType'
      BY <1>7, CommitTypes, StageMaps DEF SaveTest
    <2>2. WorkType'
      BY <1>0, <1>7 DEF SaveTest, WorkType
    <2>3. RestType'
      BY <1>0, <1>7 DEF SaveTest, RestType, taskVars, gameVars, askVars, noteVars, diskVars, WorkType
    <2>. QED BY <2>1, <2>2, <2>3
  <1>8. ASSUME CompleteImplementation
       PROVE  StagesType' /\ WorkType' /\ RestType'
    <2>0. [stages EXCEPT !["implementation"] = "passed", !["review"] = "awaiting-feedback"] \in [Stages -> Statuses]
      BY <1>0, StageNames DEF StagesType, Statuses
    <2>1. StagesType'
      BY <1>8, <2>0, CommitTypes, StageMaps, StageNames DEF CompleteImplementation
    <2>2. WorkType'
      BY <1>0, <1>8 DEF CompleteImplementation, WorkType
    <2>3. RestType'
      BY <1>0, <1>8 DEF CompleteImplementation, RestType, taskVars, gameVars, askVars, noteVars, diskVars
    <2>. QED BY <2>1, <2>2, <2>3
  <1>9. ASSUME CompleteCloseout
       PROVE  StagesType' /\ WorkType' /\ RestType'
    <2>0. [stages EXCEPT !["closeout"] = "passed"] \in [Stages -> Statuses]
      BY <1>0, StageNames DEF StagesType, Statuses
    <2>1. StagesType'
      BY <1>9, <2>0, CommitTypes, StageMaps, StageNames DEF CompleteCloseout
    <2>2. WorkType'
      BY <1>0, <1>9 DEF CompleteCloseout, WorkType
    <2>3. RestType'
      BY <1>0, <1>9 DEF CompleteCloseout, RestType, taskVars, gameVars, askVars, noteVars, diskVars
    <2>. QED BY <2>1, <2>2, <2>3
  <1>10. ASSUME NEW status \in Reports, UpdateStage(status)
       PROVE  StagesType' /\ WorkType' /\ RestType'
    <2>0. [stages EXCEPT ![current] = status] \in [Stages -> Statuses]
      BY <1>0, StageNames DEF StagesType, Statuses
    <2>1. StagesType'
      BY <1>10, <2>0, CommitTypes, StageMaps, StageNames DEF UpdateStage
    <2>2. WorkType'
      BY <1>0, <1>10 DEF UpdateStage, WorkType
    <2>3. RestType'
      BY <1>0, <1>10 DEF UpdateStage, RestType, taskVars, gameVars, askVars, noteVars, diskVars
    <2>. QED BY <2>1, <2>2, <2>3
  <1>11. ASSUME NEW i \in IssueScopes, SaveIssue(i)
       PROVE  StagesType' /\ WorkType' /\ RestType'
    <2>1. StagesType'
      BY <1>11, CommitTypes, StageMaps DEF SaveIssue
    <2>2. WorkType'
      BY <1>0, <1>11 DEF SaveIssue, WorkType
    <2>3. RestType'
      BY <1>0, <1>11 DEF SaveIssue, RestType, taskVars, gameVars, askVars, noteVars, diskVars
    <2>. QED BY <2>1, <2>2, <2>3
  <1>12. ASSUME RegisterVisual
       PROVE  StagesType' /\ WorkType' /\ RestType'
    <2>1. StagesType'
      BY <1>12, CommitTypes, StageMaps DEF RegisterVisual
    <2>2. WorkType'
      BY <1>0, <1>12 DEF RegisterVisual, WorkType
    <2>3. RestType'
      BY <1>0, <1>12 DEF RegisterVisual, RestType, taskVars, gameVars, askVars, noteVars, diskVars, WorkType
    <2>. QED BY <2>1, <2>2, <2>3
  <1>13. ASSUME NEW g \in Groups, Publish(g)
       PROVE  StagesType' /\ WorkType' /\ RestType'
    <2>1. StagesType'
      BY <1>13, CommitTypes, StageMaps DEF Publish
    <2>2. WorkType'
      BY <1>0, <1>13 DEF Publish, WorkType
    <2>3. RestType'
      BY <1>0, <1>13 DEF Publish, RestType, taskVars, gameVars, askVars, noteVars, diskVars, StagesType
    <2>. QED BY <2>1, <2>2, <2>3
  <1>14. ASSUME NEW g \in Groups, NEW status \in {"submitted", "cancelled", "pending"}, Answer(g, status)
       PROVE  StagesType' /\ WorkType' /\ RestType'
    <2>0. groups[g].stage \in Stages
      BY <1>0 DEF RestType
    <2>1. StagesType'
      BY <1>14, <2>0, CommitTypes, StageMaps DEF Answer, InvalidateFrom
    <2>2. WorkType'
      BY <1>0, <1>14 DEF Answer, WorkType, InvalidateFrom, Predating
    <2>3. RestType'
      BY <1>0, <1>14 DEF Answer, RestType, taskVars, gameVars, askVars, noteVars, diskVars
    <2>. QED BY <2>1, <2>2, <2>3
  <1>15. ASSUME NEW m \in PlayerModes, SetPlayerMode(m)
       PROVE  StagesType' /\ WorkType' /\ RestType'
    <2>1. StagesType'
      BY <1>15, CommitTypes, StageMaps, StageNames DEF SetPlayerMode, InvalidateFrom
    <2>2. WorkType'
      BY <1>0, <1>15 DEF SetPlayerMode, WorkType, InvalidateFrom, Predating
    <2>3. RestType'
      BY <1>0, <1>15 DEF SetPlayerMode, RestType, taskVars, gameVars, askVars, noteVars, diskVars, Cancelled
    <2>. QED BY <2>1, <2>2, <2>3
  <1>16. ASSUME NEW m \in PlayerModes, ConfigurePlayerMode(m)
       PROVE  StagesType' /\ WorkType' /\ RestType'
    <2>1. StagesType'
      BY <1>16, CommitTypes, StageMaps, StageNames DEF ConfigurePlayerMode, InvalidateFrom
    <2>2. WorkType'
      BY <1>0, <1>16 DEF ConfigurePlayerMode, WorkType, InvalidateFrom, Predating
    <2>3. RestType'
      BY <1>0, <1>16 DEF ConfigurePlayerMode, RestType, taskVars, gameVars, askVars, noteVars, diskVars
    <2>. QED BY <2>1, <2>2, <2>3
  <1>17. ASSUME NEW m \in QuestionModes, ConfigureQuestionMode(m)
       PROVE  StagesType' /\ WorkType' /\ RestType'
    <2>0. [stages EXCEPT !["requirements"] = "in-progress"] \in [Stages -> Statuses]
      BY <1>0, StageNames DEF StagesType, Statuses
    <2>1. StagesType'
      BY <1>17, <2>0, CommitTypes, StageMaps, StageNames DEF ConfigureQuestionMode
    <2>2. WorkType'
      BY <1>0, <1>17 DEF ConfigureQuestionMode, WorkType
    <2>3. RestType'
      BY <1>0, <1>17 DEF ConfigureQuestionMode, RestType, taskVars, gameVars, askVars, noteVars, diskVars, Cancelled
    <2>. QED BY <2>1, <2>2, <2>3
  <1>18. ASSUME NEW f \in Feedbacks, NEW visual \in BOOLEAN, AddFeedback(f, visual)
       PROVE  StagesType' /\ WorkType' /\ RestType'
    <2>1. StagesType'
      BY <1>18, CommitTypes, StageMaps, StageNames DEF AddFeedback, InvalidateFrom, BackToReview
    <2>2. WorkType'
      BY <1>0, <1>18 DEF AddFeedback, WorkType, InvalidateFrom, BackToReview, Predating
    <2>3. RestType'
      BY <1>0, <1>18 DEF AddFeedback, RestType, taskVars, gameVars, askVars, noteVars, diskVars, WorkType, Shown
    <2>. QED BY <2>1, <2>2, <2>3
  <1>19. ASSUME NEW f \in Feedbacks, NEW status \in {"in-progress", "awaiting-recheck"}, UpdateFeedback(f, status)
       PROVE  StagesType' /\ WorkType' /\ RestType'
    <2>1. StagesType'
      BY <1>19, CommitTypes, StageMaps DEF UpdateFeedback
    <2>2. WorkType'
      BY <1>0, <1>19 DEF UpdateFeedback, WorkType
    <2>3. RestType'
      <3>1. feedback' \in [Feedbacks ->
             [status : {"absent", "open", "in-progress", "awaiting-recheck", "resolved"},
              visual : BOOLEAN, version : Versions \cup {NoVersion}, art : Nat]]
        <4>1. Shown \in Nat
          BY <1>0 DEF Shown, RestType
        <4>2. version \in Versions \cup {NoVersion}
          BY <1>0 DEF RestType
        <4>3. feedback \in [Feedbacks ->
               [status : {"absent", "open", "in-progress", "awaiting-recheck", "resolved"},
                visual : BOOLEAN, version : Versions \cup {NoVersion}, art : Nat]]
          BY <1>0 DEF RestType
        <4>4. feedback' = [feedback EXCEPT ![f].status = status, ![f].version = version,
                             ![f].art = IF status = "in-progress" THEN 0 ELSE Shown]
          BY <1>19 DEF UpdateFeedback
        <4>. DEFINE Entry == [feedback[f] EXCEPT !.status = status, !.version = version,
                                 !.art = IF status = "in-progress" THEN 0 ELSE Shown]
        <4>5. feedback' = [feedback EXCEPT ![f] = Entry]
          BY <4>3, <4>4
        <4>6. Entry \in
               [status : {"absent", "open", "in-progress", "awaiting-recheck", "resolved"},
                visual : BOOLEAN, version : Versions \cup {NoVersion}, art : Nat]
          BY <4>1, <4>2, <4>3
        <4>. QED BY <4>3, <4>5, <4>6
      <3>. QED BY <1>0, <1>19, <3>1 DEF UpdateFeedback, RestType, taskVars, gameVars, askVars,
                                        diskVars
    <2>. QED BY <2>1, <2>2, <2>3
  <1>20. ASSUME NEW f \in Feedbacks, Resolve(f)
       PROVE  StagesType' /\ WorkType' /\ RestType'
    <2>1. StagesType'
      BY <1>20, CommitTypes, StageMaps DEF Resolve
    <2>2. WorkType'
      BY <1>0, <1>20 DEF Resolve, WorkType
    <2>3. RestType'
      <3>1. feedback' \in [Feedbacks ->
               [status : {"absent", "open", "in-progress", "awaiting-recheck", "resolved"},
                visual : BOOLEAN, version : Versions \cup {NoVersion}, art : Nat]]
        <4>1. feedback \in [Feedbacks ->
               [status : {"absent", "open", "in-progress", "awaiting-recheck", "resolved"},
                visual : BOOLEAN, version : Versions \cup {NoVersion}, art : Nat]]
          BY <1>0 DEF RestType
        <4>2. feedback' = [feedback EXCEPT ![f].status = "resolved"]
          BY <1>20 DEF Resolve
        <4>. QED BY <4>1, <4>2
      <3>2. UNCHANGED <<taskVars, gameVars, askVars, issues, art, diskVars>>
        BY <1>20 DEF Resolve
      <3>. QED BY <1>0, <3>1, <3>2 DEF RestType, taskVars, gameVars, askVars, diskVars
    <2>. QED BY <2>1, <2>2, <2>3
  <1>21. ASSUME NEW f \in Feedbacks, Reopen(f)
       PROVE  StagesType' /\ WorkType' /\ RestType'
    <2>1. StagesType'
      BY <1>21, CommitTypes, StageMaps, StageNames DEF Reopen, InvalidateFrom, BackToReview
    <2>2. WorkType'
      BY <1>0, <1>21 DEF Reopen, WorkType, InvalidateFrom, BackToReview, Predating
    <2>3. RestType'
      <3>1. feedback' \in [Feedbacks ->
               [status : {"absent", "open", "in-progress", "awaiting-recheck", "resolved"},
                visual : BOOLEAN, version : Versions \cup {NoVersion}, art : Nat]]
        <4>1. feedback \in [Feedbacks ->
               [status : {"absent", "open", "in-progress", "awaiting-recheck", "resolved"},
                visual : BOOLEAN, version : Versions \cup {NoVersion}, art : Nat]]
          BY <1>0 DEF RestType
        <4>2. feedback' = [feedback EXCEPT ![f].status = "open"]
          BY <1>21 DEF Reopen
        <4>. QED BY <4>1, <4>2
      <3>2. UNCHANGED <<taskVars, gameVars, askVars, issues, art, diskVars>>
        BY <1>21 DEF Reopen
      <3>. QED BY <1>0, <3>1, <3>2 DEF RestType, taskVars, gameVars, askVars, diskVars
    <2>. QED BY <2>1, <2>2, <2>3
  <1>22. ASSUME NEW k \in Kinds, NEW c \in Contents, EditFile(k, c)
       PROVE  StagesType' /\ WorkType' /\ RestType'
    BY <1>0, <1>22 DEF EditFile, StagesType, WorkType, RestType, taskVars, workVars, gameVars, askVars, noteVars, diskVars
  <1>23. ASSUME NEW b \in Builds, ChangeBuild(b)
       PROVE  StagesType' /\ WorkType' /\ RestType'
    BY <1>0, <1>23 DEF ChangeBuild, StagesType, WorkType, RestType, taskVars, workVars, gameVars, askVars, noteVars, diskVars
  <1>24. ASSUME CompleteBegin
       PROVE  StagesType' /\ WorkType' /\ RestType'
    BY <1>0, <1>24 DEF CompleteBegin, StagesType, WorkType, RestType, taskVars, workVars, gameVars, askVars, noteVars, diskVars
  <1>25. ASSUME CompleteWrite
       PROVE  StagesType' /\ WorkType' /\ RestType'
    BY <1>0, <1>25 DEF CompleteWrite, StagesType, WorkType, RestType, taskVars, workVars, gameVars, askVars, noteVars, diskVars
  <1>26. ASSUME NEW status \in SetStatuses, SetStatus(status)
       PROVE  StagesType' /\ WorkType' /\ RestType'
    BY <1>0, <1>26, ConstantsAssumption DEF SetStatus, StagesType, WorkType, RestType, taskVars, workVars, gameVars, askVars, noteVars, diskVars
  <1>27. ASSUME NEW k \in {"requirements", "resources"}, ConfigureTemplate(k)
       PROVE  StagesType' /\ WorkType' /\ RestType'
    <2>0. [stages EXCEPT ![k] = "in-progress"] \in [Stages -> Statuses] /\ k \in Stages
      BY <1>0, StageNames DEF StagesType, Statuses
    <2>1. StagesType'
      BY <1>27, <2>0, CommitTypes, StageMaps DEF ConfigureTemplate
    <2>2. WorkType'
      BY <1>0, <1>27 DEF ConfigureTemplate, WorkType
    <2>3. RestType'
      BY <1>0, <1>27 DEF ConfigureTemplate, RestType, taskVars, gameVars, askVars, noteVars, diskVars
    <2>. QED BY <2>1, <2>2, <2>3
  <1>28. CASE UNCHANGED vars
    BY <1>0, <1>28 DEF StagesType, WorkType, RestType, vars, taskVars, workVars, gameVars,
       askVars, noteVars, diskVars
  <1>. QED
    BY <1>1, <1>2, <1>3, <1>4, <1>5, <1>6, <1>7, <1>8, <1>9, <1>10, <1>11, <1>12,
       <1>13, <1>14, <1>15, <1>16, <1>17, <1>18, <1>19, <1>20, <1>21, <1>22, <1>23,
       <1>24, <1>25, <1>26, <1>27, <1>28 DEF Next

\* The types hold at the start.
LEMMA TypeInit == Init => TypeOK
  <1>. SUFFICES ASSUME Init PROVE StagesType /\ WorkType /\ RestType
    BY TypeParts
  <1>. USE ConstantsAssumption
  <1>1. StagesType
    BY StageNames DEF Init, StagesType, Statuses, NoView
  <1>2. WorkType
    BY DEF Init, WorkType
  <1>3. RestType
    BY StageNames DEF Init, RestType
  <1>. QED BY <1>1, <1>2, <1>3

\* The record keeps its types (TypeOK of the runs).
THEOREM TypeCorrect == Spec => []TypeOK
  <1>1. Init => TypeOK
    BY TypeInit
  <1>2. TypeOK /\ [Next]_vars => TypeOK'
    BY TypeStep
  <1>. QED BY <1>1, <1>2, PTL DEF Spec

-----------------------------------------------------------------------------
(* Steps that take stages back.                                              *)

\* No document is submitted that was not, those of S no longer are, the stages
\* outside S keep what they passed, and only documents of S become outdated.
Demotes(S) ==
  /\ \A s \in Decided : Submitted(s)' => Submitted(s) /\ s \notin S /\ stages'[s] = stages[s]
  /\ \A s \in Stages \ S : stages[s] = "passed" => stages'[s] = "passed"
  /\ docs' = docs /\ approvals' = approvals /\ outdated' \subseteq outdated \cup S

\* What is taken back takes back what rests on it.
Closed(S) == S \cap {"plan", "implementation"} # {} => "delivery" \in S

\* Taking stages back leaves the user's agreement to their documents as it is.
LEMMA DemotesAgreed ==
  ASSUME NEW S, Demotes(S), NEW k \in Decided, Agreed(k)
  PROVE  Agreed(k)'
BY DEF Demotes, Agreed, Submitted

\* Taking back a closed set of stages keeps what is known of the documents.
LEMMA DemotesKeep ==
  ASSUME TypeOK, DocumentsInv, NEW S, Demotes(S), Closed(S)
  PROVE  DocumentsInv'
  <1>. USE StageNames DEF Submitted
  <1>1. DecisionsBehind'
    BY DEF DocumentsInv, DecisionsBehind, Demotes, Decided
  <1>2. PassedIsAccepted'
    BY DEF DocumentsInv, PassedIsAccepted, Demotes, Decided
  <1>3. NothingOutdatedPasses'
    BY DEF DocumentsInv, NothingOutdatedPasses, Demotes, Decided
  <1>4. InSequence'
    BY DemotesAgreed DEF DocumentsInv, InSequence, Demotes, Decided
  <1>5. DeliveryIsLast'
    BY DemotesAgreed DEF DocumentsInv, DeliveryIsLast, Demotes, Closed, Decided
  <1>. QED BY <1>1, <1>2, <1>3, <1>4, <1>5 DEF DocumentsInv

\* A commit that changes no stage takes nothing back.
LEMMA QuietDemotes ==
  ASSUME TypeOK, Commit(stages, current), UNCHANGED <<docs, approvals, outdated>>
  PROVE  Demotes({})
BY StageNames, StageMaps, CommitKeeps DEF Demotes, Submitted, Decided

\* A user's answer takes back its stage and all that come after it.
LEMMA InvalidateDemotes ==
  ASSUME TypeOK, NEW s \in Stages, InvalidateFrom(s)
  PROVE  Demotes(From(s)) /\ Closed(From(s))
  <1>1. Reopened(s) \in [Stages -> Statuses] /\ Commit(Reopened(s), s)
    BY StageMaps DEF InvalidateFrom
  <1>2. \A t \in Stages : Reopened(s)[t] = IF t = s THEN "in-progress"
                            ELSE IF t \in From(s) THEN "not-started" ELSE stages[t]
    BY ResetTypes DEF Reopened
  <1>3. Demotes(From(s))
    BY <1>1, <1>2, CommitKeeps, FromReaches, StageNames DEF Demotes, Submitted, Decided, InvalidateFrom, Predating
  <1>4. Closed(From(s))
    BY FromReaches, StageNames DEF Closed
  <1>. QED BY <1>3, <1>4

\* Feedback on the game takes back the review and the delivery.
LEMMA ReviewDemotes ==
  ASSUME TypeOK, BackToReview
  PROVE  Demotes({"review", "delivery", "closeout"})
  <1>1. BackInReview \in [Stages -> Statuses] /\ Commit(BackInReview, "review")
    BY StageMaps DEF BackToReview
  <1>2. \A t \in Stages : BackInReview[t] = IF t = "review" THEN "in-progress"
                     ELSE IF t \in {"delivery", "closeout"} THEN "not-started" ELSE stages[t]
    BY ResetTypes DEF BackInReview
  <1>. QED BY <1>1, <1>2, CommitKeeps, StageNames
           DEF Demotes, Submitted, Decided, BackToReview, Predating

\* A new version takes back the implementation and the delivery.
LEMMA VersionDemotes ==
  ASSUME TypeOK, NEW v \in Versions, SetVersion(v), v # version
  PROVE  Demotes({"implementation", "delivery", "closeout"})
  <1>1. ForNewVersion \in [Stages -> Statuses] /\ Commit(ForNewVersion, current)
    BY StageMaps DEF SetVersion
  <1>2. \A t \in Stages : ForNewVersion[t] = IF t = "implementation" THEN "in-progress"
                     ELSE IF t \in {"delivery", "closeout"} THEN "not-started" ELSE stages[t]
    BY ResetTypes DEF ForNewVersion
  <1>3. current \in Stages
    BY DEF TypeOK
  <1>. QED BY <1>1, <1>2, <1>3, CommitKeeps, StageNames
           DEF Demotes, Submitted, Decided, SetVersion, Predating

\* A report on a stage that is not submitted takes nothing back.
LEMMA ReportDemotes ==
  ASSUME TypeOK, NEW status \in Reports, UpdateStage(status)
  PROVE  Demotes({})
  <1>. DEFINE st == [stages EXCEPT ![current] = status]
  <1>1. status \in Statuses \ {"passed", "awaiting-confirmation"}
    BY ConstantsAssumption DEF Statuses
  <1>2. st \in [Stages -> Statuses] /\ current \in Stages
    BY <1>1 DEF TypeOK
  <1>3. /\ ~Submitted(current) /\ Commit(st, current)
        /\ UNCHANGED <<docs, approvals, outdated>>
    BY DEF UpdateStage
  <1>4. \A s \in Stages : st[s] = IF s = current THEN status ELSE stages[s]
    BY DEF TypeOK
  <1>. HIDE DEF st
  <1>. QED BY <1>1, <1>2, <1>3, <1>4, CommitKeeps, StageNames DEF Demotes, Submitted, Decided

\* Opening one stage again takes back that stage.
LEMMA ReopenDemotes ==
  ASSUME TypeOK, NEW k \in Stages, Commit([stages EXCEPT ![k] = "in-progress"], k),
         UNCHANGED <<docs, approvals, outdated>>
  PROVE  Demotes({k}) /\ stages'[k] # "passed" /\ current' = k
  <1>. DEFINE st == [stages EXCEPT ![k] = "in-progress"]
  <1>1. st \in [Stages -> Statuses] /\ Commit(st, k)
    BY StageNames DEF TypeOK, Statuses
  <1>2. \A s \in Stages : st[s] = IF s = k THEN "in-progress" ELSE stages[s]
    BY DEF TypeOK
  <1>. HIDE DEF st
  <1>. QED BY <1>1, <1>2, CommitKeeps, StageNames DEF Demotes, Submitted, Decided

\* The agent's choice of a question mode or a template may take back the stage
\* it is about, and opens it.
LEMMA TemplateDemotes ==
  ASSUME TypeOK, NEW k \in {"requirements", "resources"}, ConfigureTemplate(k)
  PROVE  Demotes({}) \/ Demotes({k})
BY ReopenDemotes, QuietDemotes, StageNames DEF ConfigureTemplate

LEMMA ConfigureDemotes ==
  ASSUME TypeOK, NEW m \in QuestionModes, ConfigureQuestionMode(m)
  PROVE  Demotes({}) \/ Demotes({"requirements"})
BY ReopenDemotes, QuietDemotes, StageNames DEF ConfigureQuestionMode

\* The implementation and the closeout have no decision: ending one of them
\* takes no document back.
LEMMA CompletionDemotes ==
  ASSUME TypeOK, CompleteImplementation \/ CompleteCloseout
  PROVE  Demotes({"review"})
  <1>. USE StageNames
  <1>1. CASE CompleteImplementation
    <2>. DEFINE st == [stages EXCEPT !["implementation"] = "passed",
                                     !["review"] = "awaiting-feedback"]
    <2>1. /\ st \in [Stages -> Statuses] /\ Commit(st, "review")
          /\ UNCHANGED <<docs, approvals, outdated>>
      BY <1>1 DEF CompleteImplementation, TypeOK, Statuses
    <2>2. /\ \A s \in Stages \ {"implementation", "review"} : st[s] = stages[s]
          /\ st["implementation"] = "passed"
      BY DEF TypeOK
    <2>. HIDE DEF st
    <2>. QED BY <2>1, <2>2, CommitKeeps DEF Demotes, Submitted, Decided
  <1>2. CASE CompleteCloseout
    <2>. DEFINE st == [stages EXCEPT !["closeout"] = "passed"]
    <2>1. /\ st \in [Stages -> Statuses] /\ Commit(st, "closeout")
          /\ UNCHANGED <<docs, approvals, outdated>>
      BY <1>2 DEF CompleteCloseout, TypeOK, Statuses
    <2>2. (\A s \in Stages \ {"closeout"} : st[s] = stages[s]) /\ st["closeout"] = "passed"
      BY DEF TypeOK
    <2>. HIDE DEF st
    <2>. QED BY <2>1, <2>2, CommitKeeps DEF Demotes, Submitted, Decided
  <1>. QED BY <1>1, <1>2

-----------------------------------------------------------------------------
(* The documents stay in order.                                              *)

\* Submitting a document keeps it: a revision of an earlier one resets what
\* rests on it, and the first revision finds nothing resting on it.
LEMMA SubmitKeeps ==
  ASSUME TypeOK, DocumentsInv, NEW k \in Kinds, Submit(k)
  PROVE  DocumentsInv'
  <1>. USE DEF Submitted, DocumentsInv
  <1>0. /\ k \in Stages /\ Kinds \subseteq Stages /\ Decided \subseteq Kinds
        /\ SubmittedStages(k) \in [Stages -> Statuses] /\ Commit(SubmittedStages(k), k)
    BY StageMaps, StageNames DEF Kinds, Decided, Submit
  <1>1. \A s \in Stages : SubmittedStages(k)[s] =
          IF s = k THEN IF k = "closeout" THEN "in-progress" ELSE "awaiting-confirmation"
          ELSE IF Restarts(k) /\ s \in From(k) THEN "not-started" ELSE stages[s]
    BY <1>0, ResetTypes DEF SubmittedStages, TypeOK
  <1>2. /\ stages'[k] # "passed"
        /\ stages'[k] = "awaiting-confirmation" => k # "closeout"
        /\ \A s \in Stages \ {k} :
             /\ Submitted(s)' => stages'[s] = stages[s] /\ ~(Restarts(k) /\ s \in From(k))
             /\ stages[s] = "passed" /\ ~(Restarts(k) /\ s \in From(k)) => stages'[s] = "passed"
    BY <1>0, <1>1, CommitKeeps
  <1>3. /\ docs' = [docs EXCEPT ![k] = Document(k)] /\ approvals' = approvals
        /\ outdated' = (IF Restarts(k) THEN Predating(From(k)) ELSE outdated) \ {k}
    BY DEF Submit
  <1>4. /\ docs \in [Kinds -> [revision : Nat, hash : Nat, art : Nat,
                               version : Versions \cup {NoVersion}]]
        /\ approvals \in [Decided -> [revision : Nat, hash : Nat, accepted : BOOLEAN,
                                      seen : Nat]]
    BY DEF TypeOK
  <1>5. \A j \in Kinds : IF j = k THEN docs'[j].revision = docs[j].revision + 1
                         ELSE docs'[j] = docs[j]
    BY <1>3, <1>4 DEF Document
  <1>6. DecisionsBehind'
    <2>1. \A j \in Decided : approvals[j].revision <= docs[j].revision
      BY DEF DecisionsBehind
    <2>2. \A j \in Decided : approvals[j].revision \in Nat /\ docs[j].revision \in Nat
      BY <1>0, <1>4
    <2>3. ASSUME NEW j \in Decided
          PROVE  /\ approvals'[j].revision <= docs'[j].revision
                 /\ stages'[j] = "awaiting-confirmation"
                      => approvals'[j].revision < docs'[j].revision
      <3>1. CASE j = k
        BY <1>0, <1>3, <1>5, <2>1, <2>2, <3>1
      <3>2. CASE j # k
        BY <1>0, <1>2, <1>3, <1>5, <3>2 DEF DecisionsBehind
      <3>. QED BY <3>1, <3>2
    <2>. QED BY <2>3 DEF DecisionsBehind
  <1>7. PassedIsAccepted'
    BY <1>0, <1>2, <1>3, <1>5 DEF PassedIsAccepted
  <1>8. NothingOutdatedPasses'
    BY <1>0, <1>2, <1>3 DEF NothingOutdatedPasses, Predating
  <1>9. \A j \in {"requirements", "resources", "plan"} : Agreed(j) /\ k = j => Restarts(k)
    BY DEF Agreed, Restarts
  <1>10. \A j \in Decided : Agreed(j) /\ j # k => Agreed(j)'
    BY <1>0, <1>2, <1>3, <1>5 DEF Agreed
  <1>11. /\ k \in {"resources", "plan", "delivery"} => Agreed("requirements")
         /\ k \in {"plan", "delivery"} => Agreed("resources")
         /\ k = "delivery" => /\ Agreed("plan")
                              /\ stages["plan"] = "passed" /\ stages["implementation"] = "passed"
    BY DEF Submit, Gate, Approved, Confirmed, Agreed
  <1>12. Restarts(k) => \A s \in From(k) : ~Submitted(s)' \/ s = k
    BY <1>0, <1>2, FromReaches
  <1>13. InSequence'
    <2>1. Submitted("plan")' => Agreed("resources")'
      BY <1>2, <1>9, <1>10, <1>11, <1>12, FromReaches, StageNames DEF InSequence, Decided
    <2>2. ASSUME NEW s \in {"resources", "plan"}, Submitted(s)' PROVE Agreed("requirements")'
      <3>1. s # k => Submitted(s)
        BY <1>2, <2>2, StageNames
      <3>2. Agreed("requirements")
        BY <1>11, <2>2, <3>1 DEF InSequence
      <3>3. k # "requirements"
        BY <1>9, <1>12, <2>2, <3>2, FromReaches, StageNames
      <3>. QED BY <1>10, <3>2, <3>3 DEF Decided
    <2>. QED BY <2>1, <2>2 DEF InSequence
  <1>14. DeliveryIsLast'
    <2>1. CASE k = "delivery"
      BY <1>0, <1>2, <1>10, <1>11, <2>1, StageNames DEF DeliveryIsLast, Restarts, Decided
    <2>2. CASE k # "delivery"
      <3>1. Restarts(k) => "delivery" \in From(k)
        BY <1>0, FromReaches DEF Restarts
      <3>2. Submitted("delivery")' => Submitted("delivery") /\ ~Restarts(k)
        BY <1>2, <2>2, <3>1, StageNames
      <3>3. ~Restarts(k) /\ Submitted("delivery") =>
              /\ stages["plan"] = "passed" /\ stages["implementation"] = "passed"
              /\ \A j \in {"requirements", "resources", "plan"} : Agreed(j) /\ j # k
              /\ k # "implementation"
        BY <1>0, <1>9, StageNames DEF DeliveryIsLast, Kinds, Decided
      <3>. QED BY <1>2, <1>10, <3>2, <3>3, StageNames DEF DeliveryIsLast, Decided
    <2>. QED BY <2>1, <2>2
  <1>. QED BY <1>6, <1>7, <1>8, <1>13, <1>14

\* Accepting a document keeps it: the user saw the revision he accepts.
LEMMA AcceptKeeps ==
  ASSUME TypeOK, DocumentsInv, ViewIsTrue, NEW k \in Decided, Accept(k)
  PROVE  DocumentsInv'
  <1>. USE DEF Submitted, DocumentsInv
  <1>. DEFINE st == [stages EXCEPT ![k] = "passed",
                       !["review"] = IF k = "delivery" THEN "passed" ELSE @]
  <1>0. /\ stages \in [Stages -> Statuses] /\ st \in [Stages -> Statuses]
        /\ k \in Stages /\ NextStage[k] \in Stages /\ Commit(st, NextStage[k])
        /\ Decided \subseteq Kinds /\ "review" \notin Decided
    BY StageNames DEF TypeOK, Statuses, Accept, NextStage, Decided, Kinds
  <1>1. /\ stages'[k] = "passed" /\ stages[k] = "awaiting-confirmation"
        /\ \A s \in Stages \ {k, "review"} :
             /\ stages'[s] = "passed" <=> stages[s] = "passed"
             /\ stages'[s] = "awaiting-confirmation" <=> stages[s] = "awaiting-confirmation"
    <2>1. st[k] = "passed" /\ \A s \in Stages \ {k, "review"} : st[s] = stages[s]
      BY <1>0, StageNames DEF Decided
    <2>2. stages[k] = "awaiting-confirmation"
      BY DEF Accept, Reviewable
    <2>. HIDE DEF st
    <2>. QED BY <1>0, <2>1, <2>2, CommitKeeps
  <1>2. /\ docs' = docs /\ outdated' = outdated
        /\ approvals' = [approvals EXCEPT ![k] = Decision(k, TRUE)]
        /\ view.revision = docs[k].revision
    BY DEF Accept, ViewIsTrue, Current
  <1>3. /\ docs \in [Kinds -> [revision : Nat, hash : Nat, art : Nat,
                               version : Versions \cup {NoVersion}]]
        /\ approvals \in [Decided -> [revision : Nat, hash : Nat, accepted : BOOLEAN,
                                      seen : Nat]]
    BY DEF TypeOK
  <1>4. /\ approvals'[k] = Decision(k, TRUE)
        /\ \A j \in Decided \ {k} : approvals'[j] = approvals[j]
    BY <1>2, <1>3
  <1>5. DecisionsBehind'
    BY <1>0, <1>1, <1>2, <1>3, <1>4, StageNames DEF DecisionsBehind, Decision, Decided
  <1>6. PassedIsAccepted'
    <2>1. docs[k].revision > 0
      <3>1. /\ approvals[k].revision < docs[k].revision
            /\ approvals[k].revision \in Nat /\ docs[k].revision \in Nat
        BY <1>0, <1>1, <1>3 DEF DecisionsBehind
      <3>. QED BY <3>1
    <2>. QED BY <2>1, <1>0, <1>1, <1>2, <1>4, StageNames
             DEF PassedIsAccepted, Decision, Decided
  <1>7. NothingOutdatedPasses'
    BY <1>0, <1>1, <1>2, StageNames DEF NothingOutdatedPasses, Decided
  <1>8. ~Agreed(k) /\ \A j \in Decided \ {k} : Agreed(j) => Agreed(j)'
    <2>1. \A j \in Decided \ {k} :
            stages'[j] = "awaiting-confirmation" => stages[j] = "awaiting-confirmation"
      BY <1>0, <1>1, StageNames DEF Decided
    <2>. QED BY <1>1, <1>2, <1>4, <2>1 DEF Agreed
  <1>9. InSequence'
    BY <1>0, <1>1, <1>8, StageNames DEF InSequence, Decided
  <1>10. Agreed(k)'
    BY <1>0, <1>1, <1>2, <1>4, <1>6 DEF Agreed, PassedIsAccepted
  <1>11. DeliveryIsLast'
    BY <1>0, <1>1, <1>8, <1>10, StageNames DEF DeliveryIsLast, Decided
  <1>. QED BY <1>5, <1>6, <1>7, <1>9, <1>11

\* Rejecting a document keeps it: what waits has nothing resting on it.
LEMMA RejectKeeps ==
  ASSUME TypeOK, DocumentsInv, NEW k \in Decided, Reject(k)
  PROVE  DocumentsInv'
  <1>. USE DEF Submitted, DocumentsInv
  <1>0. /\ [stages EXCEPT ![k] = "in-progress"] \in [Stages -> Statuses] /\ k \in Stages
        /\ stages \in [Stages -> Statuses] /\ Decided \subseteq Kinds
        /\ Commit([stages EXCEPT ![k] = "in-progress"], k)
    BY StageNames DEF TypeOK, Statuses, Reject, Decided, Kinds
  <1>1. /\ stages[k] = "awaiting-confirmation" /\ ~Submitted(k)'
        /\ \A s \in Stages \ {k} :
             /\ stages'[s] = "passed" <=> stages[s] = "passed"
             /\ stages'[s] = "awaiting-confirmation" <=> stages[s] = "awaiting-confirmation"
    BY <1>0, CommitKeeps DEF Reject, Reviewable
  <1>2. /\ docs' = docs /\ outdated' = outdated
        /\ approvals' = [approvals EXCEPT ![k] = Decision(k, FALSE)]
    BY DEF Reject
  <1>3. /\ docs \in [Kinds -> [revision : Nat, hash : Nat, art : Nat,
                               version : Versions \cup {NoVersion}]]
        /\ approvals \in [Decided -> [revision : Nat, hash : Nat, accepted : BOOLEAN,
                                      seen : Nat]]
    BY DEF TypeOK
  <1>4. /\ approvals'[k] = Decision(k, FALSE)
        /\ \A j \in Decided \ {k} : approvals'[j] = approvals[j]
    BY <1>2, <1>3
  <1>5. DecisionsBehind'
    BY <1>0, <1>1, <1>2, <1>3, <1>4, StageNames DEF DecisionsBehind, Decision, Decided
  <1>6. PassedIsAccepted'
    <2>1. \A j \in Decided : stages'[j] = "passed" => j # k /\ stages[j] = "passed"
      BY <1>0, <1>1, StageNames DEF Decided
    <2>. QED BY <1>2, <1>4, <2>1 DEF PassedIsAccepted
  <1>7. NothingOutdatedPasses'
    BY <1>0, <1>1, <1>2, StageNames DEF NothingOutdatedPasses, Decided
  <1>8. ~Agreed(k) /\ \A j \in Decided \ {k} : Agreed(j) => Agreed(j)'
    <2>1. \A j \in Decided \ {k} :
            stages'[j] = "awaiting-confirmation" => stages[j] = "awaiting-confirmation"
      BY <1>0, <1>1, StageNames DEF Decided
    <2>. QED BY <1>1, <1>2, <1>4, <2>1 DEF Agreed
  <1>9. InSequence'
    BY <1>0, <1>1, <1>8, StageNames DEF InSequence, Decided
  <1>10. DeliveryIsLast'
    BY <1>0, <1>1, <1>8, StageNames DEF DeliveryIsLast, Decided
  <1>. QED BY <1>5, <1>6, <1>7, <1>9, <1>10

\* Every step submits a document, decides one, or takes back a closed set.
LEMMA StepShapes ==
  ASSUME TypeOK, [Next]_vars
  PROVE  \/ \E k \in Kinds : Submit(k)
         \/ \E k \in Decided : Accept(k) \/ Reject(k)
         \/ \E S \in SUBSET Stages : Demotes(S) /\ Closed(S)
  <1>. DEFINE Back == \E S \in SUBSET Stages : Demotes(S) /\ Closed(S)
  <1>0. /\ {} \in SUBSET Stages /\ Closed({})
        /\ {"review"} \in SUBSET Stages /\ Closed({"review"})
        /\ {"requirements"} \in SUBSET Stages /\ Closed({"requirements"})
        /\ {"resources"} \in SUBSET Stages /\ Closed({"resources"})
        /\ {"review", "delivery", "closeout"} \in SUBSET Stages
        /\ Closed({"review", "delivery", "closeout"})
        /\ {"implementation", "delivery", "closeout"} \in SUBSET Stages
        /\ Closed({"implementation", "delivery", "closeout"})
    BY StageNames DEF Closed
  <1>1. ASSUME Commit(stages, current), UNCHANGED <<docs, approvals, outdated>> PROVE Back
    BY <1>0, <1>1, QuietDemotes
  <1>2. ASSUME NEW s \in Stages, InvalidateFrom(s) PROVE Back
    <2>1. From(s) \in SUBSET Stages
      BY FromReaches
    <2>. QED BY <1>2, <2>1, InvalidateDemotes
  <1>3. ASSUME BackToReview PROVE Back
    BY <1>0, <1>3, ReviewDemotes
  <1>4. ASSUME UNCHANGED workVars PROVE Back
    <2>1. Demotes({})
      BY <1>4 DEF workVars, Demotes, Submitted
    <2>. QED BY <1>0, <2>1
  <1>5. ASSUME NEW k \in Kinds, SubmitAgain(k) PROVE Back
    BY <1>1, <1>5 DEF SubmitAgain
  <1>6. ASSUME NEW k \in Decided, Look(k) PROVE Back
    BY <1>4, <1>6 DEF Look
  <1>7. ASSUME NEW v \in Versions, SetVersion(v) PROVE Back
    <2>1. CASE v = version
      BY <1>1, <1>7, <2>1 DEF SetVersion
    <2>2. CASE v # version
      BY <1>0, <1>7, <2>2, VersionDemotes
    <2>. QED BY <2>1, <2>2
  <1>8. ASSUME NEW passed \in BOOLEAN, SaveTest(passed) PROVE Back
    BY <1>1, <1>8 DEF SaveTest
  <1>9. ASSUME CompleteImplementation \/ CompleteCloseout PROVE Back
    BY <1>0, <1>9, CompletionDemotes
  <1>10. ASSUME NEW status \in Reports, UpdateStage(status) PROVE Back
    BY <1>0, <1>10, ReportDemotes
  <1>11. ASSUME NEW i \in IssueScopes, SaveIssue(i) PROVE Back
    BY <1>1, <1>11 DEF SaveIssue
  <1>12. ASSUME RegisterVisual PROVE Back
    BY <1>1, <1>12 DEF RegisterVisual
  <1>13. ASSUME NEW g \in Groups, Publish(g) PROVE Back
    BY <1>1, <1>13 DEF Publish
  <1>14. ASSUME NEW g \in Groups, NEW status \in {"submitted", "cancelled", "pending"},
                Answer(g, status)
         PROVE  Back
    BY <1>2, <1>14 DEF Answer, TypeOK
  <1>15. ASSUME NEW m \in PlayerModes, SetPlayerMode(m) \/ ConfigurePlayerMode(m) PROVE Back
    BY <1>2, <1>15, StageNames DEF SetPlayerMode, ConfigurePlayerMode
  <1>16. ASSUME NEW m \in QuestionModes, ConfigureQuestionMode(m) PROVE Back
    BY <1>0, <1>16, ConfigureDemotes
  <1>17. ASSUME NEW f \in Feedbacks, NEW visual \in BOOLEAN, AddFeedback(f, visual) PROVE Back
    BY <1>2, <1>3, <1>17, StageNames DEF AddFeedback
  <1>18. ASSUME NEW f \in Feedbacks, NEW status \in {"in-progress", "awaiting-recheck"},
                UpdateFeedback(f, status)
         PROVE  Back
    BY <1>1, <1>18 DEF UpdateFeedback
  <1>19. ASSUME NEW f \in Feedbacks, Resolve(f) PROVE Back
    BY <1>1, <1>19 DEF Resolve
  <1>20. ASSUME NEW f \in Feedbacks, Reopen(f) PROVE Back
    BY <1>2, <1>3, <1>20, StageNames DEF Reopen
  <1>21. ASSUME NEW k \in Kinds, NEW c \in Contents, EditFile(k, c) PROVE Back
    BY <1>4, <1>21 DEF EditFile
  <1>22. ASSUME NEW b \in Builds, ChangeBuild(b) PROVE Back
    BY <1>4, <1>22 DEF ChangeBuild
  <1>23. ASSUME CompleteBegin \/ CompleteWrite PROVE Back
    BY <1>4, <1>23 DEF CompleteBegin, CompleteWrite
  <1>24. ASSUME NEW status \in SetStatuses, SetStatus(status) PROVE Back
    BY <1>4, <1>24 DEF SetStatus
  <1>25. CASE UNCHANGED vars
    BY <1>4, <1>25 DEF vars
  <1>27. ASSUME NEW k \in {"requirements", "resources"}, ConfigureTemplate(k) PROVE Back
    BY <1>0, <1>27, TemplateDemotes
  <1>. HIDE DEF Back
  <1>26. CASE Next
    <2>. SUFFICES ASSUME \A k \in Kinds : ~Submit(k),
                         \A k \in Decided : ~Accept(k) /\ ~Reject(k)
                  PROVE  Back
      BY DEF Back
    <2>. QED
      BY <1>5, <1>6, <1>7, <1>8, <1>9, <1>10, <1>11, <1>12, <1>13, <1>14, <1>15, <1>16,
         <1>17, <1>18, <1>19, <1>20, <1>21, <1>22, <1>23, <1>24, <1>26, <1>27 DEF Next
  <1>. QED BY <1>25, <1>26 DEF Back

-----------------------------------------------------------------------------
(* What the user sees when he decides.                                       *)

\* A step that commits makes the user's view stale; no other changes a document.
LEMMA ViewStep == TypeOK /\ ViewIsTrue /\ [Next]_vars => ViewIsTrue'
  <1>. SUFFICES ASSUME TypeOK, ViewIsTrue, [Next]_vars PROVE ViewIsTrue'
    OBVIOUS
  <1>1. view \in [kind : Decided \cup {"none"}, revision : Nat, hash : Nat, fresh : BOOLEAN]
    BY DEF TypeOK
  <1>2. ASSUME NEW st, NEW cur, Commit(st, cur) PROVE ViewIsTrue'
    BY <1>1, <1>2 DEF Commit, ViewIsTrue
  <1>3. ASSUME UNCHANGED <<view, docs>> PROVE ViewIsTrue'
    BY <1>3 DEF ViewIsTrue
  <1>4. ASSUME NEW k \in Decided, Look(k) PROVE ViewIsTrue'
    BY <1>4 DEF Look, ViewIsTrue, workVars
  <1>5. ASSUME NEW k \in Kinds, Submit(k) \/ SubmitAgain(k) PROVE ViewIsTrue'
    BY <1>2, <1>5 DEF Submit, SubmitAgain
  <1>6. ASSUME NEW k \in Decided, Accept(k) \/ Reject(k) PROVE ViewIsTrue'
    BY <1>2, <1>6 DEF Accept, Reject
  <1>7. ASSUME NEW v \in Versions, SetVersion(v) PROVE ViewIsTrue'
    BY <1>2, <1>7 DEF SetVersion
  <1>8. ASSUME NEW passed \in BOOLEAN, SaveTest(passed) PROVE ViewIsTrue'
    BY <1>2, <1>8 DEF SaveTest
  <1>9. ASSUME CompleteImplementation \/ CompleteCloseout PROVE ViewIsTrue'
    BY <1>2, <1>9 DEF CompleteImplementation, CompleteCloseout
  <1>10. ASSUME NEW status \in Reports, UpdateStage(status) PROVE ViewIsTrue'
    BY <1>2, <1>10 DEF UpdateStage
  <1>11. ASSUME NEW i \in IssueScopes, SaveIssue(i) PROVE ViewIsTrue'
    BY <1>2, <1>11 DEF SaveIssue
  <1>12. ASSUME RegisterVisual PROVE ViewIsTrue'
    BY <1>2, <1>12 DEF RegisterVisual
  <1>13. ASSUME NEW g \in Groups, Publish(g) PROVE ViewIsTrue'
    BY <1>2, <1>13 DEF Publish
  <1>14. ASSUME NEW g \in Groups, NEW status \in {"submitted", "cancelled", "pending"},
                Answer(g, status)
         PROVE  ViewIsTrue'
    BY <1>2, <1>14 DEF Answer, InvalidateFrom
  <1>15. ASSUME NEW m \in PlayerModes, SetPlayerMode(m) \/ ConfigurePlayerMode(m)
         PROVE  ViewIsTrue'
    BY <1>2, <1>15 DEF SetPlayerMode, ConfigurePlayerMode, InvalidateFrom
  <1>16. ASSUME NEW m \in QuestionModes, ConfigureQuestionMode(m) PROVE ViewIsTrue'
    BY <1>2, <1>16 DEF ConfigureQuestionMode
  <1>17. ASSUME NEW f \in Feedbacks, NEW visual \in BOOLEAN, AddFeedback(f, visual)
         PROVE  ViewIsTrue'
    BY <1>2, <1>17 DEF AddFeedback, InvalidateFrom, BackToReview
  <1>18. ASSUME NEW f \in Feedbacks, NEW status \in {"in-progress", "awaiting-recheck"},
                UpdateFeedback(f, status)
         PROVE  ViewIsTrue'
    BY <1>2, <1>18 DEF UpdateFeedback
  <1>19. ASSUME NEW f \in Feedbacks, Resolve(f) \/ Reopen(f) PROVE ViewIsTrue'
    BY <1>2, <1>19 DEF Resolve, Reopen, InvalidateFrom, BackToReview
  <1>20. ASSUME NEW k \in Kinds, NEW c \in Contents, EditFile(k, c) PROVE ViewIsTrue'
    BY <1>3, <1>20 DEF EditFile, workVars
  <1>21. ASSUME NEW b \in Builds, ChangeBuild(b) PROVE ViewIsTrue'
    BY <1>3, <1>21 DEF ChangeBuild, workVars
  <1>22. ASSUME CompleteBegin \/ CompleteWrite PROVE ViewIsTrue'
    BY <1>3, <1>22 DEF CompleteBegin, CompleteWrite, workVars
  <1>23. ASSUME NEW status \in SetStatuses, SetStatus(status) PROVE ViewIsTrue'
    BY <1>3, <1>23 DEF SetStatus, workVars
  <1>24. CASE UNCHANGED vars
    BY <1>3, <1>24 DEF vars, workVars
  <1>25. ASSUME NEW k \in {"requirements", "resources"}, ConfigureTemplate(k) PROVE ViewIsTrue'
    BY <1>2, <1>25 DEF ConfigureTemplate
  <1>. QED
    BY <1>4, <1>5, <1>6, <1>7, <1>8, <1>9, <1>10, <1>11, <1>12, <1>13, <1>14, <1>15, <1>16,
       <1>17, <1>18, <1>19, <1>20, <1>21, <1>22, <1>23, <1>24, <1>25 DEF Next

\* What is known of the documents is kept by every step.
LEMMA DocumentsStep ==
  TypeOK /\ DocumentsInv /\ ViewIsTrue /\ [Next]_vars => DocumentsInv'
BY StepShapes, SubmitKeeps, AcceptKeeps, RejectKeeps, DemotesKeep

\* It holds at the start, where nothing is submitted.
LEMMA DocumentsInit == Init => DocumentsInv /\ ViewIsTrue
BY StageNames DEF Init, DocumentsInv, DecisionsBehind, PassedIsAccepted, NothingOutdatedPasses,
   InSequence, DeliveryIsLast, Agreed, Submitted, ViewIsTrue, NoView, Decided, Kinds

\* The inductive invariant of the documents.
LEMMA DocumentsHold == Spec => [](TypeOK /\ DocumentsInv /\ ViewIsTrue)
  <1>1. Init => TypeOK /\ DocumentsInv /\ ViewIsTrue
    BY TypeInit, DocumentsInit
  <1>2. TypeOK /\ DocumentsInv /\ ViewIsTrue /\ [Next]_vars
          => (TypeOK /\ DocumentsInv /\ ViewIsTrue)'
    BY TypeStep, DocumentsStep, ViewStep
  <1>. QED BY <1>1, <1>2, PTL DEF Spec

\* What has passed was accepted by the user, in the revision and with the
\* content it has, and he had that revision before him (PassedIsAccepted).
THEOREM AcceptedByUser == Spec => []PassedIsAccepted
  <1>1. DocumentsInv => PassedIsAccepted
    BY DEF DocumentsInv
  <1>. QED BY <1>1, DocumentsHold, PTL

\* Nothing submitted predates a change it rests on (NothingOutdatedPasses).
THEOREM OutdatedIsReset == Spec => []NothingOutdatedPasses
  <1>1. DocumentsInv => NothingOutdatedPasses
    BY DEF DocumentsInv
  <1>. QED BY <1>1, DocumentsHold, PTL

\* A delivery stands on a plan and an implementation that have passed and on
\* documents the user has accepted as they are (DeliveryIsLast).
THEOREM DeliveryStands == Spec => []DeliveryIsLast
  <1>1. DocumentsInv => DeliveryIsLast
    BY DEF DocumentsInv
  <1>. QED BY <1>1, DocumentsHold, PTL

-----------------------------------------------------------------------------
(* Feedback, questions and decisions.                                        *)

Asked == DeliveryAnswersFeedback /\ PassedIsAnswered

\* What takes documents back and touches no feedback, question or version keeps
\* the deliveries and the passed stages free of them.
LEMMA AskedKeep ==
  ASSUME TypeOK, Asked, NEW S \in SUBSET Stages, Demotes(S),
         UNCHANGED <<feedback, version, groups>>
  PROVE  Asked'
  <1>1. DeliveryAnswersFeedback'
    BY DEF Asked, DeliveryAnswersFeedback, Demotes, Decided, Unresolved
  <1>2. PassedIsAnswered'
    BY DEF Asked, PassedIsAnswered, Demotes, NoPending, Submitted
  <1>. QED BY <1>1, <1>2 DEF Asked

\* A commit of unchanged stages, with no feedback, question or version changed.
LEMMA QuietAsked ==
  ASSUME TypeOK, Asked, CurrentOpen, Commit(stages, current),
         UNCHANGED <<docs, approvals, outdated, feedback, version, groups>>
  PROVE  Asked' /\ CurrentOpen'
  <1>1. Demotes({}) /\ {} \in SUBSET Stages
    BY QuietDemotes
  <1>2. Asked'
    BY <1>1, AskedKeep
  <1>3. CurrentOpen'
    BY StageMaps, CommitKeeps, StageNames DEF CurrentOpen, Decided
  <1>. QED BY <1>2, <1>3

\* The stage an answer or visual feedback reopens is the current one, and open.
LEMMA InvalidateOpens ==
  ASSUME TypeOK, NEW s \in Stages, InvalidateFrom(s)
  PROVE  /\ CurrentOpen' /\ ~Submitted(s)'
         /\ \A t \in Decided : stages'[t] = "passed" => stages[t] = "passed"
  <1>1. Reopened(s) \in [Stages -> Statuses] /\ Commit(Reopened(s), s)
    BY StageMaps DEF InvalidateFrom
  <1>2. \A t \in Stages : Reopened(s)[t] = IF t = s THEN "in-progress"
                            ELSE IF t \in From(s) THEN "not-started" ELSE stages[t]
    BY ResetTypes DEF Reopened
  <1>3. /\ current' = s /\ ~Submitted(s)'
        /\ \A t \in Stages : stages'[t] = "passed" => stages[t] = "passed"
    BY <1>1, <1>2, CommitKeeps DEF Submitted
  <1>. QED BY <1>3, StageNames DEF CurrentOpen, Submitted, Decided

\* Submitting a document: the delivery is gated on feedback and version.
LEMMA SubmitAsked ==
  ASSUME TypeOK, DocumentsInv, Asked, CurrentOpen, NEW k \in Kinds, Submit(k)
  PROVE  Asked' /\ CurrentOpen'
  <1>0. /\ k \in Stages /\ Kinds \subseteq Stages /\ Decided \subseteq Kinds
        /\ SubmittedStages(k) \in [Stages -> Statuses] /\ Commit(SubmittedStages(k), k)
    BY StageMaps, StageNames DEF Kinds, Decided, Submit
  <1>1. \A s \in Stages : SubmittedStages(k)[s] =
          IF s = k THEN IF k = "closeout" THEN "in-progress" ELSE "awaiting-confirmation"
          ELSE IF Restarts(k) /\ s \in From(k) THEN "not-started" ELSE stages[s]
    BY <1>0, ResetTypes DEF SubmittedStages, TypeOK
  <1>2. /\ stages'[k] # "passed" /\ current' = k
        /\ \A s \in Stages \ {k} : Submitted(s)' => stages'[s] = stages[s]
    BY <1>0, <1>1, CommitKeeps DEF Submitted
  <1>3. /\ docs' = [docs EXCEPT ![k] = Document(k)]
        /\ UNCHANGED <<feedback, version, groups>>
    BY DEF Submit, noteVars, gameVars, askVars
  <1>4. DeliveryAnswersFeedback'
    <2>1. CASE k = "delivery"
      <3>1. \A f \in Feedbacks : ~Unresolved(f)
        BY <2>1 DEF Submit, Gate
      <3>2. docs'["delivery"].version = version
        BY <1>3, <2>1 DEF Document, TypeOK
      <3>. QED BY <1>3, <3>1, <3>2 DEF DeliveryAnswersFeedback, Unresolved
    <2>2. CASE k # "delivery"
      <3>1. docs'["delivery"] = docs["delivery"] /\ (Submitted("delivery")' => Submitted("delivery"))
        BY <1>0, <1>2, <1>3, <2>2, StageNames DEF Submitted, Kinds, Decided, TypeOK
      <3>. QED BY <1>3, <3>1 DEF Asked, DeliveryAnswersFeedback, Unresolved
    <2>. QED BY <2>1, <2>2
  <1>5. PassedIsAnswered'
    BY <1>0, <1>2, <1>3 DEF Asked, PassedIsAnswered, NoPending, Submitted
  <1>6. CurrentOpen'
    BY <1>2 DEF CurrentOpen
  <1>. QED BY <1>4, <1>5, <1>6 DEF Asked

\* Accepting a document: its stage has no question, and the next is still open.
LEMMA AcceptAsked ==
  ASSUME TypeOK, DocumentsInv, Asked, CurrentOpen, NEW k \in Decided, Accept(k)
  PROVE  Asked' /\ CurrentOpen'
  <1>. DEFINE st == [stages EXCEPT ![k] = "passed",
                       !["review"] = IF k = "delivery" THEN "passed" ELSE @]
  <1>0. /\ stages \in [Stages -> Statuses] /\ st \in [Stages -> Statuses]
        /\ k \in Stages /\ NextStage[k] \in Stages /\ Commit(st, NextStage[k])
    BY StageNames DEF TypeOK, Statuses, Accept, NextStage, Decided
  <1>1. /\ stages[k] = "awaiting-confirmation" /\ NoPending(k)
        /\ UNCHANGED <<docs, feedback, version, groups>>
    BY DEF Accept, Reviewable, Gate, Clear, gameVars, noteVars, askVars
  <1>2. /\ \A s \in Stages \ {k, "review"} :
             /\ stages'[s] = "passed" <=> stages[s] = "passed"
             /\ stages'[s] = "awaiting-confirmation" <=> stages[s] = "awaiting-confirmation"
        /\ current' = NextStage[k]
    <2>1. \A s \in Stages \ {k, "review"} : st[s] = stages[s]
      BY <1>0, StageNames DEF Decided
    <2>. HIDE DEF st
    <2>. QED BY <1>0, <2>1, CommitKeeps
  <1>3. DeliveryAnswersFeedback'
    BY <1>0, <1>1, <1>2, StageNames DEF Asked, DeliveryAnswersFeedback, Submitted, Unresolved, Decided
  <1>4. PassedIsAnswered'
    BY <1>0, <1>1, <1>2, StageNames DEF Asked, PassedIsAnswered, NoPending, Decided
  <1>5. CurrentOpen'
    <2>1. /\ k = "requirements" => stages["resources"] # "passed"
          /\ k = "resources" => stages["plan"] # "passed"
      BY <1>1 DEF DocumentsInv, InSequence, Submitted, Agreed
    <2>2. NextStage[k] \in Decided =>
            \/ k = "requirements" /\ NextStage[k] = "resources"
            \/ k = "resources" /\ NextStage[k] = "plan"
      BY DEF NextStage, Decided
    <2>. QED BY <1>2, <2>1, <2>2, StageNames DEF CurrentOpen, Decided
  <1>. QED BY <1>3, <1>4, <1>5 DEF Asked

\* Rejecting a document takes it back and makes its stage the current one.
LEMMA RejectAsked ==
  ASSUME TypeOK, Asked, CurrentOpen, NEW k \in Decided, Reject(k)
  PROVE  Asked' /\ CurrentOpen'
  <1>0. /\ [stages EXCEPT ![k] = "in-progress"] \in [Stages -> Statuses] /\ k \in Stages
        /\ stages \in [Stages -> Statuses]
        /\ Commit([stages EXCEPT ![k] = "in-progress"], k)
    BY StageNames DEF TypeOK, Statuses, Reject, Decided
  <1>1. /\ ~Submitted(k)' /\ current' = k
        /\ \A s \in Stages \ {k} :
             /\ stages'[s] = "passed" <=> stages[s] = "passed"
             /\ stages'[s] = "awaiting-confirmation" <=> stages[s] = "awaiting-confirmation"
        /\ UNCHANGED <<docs, feedback, version, groups>>
    BY <1>0, CommitKeeps DEF Reject, Submitted, gameVars, noteVars, askVars
  <1>2. DeliveryAnswersFeedback'
    BY <1>1, StageNames DEF Asked, DeliveryAnswersFeedback, Submitted, Unresolved
  <1>3. PassedIsAnswered'
    BY <1>1, StageNames DEF Asked, PassedIsAnswered, NoPending, Submitted, Decided
  <1>4. CurrentOpen'
    BY <1>1 DEF CurrentOpen, Submitted
  <1>. QED BY <1>2, <1>3, <1>4 DEF Asked

\* The agent's questions, the user's answers and the settings they serve.
LEMMA QuestionsAsked ==
  ASSUME TypeOK, Asked, CurrentOpen,
         \/ \E g \in Groups : Publish(g)
         \/ \E g \in Groups, status \in {"submitted", "cancelled", "pending"} :
              Answer(g, status)
         \/ \E m \in PlayerModes : SetPlayerMode(m) \/ ConfigurePlayerMode(m)
         \/ \E m \in QuestionModes : ConfigureQuestionMode(m)
         \/ \E k \in {"requirements", "resources"} : ConfigureTemplate(k)
  PROVE  Asked' /\ CurrentOpen'
  <1>0. groups \in [Groups -> [stage : Stages,
                               status : {"absent", "pending", "submitted", "cancelled"}]]
    BY DEF TypeOK
  <1>1. ASSUME NEW g \in Groups, Publish(g) PROVE Asked' /\ CurrentOpen'
    <2>1. /\ Demotes({}) /\ UNCHANGED <<feedback, version>>
          /\ groups' = [groups EXCEPT ![g] = [stage |-> current, status |-> "pending"]]
          /\ Commit(stages, current)
      BY <1>1, QuietDemotes DEF Publish, noteVars, gameVars
    <2>2. DeliveryAnswersFeedback'
      BY <2>1 DEF Asked, DeliveryAnswersFeedback, Demotes, Decided, Unresolved
    <2>3. CurrentOpen'
      BY <2>1, StageMaps, CommitKeeps, StageNames DEF CurrentOpen, Decided
    <2>4. PassedIsAnswered'
      <3>1. \A k \in Decided : stages'[k] = "passed" => stages[k] = "passed" /\ k # current
        BY <2>1, StageMaps, CommitKeeps, StageNames DEF CurrentOpen, Decided
      <3>. QED BY <1>0, <2>1, <3>1 DEF Asked, PassedIsAnswered, NoPending
    <2>. QED BY <2>2, <2>3, <2>4 DEF Asked
  <1>2. ASSUME NEW g \in Groups, NEW status \in {"submitted", "cancelled", "pending"},
               Answer(g, status)
        PROVE  Asked' /\ CurrentOpen'
    <2>. DEFINE s == groups[g].stage
    <2>1. /\ s \in Stages /\ InvalidateFrom(s) /\ UNCHANGED <<feedback, version>>
          /\ groups' = [groups EXCEPT ![g].status = status]
      BY <1>0, <1>2 DEF Answer, noteVars, gameVars
    <2>2. Demotes(From(s)) /\ CurrentOpen' /\ ~Submitted(s)'
          /\ \A t \in Decided : stages'[t] = "passed" => stages[t] = "passed"
      BY <2>1, InvalidateDemotes, InvalidateOpens
    <2>3. DeliveryAnswersFeedback'
      BY <2>1, <2>2 DEF Asked, DeliveryAnswersFeedback, Demotes, Decided, Unresolved
    <2>4. \A h \in Groups : /\ groups'[h].stage = groups[h].stage
                            /\ h # g => groups'[h] = groups[h]
      BY <1>0, <2>1
    <2>5. PassedIsAnswered'
      BY <2>2, <2>4 DEF Asked, PassedIsAnswered, NoPending, Submitted
    <2>. QED BY <2>2, <2>3, <2>5 DEF Asked
  <1>3. \A h \in Groups : /\ Cancelled[h].stage = groups[h].stage
                          /\ Cancelled[h].status = "pending" => groups[h].status = "pending"
    BY <1>0 DEF Cancelled
  <1>4. ASSUME NEW m \in PlayerModes, SetPlayerMode(m) \/ ConfigurePlayerMode(m)
        PROVE  Asked' /\ CurrentOpen'
    <2>1. /\ InvalidateFrom("requirements") /\ UNCHANGED <<feedback, version>>
          /\ groups' = Cancelled \/ groups' = groups
      BY <1>4 DEF SetPlayerMode, ConfigurePlayerMode, noteVars, gameVars
    <2>2. Demotes(From("requirements")) /\ CurrentOpen'
      BY <2>1, InvalidateDemotes, InvalidateOpens, StageNames
    <2>3. DeliveryAnswersFeedback'
      BY <2>1, <2>2 DEF Asked, DeliveryAnswersFeedback, Demotes, Decided, Unresolved
    <2>4. PassedIsAnswered'
      BY <2>2, FromReaches, StageNames DEF PassedIsAnswered, Demotes, Submitted, Decided
    <2>. QED BY <2>2, <2>3, <2>4 DEF Asked
  <1>5. ASSUME NEW m \in QuestionModes, ConfigureQuestionMode(m) PROVE Asked' /\ CurrentOpen'
    <2>1. /\ Demotes({}) \/ Demotes({"requirements"})
          /\ UNCHANGED <<feedback, version>> /\ (groups' = Cancelled \/ groups' = groups)
      BY <1>5, ConfigureDemotes DEF ConfigureQuestionMode, noteVars, gameVars
    <2>2. DeliveryAnswersFeedback'
      BY <2>1 DEF Asked, DeliveryAnswersFeedback, Demotes, Decided, Unresolved
    <2>3. PassedIsAnswered'
      <3>1. \A t \in Decided : stages'[t] = "passed" => stages[t] = "passed"
        BY <2>1 DEF Demotes, Submitted
      <3>. QED BY <1>3, <2>1, <3>1 DEF Asked, PassedIsAnswered, NoPending
    <2>4. CurrentOpen'
      <3>1. CASE Commit(stages, current)
        BY <3>1, StageMaps, CommitKeeps, StageNames DEF CurrentOpen, Decided
      <3>2. CASE Commit([stages EXCEPT !["requirements"] = "in-progress"], "requirements")
        BY <1>5, <3>2, ReopenDemotes, StageNames DEF ConfigureQuestionMode, CurrentOpen
      <3>. QED BY <1>5, <3>1, <3>2 DEF ConfigureQuestionMode
    <2>. QED BY <2>2, <2>3, <2>4 DEF Asked
  <1>6. ASSUME NEW k \in {"requirements", "resources"}, ConfigureTemplate(k)
        PROVE  Asked' /\ CurrentOpen'
    <2>1. UNCHANGED <<docs, approvals, outdated, feedback, version, groups>>
      BY <1>6 DEF ConfigureTemplate, noteVars, gameVars, askVars
    <2>2. CASE docs[k].revision > 0
      <3>1. k \in Stages /\ Commit([stages EXCEPT ![k] = "in-progress"], k)
        BY <1>6, <2>2, StageNames DEF ConfigureTemplate
      <3>2. Demotes({k}) /\ {k} \in SUBSET Stages /\ CurrentOpen'
        BY <2>1, <3>1, ReopenDemotes DEF CurrentOpen
      <3>. QED BY <2>1, <3>2, AskedKeep
    <2>3. CASE ~(docs[k].revision > 0)
      BY <1>6, <2>1, <2>3, QuietAsked DEF ConfigureTemplate
    <2>. QED BY <2>2, <2>3
  <1>. QED BY <1>1, <1>2, <1>4, <1>5, <1>6

\* The user's feedback and the agent's answers to it.
LEMMA FeedbackAsked ==
  ASSUME TypeOK, Asked, CurrentOpen,
         \/ \E f \in Feedbacks, visual \in BOOLEAN : AddFeedback(f, visual)
         \/ \E f \in Feedbacks, status \in {"in-progress", "awaiting-recheck"} :
              UpdateFeedback(f, status)
         \/ \E f \in Feedbacks : Resolve(f) \/ Reopen(f)
  PROVE  Asked' /\ CurrentOpen'
  <1>1. ASSUME InvalidateFrom("resources") \/ BackToReview, UNCHANGED groups
        PROVE  Asked' /\ CurrentOpen'
    <2>1. /\ Demotes(From("resources")) \/ Demotes({"review", "delivery", "closeout"})
          /\ "delivery" \in From("resources") /\ "resources" \in Stages
      BY <1>1, InvalidateDemotes, ReviewDemotes, FromReaches, StageNames
    <2>2. ~Submitted("delivery")'
      BY <2>1 DEF Demotes, Decided
    <2>3. DeliveryAnswersFeedback'
      BY <2>2 DEF DeliveryAnswersFeedback
    <2>4. PassedIsAnswered'
      BY <1>1, <2>1 DEF Asked, PassedIsAnswered, Demotes, Submitted, NoPending
    <2>5. CASE InvalidateFrom("resources")
      BY <2>1, <2>3, <2>4, <2>5, InvalidateOpens DEF Asked
    <2>6. CASE BackToReview
      <3>1. current' = "review"
        BY <2>6 DEF BackToReview, Commit
      <3>. QED BY <2>3, <2>4, <3>1 DEF Asked, CurrentOpen, Decided
    <2>. QED BY <1>1, <2>5, <2>6
  <1>2. ASSUME NEW f \in Feedbacks, NEW visual \in BOOLEAN, AddFeedback(f, visual)
        PROVE  Asked' /\ CurrentOpen'
    BY <1>1, <1>2 DEF AddFeedback, askVars
  <1>3. ASSUME NEW f \in Feedbacks, Reopen(f) PROVE Asked' /\ CurrentOpen'
    BY <1>1, <1>3 DEF Reopen, askVars
  <1>4. ASSUME NEW f \in Feedbacks, Resolve(f) \/ \E status \in {"in-progress", "awaiting-recheck"} :
                                                   UpdateFeedback(f, status)
        PROVE  Asked' /\ CurrentOpen'
    <2>1. /\ Demotes({}) /\ UNCHANGED <<version, groups>> /\ Commit(stages, current)
          /\ Unresolved(f)
      BY <1>4, QuietDemotes DEF Resolve, UpdateFeedback, gameVars, askVars, Unresolved
    <2>2. ~Submitted("delivery")'
      BY <2>1 DEF Asked, DeliveryAnswersFeedback, Demotes, Decided
    <2>3. PassedIsAnswered'
      BY <2>1 DEF Asked, PassedIsAnswered, Demotes, Submitted, NoPending
    <2>4. CurrentOpen'
      BY <2>1, StageMaps, CommitKeeps, StageNames DEF CurrentOpen, Decided
    <2>. QED BY <2>2, <2>3, <2>4 DEF Asked, DeliveryAnswersFeedback
  <1>. QED BY <1>2, <1>3, <1>4

\* The versions of the game, their tests, and the stages without a decision.
LEMMA GameAsked ==
  ASSUME TypeOK, Asked, CurrentOpen,
         \/ \E v \in Versions : SetVersion(v)
         \/ \E passed \in BOOLEAN : SaveTest(passed)
         \/ CompleteImplementation \/ CompleteCloseout
         \/ \E status \in Reports : UpdateStage(status)
  PROVE  Asked' /\ CurrentOpen'
  <1>. USE StageNames
  <1>1. ASSUME NEW v \in Versions, SetVersion(v) PROVE Asked' /\ CurrentOpen'
    <2>1. CASE v = version
      BY <1>1, <2>1, QuietAsked DEF SetVersion, noteVars, askVars
    <2>2. CASE v # version
      <3>1. /\ Demotes({"implementation", "delivery", "closeout"}) /\ groups' = groups
            /\ Commit(ForNewVersion, current)
        BY <1>1, <2>2, VersionDemotes DEF SetVersion, askVars
      <3>2. DeliveryAnswersFeedback'
        BY <3>1 DEF DeliveryAnswersFeedback, Demotes, Decided
      <3>3. PassedIsAnswered'
        BY <3>1 DEF Asked, PassedIsAnswered, Demotes, Submitted, NoPending
      <3>4. CurrentOpen'
        BY <3>1 DEF CurrentOpen, Demotes, Submitted, Commit
      <3>. QED BY <3>2, <3>3, <3>4 DEF Asked
    <2>. QED BY <2>1, <2>2
  <1>2. ASSUME NEW passed \in BOOLEAN, SaveTest(passed) PROVE Asked' /\ CurrentOpen'
    BY <1>2, QuietAsked DEF SaveTest, noteVars, askVars
  <1>3. ASSUME NEW S \in SUBSET Stages, Demotes(S), UNCHANGED <<feedback, version, groups>>,
               current' \in Decided => current' = current
        PROVE  Asked' /\ CurrentOpen'
    BY <1>3, AskedKeep DEF CurrentOpen, Demotes, Submitted
  <1>4. ASSUME CompleteImplementation \/ CompleteCloseout PROVE Asked' /\ CurrentOpen'
    <2>1. /\ Demotes({"review"}) /\ UNCHANGED <<feedback, version, groups>>
          /\ current' \in {"review", "closeout"}
      BY <1>4, CompletionDemotes
         DEF CompleteImplementation, CompleteCloseout, Commit, gameVars, askVars, noteVars
    <2>. QED BY <1>3, <2>1 DEF Decided
  <1>5. ASSUME NEW status \in Reports, UpdateStage(status) PROVE Asked' /\ CurrentOpen'
    BY <1>3, <1>5, ReportDemotes DEF UpdateStage, Commit, gameVars, askVars, noteVars
  <1>. QED BY <1>1, <1>2, <1>4, <1>5

\* Every step keeps what is known of feedback, questions and the current stage.
LEMMA TaskStep ==
  TypeOK /\ DocumentsInv /\ Asked /\ CurrentOpen /\ [Next]_vars => Asked' /\ CurrentOpen'
  <1>. SUFFICES ASSUME TypeOK, DocumentsInv, Asked, CurrentOpen, [Next]_vars
                PROVE  Asked' /\ CurrentOpen'
    OBVIOUS
  <1>1. ASSUME UNCHANGED <<stages, current, docs, feedback, version, groups>>
        PROVE  Asked' /\ CurrentOpen'
    BY <1>1 DEF Asked, DeliveryAnswersFeedback, PassedIsAnswered, CurrentOpen, Submitted,
                Unresolved, NoPending
  <1>2. ASSUME NEW k \in Kinds, Submit(k) \/ SubmitAgain(k) PROVE Asked' /\ CurrentOpen'
    BY <1>2, SubmitAsked, QuietAsked DEF SubmitAgain, noteVars, gameVars, askVars
  <1>3. ASSUME NEW k \in Decided, Look(k) \/ Accept(k) \/ Reject(k)
        PROVE  Asked' /\ CurrentOpen'
    <2>1. ASSUME Look(k) PROVE Asked' /\ CurrentOpen'
      BY <1>1, <2>1 DEF Look, workVars, noteVars, gameVars, askVars
    <2>. QED BY <1>3, <2>1, AcceptAsked, RejectAsked
  <1>4. ASSUME NEW i \in IssueScopes, SaveIssue(i) PROVE Asked' /\ CurrentOpen'
    BY <1>4, QuietAsked DEF SaveIssue, gameVars, askVars
  <1>5. ASSUME RegisterVisual PROVE Asked' /\ CurrentOpen'
    BY <1>5, QuietAsked DEF RegisterVisual, gameVars, askVars
  <1>6. ASSUME NEW k \in Kinds, NEW c \in Contents, EditFile(k, c) PROVE Asked' /\ CurrentOpen'
    BY <1>1, <1>6 DEF EditFile, workVars, noteVars, gameVars, askVars
  <1>7. ASSUME NEW b \in Builds, ChangeBuild(b) PROVE Asked' /\ CurrentOpen'
    BY <1>1, <1>7 DEF ChangeBuild, workVars, noteVars, gameVars, askVars
  <1>8. ASSUME CompleteBegin \/ CompleteWrite PROVE Asked' /\ CurrentOpen'
    BY <1>1, <1>8 DEF CompleteBegin, CompleteWrite, workVars, noteVars, gameVars, askVars
  <1>9. ASSUME NEW status \in SetStatuses, SetStatus(status)
        PROVE  Asked' /\ CurrentOpen'
    BY <1>1, <1>9 DEF SetStatus, workVars, noteVars, gameVars, askVars
  <1>10. CASE UNCHANGED vars
    BY <1>1, <1>10 DEF vars, workVars, noteVars, gameVars, askVars
  <1>. QED
    BY <1>2, <1>3, <1>4, <1>5, <1>6, <1>7, <1>8, <1>9, <1>10, QuestionsAsked, FeedbackAsked,
       GameAsked DEF Next

\* The inductive invariant IInv holds at the start and is kept by every step.
LEMMA Invariant == Spec => []IInv
  <1>1. Init => IInv
    <2>1. Init => Asked /\ CurrentOpen
      BY StageNames DEF Init, Asked, DeliveryAnswersFeedback, PassedIsAnswered, CurrentOpen,
         Submitted, Decided
    <2>. QED BY <2>1, TypeInit, DocumentsInit DEF IInv, TaskInv, Asked
  <1>2. IInv /\ [Next]_vars => IInv'
    BY TypeStep, DocumentsStep, ViewStep, TaskStep DEF IInv, TaskInv, Asked
  <1>. QED BY <1>1, <1>2, PTL DEF Spec

\* No feedback of the user is open under a delivery, and the delivery names the
\* present version of the game (DeliveryAnswersFeedback).
THEOREM FeedbackFirst == Spec => []DeliveryAnswersFeedback
  <1>1. IInv => DeliveryAnswersFeedback
    BY DEF IInv, TaskInv
  <1>. QED BY <1>1, Invariant, PTL

\* A stage that has passed has no question left to answer (PassedIsAnswered).
THEOREM AnsweredFirst == Spec => []PassedIsAnswered
  <1>1. IInv => PassedIsAnswered
    BY DEF IInv, TaskInv
  <1>. QED BY <1>1, Invariant, PTL

-----------------------------------------------------------------------------
(* Decisions.                                                                *)

\* Only accepting and rejecting change a decision, and both give the document's
\* present revision, which waited and so had none.
LEMMA DecisionStep ==
  ASSUME IInv, [Next]_vars
  PROVE  \A k \in Decided :
           approvals'[k].revision = approvals[k].revision => approvals'[k] = approvals[k]
  <1>1. CASE \E k \in Decided : Accept(k) \/ Reject(k)
    <2>1. PICK j \in Decided : Accept(j) \/ Reject(j)
      BY <1>1
    <2>2. /\ stages[j] = "awaiting-confirmation"
          /\ \E accepted \in BOOLEAN :
               approvals' = [approvals EXCEPT ![j] = Decision(j, accepted)]
      BY <2>1 DEF Accept, Reject, Reviewable
    <2>3. /\ approvals[j].revision < docs[j].revision
          /\ approvals[j].revision \in Nat /\ docs[j].revision \in Nat
      <3>1. TypeOK /\ DecisionsBehind /\ j \in Kinds
        BY DEF IInv, DocumentsInv, Kinds
      <3>2. approvals[j].revision \in Nat /\ docs[j].revision \in Nat
        BY <3>1 DEF TypeOK
      <3>. QED BY <2>2, <3>1, <3>2 DEF DecisionsBehind
    <2>4. approvals'[j].revision = docs[j].revision
      BY <2>2 DEF IInv, TypeOK, Decision
    <2>5. \A k \in Decided \ {j} : approvals'[k] = approvals[k]
      BY <2>2 DEF IInv, TypeOK
    <2>. QED BY <2>3, <2>4, <2>5
  <1>2. CASE ~\E k \in Decided : Accept(k) \/ Reject(k)
    <2>1. approvals' = approvals
      BY <1>2, StepShapes DEF IInv, Submit, Demotes
    <2>. QED BY <2>1
  <1>. QED BY <1>1, <1>2

\* The user's word on a revision is never replaced by another one (DecidedOnce).
THEOREM OneDecision == Spec => DecidedOnce
  <1>1. IInv /\ [Next]_vars =>
          [\A k \in Decided :
             approvals'[k].revision = approvals[k].revision => approvals'[k] = approvals[k]]_vars
    BY DecisionStep
  <1>. QED BY <1>1, Invariant, PTL DEF Spec, DecidedOnce

=============================================================================
