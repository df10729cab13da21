------------------------- MODULE ProductionWorkflow -------------------------
(***************************************************************************)
(* The production record of one development task (tasks/production), as the  *)
(* agent and the user change it: documents submitted, decided and revised,   *)
(* questions, versions of the game, required tests, feedback, and the task's *)
(* own status.                                                               *)
(*                                                                           *)
(* Every change is one production_commit: the record is loaded, checked      *)
(* against the revision the caller had read, changed and written under the   *)
(* database lock, so it is one step here.  A call made with an older         *)
(* revision changes nothing and is left out, except the user's decision,     *)
(* which says what the user had on the screen (view).  The record's revision *)
(* is only ever compared with one read before, so view.fresh stands for it.  *)
(*                                                                           *)
(* The bundled policy 2.1.0 is modelled (iterationMode human-feedback, an    *)
(* approval for resources); policies pinned by older tasks are not.  The     *)
(* required tests are one test with its evidence, the visuals one group; an  *)
(* issue is the stages it affects and the operations it blocks there.  Of a  *)
(* template only its change is modelled.  Knowledge and exports are left out. *)
(***************************************************************************)
EXTENDS Naturals, FiniteSets

CONSTANTS
  Versions, NoVersion,  \* ids the agent may give a version of the game
  Builds,               \* what the archive and the player may contain on disk
  Contents,             \* what the file of a document may contain
  Groups,               \* ids of question groups
  Feedbacks,            \* ids of feedback entries
  IssueScopes,          \* what a required issue may affect and block
  SetStatuses,          \* statuses the user gives the task besides completed
  QuestionModes,        \* whether the agent may ask questions, as the user chooses
  PlayerModes,          \* choices of the number of players
  Reports,              \* what the agent may report on the current stage
  MaxRevision,          \* bound: revisions of the document of each kind
  MaxVisuals,           \* bound: visuals registered
  MaxEdits              \* bound: changes made to files behind the record

ASSUME ConstantsAssumption ==
  /\ NoVersion \notin Versions
  /\ 1 \in Builds /\ Builds \subseteq Nat
  /\ 1 \in Contents /\ Contents \subseteq Nat \ {0}
  /\ SetStatuses \subseteq {"active", "archived"}
  /\ QuestionModes \subseteq {"ask", "no-followup"}
  /\ PlayerModes \subseteq {"unspecified", "single", "multiplayer"}
  /\ "unspecified" \in PlayerModes
  /\ Reports \subseteq {"in-progress", "blocked", "stopped"}
  /\ MaxVisuals \in Nat /\ MaxEdits \in Nat

VARIABLES
  task,          \* the task's status
  completing,    \* set_status has checked the record and not yet written
  stages,        \* status of each stage
  current,       \* current_stage
  docs,          \* the document of each kind, revision 0 when there is none
  approvals,     \* the last decision on each kind, revision 0 when none
  cycle,         \* requirement cycle
  outdated,      \* history: kinds whose document predates a change it rests on
  version,       \* current_version
  details,       \* what the archive and player contained when registered
  tests,         \* the last required test recorded for each version id
  groups,        \* question groups
  questionMode, playerMode,
  feedback, issues, art,
  files, build,  \* what is on disk: document files, archive and player
  edits,         \* number of changes on disk so far
  view           \* what the user has on the screen when he decides

taskVars == <<task, completing>>
workVars == <<stages, current, docs, approvals, cycle, outdated>>
gameVars == <<version, details, tests>>
askVars  == <<groups, questionMode, playerMode>>
noteVars == <<feedback, issues, art>>
diskVars == <<files, build, edits>>
vars == <<taskVars, workVars, gameVars, askVars, noteVars, diskVars, view>>

Order == [requirements |-> 1, resources |-> 2, plan |-> 3, implementation |-> 4,
          review |-> 5, delivery |-> 6, closeout |-> 7]
Stages == DOMAIN Order
Decided == {"requirements", "resources", "plan", "delivery"}
Kinds == Decided \cup {"closeout"}

ASSUME IssueScopesAssumption ==
  IssueScopes \subseteq [stages : SUBSET Stages, operations : SUBSET {"submit", "complete"}]

\* A stage and all that come after it.
From(s) == {t \in Stages : Order[s] <= Order[t]}

NoView == [kind |-> "none", revision |-> 0, hash |-> 0, fresh |-> FALSE]

Init ==
  /\ task = "active" /\ completing = FALSE
  /\ stages = [s \in Stages |-> IF s = "requirements" THEN "in-progress" ELSE "not-started"]
  /\ current = "requirements"
  /\ docs = [k \in Kinds |-> [revision |-> 0, hash |-> 0, art |-> 0, version |-> NoVersion]]
  /\ approvals = [k \in Decided |-> [revision |-> 0, hash |-> 0, accepted |-> FALSE, seen |-> 0]]
  /\ cycle = 1 /\ outdated = {}
  /\ version = NoVersion /\ details = 1
  /\ tests = [v \in Versions |-> [cycle |-> 0, passed |-> FALSE, build |-> 1]]
  /\ groups = [g \in Groups |-> [stage |-> "requirements", status |-> "absent"]]
  /\ questionMode \in QuestionModes /\ playerMode = "unspecified"
  /\ feedback = [f \in Feedbacks |->
       [status |-> "absent", visual |-> FALSE, version |-> NoVersion, art |-> 0]]
  /\ issues = {} /\ art = [number |-> 0, cycle |-> 1]
  /\ files = [k \in Kinds |-> 1] /\ build = 1 /\ edits = 0
  /\ view = NoView

-----------------------------------------------------------------------------
(* What the operations check.                                                *)

Submitted(k) == stages[k] \in {"passed", "awaiting-confirmation"}

\* The visual a document of this cycle would be bound to, 0 when there is none.
Shown == IF art.cycle = cycle THEN art.number ELSE 0
ArtCurrent(k) == k \in {"resources", "plan"} => docs[k].art = Shown

NoPending(s) ==
  \A g \in Groups : groups[g].status = "pending" => groups[g].stage # s
Unresolved(f) == feedback[f].status \in {"open", "in-progress", "awaiting-recheck"}

Confirmed(k) ==
  /\ stages[k] = "passed" /\ docs[k].revision > 0
  /\ approvals[k].revision = docs[k].revision
  /\ approvals[k].accepted /\ approvals[k].hash = docs[k].hash
  /\ files[k] = docs[k].hash
  /\ k = "delivery" => docs[k].version = version
  /\ ArtCurrent(k)

\* validation::approved
Approved(k) == Confirmed(k) /\ (k = "plan" => Confirmed("resources"))

\* versions::verify and iteration::ready
Intact == version # NoVersion /\ details = build
Ready == Intact /\ tests[version].cycle = cycle /\ tests[version].passed

\* clear_issues_for: no open issue on the stage blocks the operation.
NoIssue(k, operation) ==
  \A i \in issues : ~(k \in i.stages /\ operation \in i.operations)

\* Mistaken: the questions of the stage are not asked for.
ClearOfIssues(k, operation) == NoIssue(k, operation)

Clear(k, operation) == NoIssue(k, operation) /\ NoPending(k)

\* validation::document_gate
Gate(k) ==
  /\ Clear(k, "submit")
  /\ k = "requirements" => ~(questionMode = "ask" /\ playerMode = "unspecified")
  /\ k \in {"resources", "plan", "delivery"} => Approved("requirements")
  /\ k = "plan" => /\ Approved("resources")
                   /\ \A f \in Feedbacks : feedback[f].visual => ~Unresolved(f)
  /\ k = "delivery" => /\ issues = {} /\ Approved("plan") /\ Ready
                       /\ stages["implementation"] = "passed"
                       /\ \A f \in Feedbacks : ~Unresolved(f)

\* interaction::review
Reviewable(k) ==
  /\ stages[k] = "awaiting-confirmation" /\ files[k] = docs[k].hash
  /\ ArtCurrent(k)
  /\ k = "delivery" => docs[k].version = version

-----------------------------------------------------------------------------
(* How they change the stages.                                               *)

\* production_commit: the task is active, a current stage that was not started
\* is started, and what the user had read is no longer the record's revision.
Commit(st, cur) ==
  /\ task = "active"
  /\ stages' = IF st[cur] = "not-started" THEN [st EXCEPT ![cur] = "in-progress"] ELSE st
  /\ current' = cur
  /\ view' = [view EXCEPT !.fresh = FALSE]

Reset(S) == [s \in Stages |-> IF s \in S THEN "not-started" ELSE stages[s]]

Predating(S) == outdated \cup {k \in Kinds \cap S : docs[k].revision > 0}

\* Mistaken: the stages that come later keep their status.
ReopenedAlone(s) == [stages EXCEPT ![s] = "in-progress"]

\* questions::invalidate_from, and what feedback on a visual does
Reopened(s) == [Reset(From(s)) EXCEPT ![s] = "in-progress"]
InvalidateFrom(s) ==
  /\ Commit(Reopened(s), s)
  /\ outdated' = Predating(From(s))
  /\ UNCHANGED <<docs, approvals, cycle>>

\* Mistaken: a delivery that was submitted stays.
ReviewedAgain == [stages EXCEPT !["review"] = "in-progress"]

\* What feedback on the game does.
BackInReview == [Reset({"delivery", "closeout"}) EXCEPT !["review"] = "in-progress"]
BackToReview ==
  /\ Commit(BackInReview, "review")
  /\ outdated' = Predating({"delivery", "closeout"})
  /\ UNCHANGED <<docs, approvals, cycle>>

-----------------------------------------------------------------------------
(* Documents.                                                                *)

\* Mistaken: the rejected revision is replaced in place.
DocumentInPlace(k) ==
  [revision |-> IF docs[k].revision = 0 THEN 1 ELSE docs[k].revision, hash |-> files[k],
   art |-> IF k \in {"resources", "plan"} THEN Shown ELSE 0, version |-> version]

Document(k) ==
  [revision |-> docs[k].revision + 1, hash |-> files[k],
   art |-> IF k \in {"resources", "plan"} THEN Shown ELSE 0, version |-> version]

\* The same document again while it waits or has passed.
Unchanged(k) ==
  /\ docs[k].revision > 0 /\ Submitted(k)
  /\ docs[k].hash = files[k] /\ ArtCurrent(k)
  /\ k = "delivery" => docs[k].version = version

\* A revision of one of the first three documents starts the later stages anew.
Restarts(k) == k \in {"requirements", "resources", "plan"} /\ docs[k].revision > 0

SubmittedStages(k) ==
  [(IF Restarts(k) THEN Reset(From(k)) ELSE stages)
     EXCEPT ![k] = IF k = "closeout" THEN "in-progress" ELSE "awaiting-confirmation"]

Submit(k) ==
  /\ Gate(k)
  /\ k = "closeout" => Approved("delivery")
  /\ ~Unchanged(k) /\ docs[k].revision < MaxRevision[k]
  /\ Commit(SubmittedStages(k), k)
  /\ docs' = [docs EXCEPT ![k] = Document(k)]
  /\ cycle' = IF k = "requirements" /\ Restarts(k) THEN cycle + 1 ELSE cycle
  /\ outdated' = (IF Restarts(k) THEN Predating(From(k)) ELSE outdated) \ {k}
  /\ UNCHANGED <<taskVars, approvals, gameVars, askVars, noteVars, diskVars>>

\* Accepted without a change to the record other than its revision.
SubmitAgain(k) ==
  /\ Gate(k)
  /\ k = "closeout" => Approved("delivery")
  /\ Unchanged(k)
  /\ Commit(stages, current)
  /\ UNCHANGED <<taskVars, docs, approvals, cycle, outdated, gameVars, askVars,
                 noteVars, diskVars>>

\* The APP shows the user a document that waits for him.
Look(k) ==
  /\ stages[k] = "awaiting-confirmation"
  /\ view' = [kind |-> k, revision |-> docs[k].revision, hash |-> docs[k].hash,
              fresh |-> TRUE]
  /\ UNCHANGED <<taskVars, workVars, gameVars, askVars, noteVars, diskVars>>

NextStage == [requirements |-> "resources", resources |-> "plan",
              plan |-> "implementation", delivery |-> "closeout"]

\* Mistaken: only the hash the user saw is compared.
CurrentByHash(k) == view.kind = k /\ view.hash = docs[k].hash

\* The decision names the revision of the record and the hash the user saw.
Current(k) == view.kind = k /\ view.fresh /\ view.hash = docs[k].hash

Decision(k, accepted) ==
  [revision |-> docs[k].revision, hash |-> docs[k].hash, accepted |-> accepted,
   seen |-> view.revision]

Accept(k) ==
  /\ Current(k) /\ Reviewable(k) /\ Gate(k) /\ NoIssue(k, "complete")
  /\ k = "resources" =>
       \A f \in Feedbacks : feedback[f].visual => ~Unresolved(f)
  /\ Commit([stages EXCEPT ![k] = "passed",
                           !["review"] = IF k = "delivery" THEN "passed" ELSE @],
            NextStage[k])
  /\ approvals' = [approvals EXCEPT ![k] = Decision(k, TRUE)]
  /\ UNCHANGED <<taskVars, docs, cycle, outdated, gameVars, askVars, noteVars, diskVars>>

Reject(k) ==
  /\ Current(k) /\ Reviewable(k)
  /\ Commit([stages EXCEPT ![k] = "in-progress"], k)
  /\ approvals' = [approvals EXCEPT ![k] = Decision(k, FALSE)]
  /\ UNCHANGED <<taskVars, docs, cycle, outdated, gameVars, askVars, noteVars, diskVars>>

-----------------------------------------------------------------------------
(* The game: its versions, the required tests, the end of the stages that    *)
(* have no decision.                                                         *)

\* Mistaken: a delivery of the version before stays.
OnlyImplementation == [stages EXCEPT !["implementation"] = "in-progress"]

\* A new version is implemented, tested and delivered anew.
ForNewVersion ==
  [Reset({"delivery", "closeout"}) EXCEPT !["implementation"] = "in-progress"]

\* production version: the files are hashed and bound to the id.
SetVersion(v) ==
  /\ Approved("requirements") /\ Approved("plan")
  /\ v = version => details = build
  /\ version' = v /\ details' = build
  /\ IF v = version
     THEN Commit(stages, current) /\ UNCHANGED outdated
     ELSE /\ Commit(ForNewVersion, current)
          /\ outdated' = Predating({"delivery", "closeout"})
  /\ UNCHANGED <<taskVars, docs, approvals, cycle, tests, askVars, noteVars, diskVars>>

\* save-self-test; the history records what was registered under the version.
SaveTest(passed) ==
  /\ Approved("requirements") /\ Approved("plan") /\ version # NoVersion
  /\ Commit(stages, current)
  /\ tests' = [tests EXCEPT ![version] =
                 [cycle |-> cycle, passed |-> passed, build |-> details]]
  /\ UNCHANGED <<taskVars, docs, approvals, cycle, outdated, version, details,
                 askVars, noteVars, diskVars>>

CompleteImplementation ==
  /\ Clear("implementation", "complete")
  /\ Approved("requirements") /\ Approved("plan") /\ Ready
  /\ Commit([stages EXCEPT !["implementation"] = "passed",
                           !["review"] = "awaiting-feedback"], "review")
  /\ UNCHANGED <<taskVars, docs, approvals, cycle, outdated, gameVars, askVars,
                 noteVars, diskVars>>

CompleteCloseout ==
  /\ Clear("closeout", "complete")
  /\ Approved("delivery") /\ Gate("delivery")
  /\ docs["closeout"].revision > 0 /\ files["closeout"] = docs["closeout"].hash
  /\ Commit([stages EXCEPT !["closeout"] = "passed"], "closeout")
  /\ UNCHANGED <<taskVars, docs, approvals, cycle, outdated, gameVars, askVars,
                 noteVars, diskVars>>

\* The agent reports on the current stage.
UpdateStage(status) ==
  /\ ~Submitted(current)
  /\ current \in {"implementation", "review", "delivery"} => Approved("plan")
  /\ Commit([stages EXCEPT ![current] = status], current)
  /\ UNCHANGED <<taskVars, docs, approvals, cycle, outdated, gameVars, askVars,
                 noteVars, diskVars>>

\* An issue is opened, or resolved.
SaveIssue(i) ==
  /\ issues' = IF i \in issues THEN issues \ {i} ELSE issues \cup {i}
  /\ Commit(stages, current)
  /\ UNCHANGED <<taskVars, docs, approvals, cycle, outdated, gameVars, askVars,
                 feedback, art, diskVars>>

RegisterVisual ==
  /\ art.number < MaxVisuals
  /\ art' = [number |-> art.number + 1, cycle |-> cycle]
  /\ Commit(stages, current)
  /\ UNCHANGED <<taskVars, docs, approvals, cycle, outdated, gameVars, askVars,
                 feedback, issues, diskVars>>

-----------------------------------------------------------------------------
(* Questions and the settings they serve.                                    *)

Publish(g) ==
  /\ questionMode = "ask" /\ groups[g].status = "absent"
  /\ \A h \in Groups : groups[h].status # "pending"
  /\ groups' = [groups EXCEPT ![g] = [stage |-> current, status |-> "pending"]]
  /\ Commit(stages, current)
  /\ UNCHANGED <<taskVars, docs, approvals, cycle, outdated, gameVars, questionMode,
                 playerMode, noteVars, diskVars>>

\* The user submits answers, cancels the group or reopens answered questions.
Answer(g, status) ==
  /\ \/ groups[g].status = "pending" /\ status \in {"submitted", "cancelled"}
     \/ /\ groups[g].status = "submitted" /\ status = "pending"
        /\ \A h \in Groups \ {g} : groups[h].status # "pending"
  /\ groups' = [groups EXCEPT ![g].status = status]
  /\ InvalidateFrom(groups[g].stage)
  /\ UNCHANGED <<taskVars, gameVars, questionMode, playerMode, noteVars, diskVars>>

Cancelled == [g \in Groups |-> IF groups[g].status = "pending"
                               THEN [groups[g] EXCEPT !.status = "cancelled"] ELSE groups[g]]

\* The user chooses the number of players.
SetPlayerMode(m) ==
  /\ m # playerMode
  /\ playerMode' = m /\ groups' = Cancelled
  /\ InvalidateFrom("requirements")
  /\ UNCHANGED <<taskVars, gameVars, questionMode, noteVars, diskVars>>

\* The agent may only choose it when the user has not.
ConfigurePlayerMode(m) ==
  /\ playerMode = "unspecified" /\ m # "unspecified"
  /\ playerMode' = m
  /\ InvalidateFrom("requirements")
  /\ UNCHANGED <<taskVars, gameVars, groups, questionMode, noteVars, diskVars>>

ConfigureQuestionMode(m) ==
  /\ ~Approved("requirements")
  /\ questionMode' = m
  /\ groups' = IF m = "no-followup" THEN Cancelled ELSE groups
  /\ IF m # questionMode /\ docs["requirements"].revision > 0
     THEN Commit([stages EXCEPT !["requirements"] = "in-progress"], "requirements")
     ELSE Commit(stages, current)
  /\ UNCHANGED <<taskVars, docs, approvals, cycle, outdated, gameVars, playerMode,
                 noteVars, diskVars>>

\* Another template of the requirements or of the art is chosen: only the stage
\* it belongs to is opened again, whatever was built on it.
ConfigureTemplate(k) ==
  /\ ~Approved(k)
  /\ IF docs[k].revision > 0
     THEN Commit([stages EXCEPT ![k] = "in-progress"], k)
     ELSE Commit(stages, current)
  /\ UNCHANGED <<taskVars, docs, approvals, cycle, outdated, gameVars, askVars,
                 noteVars, diskVars>>

-----------------------------------------------------------------------------
(* Feedback: the user adds, resolves and reopens it, the agent works on it.  *)

\* The visual was submitted for review with a document that is still true.
Reviewed ==
  \E k \in {"resources", "plan"} :
    /\ docs[k].revision > 0 /\ docs[k].art = Shown
    /\ Submitted(k) /\ files[k] = docs[k].hash

AddFeedback(f, visual) ==
  /\ feedback[f].status = "absent"
  /\ IF visual THEN Shown > 0 /\ Reviewed
               ELSE Intact /\ stages["implementation"] = "passed"
  /\ feedback' = [feedback EXCEPT ![f] = [status |-> "open", visual |-> visual,
                                          version |-> version, art |-> Shown]]
  /\ IF visual THEN InvalidateFrom("resources") ELSE BackToReview
  /\ UNCHANGED <<taskVars, gameVars, askVars, issues, art, diskVars>>

\* The agent's candidate: the newest visual, or the current version with evidence.
UpdateFeedback(f, status) ==
  /\ Unresolved(f) /\ status \in {"in-progress", "awaiting-recheck"}
  /\ status = "awaiting-recheck" =>
       IF feedback[f].visual THEN Shown > 0 ELSE version # NoVersion
  /\ feedback' = [feedback EXCEPT ![f].status = status, ![f].version = version,
                                  ![f].art = IF status = "in-progress" THEN 0 ELSE Shown]
  /\ Commit(stages, current)
  /\ UNCHANGED <<taskVars, docs, approvals, cycle, outdated, gameVars, askVars,
                 issues, art, diskVars>>

Resolve(f) ==
  /\ feedback[f].status = "awaiting-recheck"
  /\ IF feedback[f].visual THEN Shown > 0 /\ feedback[f].art = Shown
                           ELSE feedback[f].version = version /\ Intact
  /\ feedback' = [feedback EXCEPT ![f].status = "resolved"]
  /\ Commit(stages, current)
  /\ UNCHANGED <<taskVars, docs, approvals, cycle, outdated, gameVars, askVars,
                 issues, art, diskVars>>

Reopen(f) ==
  /\ feedback[f].status # "absent"
  /\ feedback' = [feedback EXCEPT ![f].status = "open"]
  /\ IF feedback[f].visual THEN InvalidateFrom("resources") ELSE BackToReview
  /\ UNCHANGED <<taskVars, gameVars, askVars, issues, art, diskVars>>

-----------------------------------------------------------------------------
(* The disk, and the task.                                                   *)

EditFile(k, c) ==
  /\ edits < MaxEdits /\ edits' = edits + 1
  /\ c # files[k] /\ files' = [files EXCEPT ![k] = c]
  /\ UNCHANGED <<taskVars, workVars, gameVars, askVars, noteVars, build, view>>

ChangeBuild(b) ==
  /\ edits < MaxEdits /\ edits' = edits + 1
  /\ b # build /\ build' = b
  /\ UNCHANGED <<taskVars, workVars, gameVars, askVars, noteVars, files, view>>

\* production_can_complete
CanComplete ==
  Approved("delivery") /\ Gate("delivery") /\ stages["closeout"] = "passed"

\* set_status: the check, and the write that is not in the same transaction.
CompleteBegin ==
  /\ ~completing /\ CanComplete /\ completing' = TRUE
  /\ UNCHANGED <<task, workVars, gameVars, askVars, noteVars, diskVars, view>>

CompleteWrite ==
  /\ completing /\ completing' = FALSE
  /\ task' = "completed"
  /\ UNCHANGED <<workVars, gameVars, askVars, noteVars, diskVars, view>>

SetStatus(status) ==
  /\ status # task
  /\ task' = status
  /\ UNCHANGED <<completing, workVars, gameVars, askVars, noteVars, diskVars, view>>

-----------------------------------------------------------------------------
Next ==
  \/ \E k \in Kinds : Submit(k) \/ SubmitAgain(k)
  \/ \E k \in Decided : Look(k) \/ Accept(k) \/ Reject(k)
  \/ \E v \in Versions : SetVersion(v)
  \/ \E passed \in BOOLEAN : SaveTest(passed)
  \/ CompleteImplementation
  \/ CompleteCloseout
  \/ \E status \in Reports : UpdateStage(status)
  \/ \E i \in IssueScopes : SaveIssue(i)
  \/ RegisterVisual
  \/ \E g \in Groups : Publish(g)
  \/ \E g \in Groups, status \in {"submitted", "cancelled", "pending"} : Answer(g, status)
  \/ \E m \in PlayerModes : SetPlayerMode(m) \/ ConfigurePlayerMode(m)
  \/ \E m \in QuestionModes : ConfigureQuestionMode(m)
  \/ \E k \in {"requirements", "resources"} : ConfigureTemplate(k)
  \/ \E f \in Feedbacks, visual \in BOOLEAN : AddFeedback(f, visual)
  \/ \E f \in Feedbacks, status \in {"in-progress", "awaiting-recheck"} :
       UpdateFeedback(f, status)
  \/ \E f \in Feedbacks : Resolve(f) \/ Reopen(f)
  \/ \E k \in Kinds, c \in Contents : EditFile(k, c)
  \/ \E b \in Builds : ChangeBuild(b)
  \/ CompleteBegin
  \/ CompleteWrite
  \/ \E status \in SetStatuses : SetStatus(status)

Spec == Init /\ [][Next]_vars

-----------------------------------------------------------------------------
(* Properties.                                                               *)

Statuses == {"not-started", "in-progress", "awaiting-confirmation", "blocked",
             "passed", "stopped", "awaiting-feedback"}

\* The record keeps its types, and no stage is in a state of another stage.
TypeOK ==
  /\ task \in {"active", "completed", "archived"} /\ completing \in BOOLEAN
  /\ stages \in [Stages -> Statuses] /\ current \in Stages
  /\ docs \in [Kinds -> [revision : Nat, hash : Nat, art : Nat,
                         version : Versions \cup {NoVersion}]]
  /\ approvals \in [Decided -> [revision : Nat, hash : Nat, accepted : BOOLEAN, seen : Nat]]
  /\ cycle \in Nat /\ outdated \subseteq Kinds
  /\ version \in Versions \cup {NoVersion} /\ details \in Builds
  /\ tests \in [Versions -> [cycle : Nat, passed : BOOLEAN, build : Builds]]
  /\ groups \in [Groups -> [stage : Stages,
                            status : {"absent", "pending", "submitted", "cancelled"}]]
  /\ questionMode \in QuestionModes /\ playerMode \in PlayerModes
  /\ feedback \in [Feedbacks ->
       [status : {"absent", "open", "in-progress", "awaiting-recheck", "resolved"},
        visual : BOOLEAN, version : Versions \cup {NoVersion}, art : Nat]]
  /\ issues \subseteq IssueScopes /\ art \in [number : Nat, cycle : Nat]
  /\ files \in [Kinds -> Nat] /\ build \in Builds /\ edits \in Nat
  /\ view \in [kind : Decided \cup {"none"}, revision : Nat, hash : Nat, fresh : BOOLEAN]

\* A stage that ends with a decision has passed only if the user accepted the
\* document's present revision, with the content it has, and saw that very
\* revision when he did (production_decide, validation::approved).
PassedIsAccepted ==
  \A k \in Decided : stages[k] = "passed" =>
    /\ docs[k].revision > 0
    /\ approvals[k].accepted
    /\ approvals[k].revision = docs[k].revision
    /\ approvals[k].hash = docs[k].hash
    /\ approvals[k].seen = docs[k].revision

\* No document waits for the user or has passed that was written before the
\* user's last answers for its stage or an earlier one, a new revision of an
\* earlier document, feedback that sent it back, or a new version of the game
\* (questions::invalidate_from, submit, set_version, production_feedback).
NothingOutdatedPasses ==
  \A k \in Decided : Submitted(k) => k \notin outdated

\* The user accepted the present revision of the document, and no other one
\* waits for him.
Agreed(k) ==
  /\ docs[k].revision > 0 /\ stages[k] # "awaiting-confirmation"
  /\ approvals[k].accepted /\ approvals[k].revision = docs[k].revision

\* A delivery waits or has passed only on top of a plan and an implementation
\* that have passed and still stand, and of requirements, art and a plan that
\* the user has accepted as they are in the record.  Not "have passed": another
\* template opens requirements or art again and leaves the delivery alone.
DeliveryIsLast ==
  Submitted("delivery") =>
    /\ stages["plan"] = "passed" /\ stages["implementation"] = "passed"
    /\ \A k \in {"requirements", "resources", "plan"} : Agreed(k)

\* While a delivery waits or has passed, no feedback of the user is open and it
\* names the present version of the game.
DeliveryAnswersFeedback ==
  Submitted("delivery") =>
    /\ \A f \in Feedbacks : ~Unresolved(f)
    /\ docs["delivery"].version = version

\* A stage that has passed has no question the user has yet to answer.
PassedIsAnswered ==
  \A k \in Decided : stages[k] = "passed" => NoPending(k)

\* One decision for each revision of a document: the user's word on a revision
\* is never replaced by another one.
DecidedOnce ==
  [][\A k \in Decided :
       approvals'[k].revision = approvals[k].revision => approvals'[k] = approvals[k]]_vars
=============================================================================
