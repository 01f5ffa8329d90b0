------------------------------- MODULE Planner -------------------------------
(***************************************************************************)
(* The planner loop of a legacy AI question (ai_planner_tools.go) and the  *)
(* retrieval it falls back to (ai_retrieval_orchestrator.go).  Each round  *)
(* the model names an action and, with it, what it makes of the task: the  *)
(* intent, whether the user asked for a database change, whether the       *)
(* previous conversation counts.  A reply is a record                      *)
(*   [intent, explicit, flow, follow, previous]                            *)
(* intent "none": the field is absent; explicit, follow, previous: "yes",  *)
(* "no", "none"; flow: the terms of the frame speak of changing a value.   *)
(* A scope is [repos, mode, file, branches]: the repositories selected,    *)
(* the mode, the current file as a set of no or one slice, and whether     *)
(* branch candidates are searched.                                         *)
(***************************************************************************)
EXTENDS Evidence

CONSTANTS
    Slices,         \* the slices of text files the repositories hold
    Repos,          \* the repositories
    EnabledRepos,   \* those that are indexed and searched
    DefaultBranch,  \* the default branch of all of them
    Replies,        \* what the model may make of the task
    Requests,       \* the scopes a question may carry, mode "" when it has none
    Saved,          \* the scopes a session may have been created with
    Talks,          \* the conversations it may continue: [available, focus, follow]
    Opinions,       \* the assessments the model may give: of contract keys,
                    \* functions to [status, refs]
    MaxPlannerRounds, MaxSearches   \* aiPlannerMaxRounds, aiRetrievalMaxRounds

ASSUME SlicesAreOfRepos ==
    /\ EnabledRepos \subseteq Repos
    /\ \A s \in Slices : s.repo \in Repos /\ s.type \in SliceTypes
\* What reaches the planner is well formed: a scope names repositories, and the
\* current file, if any, is a file they hold.
IsScope(sc) ==
    sc \in [repos : SUBSET Repos, mode : {sc.mode}, file : SUBSET Slices,
            branches : BOOLEAN]
ASSUME ScopesAreOfRepos ==
    /\ \A sc \in Requests \union Saved : IsScope(sc)
    /\ \A t \in Talks : t \in [available : BOOLEAN, focus : SUBSET Repos, follow : BOOLEAN]
ASSUME OpinionsAreOfSlices ==
    \A opinion \in Opinions : \A k \in DOMAIN opinion :
        opinion[k] \in [status : {"covered", "partial", "missing", "conflict"},
                       refs : SUBSET Slices]
ASSUME RoundsArePositive == MaxPlannerRounds \in Nat \ {0} /\ MaxSearches \in Nat \ {0}

VARIABLES
    base,      \* the scope the user asked with
    scope,     \* the scope the planner works in
    talk,      \* what it knows of the conversation
    enabled,   \* the active configuration enables the model
    frame,     \* [intent, explicit, flow]: the task frame
    pool,      \* the raw evidence
    seen,      \* the keys the curated bundle was made for
    round,     \* rounds of the loop made
    searches,  \* retrieval rounds made
    stage,     \* where the planner is
    report,    \* the coverage report it returns
    conn       \* the client: "up", "broken" (writes fail) or "cancelled"

plannerVars == <<base, scope, talk, enabled, frame, pool, seen, round, searches,
                 stage, report, conn>>

Stages == {"off", "loop", "ended", "fallback", "done", "failed"}

\* aiPlannerDefaultFrame
DefaultFrame == [intent |-> "document_qa", explicit |-> FALSE, flow |-> FALSE]
EmptyPool == [s \in {} |-> Found("smart_latest", 0)]
NoReport == [missing |-> {}, covered |-> {}, status |-> "none"]

ContractOf(f) == Contract(f.intent, f.flow)

\* The scope of a question: the session's when the request names no mode; a
\* current file stands for its repository when none is selected.
AskScope(request, saved) ==
    LET own == request.mode # ""
        file == IF own \/ saved.file = {} THEN request.file ELSE saved.file
        repos == IF own THEN request.repos ELSE saved.repos
        mode == IF own THEN request.mode ELSE saved.mode
        atFile == file # {} /\ repos = {}
    IN [repos |-> IF atFile THEN {s.repo : s \in file} ELSE repos,
        mode |-> IF atFile /\ mode = "global" THEN "current_file" ELSE mode,
        file |-> file, branches |-> IF own THEN request.branches ELSE saved.branches]

PlannerInit ==
    /\ \E request \in Requests, saved \in Saved : base = AskScope(request, saved)
    /\ scope = base
    /\ talk \in Talks
    /\ enabled \in BOOLEAN
    /\ frame = DefaultFrame
    /\ pool = EmptyPool /\ seen = {}
    /\ round = 0 /\ searches = 0
    /\ stage = "off" /\ report = NoReport
    /\ conn = "up"

Quiet == UNCHANGED <<base, enabled, conn>>

-----------------------------------------------------------------------------
(* What the model's reply makes of the task. *)

\* aiPlannerFrameFromAction: the request for a database change, once said,
\* stays; an absent intent is normalized to document_qa, not to the present one.
FrameFrom(f) ==
    LET explicit == IF f.explicit = "none" THEN frame.explicit ELSE f.explicit = "yes"
        intent == IF f.intent = "none" THEN "document_qa" ELSE f.intent
    IN [intent |-> IF intent = "database_direct_update_for_test" /\ ~explicit
                   THEN "business_value_change" ELSE intent,
        explicit |-> explicit, flow |-> f.flow]

\* applyAIPlannerConversationDecision
Heeds(f) == talk.available /\ (f.follow # "none" \/ f.previous # "none")

TalkFrom(f) ==
    IF Heeds(f) /\ f.follow # "none" THEN [talk EXCEPT !.follow = (f.follow = "yes")]
    ELSE talk

\* aiScopeHasUserSelectedRepositoryBoundary
HasBoundary(sc) == sc.file # {} \/ sc.repos # {}

\* Mutant: the scope of the conversation replaces whatever the user chose.
ScopeFromFocus(f) ==
    IF ~Heeds(f) \/ talk.focus = {} THEN scope
    ELSE [base EXCEPT !.repos = talk.focus, !.mode = "follow_up_context"]

ScopeFrom(f) ==
    IF ~Heeds(f) THEN scope
    ELSE IF /\ TalkFrom(f).follow /\ f.previous = "yes"
            /\ ~HasBoundary(base) /\ talk.focus # {}
         THEN [base EXCEPT !.repos = talk.focus, !.mode = "follow_up_context"]
         ELSE base

Decide(f) == talk' = TalkFrom(f) /\ scope' = ScopeFrom(f) /\ frame' = FrameFrom(f)

-----------------------------------------------------------------------------
(* Finding evidence. *)

\* filterAIRepos, and the search skips disabled repositories.
Searched(sc) ==
    IF sc.repos = {} \/ (sc.mode = "global" /\ sc.file = {}) THEN EnabledRepos
    ELSE EnabledRepos \intersect sc.repos

\* aiPlannerRepoAllowed
ViewAllowed(sc, r) ==
    /\ \A s \in sc.file : s.repo = r
    /\ sc.repos = {} \/ sc.mode = "global" \/ r \in sc.repos

\* aiRefTargets: the default branch counts as the latest, other branches are
\* candidates.
RefScope(s) == IF s.branch = DefaultBranch THEN "smart_latest" ELSE "branch_candidate"

SearchScope(s) == IF s.latest THEN "smart_latest" ELSE RefScope(s)

InReach(sc) ==
    {s \in Slices : /\ s.repo \in Searched(sc)
                    /\ SearchScope(s) = "branch_candidate" => sc.branches}

\* executeAISearchPlan: what matched best, and the current file, when it can be
\* read, before all of it and as the latest.
Finds(sc, found, current, score) ==
    [s \in found \union current |->
        IF s \in current THEN Found("smart_latest", 4) ELSE Found(SearchScope(s), score)]

SearchScores == {1, 3}      \* below and above the fixed score of a viewed slice
ViewScore == 2

-----------------------------------------------------------------------------
(* The loop. *)

InLoop == stage = "loop" /\ round < MaxPlannerRounds

\* Mutant: a round without an observation is not counted.
ContinuedUncounted == stage' = "loop" /\ UNCHANGED round

\* After a round the loop goes on while rounds are left; observations that
\* have grown too large end it.
Continued ==
    /\ round' = round + 1
    /\ stage' = IF round' = MaxPlannerRounds THEN "ended" ELSE "loop"
Observed ==
    /\ round' = round + 1
    /\ stage' \in IF round' = MaxPlannerRounds THEN {"ended"} ELSE {"loop", "ended"}

\* No provider answers, or the reply is no action.
ModelFails ==
    /\ InLoop
    /\ stage' = "ended"
    /\ UNCHANGED <<scope, talk, frame, pool, seen, round, searches, report>> /\ Quiet

\* validateAIPlannerAction refuses the action: the task is not even looked at.
Unsupported ==
    /\ InLoop /\ conn # "cancelled"
    /\ Continued
    /\ UNCHANGED <<scope, talk, frame, pool, seen, searches, report>> /\ Quiet

\* The tool fails: its arguments, the repository, the file, a cancellation.
ToolFails ==
    /\ InLoop
    /\ \E f \in Replies : Decide(f)
    /\ Continued
    /\ UNCHANGED <<pool, seen, searches, report>> /\ Quiet

\* read_diagnostics adds no evidence.
ReadDiagnostics ==
    /\ InLoop /\ conn # "cancelled"
    /\ \E f \in Replies : Decide(f)
    /\ Observed
    /\ UNCHANGED <<pool, seen, searches, report>> /\ Quiet

\* A round of which the pool is curated for the contract it decided on.
Curates(f) ==
    /\ Decide(f)
    /\ seen' = KeysOfContract(ContractOf(FrameFrom(f)))

SearchCodeEvidence ==
    /\ InLoop /\ conn # "cancelled"
    /\ Observed /\ searches' = searches + 1
    /\ UNCHANGED report /\ Quiet
    /\ \E f \in Replies :
         /\ Curates(f)
         /\ \E found \in SUBSET InReach(ScopeFrom(f)),
               current \in SUBSET ScopeFrom(f).file, score \in SearchScores :
              pool' = Merge(pool, Finds(ScopeFrom(f), found, current, score))

\* executeAIPlannerViewFile: by branch the slice has the label of the branch;
\* by commit it is the latest, whatever commit it is.
ViewLabel(s, byCommit) == IF byCommit THEN "smart_latest" ELSE RefScope(s)

ViewFileSlice ==
    /\ InLoop /\ conn # "cancelled"
    /\ Observed /\ UNCHANGED <<searches, report>> /\ Quiet
    /\ \E f \in Replies :
         /\ Curates(f)
         /\ \E s \in Slices, byCommit \in BOOLEAN :
              /\ ViewAllowed(ScopeFrom(f), s.repo)
              /\ pool' = Merge(pool, [r \in {s} |-> Found(ViewLabel(s, byCommit), ViewScore)])

\* validateAIPlannerContractAssessment: a key of the contract that wants the
\* model's view, and sources that are in the pool and may show it.
Accepted(contract, k, said) ==
    /\ k \in KeysOfContract(contract) \intersect AssessedKeys
    /\ said.status = "missing" \/ said.refs # {}
    /\ said.refs \subseteq DOMAIN pool
    /\ k \in RuntimeKeys =>
         \A s \in said.refs : s.type \notin {"orm_model", "migration_sql"}

\* applyAIPlannerContractAssessments: of an accepted key what was said before
\* is dropped, then the slices cited for it are marked with it.  Of a key the
\* model names twice the last accepted view is the one that stays.
Assessed(contract, opinion) ==
    LET accepted == {k \in DOMAIN opinion : Accepted(contract, k, opinion[k])}
        marked(s) == {k \in accepted : s \in opinion[k].refs
                                          /\ opinion[k].status # "missing"}
        kept(s) == DOMAIN pool[s].marks \ accepted
    IN [s \in DOMAIN pool |->
          [pool[s] EXCEPT !.marks = [k \in kept(s) \union marked(s) |->
              IF k \in marked(s) THEN opinion[k].status ELSE pool[s].marks[k]]]]

AssessContract ==
    /\ InLoop /\ conn # "cancelled"
    /\ Observed /\ UNCHANGED <<searches, report>> /\ Quiet
    /\ \E f \in Replies :
         /\ Curates(f)
         /\ \E opinion \in Opinions :
              pool' = Assessed(ContractOf(FrameFrom(f)), opinion)

Finish ==
    /\ InLoop /\ conn # "cancelled"
    /\ \E f \in Replies : Decide(f)
    /\ round' = round + 1 /\ stage' = "ended"
    /\ UNCHANGED <<pool, seen, searches, report>> /\ Quiet

-----------------------------------------------------------------------------
(* The end of the loop, and the search that needs no model. *)

\* Without evidence the deterministic retrieval answers for a default frame.
FallBack ==
    /\ stage = "ended" /\ DOMAIN pool = {}
    /\ stage' = "fallback" /\ frame' = DefaultFrame /\ searches' = 0
    /\ UNCHANGED <<scope, talk, pool, seen, round, report>> /\ Quiet

\* Mutant: the gaps of the last contract are not looked for again.
FinalReportAssumed == [Check(ContractOf(frame), pool, seen) EXCEPT !.missing = {},
                                                                   !.status = "pass"]

\* The report is made of the last contract and of the bundle of the round that
\* last touched evidence.
FinalReport == MarkCompletedWithGaps(Check(ContractOf(frame), pool, seen))

WrapUp ==
    /\ stage = "ended" /\ DOMAIN pool # {} /\ conn # "cancelled"
    /\ stage' = "done" /\ report' = FinalReport
    /\ UNCHANGED <<scope, talk, frame, pool, seen, round, searches>> /\ Quiet

\* runAIRetrievalOrchestrator: one round, and another while the required keys
\* are not covered.
FallbackSearch ==
    /\ stage = "fallback" /\ conn # "cancelled"
    /\ UNCHANGED <<scope, talk, frame, round>> /\ Quiet
    /\ seen' = KeysOfContract(ContractOf(frame)) /\ searches' = searches + 1
    /\ \E found \in SUBSET InReach(scope), current \in SUBSET scope.file,
          score \in SearchScores :
         pool' = Merge(pool, Finds(scope, found, current, score))
    /\ LET checked == Check(ContractOf(frame), pool', seen')
       IN IF StillNeedsRetrieval(checked) /\ searches' < MaxSearches
          THEN UNCHANGED <<stage, report>>
          ELSE stage' = "done" /\ report' = MarkCompletedWithGaps(checked)

\* The repositories cannot be listed once the request is cancelled.
PlanFails ==
    /\ \/ stage = "fallback"
       \/ stage = "ended" /\ DOMAIN pool # {}
    /\ conn = "cancelled"
    /\ stage' = "failed"
    /\ UNCHANGED <<scope, talk, frame, pool, seen, round, searches, report>> /\ Quiet

PlannerNext ==
    \/ ModelFails \/ Unsupported \/ ToolFails \/ ReadDiagnostics
    \/ SearchCodeEvidence \/ ViewFileSlice \/ AssessContract \/ Finish
    \/ FallBack \/ WrapUp \/ FallbackSearch \/ PlanFails

=============================================================================
