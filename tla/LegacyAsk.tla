------------------------------ MODULE LegacyAsk ------------------------------
(***************************************************************************)
(* One question to the legacy engine: askAIQuestion (way "block": the      *)
(* answer is the response) and askAIQuestionStream (way "stream":          *)
(* server-sent events while it works), from the user's message to the last *)
(* row written.  The planner finds the evidence; then the providers of the *)
(* route are asked, the draft is verified, rewritten at most once, and     *)
(* replaced by a summary of the evidence when it does not pass.            *)
(* The client may go away at any moment: writes to it then fail, and a     *)
(* little later the request's context is cancelled, with which every       *)
(* statement on the database fails that is not made with the context of    *)
(* aiPersistenceContext.                                                   *)
(***************************************************************************)
EXTENDS Planner, AnswerVerifier

CONSTANTS
    Providers,      \* how many providers the route has (aiProvidersForRoute)
    Answers,        \* the answers, as sets of features, a model may give
    LocalAnswers    \* and those the summary of the evidence may happen to have

ASSUME ProvidersAreCounted == Providers \in Nat

VARIABLES
    way,      \* "block" or "stream"
    pc,       \* the next step of the handler
    p,        \* the plan, as the verifier sees it
    left,     \* providers not asked yet
    draft,    \* [text, from]: the answer in hand
    verdict,  \* the status the run is to get
    run,      \* ai_agent_runs.status
    msg       \* ai_messages of the assistant: [text, from, status]

askVars == <<way, pc, p, left, draft, verdict, run, msg>>
vars == <<plannerVars, askVars>>

Sources == {"none", "model", "rewrite", "local", "conservative"}
Steps == {"user", "run", "message", "open", "planning", "record", "answer", "verify",
          "show", "settle", "finish", "announce", "over"}

NoDraft == [text |-> {}, from |-> "none"]
NoMessage == [text |-> {}, from |-> "none", status |-> "none"]
NoPlan == [some |-> FALSE, rounds |-> 0, intent |-> "none", explicit |-> FALSE,
           flow |-> FALSE, missing |-> FALSE, gaps |-> FALSE, conflict |-> FALSE,
           clash |-> FALSE, forbidden |-> FALSE, branch |-> FALSE, latest |-> FALSE,
           backed |-> FALSE, covered |-> FALSE]

Init ==
    /\ PlannerInit
    /\ way \in {"block", "stream"}
    /\ pc = "user"
    /\ p = NoPlan /\ left = Providers
    /\ draft = NoDraft /\ verdict = "none"
    /\ run = "none" /\ msg = NoMessage

Streams == way = "stream"

\* A statement made with the context of the request.
Writes == conn # "cancelled"
\* Every event of a stream must be delivered: emit returns the error of the write.
Delivers == Streams => conn = "up"

Over == pc' = "over"

-----------------------------------------------------------------------------
(* The client. *)

Break ==
    /\ Streams /\ conn = "up" /\ pc # "over"
    /\ conn' = "broken"
    /\ UNCHANGED <<base, scope, talk, enabled, frame, pool, seen, round, searches,
                   stage, report, askVars>>

Cancel ==
    /\ conn # "cancelled" /\ pc # "over"
    /\ conn' = "cancelled"
    /\ UNCHANGED <<base, scope, talk, enabled, frame, pool, seen, round, searches,
                   stage, report, askVars>>

-----------------------------------------------------------------------------
(* The rows of the question. *)

Unplanned == UNCHANGED plannerVars

\* The user's message; nothing else is written when this fails.
InsertUserMessage ==
    /\ pc = "user"
    /\ IF Writes THEN pc' = "run" ELSE Over
    /\ Unplanned /\ UNCHANGED <<way, p, left, draft, verdict, run, msg>>

\* emit("user_message"), then createAIRun.
CreateRun ==
    /\ pc = "run"
    /\ IF Writes /\ Delivers
       THEN run' = "running" /\ pc' = IF Streams THEN "message" ELSE "open"
       ELSE Over /\ UNCHANGED run
    /\ Unplanned /\ UNCHANGED <<way, p, left, draft, verdict, msg>>

\* The row the stream fills; nobody cleans up yet when this fails.
InsertAssistantMessage ==
    /\ pc = "message"
    /\ IF Writes THEN msg' = [msg EXCEPT !.status = "streaming"] /\ pc' = "open"
       ELSE Over /\ UNCHANGED msg
    /\ Unplanned /\ UNCHANGED <<way, p, left, draft, verdict, run>>

\* Mutant: the rows are left as they are.
DeferredNothing == UNCHANGED <<msg, run>>

\* From here on the deferred function of the stream runs when a write fails:
\* with its own context it leaves no row unsettled.
Deferred ==
    /\ msg' = [msg EXCEPT !.status = IF msg.from = "none" THEN "failed" ELSE "partial"]
    /\ run' = "failed"

\* The steps with an event before or after their statements, and the others.
Emitting == {"open", "record", "answer", "show", "settle", "announce"}
Writing == {"record", "show", "settle", "finish"}

Interrupted ==
    /\ Streams
    /\ \/ pc \in Emitting /\ conn # "up"
       \/ pc \in Writing /\ conn = "cancelled"
    /\ Deferred /\ Over
    /\ Unplanned /\ UNCHANGED <<way, p, left, draft, verdict>>

-----------------------------------------------------------------------------
(* The plan. *)

OpenPlan ==
    /\ pc = "open" /\ Delivers
    /\ pc' = "planning"
    /\ stage' = IF enabled THEN "loop" ELSE "fallback"
    /\ UNCHANGED <<base, scope, talk, enabled, frame, pool, seen, round, searches,
                   report, conn, way, p, left, draft, verdict, run, msg>>

Plan == pc = "planning" /\ PlannerNext /\ UNCHANGED askVars

\* The bundle has a group of this reliability: a group holds the slices of one
\* text that support a key, and has the best label of theirs.
Grouped(label) ==
    \E s \in DOMAIN pool, k \in seen :
        /\ pool[s].scope = label /\ Supports(pool, s, k)
        /\ \A t \in GroupOf(pool, k) :
             SameText(s, t) => pool[t].scope \in {label, "branch_candidate"}

\* What a statement about the flow of a value may rest on.
WriteIsBacked ==
    \E s \in DOMAIN pool, k \in seen \intersect
         {"primary_write_path", "write_path", "source_precedence"} :
       k \in DOMAIN pool[s].marks /\ pool[s].marks[k] = "covered"

\* aiAnswerVerifierInputs and the verification context; covered is what a check
\* of everything found against the last contract says.
Summary ==
    LET contract == ContractOf(frame)
        keys == KeysOfContract(contract)
        gaps == report.status = "completed_with_gaps"
        some(status) == \E k \in keys : ItemStatus(contract, pool, seen, k) = status
    IN [some |-> DOMAIN pool # {}, rounds |-> searches,
        intent |-> frame.intent, explicit |-> frame.explicit,
        flow |-> contract.required \intersect ValueFlowKeys # {},
        missing |-> \/ report.missing # {}
                    \/ gaps /\ ~(contract.required \subseteq report.covered),
        gaps |-> gaps, conflict |-> report.status = "conflict",
        clash |-> some("conflict"), forbidden |-> some("forbidden"),
        branch |-> Grouped("branch_candidate"),
        latest |-> Grouped("smart_latest"), backed |-> WriteIsBacked,
        covered |-> contract.required \subseteq Check(contract, pool, keys).covered]

\* planAndRetrieveAIEvidence returns; its variables are gone.
Planned ==
    /\ pc = "planning" /\ stage = "done"
    /\ p' = Summary /\ pc' = "record"
    /\ scope' = base /\ talk' = [talk EXCEPT !.follow = FALSE]
    /\ frame' = DefaultFrame /\ pool' = EmptyPool /\ seen' = {}
    /\ round' = 0 /\ searches' = 0 /\ stage' = "off" /\ report' = NoReport
    /\ UNCHANGED <<base, enabled, conn, way, left, draft, verdict, run, msg>>

\* The stream records the failure with its own context, the blocking request
\* with its own, cancelled one.
PlanFailed ==
    /\ pc = "planning" /\ stage = "failed"
    /\ IF Streams THEN msg' = [msg EXCEPT !.status = "failed"] /\ run' = "failed"
       ELSE UNCHANGED msg /\ run' = IF Writes THEN "failed" ELSE run
    /\ Over
    /\ Unplanned /\ UNCHANGED <<way, p, left, draft, verdict>>

\* The steps of the plan, the citations and the candidates: the blocking
\* request ignores what fails of the steps, and cites later.
Record ==
    /\ pc = "record" /\ (Streams => conn = "up")
    /\ pc' = "answer"
    /\ Unplanned /\ UNCHANGED <<way, p, left, draft, verdict, run, msg>>

-----------------------------------------------------------------------------
(* The answer. *)

HasModel == enabled /\ p.some

Drafted(text, from) == draft' = [text |-> text, from |-> from] /\ pc' = "verify"

\* localNoEvidenceAnswer, localEvidenceAnswer
AnswerLocally ==
    /\ pc = "answer" /\ Delivers
    /\ ~HasModel \/ left = 0
    /\ \E text \in LocalAnswers : Drafted(text, "local")
    /\ Unplanned /\ UNCHANGED <<way, p, left, verdict, run, msg>>

\* callRoutedAIChat, callRoutedAIModelStream: the next provider of the route
\* has no key, refuses, is late or returns nothing.
ProviderFails ==
    /\ pc = "answer" /\ Delivers /\ HasModel /\ left > 0 /\ Writes
    /\ left' = left - 1
    /\ Unplanned /\ UNCHANGED <<way, pc, p, draft, verdict, run, msg>>

ProviderAnswers ==
    /\ pc = "answer" /\ Delivers /\ HasModel /\ left > 0 /\ Writes
    /\ \E text \in Answers : Drafted(text, "model")
    /\ Unplanned /\ UNCHANGED <<way, p, left, verdict, run, msg>>

\* A stream that ends in the middle of an answer is not tried elsewhere.
ProviderBreaksOff ==
    /\ pc = "answer" /\ Streams /\ conn = "up" /\ HasModel /\ left > 0
    /\ \E text \in LocalAnswers : Drafted(text, "local")
    /\ Unplanned /\ UNCHANGED <<way, p, left, verdict, run, msg>>

\* Cancelled, the blocking request goes on with the local summary.
AnswerAfterCancel ==
    /\ pc = "answer" /\ ~Streams /\ ~Writes /\ HasModel /\ left > 0
    /\ \E text \in LocalAnswers : Drafted(text, "local")
    /\ Unplanned /\ UNCHANGED <<way, p, left, verdict, run, msg>>

-----------------------------------------------------------------------------
(* verifyAndMaybeRewriteAIAnswer. *)

Keep(text, from, r) ==
    draft' = [text |-> text, from |-> from] /\ verdict' = RunStatus(r, p)

Replace(r, rewritten) ==
    /\ \E text \in LocalAnswers : draft' = [text |-> text, from |-> "conservative"]
    /\ verdict' = RunStatus(Replaced(r, rewritten), p)

Passes(r) == r.next = "pass"
IsRewritten(r) == r.next = "rewrite_answer" /\ HasModel

\* The draft is fine, or nothing can be done but to replace it.
VerifyDraft ==
    /\ pc = "verify"
    /\ LET r == Verify(draft.text, p)
       IN /\ ~IsRewritten(r)
          /\ IF Passes(r) THEN Keep(draft.text, draft.from, r) ELSE Replace(r, FALSE)
    /\ pc' = "show"
    /\ Unplanned /\ UNCHANGED <<way, p, left, run, msg>>

\* Of one rewriting, by any provider, what is accepted is kept.
RewriteDraft ==
    /\ pc = "verify" /\ Writes
    /\ IsRewritten(Verify(draft.text, p))
    /\ \E text \in Answers :
         LET r == Verify(text, p)
         IN IF RewriteAccepted(r) THEN Keep(text, "rewrite", r) ELSE Replace(r, TRUE)
    /\ pc' = "show"
    /\ Unplanned /\ UNCHANGED <<way, p, left, run, msg>>

RewriteFails ==
    /\ pc = "verify"
    /\ LET r == Verify(draft.text, p) IN IsRewritten(r) /\ Replace(r, TRUE)
    /\ pc' = "show"
    /\ Unplanned /\ UNCHANGED <<way, p, left, run, msg>>

-----------------------------------------------------------------------------
(* The last rows. *)

\* The stream shows the report, stores the answer and sends it.
ShowAnswer ==
    /\ pc = "show" /\ Streams /\ conn = "up"
    /\ msg' = [text |-> draft.text, from |-> draft.from, status |-> "streaming"]
    /\ pc' = "settle"
    /\ Unplanned /\ UNCHANGED <<way, p, left, draft, verdict, run>>

\* The blocking request inserts the message when it is complete.
InsertAnswer ==
    /\ pc = "show" /\ ~Streams
    /\ IF Writes
       THEN msg' = [text |-> draft.text, from |-> draft.from, status |-> "success"]
            /\ pc' = "finish"
       ELSE Over /\ UNCHANGED msg
    /\ Unplanned /\ UNCHANGED <<way, p, left, draft, verdict, run>>

SettleMessage ==
    /\ pc = "settle" /\ Writes
    /\ msg' = [msg EXCEPT !.status = "success"]
    /\ pc' = "finish"
    /\ Unplanned /\ UNCHANGED <<way, p, left, draft, verdict, run>>

\* finishAIRun; before it the blocking request stores its citations.
FinishRun ==
    /\ pc = "finish" /\ (Streams => Writes)
    /\ run' = IF Writes THEN verdict ELSE run
    /\ pc' = IF Streams THEN "announce" ELSE "over"
    /\ Unplanned /\ UNCHANGED <<way, p, left, draft, verdict, msg>>

\* emit("message_done"): only now is the stream complete.
Announce ==
    /\ pc = "announce" /\ conn = "up"
    /\ Over
    /\ Unplanned /\ UNCHANGED <<way, p, left, draft, verdict, run, msg>>

Served == pc = "over" /\ UNCHANGED vars

Server ==
    \/ InsertUserMessage \/ CreateRun \/ InsertAssistantMessage \/ Interrupted
    \/ OpenPlan \/ Plan \/ Planned \/ PlanFailed \/ Record
    \/ AnswerLocally \/ ProviderFails \/ ProviderAnswers \/ ProviderBreaksOff
    \/ AnswerAfterCancel \/ VerifyDraft \/ RewriteDraft \/ RewriteFails
    \/ ShowAnswer \/ InsertAnswer \/ SettleMessage \/ FinishRun \/ Announce

Next == Server \/ Break \/ Cancel \/ Served

Spec == Init /\ [][Next]_vars

\* The handler runs to its end: git, the database and the providers answer or
\* time out.
FairSpec == Spec /\ WF_vars(Server)

-----------------------------------------------------------------------------
(* Properties. *)

\* The state has its types: the run's status is one handleAIRuns may report.
TypeOK ==
    /\ stage \in Stages /\ conn \in {"up", "broken", "cancelled"}
    /\ base.repos \subseteq Repos /\ scope.repos \subseteq Repos
    /\ DOMAIN pool \subseteq Slices
    /\ \A s \in DOMAIN pool : pool[s].scope \in SourceScopes
                            /\ DOMAIN pool[s].marks \subseteq AssessedKeys
    /\ round \in 0..MaxPlannerRounds
    /\ searches \in 0..MaxPlannerRounds \union 0..MaxSearches
    /\ pc \in Steps /\ left \in 0..Providers
    /\ draft.from \in Sources /\ msg.from \in Sources
    /\ msg.status \in {"none", "streaming", "partial", "failed", "success"}
    /\ run \in {"none", "running", "failed", "succeeded", "completed_with_gaps",
                "verification_failed", "insufficient_evidence"}

\* All evidence is of the repositories the user selected and of the one of the
\* current file, or of all when none is selected: a conversation that is
\* continued narrows the scope of a question and never replaces a boundary of
\* its own (applyAIPlannerConversationDecision, filterAIRepos,
\* aiPlannerRepoAllowed).
ScopeHeld ==
    \A s \in DOMAIN pool :
        \/ base.repos = {} \/ (base.mode = "global" /\ base.file = {})
        \/ s.repo \in base.repos \union {f.repo : f \in base.file}

\* A run that succeeded has every key its last contract requires covered by what
\* was found, unless a forbidden source came in, which the verifier does not look
\* at: no change of intent on the way leaves an older report standing.
SucceededIsCovered == run = "succeeded" => p.covered \/ p.forbidden

\* Text of a model that a reader can see has been verified: it never holds a
\* secret or claims a change was made; the first draft failed no check, and a
\* rewriting none but in a run that completed with gaps.
NothingUnverified ==
    msg.from \in {"model", "rewrite"} =>
        LET failed == FailedChecks(msg.text, p)
        IN /\ failed \intersect {"secret_exposure", "unauthorized_behavior"} = {}
           /\ failed # {} => msg.from = "rewrite" /\ verdict = "completed_with_gaps"

\* However a stream ends, the message and the run are settled and agree: the
\* deferred function writes with its own context.
RowsSettle ==
    pc = "over" /\ msg.status # "none" =>
        \/ way = "block"
        \/ /\ run # "running" /\ msg.status # "streaming"
           /\ msg.status = "success" <=> run # "failed"

\* A question that is asked is over at some time, whatever the model replies and
\* whenever the client leaves: rounds, searches and providers are bounded.
QuestionEnds == <>(pc = "over")

\* "required partly missing: no definite steps", "forbidden: block the definite
\* answer": an order to change data is only shown when the policy allows it.
StepsFollowPolicy ==
    msg.from \in {"model", "rewrite"} /\ (Mutates(msg.text) \/ OrdersSteps(msg.text, p)) =>
        AnswerMode(p) = "deterministic_allowed"
=============================================================================
