------------------------------ MODULE AskProofs ------------------------------
(***************************************************************************)
(* What a legacy question guarantees whatever the scopes, conversations    *)
(* and slices are, whatever the model replies and however many rounds and  *)
(* providers there are: evidence stays inside the boundary the user drew,  *)
(* success rests on covered evidence, no unverified text is shown, and the *)
(* rows of a stream settle.                                                *)
(***************************************************************************)
EXTENDS LegacyAsk, TLAPS

-----------------------------------------------------------------------------
(* The boundary.  Only a question without one has its scope replaced, so a  *)
(* question that selects repositories is searched in the scope it was asked *)
(* with.                                                                    *)

ScopeInv ==
    /\ base.repos # {} => scope = base
    /\ ScopeHeld

Inside(s) ==
    \/ base.repos = {} \/ (base.mode = "global" /\ base.file = {})
    \/ s.repo \in base.repos \union {f.repo : f \in base.file}

LEMMA DecideScope ==
  ASSUME ScopeInv, NEW f
  PROVE  base.repos # {} => ScopeFrom(f) = base
BY DEF ScopeInv, ScopeFrom, HasBoundary

\* What a search in scope sc finds is in reach of it or the current file.
LEMMA SearchInside ==
  ASSUME NEW sc, base.repos # {} => sc = base, NEW found \in SUBSET InReach(sc),
         NEW current \in SUBSET sc.file, NEW score,
         NEW s \in DOMAIN Finds(sc, found, current, score)
  PROVE  Inside(s)
<1>1. s \in found \/ s \in current
  BY DEF Finds
<1>2. CASE base.repos = {}
  BY <1>2 DEF Inside
<1>3. CASE base.repos # {} /\ s \in found
  <2>1. sc = base /\ s \in InReach(base)
    BY <1>3
  <2>2. s.repo \in Searched(base)
    BY <2>1 DEF InReach
  <2> QED BY <1>3, <2>2 DEF Searched, Inside
<1>4. CASE base.repos # {} /\ s \in current
  BY <1>4 DEF Inside
<1> QED BY <1>1, <1>2, <1>3, <1>4

LEMMA ViewInside ==
  ASSUME NEW sc, base.repos # {} => sc = base, NEW s, ViewAllowed(sc, s.repo)
  PROVE  Inside(s)
<1>1. CASE base.repos = {}
  BY <1>1 DEF Inside
<1>2. CASE base.repos # {} /\ base.file = {}
  BY <1>2 DEF ViewAllowed, Inside
<1>3. CASE base.repos # {} /\ base.file # {}
  <2>1. PICK f \in base.file : TRUE
    BY <1>3
  <2>2. f.repo = s.repo
    BY <1>3, <2>1 DEF ViewAllowed
  <2> QED BY <2>1, <2>2 DEF Inside
<1> QED BY <1>1, <1>2, <1>3

LEMMA MergeInside ==
  ASSUME ScopeHeld, NEW new, \A s \in DOMAIN new : Inside(s),
         pool' = Merge(pool, new), UNCHANGED base
  PROVE  ScopeHeld'
<1>1. \A s \in DOMAIN pool : Inside(s)
  BY DEF ScopeHeld, Inside
<1>2. DOMAIN pool' = DOMAIN pool \union DOMAIN new
  BY DEF Merge
<1>3. \A s \in DOMAIN pool' : Inside(s)
  BY <1>1, <1>2
<1> QED BY <1>3 DEF ScopeHeld, Inside

\* Every step of the planner that leaves the evidence alone.
LEMMA SameEvidence ==
  ASSUME ScopeInv, UNCHANGED <<base, pool>>, base.repos # {} => scope' = base
  PROVE  ScopeInv'
BY DEF ScopeInv, ScopeHeld

LEMMA PlannerScope ==
  ASSUME ScopeInv, PlannerNext
  PROVE  ScopeInv'
<1> USE DEF Quiet
<1>1. CASE ModelFails \/ Unsupported \/ FallBack \/ WrapUp \/ PlanFails
  <2>1. UNCHANGED <<base, pool, scope>>
    BY <1>1 DEF ModelFails, Unsupported, FallBack, WrapUp, PlanFails
  <2> QED BY <2>1, SameEvidence DEF ScopeInv
<1>2. CASE ToolFails \/ ReadDiagnostics \/ Finish
  <2>1. PICK f \in Replies : Decide(f)
    BY <1>2 DEF ToolFails, ReadDiagnostics, Finish
  <2>2. UNCHANGED <<base, pool>>
    BY <1>2 DEF ToolFails, ReadDiagnostics, Finish
  <2>3. scope' = ScopeFrom(f)
    BY <2>1 DEF Decide
  <2> QED BY <2>2, <2>3, DecideScope, SameEvidence
<1>3. CASE SearchCodeEvidence
  <2>1. PICK f \in Replies :
          /\ Curates(f)
          /\ \E found \in SUBSET InReach(ScopeFrom(f)),
                current \in SUBSET ScopeFrom(f).file, score \in SearchScores :
               pool' = Merge(pool, Finds(ScopeFrom(f), found, current, score))
    BY <1>3 DEF SearchCodeEvidence
  <2>2. PICK found \in SUBSET InReach(ScopeFrom(f)),
             current \in SUBSET ScopeFrom(f).file, score \in SearchScores :
               pool' = Merge(pool, Finds(ScopeFrom(f), found, current, score))
    BY <2>1
  <2>3. UNCHANGED base /\ scope' = ScopeFrom(f)
    BY <1>3, <2>1 DEF SearchCodeEvidence, Curates, Decide
  <2>4. base.repos # {} => ScopeFrom(f) = base
    BY DecideScope
  <2>5. \A s \in DOMAIN Finds(ScopeFrom(f), found, current, score) : Inside(s)
    BY <2>4, SearchInside
  <2>6. ScopeHeld'
    BY <2>2, <2>3, <2>5, MergeInside DEF ScopeInv
  <2> QED BY <2>3, <2>4, <2>6 DEF ScopeInv
<1>4. CASE ViewFileSlice
  <2>1. PICK f \in Replies :
          /\ Curates(f)
          /\ \E s \in Slices, byCommit \in BOOLEAN :
               /\ ViewAllowed(ScopeFrom(f), s.repo)
               /\ pool' = Merge(pool, [r \in {s} |->
                                         Found(ViewLabel(s, byCommit), ViewScore)])
    BY <1>4 DEF ViewFileSlice
  <2>2. PICK s \in Slices, byCommit \in BOOLEAN :
          /\ ViewAllowed(ScopeFrom(f), s.repo)
          /\ pool' = Merge(pool, [r \in {s} |->
                                    Found(ViewLabel(s, byCommit), ViewScore)])
    BY <2>1
  <2>3. UNCHANGED base /\ scope' = ScopeFrom(f)
    BY <1>4, <2>1 DEF ViewFileSlice, Curates, Decide
  <2>4. base.repos # {} => ScopeFrom(f) = base
    BY DecideScope
  <2>5. Inside(s)
    BY <2>2, <2>4, ViewInside
  <2>6. ScopeHeld'
    <3> DEFINE new == [r \in {s} |-> Found(ViewLabel(s, byCommit), ViewScore)]
    <3>1. \A r \in DOMAIN new : Inside(r)
      BY <2>5
    <3>2. pool' = Merge(pool, new)
      BY <2>2
    <3> HIDE DEF new
    <3> QED BY <2>3, <3>1, <3>2, MergeInside DEF ScopeInv
  <2> QED BY <2>3, <2>4, <2>6 DEF ScopeInv
<1>5. CASE AssessContract
  <2>1. PICK f \in Replies :
          /\ Curates(f)
          /\ \E opinion \in Opinions :
               pool' = Assessed(ContractOf(FrameFrom(f)), opinion)
    BY <1>5 DEF AssessContract
  <2>2. UNCHANGED base /\ scope' = ScopeFrom(f)
    BY <1>5, <2>1 DEF AssessContract, Curates, Decide
  <2>3. DOMAIN pool' = DOMAIN pool
    BY <2>1 DEF Assessed
  <2>4. base.repos # {} => scope' = base
    BY <2>2, DecideScope
  <2> QED BY <2>2, <2>3, <2>4 DEF ScopeInv, ScopeHeld
<1>6. CASE FallbackSearch
  <2>1. PICK found \in SUBSET InReach(scope), current \in SUBSET scope.file,
             score \in SearchScores :
               pool' = Merge(pool, Finds(scope, found, current, score))
    BY <1>6 DEF FallbackSearch
  <2>2. UNCHANGED <<base, scope>>
    BY <1>6 DEF FallbackSearch
  <2>3. base.repos # {} => scope = base
    BY DEF ScopeInv
  <2>4. \A s \in DOMAIN Finds(scope, found, current, score) : Inside(s)
    BY <2>3, SearchInside
  <2>5. ScopeHeld'
    BY <2>1, <2>2, <2>4, MergeInside DEF ScopeInv
  <2> QED BY <2>2, <2>3, <2>5 DEF ScopeInv
<1> QED BY <1>1, <1>2, <1>3, <1>4, <1>5, <1>6 DEF PlannerNext

\* The handler's own steps leave the planner alone, or start or clear it.
LEMMA HandlerScope ==
  ASSUME ScopeInv, Next, ~Plan
  PROVE  ScopeInv'
<1> USE DEF Unplanned, plannerVars
<1>1. CASE Planned
  <2>1. scope' = base /\ UNCHANGED base /\ DOMAIN pool' = {}
    BY <1>1 DEF Planned, EmptyPool
  <2> QED BY <2>1 DEF ScopeInv, ScopeHeld
<1>2. CASE Served
  BY <1>2 DEF Served, vars, ScopeInv, ScopeHeld
<1>3. CASE ~Planned /\ ~Served
  <2>1. UNCHANGED <<base, scope, pool>>
    BY <1>3 DEF Next, Server, Break, Cancel, InsertUserMessage, CreateRun,
       InsertAssistantMessage, Interrupted, OpenPlan, PlanFailed, Record,
       AnswerLocally, ProviderFails, ProviderAnswers, ProviderBreaksOff,
       AnswerAfterCancel, VerifyDraft, RewriteDraft, RewriteFails, ShowAnswer,
       InsertAnswer, SettleMessage, FinishRun, Announce
  <2> QED BY <2>1 DEF ScopeInv, ScopeHeld
<1> QED BY <1>1, <1>2, <1>3

(***************************************************************************)
(* No evidence comes from outside the repositories the user selected,      *)
(* whatever the conversation brings along and the model asks to see.       *)
(***************************************************************************)
THEOREM EvidenceStaysInScope == Spec => []ScopeHeld
<1>1. Init => ScopeInv
  BY DEF Init, PlannerInit, ScopeInv, ScopeHeld, EmptyPool
<1>2. ScopeInv /\ [Next]_vars => ScopeInv'
  <2> SUFFICES ASSUME ScopeInv, [Next]_vars PROVE ScopeInv'
    OBVIOUS
  <2>1. CASE UNCHANGED vars
    BY <2>1 DEF vars, plannerVars, ScopeInv, ScopeHeld
  <2>2. CASE Plan
    BY <2>2, PlannerScope DEF Plan
  <2>3. CASE Next /\ ~Plan
    BY <2>3, HandlerScope
  <2> QED BY <2>1, <2>2, <2>3
<1>3. ScopeInv => ScopeHeld
  BY DEF ScopeInv
<1> QED BY <1>1, <1>2, <1>3, PTL DEF Spec

-----------------------------------------------------------------------------
(* The report.  A planner that is done returns the report of the contract   *)
(* and of the evidence it ends with.                                        *)

FinalOf(f, evidence, keys) ==
    MarkCompletedWithGaps(Check(ContractOf(f), evidence, keys))

ReportInv == stage = "done" => report = FinalOf(frame, pool, seen)

LEMMA ReportKept ==
  ASSUME ReportInv, [Next]_vars
  PROVE  ReportInv'
<1>1. CASE WrapUp
  BY <1>1 DEF WrapUp, FinalReport, FinalOf, ReportInv
<1>2. CASE FallbackSearch
  <2>1. CASE stage' = "done"
    <3>1. stage = "fallback" /\ UNCHANGED frame
      BY <1>2 DEF FallbackSearch
    <3>2. report' = MarkCompletedWithGaps(Check(ContractOf(frame), pool', seen'))
      BY <1>2, <2>1, <3>1 DEF FallbackSearch
    <3> QED BY <3>1, <3>2 DEF ReportInv, FinalOf, ContractOf
  <2> QED BY <2>1 DEF ReportInv
<1>3. CASE Plan /\ ~WrapUp /\ ~FallbackSearch
  <2>1. stage' # "done"
    BY <1>3 DEF Plan, PlannerNext, ModelFails, Unsupported, ToolFails,
       ReadDiagnostics, SearchCodeEvidence, ViewFileSlice, AssessContract, Finish,
       FallBack, PlanFails, Continued, Observed
  <2> QED BY <2>1 DEF ReportInv
<1>4. CASE Planned \/ OpenPlan
  <2>1. stage' # "done"
    BY <1>4 DEF Planned, OpenPlan
  <2> QED BY <2>1 DEF ReportInv
<1>5. CASE UNCHANGED vars
  BY <1>5 DEF vars, plannerVars, ReportInv
<1>6. CASE Next /\ ~Plan /\ ~Planned /\ ~OpenPlan
  <2>1. UNCHANGED <<stage, report, frame, pool, seen>>
    BY <1>6 DEF Unplanned, vars, plannerVars, Next, Server, Served, Break, Cancel,
       InsertUserMessage, CreateRun, InsertAssistantMessage, Interrupted,
       PlanFailed, Record, AnswerLocally, ProviderFails, ProviderAnswers,
       ProviderBreaksOff, AnswerAfterCancel, VerifyDraft, RewriteDraft,
       RewriteFails, ShowAnswer, InsertAnswer, SettleMessage, FinishRun, Announce
  <2> QED BY <2>1 DEF ReportInv
<1> QED BY <1>1, <1>2, <1>3, <1>4, <1>5, <1>6 DEF Plan

\* A report without gaps: every key that is required is covered, or something
\* forbidden was found.
LEMMA NoGapsIsCovered ==
  ASSUME NEW contract, NEW evidence, NEW keys,
         LET r == MarkCompletedWithGaps(Check(contract, evidence, keys))
         IN r.missing = {} /\ r.status # "completed_with_gaps"
  PROVE  \/ \E k \in KeysOfContract(contract) :
              ItemStatus(contract, evidence, keys, k) = "forbidden"
         \/ contract.required \subseteq
              Check(contract, evidence, KeysOfContract(contract)).covered
<1> DEFINE r == Check(contract, evidence, keys)
           all == KeysOfContract(contract)
<1>1. r.missing = {} /\ r.status # "conflict"
  <2>1. CASE StillNeedsRetrieval(r)
    BY <2>1 DEF MarkCompletedWithGaps, Check
  <2>2. CASE ~StillNeedsRetrieval(r)
    BY <2>2 DEF StillNeedsRetrieval
  <2> QED BY <2>1, <2>2
<1> SUFFICES ASSUME ~ \E k \in all : ItemStatus(contract, evidence, keys, k) = "forbidden",
                    NEW k \in contract.required
             PROVE  ItemStatus(contract, evidence, all, k) = "covered"
  BY DEF Check, KeysOfContract
<1>2. k \in all
  BY DEF KeysOfContract
<1>3. ItemStatus(contract, evidence, keys, k) \notin {"missing", "partial"}
  BY <1>1, <1>2 DEF Check, KeysOfContract
<1>4. ItemStatus(contract, evidence, keys, k) # "conflict"
  BY <1>1, <1>2 DEF Check
<1>5. ItemStatus(contract, evidence, keys, k) = "covered"
  BY <1>2, <1>3, <1>4 DEF ItemStatus
<1>6. k \in keys
  BY <1>5 DEF ItemStatus
<1> QED BY <1>2, <1>5, <1>6 DEF ItemStatus

-----------------------------------------------------------------------------
(* What the verifier says.                                                  *)

FinalStatuses == {"succeeded", "completed_with_gaps", "verification_failed",
                  "insufficient_evidence"}

LEMMA RunStatusIsFinal ==
  ASSUME NEW r, NEW q
  PROVE  /\ RunStatus(r, q) \in FinalStatuses
         /\ RunStatus(r, q) = "succeeded" => q.some /\ r.status = "pass"
         /\ q.some /\ r.status = "completed_with_gaps" =>
              RunStatus(r, q) = "completed_with_gaps"
BY DEF RunStatus, FinalStatuses

LEMMA PassIsClean ==
  ASSUME NEW a, NEW q, LET r == Verify(a, q) IN r.next = "pass" \/ r.status = "pass"
  PROVE  FailedChecks(a, q) = {} /\ ~q.missing /\ ~q.gaps
BY DEF Verify, Finalize

LEMMA ReplacedKeepsPass ==
  ASSUME NEW r, NEW rewritten, Replaced(r, rewritten).status = "pass"
  PROVE  r.status = "pass"
<1>1. CASE Replaced(r, rewritten) = r
  BY <1>1
<1>2. CASE Replaced(r, rewritten) = [r EXCEPT !.status = "verification_failed"]
  BY <1>2
<1> QED BY <1>1, <1>2 DEF Replaced

\* A rewriting that is accepted shows no secret and claims no change, and fails
\* a check only when the answer counts as one with gaps.
LEMMA AcceptedIsSafe ==
  ASSUME NEW a, NEW q, RewriteAccepted(Verify(a, q))
  PROVE  LET failed == FailedChecks(a, q)
         IN /\ failed \intersect {"secret_exposure", "unauthorized_behavior"} = {}
            /\ failed # {} => Verify(a, q).status = "completed_with_gaps"
BY DEF RewriteAccepted, Verify, Finalize

-----------------------------------------------------------------------------
(* The handler's invariants.                                                *)

Planning == {"user", "run", "message", "open", "planning"}
Unshown == Planning \union {"record", "answer", "verify", "show"}

\* A row of ai_messages has its columns.
IsRow(m) == m = [text |-> m.text, from |-> m.from, status |-> m.status]

\* What the rows hold at each step, so that they agree at the end.
RowsInv ==
    /\ way \in {"block", "stream"} /\ IsRow(msg)
    /\ pc \in {"user", "run", "message"} => msg.status = "none"
    /\ pc \notin {"announce", "over"} => run \in {"none", "running"}
    /\ pc \in {"show", "settle", "finish", "announce"} => verdict \in FinalStatuses
    /\ Streams /\ pc \in {"finish", "announce"} => msg.status = "success"
    /\ pc = "announce" => Streams /\ run \in FinalStatuses
    /\ RowsSettle

\* The text of a model that may be shown, in a run that gets this verdict.
Showable(text, from) ==
    from \in {"model", "rewrite"} =>
        LET failed == FailedChecks(text, p)
        IN /\ failed \intersect {"secret_exposure", "unauthorized_behavior"} = {}
           /\ failed # {} => from = "rewrite" /\ verdict = "completed_with_gaps"

TextInv ==
    /\ IsRow(msg)
    /\ pc \in Unshown => msg.from = "none"
    /\ pc = "verify" => draft.from \in {"model", "local"}
    /\ pc = "show" => Showable(draft.text, draft.from)
    /\ Showable(msg.text, msg.from)

\* A plan without gaps is one that is covered, and success needs such a plan.
SuccessInv ==
    /\ pc \in Planning => verdict = "none"
    /\ pc \notin {"announce", "over"} => run # "succeeded"
    /\ p.some /\ ~p.missing /\ ~p.gaps => p.covered \/ p.forbidden
    /\ verdict = "succeeded" => p.some /\ ~p.missing /\ ~p.gaps
    /\ run = "succeeded" => verdict = "succeeded"

\* What a step of the handler is, when it is none of the verifier's.
Verifying == VerifyDraft \/ RewriteDraft \/ RewriteFails

LEMMA VerifyingSteps ==
  ASSUME Verifying
  PROVE  /\ pc = "verify" /\ pc' = "show" /\ UNCHANGED <<way, p, left, run, msg>>
         /\ \/ \E text, from, r : Keep(text, from, r) /\ r = Verify(text, p)
            \/ \E text, rewritten : Replace(Verify(text, p), rewritten)
BY DEF Verifying, VerifyDraft, RewriteDraft, RewriteFails

LEMMA RowsKept ==
  ASSUME RowsInv, [Next]_vars
  PROVE  RowsInv'
<1> USE DEF Streams, FinalStatuses, Over
<1>1. CASE UNCHANGED askVars
  BY <1>1 DEF askVars, RowsInv, IsRow, RowsSettle
<1>2. CASE Verifying
  <2>1. verdict' \in FinalStatuses
    BY <1>2, VerifyingSteps, RunStatusIsFinal DEF Keep, Replace
  <2> QED BY <1>2, <2>1, VerifyingSteps DEF RowsInv, IsRow, RowsSettle
<1>3. CASE InsertUserMessage \/ CreateRun \/ InsertAssistantMessage
  BY <1>3 DEF InsertUserMessage, CreateRun, InsertAssistantMessage, RowsInv, IsRow,
     RowsSettle
<1>4. CASE Interrupted \/ PlanFailed
  BY <1>4 DEF Interrupted, Deferred, PlanFailed, RowsInv, IsRow, RowsSettle
<1>5. CASE OpenPlan \/ Planned \/ Record
  BY <1>5 DEF OpenPlan, Planned, Record, RowsInv, IsRow, RowsSettle
<1>6. CASE AnswerLocally \/ ProviderFails \/ ProviderAnswers \/ ProviderBreaksOff
           \/ AnswerAfterCancel
  BY <1>6 DEF AnswerLocally, ProviderFails, ProviderAnswers, ProviderBreaksOff,
     AnswerAfterCancel, Drafted, RowsInv, IsRow, RowsSettle
<1>7. CASE ShowAnswer \/ InsertAnswer
  BY <1>7 DEF ShowAnswer, InsertAnswer, RowsInv, IsRow, RowsSettle
<1>8. CASE SettleMessage \/ FinishRun \/ Announce
  BY <1>8 DEF SettleMessage, FinishRun, Announce, RowsInv, IsRow, RowsSettle
<1>9. CASE Break \/ Cancel \/ Served \/ Plan \/ UNCHANGED vars
  BY <1>1, <1>9 DEF Break, Cancel, Served, Plan, vars, askVars
<1> QED BY <1>1, <1>2, <1>3, <1>4, <1>5, <1>6, <1>7, <1>8, <1>9
        DEF Next, Server, Verifying

LEMMA TextKept ==
  ASSUME TextInv, [Next]_vars
  PROVE  TextInv'
<1> USE DEF Streams, Over, Unshown, Planning
<1>1. CASE UNCHANGED askVars
  BY <1>1 DEF askVars, TextInv, IsRow, Showable
<1>2. CASE VerifyDraft
  <2> DEFINE r == Verify(draft.text, p)
  <2>1. UNCHANGED <<p, msg>> /\ pc' = "show" /\ pc = "verify"
    BY <1>2 DEF VerifyDraft
  <2>2. CASE Passes(r)
    <3>1. Keep(draft.text, draft.from, r)
      BY <1>2, <2>2 DEF VerifyDraft
    <3>2. FailedChecks(draft.text, p) = {}
      BY <2>2, PassIsClean DEF Passes
    <3> QED BY <2>1, <3>1, <3>2 DEF Keep, TextInv, IsRow, Showable
  <2>3. CASE ~Passes(r)
    <3>1. Replace(r, FALSE)
      BY <1>2, <2>3 DEF VerifyDraft
    <3>2. draft'.from = "conservative"
      BY <3>1 DEF Replace
    <3> QED BY <2>1, <3>2 DEF TextInv, IsRow, Showable
  <2> QED BY <2>2, <2>3
<1>3. CASE RewriteDraft
  <2>1. UNCHANGED <<p, msg>> /\ pc' = "show" /\ pc = "verify" /\ p.some
    BY <1>3 DEF RewriteDraft, IsRewritten, HasModel
  <2>2. PICK text \in Answers :
          LET r == Verify(text, p)
          IN IF RewriteAccepted(r) THEN Keep(text, "rewrite", r)
             ELSE Replace(r, TRUE)
    BY <1>3 DEF RewriteDraft
  <2> DEFINE r == Verify(text, p)
  <2>3. CASE RewriteAccepted(r)
    <3>1. draft' = [text |-> text, from |-> "rewrite"] /\ verdict' = RunStatus(r, p)
      BY <2>2, <2>3 DEF Keep
    <3>2. FailedChecks(text, p) # {} => verdict' = "completed_with_gaps"
      BY <2>1, <2>3, <3>1, AcceptedIsSafe, RunStatusIsFinal
    <3>3. FailedChecks(text, p)
            \intersect {"secret_exposure", "unauthorized_behavior"} = {}
      BY <2>3, AcceptedIsSafe
    <3> QED BY <2>1, <3>1, <3>2, <3>3 DEF TextInv, IsRow, Showable
  <2>4. CASE ~RewriteAccepted(r)
    <3>1. draft'.from = "conservative"
      BY <2>2, <2>4 DEF Replace
    <3> QED BY <2>1, <3>1 DEF TextInv, IsRow, Showable
  <2> QED BY <2>3, <2>4
<1>4. CASE RewriteFails
  <2>1. draft'.from = "conservative" /\ UNCHANGED <<p, msg>> /\ pc' = "show"
        /\ pc = "verify"
    BY <1>4 DEF RewriteFails, Replace
  <2> QED BY <2>1 DEF TextInv, IsRow, Showable
<1>5. CASE InsertUserMessage \/ CreateRun \/ InsertAssistantMessage
  BY <1>5 DEF InsertUserMessage, CreateRun, InsertAssistantMessage, TextInv, IsRow,
     Showable
<1>6. CASE Interrupted \/ PlanFailed
  BY <1>6 DEF Interrupted, Deferred, PlanFailed, TextInv, IsRow, Showable
<1>7. CASE OpenPlan \/ Planned \/ Record
  BY <1>7 DEF OpenPlan, Planned, Record, TextInv, IsRow, Showable
<1>8. CASE AnswerLocally \/ ProviderFails \/ ProviderAnswers \/ ProviderBreaksOff
           \/ AnswerAfterCancel
  BY <1>8 DEF AnswerLocally, ProviderFails, ProviderAnswers, ProviderBreaksOff,
     AnswerAfterCancel, Drafted, TextInv, IsRow, Showable
<1>9. CASE ShowAnswer \/ InsertAnswer
  BY <1>9 DEF ShowAnswer, InsertAnswer, TextInv, IsRow, Showable
<1>10. CASE SettleMessage \/ FinishRun \/ Announce
  BY <1>10 DEF SettleMessage, FinishRun, Announce, TextInv, IsRow, Showable
<1>11. CASE Break \/ Cancel \/ Served \/ Plan \/ UNCHANGED vars
  BY <1>1, <1>11 DEF Break, Cancel, Served, Plan, vars, askVars
<1> QED BY <1>1, <1>2, <1>3, <1>4, <1>5, <1>6, <1>7, <1>8, <1>9, <1>10, <1>11
        DEF Next, Server

\* A plan that is made has no gaps only when its evidence covers the contract.
LEMMA PlannedIsCovered ==
  ASSUME ReportInv, Planned
  PROVE  p'.some /\ ~p'.missing /\ ~p'.gaps => p'.covered \/ p'.forbidden
<1>1. report = FinalOf(frame, pool, seen) /\ p' = Summary
  BY DEF Planned, ReportInv
<1> SUFFICES ASSUME ~Summary.missing, ~Summary.gaps
             PROVE  Summary.covered \/ Summary.forbidden
  BY <1>1
<1>2. report.missing = {} /\ report.status # "completed_with_gaps"
  BY DEF Summary
<1> DEFINE contract == ContractOf(frame)
           keys == KeysOfContract(contract)
<1>3. \/ \E k \in keys : ItemStatus(contract, pool, seen, k) = "forbidden"
      \/ contract.required \subseteq Check(contract, pool, keys).covered
  BY <1>1, <1>2, NoGapsIsCovered DEF FinalOf
<1> QED BY <1>3 DEF Summary

LEMMA SuccessKept ==
  ASSUME SuccessInv, ReportInv, [Next]_vars
  PROVE  SuccessInv'
<1> USE DEF Streams, Over, Planning
<1>1. CASE UNCHANGED askVars
  BY <1>1 DEF askVars, SuccessInv
<1>2. CASE Verifying
  <2>1. verdict' = "succeeded" => p.some /\ ~p.missing /\ ~p.gaps
    <3>1. ASSUME NEW text, NEW from, Keep(text, from, Verify(text, p))
          PROVE  verdict' = "succeeded" => p.some /\ ~p.missing /\ ~p.gaps
      BY <3>1, RunStatusIsFinal, PassIsClean DEF Keep
    <3>2. ASSUME NEW text, NEW rewritten, Replace(Verify(text, p), rewritten)
          PROVE  verdict' = "succeeded" => p.some /\ ~p.missing /\ ~p.gaps
      BY <3>2, RunStatusIsFinal, PassIsClean, ReplacedKeepsPass DEF Replace
    <3> QED BY <1>2, <3>1, <3>2, VerifyingSteps
  <2> QED BY <1>2, <2>1, VerifyingSteps DEF SuccessInv
<1>3. CASE InsertUserMessage \/ CreateRun \/ InsertAssistantMessage
  BY <1>3 DEF InsertUserMessage, CreateRun, InsertAssistantMessage, SuccessInv
<1>4. CASE Interrupted \/ PlanFailed
  BY <1>4 DEF Interrupted, Deferred, PlanFailed, SuccessInv
<1>5. CASE OpenPlan \/ Record
  BY <1>5 DEF OpenPlan, Record, SuccessInv
<1>6. CASE Planned
  <2>1. pc = "planning" /\ pc' = "record" /\ UNCHANGED <<verdict, run>>
    BY <1>6 DEF Planned
  <2> QED BY <1>6, <2>1, PlannedIsCovered DEF SuccessInv
<1>7. CASE AnswerLocally \/ ProviderFails \/ ProviderAnswers \/ ProviderBreaksOff
           \/ AnswerAfterCancel
  BY <1>7 DEF AnswerLocally, ProviderFails, ProviderAnswers, ProviderBreaksOff,
     AnswerAfterCancel, Drafted, SuccessInv
<1>8. CASE ShowAnswer \/ InsertAnswer
  BY <1>8 DEF ShowAnswer, InsertAnswer, SuccessInv
<1>9. CASE SettleMessage \/ FinishRun \/ Announce
  BY <1>9 DEF SettleMessage, FinishRun, Announce, SuccessInv
<1>10. CASE Break \/ Cancel \/ Served \/ Plan \/ UNCHANGED vars
  BY <1>1, <1>10 DEF Break, Cancel, Served, Plan, vars, askVars
<1> QED BY <1>1, <1>2, <1>3, <1>4, <1>5, <1>6, <1>7, <1>8, <1>9, <1>10
        DEF Next, Server, Verifying

-----------------------------------------------------------------------------
(* The types.  Rounds and searches are bounded by the stage the planner is  *)
(* in: the loop searches at most once a round, and the retrieval that needs *)
(* no model starts its count anew.                                          *)

IsTalk(t) == t \in [available : BOOLEAN, focus : SUBSET Repos, follow : BOOLEAN]

\* A piece of evidence, as it is found or assessed.
IsFind(e) ==
    /\ DOMAIN e = {"scope", "score", "marks"}
    /\ e.scope \in SourceScopes /\ DOMAIN e.marks \subseteq AssessedKeys

IsPool(evidence) ==
    /\ DOMAIN evidence \subseteq Slices
    /\ \A s \in DOMAIN evidence : IsFind(evidence[s])

ScopesInv == IsScope(base) /\ IsScope(scope) /\ IsTalk(talk)

CountInv ==
    /\ stage \in Stages
    /\ round \in 0..MaxPlannerRounds /\ searches \in Nat
    /\ stage = "off" => round = 0 /\ searches = 0
    /\ stage \in {"loop", "ended"} => searches <= round
    /\ stage = "fallback" => searches < MaxSearches
    /\ stage \in {"done", "failed"} =>
          searches <= MaxPlannerRounds \/ searches <= MaxSearches

HandlerInv ==
    /\ conn \in {"up", "broken", "cancelled"}
    /\ pc \in Steps /\ left \in 0..Providers
    /\ draft.from \in Sources /\ IsRow(msg) /\ msg.from \in Sources
    /\ msg.status \in {"none", "streaming", "partial", "failed", "success"}
    /\ run \in {"none", "running", "failed"} \union FinalStatuses
    /\ pc \in {"user", "run", "message", "open"} => stage = "off"

TypeInv == ScopesInv /\ IsPool(pool) /\ CountInv /\ HandlerInv

LEMMA FoundIsFind ==
  ASSUME NEW label \in SourceScopes, NEW score
  PROVE  IsFind(Found(label, score))
BY DEF IsFind, Found, NoMarks

LEMMA MergeIsPool ==
  ASSUME NEW old, NEW new, IsPool(old), IsPool(new)
  PROVE  IsPool(Merge(old, new))
BY DEF IsPool, Merge

LEMMA FindsIsPool ==
  ASSUME NEW sc, IsScope(sc), NEW found \in SUBSET InReach(sc),
         NEW current \in SUBSET sc.file, NEW score
  PROVE  IsPool(Finds(sc, found, current, score))
<1>1. found \subseteq Slices /\ current \subseteq Slices
  BY DEF IsScope, InReach
<1>2. \A s : SearchScope(s) \in SourceScopes
  BY DEF SearchScope, RefScope, SourceScopes
<1>3. "smart_latest" \in SourceScopes
  BY DEF SourceScopes
<1> QED BY <1>1, <1>2, <1>3, FoundIsFind DEF IsPool, Finds

\* The keys that are marked in an assessment are the ones a model assesses.
LEMMA AssessedIsPool ==
  ASSUME IsPool(pool), NEW contract, NEW opinion
  PROVE  IsPool(Assessed(contract, opinion))
<1> DEFINE accepted == {k \in DOMAIN opinion : Accepted(contract, k, opinion[k])}
           marked(s) == {k \in accepted : s \in opinion[k].refs
                                             /\ opinion[k].status # "missing"}
           kept(s) == DOMAIN pool[s].marks \ accepted
           marks(s) == [k \in kept(s) \union marked(s) |->
                          IF k \in marked(s) THEN opinion[k].status ELSE pool[s].marks[k]]
           new == [s \in DOMAIN pool |-> [pool[s] EXCEPT !.marks = marks(s)]]
<1>1. accepted \subseteq AssessedKeys
  BY DEF Accepted
<1>2. ASSUME NEW s \in DOMAIN pool PROVE IsFind(new[s])
  <2>1. IsFind(pool[s])
    BY DEF IsPool
  <2>2. kept(s) \subseteq AssessedKeys /\ marked(s) \subseteq AssessedKeys
    BY <1>1, <2>1 DEF IsFind
  <2>3. DOMAIN marks(s) \subseteq AssessedKeys
    BY <2>2
  <2> HIDE DEF marks
  <2>4. [pool[s] EXCEPT !.marks = marks(s)].scope = pool[s].scope
        /\ [pool[s] EXCEPT !.marks = marks(s)].marks = marks(s)
    BY <2>1 DEF IsFind
  <2> QED BY <2>1, <2>3, <2>4 DEF IsFind
<1>3. DOMAIN new = DOMAIN pool
  OBVIOUS
<1>4. Assessed(contract, opinion) = new
  BY DEF Assessed
<1> HIDE DEF new
<1> QED BY <1>2, <1>3, <1>4 DEF IsPool

LEMMA DecideKeepsScopes ==
  ASSUME ScopesInv, NEW f
  PROVE  IsScope(ScopeFrom(f)) /\ IsTalk(TalkFrom(f))
<1>1. IsTalk(TalkFrom(f))
  BY DEF ScopesInv, IsTalk, TalkFrom
<1>2. IsScope([base EXCEPT !.repos = talk.focus, !.mode = "follow_up_context"])
  <2>1. ASSUME NEW sc, IsScope(sc), NEW repos \in SUBSET Repos, NEW mode
        PROVE  IsScope([sc EXCEPT !.repos = repos, !.mode = mode])
    BY <2>1 DEF IsScope
  <2> QED BY <2>1 DEF ScopesInv, IsTalk
<1> QED BY <1>1, <1>2 DEF ScopesInv, ScopeFrom

\* A round more is made and, unless rounds are over, another one follows.
LEMMA RoundCounted ==
  ASSUME CountInv, InLoop, round' = round + 1, stage' \in {"loop", "ended"},
         searches' \in {searches, searches + 1}
  PROVE  CountInv'
BY RoundsArePositive DEF CountInv, InLoop, Stages

LEMMA RoundEnds ==
  ASSUME Continued \/ Observed
  PROVE  round' = round + 1 /\ stage' \in {"loop", "ended"}
BY DEF Continued, Observed

LEMMA PlannerCounts ==
  ASSUME CountInv, PlannerNext
  PROVE  CountInv'
<1>1. CASE ModelFails
  BY <1>1 DEF ModelFails, InLoop, CountInv, Stages
<1>2. CASE Unsupported \/ ToolFails \/ ReadDiagnostics \/ ViewFileSlice \/ AssessContract
  <2>1. InLoop /\ (Continued \/ Observed) /\ searches' = searches
    BY <1>2 DEF Unsupported, ToolFails, ReadDiagnostics, ViewFileSlice, AssessContract
  <2> QED BY <2>1, RoundEnds, RoundCounted
<1>3. CASE SearchCodeEvidence
  <2>1. InLoop /\ Observed /\ searches' = searches + 1
    BY <1>3 DEF SearchCodeEvidence
  <2> QED BY <2>1, RoundEnds, RoundCounted
<1>4. CASE Finish
  <2>1. InLoop /\ round' = round + 1 /\ stage' = "ended" /\ searches' = searches
    BY <1>4 DEF Finish
  <2> QED BY <2>1, RoundCounted
<1>5. CASE FallBack
  BY <1>5, RoundsArePositive DEF FallBack, CountInv, Stages
<1>6. CASE WrapUp
  BY <1>6, RoundsArePositive DEF WrapUp, CountInv, Stages
<1>7. CASE FallbackSearch
  <2>1. stage = "fallback" /\ round' = round /\ searches' = searches + 1
        /\ (stage' = "done" \/ (stage' = stage /\ searches' < MaxSearches))
    BY <1>7 DEF FallbackSearch
  <2> QED BY <2>1, RoundsArePositive DEF CountInv, Stages
<1>8. CASE PlanFails
  BY <1>8, RoundsArePositive DEF PlanFails, CountInv, Stages
<1> QED BY <1>1, <1>2, <1>3, <1>4, <1>5, <1>6, <1>7, <1>8 DEF PlannerNext

LEMMA PlannerTypes ==
  ASSUME ScopesInv, IsPool(pool), PlannerNext
  PROVE  ScopesInv' /\ IsPool(pool)'
<1> USE DEF Quiet
<1>1. CASE ModelFails \/ Unsupported \/ FallBack \/ WrapUp \/ PlanFails
  BY <1>1 DEF ModelFails, Unsupported, FallBack, WrapUp, PlanFails, ScopesInv,
     IsScope, IsTalk, IsPool
<1>2. CASE FallbackSearch
  <2>1. PICK found \in SUBSET InReach(scope), current \in SUBSET scope.file,
             score \in SearchScores :
               pool' = Merge(pool, Finds(scope, found, current, score))
    BY <1>2 DEF FallbackSearch
  <2>2. UNCHANGED <<base, scope, talk>>
    BY <1>2 DEF FallbackSearch
  <2>3. IsPool(pool')
    BY <2>1, FindsIsPool, MergeIsPool DEF ScopesInv
  <2> QED BY <2>2, <2>3 DEF ScopesInv, IsScope, IsTalk, IsPool
<1>3. ASSUME NEW f \in Replies, Decide(f), UNCHANGED base
      PROVE  ScopesInv' /\ IsScope(ScopeFrom(f))
  <2>1. IsScope(ScopeFrom(f)) /\ IsTalk(TalkFrom(f)) /\ IsScope(base)
    BY DecideKeepsScopes DEF ScopesInv
  <2>2. scope' = ScopeFrom(f) /\ talk' = TalkFrom(f) /\ base' = base
    BY <1>3 DEF Decide
  <2> QED BY <2>1, <2>2 DEF ScopesInv, IsScope, IsTalk
<1>4. CASE ToolFails \/ ReadDiagnostics \/ Finish
  <2>1. PICK f \in Replies : Decide(f)
    BY <1>4 DEF ToolFails, ReadDiagnostics, Finish
  <2>2. UNCHANGED <<base, pool>>
    BY <1>4 DEF ToolFails, ReadDiagnostics, Finish
  <2> QED BY <1>3, <2>1, <2>2 DEF IsPool
<1>5. CASE SearchCodeEvidence
  <2>1. PICK f \in Replies :
          /\ Curates(f)
          /\ \E found \in SUBSET InReach(ScopeFrom(f)),
                current \in SUBSET ScopeFrom(f).file, score \in SearchScores :
               pool' = Merge(pool, Finds(ScopeFrom(f), found, current, score))
    BY <1>5 DEF SearchCodeEvidence
  <2>2. PICK found \in SUBSET InReach(ScopeFrom(f)),
             current \in SUBSET ScopeFrom(f).file, score \in SearchScores :
               pool' = Merge(pool, Finds(ScopeFrom(f), found, current, score))
    BY <2>1
  <2>3. ScopesInv' /\ IsScope(ScopeFrom(f))
    BY <1>3, <1>5, <2>1 DEF SearchCodeEvidence, Curates
  <2>4. IsPool(pool')
    BY <2>2, <2>3, FindsIsPool, MergeIsPool
  <2> QED BY <2>3, <2>4 DEF IsPool
<1>6. CASE ViewFileSlice
  <2>1. PICK f \in Replies :
          /\ Curates(f)
          /\ \E s \in Slices, byCommit \in BOOLEAN :
               pool' = Merge(pool, [r \in {s} |->
                                      Found(ViewLabel(s, byCommit), ViewScore)])
    BY <1>6 DEF ViewFileSlice
  <2>2. PICK s \in Slices, byCommit \in BOOLEAN :
          pool' = Merge(pool, [r \in {s} |-> Found(ViewLabel(s, byCommit), ViewScore)])
    BY <2>1
  <2>3. ScopesInv'
    BY <1>3, <1>6, <2>1 DEF ViewFileSlice, Curates
  <2>4. ViewLabel(s, byCommit) \in SourceScopes
    BY DEF ViewLabel, RefScope, SourceScopes
  <2>5. IsPool([r \in {s} |-> Found(ViewLabel(s, byCommit), ViewScore)])
    BY <2>4, FoundIsFind DEF IsPool
  <2>6. IsPool(pool')
    BY <2>2, <2>5, MergeIsPool
  <2> QED BY <2>3, <2>6 DEF IsPool
<1>7. CASE AssessContract
  <2>1. PICK f \in Replies :
          /\ Curates(f)
          /\ \E opinion \in Opinions :
               pool' = Assessed(ContractOf(FrameFrom(f)), opinion)
    BY <1>7 DEF AssessContract
  <2>2. ScopesInv'
    BY <1>3, <1>7, <2>1 DEF AssessContract, Curates
  <2>3. IsPool(pool')
    BY <2>1, AssessedIsPool
  <2> QED BY <2>2, <2>3 DEF IsPool
<1> QED BY <1>1, <1>2, <1>4, <1>5, <1>6, <1>7 DEF PlannerNext

LEMMA InitTypes == Init => TypeInv /\ RowsInv
<1> SUFFICES ASSUME Init PROVE TypeInv /\ RowsInv
  OBVIOUS
<1>1. PICK request \in Requests, saved \in Saved : base = AskScope(request, saved)
  BY DEF Init, PlannerInit
<1>2. IsScope(request) /\ IsScope(saved)
  BY ScopesAreOfRepos
<1>3. IsScope(AskScope(request, saved))
  <2> DEFINE sc == AskScope(request, saved)
  <2>1. /\ request.file \subseteq Slices /\ saved.file \subseteq Slices
        /\ request.repos \subseteq Repos /\ saved.repos \subseteq Repos
        /\ request.branches \in BOOLEAN /\ saved.branches \in BOOLEAN
    BY <1>2 DEF IsScope
  <2>2. sc.file \subseteq Slices
    BY <2>1 DEF AskScope
  <2>3. sc.repos \subseteq Repos
    BY <2>1, SlicesAreOfRepos DEF AskScope
  <2>4. sc.branches \in BOOLEAN
    BY <2>1 DEF AskScope
  <2>5. sc = [repos |-> sc.repos, mode |-> sc.mode, file |-> sc.file,
              branches |-> sc.branches]
    BY DEF AskScope
  <2>6. ASSUME NEW repos \in SUBSET Repos, NEW mode, NEW file \in SUBSET Slices,
               NEW branches \in BOOLEAN
        PROVE  IsScope([repos |-> repos, mode |-> mode, file |-> file,
                        branches |-> branches])
    BY DEF IsScope
  <2> HIDE DEF sc
  <2>7. IsScope([repos |-> sc.repos, mode |-> sc.mode, file |-> sc.file,
                 branches |-> sc.branches])
    BY <2>2, <2>3, <2>4, <2>6
  <2> QED BY <2>5, <2>7 DEF sc
<1>4. ScopesInv
  BY <1>1, <1>3, ScopesAreOfRepos DEF Init, PlannerInit, ScopesInv, IsTalk
<1>5. IsPool(pool)
  BY DEF Init, PlannerInit, EmptyPool, IsPool
<1>6. CountInv
  BY RoundsArePositive DEF Init, PlannerInit, CountInv, Stages
<1>7. HandlerInv
  BY ProvidersAreCounted DEF Init, PlannerInit, HandlerInv, NoDraft, NoMessage, IsRow,
     Steps, Sources
<1>8. RowsInv
  BY DEF Init, RowsInv, IsRow, NoMessage, RowsSettle, Streams, FinalStatuses
<1> QED BY <1>4, <1>5, <1>6, <1>7, <1>8 DEF TypeInv

\* The handler starts the planner once and clears what it leaves.
LEMMA PlannerStarts ==
  ASSUME TypeInv, Next, ~Plan
  PROVE  ScopesInv' /\ IsPool(pool)' /\ CountInv'
<1> USE DEF Unplanned, plannerVars
<1>1. CASE Planned
  <2>1. ScopesInv'
    BY <1>1 DEF Planned, TypeInv, ScopesInv, IsTalk, IsScope
  <2>2. IsPool(pool)' /\ CountInv'
    BY <1>1, RoundsArePositive DEF Planned, EmptyPool, IsPool, CountInv, Stages
  <2> QED BY <2>1, <2>2
<1>2. CASE OpenPlan
  <2>1. UNCHANGED <<base, scope, talk, pool, round, searches>> /\ stage = "off"
        /\ stage' \in {"loop", "fallback"}
    BY <1>2 DEF OpenPlan, TypeInv, HandlerInv
  <2> QED BY <2>1, RoundsArePositive
        DEF TypeInv, ScopesInv, IsScope, IsTalk, IsPool, CountInv, Stages
<1>3. CASE ~Planned /\ ~OpenPlan
  <2>1. UNCHANGED <<base, scope, talk, pool, round, searches, stage>>
    BY <1>3 DEF Next, Server, Break, Cancel, Served, vars, InsertUserMessage, CreateRun,
       InsertAssistantMessage, Interrupted, PlanFailed, Record,
       AnswerLocally, ProviderFails, ProviderAnswers, ProviderBreaksOff,
       AnswerAfterCancel, VerifyDraft, RewriteDraft, RewriteFails, ShowAnswer,
       InsertAnswer, SettleMessage, FinishRun, Announce
  <2> QED BY <2>1 DEF TypeInv, ScopesInv, IsScope, IsTalk, IsPool, CountInv
<1> QED BY <1>1, <1>2, <1>3

LEMMA HandlerTypes ==
  ASSUME HandlerInv, RowsInv, [Next]_vars
  PROVE  HandlerInv'
<1> USE DEF Streams, FinalStatuses, Over, Unplanned, plannerVars, HandlerInv, IsRow,
        Steps, Sources
<1>1. CASE Verifying
  <2>1. pc = "verify" /\ pc' = "show" /\ UNCHANGED <<way, p, left, run, msg, conn>>
    BY <1>1, VerifyingSteps DEF Verifying, VerifyDraft, RewriteDraft, RewriteFails
  <2>2. draft'.from \in {draft.from, "rewrite", "conservative"}
    <3>1. ASSUME NEW r, NEW rewritten, Replace(r, rewritten)
          PROVE  draft'.from = "conservative"
      BY <3>1 DEF Replace
    <3>2. ASSUME NEW text, NEW from, NEW r, Keep(text, from, r)
          PROVE  draft'.from = from
      BY <3>2 DEF Keep
    <3>3. CASE VerifyDraft
      BY <3>1, <3>2, <3>3 DEF VerifyDraft
    <3>4. CASE RewriteDraft
      BY <3>1, <3>2, <3>4 DEF RewriteDraft
    <3>5. CASE RewriteFails
      BY <3>1, <3>5 DEF RewriteFails
    <3> QED BY <1>1, <3>3, <3>4, <3>5 DEF Verifying
  <2> QED BY <2>1, <2>2
<1>2. CASE Break \/ Cancel
  BY <1>2 DEF Break, Cancel, askVars
<1>3. CASE InsertUserMessage \/ CreateRun \/ InsertAssistantMessage
  BY <1>3 DEF InsertUserMessage, CreateRun, InsertAssistantMessage
<1>4. CASE Interrupted \/ PlanFailed
  BY <1>4 DEF Interrupted, Deferred, PlanFailed
<1>5. CASE OpenPlan \/ Planned \/ Record
  BY <1>5 DEF OpenPlan, Planned, Record
<1>6. CASE ProviderFails
  BY <1>6, ProvidersAreCounted DEF ProviderFails
<1>7. CASE AnswerLocally \/ ProviderAnswers \/ ProviderBreaksOff \/ AnswerAfterCancel
  BY <1>7 DEF AnswerLocally, ProviderAnswers, ProviderBreaksOff, AnswerAfterCancel,
     Drafted
<1>8. CASE ShowAnswer \/ InsertAnswer
  BY <1>8 DEF ShowAnswer, InsertAnswer
<1>9. CASE SettleMessage \/ FinishRun \/ Announce
  BY <1>9 DEF SettleMessage, FinishRun, Announce, RowsInv
<1>10. CASE Plan
  <2>1. UNCHANGED <<askVars, conn>> /\ pc = "planning"
    BY <1>10 DEF Plan, PlannerNext, ModelFails, Unsupported, ToolFails, ReadDiagnostics,
       SearchCodeEvidence, ViewFileSlice, AssessContract, Finish, FallBack, WrapUp,
       FallbackSearch, PlanFails, Quiet
  <2> QED BY <2>1 DEF askVars
<1>11. CASE Served \/ UNCHANGED vars
  BY <1>11 DEF Served, vars, askVars
<1> QED BY <1>1, <1>2, <1>3, <1>4, <1>5, <1>6, <1>7, <1>8, <1>9, <1>10, <1>11
        DEF Next, Server, Verifying

LEMMA TypesKept ==
  ASSUME TypeInv, RowsInv, [Next]_vars
  PROVE  TypeInv'
<1>1. HandlerInv'
  BY HandlerTypes DEF TypeInv
<1>2. ScopesInv' /\ IsPool(pool)' /\ CountInv'
  <2>1. CASE Plan
    BY <2>1, PlannerTypes, PlannerCounts DEF Plan, TypeInv
  <2>2. CASE Next /\ ~Plan
    BY <2>2, PlannerStarts
  <2>3. CASE UNCHANGED vars
    BY <2>3 DEF vars, plannerVars, TypeInv, ScopesInv, IsScope, IsTalk, IsPool, CountInv
  <2> QED BY <2>1, <2>2, <2>3
<1> QED BY <1>1, <1>2 DEF TypeInv

-----------------------------------------------------------------------------
(* The end.  What is left to do is a number that every step of the handler  *)
(* lowers: the steps ahead, then what is left within the one it is at - the *)
(* rounds and the searches of the planner, the providers of the answer.     *)

Ahead ==
    CASE pc = "user" -> 12      [] pc = "run" -> 11       [] pc = "message" -> 10
      [] pc = "open" -> 9       [] pc = "planning" -> 8   [] pc = "record" -> 7
      [] pc = "answer" -> 6     [] pc = "verify" -> 5     [] pc = "show" -> 4
      [] pc = "settle" -> 3     [] pc = "finish" -> 2     [] pc = "announce" -> 1
      [] OTHER -> 0

\* What the planner may still do: the rounds of the loop, then the searches of
\* the retrieval that needs no model.
PlannerLeft ==
    CASE stage = "loop" -> MaxSearches + 1 + (MaxPlannerRounds - round)
      [] stage = "ended" -> MaxSearches + 1
      [] stage = "fallback" -> MaxSearches - searches
      [] OTHER -> 0

Within ==
    CASE pc = "planning" -> PlannerLeft
      [] pc = "answer" -> left
      [] OTHER -> 0

Width == MaxSearches + MaxPlannerRounds + Providers + 2

Remaining == Width * Ahead + Within

LEMMA LeftIsBounded ==
  TypeInv => Ahead \in 0..12 /\ Within \in Nat /\ Width \in Nat /\ Within < Width
<1> SUFFICES ASSUME TypeInv
             PROVE  Ahead \in 0..12 /\ Within \in Nat /\ Width \in Nat /\ Within < Width
  OBVIOUS
<1>1. PlannerLeft \in Nat /\ PlannerLeft < Width
  BY RoundsArePositive, ProvidersAreCounted
  DEF TypeInv, CountInv, Stages, PlannerLeft, Width
<1>2. Within \in Nat /\ Within < Width
  BY <1>1, RoundsArePositive, ProvidersAreCounted DEF TypeInv, HandlerInv, Within, Width
<1>3. Width \in Nat
  BY RoundsArePositive, ProvidersAreCounted DEF Width
<1> QED BY <1>1, <1>2, <1>3 DEF Ahead

\* A step ahead outweighs whatever is left within the one it comes from.
LEMMA LessIsLower ==
  ASSUME NEW w \in Nat, NEW a \in 0..12, NEW b \in 0..12, NEW i \in Nat, NEW j \in Nat,
         j < w, b < a \/ (b = a /\ j < i)
  PROVE  w * b + j < w * a + i
<1>1. CASE b = a
  BY <1>1
<1>2. CASE b < a
  <2>1. w * a = w * b + w * (a - b) /\ w * (a - b) >= w
    <3>1. \A k \in 1..12 : w * k >= w
      OBVIOUS
    <3>2. w * a = w * b + w * (a - b)
      OBVIOUS
    <3> QED BY <1>2, <3>1, <3>2
  <2> QED BY <2>1
<1> QED BY <1>1, <1>2

LEMMA PlannerAdvances ==
  ASSUME CountInv, PlannerNext
  PROVE  PlannerLeft' < PlannerLeft
<1> USE RoundsArePositive DEF CountInv, Stages, PlannerLeft
<1>1. CASE ModelFails
  BY <1>1 DEF ModelFails, InLoop
<1>2. CASE Unsupported \/ ToolFails \/ ReadDiagnostics \/ SearchCodeEvidence
           \/ ViewFileSlice \/ AssessContract
  <2>1. InLoop /\ (Continued \/ Observed)
    BY <1>2 DEF Unsupported, ToolFails, ReadDiagnostics, SearchCodeEvidence,
       ViewFileSlice, AssessContract
  <2> QED BY <2>1, RoundEnds DEF InLoop
<1>3. CASE Finish
  BY <1>3 DEF Finish, InLoop
<1>4. CASE FallBack
  BY <1>4 DEF FallBack
<1>5. CASE WrapUp \/ PlanFails
  BY <1>5 DEF WrapUp, PlanFails
<1>6. CASE FallbackSearch
  <2>1. stage = "fallback" /\ searches' = searches + 1 /\ stage' \in {"done", stage}
        /\ (stage' = stage => searches' < MaxSearches)
    BY <1>6 DEF FallbackSearch
  <2> QED BY <2>1
<1> QED BY <1>1, <1>2, <1>3, <1>4, <1>5, <1>6 DEF PlannerNext

LEMMA HandlerAdvances ==
  ASSUME TypeInv, Server
  PROVE  Ahead' < Ahead \/ (Ahead' = Ahead /\ Within' < Within)
<1>1. CASE Plan
  <2>1. pc = "planning" /\ pc' = pc
    BY <1>1 DEF Plan, askVars
  <2>2. PlannerLeft' < PlannerLeft
    BY <1>1, PlannerAdvances DEF Plan, TypeInv
  <2> QED BY <2>1, <2>2 DEF Ahead, Within
<1>2. CASE ProviderFails
  <2>1. pc = "answer" /\ pc' = pc /\ left' = left - 1
    BY <1>2 DEF ProviderFails
  <2>2. left \in Nat
    BY ProvidersAreCounted DEF TypeInv, HandlerInv
  <2> QED BY <2>1, <2>2 DEF Ahead, Within
<1>3. CASE ~Plan /\ ~ProviderFails
  <2>1. Ahead' < Ahead
    <3> USE DEF Ahead, Over
    <3>1. CASE InsertUserMessage \/ CreateRun \/ InsertAssistantMessage
      BY <3>1 DEF InsertUserMessage, CreateRun, InsertAssistantMessage
    <3>2. CASE Interrupted
      BY <3>2 DEF Interrupted, Emitting, Writing
    <3>3. CASE OpenPlan \/ Planned \/ PlanFailed \/ Record
      BY <3>3 DEF OpenPlan, Planned, PlanFailed, Record
    <3>4. CASE AnswerLocally \/ ProviderAnswers \/ ProviderBreaksOff \/ AnswerAfterCancel
      BY <3>4 DEF AnswerLocally, ProviderAnswers, ProviderBreaksOff, AnswerAfterCancel,
         Drafted
    <3>5. CASE Verifying
      BY <3>5, VerifyingSteps
    <3>6. CASE ShowAnswer \/ InsertAnswer \/ SettleMessage
      BY <3>6 DEF ShowAnswer, InsertAnswer, SettleMessage
    <3>7. CASE FinishRun \/ Announce
      BY <3>7 DEF FinishRun, Announce
    <3> QED BY <1>3, <3>1, <3>2, <3>3, <3>4, <3>5, <3>6, <3>7 DEF Server, Verifying
  <2> QED BY <2>1
<1> QED BY <1>1, <1>2, <1>3

-----------------------------------------------------------------------------
(***************************************************************************)
(* However a stream ends, at whichever step its client breaks off or       *)
(* leaves, its message and its run are settled and agree.                  *)
(***************************************************************************)
THEOREM StreamsSettle == Spec => []RowsSettle
<1>1. Init => RowsInv
  BY DEF Init, RowsInv, IsRow, NoMessage, RowsSettle, Streams, FinalStatuses
<1>2. RowsInv /\ [Next]_vars => RowsInv'
  BY RowsKept
<1>3. RowsInv => RowsSettle
  BY DEF RowsInv
<1> QED BY <1>1, <1>2, <1>3, PTL DEF Spec

(***************************************************************************)
(* No text of a model is shown that was not verified, whatever it writes.  *)
(***************************************************************************)
THEOREM ShownIsVerified == Spec => []NothingUnverified
<1>1. Init => TextInv
  BY DEF Init, TextInv, IsRow, NoMessage, Showable
<1>2. TextInv /\ [Next]_vars => TextInv'
  BY TextKept
<1>3. TextInv => NothingUnverified
  BY DEF TextInv, Showable, NothingUnverified
<1> QED BY <1>1, <1>2, <1>3, PTL DEF Spec

(***************************************************************************)
(* A run succeeds only with evidence for every key of its last contract,   *)
(* or with a source in it that the contract forbids, which nobody looks    *)
(* for: for any sequence of intents, searches and assessments.             *)
(***************************************************************************)
THEOREM SuccessIsCovered == Spec => []SucceededIsCovered
<1>1. Init => SuccessInv /\ ReportInv
  BY DEF Init, PlannerInit, SuccessInv, ReportInv, NoPlan
<1>2. SuccessInv /\ ReportInv /\ [Next]_vars => SuccessInv' /\ ReportInv'
  BY SuccessKept, ReportKept
<1>3. SuccessInv => SucceededIsCovered
  BY DEF SuccessInv, SucceededIsCovered
<1> QED BY <1>1, <1>2, <1>3, PTL DEF Spec

(***************************************************************************)
(* The state has its types: evidence is of known slices and is marked for  *)
(* the keys a model assesses only, rounds and searches stay in the limits  *)
(* of the planner and of the retrieval, and a run never has a status that  *)
(* handleAIRuns does not report.                                           *)
(***************************************************************************)
THEOREM TypeCorrect == Spec => []TypeOK
<1>1. Init => TypeInv /\ RowsInv
  BY InitTypes
<1>2. TypeInv /\ RowsInv /\ [Next]_vars => TypeInv' /\ RowsInv'
  BY TypesKept, RowsKept
<1>3. TypeInv => TypeOK
  <2> SUFFICES ASSUME TypeInv PROVE TypeOK
    OBVIOUS
  <2>1. base.repos \subseteq Repos /\ scope.repos \subseteq Repos
    BY DEF TypeInv, ScopesInv, IsScope
  <2>2. /\ DOMAIN pool \subseteq Slices
        /\ \A s \in DOMAIN pool : pool[s].scope \in SourceScopes
                                /\ DOMAIN pool[s].marks \subseteq AssessedKeys
    BY DEF TypeInv, IsPool, IsFind
  <2>3. searches \in 0..MaxPlannerRounds \union 0..MaxSearches
    BY RoundsArePositive DEF TypeInv, CountInv, Stages
  <2>4. stage \in Stages /\ round \in 0..MaxPlannerRounds
    BY DEF TypeInv, CountInv
  <2> QED BY <2>1, <2>2, <2>3, <2>4 DEF TypeInv, HandlerInv, TypeOK, FinalStatuses
<1> QED BY <1>1, <1>2, <1>3, PTL DEF Spec

(***************************************************************************)
(* Every step of the handler leaves less to do, and no step of the client  *)
(* adds to it: a question takes at most Remaining steps, whatever the      *)
(* model replies, and cannot go round in circles.  With the fairness of    *)
(* FairSpec and no deadlock, which TLC checks, it ends (QuestionEnds).     *)
(***************************************************************************)
THEOREM QuestionAdvances ==
  Spec => [][/\ Remaining \in Nat /\ Remaining' <= Remaining
             /\ Server => Remaining' < Remaining]_vars
<1> DEFINE Advance == /\ Remaining \in Nat /\ Remaining' <= Remaining
                      /\ Server => Remaining' < Remaining
<1>1. Init => TypeInv /\ RowsInv
  BY InitTypes
<1>2. TypeInv /\ RowsInv /\ [Next]_vars => TypeInv' /\ RowsInv'
  BY TypesKept, RowsKept
<1>3. TypeInv /\ RowsInv /\ [Next]_vars => [Advance]_vars
  <2> SUFFICES ASSUME TypeInv, RowsInv, Next PROVE Advance
    OBVIOUS
  <2>1. /\ Ahead \in 0..12 /\ Within \in Nat /\ Width \in Nat
        /\ Ahead' \in 0..12 /\ Within' \in Nat /\ Within' < Width
    <3>1. TypeInv'
      BY <1>2
    <3>2. Ahead \in 0..12 /\ Within \in Nat /\ Width \in Nat
      BY LeftIsBounded
    <3>3. (Ahead \in 0..12 /\ Within \in Nat /\ Within < Width)'
      BY <3>1, LeftIsBounded, PTL
    <3> QED BY <3>2, <3>3 DEF Width
  <2>2. Remaining \in Nat
    BY <2>1 DEF Remaining
  <2>3. CASE Server
    <3>1. Ahead' < Ahead \/ (Ahead' = Ahead /\ Within' < Within)
      BY <2>3, HandlerAdvances
    <3>2. Width * Ahead' + Within' < Width * Ahead + Within
      BY <2>1, <3>1, LessIsLower
    <3>3. Remaining' = Width * Ahead' + Within'
      BY DEF Remaining, Width
    <3>4. \A w, j \in Nat, b \in 0..12 : w * b + j \in Nat
      OBVIOUS
    <3>5. Remaining' \in Nat
      BY <2>1, <3>3, <3>4
    <3> QED BY <2>2, <3>2, <3>3, <3>5 DEF Remaining
  <2>4. CASE ~Server
    <3>1. UNCHANGED <<pc, stage, round, searches, left>>
      BY <2>4 DEF Next, Break, Cancel, Served, vars, askVars, plannerVars
    <3>2. Remaining' = Remaining
      BY <3>1 DEF Remaining, Ahead, Within, PlannerLeft, Width
    <3> QED BY <2>2, <2>4, <3>2
  <2> QED BY <2>3, <2>4
<1> QED BY <1>1, <1>2, <1>3, PTL DEF Spec
=============================================================================
