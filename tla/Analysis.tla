------------------------------ MODULE Analysis ------------------------------
(***************************************************************************)
(* One analysis of the corpus: core/report.py (analyze), the two learners,  *)
(* core/evaluation_pipeline.py and the recording half of main.run_analysis. *)
(* Final evidence is set aside first; the learners advise, the evaluator    *)
(* proposes and the tuner (module Tuning) searches on what is left; every   *)
(* proposal is then measured once on the evidence that was set aside, and   *)
(* only what passes is recorded as validated or left actionable.            *)
(***************************************************************************)
EXTENDS Tuning

CONSTANTS
    Situations,      \* what an analysis may meet: a corpus (a set of rows), the host's
                     \* parameters, and the configuration and arguments of the call
    Default,         \* BASE_POLICY
    FuturePercent,   \* config.forward_holdout_ratio
    MinAdvice,       \* config.min_samples_for_recommendation
    LowConfidence    \* CONFIDENCE_LOW_SAMPLES

(* A corpus: finitely many rows, each of at least one sample. *)
IsCorpus(rows) ==
    /\ IsFiniteSet(rows)
    /\ \A r \in rows :
        /\ r.n \in Nat \ {0} /\ r.at \in Int /\ r.score \in Int
        /\ r.session \in Nat /\ r.msg \in Nat
        /\ r.task \in {"recipient", "reply", "topic"}
        /\ r.task # "topic" =>
                r.kind \in {"explicit", "unscored", "unknown", "early", "scored"}
        /\ IsFiniteSet(r.cands) /\ \A c \in r.cands : c.score \in Int

SituationsAssumption ==
    /\ FuturePercent \in Int
    /\ \A met \in Situations :
        /\ IsCorpus(met.samples)
        /\ met.host \in [Params -> Nat]
        /\ DOMAIN met.options = {"forward", "interval", "gate", "evaluation", "tuning"}

ASSUME SituationsAssumption

VARIABLES
    samples, host, options,
    phase,
    context,         \* what EvaluationContext.reserve set aside
    advice,          \* the recommendations
    single,          \* the evaluator's candidate, if any
    verdict,         \* promotion["verdict"] of that candidate
    runs,            \* the tuning runs
    recorded         \* what main.run_analysis appends to the policy store

vars == <<samples, host, options, phase, context, advice, single, verdict, runs, recorded>>

Tasks == <<"recipient", "topic">>
Phases == {"reserve", "learn", "evaluate", "tune", "final_single", "final_runs", "annotate",
           "record", "done"}
NoContext == [development |-> {}, session |-> {}, future |-> {}]

Init ==
    /\ \E met \in Situations :
        samples = met.samples /\ host = met.host /\ options = met.options
    /\ phase = "reserve"
    /\ context = NoContext
    /\ advice = {}
    /\ single = {}
    /\ verdict = "not_run"
    /\ runs = <<>>
    /\ recorded = {}

Message(r) == <<r.session, r.msg>>

(* As Reserved below, cutting through the rows of one message. *)
ReservedByRow(rows, forward) ==
    LET future == IF forward THEN SplitByTime(rows, FuturePercent).holdout ELSE {}
        split == SplitBySession(rows \ future, HoldoutPercent)
    IN  [development |-> split.train, session |-> split.holdout, future |-> future]

(* EvaluationContext.reserve: the newest rows, with every row of their      *)
(* messages, then whole sessions of what is left.                           *)
Reserved(rows, forward) ==
    LET newest == IF forward THEN SplitByTime(rows, FuturePercent).holdout ELSE {}
        future == {r \in rows : Message(r) \in {Message(q) : q \in newest}}
        split == SplitBySession(rows \ future, HoldoutPercent)
    IN  [development |-> split.train, session |-> split.holdout, future |-> future]

Reserve ==
    /\ phase = "reserve"
    /\ context' = Reserved(samples, options.forward)
    /\ phase' = "learn"
    /\ UNCHANGED <<samples, host, options, advice, single, verdict, runs, recorded>>

(* ---- the learners ------------------------------------------------------- *)

Proposed(p, target, support) ==
    [param |-> p, before |-> Default[p],
     after |-> BoundedTarget(p, Default[p], target, StepPercent),
     actionable |-> support >= Larger(MinAdvice, LowConfidence)]

(* recipient_learner.learn: a cut swept on the scored turns, by F1. *)
RecipientAdvice(rows) ==
    IF Weight(Swept(rows)) < MinAdvice THEN {}
    ELSE {Proposed("strong", Sweep(Swept(rows), "f1"), Weight(Swept(rows)))}

(* topic_learner.learn: only too many wrong merges ask for a number, the    *)
(* commit threshold whose replay pairs up best.                             *)
RecordedPairs(rows) ==
    PairCounts({[r EXCEPT !.kind = "recorded", !.score = One, !.cands = {}] : r \in rows}, 0)
TopicAdvice(rows) ==
    LET found == RecordedPairs(rows)
        wrong == found.missed + found.false
        cuts == {Default.commit} \cup
                {RoundDiv(Least4.commit * 24 + (Most4.commit - Least4.commit) * i, 24) : i \in 0..24}
        curve == {[value |-> Accuracy(PairCounts(rows, cut)), cut |-> cut,
                   far |-> Larger(cut - Default.commit, Default.commit - cut)] : cut \in cuts}
    IN  IF wrong = 0 \/ (found.missed - found.false) * 100 >= -15 * wrong THEN {}
        ELSE {Proposed("commit", Best(curve), Weight(rows))}

Learn ==
    /\ phase = "learn"
    /\ advice' = RecipientAdvice(context.development)
                 \cup TopicAdvice(OfTask("topic", context.development))
    /\ phase' = IF options.evaluation THEN "evaluate" ELSE "tune"
    /\ UNCHANGED <<samples, host, options, context, single, verdict, runs, recorded>>

(* ---- the evaluator's own candidate -------------------------------------- *)

(* evaluate_dataset: both builders propose from the same baseline, and the  *)
(* moves of both make one candidate.                                        *)
SingleCandidate(rows, base) ==
    LET split == SplitBySession(rows, HoldoutPercent)
        moved == [base EXCEPT !.strong = Propose("recipient", split, base, StepPercent).strong,
                              !.commit = Propose("topic", split, base, StepPercent).commit]
    IN  IF split.holdout = {} \/ moved = base THEN {}
        ELSE {[params |-> Normalize(moved), baseline |-> base]}

Evaluate ==
    /\ phase = "evaluate"
    /\ single' = SingleCandidate(context.development, Normalize(host))
    /\ phase' = "tune"
    /\ UNCHANGED <<samples, host, options, context, advice, verdict, runs, recorded>>

(* ---- tuning ------------------------------------------------------------- *)

Working == Len(runs) > 0 /\ runs[Len(runs)].decision = Undecided

(* run_all: one run per task, both from the host's parameters. *)
BeginRun ==
    /\ phase = "tune"
    /\ options.tuning
    /\ ~Working
    /\ Len(runs) < Len(Tasks)
    /\ LET run == Fresh(Tasks[Len(runs) + 1], context.development, host)
       IN  runs' = Append(runs, IF Starved(run) THEN Stop(run, "insufficient", {}) ELSE run)
    /\ UNCHANGED <<samples, host, options, phase, context, advice, single, verdict, recorded>>

TuneStep ==
    /\ phase = "tune"
    /\ Working
    /\ runs' = [runs EXCEPT ![Len(runs)] = Turned(@)]
    /\ UNCHANGED <<samples, host, options, phase, context, advice, single, verdict, recorded>>

EndTuning ==
    /\ phase = "tune"
    /\ ~Working
    /\ ~options.tuning \/ Len(runs) = Len(Tasks)
    /\ phase' = "final_single"
    /\ UNCHANGED <<samples, host, options, context, advice, single, verdict, runs, recorded>>

(* ---- the final measurement ---------------------------------------------- *)

(* validate_frozen and promotion_check; interval is what the resampling of  *)
(* the session holdout said.                                                *)
Gate(candidate, interval) ==
    LET of(holdout) == Verdict(candidate.params, candidate.baseline,
                               {r.task : r \in samples}, holdout)
    IN  PromotionCheck(of(context.session),
                       IF options.forward THEN of(context.future) ELSE "off",
                       interval, options.interval)

PossibleIntervals(candidate) ==
    LET targets == Plan(candidate.params, candidate.baseline).targets
    IN  IF targets = <<>> THEN {"undefined"}
        ELSE Intervals(Head(targets), OfTask(Head(targets), context.session),
                       candidate.params, candidate.baseline)

(* finalize: validated only with the gate, the corpus gate and evaluation.  *)
Final(gate) ==
    IF options.evaluation /\ gate = "accepted" /\ options.gate THEN "validated" ELSE "proposed"

FinalizeSingle ==
    /\ phase = "final_single"
    /\ \/ /\ single = {}
          /\ UNCHANGED <<single, verdict>>
       \/ \E candidate \in single : \E interval \in PossibleIntervals(candidate) :
            LET gate == Gate(candidate, interval)
            IN  /\ verdict' = gate
                /\ single' = {[params |-> candidate.params, baseline |-> candidate.baseline,
                               status |-> Final(gate)]}
    /\ phase' = "final_runs"
    /\ UNCHANGED <<samples, host, options, context, advice, runs, recorded>>

FinalRun(run, interval) ==
    LET candidate == CHOOSE c \in run.candidate : TRUE
        gate == Gate(candidate, interval)
    IN  IF run.candidate = {} THEN run
        ELSE [run EXCEPT
                !.candidate = {[candidate EXCEPT !.status = Final(gate)]},
                !.decision = IF Final(gate) = "validated" THEN @
                             ELSE IF gate = "rejected" THEN "reject" ELSE "insufficient"]

FinalizeRuns ==
    /\ phase = "final_runs"
    /\ \E interval \in [DOMAIN runs -> {"apart", "crosses", "undefined"}] :
        /\ \A i \in DOMAIN runs : \A candidate \in runs[i].candidate :
                interval[i] \in PossibleIntervals(candidate)
        /\ runs' = [i \in DOMAIN runs |-> FinalRun(runs[i], interval[i])]
    /\ phase' = "annotate"
    /\ UNCHANGED <<samples, host, options, context, advice, single, verdict, recorded>>

(* ---- what is handed out -------------------------------------------------- *)

Promoted(run) == run.decision \in PromotedDecisions

RunOf(param) ==
    {runs[i] : i \in {j \in DOMAIN runs :
                        runs[j].task = IF param = "commit" THEN "topic" ELSE "recipient"}}

(* As Agrees below, asking for the direction only. *)
AgreesInDirection(row, run) ==
    \A policy \in run.final :
        (row.after - row.before)
            * (Normalize(policy)[row.param] - run.baseline[row.param]) >= 0

(* _annotate: a number stays actionable when the final gate accepted the    *)
(* evaluator's candidate and the tuning of its task, if there was any,      *)
(* reached a promotion that was validated, and not in the other direction.  *)
Agrees(row, run) ==
    /\ Promoted(run)
    /\ \E candidate \in run.candidate :
        /\ candidate.status = "validated"
        /\ \A policy \in run.final :
            (row.after - row.before)
                * (Normalize(policy)[row.param] - run.baseline[row.param]) >= 0

Annotated(row) ==
    [row EXCEPT !.actionable = /\ @
                               /\ verdict = "accepted"
                               /\ \A run \in RunOf(row.param) : Agrees(row, run)
                               /\ options.gate]

Annotate ==
    /\ phase = "annotate"
    /\ advice' = {Annotated(row) : row \in advice}
    /\ runs' = IF options.gate THEN runs
               ELSE [i \in DOMAIN runs |->
                        [runs[i] EXCEPT !.candidate =
                            {[c EXCEPT !.status = "proposed"] : c \in @}]]
    /\ phase' = "record"
    /\ UNCHANGED <<samples, host, options, context, single, verdict, recorded>>

(* main.run_analysis: the runs own the records; the evaluator's candidate   *)
(* is recorded only when no run has one, and nothing below the corpus gate. *)
Record ==
    /\ phase = "record"
    /\ LET ofRuns == UNION {runs[i].candidate : i \in DOMAIN runs}
           kept == IF ofRuns = {} THEN single ELSE ofRuns
       IN  recorded' = IF options.gate
                       THEN {[params |-> c.params, baseline |-> c.baseline,
                              status |-> c.status] : c \in kept}
                       ELSE {}
    /\ phase' = "done"
    /\ UNCHANGED <<samples, host, options, context, advice, single, verdict, runs>>

Running == phase # "done"
Done == ~Running /\ UNCHANGED vars

Next ==
    \/ Reserve
    \/ Learn
    \/ Evaluate
    \/ BeginRun
    \/ TuneStep
    \/ EndTuning
    \/ FinalizeSingle
    \/ FinalizeRuns
    \/ Annotate
    \/ Record
    \/ Done

(* The whole of it is one call in a thread of its own: until it is done,    *)
(* it goes on.  This is weak fairness of Next, written with the state       *)
(* predicate that says when Next is enabled.                                *)
Fairness == []<>~Running \/ []<><<Next>>_vars
Spec == Init /\ [][Next]_vars /\ Fairness

-----------------------------------------------------------------------------
AnalysisTypeOK ==
    /\ phase \in Phases
    /\ DOMAIN options = {"forward", "interval", "gate", "evaluation", "tuning"}
    /\ context.development \cup context.session \cup context.future \subseteq samples
    /\ verdict \in {"not_run", "insufficient", "rejected", "accepted"}
    /\ \A i \in DOMAIN runs :
        /\ runs[i].task = Tasks[i]
        /\ runs[i].decision \in Decisions \cup {Undecided}
        /\ Len(runs[i].steps) <= MaxSteps
        /\ Cardinality(runs[i].final) <= 1 /\ Cardinality(runs[i].candidate) <= 1
    /\ \A c \in recorded : c.status \in {"proposed", "validated"}

(* No message is both learned from and measured on, no session of the       *)
(* session holdout is learned from, and nothing is lost (reserve).          *)
HoldoutsApart ==
    LET parts == {context.development, context.session, context.future}
    IN  /\ UNION parts = samples
        /\ \A left, right \in parts : left # right =>
                {Message(r) : r \in left} \cap {Message(r) : r \in right} = {}
        /\ Sessions(context.session) \cap Sessions(context.development) = {}

(* Whatever is in the newer holdout is of a message with a label no older   *)
(* than anything that was learned from (split_by_time, reserve).            *)
FutureIsNewest ==
    LET newest(r) == {q.at : q \in {x \in context.future : Message(x) = Message(r)}}
    IN  \A r \in context.future :
            \E at \in newest(r) : at > 0 /\ \A q \in context.development : q.at <= at

(* What decides is what was set aside, from the first stage on, and nothing *)
(* that happens later moves it (EvaluationContext.reserve).                 *)
HoldoutsUnseen == phase # "reserve" => HoldoutsApart /\ FutureIsNewest

(* However many steps a run takes, the parameter it was allowed to move     *)
(* ends within the agreed share of the host's value, once that is in its    *)
(* range, and in that range itself (clamp_cumulative; hover, as decide      *)
(* reads it, follows strong and is not bounded).                            *)
DriftBounded ==
    LET base == Normalize(host)
    IN  \A i \in DOMAIN runs : \A policy \in {runs[i].current} \cup runs[i].final :
            \A p \in {"strong", "commit"} :
                /\ policy[p] \in Least4[p]..Most4[p]
                /\ 100 * (policy[p] - base[p]) <= DriftPercent * base[p]
                /\ 100 * (base[p] - policy[p]) <= DriftPercent * base[p]

(* What a run hands over is, on its own holdout, never worse than the host  *)
(* by more than the floor, broke no guard, and moved only the parameter of  *)
(* its task; a promotion, and a kept gain, are of that very policy and not  *)
(* of the step that was tried after it (run_tuning, _finalise).  What is    *)
(* spared of an error kind is counted exactly: half of a ten-thousandth is  *)
(* what the rounded rate may hide.                                          *)
CandidateIsEarned ==
    \A i \in DOMAIN runs : \A candidate \in runs[i].candidate :
        LET run == runs[i]
            base == Score(run, run.baseline)
            after == Score(run, candidate.params)
            gain == Change(Primary(run.task, base), Primary(run.task, after))
            spared(kind) ==
                /\ Errors(kind, base) > 0
                /\ 2 * One * (Errors(kind, base) - Errors(kind, after))
                        >= (2 * PromoteError - 1) * Errors(kind, base)
        IN  /\ AtLeast(gain, -Floor)
            /\ ~GuardBroken(base, after, GuardLoss)
            /\ Drift(run.baseline, candidate.params) \subseteq
                   IF run.task = "topic" THEN {"commit"} ELSE {"strong", "hover"}
            /\ Promoted(run) => gain >= PromoteGain \/ spared("missed") \/ spared("false")
            /\ run.decision = "candidate" => gain > 0

(* A recorded policy that says validated is right more often than the host  *)
(* on every holdout that was set aside, breaks no other task that reads the *)
(* same cut, and nothing below the corpus gate is recorded (finalize).      *)
ValidatedBeatsHost ==
    /\ \A c \in recorded : c.status = "validated" =>
        \A holdout \in {context.session} \cup (IF options.forward THEN {context.future} ELSE {}) :
            LET count(task, policy) == ScoreTask(task, OfTask(task, holdout), policy)
                right(task, policy) == count(task, policy).hit + count(task, policy).rest
                moved == IF Drift(c.baseline, c.params) = {"commit"} THEN {"topic"}
                         ELSE {"recipient", "reply"}
            IN  /\ \E task \in moved : right(task, c.params) > right(task, c.baseline)
                /\ \A task \in moved :
                    ~GuardBroken(count(task, c.baseline), count(task, c.params), MaxLoss)
    /\ recorded # {} => options.gate

(* A number the console may apply was not only advised: the parameter it    *)
(* names is one that a validated run moved (_annotate).                     *)
ActionableIsSupported ==
    phase \in {"record", "done"} /\ options.tuning =>
        \A row \in advice : row.actionable =>
            \E run \in RunOf(row.param) : \E c \in run.candidate :
                c.status = "validated" /\ row.param \in Drift(run.baseline, c.params)

(* Every analysis comes to its end (run_analysis). *)
AnalysisEnds == <>(phase = "done")
=============================================================================
