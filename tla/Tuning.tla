------------------------------- MODULE Tuning -------------------------------
(***************************************************************************)
(* core/autotune.py, run_tuning: from the host's parameters walk at most    *)
(* MaxSteps small steps, score each on one held-out set of sessions against *)
(* the baseline, and stop at the first rule that bites.  The operators take *)
(* a run, the record of its local variables, so that whoever composes this  *)
(* module may keep several runs; a step of the loop is one operator per     *)
(* outcome, and exactly one of them applies.                                *)
(***************************************************************************)
EXTENDS Evaluator

CONSTANTS
    StepPercent,     \* config.max_param_delta_ratio
    DriftPercent,    \* TuneRules.cumulative_delta_ratio
    MaxSteps,
    Floor,           \* safe_floor: how much worse than the baseline is still safe
    AdvanceGain, AdvanceError, PromoteGain, PromoteError, StrongGain,
    StallGain, Patience,
    GuardLoss,
    HoldoutPercent   \* config.holdout_ratio

TuningAssumption ==
    /\ \A n \in {StepPercent, DriftPercent, MaxSteps, Floor, AdvanceGain, AdvanceError,
                 PromoteGain, PromoteError, StrongGain, StallGain, Patience, GuardLoss,
                 HoldoutPercent} :
            n \in Int
    /\ PromoteGain <= StrongGain
    /\ MaxSteps >= 1
    /\ 0 <= Floor
    /\ 0 <= DriftPercent

ASSUME TuningAssumption

Undecided == "undecided"
PromotedDecisions == {"strong_promote", "promote"}
Decisions == PromotedDecisions \cup
    {"candidate", "reject", "rollback", "needs_review", "no_change", "insufficient"}

(* The locals of run_tuning before its first line. *)
Fresh(task, samples, base) ==
    LET split == SplitBySession(samples, HoldoutPercent)
    IN  [task |-> task, baseline |-> Normalize(base), current |-> Normalize(base),
         split |-> split, holdout |-> OfTask(task, split.holdout),
         stalled |-> 0, steps |-> <<>>, decision |-> Undecided, final |-> {},
         candidate |-> {}]

Score(run, policy) == ScoreTask(run.task, run.holdout, policy)
Errors(kind, counts) == IF kind = "false" THEN counts.false ELSE counts.missed

(* Nothing to tune on: no sample of the task, or too few in the holdout. *)
Starved(run) ==
    \/ OfTask(run.task, run.split.train) \cup run.holdout = {}
    \/ run.split.holdout = {}
    \/ Support(run.holdout) < MinSupport

(* ---- one step ----------------------------------------------------------- *)

Proposal(run) == Propose(run.task, run.split, Normalize(run.current), StepPercent)

(* As Target below, had the cap been measured from the step before. *)
TargetFromStep(run, proposal) == ClampCumulative(run.current, proposal, DriftPercent)

(* The parameters the step would adopt; some of them may have met the cap.  *)
Target(run, proposal) == ClampCumulative(run.baseline, proposal, DriftPercent)

(* As CanStep below, without the bound on the number of steps. *)
CanAlwaysStep(run, proposal) ==
    proposal # Normalize(run.current) /\ Drift(run.current, Target(run, proposal)) # {}

CanStep(run, proposal) ==
    /\ Len(run.steps) < MaxSteps
    /\ run.stalled < Patience
    /\ proposal # Normalize(run.current)
    /\ Drift(run.current, Target(run, proposal)) # {}

(* What is measured of the step: against the step before it and against the *)
(* baseline, on the primary metric and on the error kind the move is for.   *)
Measure(run, policy) ==
    LET base == Score(run, run.baseline)
        before == Score(run, run.current)
        after == Score(run, policy)
        aim == TargetError(policy, Normalize(run.current))
        kind == IF aim = "none" THEN "missed" ELSE aim
        other == IF kind = "missed" THEN "false" ELSE "missed"
    IN  [policy |-> policy, kind |-> kind,
         stepGain |-> Change(Primary(run.task, before), Primary(run.task, after)),
         gain |-> Change(Primary(run.task, base), Primary(run.task, after)),
         stepError |-> IF Total(after) = 0 THEN NoRate
                       ELSE Relative(Errors(kind, before), Errors(kind, after)),
         error |-> IF Total(after) = 0 THEN NoRate
                   ELSE Relative(Errors(kind, base), Errors(kind, after)),
         improved |-> ErrorImproved(Errors(kind, base), Errors(kind, after)),
         collateral |-> ~ErrorImproved(Errors(other, base), Errors(other, after)),
         broken |-> GuardBroken(base, after, GuardLoss)]

Safe(step) == AtLeast(step.gain, -Floor) /\ step.improved
Strong(step) == AtLeast(step.gain, StrongGain)
Earned(step) ==
    \/ AtLeast(step.gain, PromoteGain)
    \/ Below(step.error, -PromoteError + 1) /\ AtLeast(step.gain, -Floor)
Improving(step) == step.stepGain = NoRate \/ step.stepGain > 0
Advances(step) ==
    AtLeast(step.stepGain, AdvanceGain) \/ Below(step.stepError, -AdvanceError + 1)
Stalls(step) == step.stepGain = NoRate \/ step.stepGain < StallGain

(* _finalise: a record when there is a final policy and it drifted from the *)
(* baseline.  What is written of it are the numbers of the last step tried. *)
Finalise(run) ==
    LET last == run.steps[Len(run.steps)]
        kept == {policy \in run.final : Drift(run.baseline, policy) # {}}
    IN  [run EXCEPT !.candidate =
            {[params |-> Normalize(policy), baseline |-> run.baseline,
              status |-> IF run.decision \in PromotedDecisions THEN "validated" ELSE "proposed",
              kind |-> last.kind, collateral |-> last.collateral,
              gain |-> last.gain] : policy \in kept}]

Stop(run, decision, final) == Finalise([run EXCEPT !.decision = decision, !.final = final])
With(run, step) == [run EXCEPT !.steps = Append(@, step)]
Adopt(run, step) == [With(run, step) EXCEPT !.current = step.policy]

(* As Rejected below, keeping the step it rejects, or starting over. *)
RejectedKept(run, step) == Stop(With(run, step), "reject", {step.policy})
RejectedRetried(run, step) ==
    [run EXCEPT !.current = run.baseline, !.steps = <<>>, !.stalled = 0]

(* The outcomes of a step, in the order the code asks. *)
RolledBack(run, step) == Stop(With(run, step), "rollback", {run.baseline})
Rejected(run, step) == Stop(With(run, step), "reject", {run.current} \ {run.baseline})
Accepted(run, step, decision) == Stop(Adopt(run, step), decision, {step.policy})
Continued(run, step) ==
    [Adopt(run, step) EXCEPT
        !.stalled = IF Advances(step) THEN 0 ELSE IF Stalls(step) THEN @ + 1 ELSE @]

Judged(run, step, clamped) ==
    IF step.broken THEN RolledBack(run, step)
    ELSE IF ~Safe(step) THEN Rejected(run, step)
    ELSE IF Strong(step) THEN Accepted(run, step, "strong_promote")
    ELSE IF Earned(step) THEN Accepted(run, step, "promote")
    ELSE IF clamped /\ Improving(step) THEN Accepted(run, step, "needs_review")
    ELSE Continued(run, step)

(* Out of steps, of patience or of moves: what was gained is kept, if the   *)
(* last step gained anything at all.                                        *)
Concluded(run) ==
    IF run.steps = <<>> THEN Stop(run, "no_change", {})
    ELSE LET gain == run.steps[Len(run.steps)].gain
         IN  IF run.current = run.baseline \/ gain = NoRate \/ gain <= 0
             THEN Stop(run, "no_change", {})
             ELSE Stop(run, "candidate", {run.current})

(* One turn of the loop. *)
Turned(run) ==
    LET proposal == Proposal(run)
        target == Target(run, proposal)
    IN  IF CanStep(run, proposal)
        THEN Judged(run, Measure(run, target), target # Normalize(proposal))
        ELSE Concluded(run)
=============================================================================
