------------------------------ MODULE Evaluator ------------------------------
(***************************************************************************)
(* core/evaluator.py and the replay half of core/policy.py: what one policy *)
(* decides for a recorded turn, how a task is scored, how a corpus is split *)
(* and what makes a candidate accepted.  Thresholds and scores are integers *)
(* in ten-thousandths.  The three parameters are those the evaluator can    *)
(* move, and the one its normalisation moves along with them.               *)
(*                                                                          *)
(* A row is one sample: its session, message, task, the time of its label,  *)
(* the kind of turn its trace shows and its additive score; said is what    *)
(* the host recorded and expected what the human wants.  For a topic row    *)
(* said and expected are topics ("" for none), score the confidence, and    *)
(* cands the [topic, score] candidates whose score was recorded.            *)
(***************************************************************************)
EXTENDS Scores, Sequences

CONSTANTS
    Least4, Most4,   \* [parameter -> least], [parameter -> most]: PARAM_SPECS
    Gap,             \* how far safe_hover stays below strong
    MinSupport,      \* config.min_samples_for_evaluation
    MinGain,         \* config.evaluation_min_improvement
    MaxLoss          \* config.evaluation_max_regression

EvaluatorAssumption ==
    /\ Least4 \in [{"strong", "hover", "commit"} -> Nat]
    /\ Most4 \in [{"strong", "hover", "commit"} -> Nat]
    /\ \A p \in DOMAIN Least4 : Least4[p] <= Most4[p]
    /\ Gap \in Nat
    /\ MinSupport \in Nat /\ MinGain \in Nat /\ MaxLoss \in Nat

ASSUME EvaluatorAssumption

Params == DOMAIN Least4
Smaller(a, b) == IF a < b THEN a ELSE b
Larger(a, b) == IF a > b THEN a ELSE b
Clamp(p, v) == Larger(Least4[p], Smaller(Most4[p], v))

(* normalize_policy: every value in its range, and hover below strong. *)
Normalize(policy) ==
    LET inRange == [p \in Params |-> Clamp(p, policy[p])]
    IN  [inRange EXCEPT !.hover = Clamp("hover", Smaller(@, inRange.strong - Gap))]

(* bounded_target: at most ratio per cent of the present value, then range. *)
BoundedTarget(p, base, target, ratio) ==
    LET budget == RoundDiv(base * ratio, 100)
    IN  Clamp(p, base + Larger(-budget, Smaller(budget, Clamp(p, target) - base)))

(* clamp_cumulative; the proposal is normalised first, the result is not. *)
ClampCumulative(base, proposed, ratio) ==
    [p \in Params |->
        LET budget == (base[p] * ratio) \div 100
        IN  Clamp(p, Larger(base[p] - budget,
                            Smaller(base[p] + budget, Normalize(proposed)[p])))]

Drift(base, policy) == {p \in Params : Normalize(policy)[p] # Normalize(base)[p]}

(* target_error_for: the error kind the largest relative move is aimed at:  *)
(* lowering a threshold goes after what was missed, raising it after what   *)
(* was falsely taken.  "none" when nothing moved.                           *)
TargetError(policy, base) ==
    LET moved == Drift(base, policy)
        by(p) == policy[p] - base[p]
        share(p) == RoundDiv(One * Larger(by(p), -by(p)), base[p])
        dominant == CHOOSE p \in moved : \A q \in moved : share(p) >= share(q)
    IN  IF moved = {} THEN "none" ELSE IF by(dominant) < 0 THEN "missed" ELSE "false"

(* ---- replay ----------------------------------------------------------- *)

(* policy.decide: is the bot addressed, and so admitted to reply?  An       *)
(* explicit turn and one with a missing score or evidence keep the host's   *)
(* answer; with no earlier bot message the host returned early.             *)
Targeted(row, policy) ==
    CASE row.kind \in {"explicit", "unscored", "unknown"} -> row.said \in {"bot", "reply"}
      [] row.kind = "early" -> FALSE
      [] row.kind = "scored" -> row.score >= Normalize(policy).strong

Unreplayable(row) ==
    \/ row.task = "reply" /\ ~row.eligible
    \/ row.task # "topic" /\ row.kind \in {"unscored", "unknown"}

(* replay_label: a committed row keeps or loses its topic; an uncommitted   *)
(* one may gain its best recorded candidate; an ambiguous one stays alone.  *)
ReplayLabel(row, threshold) ==
    LET offered == {c \in row.cands : c.score >= threshold}
    IN  IF row.kind = "ambiguous" THEN ""
        ELSE IF row.said # "" THEN IF row.score >= threshold THEN row.said ELSE ""
        ELSE IF offered = {} THEN ""
        ELSE (CHOOSE c \in offered : \A d \in offered : c.score >= d.score).topic

(* topic_pair_metrics over replay_pairs: unordered pairs within a session. *)
PairCounts(rows, threshold) ==
    LET both == {pair \in rows \X rows : pair[1].session = pair[2].session}
        times(pair) == IF pair[1] = pair[2] THEN pair[1].n * (pair[1].n - 1)
                       ELSE pair[1].n * pair[2].n
        same(pair) == pair[1].expected = pair[2].expected
        joined(pair) == /\ ReplayLabel(pair[1], threshold) # ""
                        /\ ReplayLabel(pair[1], threshold) = ReplayLabel(pair[2], threshold)
        of(truth, told) ==
            SumFunction([pair \in {p \in both : same(p) = truth /\ joined(p) = told} |->
                            times(pair)]) \div 2
    IN  [hit |-> of(TRUE, TRUE), missed |-> of(TRUE, FALSE),
         false |-> of(FALSE, TRUE), rest |-> of(FALSE, FALSE)]

(* score_task: what one policy makes of the rows of one task. *)
ScoreTask(task, rows, policy) ==
    LET kept == {r \in rows : ~Unreplayable(r)}
        wanted(r) == r.expected \in {"bot", "reply"}
        of(truth, told) ==
            Weight({r \in kept : wanted(r) = truth /\ Targeted(r, policy) = told})
    IN  IF task = "topic" THEN PairCounts(rows, Normalize(policy).commit)
        ELSE [hit |-> of(TRUE, TRUE), missed |-> of(TRUE, FALSE),
              false |-> of(FALSE, TRUE), rest |-> of(FALSE, FALSE)]

OfTask(task, rows) == {r \in rows : r.task = task}
Support(rows) == Weight({r \in rows : ~Unreplayable(r)})

(* ---- splits ------------------------------------------------------------ *)

Sessions(rows) == {r.session : r \in rows}

(* split_by_session: sessions in hash order, every stride-th held out. *)
SplitBySession(rows, percent) ==
    LET all == Sessions(rows)
        count == Cardinality(all)
        wanted == Larger(1, Smaller(count - 1, RoundDiv(count * percent, 100)))
        picked == {(i * count) \div wanted : i \in 0..(wanted - 1)}
        rank(s) == Cardinality({x \in all : x < s})
        out == {r \in rows : rank(r.session) \in picked}
    IN  IF count < 2 THEN [train |-> rows, holdout |-> {}]
        ELSE [train |-> rows \ out, holdout |-> out]

TaskOrder == [recipient |-> 1, reply |-> 2, topic |-> 3]
Earlier(a, b) ==
    \/ a.at < b.at
    \/ a.at = b.at /\ a.session < b.session
    \/ a.at = b.at /\ a.session = b.session /\ a.msg < b.msg
    \/ a.at = b.at /\ a.session = b.session /\ a.msg = b.msg
       /\ TaskOrder[a.task] < TaskOrder[b.task]

(* split_by_time: the newest rows validate; undated rows always train.  A   *)
(* row of many samples that lies across the cut stays whole with the older. *)
SplitByTime(rows, percent) ==
    LET count == Weight(rows)
        undated == Weight({r \in rows : r.at <= 0})
        cut == Larger(undated,
                 Larger(1, Smaller(count - 1, RoundDiv(count * (100 - percent), 100))))
        out == {r \in rows : Weight({q \in rows : Earlier(q, r)}) >= cut}
    IN  IF undated = count \/ count < 2 THEN [train |-> rows, holdout |-> {}]
        ELSE [train |-> rows \ out, holdout |-> out]

(* ---- fitting on the training side --------------------------------------- *)

(* The largest value, then the nearest, then the lowest cut. *)
Best(curve) ==
    (CHOOSE a \in curve : \A b \in curve :
        \/ a.value > b.value
        \/ a.value = b.value /\ a.far < b.far
        \/ a.value = b.value /\ a.far = b.far /\ a.cut <= b.cut).cut

(* sweep_threshold: the cut that is best by the metric, then closest to one *)
(* half, then lowest.  An undefined metric counts as zero.                  *)
Sweep(rows, metric) ==
    LET cuts == {0, One} \cup {r.score : r \in rows} \cup {r.score + 5 : r \in rows}
        of(cut, truth, told) ==
            Weight({r \in rows : (r.expected = "bot") = truth /\ (r.score >= cut) = told})
        count(cut) == [hit |-> of(cut, TRUE, TRUE), missed |-> of(cut, TRUE, FALSE),
                       false |-> of(cut, FALSE, TRUE), rest |-> of(cut, FALSE, FALSE)]
        rate(cut) == IF metric = "f1" THEN F1(count(cut)) ELSE Accuracy(count(cut))
        far(cut) == Larger(cut - One \div 2, One \div 2 - cut)
    IN  Best({[value |-> IF rate(cut) = NoRate THEN 0 ELSE rate(cut), far |-> far(cut),
               cut |-> cut] : cut \in cuts})

(* _evaluate_recipient: the turns whose score the host wrote and decided on *)
Swept(rows) == {r \in OfTask("recipient", rows) : r.kind = "scored"}

(* _evaluate_topic: the best commit threshold on the training pairs, ties   *)
(* towards the present one; the present one when no pair can be formed.     *)
TopicSweep(rows, base) ==
    LET offered == {r.score : r \in rows} \cup UNION {{c.score : c \in r.cands} : r \in rows}
        cuts == {base} \cup {Larger(3000, Smaller(9500, v)) : v \in offered}
        curve == {[value |-> Accuracy(PairCounts(rows, cut)),
                   far |-> Larger(cut - base, base - cut), cut |-> cut] : cut \in cuts}
    IN  IF \E row \in curve : row.value = NoRate THEN base ELSE Best(curve)

(* evaluate_dataset restricted to one proposing task: the parameters its    *)
(* builder would move from base, each by at most ratio per cent.            *)
Propose(task, split, base, ratio) ==
    LET train == OfTask(task, split.train)
        move(p, target) == Normalize([base EXCEPT ![p] = BoundedTarget(p, @, target, ratio)])
    IN  IF train = {} \/ OfTask(task, split.holdout) = {} THEN base
        ELSE IF task = "topic" THEN move("commit", TopicSweep(train, base.commit))
        ELSE IF Swept(train) = {} THEN base
        ELSE move("strong", Sweep(Swept(train), "accuracy"))

(* ---- verdicts ----------------------------------------------------------- *)

(* evaluation_plan: which tasks a change of parameters must be tested on,   *)
(* and whether some changed parameter is beyond what a replay can show.     *)
Plan(params, base) ==
    LET changed == Drift(base, params)
        recipient == "strong" \in changed
        topic == "commit" \in changed
    IN  [targets |-> (IF recipient THEN <<"recipient">> ELSE <<>>)
                     \o (IF topic THEN <<"topic">> ELSE <<>>),
         affected |-> (IF recipient THEN {"recipient", "reply"} ELSE {})
                      \cup (IF topic THEN {"topic"} ELSE {}),
         unsupported |-> changed \ {"strong", "commit"}]

(* bootstrap_delta: what 600 resamples of the held-out sessions can say of  *)
(* the primary metric.  When every session moves the same way the interval  *)
(* lies apart of zero, when none moves it does not; between the two the     *)
(* draws decide.  Only pairs of topics can leave a session undefined.       *)
Intervals(task, rows, params, base) ==
    LET kept == {r \in rows : ~Unreplayable(r)}
        gain(s) ==
            LET of == {r \in kept : r.session = s}
            IN  Change(Primary(task, ScoreTask(task, of, base)),
                       Primary(task, ScoreTask(task, of, params)))
        all == {gain(s) : s \in Sessions(kept)}
    IN  IF all \subseteq {NoRate} THEN {"undefined"}
        ELSE IF \A g \in all : g # NoRate /\ g > 0 THEN {"apart"}
        ELSE IF \A g \in all : g = 0 THEN {"crosses"}
        ELSE {"apart", "crosses"} \cup (IF NoRate \in all THEN {"undefined"} ELSE {})

(* _verdict: the gate on one frozen candidate, over one holdout.  tasks are *)
(* those the corpus has any sample of.                                      *)
Verdict(params, base, tasks, holdout) ==
    LET plan == Plan(params, base)
        before(t) == ScoreTask(t, OfTask(t, holdout), base)
        after(t) == ScoreTask(t, OfTask(t, holdout), params)
        target == Head(plan.targets)
        gain == Change(Primary(target, before(target)), Primary(target, after(target)))
    IN  IF \/ ~(plan.affected \subseteq tasks)
           \/ plan.unsupported # {}
           \/ plan.targets = <<>>
        THEN "insufficient"
        ELSE IF \E t \in plan.affected : Support(OfTask(t, holdout)) < MinSupport
        THEN "insufficient"
        ELSE IF \E t \in plan.affected : GuardBroken(before(t), after(t), MaxLoss)
        THEN "rejected"
        ELSE IF gain = NoRate THEN "insufficient"
        ELSE IF gain >= MinGain THEN "accepted" ELSE "rejected"

(* As PromotionCheck below, without a look at the newer holdout. *)
PromotionCheckOfSessions(session, future, interval, needInterval) ==
    IF needInterval /\ interval = "crosses" THEN "rejected" ELSE session

(* promotion_check: both holdouts, then the interval of the session one.    *)
(* future is "off" when the configuration asks for no forward validation.   *)
PromotionCheck(session, future, interval, needInterval) ==
    IF future = "insufficient" THEN "insufficient"
    ELSE IF future = "rejected" THEN "rejected"
    ELSE IF session # "accepted" THEN session
    ELSE IF needInterval /\ interval = "crosses" THEN "rejected"
    ELSE IF needInterval /\ interval = "undefined" THEN "insufficient"
    ELSE "accepted"
=============================================================================
