------------------------------ MODULE Quality -------------------------------
(***************************************************************************)
(* What a corpus of stored samples can support: the replay of a stored row  *)
(* (core/evaluator.py), the capability matrix, the contract counters and    *)
(* the dataset gate (core/quality.py), and the layer that is blamed for     *)
(* what went wrong with a message (core/attribution.py).                    *)
(***************************************************************************)
EXTENDS Samples, Evaluator

CONSTANTS MinCapability,      \* MIN_CAPABILITY_SAMPLES
          MinGateSamples, MinGateSessions, MaxLabelAge,  \* config.gate_min_*, gate_max_*
          MinPositive, MaxDegraded                       \* both in per cent

ASSUME QualityAssumption ==
    MinGateSamples \in Nat /\ MinGateSessions \in Nat /\ MaxLabelAge \in Nat

(* ---- replaying a stored row ---------------------------------------------- *)

(* _replay_trace: the snapshot if it shows any evidence, else what the       *)
(* feature map kept of it.                                                   *)
ReplayTrace(row) ==
    IF Has(row, "participation") /\ row.trace.participation.codes # {}
    THEN [codes |-> row.trace.participation.codes, targeted |-> row.trace.recipient,
          total |-> row.trace.participation.total]
    ELSE [codes |-> row.feats.codes \cup (IF row.feats.explicit THEN {"mention"} ELSE {}),
          targeted |-> row.feats.targeted \/ (Has(row, "recipient") /\ row.trace.recipient),
          total |-> row.feats.total]

(* As Decide below, admitting where no bot message went before. *)
DecideAnyPrior(row, policy) ==
    LET t == ReplayTrace(row)
    IN  IF Explicit(t) \/ ~Scored(row) \/ PriorBot(t) < 0 THEN t.targeted
        ELSE t.total >= Normalize(policy).strong

(* policy.decide *)
Decide(row, policy) ==
    LET t == ReplayTrace(row)
    IN  IF Explicit(t) \/ ~Scored(row) \/ PriorBot(t) < 0 THEN t.targeted
        ELSE PriorBot(t) = 1 /\ t.total >= Normalize(policy).strong

(* _replay_split: whether a threshold can change what the row says, or why not. *)
Standing(row) ==
    IF row.task = "reply" /\ ~Supervised(row) THEN "non_rule_supervision"
    ELSE IF row.feats.explicit  THEN "explicit"
    ELSE IF ~Scored(row)        THEN "no_score"
    ELSE IF row.feats.prior < 0 THEN "unknown_prior_bot"
    ELSE IF row.feats.prior = 0 THEN "no_prior_bot" ELSE "eligible"

(* _unreplayable *)
Excluded(row) == Standing(row) \in {"non_rule_supervision", "no_score", "unknown_prior_bot"}

(* baseline_reproduction: the rows whose replay is not what the host said. *)
Mismatched(rows, baseline) ==
    {row \in rows : /\ row.task \in {"recipient", "reply"} /\ ~Excluded(row)
                    /\ Decide(row, baseline) # (row.said \in {"bot", "reply"})}

(* pair_rows: a topic row as the replay of the commit threshold reads it. *)
PairRow(row) ==
    [kind |-> IF row.feats.ambiguous THEN "ambiguous" ELSE "topic",
     said |-> row.said, expected |-> row.expected, score |-> row.conf,
     cands |-> {[topic |-> c.topic, score |-> The(c.score)] :
                   c \in {d \in UNION CandidatesOf(row) : d.score # {}}}]

(* replay_can_move *)
CanMove(pair) == pair.kind # "ambiguous" /\ (pair.said # "" \/ pair.cands # {})

(* ---- capabilities ---------------------------------------------------------- *)

OfRows(task, rows) == {r \in rows : r.task = task}
Health(eligible, rows) ==
    LET all == Cardinality(rows)
        able == Cardinality(eligible)
    IN  [eligible |-> able, total |-> all,
         status |-> IF able = 0 THEN "unsupported"
                    ELSE IF all < MinCapability THEN "insufficient"
                    ELSE IF 10 * able >= 9 * all THEN "ok" ELSE "warning"]

ReplayHealth(task, rows) ==
    Health({r \in OfRows(task, rows) : Standing(r) = "eligible"}, OfRows(task, rows))

(* candidate_recall: only a topic that existed has a candidate question. *)
Scorable(rows) == {r \in OfRows("topic", rows) : r.expected # r.msg}

Capabilities(rows) ==
    [recipient_replay |-> ReplayHealth("recipient", rows),
     reply_admission_replay |-> ReplayHealth("reply", rows),
     topic_attribution |->
        Health({r \in Scorable(rows) : CandidatesOf(r) # {}}, Scorable(rows)),
     topic_threshold_replay |->
        Health({r \in OfRows("topic", rows) : CanMove(PairRow(r))}, OfRows("topic", rows)),
     final_reply_outcome |->
        Health({r \in OfRows("reply", rows) : OutcomeOf(r) # {}}, OfRows("reply", rows)),
     candidate_evidence |->
        Health({r \in OfRows("topic", rows) : EvidenceOf(r) = "full"}, OfRows("topic", rows))]

(* final_reply_outcome: why no outcome is known, once there is none. *)
OutcomeGap(rows) ==
    LET labelled == OfRows("reply", rows)
        schemas == {r.trace.source_schema : r \in {q \in labelled : Has(q, "source_schema")}}
    IN  IF \E r \in labelled : OutcomeOf(r) # {} THEN "some"
        ELSE IF labelled = {}                THEN "unlabelled"
        ELSE IF schemas \subseteq {0}        THEN "undeclared"
        ELSE IF \A s \in schemas : s < Known THEN "contract" ELSE "gap"

(* ---- the dataset gate -------------------------------------------------------- *)

(* As Fresh below, taking a label of unknown age for a recent one. *)
FreshOrUndated(rows, now) == {r \in rows : r.at <= now /\ (now - r.at <= MaxLabelAge \/ r.at = 0)}

(* label_freshness: only a known label time that is not in the future counts. *)
Fresh(rows, now) == {r \in rows : 0 < r.at /\ r.at <= now /\ now - r.at <= MaxLabelAge}

(* dataset_gate: the checks that block, and those that only qualify. *)
GateBlocks(rows, now) ==
    {b \in {"samples"} : Cardinality(rows) < MinGateSamples}
    \cup {b \in {"sessions"} : Cardinality({r.session : r \in rows}) < MinGateSessions}
    \cup {b \in {"label_age"} : Cardinality(Fresh(rows, now)) < MinGateSamples}

(* Is the share of some among all below, or above, so many per cent? *)
Under(some, all, percent) == 100 * Cardinality(some) < percent * Cardinality(all)
Over(some, all, percent) == 100 * Cardinality(some) > percent * Cardinality(all)

GateWarnings(rows) ==
    LET topics == OfRows("topic", rows)
        labelled == OfRows("reply", rows)
        wanted(all) == {r \in all : r.expected \in {"reply", "bot"}}
        lopsided(all) == \/ Under(wanted(all), all, MinPositive)
                         \/ Under(all \ wanted(all), all, MinPositive)
    IN  {w \in {"balance"} : \E task \in {"recipient", "reply", "reply_outcome"} :
                                lopsided(OfRows(task, rows))}
        \cup {w \in {"degraded"} : Over({r \in rows : DegradedRow(r)}, rows, MaxDegraded)}
        \cup {w \in {"candidate_coverage"} :
                  Under({r \in topics : CandidatesOf(r) # {}}, topics, 70)}
        \cup {w \in {"outcome_coverage"} :
                  Under({r \in labelled : OutcomeOf(r) # {}}, labelled, 50)}

(* ---- the contract plane -------------------------------------------------------- *)

(* RawContractStats: what the records of one import say, counted raw.  The   *)
(* batch is a function from messages to annotations.                         *)
Listed(a) ==     \* _observe_topic_candidates
    IF a.lists.routing.kind = "list" THEN {a.lists.routing.items}
    ELSE IF a.hasTrace /\ a.lists.trace.kind = "list" THEN {a.lists.trace.items} ELSE {}

(* As Undecided below, looking only for a level of the rule. *)
UndecidedByLevel(a) == a.labels.reply # {} /\ TraceOf(a).level = ""

(* A human reply label with no decision of the rule to hold it against. *)
Undecided(a) == a.labels.reply # {} /\ ~AdmissionRecorded(TraceOf(a))

Observed(batch) ==
    LET count(test(_)) == Cardinality({m \in DOMAIN batch : test(batch[m])})
    IN  [kept |-> Cardinality(DOMAIN batch),
         decision_trace_absent |-> count(LAMBDA a : ~a.hasTrace),
         admission_undecided |-> count(Undecided),
         outcome_present |-> count(LAMBDA a : TraceOf(a).outcome # {}),
         shadow_present |-> count(LAMBDA a : TraceOf(a).shadow # {}),
         candidates_missing |-> count(LAMBDA a : Listed(a) = {}),
         candidates_empty |-> count(LAMBDA a : Listed(a) = {{}}),
         contribution_total_present |-> count(LAMBDA a : a.hasTrace /\ a.total # {})]

(* ---- attribution ------------------------------------------------------------------ *)

(* As TopicLink below, taking a list that is missing for one without the topic. *)
TopicLinkUnlisted(row) ==
    IF row.said = row.expected \/ row.expected = row.msg \/ SelectedOf(row) = row.expected
    THEN <<>>
    ELSE IF row.expected \in {c.topic : c \in UNION CandidatesOf(row)}
    THEN <<"topic_ranking_error">> ELSE <<"topic_candidate_miss">>

(* _topic_failure: was the right topic not proposed, or not chosen? *)
TopicLink(row) ==
    IF row.said = row.expected \/ row.expected = row.msg \/ SelectedOf(row) = row.expected
    THEN <<>>
    ELSE IF CandidatesOf(row) = {} THEN <<"unattributable">>
    ELSE IF row.expected \in {c.topic : c \in UNION CandidatesOf(row)}
    THEN <<"topic_ranking_error">> ELSE <<"topic_candidate_miss">>

(* _execution_failure: where a reply stopped that the rule had let through. *)
ExecutionLink(final, admission, admitted) ==
    IF final = {} THEN <<>>
    ELSE IF Delivered(final)
    THEN IF admitted /\ \E r \in admission : r.expected = "silent"
         THEN <<"unattributable">> ELSE <<>>
    ELSE IF ~admitted \/ \A r \in admission : r.expected = "silent" THEN <<>>
    ELSE CASE StoppedAt(final, "gate")       -> <<"gate_suppression">>
           [] StoppedAt(final, "generation") -> <<"generation_failure">>
           [] StoppedAt(final, "delivery")   -> <<"delivery_failure">>
           [] OTHER                          -> <<"unattributable">>

(* classify: every link of a message's chain that failed, the first in front. *)
Classify(chain) ==
    LET recipient == OfRows("recipient", chain)
        admission == OfRows("reply", chain)
        held == {o \in {OutcomeOf(r) : r \in chain} : o # {}}
        final == IF held = {} THEN {} ELSE The(held)
        wrong == {r \in admission : Supervised(r) /\ r.said # r.expected}
        unruled == \E r \in admission : ~Supervised(r)
        execution == ExecutionLink(final, admission, wrong = {})
    IN  (IF \E r \in recipient : r.said # r.expected THEN <<"recipient_error">> ELSE <<>>)
        \o (IF OfRows("topic", chain) = {} THEN <<>> ELSE TopicLink(The(OfRows("topic", chain))))
        \o (IF wrong # {} THEN <<"participation_error">> ELSE <<>>)
        \o (IF execution = <<>> /\ unruled THEN <<"unattributable">> ELSE execution)

Blamed(chain) == IF Classify(chain) = <<>> THEN "ok" ELSE Head(Classify(chain))
=============================================================================
