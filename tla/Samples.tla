------------------------------ MODULE Samples -------------------------------
(***************************************************************************)
(* core/samples.py and core/features.py: the learning samples one annotated *)
(* message yields, what is left of a sample once it is stored, and how a    *)
(* stored one is read.                                                      *)
(*                                                                          *)
(* The trace of a sample is a record whose DOMAIN varies, as the payload's  *)
(* keys do.  decision_scope and decision_stages, which only label groups of *)
(* samples, are left out, and so are the confidences nothing here reads.    *)
(***************************************************************************)
EXTENDS Traces

CONSTANTS SessionOf           \* [message -> its session]

AmbientCodes == {"ambient_baseline", "cue"}   \* those the plugin has names for
Messages == DOMAIN SessionOf
Empty == [key \in {} |-> key]

(* f with the fields it lacks taken from g. *)
Completed(f, g) == [key \in DOMAIN f \cup DOMAIN g |-> IF key \in DOMAIN f THEN f[key] ELSE g[key]]
When(condition, fields) == IF condition THEN fields ELSE Empty
The(option) == CHOOSE x \in option : TRUE

(* build_features: the numbers kept of a trace, a code only by a known name. *)
Features(t) ==
    [explicit |-> Explicit(t), prior |-> PriorBot(t), total |-> t.total,
     targeted |-> t.targeted, codes |-> t.codes \cap AmbientCodes,
     ambiguous |-> t.ambiguous, persona |-> t.mode = "persona"]

Ledger(t) == [codes |-> t.codes, level |-> t.level, total |-> t.total]

(* to_contract, but for what Facts below writes over it. *)
Contract(t) ==
    Completed([trace_schema_version |-> t.expressed, mode |-> t.mode, recipient |-> t.targeted,
               learning_degraded |-> t.degraded, participation |-> Ledger(t)],
              When(t.cands # {} \/ t.picked # "",
                   [routing |-> [picked |-> t.picked, cands |-> t.cands]]))

(* make: the facts every sample of a message carries, with or without trace. *)
Facts(a, t) ==
    Completed([evidence_summary |-> [degraded |-> t.degraded, ledger |-> Ledger(t)],
               contribution_total_recorded |-> a.hasTrace /\ a.total # {},
               candidate_evidence |-> CandidateEvidence(t), source_schema |-> t.source],
              Completed(When(t.outcome # {}, [outcome |-> t.outcome]),
                        When(t.shadow # {}, [shadow |-> t.shadow])))

(* _topic_label: "new" stands for a topic of the message's own. *)
TopicLabel(label, msg) == IF label = "NEW" THEN msg ELSE label

Mistake(said, expected, missed, falsely) ==
    IF said = expected THEN "correct"
    ELSE IF expected \in {"bot", "reply"} THEN missed ELSE falsely

(* _outcome_error_label: a reply that is missing, by the stage it stopped at. *)
OutcomeMistake(o, said, expected) ==
    IF said = expected THEN "correct"
    ELSE IF expected # "reply" THEN "premature_reply"
    ELSE CASE o.stage = "gate"       -> "gate_suppression"
           [] o.stage = "generation" -> "generation_failure"
           [] o.stage = "delivery"   -> "delivery_failure"
           [] o.stage = "admission"  -> "participation_error"
           [] OTHER                  -> "unattributable"

(* May the reply label teach the rule?  Not when something after the rule   *)
(* decided, unless the human labelled the rule itself.                      *)
Supervision(a, t) ==
    \/ a.labels.rule # {}
    \/ a.hasTrace /\ a.mode = "legacy" /\ ~Downstream(t.outcome)

Reply(yes) == IF yes THEN "reply" ELSE "silent"
Recipient(yes) == IF yes THEN "bot" ELSE "other"

(* samples_from_annotation: the rows of message msg.  A label that is       *)
(* missing makes no row, and neither does a decision nobody recorded.       *)
SamplesOf(msg, a, raw) ==
    LET t == TraceOf(a)
        feats == Features(t)
        facts == Completed(Facts(a, t), When(raw, Contract(t)))
        row(task, said, expected, error, extra) ==
            [msg |-> msg, session |-> SessionOf[msg], task |-> task, said |-> said,
             expected |-> expected, error |-> error, at |-> a.at, conf |-> t.conf,
             feats |-> feats, trace |-> Completed(extra, facts)]
        predicted == TopicLabel(a.predicted, msg)
        replied == Reply(t.level = "strong" \/ (Explicit(t) /\ t.targeted))
        ruled == IF a.labels.rule # {} THEN a.labels.rule ELSE a.labels.reply
    IN  {row("recipient", Recipient(t.targeted), Recipient(want),
             Mistake(Recipient(t.targeted), Recipient(want), "missed_bot", "false_bot"),
             Empty) : want \in a.labels.bot}
        \cup {row("topic", predicted, TopicLabel(want, msg), "unknown",
                  [topic_candidates |-> t.cands, topic_candidates_recorded |-> t.cands # {},
                   selected_topic |-> IF t.picked # "" THEN t.picked ELSE predicted]) :
                want \in {a.labels.topic} \ {""}}
        \cup {row("reply", replied, Reply(want),
                  IF Supervision(a, t) \/ replied = Reply(want)
                  THEN Mistake(replied, Reply(want), "missed_reply", "premature_reply")
                  ELSE "unattributable",
                  [reply_supervision |-> Supervision(a, t)]) :
                want \in {w \in ruled : AdmissionRecorded(t)}}
        \cup {row("reply_outcome", Reply(Delivered({o})), Reply(want),
                  OutcomeMistake(o, Reply(Delivered({o})), Reply(want)), Empty) :
                want \in a.labels.reply, o \in t.outcome}

(* ---- storage ------------------------------------------------------------- *)

(* As FactKeys below, without the flag that a score was recorded at all. *)
FactKeysButScore ==
    {"outcome", "shadow", "topic_candidates", "topic_candidates_recorded", "candidate_evidence",
     "selected_topic", "source_schema", "evidence_summary", "reply_supervision"}

(* FACT_KEYS: what a stored row keeps of its trace in either mode. *)
FactKeys ==
    {"outcome", "shadow", "topic_candidates", "topic_candidates_recorded", "candidate_evidence",
     "selected_topic", "source_schema", "contribution_total_recorded", "evidence_summary",
     "reply_supervision"}

(* as_dict and from_dict. *)
Saved(row, raw) ==
    IF raw THEN row
    ELSE [row EXCEPT !.trace = [key \in DOMAIN @ \cap FactKeys |-> @[key]]]

(* ---- reading a stored row --------------------------------------------------- *)

Has(row, key) == key \in DOMAIN row.trace

(* outcome: the stored block is read like any other. *)
OutcomeOf(row) == IF Has(row, "outcome") THEN UNION {Told(o) : o \in row.trace.outcome} ELSE {}
ShadowOf(row) == IF Has(row, "shadow") THEN row.trace.shadow ELSE {}

(* contribution_total_recorded; without the flag, whether the row shows      *)
(* anything of how the turn was scored.                                      *)
Scored(row) ==
    LET shown(l) == l.codes # {} \/ l.level \in Levels \/ l.total # 0
    IN  IF Has(row, "contribution_total_recorded") THEN row.trace.contribution_total_recorded
        ELSE \/ Has(row, "participation") /\ shown(row.trace.participation)
             \/ Has(row, "evidence_summary") /\ shown(row.trace.evidence_summary.ledger)

(* rule_reply_supervision_eligible, by the marker or by what else is known. *)
Supervised(row) ==
    IF Has(row, "reply_supervision") THEN row.trace.reply_supervision
    ELSE /\ ~row.feats.persona
         /\ ~(Has(row, "mode") /\ row.trace.mode # "legacy")
         /\ ~Downstream(OutcomeOf(row))

(* topic_candidates and topic_candidates_recorded; without the flag a list  *)
(* counts when something is in it.                                          *)
CandidatesOf(row) ==
    IF Has(row, "topic_candidates_recorded") THEN row.trace.topic_candidates
    ELSE IF Has(row, "routing") THEN row.trace.routing.cands \ {{}} ELSE {}

EvidenceOf(row) ==
    IF Has(row, "candidate_evidence") THEN row.trace.candidate_evidence
    ELSE IF CandidatesOf(row) # {} THEN "partial" ELSE "none"
SelectedOf(row) == IF Has(row, "selected_topic") THEN row.trace.selected_topic ELSE row.said
DegradedRow(row) ==
    \/ Has(row, "evidence_summary") /\ row.trace.evidence_summary.degraded
    \/ Has(row, "learning_degraded") /\ row.trace.learning_degraded
=============================================================================
