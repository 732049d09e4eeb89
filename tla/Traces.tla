------------------------------- MODULE Traces -------------------------------
(***************************************************************************)
(* What the host wrote about one message, as this plugin reads it:          *)
(* core/outcome.py, core/candidates.py and core/trace.py.  A field that may *)
(* be missing is a set of at most one value, or "" where its values are     *)
(* names.                                                                   *)
(*                                                                          *)
(* An annotation has the fields of the record the host stores: hasTrace, in *)
(* the trace its version, evidence codes, additive total, level, targeted,  *)
(* mode, the topic's confidence (conf) and ambiguous, a shadow block, and   *)
(* in several places an outcome block (outcomes), a candidate list (lists)  *)
(* and the selected topic (picked); beside it predicted, the human's labels *)
(* and the time of the label (at).                                          *)
(***************************************************************************)
EXTENDS Integers, Sequences, FiniteSets

Known == 3                    \* SCHEMA_V3, the newest layout the reader knows
Levels == {"strong", "hover", "weak"}

(* ---- the final outcome -------------------------------------------------- *)

Values == {"delivered", "suppressed", "generation_failed", "delivery_failed",
           "not_attempted", "not_delivered", "unknown"}
Stages == {"admission", "persona", "gate", "generation", "delivery", "unknown"}
Failures == Values \ {"delivered", "unknown"}

ValueStage == [delivered |-> "delivery", suppressed |-> "gate",
               generation_failed |-> "generation", delivery_failed |-> "delivery",
               not_attempted |-> "admission", not_delivered |-> "unknown",
               unknown |-> "unknown"]

(* One reason code stands for each list of them; any other is unlisted. *)
ReasonStage(reason) ==
    CASE reason = "asleep_ambient"   -> "gate"
      [] reason = "llm_timeout"      -> "generation"
      [] reason = "send_failed"      -> "delivery"
      [] reason = "level_not_strong" -> "admission"
      [] OTHER                       -> "unknown"

(* _assemble: what the host left out of a block, as far as it follows. *)
Assemble(block) ==
    LET value == IF block.value \in Values \ {"unknown"} THEN block.value
                 ELSE IF block.delivered = {TRUE} THEN "delivered"
                 ELSE IF block.reason # "" THEN "suppressed"
                 ELSE IF block.delivered = {FALSE} THEN "not_delivered" ELSE "unknown"
    IN  [value     |-> value,
         reason    |-> block.reason,
         stage     |-> IF block.stage \in Stages THEN block.stage
                       ELSE IF block.reason # "" THEN ReasonStage(block.reason)
                       ELSE ValueStage[value],
         delivered |-> IF block.delivered # {} THEN block.delivered
                       ELSE IF value = "delivered" THEN {TRUE}
                       ELSE IF value \in Failures THEN {FALSE} ELSE {}]

(* _from_block: nothing, an attempt that is still going on, or an outcome. *)
Told(block) ==
    IF block.value = "in_flight"
    THEN {[value |-> "unknown", delivered |-> {}, reason |-> "", stage |-> "generation"]}
    ELSE IF block = [value |-> "", delivered |-> {}, reason |-> "", stage |-> ""] THEN {}
    ELSE {Assemble(block)}

ReadAt(outcomes, place) == UNION {Told(block) : block \in outcomes[place]}

(* The trace wins over its routing section, that over the record's routing, *)
(* and that over the record itself.                                         *)
Places == <<"trace", "trace_routing", "routing", "record">>
FirstTold(outcomes) ==
    LET told == {i \in DOMAIN Places : ReadAt(outcomes, Places[i]) # {}}
    IN  IF told = {} THEN {}
        ELSE ReadAt(outcomes, Places[CHOOSE i \in told : \A j \in told : i <= j])

Delivered(outcome) == \E o \in outcome : o.value = "delivered"
StoppedAt(outcome, stage) == \E o \in outcome : o.value # "delivered" /\ o.stage = stage

(* The flow was entered and something after the rule kept the reply back. *)
Downstream(outcome) == \E o \in outcome : o.value # "delivered" /\ o.stage # "admission"

(* ---- candidates and the shadow ------------------------------------------ *)

(* parse_candidates: a field that is no list says nothing; items without a  *)
(* topic are dropped, a score that was not recorded stays unknown.          *)
Candidates(list) ==
    IF list.kind = "list" THEN {{item \in list.items : item.topic # ""}} ELSE {}

(* parse_shadow: a block nobody can attribute is no comparison. *)
ReadShadow(block) ==
    LET told == {b \in block : b.policy}
    IN  UNION {{[experiment |-> t.experiment, hour |-> t.hour, base |-> b, shadow |-> s,
                 changed |-> b # s] : b \in t.base, s \in t.shadow} : t \in told}

(* ---- the decision trace -------------------------------------------------- *)

Explicit(trace) == "mention" \in trace.codes

(* prior_bot_proxy: without an earlier bot message the host leaves nothing  *)
(* but its baseline.                                                        *)
PriorBot(trace) ==
    IF trace.codes = {} THEN -1 ELSE IF trace.codes \subseteq {"ambient_baseline"} THEN 0 ELSE 1

AdmissionRecorded(trace) == trace.level \in Levels \/ Explicit(trace)

(* As CandidateEvidence below, trusting the keys instead of the version. *)
EvidenceByKeys(trace) ==
    IF trace.cands = {} THEN "none"
    ELSE IF \A list \in trace.cands : list # {} /\ \A item \in list : item.evidence
         THEN "full" ELSE "partial"

CandidateEvidence(trace) ==
    IF trace.cands = {} THEN "none"
    ELSE IF /\ trace.source >= Known /\ trace.expressed >= Known
            /\ \A list \in trace.cands : list # {} /\ \A item \in list : item.evidence
         THEN "full" ELSE "partial"

(* read_schema_v2 and read_schema_v3: a layout that is not known is read as *)
(* schema 2 and marked.                                                     *)
Expressed(version) == IF version = Known THEN Known ELSE 2

(* normalize_trace and trace_from_sample_record: the frozen trace, and what *)
(* it leaves out taken from the record around it; without a trace only what *)
(* the routing section of an old record says.                               *)
TraceOf(a) ==
    LET list == IF a.hasTrace /\ Candidates(a.lists.trace) # {} THEN a.lists.trace
                ELSE a.lists.routing
    IN  [expressed |-> IF a.hasTrace THEN Expressed(a.version) ELSE 2,
         source    |-> IF a.hasTrace THEN a.version ELSE 0,
         degraded  |-> ~a.hasTrace \/ a.version \notin {0, Expressed(a.version)},
         codes     |-> IF a.hasTrace THEN a.codes ELSE {},
         total     |-> IF a.hasTrace /\ a.total # {} THEN CHOOSE n \in a.total : TRUE ELSE 0,
         level     |-> IF a.hasTrace THEN a.level ELSE "",
         targeted  |-> a.targeted,
         mode      |-> IF a.hasTrace /\ a.mode # "" THEN a.mode ELSE "legacy",
         conf      |-> a.conf,
         ambiguous |-> a.ambiguous,
         cands     |-> Candidates(list),
         picked    |-> IF a.hasTrace /\ a.picked.trace # "" THEN a.picked.trace
                       ELSE a.picked.routing,
         outcome   |-> IF a.hasTrace THEN FirstTold(a.outcomes) ELSE {},
         shadow    |-> IF a.hasTrace THEN ReadShadow(a.shadow) ELSE {}]
=============================================================================
