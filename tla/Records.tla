------------------------------ MODULE Records -------------------------------
(***************************************************************************)
(* The way of an annotation: the host writes it, completes it and a human   *)
(* relabels it; an import (main.ingest) turns it into samples and replaces  *)
(* what the store holds; the configuration says whether the raw trace is    *)
(* kept.  Then every reader of the stored rows (Quality, Shadow) must still *)
(* speak of the turn the host saw.                                          *)
(*                                                                          *)
(* The store below its cap and the copy in memory, which an import that is  *)
(* alone keeps equal to it (module SampleStore), are one set of rows here.  *)
(***************************************************************************)
EXTENDS Quality, Shadow

CONSTANTS
    Turns,       \* [message -> the annotations a host may write for it]
    Labels,      \* [message -> the labels a human may give it]
    Endings,     \* [message -> the outcome blocks written later, beside the trace]
    Policies,    \* the policies a replay is asked about
    MaxEdits, MaxNow

(* What the host and the human may write.  A field that may be missing is a  *)
(* set of at most one value (module Traces).                                 *)
AtMostOne(option) == \A x, y \in option : x = y
Option(values) == {option \in SUBSET values : AtMostOne(option)}

OutcomeBlock == [value : STRING, delivered : Option(BOOLEAN), reason : STRING, stage : STRING]
CandidateList ==
    [kind : STRING,
     items : SUBSET [topic : STRING, score : Option(Int), evidence : BOOLEAN]]
ShadowBlock ==
    [policy : BOOLEAN, experiment : STRING, hour : Nat,
     base : Option(BOOLEAN), shadow : Option(BOOLEAN)]
HumanLabels ==
    [bot : Option(BOOLEAN), topic : STRING, reply : Option(BOOLEAN),
     rule : Option(BOOLEAN), dated : BOOLEAN]
Annotation ==
    [hasTrace : BOOLEAN, version : Nat, codes : SUBSET STRING, total : Option(Int),
     level : STRING, targeted : BOOLEAN, mode : STRING, conf : Int, ambiguous : BOOLEAN,
     outcomes : [{"trace", "trace_routing", "routing", "record"} -> Option(OutcomeBlock)],
     lists : [trace : CandidateList, routing : CandidateList], picked : [trace : STRING, routing : STRING],
     predicted : STRING, shadow : Option(ShadowBlock), labels : HumanLabels, at : Nat]

ASSUME RecordsAssumption ==
    /\ IsFiniteSet(Messages) /\ Messages \subseteq STRING
    /\ \A m \in Messages : /\ Turns[m] \subseteq Annotation
                          /\ Labels[m] \subseteq HumanLabels
                          /\ Endings[m] \subseteq OutcomeBlock
    /\ MaxEdits \in Nat /\ MaxNow \in Nat \ {0}

VARIABLES
    host,        \* [annotated message -> its annotation]
    disk,        \* the stored rows
    seen,        \* [message -> the annotation its last import read]
    latest,      \* the messages of the last import
    now, edits

vars == <<host, disk, seen, latest, now, edits>>

Only(f, domain) == [x \in DOMAIN f \cap domain |-> f[x]]
In(sessions) == {m \in Messages : SessionOf[m] \in sessions}

RecordsInit ==
    /\ host = Empty /\ seen = Empty /\ latest = {}
    /\ disk = {} /\ now = 1 /\ edits = 0

(* ---- the host and the human ------------------------------------------------ *)

Annotated(a, labels) ==
    [a EXCEPT !.labels = labels, !.at = IF labels.dated THEN now ELSE 0]

Annotate(m) ==
    /\ m \notin DOMAIN host
    /\ \E a \in Turns[m], labels \in Labels[m] :
            host' = Completed(host, [x \in {m} |-> Annotated(a, labels)])
    /\ UNCHANGED <<disk, seen, latest, now, edits>>

Relabel(m) ==
    /\ m \in DOMAIN host /\ edits < MaxEdits
    /\ \E labels \in Labels[m] \ {host[m].labels} :
            host' = [host EXCEPT ![m] = Annotated(@, labels)]
    /\ edits' = edits + 1
    /\ UNCHANGED <<disk, seen, latest, now>>

(* The reply came to its end, or is still under way, after the snapshot. *)
Complete(m) ==
    /\ m \in DOMAIN host /\ edits < MaxEdits
    /\ \E block \in Endings[m] : host' = [host EXCEPT ![m].outcomes.record = {block}]
    /\ edits' = edits + 1
    /\ UNCHANGED <<disk, seen, latest, now>>

(* ---- ingest ------------------------------------------------------------------ *)

(* raw is config.store_raw_trace as an import finds it. *)

(* build_dataset *)
RowsOf(records, raw) == UNION {SamplesOf(m, records[m], raw) : m \in DOMAIN records}

(* As Merged below, laying the new rows on top of the old ones. *)
MergedOnTop(records, raw) ==
    LET sessions == {SessionOf[m] : m \in DOMAIN records}
    IN  {IF r.session \in sessions THEN Saved(r, raw) ELSE r : r \in disk}
        \cup {Saved(r, raw) : r \in RowsOf(records, raw)}

(* As Merged below, replacing a stored row by the row of the same task only. *)
MergedBySample(records, raw) ==
    LET new == RowsOf(records, raw)
        sessions == {SessionOf[m] : m \in DOMAIN records}
        kept == {r \in disk : ~\E q \in new : q.msg = r.msg /\ q.task = r.task}
    IN  {IF r.session \in sessions THEN Saved(r, raw) ELSE r : r \in kept}
        \cup {Saved(r, raw) : r \in new}

(* Bare records: in the sessions they belong to, the rows of every other     *)
(* message stay, and are written again in the present mode.                  *)
Merged(records, raw) ==
    LET sessions == {SessionOf[m] : m \in DOMAIN records}
        kept == {r \in disk : r.msg \notin DOMAIN records}
    IN  {IF r.session \in sessions THEN Saved(r, raw) ELSE r : r \in kept}
        \cup {Saved(r, raw) : r \in RowsOf(records, raw)}

(* Whole sessions: what the host no longer lists is gone. *)
ImportSessions(sessions, raw) ==
    LET records == Only(host, In(sessions))
    IN  /\ disk' = {r \in disk : r.session \notin sessions}
                   \cup {Saved(r, raw) : r \in RowsOf(records, raw)}
        /\ seen' = Completed(records, Only(seen, Messages \ In(sessions)))
        /\ latest' = DOMAIN records
        /\ UNCHANGED <<host, now, edits>>

ImportRecords(messages, raw) ==
    LET records == Only(host, messages)
    IN  /\ messages \subseteq DOMAIN host
        /\ disk' = Merged(records, raw)
        /\ seen' = Completed(records, seen)
        /\ latest' = DOMAIN records
        /\ UNCHANGED <<host, now, edits>>

Tick ==
    /\ now < MaxNow
    /\ now' = now + 1
    /\ UNCHANGED <<host, disk, seen, latest, edits>>

RecordsNext ==
    \/ \E m \in Messages : Annotate(m) \/ Relabel(m) \/ Complete(m)
    \/ \E s \in SUBSET {SessionOf[m] : m \in DOMAIN host} \ {{}}, raw \in BOOLEAN :
            ImportSessions(s, raw)
    \/ \E m \in Messages, raw \in BOOLEAN : ImportRecords({m}, raw)
    \/ Tick

RecordsSpec == RecordsInit /\ [][RecordsNext]_vars

(* ---- properties ---------------------------------------------------------------- *)

TurnOf(m) == TraceOf(seen[m])
RowsFor(m) == {r \in disk : r.msg = m}
Wanted(a) == IF a.labels.rule # {} THEN a.labels.rule ELSE a.labels.reply

(* Every row is one of a known message and task, and no message has two rows *)
(* of one task.                                                              *)
RecordsTypeOK ==
    /\ \A r \in disk :
        /\ r.msg \in DOMAIN seen /\ r.session = SessionOf[r.msg]
        /\ r.task \in {"recipient", "topic", "reply", "reply_outcome"}
        /\ "source_schema" \in DOMAIN r.trace
        /\ \A q \in disk : q.msg = r.msg /\ q.task = r.task => q = r
    /\ latest \subseteq DOMAIN seen
    /\ now \in 1..MaxNow /\ edits \in 0..MaxEdits

(* How the turn is decided by a policy, told from the host's own record in    *)
(* the terms of module Evaluator.                                             *)
Kind(a, t) ==
    IF Explicit(t) THEN "explicit"
    ELSE IF a.total = {} \/ ~a.hasTrace THEN "unscored"
    ELSE IF PriorBot(t) = -1 THEN "unknown"
    ELSE IF PriorBot(t) = 0  THEN "early" ELSE "scored"
HostDecides(a, t, policy) ==
    Targeted([kind |-> Kind(a, t), score |-> t.total, said |-> Recipient(t.targeted)], policy)
HostDecided(t, task) ==
    IF task = "recipient" THEN t.targeted
    ELSE t.level = "strong" \/ (Explicit(t) /\ t.targeted)

(* Replay is of the turn (evaluator.py:_replay_trace, baseline_reproduction,  *)
(* samples.py:FACT_KEYS): the rows reported as not reproduced are those the   *)
(* host decided otherwise than the policy decides its own record, whichever   *)
(* mixture of storage modes, merges and relabellings a row went through.      *)
ReplayIsOfTheTurn ==
    \A policy \in Policies, m \in DOMAIN seen :
        LET t == TurnOf(m)
            decides == HostDecides(seen[m], t, policy)
        IN  Mismatched(RowsFor(m), policy) =
                {r \in RowsFor(m) : /\ r.task \in {"recipient", "reply"} /\ ~Excluded(r)
                                    /\ decides # HostDecided(t, r.task)}

(* The matrix and the replay agree (quality.py:_replay_split "mirrors         *)
(* core.policy.decide"): a row on which two policies differ is one that the   *)
(* capability matrix counts as movable, so a replay called unsupported moves  *)
(* nothing and none moves more rows than the matrix says it can.              *)
OnlyEligibleMove ==
    LET differ(r) ==
            IF r.task = "topic"
            THEN Cardinality({ReplayLabel(PairRow(r), p.commit) : p \in Policies}) > 1
            ELSE ~Excluded(r) /\ Cardinality({Decide(r, p) : p \in Policies}) > 1
        moved(task) == {r \in OfRows(task, disk) : differ(r)}
        matrix == Capabilities(disk)
    IN  /\ \A r \in moved("recipient") \cup moved("reply") : Standing(r) = "eligible"
        /\ Cardinality(moved("recipient")) <= matrix.recipient_replay.eligible
        /\ Cardinality(moved("reply")) <= matrix.reply_admission_replay.eligible
        /\ Cardinality(moved("topic")) <= matrix.topic_threshold_replay.eligible

(* What the readers of the store see of a row, whatever is left of its trace: *)
(* candidates are read off topic rows only and supervision off admission rows. *)
View(r) ==
    [task |-> r.task, said |-> r.said, expected |-> r.expected, error |-> r.error, at |-> r.at,
     outcome |-> OutcomeOf(r), shadow |-> ShadowOf(r), scored |-> Scored(r),
     degraded |-> DegradedRow(r), schema |-> r.trace.source_schema,
     supervised |-> {Supervised(q) : q \in OfRows("reply", {r})},
     listed |-> {[cands |-> CandidatesOf(q), evidence |-> EvidenceOf(q), selected |-> SelectedOf(q)] :
                    q \in OfRows("topic", {r})}]

(* The last import stands (main.py:219-234, samples.py:FACT_KEYS): the rows of *)
(* a message, read back, say what its last imported record says stored in     *)
(* full.  No row outlives a label the human took back, no outcome or verdict  *)
(* of an earlier import remains, and no storage mode or later import of a     *)
(* neighbour changes what is read, nor what the dataset gate warns of.        *)
LastImportStands ==
    LET told == RowsOf(seen, TRUE)
    IN  /\ \A m \in DOMAIN seen :
              {View(r) : r \in RowsFor(m)} = {View(r) : r \in {q \in told : q.msg = m}}
        /\ GateWarnings(disk) = GateWarnings(told)

(* The two planes agree (quality.py:observe_record): of the records of the    *)
(* last import, each one with a reply label either has its admission row or   *)
(* is counted as undecided, and no more outcomes or candidate lists are found *)
(* in rows than were counted raw.                                             *)
PlanesAgree ==
    LET counts == Observed(Only(seen, latest))
        rows(task) == {r \in OfRows(task, disk) : r.msg \in latest}
        labelled == {m \in latest : seen[m].labels.reply # {}}
    IN  /\ Cardinality({r \in rows("reply") : r.msg \in labelled}) + counts.admission_undecided
              = Cardinality(labelled)
        /\ Cardinality({r.msg : r \in {q \in disk : q.msg \in latest /\ OutcomeOf(q) # {}}})
              <= counts.outcome_present
        /\ Cardinality({r \in rows("topic") : CandidatesOf(r) # {}})
              <= counts.kept - counts.candidates_missing

(* A layer is blamed for what it did (attribution.py): a system event stands  *)
(* for an outcome the host told, of a reply a human wanted and the rule did   *)
(* not refuse; candidate generation is blamed only over a list that was       *)
(* recorded without the topic, ranking only over one with it; the rule only   *)
(* where the label may judge it; and a reply that was wanted, let through by  *)
(* the rule and is known not to have been delivered is never called ok.       *)
BlameIsTrue ==
    \A m \in DOMAIN seen :
        LET blamed == LET found == Classify(RowsFor(m)) IN {found[i] : i \in DOMAIN found}
            t == TurnOf(m)
            offered == {c.topic : c \in UNION t.cands}
            stage == [gate_suppression |-> "gate", generation_failure |-> "generation",
                      delivery_failure |-> "delivery"]
            refused == t.level # "strong" /\ ~(Explicit(t) /\ t.targeted)
        IN  /\ \A event \in blamed \cap DOMAIN stage :
                /\ StoppedAt(t.outcome, stage[event]) /\ TRUE \in Wanted(seen[m])
                /\ refused => ~Supervision(seen[m], t)
            /\ "topic_candidate_miss" \in blamed =>
                  t.cands # {} /\ seen[m].labels.topic \notin offered
            /\ "topic_ranking_error" \in blamed => seen[m].labels.topic \in offered
            /\ "participation_error" \in blamed =>
                  /\ AdmissionRecorded(t) /\ Wanted(seen[m]) # {~refused}
                  /\ seen[m].labels.rule = {} => seen[m].mode = "legacy" /\ ~Downstream(t.outcome)
            /\ Blamed(RowsFor(m)) = "ok" /\ Wanted(seen[m]) = {TRUE} /\ ~refused
                  => t.outcome = {} \/ Delivered(t.outcome)

(* The schema is the host's (trace.py:normalize_trace, quality.py:361): full  *)
(* candidate evidence is read only off a record that declares schema 3 and    *)
(* scores every candidate, and a missing outcome is laid on the contract only *)
(* when no reply label came with a trace of schema 3 or above.                *)
SchemaIsTheHosts ==
    LET versions == {TurnOf(m).source : m \in {r.msg : r \in OfRows("reply", disk)}}
    IN  /\ \A r \in OfRows("topic", disk) : EvidenceOf(r) = "full" =>
              /\ seen[r.msg].hasTrace /\ seen[r.msg].version = Known
              /\ \A c \in UNION TurnOf(r.msg).cands : c.evidence
        /\ OutcomeGap(disk) = "contract" => \A v \in versions : v < Known
        /\ OutcomeGap(disk) = "gap" => \E v \in versions : v >= Known
        /\ OutcomeGap(disk) = "undeclared" => versions \subseteq {0}

(* The gate needs recent labels (quality.py:label_freshness): when nothing    *)
(* blocks learning, humans gave at least as many labels within the allowed    *)
(* age as the gate asks for, in as many sessions; importing old ones again    *)
(* does not renew them.                                                       *)
GateNeedsRecentLabels ==
    LET told(a) == Cardinality(a.labels.bot) + Cardinality(a.labels.reply)
                   + Cardinality({a.labels.topic} \ {""}) + Cardinality(Wanted(a))
        recent == {m \in DOMAIN seen : 0 < seen[m].at /\ now - seen[m].at <= MaxLabelAge}
    IN  GateBlocks(disk, now) = {} =>
            /\ SumFunction([m \in recent |-> told(seen[m])]) >= MinGateSamples
            /\ Cardinality({SessionOf[m] : m \in DOMAIN seen}) >= MinGateSessions

(* Activation is earned (shadow.py:evaluate_shadow): an open gate means that  *)
(* as many different messages as the rules ask for were judged by a human, in *)
(* one and the same complete experiment, and the policy won more of them than *)
(* it lost, however many labels each message carries.                         *)
ActivationIsEarned ==
    Blocked(ShadowRows(disk)) = {} =>
        LET compared == {m \in DOMAIN seen : RowsFor(m) # {} /\ TurnOf(m).shadow # {}}
            judged == {m \in compared : Wanted(seen[m]) # {} /\ AdmissionRecorded(TurnOf(m))}
            by(side) == {m \in judged : {The(TurnOf(m).shadow)[side]} = Wanted(seen[m])}
        IN  /\ Cardinality(judged) >= Rules.min_shadow_samples
            /\ \E e \in {The(TurnOf(m).shadow).experiment : m \in compared} :
                  e # "" /\ \A m \in compared : The(TurnOf(m).shadow).experiment = e
            /\ Cardinality(by("shadow")) > Cardinality(by("base"))

(* docs/learning-decision-boundaries.md:9: reply labels of persona turns and  *)
(* of replies kept back later stay out of parameter evaluation.  So a shadow  *)
(* gate that opens should have counted labels of the rule only.               *)
OnlyRuleLabelsActivate ==
    Blocked(ShadowRows(disk)) = {} =>
        \A r \in OfRows("reply", disk) : ShadowOf(r) # {} => Supervised(r)
=============================================================================
