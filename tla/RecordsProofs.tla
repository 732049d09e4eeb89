---------------------------- MODULE RecordsProofs ----------------------------
(***************************************************************************)
(* Theorems about Records, for any finite set of messages, any annotations  *)
(* a host may write for them, and without a bound on imports.               *)
(***************************************************************************)
EXTENDS Records, SumTheorems, FiniteSetTheorems, SequenceTheorems, TLAPS

(***************************************************************************)
(* Records with optional fields                                            *)
(***************************************************************************)
LEMMA CompletedFields ==
    ASSUME NEW f, NEW g
    PROVE  /\ DOMAIN Completed(f, g) = DOMAIN f \cup DOMAIN g
           /\ \A key \in DOMAIN f : Completed(f, g)[key] = f[key]
           /\ \A key \in DOMAIN g \ DOMAIN f : Completed(f, g)[key] = g[key]
BY DEF Completed

LEMMA WhenFields ==
    ASSUME NEW condition \in BOOLEAN, NEW fields
    PROVE  /\ condition => When(condition, fields) = fields
           /\ ~condition => DOMAIN When(condition, fields) = {}
BY DEF When, Empty

(***************************************************************************)
(* What the host wrote                                                     *)
(***************************************************************************)
LEMMA AnnotationFields ==
    ASSUME NEW a \in Annotation
    PROVE  /\ a.hasTrace \in BOOLEAN /\ a.version \in Nat /\ a.targeted \in BOOLEAN
           /\ a.ambiguous \in BOOLEAN /\ a.at \in Nat
           /\ a.total \in Option(Int) /\ a.shadow \in Option(ShadowBlock)
           /\ a.outcomes \in [{"trace", "trace_routing", "routing", "record"} -> Option(OutcomeBlock)]
           /\ a.labels \in HumanLabels
           /\ a.labels.bot \in Option(BOOLEAN) /\ a.labels.reply \in Option(BOOLEAN)
           /\ a.labels.rule \in Option(BOOLEAN)
BY DEF Annotation, HumanLabels

LEMMA Flags == \A option \in Option(BOOLEAN) : option = {} \/ option = {TRUE} \/ option = {FALSE}
BY DEF Option, AtMostOne

\* An outcome that was read is read again as it is.
LEMMA ToldOnce ==
    ASSUME NEW block \in OutcomeBlock, NEW o \in Told(block)
    PROVE  Told(o) = {o} /\ Told(block) = {o}
<1>0. block.delivered = {} \/ block.delivered = {TRUE} \/ block.delivered = {FALSE}
  BY Flags DEF OutcomeBlock
<1>1. CASE block.value = "in_flight"
  <2>1. o = [value |-> "unknown", delivered |-> {}, reason |-> "", stage |-> "generation"]
        /\ Told(block) = {o}
    BY <1>1 DEF Told
  <2>2. Assemble(o) = o
    BY <2>1 DEF Assemble, Values, Stages, Failures
  <2> QED
    BY <2>1, <2>2 DEF Told
<1>2. CASE block.value # "in_flight"
  <2>1. o = Assemble(block) /\ Told(block) = {o}
    BY <1>2 DEF Told
  <2> DEFINE value == IF block.value \in Values \ {"unknown"} THEN block.value
                      ELSE IF block.delivered = {TRUE} THEN "delivered"
                      ELSE IF block.reason # "" THEN "suppressed"
                      ELSE IF block.delivered = {FALSE} THEN "not_delivered" ELSE "unknown"
  <2> DEFINE stage == IF block.stage \in Stages THEN block.stage
                      ELSE IF block.reason # "" THEN ReasonStage(block.reason)
                      ELSE ValueStage[value]
  <2> DEFINE delivered == IF block.delivered # {} THEN block.delivered
                          ELSE IF value = "delivered" THEN {TRUE}
                          ELSE IF value \in Failures THEN {FALSE} ELSE {}
  <2>2. o = [value |-> value, reason |-> block.reason, stage |-> stage, delivered |-> delivered]
    BY <2>1 DEF Assemble
  <2>3. value \in Values
    BY DEF Values
  <2>4. value = "unknown" => block.reason = "" /\ block.delivered = {}
    BY <1>0
  <2>5. stage \in Stages
    <3>1. ReasonStage(block.reason) \in Stages
      BY DEF ReasonStage, Stages
    <3>2. /\ ValueStage["delivered"] \in Stages /\ ValueStage["suppressed"] \in Stages
          /\ ValueStage["generation_failed"] \in Stages /\ ValueStage["delivery_failed"] \in Stages
          /\ ValueStage["not_attempted"] \in Stages /\ ValueStage["not_delivered"] \in Stages
          /\ ValueStage["unknown"] \in Stages
      BY DEF ValueStage, Stages
    <3>3. ValueStage[value] \in Stages
      <4> HIDE DEF value
      <4> QED
        BY <2>3, <3>2 DEF Values
    <3> QED
      BY <3>1, <3>3
  <2>6. delivered \in {{}, {TRUE}, {FALSE}} /\ (delivered = {} => value = "unknown")
        /\ (value = "unknown" => delivered = {})
    BY <1>0, <2>3, <2>4 DEF Values, Failures
  <2> HIDE DEF value, stage, delivered
  <2>7. o.value = value /\ o.reason = block.reason /\ o.stage = stage /\ o.delivered = delivered
    BY <2>2
  <2>8. Assemble(o) = o
    <3>1. Assemble(o) =
             [value |-> IF value \in Values \ {"unknown"} THEN value
                        ELSE IF delivered = {TRUE} THEN "delivered"
                        ELSE IF block.reason # "" THEN "suppressed"
                        ELSE IF delivered = {FALSE} THEN "not_delivered" ELSE "unknown",
              reason |-> block.reason, stage |-> stage,
              delivered |-> IF delivered # {} THEN delivered
                            ELSE IF value = "unknown" THEN {} ELSE delivered]
      BY <2>3, <2>4, <2>5, <2>6, <2>7 DEF Assemble, Values, Failures
    <3> QED
      BY <2>2, <2>3, <2>4, <2>6, <3>1
  <2>9. o.value # "in_flight" /\ o.value # ""
    BY <2>3, <2>7 DEF Values
  <2>10. o # [value |-> "", delivered |-> {}, reason |-> "", stage |-> ""]
    <3> SUFFICES ASSUME o = [value |-> "", delivered |-> {}, reason |-> "", stage |-> ""]
                 PROVE  FALSE
      OBVIOUS
    <3> QED
      BY <2>9
  <2>11. Told(o) = {o}
    BY <2>8, <2>9, <2>10 DEF Told
  <2> QED
    BY <2>1, <2>11
<1> QED
  BY <1>1, <1>2

\* So the outcome of a trace is read off a stored row as it was read off the
\* host's record, and there is at most one.
LEMMA OutcomeOnce ==
    ASSUME NEW a \in Annotation
    PROVE  LET outcome == TraceOf(a).outcome
           IN  AtMostOne(outcome) /\ UNION {Told(o) : o \in outcome} = outcome
<1> DEFINE outcome == TraceOf(a).outcome
<1>1. outcome = IF a.hasTrace THEN FirstTold(a.outcomes) ELSE {}
  BY DEF TraceOf
<1>2. ASSUME NEW i \in DOMAIN Places
      PROVE  LET told == ReadAt(a.outcomes, Places[i])
             IN  AtMostOne(told) /\ UNION {Told(o) : o \in told} = told
  <2>1. a.outcomes[Places[i]] \in Option(OutcomeBlock)
    <3>1. Places[i] \in {"trace", "trace_routing", "routing", "record"}
      BY DEF Places
    <3> QED
      BY <3>1, AnnotationFields
  <2>2. PICK blocks \in Option(OutcomeBlock) : blocks = a.outcomes[Places[i]]
    BY <2>1
  <2>3. blocks \subseteq OutcomeBlock /\ AtMostOne(blocks)
    BY DEF Option
  <2> DEFINE told == ReadAt(a.outcomes, Places[i])
  <2>4. told = UNION {Told(block) : block \in blocks}
    BY <2>2 DEF ReadAt
  <2>5. \A o \in told : Told(o) = {o}
    BY <2>3, <2>4, ToldOnce
  <2>6. \A o, p \in told : o = p
    BY <2>3, <2>4, ToldOnce DEF AtMostOne
  <2> HIDE DEF told
  <2>7. UNION {Told(o) : o \in told} = told
    BY <2>5
  <2> QED
    BY <2>6, <2>7 DEF told, AtMostOne
<1>3. outcome = {} \/ \E i \in DOMAIN Places : outcome = ReadAt(a.outcomes, Places[i])
  <2> DEFINE told == {i \in DOMAIN Places : ReadAt(a.outcomes, Places[i]) # {}}
  <2>1. CASE told = {} \/ ~a.hasTrace
    BY <1>1, <2>1, AnnotationFields DEF FirstTold
  <2>2. CASE told # {} /\ a.hasTrace
    <3>1. told \subseteq 1..4 /\ \E n \in told : TRUE
      BY <2>2 DEF Places
    <3>2. \E n \in told : \A j \in told : n <= j
      <4>1. CASE 1 \in told
        BY <3>1, <4>1
      <4>2. CASE 1 \notin told /\ 2 \in told
        BY <3>1, <4>2
      <4>3. CASE 1 \notin told /\ 2 \notin told /\ 3 \in told
        BY <3>1, <4>3
      <4>4. CASE 1 \notin told /\ 2 \notin told /\ 3 \notin told
        BY <3>1, <4>4
      <4> QED
        BY <4>1, <4>2, <4>3, <4>4
    <3>3. (CHOOSE i \in told : \A j \in told : i <= j) \in told
      BY <3>2
    <3> QED
      BY <1>1, <2>2, <3>3 DEF FirstTold
  <2> QED
    BY <2>1, <2>2
<1>4. CASE outcome = {}
  BY <1>4 DEF AtMostOne
<1>5. CASE \E i \in DOMAIN Places : outcome = ReadAt(a.outcomes, Places[i])
  <2> HIDE DEF outcome
  <2>1. AtMostOne(outcome) /\ UNION {Told(o) : o \in outcome} = outcome
    BY <1>2, <1>5
  <2> QED
    BY <2>1 DEF outcome
<1> QED
  BY <1>3, <1>4, <1>5

\* A turn has at most one shadow block.
LEMMA ShadowOnce ==
    ASSUME NEW a \in Annotation
    PROVE  AtMostOne(TraceOf(a).shadow)
<1>1. TraceOf(a).shadow = IF a.hasTrace THEN ReadShadow(a.shadow) ELSE {}
  BY DEF TraceOf
<1>2. a.shadow \subseteq ShadowBlock /\ AtMostOne(a.shadow)
  BY AnnotationFields DEF Option
<1>3. \A b \in a.shadow : AtMostOne(b.base) /\ AtMostOne(b.shadow)
  BY <1>2 DEF ShadowBlock, Option
<1>4. AtMostOne(ReadShadow(a.shadow))
  <2> SUFFICES ASSUME NEW x \in ReadShadow(a.shadow), NEW y \in ReadShadow(a.shadow)
               PROVE  x = y
    BY DEF AtMostOne
  <2>1. PICK t \in a.shadow : \E b \in t.base, s \in t.shadow :
           x = [experiment |-> t.experiment, hour |-> t.hour, base |-> b, shadow |-> s,
                changed |-> b # s]
    BY DEF ReadShadow
  <2>2. PICK u \in a.shadow : \E b \in u.base, s \in u.shadow :
           y = [experiment |-> u.experiment, hour |-> u.hour, base |-> b, shadow |-> s,
                changed |-> b # s]
    BY DEF ReadShadow
  <2>3. t = u
    BY <1>2 DEF AtMostOne
  <2> QED
    BY <1>3, <2>1, <2>2, <2>3 DEF AtMostOne
<1> QED
  BY <1>1, <1>4 DEF AtMostOne

(***************************************************************************)
(* The rows of a message, task by task                                     *)
(***************************************************************************)
ExtraKeys == {"topic_candidates", "topic_candidates_recorded", "selected_topic",
              "reply_supervision"}
ContractKeys == {"trace_schema_version", "mode", "recipient", "learning_degraded",
                 "participation", "routing"}

TraceOfRow(a, raw, extra) ==
    Completed(extra, Completed(Facts(a, TraceOf(a)), When(raw, Contract(TraceOf(a)))))

RowOf(m, a, raw, task, said, expected, error, extra) ==
    [msg |-> m, session |-> SessionOf[m], task |-> task, said |-> said,
     expected |-> expected, error |-> error, at |-> a.at, conf |-> TraceOf(a).conf,
     feats |-> Features(TraceOf(a)), trace |-> TraceOfRow(a, raw, extra)]

Replied(a) ==
    LET t == TraceOf(a)
    IN  Reply(t.level = "strong" \/ (Explicit(t) /\ t.targeted))

ReplyError(a, want) ==
    IF Supervision(a, TraceOf(a)) \/ Replied(a) = Reply(want)
    THEN Mistake(Replied(a), Reply(want), "missed_reply", "premature_reply")
    ELSE "unattributable"

TopicExtra(m, a) ==
    [topic_candidates |-> TraceOf(a).cands, topic_candidates_recorded |-> TraceOf(a).cands # {},
     selected_topic |-> IF TraceOf(a).picked # "" THEN TraceOf(a).picked
                        ELSE TopicLabel(a.predicted, m)]
ReplyExtra(a) == [reply_supervision |-> Supervision(a, TraceOf(a))]

RecipientRow(m, a, raw, want) ==
    RowOf(m, a, raw, "recipient", Recipient(TraceOf(a).targeted), Recipient(want),
          Mistake(Recipient(TraceOf(a).targeted), Recipient(want), "missed_bot", "false_bot"),
          Empty)
TopicRow(m, a, raw) ==
    RowOf(m, a, raw, "topic", TopicLabel(a.predicted, m), TopicLabel(a.labels.topic, m),
          "unknown", TopicExtra(m, a))
ReplyRow(m, a, raw, want) ==
    RowOf(m, a, raw, "reply", Replied(a), Reply(want), ReplyError(a, want), ReplyExtra(a))
OutcomeRow(m, a, raw, want, o) ==
    RowOf(m, a, raw, "reply_outcome", Reply(Delivered({o})), Reply(want),
          OutcomeMistake(o, Reply(Delivered({o})), Reply(want)), Empty)

RecipientRows(m, a, raw) == {RecipientRow(m, a, raw, want) : want \in a.labels.bot}
TopicRows(m, a, raw) == {TopicRow(m, a, raw) : want \in {a.labels.topic} \ {""}}
ReplyRows(m, a, raw) ==
    {ReplyRow(m, a, raw, want) : want \in {w \in Wanted(a) : AdmissionRecorded(TraceOf(a))}}
OutcomeRows(m, a, raw) ==
    UNION {{OutcomeRow(m, a, raw, want, o) : o \in TraceOf(a).outcome} : want \in a.labels.reply}

LEMMA RowsByTask ==
    ASSUME NEW m, NEW a, NEW raw
    PROVE  SamplesOf(m, a, raw) = RecipientRows(m, a, raw) \cup TopicRows(m, a, raw)
                                  \cup ReplyRows(m, a, raw) \cup OutcomeRows(m, a, raw)
<1> DEFINE t == TraceOf(a)
<1> DEFINE facts == Completed(Facts(a, t), When(raw, Contract(t)))
<1> DEFINE row(task, said, expected, error, extra) ==
            [msg |-> m, session |-> SessionOf[m], task |-> task, said |-> said,
             expected |-> expected, error |-> error, at |-> a.at, conf |-> t.conf,
             feats |-> Features(t), trace |-> Completed(extra, facts)]
<1> DEFINE predicted == TopicLabel(a.predicted, m)
<1> DEFINE recipients ==
         {row("recipient", Recipient(t.targeted), Recipient(want),
              Mistake(Recipient(t.targeted), Recipient(want), "missed_bot", "false_bot"),
              Empty) : want \in a.labels.bot}
<1> DEFINE topics ==
         {row("topic", predicted, TopicLabel(want, m), "unknown",
              [topic_candidates |-> t.cands, topic_candidates_recorded |-> t.cands # {},
               selected_topic |-> IF t.picked # "" THEN t.picked ELSE predicted]) :
            want \in {a.labels.topic} \ {""}}
<1> DEFINE replies ==
         {row("reply", Replied(a), Reply(want), ReplyError(a, want),
              [reply_supervision |-> Supervision(a, t)]) :
            want \in {w \in Wanted(a) : AdmissionRecorded(t)}}
<1> DEFINE outcomes ==
         {row("reply_outcome", Reply(Delivered({o})), Reply(want),
              OutcomeMistake(o, Reply(Delivered({o})), Reply(want)), Empty) :
            want \in a.labels.reply, o \in t.outcome}
<1>1. SamplesOf(m, a, raw) = recipients \cup topics \cup replies \cup outcomes
  BY DEF SamplesOf, Replied, ReplyError, Wanted
<1>2. recipients = RecipientRows(m, a, raw)
  BY DEF RecipientRows, RecipientRow, RowOf, TraceOfRow
<1>3. topics = TopicRows(m, a, raw)
  <2>1. \A want \in {a.labels.topic} \ {""} :
           TopicRow(m, a, raw) =
           row("topic", predicted, TopicLabel(want, m), "unknown",
              [topic_candidates |-> t.cands, topic_candidates_recorded |-> t.cands # {},
               selected_topic |-> IF t.picked # "" THEN t.picked ELSE predicted])
    BY DEF TopicRow, RowOf, TraceOfRow, TopicExtra
  <2> HIDE DEF row
  <2> QED
    BY <2>1 DEF TopicRows
<1>4. replies = ReplyRows(m, a, raw)
  BY DEF ReplyRows, ReplyRow, RowOf, TraceOfRow, ReplyExtra
<1>5. outcomes = OutcomeRows(m, a, raw)
  <2> DEFINE made(want, o) == row("reply_outcome", Reply(Delivered({o})), Reply(want),
                                 OutcomeMistake(o, Reply(Delivered({o})), Reply(want)), Empty)
  <2>1. \A want, o : OutcomeRow(m, a, raw, want, o) = made(want, o)
    BY DEF OutcomeRow, RowOf, TraceOfRow
  <2>2. outcomes = {made(want, o) : want \in a.labels.reply, o \in t.outcome}
    OBVIOUS
  <2> HIDE DEF made, outcomes
  <2>3. ASSUME NEW r PROVE r \in outcomes <=> r \in OutcomeRows(m, a, raw)
    <3>1. r \in outcomes <=> \E want \in a.labels.reply : \E o \in t.outcome : r = made(want, o)
      BY <2>2
    <3>2. r \in OutcomeRows(m, a, raw) <=>
             \E want \in a.labels.reply : \E o \in t.outcome : r = OutcomeRow(m, a, raw, want, o)
      BY DEF OutcomeRows
    <3> QED
      BY <2>1, <3>1, <3>2
  <2> QED
    BY <2>3
<1> HIDE DEF recipients, topics, replies, outcomes
<1> QED
  BY <1>1, <1>2, <1>3, <1>4, <1>5

\* What to_contract and the facts put under their keys.
LEMMA ContractFields ==
    ASSUME NEW t
    PROVE  LET c == Contract(t)
           IN  /\ ContractKeys \ {"routing"} \subseteq DOMAIN c /\ DOMAIN c \subseteq ContractKeys
               /\ c.mode = t.mode /\ c.recipient = t.targeted
               /\ c.learning_degraded = t.degraded /\ c.participation = Ledger(t)
<1> DEFINE f == [trace_schema_version |-> t.expressed, mode |-> t.mode, recipient |-> t.targeted,
                 learning_degraded |-> t.degraded, participation |-> Ledger(t)]
<1> DEFINE g == When(t.cands # {} \/ t.picked # "",
                     [routing |-> [picked |-> t.picked, cands |-> t.cands]])
<1>1. DOMAIN f = ContractKeys \ {"routing"} /\ f.mode = t.mode /\ f.recipient = t.targeted
      /\ f.learning_degraded = t.degraded /\ f.participation = Ledger(t)
  BY DEF ContractKeys
<1>2. DOMAIN g \subseteq {"routing"}
  BY DEF When, Empty
<1>3. Contract(t) = Completed(f, g)
  BY DEF Contract
<1> HIDE DEF f, g
<1>4. /\ DOMAIN Completed(f, g) = DOMAIN f \cup DOMAIN g
      /\ \A key \in DOMAIN f : Completed(f, g)[key] = f[key]
  BY CompletedFields
<1>5. {"mode", "recipient", "learning_degraded", "participation"} \subseteq DOMAIN f
  BY <1>1 DEF ContractKeys
<1>6. DOMAIN f \cup DOMAIN g \subseteq ContractKeys
  BY <1>1, <1>2 DEF ContractKeys
<1> QED
  BY <1>1, <1>3, <1>4, <1>5, <1>6

LEMMA FactFields ==
    ASSUME NEW a, NEW t
    PROVE  LET f == Facts(a, t)
           IN  /\ {"evidence_summary", "contribution_total_recorded", "candidate_evidence",
                   "source_schema"} \subseteq DOMAIN f
               /\ DOMAIN f \subseteq {"evidence_summary", "contribution_total_recorded",
                                      "candidate_evidence", "source_schema", "outcome", "shadow"}
               /\ f.evidence_summary = [degraded |-> t.degraded, ledger |-> Ledger(t)]
               /\ f.contribution_total_recorded = (a.hasTrace /\ a.total # {})
               /\ f.candidate_evidence = CandidateEvidence(t)
               /\ f.source_schema = t.source
               /\ ("outcome" \in DOMAIN f) = (t.outcome # {})
               /\ ("outcome" \in DOMAIN f => f.outcome = t.outcome)
               /\ ("shadow" \in DOMAIN f) = (t.shadow # {})
               /\ ("shadow" \in DOMAIN f => f.shadow = t.shadow)
<1> DEFINE f == [evidence_summary |-> [degraded |-> t.degraded, ledger |-> Ledger(t)],
                 contribution_total_recorded |-> a.hasTrace /\ a.total # {},
                 candidate_evidence |-> CandidateEvidence(t), source_schema |-> t.source]
<1> DEFINE o == When(t.outcome # {}, [outcome |-> t.outcome])
<1> DEFINE s == When(t.shadow # {}, [shadow |-> t.shadow])
<1>1. /\ DOMAIN f = {"evidence_summary", "contribution_total_recorded", "candidate_evidence",
                     "source_schema"}
      /\ f.evidence_summary = [degraded |-> t.degraded, ledger |-> Ledger(t)]
      /\ f.contribution_total_recorded = (a.hasTrace /\ a.total # {})
      /\ f.candidate_evidence = CandidateEvidence(t) /\ f.source_schema = t.source
  OBVIOUS
<1>2. /\ t.outcome # {} => DOMAIN o = {"outcome"} /\ o.outcome = t.outcome
      /\ t.outcome = {} => DOMAIN o = {}
  BY DEF When, Empty
<1>3. /\ t.shadow # {} => DOMAIN s = {"shadow"} /\ s.shadow = t.shadow
      /\ t.shadow = {} => DOMAIN s = {}
  BY DEF When, Empty
<1>4. Facts(a, t) = Completed(f, Completed(o, s))
  BY DEF Facts
<1> HIDE DEF f, o, s
<1>5. /\ DOMAIN Completed(f, Completed(o, s)) = DOMAIN f \cup DOMAIN o \cup DOMAIN s
      /\ \A key \in DOMAIN f : Completed(f, Completed(o, s))[key] = f[key]
      /\ \A key \in DOMAIN o \ DOMAIN f : Completed(f, Completed(o, s))[key] = o[key]
      /\ \A key \in DOMAIN s \ (DOMAIN f \cup DOMAIN o) : Completed(f, Completed(o, s))[key] = s[key]
  BY DEF Completed
<1>6. CASE t.outcome # {} /\ t.shadow # {}
  BY <1>1, <1>2, <1>3, <1>4, <1>5, <1>6
<1>7. CASE t.outcome # {} /\ t.shadow = {}
  BY <1>1, <1>2, <1>3, <1>4, <1>5, <1>7
<1>8. CASE t.outcome = {} /\ t.shadow # {}
  BY <1>1, <1>2, <1>3, <1>4, <1>5, <1>8
<1>9. CASE t.outcome = {} /\ t.shadow = {}
  BY <1>1, <1>2, <1>3, <1>4, <1>5, <1>9
<1> QED
  BY <1>6, <1>7, <1>8, <1>9

\* The keys of a stored trace and what stands under them.
LEMMA TraceKeys ==
    ASSUME NEW a \in Annotation, NEW raw \in BOOLEAN, NEW extra, DOMAIN extra \subseteq ExtraKeys
    PROVE  LET t == TraceOf(a)
               kept == TraceOfRow(a, raw, extra)
           IN  /\ \A key \in DOMAIN extra : key \in DOMAIN kept /\ kept[key] = extra[key]
               /\ {"evidence_summary", "contribution_total_recorded", "candidate_evidence",
                   "source_schema"} \subseteq DOMAIN kept
               /\ kept.evidence_summary = [degraded |-> t.degraded, ledger |-> Ledger(t)]
               /\ kept.contribution_total_recorded = (a.hasTrace /\ a.total # {})
               /\ kept.candidate_evidence = CandidateEvidence(t)
               /\ kept.source_schema = t.source
               /\ ("outcome" \in DOMAIN kept) = (t.outcome # {})
               /\ ("outcome" \in DOMAIN kept => kept.outcome = t.outcome)
               /\ ("shadow" \in DOMAIN kept) = (t.shadow # {})
               /\ ("shadow" \in DOMAIN kept => kept.shadow = t.shadow)
               /\ \A key \in ContractKeys \ {"routing"} : (key \in DOMAIN kept) = raw
               /\ raw => /\ kept.mode = t.mode /\ kept.recipient = t.targeted
                         /\ kept.learning_degraded = t.degraded
                         /\ kept.participation = Ledger(t)
<1> DEFINE t == TraceOf(a)
<1> DEFINE f == Facts(a, t)
<1> DEFINE c == When(raw, Contract(t))
<1> DEFINE kept == Completed(extra, Completed(f, c))
<1>1. TraceOfRow(a, raw, extra) = kept
  BY DEF TraceOfRow
<1>2. /\ DOMAIN kept = DOMAIN extra \cup DOMAIN f \cup DOMAIN c
      /\ \A key \in DOMAIN extra : kept[key] = extra[key]
      /\ \A key \in DOMAIN f \ DOMAIN extra : kept[key] = f[key]
      /\ \A key \in DOMAIN c \ (DOMAIN extra \cup DOMAIN f) : kept[key] = c[key]
  BY DEF Completed
<1>3. /\ {"evidence_summary", "contribution_total_recorded", "candidate_evidence",
           "source_schema"} \subseteq DOMAIN f
      /\ DOMAIN f \subseteq {"evidence_summary", "contribution_total_recorded",
                              "candidate_evidence", "source_schema", "outcome", "shadow"}
      /\ f.evidence_summary = [degraded |-> t.degraded, ledger |-> Ledger(t)]
      /\ f.contribution_total_recorded = (a.hasTrace /\ a.total # {})
      /\ f.candidate_evidence = CandidateEvidence(t)
      /\ f.source_schema = t.source
      /\ ("outcome" \in DOMAIN f) = (t.outcome # {})
      /\ ("outcome" \in DOMAIN f => f.outcome = t.outcome)
      /\ ("shadow" \in DOMAIN f) = (t.shadow # {})
      /\ ("shadow" \in DOMAIN f => f.shadow = t.shadow)
  BY FactFields
<1>4. /\ raw => /\ ContractKeys \ {"routing"} \subseteq DOMAIN c /\ DOMAIN c \subseteq ContractKeys
                /\ c.mode = t.mode /\ c.recipient = t.targeted
                /\ c.learning_degraded = t.degraded /\ c.participation = Ledger(t)
      /\ ~raw => DOMAIN c = {}
  BY ContractFields, WhenFields
<1> HIDE DEF f, c, kept, t
<1>5. /\ \A key \in DOMAIN extra : key \in DOMAIN kept /\ kept[key] = extra[key]
      /\ {"evidence_summary", "contribution_total_recorded", "candidate_evidence",
          "source_schema"} \subseteq DOMAIN kept
      /\ \A key \in DOMAIN f : kept[key] = f[key]
      /\ ("outcome" \in DOMAIN kept) = ("outcome" \in DOMAIN f)
      /\ ("shadow" \in DOMAIN kept) = ("shadow" \in DOMAIN f)
  <2>1. DOMAIN f \cap DOMAIN extra = {} /\ "outcome" \notin DOMAIN extra /\ "shadow" \notin DOMAIN extra
    BY <1>3 DEF ExtraKeys
  <2>2. "outcome" \notin DOMAIN c /\ "shadow" \notin DOMAIN c
    BY <1>4 DEF ContractKeys
  <2> QED
    BY <1>2, <1>3, <2>1, <2>2
<1>6. \A key \in ContractKeys \ {"routing"} : (key \in DOMAIN kept) = raw
  <2>1. \A key \in ContractKeys : key \notin DOMAIN f /\ key \notin DOMAIN extra
    BY <1>3 DEF ContractKeys, ExtraKeys
  <2> QED
    BY <1>2, <1>4, <2>1
<1>7. raw => /\ kept.mode = t.mode /\ kept.recipient = t.targeted
             /\ kept.learning_degraded = t.degraded /\ kept.participation = Ledger(t)
  <2>1. \A key \in ContractKeys : key \notin DOMAIN f /\ key \notin DOMAIN extra
    BY <1>3 DEF ContractKeys, ExtraKeys
  <2>2. {"mode", "recipient", "learning_degraded", "participation"} \subseteq ContractKeys \ {"routing"}
    BY DEF ContractKeys
  <2> QED
    BY <1>2, <1>4, <2>1, <2>2
<1>8. /\ kept.evidence_summary = f.evidence_summary
      /\ kept.contribution_total_recorded = f.contribution_total_recorded
      /\ kept.candidate_evidence = f.candidate_evidence /\ kept.source_schema = f.source_schema
      /\ "outcome" \in DOMAIN f => kept.outcome = f.outcome
      /\ "shadow" \in DOMAIN f => kept.shadow = f.shadow
  BY <1>3, <1>5
<1> QED
  BY <1>1, <1>3, <1>5, <1>6, <1>7, <1>8 DEF t

FactsKept(trace) == [key \in DOMAIN trace \cap FactKeys |-> trace[key]]

\* Stored without the raw trace, a trace is what it would have been without.
LEMMA KeptTrace ==
    ASSUME NEW a, NEW raw \in BOOLEAN, NEW extra, DOMAIN extra \subseteq ExtraKeys
    PROVE  FactsKept(TraceOfRow(a, raw, extra)) = TraceOfRow(a, FALSE, extra)
<1> DEFINE t == TraceOf(a)
<1> DEFINE f == Facts(a, t)
<1> DEFINE c == When(raw, Contract(t))
<1> DEFINE d == When(FALSE, Contract(t))
<1>1. DOMAIN extra \subseteq FactKeys
  BY DEF ExtraKeys, FactKeys
<1>2. DOMAIN f \subseteq FactKeys
  <2>1. DOMAIN f \subseteq {"evidence_summary", "contribution_total_recorded",
                            "candidate_evidence", "source_schema", "outcome", "shadow"}
    BY FactFields
  <2> HIDE DEF f
  <2> QED
    BY <2>1 DEF FactKeys
<1>3. DOMAIN c \cap FactKeys = {}
  <2>1. DOMAIN c \subseteq ContractKeys
    BY ContractFields, WhenFields
  <2> HIDE DEF c
  <2> QED
    BY <2>1 DEF ContractKeys, FactKeys
<1>4. DOMAIN d = {}
  BY WhenFields
<1> HIDE DEF f, c, d
<1>5. LET all == Completed(extra, Completed(f, c))
      IN  [key \in DOMAIN all \cap FactKeys |-> all[key]] = Completed(extra, Completed(f, d))
  BY <1>1, <1>2, <1>3, <1>4 DEF Completed
<1>6. TraceOfRow(a, raw, extra) = Completed(extra, Completed(f, c))
  BY DEF TraceOfRow, f, c
<1>7. TraceOfRow(a, FALSE, extra) = Completed(extra, Completed(f, d))
  BY DEF TraceOfRow, f, d
<1> QED
  BY <1>5, <1>6, <1>7 DEF FactsKept

LEMMA TraceExtras ==
    ASSUME NEW a, NEW raw, NEW extra
    PROVE  \A key \in DOMAIN extra : /\ key \in DOMAIN TraceOfRow(a, raw, extra)
                                     /\ TraceOfRow(a, raw, extra)[key] = extra[key]
BY CompletedFields DEF TraceOfRow

ReadsAs(r, m, a) ==
    LET t == TraceOf(a)
    IN  /\ r.msg = m /\ r.session = SessionOf[m] /\ r.at = a.at /\ r.conf = t.conf
        /\ r.feats = Features(t) /\ Has(r, "source_schema") /\ r.trace.source_schema = t.source
        /\ OutcomeOf(r) = t.outcome /\ ShadowOf(r) = t.shadow
        /\ Scored(r) = (a.hasTrace /\ a.total # {})
        /\ EvidenceOf(r) = CandidateEvidence(t) /\ DegradedRow(r) = t.degraded

\* What every reader makes of a row, whichever its task and storage mode.
LEMMA RowReads ==
    ASSUME NEW m, NEW a \in Annotation, NEW raw \in BOOLEAN, NEW task, NEW said, NEW expected,
           NEW error, NEW extra, DOMAIN extra \subseteq ExtraKeys
    PROVE  ReadsAs(RowOf(m, a, raw, task, said, expected, error, extra), m, a)
<1> DEFINE t == TraceOf(a)
<1> DEFINE r == RowOf(m, a, raw, task, said, expected, error, extra)
<1> DEFINE kept == TraceOfRow(a, raw, extra)
<1>1. /\ r.msg = m /\ r.session = SessionOf[m] /\ r.task = task /\ r.said = said
      /\ r.expected = expected /\ r.error = error /\ r.at = a.at /\ r.conf = t.conf
      /\ r.feats = Features(t) /\ r.trace = kept
  BY DEF RowOf
<1>2. /\ {"evidence_summary", "contribution_total_recorded", "candidate_evidence",
          "source_schema"} \subseteq DOMAIN kept
      /\ kept.evidence_summary = [degraded |-> t.degraded, ledger |-> Ledger(t)]
      /\ kept.contribution_total_recorded = (a.hasTrace /\ a.total # {})
      /\ kept.candidate_evidence = CandidateEvidence(t)
      /\ kept.source_schema = t.source
      /\ ("outcome" \in DOMAIN kept) = (t.outcome # {})
      /\ ("outcome" \in DOMAIN kept => kept.outcome = t.outcome)
      /\ ("shadow" \in DOMAIN kept) = (t.shadow # {})
      /\ ("shadow" \in DOMAIN kept => kept.shadow = t.shadow)
      /\ ("learning_degraded" \in DOMAIN kept) = raw
      /\ raw => kept.learning_degraded = t.degraded
  BY TraceKeys DEF ContractKeys
<1>3. UNION {Told(o) : o \in t.outcome} = t.outcome
  BY OutcomeOnce
<1>4. t.degraded \in BOOLEAN
  BY DEF TraceOf
<1> HIDE DEF r, kept, t
<1>5. OutcomeOf(r) = t.outcome
  <2>1. CASE t.outcome = {}
    BY <1>1, <1>2, <2>1 DEF OutcomeOf, Has
  <2>2. CASE t.outcome # {}
    <3>1. r.trace.outcome = t.outcome /\ "outcome" \in DOMAIN r.trace
      BY <1>1, <1>2, <2>2
    <3> QED
      BY <1>3, <3>1 DEF OutcomeOf, Has
  <2> QED
    BY <2>1, <2>2
<1>6. ShadowOf(r) = t.shadow
  BY <1>1, <1>2 DEF ShadowOf, Has
<1>7. Scored(r) = (a.hasTrace /\ a.total # {}) /\ EvidenceOf(r) = CandidateEvidence(t)
  BY <1>1, <1>2 DEF Scored, EvidenceOf, Has
<1>8. DegradedRow(r) = t.degraded
  <2>1. /\ "evidence_summary" \in DOMAIN r.trace /\ r.trace.evidence_summary.degraded = t.degraded
        /\ "learning_degraded" \in DOMAIN r.trace => r.trace.learning_degraded = t.degraded
    BY <1>1, <1>2
  <2> QED
    BY <1>4, <2>1 DEF DegradedRow, Has
<1> QED
  BY <1>1, <1>2, <1>5, <1>6, <1>7, <1>8 DEF r, t, Has, ReadsAs

LEMMA ExtraFields ==
    /\ \A m, a : DOMAIN TopicExtra(m, a) \subseteq ExtraKeys
    /\ \A a : DOMAIN ReplyExtra(a) \subseteq ExtraKeys
    /\ DOMAIN Empty \subseteq ExtraKeys
BY DEF TopicExtra, ReplyExtra, Empty, ExtraKeys

LEMMA TopicReads ==
    ASSUME NEW m, NEW a \in Annotation, NEW raw \in BOOLEAN
    PROVE  LET r == TopicRow(m, a, raw)
               t == TraceOf(a)
           IN  /\ CandidatesOf(r) = t.cands
               /\ SelectedOf(r) = IF t.picked # "" THEN t.picked ELSE TopicLabel(a.predicted, m)
<1> DEFINE extra == TopicExtra(m, a)
<1> DEFINE kept == TraceOfRow(a, raw, extra)
<1>1. TopicRow(m, a, raw).trace = kept
  BY DEF TopicRow, RowOf
<1>2. {"topic_candidates", "topic_candidates_recorded", "selected_topic"} \subseteq DOMAIN extra
  BY DEF TopicExtra
<1>3. \A key \in DOMAIN extra : key \in DOMAIN kept /\ kept[key] = extra[key]
  BY TraceExtras
<1>4. /\ extra.topic_candidates = TraceOf(a).cands
      /\ extra.topic_candidates_recorded = (TraceOf(a).cands # {})
      /\ extra.selected_topic = IF TraceOf(a).picked # "" THEN TraceOf(a).picked
                                ELSE TopicLabel(a.predicted, m)
  BY DEF TopicExtra
<1> HIDE DEF extra, kept
<1> QED
  BY <1>1, <1>2, <1>3, <1>4 DEF CandidatesOf, SelectedOf, Has

LEMMA ReplyReads ==
    ASSUME NEW m, NEW a \in Annotation, NEW raw \in BOOLEAN, NEW want
    PROVE  Supervised(ReplyRow(m, a, raw, want)) = Supervision(a, TraceOf(a))
<1> DEFINE extra == ReplyExtra(a)
<1> DEFINE kept == TraceOfRow(a, raw, extra)
<1>1. ReplyRow(m, a, raw, want).trace = kept
  BY DEF ReplyRow, RowOf
<1>2. "reply_supervision" \in DOMAIN extra /\ extra.reply_supervision = Supervision(a, TraceOf(a))
  BY DEF ReplyExtra
<1>3. \A key \in DOMAIN extra : key \in DOMAIN kept /\ kept[key] = extra[key]
  BY TraceExtras
<1> HIDE DEF extra, kept
<1> QED
  BY <1>1, <1>2, <1>3 DEF Supervised, Has

IsRecipient(m, a, raw, r) == \E want \in a.labels.bot : r = RecipientRow(m, a, raw, want)
IsTopic(m, a, raw, r) == a.labels.topic # "" /\ r = TopicRow(m, a, raw)
IsReply(m, a, raw, r) ==
    AdmissionRecorded(TraceOf(a)) /\ \E want \in Wanted(a) : r = ReplyRow(m, a, raw, want)
IsOutcome(m, a, raw, r) ==
    \E want \in a.labels.reply : \E o \in TraceOf(a).outcome : r = OutcomeRow(m, a, raw, want, o)

LEMMA Kinds ==
    ASSUME NEW m, NEW a, NEW raw, NEW r
    PROVE  r \in SamplesOf(m, a, raw) <=>
              \/ IsRecipient(m, a, raw, r) \/ IsTopic(m, a, raw, r)
              \/ IsReply(m, a, raw, r) \/ IsOutcome(m, a, raw, r)
<1>1. r \in RecipientRows(m, a, raw) <=> IsRecipient(m, a, raw, r)
  BY DEF RecipientRows, IsRecipient
<1>2. r \in TopicRows(m, a, raw) <=> IsTopic(m, a, raw, r)
  BY DEF TopicRows, IsTopic
<1>3. r \in ReplyRows(m, a, raw) <=> IsReply(m, a, raw, r)
  BY DEF ReplyRows, IsReply
<1>4. r \in OutcomeRows(m, a, raw) <=> IsOutcome(m, a, raw, r)
  BY DEF OutcomeRows, IsOutcome
<1> QED
  BY <1>1, <1>2, <1>3, <1>4, RowsByTask

\* The task tells the kind.
LEMMA KindOfTask ==
    ASSUME NEW m, NEW a, NEW raw, NEW r \in SamplesOf(m, a, raw)
    PROVE  /\ r.task \in {"recipient", "topic", "reply", "reply_outcome"}
           /\ r.task = "recipient" <=> IsRecipient(m, a, raw, r)
           /\ r.task = "topic" <=> IsTopic(m, a, raw, r)
           /\ r.task = "reply" <=> IsReply(m, a, raw, r)
           /\ r.task = "reply_outcome" <=> IsOutcome(m, a, raw, r)
<1>1. IsRecipient(m, a, raw, r) => r.task = "recipient"
  BY DEF IsRecipient, RecipientRow, RowOf
<1>2. IsTopic(m, a, raw, r) => r.task = "topic"
  <2>1. TopicRow(m, a, raw).task = "topic"
    BY DEF TopicRow, RowOf
  <2> QED
    BY <2>1 DEF IsTopic
<1>3. IsReply(m, a, raw, r) => r.task = "reply"
  BY DEF IsReply, ReplyRow, RowOf
<1>4. IsOutcome(m, a, raw, r) => r.task = "reply_outcome"
  BY DEF IsOutcome, OutcomeRow, RowOf
<1> QED
  BY <1>1, <1>2, <1>3, <1>4, Kinds

LEMMA SampleReads ==
    ASSUME NEW m, NEW a \in Annotation, NEW raw \in BOOLEAN, NEW r \in SamplesOf(m, a, raw)
    PROVE  ReadsAs(r, m, a)
<1>1. CASE IsRecipient(m, a, raw, r)
  BY <1>1, RowReads, ExtraFields DEF IsRecipient, RecipientRow
<1>2. CASE IsTopic(m, a, raw, r)
  BY <1>2, RowReads, ExtraFields DEF IsTopic, TopicRow
<1>3. CASE IsReply(m, a, raw, r)
  BY <1>3, RowReads, ExtraFields DEF IsReply, ReplyRow
<1>4. CASE IsOutcome(m, a, raw, r)
  BY <1>4, RowReads, ExtraFields DEF IsOutcome, OutcomeRow
<1> QED
  BY <1>1, <1>2, <1>3, <1>4, Kinds

\* A message has at most one row of a task.
LEMMA OneRowPerTask ==
    ASSUME NEW m, NEW a \in Annotation, NEW raw, NEW r \in SamplesOf(m, a, raw),
           NEW q \in SamplesOf(m, a, raw), r.task = q.task
    PROVE  r = q
<1>1. AtMostOne(a.labels.bot) /\ AtMostOne(a.labels.reply) /\ AtMostOne(Wanted(a))
  BY AnnotationFields DEF Option, Wanted
<1>2. AtMostOne(TraceOf(a).outcome)
  BY OutcomeOnce
<1>3. \/ IsRecipient(m, a, raw, r) /\ IsRecipient(m, a, raw, q)
      \/ IsTopic(m, a, raw, r) /\ IsTopic(m, a, raw, q)
      \/ IsReply(m, a, raw, r) /\ IsReply(m, a, raw, q)
      \/ IsOutcome(m, a, raw, r) /\ IsOutcome(m, a, raw, q)
  BY KindOfTask
<1>4. CASE IsRecipient(m, a, raw, r) /\ IsRecipient(m, a, raw, q)
  BY <1>1, <1>4 DEF AtMostOne, IsRecipient
<1>5. CASE IsTopic(m, a, raw, r) /\ IsTopic(m, a, raw, q)
  BY <1>5 DEF IsTopic
<1>6. CASE IsReply(m, a, raw, r) /\ IsReply(m, a, raw, q)
  BY <1>1, <1>6 DEF AtMostOne, IsReply
<1>7. CASE IsOutcome(m, a, raw, r) /\ IsOutcome(m, a, raw, q)
  BY <1>1, <1>2, <1>7 DEF AtMostOne, IsOutcome
<1> QED
  BY <1>3, <1>4, <1>5, <1>6, <1>7

\* Saving without the raw trace leaves the rows that would have been made
\* without it.
LEMMA SavedKinds ==
    ASSUME NEW m, NEW a \in Annotation, NEW raw \in BOOLEAN, NEW r
    PROVE  /\ IsRecipient(m, a, raw, r) => IsRecipient(m, a, FALSE, Saved(r, FALSE))
           /\ IsTopic(m, a, raw, r) => IsTopic(m, a, FALSE, Saved(r, FALSE))
           /\ IsReply(m, a, raw, r) => IsReply(m, a, FALSE, Saved(r, FALSE))
           /\ IsOutcome(m, a, raw, r) => IsOutcome(m, a, FALSE, Saved(r, FALSE))
<1>1. ASSUME NEW want PROVE  Saved(RecipientRow(m, a, raw, want), FALSE) = RecipientRow(m, a, FALSE, want)
  <2> DEFINE kept == TraceOfRow(a, FALSE, Empty)
  <2>1. FactsKept(TraceOfRow(a, raw, Empty)) = kept
    BY KeptTrace, ExtraFields
  <2>2. RecipientRow(m, a, raw, want).trace = TraceOfRow(a, raw, Empty)
    BY DEF RecipientRow, RowOf
  <2>3. Saved(RecipientRow(m, a, raw, want), FALSE) = [RecipientRow(m, a, raw, want) EXCEPT !.trace = kept]
    BY <2>1, <2>2 DEF Saved, FactsKept
  <2> QED
    BY <2>3 DEF RecipientRow, RowOf
<1>2. Saved(TopicRow(m, a, raw), FALSE) = TopicRow(m, a, FALSE)
  <2> DEFINE kept == TraceOfRow(a, FALSE, TopicExtra(m, a))
  <2>1. FactsKept(TraceOfRow(a, raw, TopicExtra(m, a))) = kept
    BY KeptTrace, ExtraFields
  <2>2. TopicRow(m, a, raw).trace = TraceOfRow(a, raw, TopicExtra(m, a))
    BY DEF TopicRow, RowOf
  <2>3. Saved(TopicRow(m, a, raw), FALSE) = [TopicRow(m, a, raw) EXCEPT !.trace = kept]
    BY <2>1, <2>2 DEF Saved, FactsKept
  <2> QED
    BY <2>3 DEF TopicRow, RowOf
<1>3. ASSUME NEW want PROVE  Saved(ReplyRow(m, a, raw, want), FALSE) = ReplyRow(m, a, FALSE, want)
  <2> DEFINE kept == TraceOfRow(a, FALSE, ReplyExtra(a))
  <2>1. FactsKept(TraceOfRow(a, raw, ReplyExtra(a))) = kept
    BY KeptTrace, ExtraFields
  <2>2. ReplyRow(m, a, raw, want).trace = TraceOfRow(a, raw, ReplyExtra(a))
    BY DEF ReplyRow, RowOf
  <2>3. Saved(ReplyRow(m, a, raw, want), FALSE) = [ReplyRow(m, a, raw, want) EXCEPT !.trace = kept]
    BY <2>1, <2>2 DEF Saved, FactsKept
  <2> QED
    BY <2>3 DEF ReplyRow, RowOf
<1>4. ASSUME NEW want, NEW o PROVE  Saved(OutcomeRow(m, a, raw, want, o), FALSE) = OutcomeRow(m, a, FALSE, want, o)
  <2> DEFINE kept == TraceOfRow(a, FALSE, Empty)
  <2>1. FactsKept(TraceOfRow(a, raw, Empty)) = kept
    BY KeptTrace, ExtraFields
  <2>2. OutcomeRow(m, a, raw, want, o).trace = TraceOfRow(a, raw, Empty)
    BY DEF OutcomeRow, RowOf
  <2>3. Saved(OutcomeRow(m, a, raw, want, o), FALSE) = [OutcomeRow(m, a, raw, want, o) EXCEPT !.trace = kept]
    BY <2>1, <2>2 DEF Saved, FactsKept
  <2> QED
    BY <2>3 DEF OutcomeRow, RowOf
<1> QED
  BY <1>1, <1>2, <1>3, <1>4 DEF IsRecipient, IsTopic, IsReply, IsOutcome

LEMMA SavedIsSample ==
    ASSUME NEW m, NEW a \in Annotation, NEW raw \in BOOLEAN, NEW r \in SamplesOf(m, a, raw)
    PROVE  Saved(r, FALSE) \in SamplesOf(m, a, FALSE) /\ Saved(r, FALSE).task = r.task
<1> DEFINE q == Saved(r, FALSE)
<1>1. /\ IsRecipient(m, a, raw, r) => IsRecipient(m, a, FALSE, q)
      /\ IsTopic(m, a, raw, r) => IsTopic(m, a, FALSE, q)
      /\ IsReply(m, a, raw, r) => IsReply(m, a, FALSE, q)
      /\ IsOutcome(m, a, raw, r) => IsOutcome(m, a, FALSE, q)
  BY SavedKinds
<1> HIDE DEF q
<1>2. q \in SamplesOf(m, a, FALSE)
  BY <1>1, Kinds
<1>3. /\ r.task \in {"recipient", "topic", "reply", "reply_outcome"}
      /\ r.task = "recipient" <=> IsRecipient(m, a, raw, r)
      /\ r.task = "topic" <=> IsTopic(m, a, raw, r)
      /\ r.task = "reply" <=> IsReply(m, a, raw, r)
      /\ r.task = "reply_outcome" <=> IsOutcome(m, a, raw, r)
  BY KindOfTask
<1>4. /\ q.task = "recipient" <=> IsRecipient(m, a, FALSE, q)
      /\ q.task = "topic" <=> IsTopic(m, a, FALSE, q)
      /\ q.task = "reply" <=> IsReply(m, a, FALSE, q)
      /\ q.task = "reply_outcome" <=> IsOutcome(m, a, FALSE, q)
  BY <1>2, KindOfTask
<1>5. q.task = r.task
  <2>1. CASE r.task = "recipient"
    BY <2>1, <1>1, <1>3, <1>4
  <2>2. CASE r.task = "topic"
    BY <2>2, <1>1, <1>3, <1>4
  <2>3. CASE r.task = "reply"
    BY <2>3, <1>1, <1>3, <1>4
  <2>4. CASE r.task = "reply_outcome"
    BY <2>4, <1>1, <1>3, <1>4
  <2> QED
    BY <1>3, <2>1, <2>2, <2>3, <2>4
<1> QED
  BY <1>2, <1>5 DEF q

LEMMA EverySaved ==
    ASSUME NEW m, NEW a \in Annotation, NEW raw \in BOOLEAN, NEW q \in SamplesOf(m, a, FALSE)
    PROVE  \E r \in SamplesOf(m, a, raw) : q = Saved(r, FALSE)
<1>1. \E r \in SamplesOf(m, a, raw) : r.task = q.task
  <2>1. CASE IsRecipient(m, a, FALSE, q)
    <3>1. PICK want \in a.labels.bot : q = RecipientRow(m, a, FALSE, want)
      BY <2>1 DEF IsRecipient
    <3>2. IsRecipient(m, a, raw, RecipientRow(m, a, raw, want))
      BY DEF IsRecipient
    <3> QED
      BY <2>1, <3>2, Kinds, KindOfTask
  <2>2. CASE IsTopic(m, a, FALSE, q)
    <3>1. IsTopic(m, a, raw, TopicRow(m, a, raw))
      BY <2>2 DEF IsTopic
    <3> QED
      BY <2>2, <3>1, Kinds, KindOfTask
  <2>3. CASE IsReply(m, a, FALSE, q)
    <3>1. PICK want \in Wanted(a) : AdmissionRecorded(TraceOf(a)) /\ q = ReplyRow(m, a, FALSE, want)
      BY <2>3 DEF IsReply
    <3>2. IsReply(m, a, raw, ReplyRow(m, a, raw, want))
      BY <3>1 DEF IsReply
    <3> QED
      BY <2>3, <3>2, Kinds, KindOfTask
  <2>4. CASE IsOutcome(m, a, FALSE, q)
    <3>1. PICK want \in a.labels.reply : \E o \in TraceOf(a).outcome :
             q = OutcomeRow(m, a, FALSE, want, o)
      BY <2>4 DEF IsOutcome
    <3>2. PICK o \in TraceOf(a).outcome : q = OutcomeRow(m, a, FALSE, want, o)
      BY <3>1
    <3>3. IsOutcome(m, a, raw, OutcomeRow(m, a, raw, want, o))
      BY DEF IsOutcome
    <3> QED
      BY <2>4, <3>3, Kinds, KindOfTask
  <2> QED
    BY <2>1, <2>2, <2>3, <2>4, Kinds
<1>2. PICK r \in SamplesOf(m, a, raw) : r.task = q.task
  BY <1>1
<1>3. Saved(r, FALSE) \in SamplesOf(m, a, FALSE) /\ Saved(r, FALSE).task = q.task
  BY <1>2, SavedIsSample
<1> QED
  BY <1>2, <1>3, OneRowPerTask

LEMMA SavedSamples ==
    ASSUME NEW m, NEW a \in Annotation, NEW raw \in BOOLEAN
    PROVE  {Saved(r, FALSE) : r \in SamplesOf(m, a, raw)} = SamplesOf(m, a, FALSE)
<1>1. \A r \in SamplesOf(m, a, raw) : Saved(r, FALSE) \in SamplesOf(m, a, FALSE)
  BY SavedIsSample
<1>2. \A q \in SamplesOf(m, a, FALSE) : \E r \in SamplesOf(m, a, raw) : q = Saved(r, FALSE)
  BY EverySaved
<1> QED
  BY <1>1, <1>2

(***************************************************************************)
(* What the store holds                                                    *)
(***************************************************************************)

\* A host that writes no evidence code the plugin has no name for.
CodesKnown(a) == a.codes \subseteq AmbientCodes \cup {"mention"}
KnownTurns == \A m \in Messages : \A a \in Turns[m] : CodesKnown(a)

Typed ==
    /\ host \in [DOMAIN host -> Annotation] /\ DOMAIN host \subseteq Messages
    /\ seen \in [DOMAIN seen -> Annotation] /\ DOMAIN seen \subseteq Messages
    /\ latest \subseteq DOMAIN seen
    /\ now \in 1..MaxNow /\ edits \in 0..MaxEdits

\* The rows of a message are those of the annotation its last import read, in
\* one storage mode; there are no others.
Stored ==
    /\ \A r \in disk : r.msg \in DOMAIN seen
    /\ \A m \in DOMAIN seen : \E raw \in BOOLEAN : RowsFor(m) = SamplesOf(m, seen[m], raw)

\* Neither the human's labels nor a late outcome touch the evidence.
Codes ==
    KnownTurns => /\ \A m \in DOMAIN host : CodesKnown(host[m])
                  /\ \A m \in DOMAIN seen : CodesKnown(seen[m])

Inv == Typed /\ Stored /\ Codes

LEMMA RowsOfRecords ==
    ASSUME NEW records, \A m \in DOMAIN records : records[m] \in Annotation,
           NEW raw \in BOOLEAN, NEW r
    PROVE  /\ r \in RowsOf(records, raw) <=>
                 \E m \in DOMAIN records : r \in SamplesOf(m, records[m], raw)
           /\ r \in RowsOf(records, raw) =>
                 /\ r.msg \in DOMAIN records /\ r.session = SessionOf[r.msg]
                 /\ r \in SamplesOf(r.msg, records[r.msg], raw)
<1>1. r \in RowsOf(records, raw) <=> \E m \in DOMAIN records : r \in SamplesOf(m, records[m], raw)
  BY DEF RowsOf
<1>2. ASSUME NEW m \in DOMAIN records, r \in SamplesOf(m, records[m], raw)
      PROVE  r.msg = m /\ r.session = SessionOf[m]
  <2>1. records[m] \in Annotation
    OBVIOUS
  <2>2. ReadsAs(r, m, records[m])
    BY <1>2, <2>1, SampleReads
  <2> QED
    BY <2>2 DEF ReadsAs
<1> QED
  BY <1>1, <1>2

\* The rows an import writes are those it made, and each message's are its own.
LEMMA ImportedRows ==
    ASSUME NEW records, \A m \in DOMAIN records : records[m] \in Annotation, NEW raw \in BOOLEAN
    PROVE  /\ {Saved(r, raw) : r \in RowsOf(records, raw)} = RowsOf(records, raw)
           /\ \A m \in DOMAIN records :
                 {r \in RowsOf(records, raw) : r.msg = m} = SamplesOf(m, records[m], raw)
           /\ \A m : m \notin DOMAIN records => {r \in RowsOf(records, raw) : r.msg = m} = {}
<1> DEFINE rows == RowsOf(records, raw)
<1>1. ASSUME raw = TRUE PROVE {Saved(r, raw) : r \in RowsOf(records, raw)} = RowsOf(records, raw)
  <2>1. \A r \in rows : Saved(r, raw) = r
    BY <1>1 DEF Saved
  <2> HIDE DEF rows
  <2>2. {Saved(r, raw) : r \in rows} = rows
    BY <2>1
  <2> QED
    BY <2>2 DEF rows
<1>2. ASSUME raw = FALSE PROVE {Saved(r, raw) : r \in RowsOf(records, raw)} = RowsOf(records, raw)
  <2>1. \A m \in DOMAIN records : \A r \in SamplesOf(m, records[m], raw) :
           Saved(r, raw) \in SamplesOf(m, records[m], raw)
    BY <1>2, SavedIsSample
  <2>2. \A m \in DOMAIN records : \A q \in SamplesOf(m, records[m], raw) :
           \E r \in SamplesOf(m, records[m], raw) : q = Saved(r, raw)
    BY <1>2, EverySaved
  <2>3. \A r : r \in rows <=> \E m \in DOMAIN records : r \in SamplesOf(m, records[m], raw)
    BY RowsOfRecords
  <2> HIDE DEF rows
  <2>4. \A r \in rows : Saved(r, raw) \in rows
    BY <2>1, <2>3
  <2>5. \A q \in rows : \E r \in rows : q = Saved(r, raw)
    BY <2>2, <2>3
  <2>6. {Saved(r, raw) : r \in rows} = rows
    BY <2>4, <2>5
  <2> QED
    BY <2>6 DEF rows
<1>3. {Saved(r, raw) : r \in RowsOf(records, raw)} = RowsOf(records, raw)
  BY <1>1, <1>2
<1>4. ASSUME NEW m \in DOMAIN records
      PROVE  {r \in RowsOf(records, raw) : r.msg = m} = SamplesOf(m, records[m], raw)
  <2>1. \A r \in SamplesOf(m, records[m], raw) : r.msg = m
    BY SampleReads DEF ReadsAs
  <2> QED
    BY <2>1, RowsOfRecords
<1>5. \A m : m \notin DOMAIN records => {r \in RowsOf(records, raw) : r.msg = m} = {}
  BY RowsOfRecords
<1> QED
  BY <1>3, <1>4, <1>5

\* Stored rows of one message, saved again.
LEMMA SavedAgain ==
    ASSUME NEW m, NEW a \in Annotation, NEW raw \in BOOLEAN, NEW rows,
           \E was \in BOOLEAN : rows = SamplesOf(m, a, was)
    PROVE  \E is \in BOOLEAN : {Saved(r, raw) : r \in rows} = SamplesOf(m, a, is)
<1>1. PICK was \in BOOLEAN : rows = SamplesOf(m, a, was)
  OBVIOUS
<1>2. CASE raw = TRUE
  <2>1. {Saved(r, raw) : r \in rows} = rows
    BY <1>2 DEF Saved
  <2> QED
    BY <1>1, <2>1
<1>3. CASE raw = FALSE
  <2>1. {Saved(r, raw) : r \in rows} = {Saved(r, FALSE) : r \in SamplesOf(m, a, was)}
    BY <1>1, <1>3
  <2>2. {Saved(r, FALSE) : r \in SamplesOf(m, a, was)} = SamplesOf(m, a, FALSE)
    BY SavedSamples
  <2> QED
    BY <2>1, <2>2
<1> QED
  BY <1>2, <1>3

LEMMA StoredRow ==
    ASSUME Typed, Stored, NEW r \in disk
    PROVE  /\ r.msg \in DOMAIN seen /\ seen[r.msg] \in Annotation
           /\ \E raw \in BOOLEAN : r \in SamplesOf(r.msg, seen[r.msg], raw)
           /\ ReadsAs(r, r.msg, seen[r.msg])
<1>1. r.msg \in DOMAIN seen /\ seen[r.msg] \in Annotation
  BY DEF Stored, Typed
<1>2. PICK raw \in BOOLEAN : RowsFor(r.msg) = SamplesOf(r.msg, seen[r.msg], raw)
  BY <1>1 DEF Stored
<1>3. r \in SamplesOf(r.msg, seen[r.msg], raw)
  BY <1>2 DEF RowsFor
<1> QED
  BY <1>1, <1>3, SampleReads

LEMMA RecordsStart == RecordsInit => Inv
<1> SUFFICES ASSUME RecordsInit PROVE Inv
  OBVIOUS
<1>1. DOMAIN host = {} /\ DOMAIN seen = {} /\ latest = {} /\ disk = {} /\ now = 1 /\ edits = 0
      /\ host = [m \in {} |-> m] /\ seen = [m \in {} |-> m]
  BY DEF RecordsInit, Empty
<1>2. Typed
  <2>1. now \in 1..MaxNow /\ edits \in 0..MaxEdits
    BY <1>1, RecordsAssumption
  <2> QED
    BY <1>1, <2>1 DEF Typed
<1> QED
  BY <1>1, <1>2 DEF Inv, Stored, Codes

LEMMA AnnotatedFields ==
    ASSUME NEW a \in Annotation, NEW labels \in HumanLabels, now \in Nat
    PROVE  Annotated(a, labels) \in Annotation /\ Annotated(a, labels).codes = a.codes
BY DEF Annotated, Annotation

LEMMA EndedFields ==
    ASSUME NEW a \in Annotation, NEW block \in OutcomeBlock
    PROVE  /\ [a EXCEPT !.outcomes.record = {block}] \in Annotation
           /\ [a EXCEPT !.outcomes.record = {block}].codes = a.codes
<1>1. {block} \in Option(OutcomeBlock)
  BY DEF Option, AtMostOne
<1>2. [a.outcomes EXCEPT !.record = {block}]
         \in [{"trace", "trace_routing", "routing", "record"} -> Option(OutcomeBlock)]
  BY <1>1, AnnotationFields
<1>3. [a EXCEPT !.outcomes.record = {block}] = [a EXCEPT !.outcomes = [a.outcomes EXCEPT !.record = {block}]]
  OBVIOUS
<1> QED
  BY <1>2, <1>3 DEF Annotation

\* What the host changes does not touch what was imported.
LEMMA HostStep ==
    ASSUME Inv, UNCHANGED <<disk, seen, latest, now>>, edits' \in 0..MaxEdits,
           host' \in [DOMAIN host' -> Annotation], DOMAIN host' \subseteq Messages,
           KnownTurns => \A m \in DOMAIN host' : CodesKnown(host'[m])
    PROVE  Inv'
<1>1. Typed'
  BY DEF Inv, Typed
<1>2. Stored'
  BY DEF Inv, Stored, RowsFor
<1>3. Codes'
  BY DEF Inv, Codes
<1> QED
  BY <1>1, <1>2, <1>3 DEF Inv

LEMMA AnnotateStep == ASSUME Inv, NEW m \in Messages, Annotate(m) PROVE Inv'
<1>1. PICK a \in Turns[m], labels \in Labels[m] :
         host' = Completed(host, [x \in {m} |-> Annotated(a, labels)])
  BY DEF Annotate
<1>2. a \in Annotation /\ labels \in HumanLabels /\ now \in Nat
  BY RecordsAssumption DEF Inv, Typed
<1> DEFINE b == Annotated(a, labels)
<1>3. b \in Annotation /\ b.codes = a.codes
  BY <1>2, AnnotatedFields
<1> HIDE DEF b
<1>4. /\ DOMAIN host' = DOMAIN host \cup {m}
      /\ host' = [x \in DOMAIN host \cup {m} |-> IF x \in DOMAIN host THEN host[x] ELSE b]
  BY <1>1 DEF Completed, b
<1>5. host' \in [DOMAIN host' -> Annotation] /\ DOMAIN host' \subseteq Messages
  BY <1>3, <1>4 DEF Inv, Typed
<1>6. ASSUME KnownTurns PROVE \A x \in DOMAIN host' : CodesKnown(host'[x])
  <2>1. CodesKnown(b)
    BY <1>3, <1>6 DEF KnownTurns, CodesKnown
  <2>2. \A x \in DOMAIN host : CodesKnown(host[x])
    BY <1>6 DEF Inv, Codes
  <2> QED
    BY <1>4, <2>1, <2>2
<1>7. UNCHANGED <<disk, seen, latest, now>> /\ edits' \in 0..MaxEdits
  BY DEF Annotate, Inv, Typed
<1> QED
  BY <1>5, <1>6, <1>7, HostStep

LEMMA RelabelStep == ASSUME Inv, NEW m \in Messages, Relabel(m) PROVE Inv'
<1>1. PICK labels \in Labels[m] : host' = [host EXCEPT ![m] = Annotated(host[m], labels)]
  BY DEF Relabel
<1>2. m \in DOMAIN host /\ host[m] \in Annotation /\ labels \in HumanLabels /\ now \in Nat
  BY RecordsAssumption DEF Inv, Typed, Relabel
<1> DEFINE b == Annotated(host[m], labels)
<1>3. b \in Annotation /\ b.codes = host[m].codes
  BY <1>2, AnnotatedFields
<1> HIDE DEF b
<1>4. DOMAIN host' = DOMAIN host /\ host' = [host EXCEPT ![m] = b]
  BY <1>1 DEF b
<1>5. host' \in [DOMAIN host' -> Annotation] /\ DOMAIN host' \subseteq Messages
  BY <1>3, <1>4 DEF Inv, Typed
<1>6. ASSUME KnownTurns PROVE \A x \in DOMAIN host' : CodesKnown(host'[x])
  <2>1. \A x \in DOMAIN host : CodesKnown(host[x])
    BY <1>6 DEF Inv, Codes
  <2>2. CodesKnown(b)
    BY <1>2, <1>3, <2>1 DEF CodesKnown
  <2> QED
    BY <1>4, <2>1, <2>2
<1>7. UNCHANGED <<disk, seen, latest, now>>
  BY DEF Relabel
<1>8. edits' \in 0..MaxEdits
  BY RecordsAssumption DEF Relabel, Inv, Typed
<1> QED
  BY <1>5, <1>6, <1>7, <1>8, HostStep

LEMMA CompleteStep == ASSUME Inv, NEW m \in Messages, Complete(m) PROVE Inv'
<1>1. PICK block \in Endings[m] : host' = [host EXCEPT ![m].outcomes.record = {block}]
  BY DEF Complete
<1>2. m \in DOMAIN host /\ host[m] \in Annotation /\ block \in OutcomeBlock
  BY RecordsAssumption DEF Inv, Typed, Complete
<1> DEFINE b == [host[m] EXCEPT !.outcomes.record = {block}]
<1>3. b \in Annotation /\ b.codes = host[m].codes
  BY <1>2, EndedFields
<1>4. DOMAIN host' = DOMAIN host /\ host' = [host EXCEPT ![m] = b]
  BY <1>1
<1> HIDE DEF b
<1>5. host' \in [DOMAIN host' -> Annotation] /\ DOMAIN host' \subseteq Messages
  BY <1>3, <1>4 DEF Inv, Typed
<1>6. ASSUME KnownTurns PROVE \A x \in DOMAIN host' : CodesKnown(host'[x])
  <2>1. \A x \in DOMAIN host : CodesKnown(host[x])
    BY <1>6 DEF Inv, Codes
  <2>2. CodesKnown(b)
    BY <1>2, <1>3, <2>1 DEF CodesKnown
  <2> QED
    BY <1>4, <2>1, <2>2
<1>7. UNCHANGED <<disk, seen, latest, now>>
  BY DEF Complete
<1>8. edits' \in 0..MaxEdits
  BY RecordsAssumption DEF Complete, Inv, Typed
<1> QED
  BY <1>5, <1>6, <1>7, <1>8, HostStep

\* What an import reads of the host.
LEMMA ReadRecords ==
    ASSUME Inv, NEW domain
    PROVE  LET records == Only(host, domain)
           IN  /\ DOMAIN records = DOMAIN host \cap domain
               /\ \A m \in DOMAIN records : records[m] = host[m] /\ records[m] \in Annotation
               /\ records \in [DOMAIN records -> Annotation] /\ DOMAIN records \subseteq Messages
               /\ KnownTurns => \A m \in DOMAIN records : CodesKnown(records[m])
<1>1. DOMAIN Only(host, domain) = DOMAIN host \cap domain
      /\ Only(host, domain) = [x \in DOMAIN host \cap domain |-> host[x]]
  BY DEF Only
<1> QED
  BY <1>1 DEF Inv, Typed, Codes

\* The typed and evidence parts of an import.
LEMMA SeenStep ==
    ASSUME Inv, NEW records, records \in [DOMAIN records -> Annotation],
           DOMAIN records \subseteq Messages,
           KnownTurns => \A m \in DOMAIN records : CodesKnown(records[m]),
           NEW kept, kept \subseteq DOMAIN seen,
           DOMAIN seen' = DOMAIN records \cup kept,
           seen' = [m \in DOMAIN records \cup kept |-> IF m \in DOMAIN records THEN records[m] ELSE seen[m]],
           latest' = DOMAIN records, UNCHANGED <<host, now, edits>>
    PROVE  Typed' /\ Codes'
<1>1. Typed'
  BY DEF Inv, Typed
<1>2. Codes'
  BY DEF Inv, Codes, Typed
<1> QED
  BY <1>1, <1>2

LEMMA ImportSessionsStep ==
    ASSUME Inv, NEW sessions, NEW raw \in BOOLEAN, ImportSessions(sessions, raw)
    PROVE  Inv'
<1> DEFINE records == Only(host, In(sessions))
<1> DEFINE new == RowsOf(records, raw)
<1> DEFINE kept == DOMAIN seen \cap (Messages \ In(sessions))
<1>1. /\ DOMAIN records = DOMAIN host \cap In(sessions)
      /\ \A m \in DOMAIN records : records[m] \in Annotation
      /\ records \in [DOMAIN records -> Annotation] /\ DOMAIN records \subseteq Messages
      /\ KnownTurns => \A m \in DOMAIN records : CodesKnown(records[m])
  BY ReadRecords
<1>2. /\ disk' = {r \in disk : r.session \notin sessions} \cup {Saved(r, raw) : r \in new}
      /\ seen' = Completed(records, Only(seen, Messages \ In(sessions)))
      /\ latest' = DOMAIN records /\ UNCHANGED <<host, now, edits>>
  BY DEF ImportSessions
<1>3. /\ {Saved(r, raw) : r \in new} = new
      /\ \A m \in DOMAIN records : {r \in new : r.msg = m} = SamplesOf(m, records[m], raw)
      /\ \A m : m \notin DOMAIN records => {r \in new : r.msg = m} = {}
      /\ \A r \in new : r.msg \in DOMAIN records
  BY <1>1, ImportedRows, RowsOfRecords
<1> HIDE DEF records, new
<1>4. /\ DOMAIN seen' = DOMAIN records \cup kept
      /\ seen' = [m \in DOMAIN records \cup kept |-> IF m \in DOMAIN records THEN records[m] ELSE seen[m]]
  BY <1>2 DEF Completed, Only
<1>5. Typed' /\ Codes'
  <2>1. kept \subseteq DOMAIN seen
    OBVIOUS
  <2> HIDE DEF kept
  <2> QED
    BY <1>1, <1>2, <1>4, <2>1, SeenStep
<1>6. disk' = {r \in disk : r.session \notin sessions} \cup new
  BY <1>2, <1>3
<1>7. \A r \in disk : /\ r.session \notin sessions <=> r.msg \in kept
                      /\ r.msg \in DOMAIN seen
  <2> TAKE r \in disk
  <2>1. r.msg \in DOMAIN seen /\ r.session = SessionOf[r.msg]
    BY StoredRow DEF Inv, ReadsAs
  <2> QED
    BY <2>1 DEF Inv, Typed, In
<1>8. \A r \in disk' : r.msg \in DOMAIN seen'
  BY <1>3, <1>4, <1>6, <1>7
<1>9. ASSUME NEW m \in DOMAIN seen'
      PROVE  \E mode \in BOOLEAN : RowsFor(m)' = SamplesOf(m, seen'[m], mode)
  <2>1. RowsFor(m)' = {r \in disk' : r.msg = m}
    BY DEF RowsFor
  <2>2. CASE m \in DOMAIN records
    <3>1. m \notin kept
      BY <1>1, <2>2
    <3>2. RowsFor(m)' = {r \in new : r.msg = m}
      BY <1>6, <1>7, <2>1, <3>1
    <3>3. seen'[m] = records[m]
      BY <1>4, <2>2
    <3> QED
      BY <1>3, <2>2, <3>2, <3>3
  <2>3. CASE m \notin DOMAIN records
    <3>1. m \in kept /\ seen'[m] = seen[m]
      BY <1>4, <2>3
    <3>2. \A r \in new : r.msg # m
      BY <1>3, <2>3
    <3>3. RowsFor(m)' = RowsFor(m)
      BY <1>6, <1>7, <2>1, <3>1, <3>2 DEF RowsFor
    <3> QED
      BY <3>1, <3>3 DEF Inv, Stored
  <2> QED
    BY <2>2, <2>3
<1>10. Stored'
  BY <1>8, <1>9 DEF Stored
<1> QED
  BY <1>5, <1>10 DEF Inv

LEMMA ImportRecordsStep ==
    ASSUME Inv, NEW messages, NEW raw \in BOOLEAN, ImportRecords(messages, raw)
    PROVE  Inv'
<1> DEFINE records == Only(host, messages)
<1> DEFINE new == RowsOf(records, raw)
<1> DEFINE sessions == {SessionOf[m] : m \in DOMAIN records}
<1> DEFINE kept == {r \in disk : r.msg \notin DOMAIN records}
<1> DEFINE again(r) == IF r.session \in sessions THEN Saved(r, raw) ELSE r
<1>1. /\ DOMAIN records = DOMAIN host \cap messages
      /\ \A m \in DOMAIN records : records[m] \in Annotation
      /\ records \in [DOMAIN records -> Annotation] /\ DOMAIN records \subseteq Messages
      /\ KnownTurns => \A m \in DOMAIN records : CodesKnown(records[m])
  BY ReadRecords
<1>2. /\ disk' = {again(r) : r \in kept} \cup {Saved(r, raw) : r \in new}
      /\ seen' = Completed(records, seen)
      /\ latest' = DOMAIN records /\ UNCHANGED <<host, now, edits>>
  BY DEF ImportRecords, Merged
<1>3. /\ {Saved(r, raw) : r \in new} = new
      /\ \A m \in DOMAIN records : {r \in new : r.msg = m} = SamplesOf(m, records[m], raw)
      /\ \A r \in new : r.msg \in DOMAIN records
  BY <1>1, ImportedRows, RowsOfRecords
<1> HIDE DEF records, new
<1>4. /\ DOMAIN seen' = DOMAIN records \cup DOMAIN seen
      /\ seen' = [m \in DOMAIN records \cup DOMAIN seen |-> IF m \in DOMAIN records THEN records[m] ELSE seen[m]]
  BY <1>2 DEF Completed
<1>5. Typed' /\ Codes'
  BY <1>1, <1>2, <1>4, SeenStep
<1>6. disk' = {again(r) : r \in kept} \cup new
  BY <1>2, <1>3
<1>7. ASSUME NEW m \in DOMAIN seen \ DOMAIN records
      PROVE  /\ \A r \in RowsFor(m) : r.session = SessionOf[m] /\ again(r).msg = m
             /\ \E mode \in BOOLEAN : {again(r) : r \in RowsFor(m)} = SamplesOf(m, seen[m], mode)
  <2>1. seen[m] \in Annotation /\ \E was \in BOOLEAN : RowsFor(m) = SamplesOf(m, seen[m], was)
    BY DEF Inv, Typed, Stored
  <2>2. \A r \in RowsFor(m) : r.session = SessionOf[m]
    BY StoredRow DEF Inv, ReadsAs, RowsFor
  <2>3. CASE SessionOf[m] \in sessions
    <3>1. {again(r) : r \in RowsFor(m)} = {Saved(r, raw) : r \in RowsFor(m)}
      BY <2>2, <2>3
    <3>2. \E mode \in BOOLEAN : {Saved(r, raw) : r \in RowsFor(m)} = SamplesOf(m, seen[m], mode)
      BY <2>1, SavedAgain
    <3>3. PICK mode \in BOOLEAN : {again(r) : r \in RowsFor(m)} = SamplesOf(m, seen[m], mode)
      BY <3>1, <3>2
    <3>4. \A q \in SamplesOf(m, seen[m], mode) : q.msg = m
      BY <2>1, SampleReads DEF ReadsAs
    <3> QED
      BY <2>2, <3>3, <3>4
  <2>4. CASE SessionOf[m] \notin sessions
    <3>1. \A r \in RowsFor(m) : again(r) = r /\ r.msg = m
      BY <2>2, <2>4 DEF RowsFor
    <3> HIDE DEF again
    <3>2. {again(r) : r \in RowsFor(m)} = RowsFor(m)
      BY <3>1
    <3> QED
      BY <2>1, <2>2, <3>1, <3>2
  <2> QED
    BY <2>3, <2>4
<1> HIDE DEF again, sessions
<1>8. \A r \in kept : /\ r.msg \in DOMAIN seen \ DOMAIN records /\ r \in RowsFor(r.msg)
                      /\ again(r).msg = r.msg
  <2> TAKE r \in kept
  <2>1. r.msg \in DOMAIN seen \ DOMAIN records /\ r \in RowsFor(r.msg)
    BY DEF Inv, Stored, RowsFor
  <2> QED
    BY <1>7, <2>1
<1>9. \A r \in disk' : r.msg \in DOMAIN seen'
  BY <1>3, <1>4, <1>6, <1>8
<1>10. ASSUME NEW m \in DOMAIN seen'
       PROVE  \E mode \in BOOLEAN : RowsFor(m)' = SamplesOf(m, seen'[m], mode)
  <2>1. RowsFor(m)' = {r \in disk' : r.msg = m}
    BY DEF RowsFor
  <2>2. CASE m \in DOMAIN records
    <3>1. RowsFor(m)' = {r \in new : r.msg = m}
      BY <1>6, <1>8, <2>1, <2>2
    <3>2. seen'[m] = records[m]
      BY <1>4, <2>2
    <3> QED
      BY <1>3, <2>2, <3>1, <3>2
  <2>3. CASE m \notin DOMAIN records
    <3>1. m \in DOMAIN seen \ DOMAIN records /\ seen'[m] = seen[m]
      BY <1>4, <2>3
    <3>2. \A r \in new : r.msg # m
      BY <1>3, <2>3
    <3>3. RowsFor(m) \subseteq kept
      BY <2>3 DEF RowsFor
    <3>4. RowsFor(m)' = {again(r) : r \in RowsFor(m)}
      BY <1>6, <1>7, <1>8, <2>1, <3>1, <3>2, <3>3 DEF RowsFor
    <3> QED
      BY <1>7, <3>1, <3>4
  <2> QED
    BY <2>2, <2>3
<1>11. Stored'
  BY <1>9, <1>10 DEF Stored
<1> QED
  BY <1>5, <1>11 DEF Inv

LEMMA TickStep == ASSUME Inv, Tick PROVE Inv'
<1>1. now' \in 1..MaxNow /\ UNCHANGED <<host, disk, seen, latest, edits>>
  BY RecordsAssumption DEF Tick, Inv, Typed
<1> QED
  BY <1>1 DEF Inv, Typed, Stored, Codes, RowsFor

THEOREM RecordsInvariant == RecordsSpec => []Inv
<1>1. RecordsInit => Inv
  BY RecordsStart
<1>2. Inv /\ [RecordsNext]_vars => Inv'
  <2> SUFFICES ASSUME Inv, [RecordsNext]_vars PROVE Inv'
    OBVIOUS
  <2>1. CASE \E m \in Messages : Annotate(m) \/ Relabel(m) \/ Complete(m)
    BY <2>1, AnnotateStep, RelabelStep, CompleteStep
  <2>2. CASE \E s \in SUBSET {SessionOf[m] : m \in DOMAIN host} \ {{}}, raw \in BOOLEAN :
                ImportSessions(s, raw)
    BY <2>2, ImportSessionsStep
  <2>3. CASE \E m \in Messages, raw \in BOOLEAN : ImportRecords({m}, raw)
    BY <2>3, ImportRecordsStep
  <2>4. CASE Tick
    BY <2>4, TickStep
  <2>5. CASE UNCHANGED vars
    BY <2>5 DEF vars, Inv, Typed, Stored, Codes, RowsFor
  <2> QED
    BY <2>1, <2>2, <2>3, <2>4, <2>5 DEF RecordsNext
<1> QED
  BY <1>1, <1>2, PTL DEF RecordsSpec

(***************************************************************************)
(* What follows of the rows                                                *)
(***************************************************************************)
LEMMA RowKeys ==
    ASSUME Inv, NEW r \in disk, NEW q \in disk, r.msg = q.msg, r.task = q.task
    PROVE  r = q
<1> DEFINE m == r.msg
<1>1. m \in DOMAIN seen /\ seen[m] \in Annotation
  BY StoredRow DEF Inv
<1>2. PICK raw \in BOOLEAN : RowsFor(m) = SamplesOf(m, seen[m], raw)
  BY <1>1 DEF Inv, Stored
<1>3. r \in SamplesOf(m, seen[m], raw) /\ q \in SamplesOf(m, seen[m], raw)
  BY <1>2 DEF RowsFor
<1> QED
  BY <1>1, <1>3, OneRowPerTask

LEMMA RowTask ==
    ASSUME Inv, NEW r \in disk
    PROVE  r.task \in {"recipient", "topic", "reply", "reply_outcome"}
BY StoredRow, KindOfTask DEF Inv

LEMMA TypesFollow == Inv => RecordsTypeOK
<1> SUFFICES ASSUME Inv PROVE RecordsTypeOK
  OBVIOUS
<1>1. ASSUME NEW r \in disk
      PROVE  /\ r.msg \in DOMAIN seen /\ r.session = SessionOf[r.msg]
             /\ "source_schema" \in DOMAIN r.trace
  BY StoredRow DEF Inv, ReadsAs, Has
<1>2. \A r \in disk : r.task \in {"recipient", "topic", "reply", "reply_outcome"}
  BY RowTask
<1>3. \A r \in disk : \A q \in disk : q.msg = r.msg /\ q.task = r.task => q = r
  BY RowKeys
<1>4. latest \subseteq DOMAIN seen /\ now \in 1..MaxNow /\ edits \in 0..MaxEdits
  BY DEF Inv, Typed
<1> QED
  BY <1>1, <1>2, <1>3, <1>4 DEF RecordsTypeOK

\* Every stored row is one of a message that was imported, carries that
\* message's session and schema, and no message has two rows of a task.
THEOREM RecordTypes == RecordsSpec => []RecordsTypeOK
  BY RecordsInvariant, TypesFollow, PTL

LEMMA SchemaFollows == Inv => SchemaIsTheHosts
<1> SUFFICES ASSUME Inv PROVE SchemaIsTheHosts
  OBVIOUS
<1> DEFINE labelled == OfRows("reply", disk)
<1> DEFINE versions == {TurnOf(m).source : m \in {r.msg : r \in labelled}}
<1> DEFINE schemas == {r.trace.source_schema : r \in {q \in labelled : Has(q, "source_schema")}}
<1>1. ASSUME NEW r \in disk
      PROVE  /\ Has(r, "source_schema") /\ r.trace.source_schema = TurnOf(r.msg).source
             /\ seen[r.msg] \in Annotation
             /\ EvidenceOf(r) = CandidateEvidence(TurnOf(r.msg))
  BY StoredRow DEF Inv, ReadsAs, TurnOf
<1>2. \A m \in DOMAIN seen : TurnOf(m).source \in Nat
  <2> TAKE m \in DOMAIN seen
  <2>1. seen[m].version \in Nat
    BY AnnotationFields DEF Inv, Typed
  <2> QED
    BY <2>1 DEF TurnOf, TraceOf
<1>3. schemas = versions
  <2>1. \A r \in labelled : Has(r, "source_schema") /\ r.trace.source_schema = TurnOf(r.msg).source
    BY <1>1 DEF OfRows
  <2> HIDE DEF labelled
  <2> QED
    BY <2>1
<1>4. versions \subseteq Nat
  BY <1>2, TypesFollow DEF OfRows, RecordsTypeOK
<1>5. ASSUME NEW r \in OfRows("topic", disk), EvidenceOf(r) = "full"
      PROVE  /\ seen[r.msg].hasTrace /\ seen[r.msg].version = Known
             /\ \A c \in UNION TurnOf(r.msg).cands : c.evidence
  <2> DEFINE t == TurnOf(r.msg)
  <2>1. CandidateEvidence(t) = "full"
    BY <1>1, <1>5 DEF OfRows
  <2>2. /\ t.source >= Known /\ t.expressed >= Known
        /\ \A list \in t.cands : \A item \in list : item.evidence
    BY <2>1 DEF CandidateEvidence
  <2>3. t.expressed = IF seen[r.msg].hasTrace THEN Expressed(seen[r.msg].version) ELSE 2
    BY DEF TurnOf, TraceOf
  <2> HIDE DEF t
  <2>4. seen[r.msg].hasTrace /\ seen[r.msg].version = Known
    BY <2>2, <2>3 DEF Expressed, Known
  <2> QED
    BY <2>2, <2>4 DEF t
<1>6. OutcomeGap(disk) = IF \E r \in labelled : OutcomeOf(r) # {} THEN "some"
                         ELSE IF labelled = {} THEN "unlabelled"
                         ELSE IF versions \subseteq {0} THEN "undeclared"
                         ELSE IF \A s \in versions : s < Known THEN "contract" ELSE "gap"
  BY <1>3 DEF OutcomeGap
<1> HIDE DEF labelled, versions, schemas
<1>7. OutcomeGap(disk) = "contract" => \A v \in versions : v < Known
  BY <1>6
<1>8. OutcomeGap(disk) = "gap" => \E v \in versions : v >= Known
  BY <1>4, <1>6 DEF Known
<1>9. OutcomeGap(disk) = "undeclared" => versions \subseteq {0}
  BY <1>6
<1> QED
  BY <1>5, <1>7, <1>8, <1>9 DEF SchemaIsTheHosts, versions, labelled

\* Full candidate evidence is read only off a record that declared schema 3
\* and scored every candidate, and the reason given for a missing outcome is
\* the one the host's own versions give.
THEOREM SchemasAreKept == RecordsSpec => []SchemaIsTheHosts
  BY RecordsInvariant, SchemaFollows, PTL

(***************************************************************************)
(* Counting rows                                                           *)
(***************************************************************************)
LEMMA Inject ==
    ASSUME NEW S, NEW T, IsFiniteSet(T), NEW f \in [S -> T],
           \A x, y \in S : f[x] = f[y] => x = y
    PROVE  /\ IsFiniteSet(S) /\ Cardinality(S) <= Cardinality(T)
           /\ (\A t \in T : \E s \in S : f[s] = t) => Cardinality(S) = Cardinality(T)
<1>1. f \in Injection(S, T)
  BY DEF Injection, IsInjective
<1>2. (\A t \in T : \E s \in S : f[s] = t) => f \in Surjection(S, T)
  BY DEF Surjection
<1> QED
  BY <1>1, <1>2, FS_Injection

Key(r) == <<r.msg, r.task>>
Keyed(rows) == \A r, q \in rows : r.msg = q.msg /\ r.task = q.task => r = q
Tasks == {"recipient", "topic", "reply", "reply_outcome"}
Slots == Messages \X Tasks

LEMMA TasksFinite == IsFiniteSet(Tasks)
<1>1. IsFiniteSet({"recipient"})
  BY FS_Singleton
<1>2. IsFiniteSet({"recipient"} \cup {"topic"})
  BY <1>1, FS_AddElement
<1>3. IsFiniteSet({"recipient"} \cup {"topic"} \cup {"reply"})
  BY <1>2, FS_AddElement
<1>4. IsFiniteSet({"recipient"} \cup {"topic"} \cup {"reply"} \cup {"reply_outcome"})
  BY <1>3, FS_AddElement
<1>5. Tasks = {"recipient"} \cup {"topic"} \cup {"reply"} \cup {"reply_outcome"}
  BY DEF Tasks
<1> QED
  BY <1>4, <1>5

LEMMA SlotsFinite == IsFiniteSet(Slots)
BY RecordsAssumption, TasksFinite, FS_Product DEF Slots

LEMMA KeyedFinite ==
    ASSUME NEW rows, Keyed(rows), \A r \in rows : r.msg \in Messages /\ r.task \in Tasks
    PROVE  IsFiniteSet(rows)
<1> DEFINE f == [r \in rows |-> Key(r)]
<1>1. f \in [rows -> Slots]
  BY DEF Slots, Key
<1>2. \A r, q \in rows : f[r] = f[q] => r = q
  BY DEF Keyed, Key
<1> HIDE DEF f
<1> QED
  BY <1>1, <1>2, SlotsFinite, Inject

\* Two sets of rows with the same keys are equally many.
LEMMA SameCount ==
    ASSUME NEW A, NEW B, Keyed(A), Keyed(B), IsFiniteSet(B),
           \A r \in A : \E q \in B : Key(r) = Key(q),
           \A q \in B : \E r \in A : Key(r) = Key(q)
    PROVE  Cardinality(A) = Cardinality(B)
<1> DEFINE f == [r \in A |-> CHOOSE q \in B : Key(r) = Key(q)]
<1>1. \A r \in A : f[r] \in B /\ Key(f[r]) = Key(r)
  OBVIOUS
<1>2. f \in [A -> B]
  BY <1>1
<1> HIDE DEF f
<1>3. \A r, q \in A : f[r] = f[q] => r = q
  BY <1>1 DEF Keyed, Key
<1>4. \A q \in B : \E r \in A : f[r] = q
  <2> TAKE q \in B
  <2>1. PICK r \in A : Key(r) = Key(q)
    OBVIOUS
  <2>2. f[r] = q
    BY <1>1, <2>1 DEF Keyed, Key
  <2> QED
    BY <2>2
<1> QED
  BY <1>2, <1>3, <1>4, Inject

LEMMA DiskKeyed == ASSUME Inv PROVE Keyed(disk) /\ IsFiniteSet(disk)
<1>1. Keyed(disk)
  BY RowKeys DEF Keyed
<1>2. \A r \in disk : r.msg \in Messages /\ r.task \in Tasks
  BY RowTask, StoredRow DEF Inv, Typed, Tasks
<1> QED
  BY <1>1, <1>2, KeyedFinite

LEMMA Few ==
    ASSUME NEW S, NEW x, S \subseteq {x}
    PROVE  ~(Cardinality(S) > 1)
<1>1. IsFiniteSet({x}) /\ Cardinality({x}) = 1
  BY FS_Singleton
<1>2. Cardinality(S) <= Cardinality({x}) /\ Cardinality(S) \in Nat
  BY <1>1, FS_Subset, FS_CardinalityType
<1> QED
  BY <1>1, <1>2

(***************************************************************************)
(* Replaying a stored row                                                  *)
(***************************************************************************)


Snapshot(trace, t, raw) ==
    /\ ("participation" \in DOMAIN trace) = raw /\ ("recipient" \in DOMAIN trace) = raw
    /\ raw => trace.participation = Ledger(t) /\ trace.recipient = t.targeted

LEMMA SnapshotOfTrace ==
    ASSUME NEW a, NEW raw \in BOOLEAN, NEW extra, DOMAIN extra \subseteq ExtraKeys
    PROVE  Snapshot(TraceOfRow(a, raw, extra), TraceOf(a), raw)
<1> DEFINE t == TraceOf(a)
<1> DEFINE f == Facts(a, t)
<1> DEFINE c == When(raw, Contract(t))
<1> DEFINE kept == Completed(extra, Completed(f, c))
<1>1. /\ DOMAIN kept = DOMAIN extra \cup DOMAIN f \cup DOMAIN c
      /\ \A key \in DOMAIN c \ (DOMAIN extra \cup DOMAIN f) : kept[key] = c[key]
  BY DEF Completed
<1>2. "participation" \notin DOMAIN f /\ "recipient" \notin DOMAIN f
  BY FactFields
<1>3. "participation" \notin DOMAIN extra /\ "recipient" \notin DOMAIN extra
  BY DEF ExtraKeys
<1>4. /\ raw => /\ "participation" \in DOMAIN c /\ "recipient" \in DOMAIN c
                /\ c.recipient = t.targeted /\ c.participation = Ledger(t)
      /\ ~raw => DOMAIN c = {}
  BY ContractFields, WhenFields DEF ContractKeys
<1> HIDE DEF f, c, kept, t
<1>5. Snapshot(kept, t, raw)
  BY <1>1, <1>2, <1>3, <1>4 DEF Snapshot
<1> QED
  BY <1>5 DEF TraceOfRow, f, c, kept, t

LEMMA SnapshotOfSample ==
    ASSUME NEW m, NEW a \in Annotation, NEW raw \in BOOLEAN, NEW r \in SamplesOf(m, a, raw)
    PROVE  Snapshot(r.trace, TraceOf(a), raw)
<1>1. \E extra : DOMAIN extra \subseteq ExtraKeys /\ r.trace = TraceOfRow(a, raw, extra)
  <2>1. CASE IsRecipient(m, a, raw, r)
    BY <2>1, ExtraFields DEF IsRecipient, RecipientRow, RowOf
  <2>2. CASE IsTopic(m, a, raw, r)
    BY <2>2, ExtraFields DEF IsTopic, TopicRow, RowOf
  <2>3. CASE IsReply(m, a, raw, r)
    BY <2>3, ExtraFields DEF IsReply, ReplyRow, RowOf
  <2>4. CASE IsOutcome(m, a, raw, r)
    BY <2>4, ExtraFields DEF IsOutcome, OutcomeRow, RowOf
  <2> QED
    BY <2>1, <2>2, <2>3, <2>4, Kinds
<1> QED
  BY <1>1, SnapshotOfTrace

\* What ReplayTrace may lose: the codes the feature map has no name for.
LEMMA Replayed ==
    ASSUME NEW m, NEW a \in Annotation, NEW raw \in BOOLEAN, NEW r \in SamplesOf(m, a, raw)
    PROVE  LET t == TraceOf(a)
               u == ReplayTrace(r)
           IN  /\ u.targeted = t.targeted /\ u.total = t.total
               /\ u.codes = t.codes \/ u.codes = t.codes \cap (AmbientCodes \cup {"mention"})
<1> DEFINE t == TraceOf(a)
<1> DEFINE u == ReplayTrace(r)
<1>1. r.feats = Features(t)
  <2>1. ReadsAs(r, m, a)
    BY SampleReads
  <2> QED
    BY <2>1 DEF ReadsAs
<1>2. Snapshot(r.trace, t, raw)
  BY SnapshotOfSample
<1>3. t.targeted \in BOOLEAN
  BY AnnotationFields DEF TraceOf
<1> HIDE DEF t
<1>4. r.feats.explicit = Explicit(t) /\ r.feats.targeted = t.targeted /\ r.feats.total = t.total
      /\ r.feats.codes = t.codes \cap AmbientCodes
  BY <1>1 DEF Features
<1>5. CASE Has(r, "participation") /\ r.trace.participation.codes # {}
  <2>1. raw /\ r.trace.participation = Ledger(t) /\ r.trace.recipient = t.targeted
    BY <1>2, <1>5 DEF Snapshot, Has
  <2>2. u.codes = t.codes /\ u.targeted = t.targeted /\ u.total = t.total
    BY <1>5, <2>1 DEF ReplayTrace, Ledger
  <2> QED
    BY <2>2 DEF t
<1>6. CASE ~(Has(r, "participation") /\ r.trace.participation.codes # {})
  <2>1. Has(r, "recipient") => r.trace.recipient = t.targeted
    BY <1>2 DEF Snapshot, Has
  <2>2. u = [codes |-> r.feats.codes \cup (IF r.feats.explicit THEN {"mention"} ELSE {}),
             targeted |-> r.feats.targeted \/ (Has(r, "recipient") /\ r.trace.recipient),
             total |-> r.feats.total]
    BY <1>6 DEF ReplayTrace
  <2>3. u.targeted = t.targeted /\ u.total = t.total
    BY <1>3, <1>4, <2>1, <2>2
  <2>4. u.codes = t.codes \cap (AmbientCodes \cup {"mention"})
    <3>1. u.codes = r.feats.codes \cup (IF r.feats.explicit THEN {"mention"} ELSE {})
      BY <2>2
    <3>2. r.feats.explicit <=> "mention" \in t.codes
      BY <1>4 DEF Explicit
    <3> HIDE DEF u
    <3>3. CASE "mention" \in t.codes
      BY <1>4, <3>1, <3>2, <3>3
    <3>4. CASE "mention" \notin t.codes
      BY <1>4, <3>1, <3>2, <3>4
    <3> QED
      BY <3>3, <3>4
  <2> QED
    BY <2>3, <2>4 DEF t
<1> QED
  BY <1>5, <1>6

LEMMA ReplayedKnown ==
    ASSUME NEW m, NEW a \in Annotation, CodesKnown(a), NEW raw \in BOOLEAN,
           NEW r \in SamplesOf(m, a, raw)
    PROVE  /\ ReplayTrace(r).codes = TraceOf(a).codes
           /\ ReplayTrace(r).targeted = TraceOf(a).targeted
           /\ ReplayTrace(r).total = TraceOf(a).total
<1>1. TraceOf(a).codes \subseteq AmbientCodes \cup {"mention"}
  BY DEF CodesKnown, TraceOf
<1>2. /\ ReplayTrace(r).targeted = TraceOf(a).targeted /\ ReplayTrace(r).total = TraceOf(a).total
      /\ \/ ReplayTrace(r).codes = TraceOf(a).codes
         \/ ReplayTrace(r).codes = TraceOf(a).codes \cap (AmbientCodes \cup {"mention"})
  BY Replayed
<1>3. TraceOf(a).codes \cap (AmbientCodes \cup {"mention"}) = TraceOf(a).codes
  BY <1>1
<1> QED
  BY <1>2, <1>3

\* A baseline and an explicit code outlast the loss.
LEMMA ReplayedKind ==
    ASSUME NEW m, NEW a \in Annotation, NEW raw \in BOOLEAN, NEW r \in SamplesOf(m, a, raw)
    PROVE  /\ Explicit(TraceOf(a)) => Explicit(ReplayTrace(r))
           /\ PriorBot(TraceOf(a)) = 0 => PriorBot(ReplayTrace(r)) = 0
<1>1. \/ ReplayTrace(r).codes = TraceOf(a).codes
      \/ ReplayTrace(r).codes = TraceOf(a).codes \cap (AmbientCodes \cup {"mention"})
  BY Replayed
<1> QED
  BY <1>1 DEF Explicit, PriorBot, AmbientCodes

LEMMA ReplayFollows == Inv /\ KnownTurns => ReplayIsOfTheTurn
<1> SUFFICES ASSUME Inv, KnownTurns, NEW policy \in Policies, NEW m \in DOMAIN seen
             PROVE  LET t == TurnOf(m)
                        decides == HostDecides(seen[m], t, policy)
                    IN  Mismatched(RowsFor(m), policy) =
                           {r \in RowsFor(m) :
                              /\ r.task \in {"recipient", "reply"} /\ ~Excluded(r)
                              /\ decides # HostDecided(t, r.task)}
  BY DEF ReplayIsOfTheTurn
<1> DEFINE a == seen[m]
<1> DEFINE t == TurnOf(m)
<1>1. a \in Annotation /\ CodesKnown(a)
  BY DEF Inv, Typed, Codes
<1>2. PICK raw \in BOOLEAN : RowsFor(m) = SamplesOf(m, a, raw)
  BY DEF Inv, Stored
<1>3. t = TraceOf(a) /\ t.targeted \in BOOLEAN
  BY <1>1, AnnotationFields DEF TurnOf, TraceOf
<1> HIDE DEF a, t
<1>4. ASSUME NEW r \in RowsFor(m)
      PROVE  Decide(r, policy) = HostDecides(a, t, policy)
  <2> DEFINE u == ReplayTrace(r)
  <2>1. u.codes = t.codes /\ u.targeted = t.targeted /\ u.total = t.total
    BY <1>1, <1>2, <1>3, ReplayedKnown
  <2>2. Scored(r) = (a.hasTrace /\ a.total # {}) /\ a.hasTrace \in BOOLEAN
    <3>1. ReadsAs(r, m, a)
      BY <1>1, <1>2, SampleReads
    <3>2. a.hasTrace \in BOOLEAN
      BY <1>1, AnnotationFields
    <3> QED
      BY <3>1, <3>2 DEF ReadsAs
  <2>3. Explicit(u) = Explicit(t) /\ PriorBot(u) = PriorBot(t)
    BY <2>1 DEF Explicit, PriorBot
  <2>4. PriorBot(t) \in {-1, 0, 1} /\ Explicit(t) \in BOOLEAN
    BY DEF PriorBot, Explicit
  <2>5. Decide(r, policy) = IF Explicit(t) \/ ~Scored(r) \/ PriorBot(t) < 0 THEN t.targeted
                            ELSE PriorBot(t) = 1 /\ t.total >= Normalize(policy).strong
    BY <2>1, <2>3 DEF Decide
  <2> DEFINE row == [kind |-> Kind(a, t), score |-> t.total, said |-> Recipient(t.targeted)]
  <2>6. row.said \in {"bot", "reply"} <=> t.targeted
    BY <1>3 DEF Recipient
  <2>7. CASE Explicit(t) \/ ~Scored(r) \/ PriorBot(t) < 0
    <3>1. row.kind \in {"explicit", "unscored", "unknown"}
      <4>1. row.kind = Kind(a, t)
        OBVIOUS
      <4>2. CASE Explicit(t)
        BY <2>4, <4>1, <4>2 DEF Kind
      <4>3. CASE ~Explicit(t) /\ ~(a.hasTrace /\ a.total # {})
        BY <2>2, <2>4, <4>1, <4>3 DEF Kind
      <4>4. CASE ~Explicit(t) /\ a.hasTrace /\ a.total # {} /\ PriorBot(t) < 0
        BY <2>4, <4>1, <4>4 DEF Kind
      <4> QED
        BY <2>2, <2>7, <4>2, <4>3, <4>4
    <3>2. Targeted(row, policy) = (row.said \in {"bot", "reply"})
      BY <3>1 DEF Targeted
    <3> QED
      BY <1>3, <2>5, <2>6, <2>7, <3>2 DEF HostDecides
  <2>8. CASE ~(Explicit(t) \/ ~Scored(r) \/ PriorBot(t) < 0)
    <3>1. row.kind = IF PriorBot(t) = 0 THEN "early" ELSE "scored"
      <4>1. row.kind = Kind(a, t)
        OBVIOUS
      <4>2. ~Explicit(t) /\ a.hasTrace /\ a.total # {} /\ PriorBot(t) # -1
        BY <2>2, <2>4, <2>8
      <4> QED
        BY <4>1, <4>2 DEF Kind
    <3>2. CASE PriorBot(t) = 0
      <4>1. Targeted(row, policy) = FALSE
        BY <3>1, <3>2 DEF Targeted
      <4>2. HostDecides(a, t, policy) = FALSE
        BY <4>1 DEF HostDecides
      <4>3. Decide(r, policy) = (PriorBot(t) = 1 /\ t.total >= Normalize(policy).strong)
        BY <2>5, <2>8
      <4>4. PriorBot(t) # 1
        BY <3>2
      <4>5. Decide(r, policy) = FALSE
        BY <4>3, <4>4, Zenon
      <4> QED
        BY <4>2, <4>5
    <3>3. CASE PriorBot(t) = 1
      BY <2>5, <2>8, <3>1, <3>3 DEF HostDecides, Targeted
    <3> QED
      BY <2>4, <2>8, <3>2, <3>3
  <2> QED
    BY <2>7, <2>8
<1>5. ASSUME NEW r \in RowsFor(m), r.task \in {"recipient", "reply"}
      PROVE  (r.said \in {"bot", "reply"}) = HostDecided(t, r.task)
  <2>1. CASE r.task = "recipient"
    <3>1. r.said = Recipient(t.targeted)
      BY <1>2, <1>3, <2>1, KindOfTask DEF IsRecipient, RecipientRow, RowOf
    <3> QED
      BY <1>3, <2>1, <3>1 DEF Recipient, HostDecided
  <2>2. CASE r.task = "reply"
    <3>1. r.said = Reply(t.level = "strong" \/ (Explicit(t) /\ t.targeted))
      BY <1>2, <1>3, <2>2, KindOfTask DEF IsReply, ReplyRow, RowOf, Replied
    <3> QED
      BY <1>3, <2>2, <3>1 DEF Reply, HostDecided
  <2> QED
    BY <1>5, <2>1, <2>2
<1>6. ASSUME NEW r \in RowsFor(m), r.task \in {"recipient", "reply"}
      PROVE  Decide(r, policy) # (r.said \in {"bot", "reply"})
                <=> HostDecides(a, t, policy) # HostDecided(t, r.task)
  BY <1>4, <1>5, <1>6
<1>7. Mismatched(RowsFor(m), policy) =
         {r \in RowsFor(m) : /\ r.task \in {"recipient", "reply"} /\ ~Excluded(r)
                             /\ HostDecides(a, t, policy) # HostDecided(t, r.task)}
  BY <1>6 DEF Mismatched
<1> QED
  BY <1>7 DEF a, t

\* When the host writes only evidence codes the plugin has a name for, the
\* rows reported as not reproduced are those it decided otherwise than the
\* policy decides its own record, in either storage mode.
THEOREM ReplaysAreOfTurns == ASSUME KnownTurns PROVE RecordsSpec => []ReplayIsOfTheTurn
<1>1. Inv => ReplayIsOfTheTurn
  BY ReplayFollows
<1> QED
  BY <1>1, RecordsInvariant, PTL

(***************************************************************************)
(* What a threshold can move                                               *)
(***************************************************************************)
Moves(r) ==
    IF r.task = "topic"
    THEN Cardinality({ReplayLabel(PairRow(r), p.commit) : p \in Policies}) > 1
    ELSE ~Excluded(r) /\ Cardinality({Decide(r, p) : p \in Policies}) > 1
Moved(task) == {r \in OfRows(task, disk) : Moves(r)}

LEMMA MovedIsEligible ==
    ASSUME Inv, NEW r \in disk, r.task # "topic", Moves(r)
    PROVE  Standing(r) = "eligible"
<1> DEFINE a == seen[r.msg]
<1> DEFINE t == TraceOf(a)
<1> DEFINE u == ReplayTrace(r)
<1>1. a \in Annotation /\ ReadsAs(r, r.msg, a)
  BY StoredRow DEF Inv
<1>2. PICK raw \in BOOLEAN : r \in SamplesOf(r.msg, a, raw)
  BY StoredRow DEF Inv
<1>3. r.feats.explicit = Explicit(t) /\ r.feats.prior = PriorBot(t)
  BY <1>1 DEF ReadsAs, Features
<1>4. (Explicit(t) => Explicit(u)) /\ (PriorBot(t) = 0 => PriorBot(u) = 0)
  BY <1>1, <1>2, ReplayedKind
<1> DEFINE decided == {Decide(r, p) : p \in Policies}
<1>5. ~Excluded(r) /\ Cardinality(decided) > 1
  BY DEF Moves
<1>6. ASSUME Explicit(t) PROVE FALSE
  <2>1. \A p \in Policies : Decide(r, p) = u.targeted
    BY <1>4, <1>6 DEF Decide
  <2>2. decided \subseteq {u.targeted}
    BY <2>1
  <2> HIDE DEF decided
  <2> QED
    BY <1>5, <2>2, Few
<1>7. ASSUME ~Explicit(t), PriorBot(t) = 0 PROVE FALSE
  <2> DEFINE keeps == Explicit(u) \/ ~Scored(r) \/ PriorBot(u) < 0
  <2>1. PriorBot(u) # 1
    BY <1>4, <1>7
  <2>2. CASE keeps
    <3>1. \A p \in Policies : Decide(r, p) = u.targeted
      BY <2>2 DEF Decide
    <3>2. decided \subseteq {u.targeted}
      BY <3>1
    <3> HIDE DEF decided
    <3> QED
      BY <1>5, <3>2, Few
  <2>3. CASE ~keeps
    <3>1. ASSUME NEW p \in Policies PROVE Decide(r, p) = FALSE
      <4>1. Decide(r, p) = (PriorBot(u) = 1 /\ u.total >= Normalize(p).strong)
        BY <2>3 DEF Decide
      <4> QED
        BY <2>1, <4>1, Zenon
    <3>2. decided \subseteq {FALSE}
      BY <3>1
    <3> HIDE DEF decided
    <3> QED
      BY <1>5, <3>2, Few
  <2> QED
    BY <2>2, <2>3
<1>8. ~Explicit(t) /\ PriorBot(t) # 0
  BY <1>6, <1>7
<1>9. PriorBot(t) \in {-1, 0, 1}
  BY DEF PriorBot
<1> HIDE DEF t, decided
<1> QED
  BY <1>3, <1>5, <1>8, <1>9 DEF Standing, Excluded

LEMMA MovedTopics ==
    ASSUME NEW r, r.task = "topic", Moves(r)
    PROVE  CanMove(PairRow(r))
<1> DEFINE pair == PairRow(r)
<1> DEFINE labels == {ReplayLabel(pair, p.commit) : p \in Policies}
<1>1. Cardinality(labels) > 1
  BY DEF Moves
<1> HIDE DEF pair
<1>2. ASSUME ~CanMove(pair) PROVE \A p \in Policies : ReplayLabel(pair, p.commit) = ""
  BY <1>2 DEF CanMove, ReplayLabel
<1>3. ASSUME ~CanMove(pair) PROVE FALSE
  <2>1. labels \subseteq {""}
    BY <1>2, <1>3
  <2> HIDE DEF labels
  <2> QED
    BY <1>1, <2>1, Few
<1> QED
  BY <1>3 DEF pair

LEMMA MovesFollow == Inv => OnlyEligibleMove
<1> SUFFICES ASSUME Inv PROVE OnlyEligibleMove
  OBVIOUS
<1> DEFINE able(task) == {r \in OfRows(task, disk) : Standing(r) = "eligible"}
<1> DEFINE movable == {r \in OfRows("topic", disk) : CanMove(PairRow(r))}
<1>1. \A r \in Moved("recipient") \cup Moved("reply") : Standing(r) = "eligible"
  BY MovedIsEligible DEF Moved, OfRows
<1>2. Moved("recipient") \subseteq able("recipient") /\ Moved("reply") \subseteq able("reply")
  BY <1>1 DEF Moved
<1>3. Moved("topic") \subseteq movable
  BY MovedTopics DEF Moved, OfRows
<1>4. IsFiniteSet(able("recipient")) /\ IsFiniteSet(able("reply")) /\ IsFiniteSet(movable)
  <2>1. able("recipient") \subseteq disk /\ able("reply") \subseteq disk /\ movable \subseteq disk
    BY DEF OfRows
  <2> HIDE DEF able, movable
  <2> QED
    BY <2>1, DiskKeyed, FS_Subset
<1>5. /\ Capabilities(disk).recipient_replay.eligible = Cardinality(able("recipient"))
      /\ Capabilities(disk).reply_admission_replay.eligible = Cardinality(able("reply"))
      /\ Capabilities(disk).topic_threshold_replay.eligible = Cardinality(movable)
  BY DEF Capabilities, ReplayHealth, Health
<1> HIDE DEF able, movable
<1>6. /\ Cardinality(Moved("recipient")) <= Cardinality(able("recipient"))
      /\ Cardinality(Moved("reply")) <= Cardinality(able("reply"))
      /\ Cardinality(Moved("topic")) <= Cardinality(movable)
  BY <1>2, <1>3, <1>4, FS_Subset
<1> QED
  BY <1>1, <1>5, <1>6 DEF OnlyEligibleMove, Moved, Moves

\* A row that any two policies treat differently is one the capability matrix
\* counts as movable, so no replay moves more rows than the matrix says.
THEOREM OnlyEligible == RecordsSpec => []OnlyEligibleMove
  BY RecordsInvariant, MovesFollow, PTL

(***************************************************************************)
(* What is read back                                                       *)
(***************************************************************************)
SameReading(r, q) ==
    /\ r.msg = q.msg /\ r.task = q.task /\ r.said = q.said /\ r.expected = q.expected
    /\ r.error = q.error /\ r.at = q.at
    /\ OutcomeOf(r) = OutcomeOf(q) /\ ShadowOf(r) = ShadowOf(q) /\ Scored(r) = Scored(q)
    /\ DegradedRow(r) = DegradedRow(q) /\ r.trace.source_schema = q.trace.source_schema
    /\ r.task = "reply" => Supervised(r) = Supervised(q)
    /\ r.task = "topic" => /\ CandidatesOf(r) = CandidatesOf(q)
                           /\ EvidenceOf(r) = EvidenceOf(q) /\ SelectedOf(r) = SelectedOf(q)

LEMMA SavedFields ==
    ASSUME NEW m, NEW a \in Annotation, NEW raw \in BOOLEAN, NEW r \in SamplesOf(m, a, raw)
    PROVE  LET q == Saved(r, FALSE)
           IN  r.said = q.said /\ r.expected = q.expected /\ r.error = q.error
<1>1. {"said", "expected", "error"} \subseteq DOMAIN r
  <2>1. CASE IsRecipient(m, a, raw, r)
    BY <2>1 DEF IsRecipient, RecipientRow, RowOf
  <2>2. CASE IsTopic(m, a, raw, r)
    BY <2>2 DEF IsTopic, TopicRow, RowOf
  <2>3. CASE IsReply(m, a, raw, r)
    BY <2>3 DEF IsReply, ReplyRow, RowOf
  <2>4. CASE IsOutcome(m, a, raw, r)
    BY <2>4 DEF IsOutcome, OutcomeRow, RowOf
  <2> QED
    BY <2>1, <2>2, <2>3, <2>4, Kinds
<1> QED
  BY <1>1 DEF Saved

\* Without the raw trace a row reads as with it.
LEMMA SavedReads ==
    ASSUME NEW m, NEW a \in Annotation, NEW raw \in BOOLEAN, NEW r \in SamplesOf(m, a, raw)
    PROVE  SameReading(r, Saved(r, FALSE))
<1> DEFINE q == Saved(r, FALSE)
<1>1. q \in SamplesOf(m, a, FALSE) /\ q.task = r.task
  BY SavedIsSample
<1>2. r.said = q.said /\ r.expected = q.expected /\ r.error = q.error
  BY SavedFields
<1> HIDE DEF q
<1>3. ReadsAs(r, m, a) /\ ReadsAs(q, m, a)
  BY <1>1, SampleReads
<1>4. ASSUME r.task = "reply" PROVE Supervised(r) = Supervised(q)
  <2>1. IsReply(m, a, raw, r) /\ IsReply(m, a, FALSE, q)
    BY <1>1, <1>4, KindOfTask
  <2> QED
    BY <2>1, ReplyReads DEF IsReply
<1>5. ASSUME r.task = "topic" PROVE CandidatesOf(r) = CandidatesOf(q) /\ SelectedOf(r) = SelectedOf(q)
  <2>1. IsTopic(m, a, raw, r) /\ IsTopic(m, a, FALSE, q)
    BY <1>1, <1>5, KindOfTask
  <2>2. r = TopicRow(m, a, raw) /\ q = TopicRow(m, a, FALSE)
    BY <2>1 DEF IsTopic
  <2> QED
    BY <2>2, TopicReads
<1> QED
  BY <1>1, <1>2, <1>3, <1>4, <1>5 DEF SameReading, ReadsAs, q

LEMMA SameView ==
    ASSUME NEW r, NEW q, SameReading(r, q)
    PROVE  View(r) = View(q)
<1> DEFINE supervised(x) == {Supervised(y) : y \in OfRows("reply", {x})}
<1> DEFINE listed(x) == {[cands |-> CandidatesOf(y), evidence |-> EvidenceOf(y), selected |-> SelectedOf(y)] :
                            y \in OfRows("topic", {x})}
<1>1. supervised(r) = supervised(q)
  BY DEF SameReading, OfRows
<1>2. listed(r) = listed(q)
  <2>1. CASE r.task = "topic"
    <3>1. listed(r) = {[cands |-> CandidatesOf(r), evidence |-> EvidenceOf(r), selected |-> SelectedOf(r)]}
      BY <2>1 DEF OfRows
    <3>2. listed(q) = {[cands |-> CandidatesOf(q), evidence |-> EvidenceOf(q), selected |-> SelectedOf(q)]}
      BY <2>1 DEF OfRows, SameReading
    <3> QED
      BY <2>1, <3>1, <3>2 DEF SameReading
  <2>2. CASE r.task # "topic"
    BY <2>2 DEF OfRows, SameReading
  <2> QED
    BY <2>1, <2>2
<1> HIDE DEF supervised, listed
<1>3. \A x : View(x) =
          [task |-> x.task, said |-> x.said, expected |-> x.expected, error |-> x.error, at |-> x.at,
           outcome |-> OutcomeOf(x), shadow |-> ShadowOf(x), scored |-> Scored(x),
           degraded |-> DegradedRow(x), schema |-> x.trace.source_schema,
           supervised |-> supervised(x), listed |-> listed(x)]
  BY DEF View, supervised, listed
<1> QED
  BY <1>1, <1>2, <1>3 DEF SameReading

ToldInFull == RowsOf(seen, TRUE)

\* The stored rows and what they would be with the whole trace.
LEMMA ToldRows ==
    ASSUME Inv
    PROVE  /\ \A m \in DOMAIN seen : {q \in ToldInFull : q.msg = m} = SamplesOf(m, seen[m], TRUE)
           /\ \A q \in ToldInFull : q.msg \in DOMAIN seen /\ q \in SamplesOf(q.msg, seen[q.msg], TRUE)
           /\ \A m \in DOMAIN seen : seen[m] \in Annotation
<1>1. \A m \in DOMAIN seen : seen[m] \in Annotation
  BY DEF Inv, Typed
<1> QED
  BY <1>1, ImportedRows, RowsOfRecords DEF ToldInFull

LEMMA Counterparts ==
    ASSUME Inv
    PROVE  /\ \A r \in disk : \E q \in ToldInFull : SameReading(r, q)
           /\ \A q \in ToldInFull : \E r \in disk : SameReading(r, q)
<1>1. ASSUME NEW m \in DOMAIN seen
      PROVE  /\ \A r \in RowsFor(m) : \E q \in SamplesOf(m, seen[m], TRUE) : SameReading(r, q)
             /\ \A q \in SamplesOf(m, seen[m], TRUE) : \E r \in RowsFor(m) : SameReading(r, q)
  <2> DEFINE a == seen[m]
  <2>1. a \in Annotation
    BY ToldRows
  <2>2. PICK raw \in BOOLEAN : RowsFor(m) = SamplesOf(m, a, raw)
    BY DEF Inv, Stored
  <2> HIDE DEF a
  <2>3. CASE raw = TRUE
    <3>1. \A r : SameReading(r, r)
      BY DEF SameReading
    <3> QED
      BY <2>2, <2>3, <3>1 DEF a
  <2>4. CASE raw = FALSE
    <3>1. ASSUME NEW r \in SamplesOf(m, a, FALSE)
          PROVE  \E q \in SamplesOf(m, a, TRUE) : SameReading(r, q)
      <4>1. PICK q \in SamplesOf(m, a, TRUE) : r = Saved(q, FALSE)
        BY <2>1, EverySaved
      <4>2. SameReading(q, r)
        BY <2>1, <4>1, SavedReads
      <4> QED
        BY <4>2 DEF SameReading
    <3>2. ASSUME NEW q \in SamplesOf(m, a, TRUE)
          PROVE  \E r \in SamplesOf(m, a, FALSE) : SameReading(r, q)
      <4>1. Saved(q, FALSE) \in SamplesOf(m, a, FALSE) /\ SameReading(q, Saved(q, FALSE))
        BY <2>1, SavedIsSample, SavedReads
      <4> QED
        BY <4>1 DEF SameReading
    <3> QED
      BY <2>2, <2>4, <3>1, <3>2 DEF a
  <2> QED
    BY <2>3, <2>4
<1>2. ASSUME NEW r \in disk PROVE \E q \in ToldInFull : SameReading(r, q)
  <2>1. r.msg \in DOMAIN seen /\ r \in RowsFor(r.msg)
    BY StoredRow DEF Inv, RowsFor
  <2>2. PICK q \in SamplesOf(r.msg, seen[r.msg], TRUE) : SameReading(r, q)
    BY <1>1, <2>1
  <2> QED
    BY <2>1, <2>2, ToldRows
<1>3. ASSUME NEW q \in ToldInFull PROVE \E r \in disk : SameReading(r, q)
  <2>1. q.msg \in DOMAIN seen /\ q \in SamplesOf(q.msg, seen[q.msg], TRUE)
    BY ToldRows
  <2> QED
    BY <1>1, <2>1 DEF RowsFor
<1> QED
  BY <1>2, <1>3

LEMMA ToldKeyed == ASSUME Inv PROVE Keyed(ToldInFull) /\ IsFiniteSet(ToldInFull)
<1>1. ASSUME NEW r \in ToldInFull, NEW q \in ToldInFull, r.msg = q.msg, r.task = q.task
      PROVE  r = q
  <2> DEFINE m == r.msg
  <2>1. m \in DOMAIN seen /\ seen[m] \in Annotation
        /\ r \in SamplesOf(m, seen[m], TRUE) /\ q \in SamplesOf(m, seen[m], TRUE)
    BY <1>1, ToldRows
  <2> QED
    BY <1>1, <2>1, OneRowPerTask
<1>2. ASSUME NEW r \in ToldInFull PROVE r.msg \in Messages /\ r.task \in Tasks
  BY ToldRows, KindOfTask DEF Inv, Typed, Tasks
<1>3. Keyed(ToldInFull)
  BY <1>1 DEF Keyed
<1> QED
  BY <1>2, <1>3, KeyedFinite

\* Rows that are told apart alike are equally many.
LEMMA AlikeCount ==
    ASSUME Inv, NEW S, NEW T, S \subseteq disk, T \subseteq ToldInFull,
           \A r \in disk : \A q \in ToldInFull : SameReading(r, q) => (r \in S <=> q \in T)
    PROVE  Cardinality(S) = Cardinality(T)
<1>1. Keyed(S) /\ Keyed(T) /\ IsFiniteSet(T)
  BY DiskKeyed, ToldKeyed, FS_Subset DEF Keyed
<1>2. \A r \in S : \E q \in T : Key(r) = Key(q)
  BY Counterparts DEF SameReading, Key
<1>3. \A q \in T : \E r \in S : Key(r) = Key(q)
  BY Counterparts DEF SameReading, Key
<1> QED
  BY <1>1, <1>2, <1>3, SameCount

LEMMA GateCounts ==
    ASSUME Inv
    PROVE  /\ Cardinality(disk) = Cardinality(ToldInFull)
           /\ Cardinality({r \in disk : DegradedRow(r)}) = Cardinality({r \in ToldInFull : DegradedRow(r)})
           /\ \A task : /\ Cardinality(OfRows(task, disk)) = Cardinality(OfRows(task, ToldInFull))
                        /\ Cardinality({r \in OfRows(task, disk) : r.expected \in {"reply", "bot"}})
                              = Cardinality({r \in OfRows(task, ToldInFull) : r.expected \in {"reply", "bot"}})
                        /\ Cardinality({r \in OfRows(task, disk) : r.expected \notin {"reply", "bot"}})
                              = Cardinality({r \in OfRows(task, ToldInFull) : r.expected \notin {"reply", "bot"}})
                        /\ Cardinality({r \in OfRows(task, disk) : OutcomeOf(r) # {}})
                              = Cardinality({r \in OfRows(task, ToldInFull) : OutcomeOf(r) # {}})
           /\ Cardinality({r \in OfRows("topic", disk) : CandidatesOf(r) # {}})
                 = Cardinality({r \in OfRows("topic", ToldInFull) : CandidatesOf(r) # {}})
<1>1. Cardinality(disk) = Cardinality(ToldInFull)
  BY AlikeCount
<1>2. Cardinality({r \in disk : DegradedRow(r)}) = Cardinality({r \in ToldInFull : DegradedRow(r)})
  <2> DEFINE S == {r \in disk : DegradedRow(r)}
  <2> DEFINE T == {r \in ToldInFull : DegradedRow(r)}
  <2>1. \A r \in disk : \A q \in ToldInFull : SameReading(r, q) => (r \in S <=> q \in T)
    BY DEF SameReading
  <2>2. S \subseteq disk /\ T \subseteq ToldInFull
    OBVIOUS
  <2> HIDE DEF S, T
  <2>3. Cardinality(S) = Cardinality(T)
    BY <2>1, <2>2, AlikeCount
  <2> QED
    BY <2>3 DEF S, T
<1>3. ASSUME NEW task PROVE Cardinality(OfRows(task, disk)) = Cardinality(OfRows(task, ToldInFull))
  <2>1. \A r \in disk : \A q \in ToldInFull :
           SameReading(r, q) => (r \in OfRows(task, disk) <=> q \in OfRows(task, ToldInFull))
    BY DEF SameReading, OfRows
  <2>2. OfRows(task, disk) \subseteq disk /\ OfRows(task, ToldInFull) \subseteq ToldInFull
    BY DEF OfRows
  <2> QED
    BY <2>1, <2>2, AlikeCount
<1>4. ASSUME NEW task
      PROVE  Cardinality({r \in OfRows(task, disk) : r.expected \in {"reply", "bot"}})
                = Cardinality({r \in OfRows(task, ToldInFull) : r.expected \in {"reply", "bot"}})
  <2> DEFINE S == {r \in OfRows(task, disk) : r.expected \in {"reply", "bot"}}
  <2> DEFINE T == {r \in OfRows(task, ToldInFull) : r.expected \in {"reply", "bot"}}
  <2>1. \A r \in disk : \A q \in ToldInFull : SameReading(r, q) => (r \in S <=> q \in T)
    BY DEF SameReading, OfRows
  <2>2. S \subseteq disk /\ T \subseteq ToldInFull
    BY DEF OfRows
  <2> HIDE DEF S, T
  <2>3. Cardinality(S) = Cardinality(T)
    BY <2>1, <2>2, AlikeCount
  <2> QED
    BY <2>3 DEF S, T
<1>5. ASSUME NEW task
      PROVE  Cardinality({r \in OfRows(task, disk) : r.expected \notin {"reply", "bot"}})
                = Cardinality({r \in OfRows(task, ToldInFull) : r.expected \notin {"reply", "bot"}})
  <2> DEFINE S == {r \in OfRows(task, disk) : r.expected \notin {"reply", "bot"}}
  <2> DEFINE T == {r \in OfRows(task, ToldInFull) : r.expected \notin {"reply", "bot"}}
  <2>1. \A r \in disk : \A q \in ToldInFull : SameReading(r, q) => (r \in S <=> q \in T)
    BY DEF SameReading, OfRows
  <2>2. S \subseteq disk /\ T \subseteq ToldInFull
    BY DEF OfRows
  <2> HIDE DEF S, T
  <2>3. Cardinality(S) = Cardinality(T)
    BY <2>1, <2>2, AlikeCount
  <2> QED
    BY <2>3 DEF S, T
<1>6. ASSUME NEW task
      PROVE  Cardinality({r \in OfRows(task, disk) : OutcomeOf(r) # {}})
                = Cardinality({r \in OfRows(task, ToldInFull) : OutcomeOf(r) # {}})
  <2> DEFINE S == {r \in OfRows(task, disk) : OutcomeOf(r) # {}}
  <2> DEFINE T == {r \in OfRows(task, ToldInFull) : OutcomeOf(r) # {}}
  <2>1. \A r \in disk : \A q \in ToldInFull : SameReading(r, q) => (r \in S <=> q \in T)
    BY DEF SameReading, OfRows
  <2>2. S \subseteq disk /\ T \subseteq ToldInFull
    BY DEF OfRows
  <2> HIDE DEF S, T
  <2>3. Cardinality(S) = Cardinality(T)
    BY <2>1, <2>2, AlikeCount
  <2> QED
    BY <2>3 DEF S, T
<1>7. Cardinality({r \in OfRows("topic", disk) : CandidatesOf(r) # {}})
         = Cardinality({r \in OfRows("topic", ToldInFull) : CandidatesOf(r) # {}})
  <2> DEFINE S == {r \in OfRows("topic", disk) : CandidatesOf(r) # {}}
  <2> DEFINE T == {r \in OfRows("topic", ToldInFull) : CandidatesOf(r) # {}}
  <2>1. \A r \in disk : \A q \in ToldInFull : SameReading(r, q) => (r \in S <=> q \in T)
    BY DEF SameReading, OfRows
  <2>2. S \subseteq disk /\ T \subseteq ToldInFull
    BY DEF OfRows
  <2> HIDE DEF S, T
  <2>3. Cardinality(S) = Cardinality(T)
    BY <2>1, <2>2, AlikeCount
  <2> QED
    BY <2>3 DEF S, T
<1> QED
  BY <1>1, <1>2, <1>3, <1>4, <1>5, <1>6, <1>7

LEMMA SameWarnings == Inv => GateWarnings(disk) = GateWarnings(ToldInFull)
<1> SUFFICES ASSUME Inv PROVE GateWarnings(disk) = GateWarnings(ToldInFull)
  OBVIOUS
<1> DEFINE wanted(all) == {r \in all : r.expected \in {"reply", "bot"}}
<1> DEFINE lopsided(all) == \/ Under(wanted(all), all, MinPositive)
                            \/ Under(all \ wanted(all), all, MinPositive)
<1> DEFINE degraded(rows) == {r \in rows : DegradedRow(r)}
<1> DEFINE listed(rows) == {r \in OfRows("topic", rows) : CandidatesOf(r) # {}}
<1> DEFINE ended(rows) == {r \in OfRows("reply", rows) : OutcomeOf(r) # {}}
<1>1. \A all : all \ wanted(all) = {r \in all : r.expected \notin {"reply", "bot"}}
  OBVIOUS
<1>2. \A task : lopsided(OfRows(task, disk)) = lopsided(OfRows(task, ToldInFull))
  <2> TAKE task
  <2> DEFINE A == OfRows(task, disk)
  <2> DEFINE B == OfRows(task, ToldInFull)
  <2>1. Cardinality(A) = Cardinality(B) /\ Cardinality(wanted(A)) = Cardinality(wanted(B))
    BY GateCounts
  <2>2. Cardinality(A \ wanted(A)) = Cardinality(B \ wanted(B))
    BY <1>1, GateCounts
  <2> HIDE DEF A, B, wanted
  <2>3. lopsided(A) = lopsided(B)
    BY <2>1, <2>2 DEF Under
  <2> QED
    BY <2>3 DEF A, B
<1>3. Over(degraded(disk), disk, MaxDegraded) = Over(degraded(ToldInFull), ToldInFull, MaxDegraded)
  BY GateCounts DEF Over
<1>4. Under(listed(disk), OfRows("topic", disk), 70)
         = Under(listed(ToldInFull), OfRows("topic", ToldInFull), 70)
  BY GateCounts DEF Under
<1>5. Under(ended(disk), OfRows("reply", disk), 50)
         = Under(ended(ToldInFull), OfRows("reply", ToldInFull), 50)
  BY GateCounts DEF Under
<1>6. \A rows : GateWarnings(rows) =
         {w \in {"balance"} : \E task \in {"recipient", "reply", "reply_outcome"} :
                                  lopsided(OfRows(task, rows))}
         \cup {w \in {"degraded"} : Over(degraded(rows), rows, MaxDegraded)}
         \cup {w \in {"candidate_coverage"} : Under(listed(rows), OfRows("topic", rows), 70)}
         \cup {w \in {"outcome_coverage"} : Under(ended(rows), OfRows("reply", rows), 50)}
  BY DEF GateWarnings
<1> HIDE DEF lopsided, degraded, listed, ended
<1> QED
  BY <1>2, <1>3, <1>4, <1>5, <1>6

LEMMA ReadingFollows == Inv => LastImportStands
<1> SUFFICES ASSUME Inv PROVE LastImportStands
  OBVIOUS
<1>1. ASSUME NEW m \in DOMAIN seen
      PROVE  {View(r) : r \in RowsFor(m)} = {View(r) : r \in {q \in ToldInFull : q.msg = m}}
  <2> DEFINE told == {q \in ToldInFull : q.msg = m}
  <2>1. \A r \in RowsFor(m) : \E q \in told : View(r) = View(q)
    <3> TAKE r \in RowsFor(m)
    <3>1. r \in disk /\ r.msg = m
      BY DEF RowsFor
    <3>2. PICK q \in ToldInFull : SameReading(r, q)
      BY <3>1, Counterparts
    <3> QED
      BY <3>1, <3>2, SameView DEF SameReading
  <2>2. \A q \in told : \E r \in RowsFor(m) : View(r) = View(q)
    <3> TAKE q \in told
    <3>1. PICK r \in disk : SameReading(r, q)
      BY Counterparts
    <3> QED
      BY <3>1, SameView DEF SameReading, RowsFor
  <2> HIDE DEF told
  <2>3. {View(r) : r \in RowsFor(m)} = {View(r) : r \in told}
    BY <2>1, <2>2
  <2> QED
    BY <2>3 DEF told
<1> QED
  BY <1>1, SameWarnings DEF LastImportStands, ToldInFull

\* The rows of a message read as its last imported record says stored in full,
\* and the dataset gate warns of the same, whatever storage modes, merges and
\* relabellings the store went through.
THEOREM ImportsStand == RecordsSpec => []LastImportStands
  BY RecordsInvariant, ReadingFollows, PTL

(***************************************************************************)
(* The two planes of the quality report                                    *)
(***************************************************************************)
LEMMA Counted ==
    ASSUME Inv
    PROVE  LET counts == Observed(Only(seen, latest))
           IN  /\ counts.kept = Cardinality(latest)
               /\ counts.admission_undecided = Cardinality({m \in latest : Undecided(seen[m])})
               /\ counts.outcome_present = Cardinality({m \in latest : TraceOf(seen[m]).outcome # {}})
               /\ counts.candidates_missing = Cardinality({m \in latest : Listed(seen[m]) = {}})
<1> DEFINE batch == Only(seen, latest)
<1>1. DOMAIN batch = latest /\ \A m \in latest : batch[m] = seen[m]
  BY DEF Only, Inv, Typed
<1> HIDE DEF batch
<1>2. /\ Observed(batch).kept = Cardinality(DOMAIN batch)
      /\ Observed(batch).admission_undecided = Cardinality({m \in DOMAIN batch : Undecided(batch[m])})
      /\ Observed(batch).outcome_present
            = Cardinality({m \in DOMAIN batch : TraceOf(batch[m]).outcome # {}})
      /\ Observed(batch).candidates_missing = Cardinality({m \in DOMAIN batch : Listed(batch[m]) = {}})
  BY DEF Observed
<1>3. /\ {m \in DOMAIN batch : Undecided(batch[m])} = {m \in latest : Undecided(seen[m])}
      /\ {m \in DOMAIN batch : TraceOf(batch[m]).outcome # {}}
            = {m \in latest : TraceOf(seen[m]).outcome # {}}
      /\ {m \in DOMAIN batch : Listed(batch[m]) = {}} = {m \in latest : Listed(seen[m]) = {}}
  BY <1>1
<1> QED
  BY <1>1, <1>2, <1>3 DEF batch

\* Rows of one task are as many as their messages.
LEMMA RowsByMessage ==
    ASSUME Inv, NEW task, NEW S, S \subseteq OfRows(task, disk), NEW T, IsFiniteSet(T),
           \A r \in S : r.msg \in T
    PROVE  /\ Cardinality(S) <= Cardinality(T)
           /\ (\A m \in T : \E r \in S : r.msg = m) => Cardinality(S) = Cardinality(T)
<1> DEFINE f == [r \in S |-> r.msg]
<1>1. f \in [S -> T]
  OBVIOUS
<1>2. \A r, q \in S : f[r] = f[q] => r = q
  BY RowKeys DEF OfRows
<1>3. (\A m \in T : \E r \in S : r.msg = m) => \A m \in T : \E r \in S : f[r] = m
  OBVIOUS
<1> HIDE DEF f
<1> QED
  BY <1>1, <1>2, <1>3, Inject

LEMMA LatestFinite == ASSUME Inv PROVE IsFiniteSet(latest)
BY RecordsAssumption, FS_Subset DEF Inv, Typed

\* A listed candidate is one that was read.
LEMMA ListedCandidates ==
    ASSUME NEW a \in Annotation, TraceOf(a).cands # {}
    PROVE  Listed(a) # {}
<1> DEFINE list == IF a.hasTrace /\ Candidates(a.lists.trace) # {} THEN a.lists.trace
                   ELSE a.lists.routing
<1>1. TraceOf(a).cands = Candidates(list)
  BY DEF TraceOf
<1>2. list.kind = "list"
  BY <1>1 DEF Candidates
<1>3. CASE a.hasTrace /\ Candidates(a.lists.trace) # {}
  BY <1>2, <1>3 DEF Listed
<1>4. CASE ~(a.hasTrace /\ Candidates(a.lists.trace) # {})
  BY <1>2, <1>4 DEF Listed
<1> QED
  BY <1>3, <1>4

\* A labelled turn has its admission row if and only if its decision is known.
LEMMA ReplyRowOf ==
    ASSUME Inv, NEW m \in DOMAIN seen
    PROVE  (\E r \in OfRows("reply", disk) : r.msg = m)
              <=> Wanted(seen[m]) # {} /\ AdmissionRecorded(TurnOf(m))
<1> DEFINE a == seen[m]
<1>1. a \in Annotation
  BY DEF Inv, Typed
<1>2. PICK raw \in BOOLEAN : RowsFor(m) = SamplesOf(m, a, raw)
  BY DEF Inv, Stored
<1>3. (\E r \in OfRows("reply", disk) : r.msg = m) <=> \E r \in RowsFor(m) : r.task = "reply"
  BY DEF OfRows, RowsFor
<1> HIDE DEF a
<1>4. ASSUME NEW r \in RowsFor(m), r.task = "reply"
      PROVE  Wanted(a) # {} /\ AdmissionRecorded(TraceOf(a))
  BY <1>2, <1>4, KindOfTask DEF IsReply
<1>5. ASSUME Wanted(a) # {}, AdmissionRecorded(TraceOf(a))
      PROVE  \E r \in RowsFor(m) : r.task = "reply"
  <2>1. PICK want : want \in Wanted(a)
    BY <1>5
  <2>2. IsReply(m, a, raw, ReplyRow(m, a, raw, want))
    BY <1>5, <2>1 DEF IsReply
  <2> QED
    BY <1>2, <2>2, Kinds, KindOfTask
<1> QED
  BY <1>3, <1>4, <1>5 DEF a, TurnOf

LEMMA PlanesFollow == Inv => PlanesAgree
<1> SUFFICES ASSUME Inv PROVE PlanesAgree
  OBVIOUS
<1> DEFINE labelled == {m \in latest : seen[m].labels.reply # {}}
<1> DEFINE undecided == {m \in latest : Undecided(seen[m])}
<1> DEFINE rows(task) == {r \in OfRows(task, disk) : r.msg \in latest}
<1> DEFINE decidedRows == {r \in rows("reply") : r.msg \in labelled}
<1> DEFINE decided == labelled \ undecided
<1> DEFINE missing == {m \in latest : Listed(seen[m]) = {}}
<1> DEFINE listedRows == {r \in rows("topic") : CandidatesOf(r) # {}}
<1> DEFINE ended == {m \in latest : TraceOf(seen[m]).outcome # {}}
<1> DEFINE endedRows == {r.msg : r \in {q \in disk : q.msg \in latest /\ OutcomeOf(q) # {}}}
<1>0. IsFiniteSet(latest) /\ latest \subseteq DOMAIN seen
  BY LatestFinite DEF Inv, Typed
<1>1. Cardinality(decidedRows) + Cardinality(undecided) = Cardinality(labelled)
  <2>1. undecided \subseteq labelled
    BY DEF Undecided
  <2>2. \A m \in labelled : m \in decided <=> AdmissionRecorded(TurnOf(m))
    BY DEF Undecided, TurnOf
  <2>3. decidedRows \subseteq OfRows("reply", disk) /\ \A r \in decidedRows : r.msg \in decided
    BY <1>0, <2>2, ReplyRowOf
  <2>4. \A m \in decided : \E r \in decidedRows : r.msg = m
    <3> TAKE m \in decided
    <3>1. Wanted(seen[m]) # {}
      BY DEF Wanted
    <3>2. \E r \in OfRows("reply", disk) : r.msg = m
      BY <1>0, <2>2, <3>1, ReplyRowOf
    <3> QED
      BY <3>2
  <2>5. IsFiniteSet(labelled) /\ IsFiniteSet(decided)
    BY <1>0, FS_Subset
  <2> HIDE DEF decidedRows, undecided, labelled
  <2>6. Cardinality(decidedRows) = Cardinality(decided)
    BY <2>3, <2>4, <2>5, RowsByMessage
  <2>7. Cardinality(decided) = Cardinality(labelled) - Cardinality(labelled \cap undecided)
    BY <2>5, FS_Difference
  <2>8. labelled \cap undecided = undecided
    BY <2>1
  <2>9. Cardinality(labelled) \in Nat /\ Cardinality(undecided) \in Nat
    BY <2>1, <2>5, FS_Subset, FS_CardinalityType
  <2> QED
    BY <2>6, <2>7, <2>8, <2>9
<1>2. Cardinality(endedRows) <= Cardinality(ended)
  <2>1. ASSUME NEW q \in disk, q.msg \in latest, OutcomeOf(q) # {}
        PROVE  TraceOf(seen[q.msg]).outcome # {}
    BY <2>1, StoredRow DEF Inv, ReadsAs
  <2>2. endedRows \subseteq ended
    BY <2>1
  <2>3. IsFiniteSet(ended)
    BY <1>0, FS_Subset
  <2> HIDE DEF ended, endedRows
  <2> QED
    BY <2>2, <2>3, FS_Subset
<1>3. Cardinality(listedRows) <= Cardinality(latest) - Cardinality(missing)
  <2> DEFINE listed == latest \ missing
  <2>1. ASSUME NEW r \in listedRows PROVE r.msg \in listed
    <3> DEFINE a == seen[r.msg]
    <3>1. r \in disk /\ r.task = "topic" /\ r.msg \in latest /\ CandidatesOf(r) # {}
      BY DEF OfRows
    <3>2. a \in Annotation
      BY <3>1, StoredRow DEF Inv
    <3>3. PICK raw \in BOOLEAN : r \in SamplesOf(r.msg, a, raw)
      BY <3>1, StoredRow DEF Inv
    <3>4. r = TopicRow(r.msg, a, raw)
      <4>1. IsTopic(r.msg, a, raw, r)
        BY <3>1, <3>3, KindOfTask
      <4> QED
        BY <4>1 DEF IsTopic
    <3>5. CandidatesOf(r) = TraceOf(a).cands
      BY <3>2, <3>4, TopicReads
    <3>6. Listed(a) # {}
      BY <3>1, <3>2, <3>5, ListedCandidates
    <3> QED
      BY <3>1, <3>6
  <2>2. listedRows \subseteq OfRows("topic", disk)
    OBVIOUS
  <2>3. IsFiniteSet(listed) /\ missing \subseteq latest
    BY <1>0, FS_Subset
  <2> HIDE DEF listedRows, missing
  <2>4. Cardinality(listedRows) <= Cardinality(listed)
    BY <2>1, <2>2, <2>3, RowsByMessage
  <2>5. Cardinality(listed) = Cardinality(latest) - Cardinality(latest \cap missing)
    BY <1>0, FS_Difference
  <2>6. latest \cap missing = missing
    BY <2>3
  <2> QED
    BY <2>4, <2>5, <2>6
<1>4. /\ Observed(Only(seen, latest)).kept = Cardinality(latest)
      /\ Observed(Only(seen, latest)).admission_undecided = Cardinality(undecided)
      /\ Observed(Only(seen, latest)).outcome_present = Cardinality(ended)
      /\ Observed(Only(seen, latest)).candidates_missing = Cardinality(missing)
  BY Counted
<1> QED
  BY <1>1, <1>2, <1>3, <1>4 DEF PlanesAgree

\* Of the records of the last import, each with a reply label has its
\* admission row or is counted as undecided, and no more outcomes or candidate
\* lists are found in rows than were counted raw.
THEOREM PlanesMeet == RecordsSpec => []PlanesAgree
  BY RecordsInvariant, PlanesFollow, PTL

(***************************************************************************)
(* The layer that is blamed                                                *)
(***************************************************************************)
Events == {"recipient_error", "topic_ranking_error", "topic_candidate_miss", "unattributable",
           "participation_error", "gate_suppression", "generation_failure", "delivery_failure"}
Names(found) == {found[i] : i \in DOMAIN found}

LEMMA NamesOfTwo ==
    ASSUME NEW s \in Seq(Events), NEW t \in Seq(Events)
    PROVE  /\ s \o t \in Seq(Events)
           /\ Names(s \o t) = Names(s) \cup Names(t)
           /\ s \o t = <<>> <=> s = <<>> /\ t = <<>>
<1> DEFINE u == s \o t
<1>1. /\ u \in Seq(Events) /\ Len(u) = Len(s) + Len(t) /\ Len(s) \in Nat /\ Len(t) \in Nat
      /\ \A i \in 1..Len(u) : u[i] = IF i <= Len(s) THEN s[i] ELSE t[i - Len(s)]
      /\ DOMAIN s = 1..Len(s) /\ DOMAIN t = 1..Len(t) /\ DOMAIN u = 1..Len(u)
  OBVIOUS
<1> HIDE DEF u
<1>2. \A i \in DOMAIN u : u[i] \in Names(s) \cup Names(t)
  <2> TAKE i \in DOMAIN u
  <2>1. CASE i <= Len(s)
    <3>1. i \in DOMAIN s /\ u[i] = s[i]
      BY <1>1, <2>1
    <3> QED
      BY <3>1 DEF Names
  <2>2. CASE ~(i <= Len(s))
    <3>1. i - Len(s) \in DOMAIN t /\ u[i] = t[i - Len(s)]
      BY <1>1, <2>2
    <3> QED
      BY <3>1 DEF Names
  <2> QED
    BY <2>1, <2>2
<1>3. \A i \in DOMAIN s : s[i] \in Names(u)
  <2> TAKE i \in DOMAIN s
  <2>1. i \in DOMAIN u /\ u[i] = s[i]
    BY <1>1
  <2> QED
    BY <2>1 DEF Names
<1>4. \A i \in DOMAIN t : t[i] \in Names(u)
  <2> TAKE i \in DOMAIN t
  <2>1. i + Len(s) \in DOMAIN u /\ u[i + Len(s)] = t[i]
    BY <1>1
  <2> QED
    BY <2>1 DEF Names
<1>5. Names(u) = Names(s) \cup Names(t)
  BY <1>2, <1>3, <1>4 DEF Names
<1>6. u = <<>> <=> s = <<>> /\ t = <<>>
  <2>1. (u = <<>> <=> Len(u) = 0) /\ (s = <<>> <=> Len(s) = 0) /\ (t = <<>> <=> Len(t) = 0)
    BY <1>1, EmptySeq
  <2> QED
    BY <1>1, <2>1
<1> QED
  BY <1>1, <1>5, <1>6 DEF u

LEMMA NamesOfOne ==
    /\ Names(<<>>) = {} /\ <<>> \in Seq(Events)
    /\ \A e \in Events : Names(<<e>>) = {e} /\ <<e>> \in Seq(Events) /\ <<e>> # <<>>
<1>1. Names(<<>>) = {}
  BY DEF Names
<1>2. ASSUME NEW e \in Events PROVE Names(<<e>>) = {e} /\ <<e>> \in Seq(Events) /\ <<e>> # <<>>
  <2>1. <<e>> \in Seq(Events) /\ Len(<<e>>) = 1 /\ <<e>>[1] = e /\ DOMAIN <<e>> = 1..1
    OBVIOUS
  <2>2. <<e>> # <<>>
    BY <2>1
  <2> QED
    BY <2>1, <2>2 DEF Names
<1> QED
  BY <1>1, <1>2

Refused(t) == t.level # "strong" /\ ~(Explicit(t) /\ t.targeted)

\* What Classify finds in the rows of a message.
LEMMA AdmissionRows ==
    ASSUME NEW m, NEW a \in Annotation, NEW raw \in BOOLEAN,
           NEW r \in OfRows("reply", SamplesOf(m, a, raw))
    PROVE  /\ AdmissionRecorded(TraceOf(a)) /\ \E want \in Wanted(a) : r.expected = Reply(want)
           /\ r.said = Reply(~Refused(TraceOf(a))) /\ Supervised(r) = Supervision(a, TraceOf(a))
<1>1. IsReply(m, a, raw, r)
  <2>1. r \in SamplesOf(m, a, raw) /\ r.task = "reply"
    BY DEF OfRows
  <2> QED
    BY <2>1, KindOfTask
<1>2. PICK want \in Wanted(a) : r = ReplyRow(m, a, raw, want)
  BY <1>1 DEF IsReply
<1>3. r.expected = Reply(want) /\ r.said = Replied(a)
  BY <1>2 DEF ReplyRow, RowOf
<1>4. Replied(a) = Reply(~Refused(TraceOf(a)))
  BY DEF Replied, Refused, Reply
<1> QED
  BY <1>1, <1>2, <1>3, <1>4, ReplyReads DEF IsReply

LEMMA TopicRowsRead ==
    ASSUME NEW m, NEW a \in Annotation, NEW raw \in BOOLEAN,
           NEW r \in OfRows("topic", SamplesOf(m, a, raw))
    PROVE  /\ r.msg = m /\ r.expected = TopicLabel(a.labels.topic, m)
           /\ CandidatesOf(r) = TraceOf(a).cands
<1>1. r = TopicRow(m, a, raw)
  <2>1. r \in SamplesOf(m, a, raw) /\ r.task = "topic"
    BY DEF OfRows
  <2>2. IsTopic(m, a, raw, r)
    BY <2>1, KindOfTask
  <2> QED
    BY <2>2 DEF IsTopic
<1> QED
  BY <1>1, TopicReads DEF TopicRow, RowOf

\* The links of the chain.
FirstLink(chain) ==
    IF \E r \in OfRows("recipient", chain) : r.said # r.expected THEN <<"recipient_error">> ELSE <<>>
SecondLink(chain) ==
    IF OfRows("topic", chain) = {} THEN <<>> ELSE TopicLink(The(OfRows("topic", chain)))
Wrong(chain) == {r \in OfRows("reply", chain) : Supervised(r) /\ r.said # r.expected}
ThirdLink(chain) == IF Wrong(chain) # {} THEN <<"participation_error">> ELSE <<>>
Final(chain) ==
    LET held == {o \in {OutcomeOf(r) : r \in chain} : o # {}}
    IN  IF held = {} THEN {} ELSE The(held)
Stopped(chain) == ExecutionLink(Final(chain), OfRows("reply", chain), Wrong(chain) = {})
LastLink(chain) ==
    IF Stopped(chain) = <<>> /\ \E r \in OfRows("reply", chain) : ~Supervised(r)
    THEN <<"unattributable">> ELSE Stopped(chain)

LEMMA Links ==
    ASSUME NEW chain
    PROVE  Classify(chain) = FirstLink(chain) \o SecondLink(chain) \o ThirdLink(chain) \o LastLink(chain)
<1> DEFINE execution == Stopped(chain)
<1>1. LastLink(chain) = IF execution = <<>> /\ \E r \in OfRows("reply", chain) : ~Supervised(r)
                        THEN <<"unattributable">> ELSE execution
  BY DEF LastLink
<1>2. Classify(chain) =
         FirstLink(chain) \o SecondLink(chain) \o ThirdLink(chain)
         \o (IF execution = <<>> /\ \E r \in OfRows("reply", chain) : ~Supervised(r)
             THEN <<"unattributable">> ELSE execution)
  BY DEF Classify, FirstLink, SecondLink, ThirdLink, Wrong, Stopped, Final
<1> HIDE DEF execution
<1> QED
  BY <1>1, <1>2

LEMMA FinalOfRows ==
    ASSUME NEW m, NEW a \in Annotation, NEW raw \in BOOLEAN
    PROVE  LET final == Final(SamplesOf(m, a, raw))
           IN  /\ final = {} \/ final = TraceOf(a).outcome
               /\ SamplesOf(m, a, raw) # {} => final = TraceOf(a).outcome
<1> DEFINE chain == SamplesOf(m, a, raw)
<1> DEFINE held == {o \in {OutcomeOf(r) : r \in chain} : o # {}}
<1>1. ASSUME NEW r \in chain PROVE OutcomeOf(r) = TraceOf(a).outcome
  <2>1. ReadsAs(r, m, a)
    BY SampleReads
  <2> QED
    BY <2>1 DEF ReadsAs
<1> HIDE DEF chain
<1>2. held \subseteq {TraceOf(a).outcome} /\ (held = {} => (chain = {} \/ TraceOf(a).outcome = {}))
  BY <1>1
<1>3. Final(chain) = IF held = {} THEN {} ELSE The(held)
  BY DEF Final
<1> HIDE DEF held
<1>4. held # {} => The(held) = TraceOf(a).outcome
  BY <1>2 DEF The
<1> QED
  BY <1>2, <1>3, <1>4 DEF chain

StageOf == [gate_suppression |-> "gate", generation_failure |-> "generation",
            delivery_failure |-> "delivery"]

LEMMA ExecutionNames ==
    ASSUME NEW final, AtMostOne(final), NEW admission, NEW admitted \in BOOLEAN
    PROVE  LET link == ExecutionLink(final, admission, admitted)
               open == admitted /\ \E r \in admission : r.expected # "silent"
           IN  /\ \/ link \in {<<>>, <<"unattributable">>}
                  \/ open /\ link = <<"gate_suppression">> /\ StoppedAt(final, "gate")
                  \/ open /\ link = <<"generation_failure">> /\ StoppedAt(final, "generation")
                  \/ open /\ link = <<"delivery_failure">> /\ StoppedAt(final, "delivery")
               /\ link = <<>> => final = {} \/ Delivered(final) \/ ~open
<1> DEFINE link == ExecutionLink(final, admission, admitted)
<1> DEFINE open == admitted /\ \E r \in admission : r.expected # "silent"
<1>0. <<"unattributable">> # <<>> /\ <<"gate_suppression">> # <<>>
      /\ <<"generation_failure">> # <<>> /\ <<"delivery_failure">> # <<>>
  BY NamesOfOne DEF Events
<1>1. CASE final = {}
  BY <1>1 DEF ExecutionLink
<1>2. CASE final # {} /\ Delivered(final)
  BY <1>2 DEF ExecutionLink
<1>3. CASE final # {} /\ ~Delivered(final) /\ ~open
  BY <1>3 DEF ExecutionLink
<1>4. CASE final # {} /\ ~Delivered(final) /\ open
  <2>1. link = CASE StoppedAt(final, "gate")       -> <<"gate_suppression">>
                 [] StoppedAt(final, "generation") -> <<"generation_failure">>
                 [] StoppedAt(final, "delivery")   -> <<"delivery_failure">>
                 [] OTHER                          -> <<"unattributable">>
    BY <1>4 DEF ExecutionLink
  <2>2. PICK o \in final : \A x \in final : x = o
    BY <1>4 DEF AtMostOne
  <2>3. \A stage : StoppedAt(final, stage) => o.stage = stage
    BY <2>2 DEF StoppedAt
  <2> HIDE DEF link, open
  <2>4. CASE StoppedAt(final, "gate")
    <3>1. ~StoppedAt(final, "generation") /\ ~StoppedAt(final, "delivery")
      BY <2>3, <2>4
    <3>2. link = <<"gate_suppression">>
      BY <2>1, <2>4, <3>1
    <3> QED
      BY <1>0, <1>4, <2>4, <3>2 DEF link, open
  <2>5. CASE StoppedAt(final, "generation")
    <3>1. ~StoppedAt(final, "gate") /\ ~StoppedAt(final, "delivery")
      BY <2>3, <2>5
    <3>2. link = <<"generation_failure">>
      BY <2>1, <2>5, <3>1
    <3> QED
      BY <1>0, <1>4, <2>5, <3>2 DEF link, open
  <2>6. CASE StoppedAt(final, "delivery")
    <3>1. ~StoppedAt(final, "gate") /\ ~StoppedAt(final, "generation")
      BY <2>3, <2>6
    <3>2. link = <<"delivery_failure">>
      BY <2>1, <2>6, <3>1
    <3> QED
      BY <1>0, <1>4, <2>6, <3>2 DEF link, open
  <2>7. CASE ~StoppedAt(final, "gate") /\ ~StoppedAt(final, "generation")
             /\ ~StoppedAt(final, "delivery")
    <3>1. link = <<"unattributable">>
      BY <2>1, <2>7
    <3> QED
      BY <1>0, <3>1 DEF link
  <2> QED
    BY <2>4, <2>5, <2>6, <2>7
<1> QED
  BY <1>1, <1>2, <1>3, <1>4

SystemEvents == {"gate_suppression", "generation_failure", "delivery_failure"}

\* The execution link of a message's rows.
LEMMA LastNames ==
    ASSUME NEW m, NEW a \in Annotation, NEW raw \in BOOLEAN
    PROVE  LET chain == SamplesOf(m, a, raw)
               t == TraceOf(a)
           IN  /\ LastLink(chain) \in Seq(Events)
               /\ Names(LastLink(chain)) \subseteq SystemEvents \cup {"unattributable"}
               /\ \A event \in Names(LastLink(chain)) \cap SystemEvents :
                     /\ StoppedAt(t.outcome, StageOf[event]) /\ TRUE \in Wanted(a)
                     /\ Refused(t) => ~Supervision(a, t)
               /\ LastLink(chain) = <<>> /\ Wanted(a) = {TRUE} /\ ~Refused(t)
                     => t.outcome = {} \/ Delivered(t.outcome)
<1> DEFINE chain == SamplesOf(m, a, raw)
<1> DEFINE t == TraceOf(a)
<1> DEFINE admission == OfRows("reply", chain)
<1> DEFINE open == Wrong(chain) = {} /\ \E r \in admission : r.expected # "silent"
<1> DEFINE link == Stopped(chain)
<1>1. ASSUME NEW r \in admission
      PROVE  /\ AdmissionRecorded(t) /\ \E want \in Wanted(a) : r.expected = Reply(want)
             /\ r.said = Reply(~Refused(t)) /\ Supervised(r) = Supervision(a, t)
  BY AdmissionRows
<1>2. /\ Final(chain) = {} \/ Final(chain) = t.outcome
      /\ chain # {} => Final(chain) = t.outcome
  BY FinalOfRows
<1>3. AtMostOne(Final(chain))
  <2>1. AtMostOne(t.outcome)
    BY OutcomeOnce
  <2> QED
    BY <1>2, <2>1 DEF AtMostOne
<1>4. Wanted(a) \in Option(BOOLEAN)
  BY AnnotationFields DEF Wanted
<1>5. AdmissionRecorded(t) /\ Wanted(a) # {} => admission # {}
  <2> SUFFICES ASSUME AdmissionRecorded(t), Wanted(a) # {} PROVE admission # {}
    OBVIOUS
  <2>1. PICK want \in Wanted(a) : TRUE
    OBVIOUS
  <2>2. IsReply(m, a, raw, ReplyRow(m, a, raw, want))
    BY DEF IsReply
  <2>3. ReplyRow(m, a, raw, want) \in chain /\ ReplyRow(m, a, raw, want).task = "reply"
    BY <2>2, Kinds, KindOfTask
  <2> QED
    BY <2>3 DEF OfRows
<1>6. admission # {} => chain # {}
  BY DEF OfRows
<1>7. Wrong(chain) = {r \in admission : Supervised(r) /\ r.said # r.expected}
  BY DEF Wrong
<1>8. link = ExecutionLink(Final(chain), admission, Wrong(chain) = {})
  BY DEF Stopped
<1>9. LastLink(chain) = IF link = <<>> /\ \E r \in admission : ~Supervised(r)
                        THEN <<"unattributable">> ELSE link
  BY DEF LastLink
<1> HIDE DEF chain, t, admission, link
<1>10. /\ \/ link \in {<<>>, <<"unattributable">>}
          \/ open /\ link = <<"gate_suppression">> /\ StoppedAt(Final(chain), "gate")
          \/ open /\ link = <<"generation_failure">> /\ StoppedAt(Final(chain), "generation")
          \/ open /\ link = <<"delivery_failure">> /\ StoppedAt(Final(chain), "delivery")
       /\ link = <<>> => Final(chain) = {} \/ Delivered(Final(chain)) \/ ~open
  BY <1>3, <1>8, ExecutionNames
<1>11. ASSUME open PROVE TRUE \in Wanted(a) /\ (Refused(t) => ~Supervision(a, t))
  <2>1. PICK r \in admission : r.expected # "silent"
    BY <1>11
  <2>2. PICK want \in Wanted(a) : r.expected = Reply(want)
    BY <1>1
  <2>3. want = TRUE /\ r.expected = "reply"
    BY <1>4, <2>1, <2>2 DEF Reply, Option
  <2>4. ASSUME Refused(t), Supervision(a, t) PROVE FALSE
    <3>1. r.said = "silent" /\ Supervised(r)
      BY <1>1, <2>4 DEF Reply
    <3>2. r \in Wrong(chain)
      BY <1>7, <2>3, <3>1
    <3> QED
      BY <1>11, <3>2
  <2> QED
    BY <2>2, <2>3, <2>4
<1>12. ASSUME LastLink(chain) = <<>>, Wanted(a) = {TRUE}, ~Refused(t)
       PROVE  t.outcome = {} \/ Delivered(t.outcome)
  <2>1. AdmissionRecorded(t)
    BY <1>12 DEF Refused, AdmissionRecorded, Levels
  <2>2. admission # {} /\ chain # {}
    BY <1>5, <1>6, <1>12, <2>1
  <2>3. \A r \in admission : r.expected = "reply" /\ r.said = "reply"
    BY <1>1, <1>12 DEF Reply
  <2>4. open
    BY <1>7, <2>2, <2>3
  <2>5. link = <<>>
    BY <1>9, <1>12, NamesOfOne DEF Events
  <2> QED
    BY <1>2, <1>10, <2>2, <2>4, <2>5
<1> HIDE DEF open
<1>13. CASE LastLink(chain) \in {<<>>, <<"unattributable">>}
  <2>1. /\ Names(<<>>) = {} /\ <<>> \in Seq(Events)
        /\ Names(<<"unattributable">>) = {"unattributable"} /\ <<"unattributable">> \in Seq(Events)
    BY NamesOfOne DEF Events
  <2>2. Names(LastLink(chain)) \subseteq {"unattributable"} /\ LastLink(chain) \in Seq(Events)
    BY <1>13, <2>1
  <2> QED
    BY <1>12, <2>2 DEF SystemEvents, chain, t
<1>14. ASSUME NEW event \in SystemEvents, open, LastLink(chain) = <<event>>,
              StoppedAt(Final(chain), StageOf[event])
       PROVE  /\ LastLink(chain) \in Seq(Events)
              /\ Names(LastLink(chain)) = {event}
              /\ StoppedAt(t.outcome, StageOf[event]) /\ TRUE \in Wanted(a)
              /\ Refused(t) => ~Supervision(a, t)
  <2>1. event \in Events
    BY DEF SystemEvents, Events
  <2>2. Final(chain) # {}
    BY <1>14 DEF StoppedAt
  <2> QED
    BY <1>2, <1>11, <1>14, <2>1, <2>2, NamesOfOne
<1>15. CASE LastLink(chain) \notin {<<>>, <<"unattributable">>}
  <2>1. LastLink(chain) = link /\ link \notin {<<>>, <<"unattributable">>}
    BY <1>9, <1>15
  <2>2. StageOf["gate_suppression"] = "gate" /\ StageOf["generation_failure"] = "generation"
        /\ StageOf["delivery_failure"] = "delivery"
    BY DEF StageOf
  <2>3. \E event \in SystemEvents : open /\ LastLink(chain) = <<event>>
                                    /\ StoppedAt(Final(chain), StageOf[event])
    BY <1>10, <2>1, <2>2 DEF SystemEvents
  <2>4. PICK event \in SystemEvents : open /\ LastLink(chain) = <<event>>
                                      /\ StoppedAt(Final(chain), StageOf[event])
    BY <2>3
  <2>5. /\ LastLink(chain) \in Seq(Events) /\ Names(LastLink(chain)) = {event}
        /\ StoppedAt(t.outcome, StageOf[event]) /\ TRUE \in Wanted(a)
        /\ Refused(t) => ~Supervision(a, t)
    BY <1>14, <2>4
  <2> QED
    BY <1>12, <2>5 DEF chain, t
<1> QED
  BY <1>13, <1>15

TopicEvents == {"unattributable", "topic_ranking_error", "topic_candidate_miss"}

LEMMA SecondNames ==
    ASSUME NEW m, NEW a \in Annotation, NEW raw \in BOOLEAN
    PROVE  LET link == SecondLink(SamplesOf(m, a, raw))
               t == TraceOf(a)
               offered == {c.topic : c \in UNION t.cands}
           IN  /\ link \in Seq(Events) /\ Names(link) \subseteq TopicEvents
               /\ "topic_candidate_miss" \in Names(link) => t.cands # {} /\ a.labels.topic \notin offered
               /\ "topic_ranking_error" \in Names(link) => a.labels.topic \in offered
<1> DEFINE chain == SamplesOf(m, a, raw)
<1> DEFINE link == SecondLink(chain)
<1> DEFINE t == TraceOf(a)
<1> DEFINE offered == {c.topic : c \in UNION t.cands}
<1> DEFINE rows == OfRows("topic", chain)
<1>0. /\ Names(<<>>) = {} /\ <<>> \in Seq(Events)
      /\ \A e \in TopicEvents : Names(<<e>>) = {e} /\ <<e>> \in Seq(Events)
  BY NamesOfOne DEF TopicEvents, Events
<1>1. CASE rows = {}
  <2>1. link = <<>>
    BY <1>1 DEF SecondLink
  <2> QED
    BY <1>0, <2>1
<1>2. CASE rows # {}
  <2> DEFINE r == The(rows)
  <2>1. r \in rows
    BY <1>2 DEF The
  <2>2. r.msg = m /\ r.expected = TopicLabel(a.labels.topic, m) /\ CandidatesOf(r) = t.cands
    BY <2>1, TopicRowsRead
  <2>3. link = TopicLink(r)
    BY <1>2 DEF SecondLink
  <2> HIDE DEF link, rows, r, offered
  <2>4. CASE r.said = r.expected \/ r.expected = r.msg \/ SelectedOf(r) = r.expected
    <3>1. link = <<>>
      BY <2>3, <2>4 DEF TopicLink
    <3> QED
      BY <1>0, <3>1 DEF link
  <2>5. CASE ~(r.said = r.expected \/ r.expected = r.msg \/ SelectedOf(r) = r.expected)
    <3>1. r.expected = a.labels.topic
      BY <2>2, <2>5 DEF TopicLabel
    <3>2. link = IF t.cands = {} THEN <<"unattributable">>
                 ELSE IF a.labels.topic \in offered THEN <<"topic_ranking_error">>
                 ELSE <<"topic_candidate_miss">>
      BY <2>2, <2>3, <2>5, <3>1 DEF TopicLink, offered
    <3>3. CASE t.cands = {}
      <4>1. link = <<"unattributable">>
        BY <3>2, <3>3
      <4>2. link \in Seq(Events) /\ Names(link) = {"unattributable"}
        BY <1>0, <4>1 DEF TopicEvents
      <4> QED
        BY <4>2 DEF link, TopicEvents
    <3>4. CASE t.cands # {} /\ a.labels.topic \in offered
      <4>1. link = <<"topic_ranking_error">>
        BY <3>2, <3>4
      <4>2. link \in Seq(Events) /\ Names(link) = {"topic_ranking_error"}
        BY <1>0, <4>1 DEF TopicEvents
      <4> QED
        BY <3>4, <4>2 DEF link, offered, TopicEvents
    <3>5. CASE t.cands # {} /\ a.labels.topic \notin offered
      <4>1. link = <<"topic_candidate_miss">>
        BY <3>2, <3>5
      <4>2. link \in Seq(Events) /\ Names(link) = {"topic_candidate_miss"}
        BY <1>0, <4>1 DEF TopicEvents
      <4> QED
        BY <3>5, <4>2 DEF link, offered, TopicEvents
    <3> QED
      BY <3>3, <3>4, <3>5
  <2> QED
    BY <2>4, <2>5
<1> QED
  BY <1>1, <1>2

LEMMA BlameFollows == Inv => BlameIsTrue
<1> SUFFICES ASSUME Inv, NEW m \in DOMAIN seen
             PROVE  LET blamed == LET found == Classify(RowsFor(m)) IN {found[i] : i \in DOMAIN found}
                        t == TurnOf(m)
                        offered == {c.topic : c \in UNION t.cands}
                        stage == [gate_suppression |-> "gate", generation_failure |-> "generation",
                                  delivery_failure |-> "delivery"]
                        refused == t.level # "strong" /\ ~(Explicit(t) /\ t.targeted)
                    IN  /\ \A event \in blamed \cap DOMAIN stage :
                            /\ StoppedAt(t.outcome, stage[event]) /\ TRUE \in Wanted(seen[m])
                            /\ refused => ~Supervision(seen[m], t)
                        /\ "topic_candidate_miss" \in blamed =>
                              t.cands # {} /\ seen[m].labels.topic \notin offered
                        /\ "topic_ranking_error" \in blamed => seen[m].labels.topic \in offered
                        /\ "participation_error" \in blamed =>
                              /\ AdmissionRecorded(t) /\ Wanted(seen[m]) # {~refused}
                              /\ seen[m].labels.rule = {} =>
                                    seen[m].mode = "legacy" /\ ~Downstream(t.outcome)
                        /\ Blamed(RowsFor(m)) = "ok" /\ Wanted(seen[m]) = {TRUE} /\ ~refused
                              => t.outcome = {} \/ Delivered(t.outcome)
  BY DEF BlameIsTrue
<1> DEFINE a == seen[m]
<1> DEFINE t == TraceOf(a)
<1> DEFINE offered == {c.topic : c \in UNION t.cands}
<1>1. a \in Annotation
  BY DEF Inv, Typed
<1>2. PICK raw \in BOOLEAN : RowsFor(m) = SamplesOf(m, a, raw)
  BY DEF Inv, Stored
<1> DEFINE chain == SamplesOf(m, a, raw)
<1> DEFINE blamed == Names(Classify(chain))
<1> HIDE DEF a
<1>3. /\ FirstLink(chain) \in Seq(Events) /\ Names(FirstLink(chain)) \subseteq {"recipient_error"}
      /\ ThirdLink(chain) \in Seq(Events) /\ Names(ThirdLink(chain)) \subseteq {"participation_error"}
      /\ Wrong(chain) = {} => Names(ThirdLink(chain)) = {}
  BY NamesOfOne DEF FirstLink, ThirdLink, Events
<1>4. /\ SecondLink(chain) \in Seq(Events) /\ Names(SecondLink(chain)) \subseteq TopicEvents
      /\ "topic_candidate_miss" \in Names(SecondLink(chain)) =>
            t.cands # {} /\ a.labels.topic \notin offered
      /\ "topic_ranking_error" \in Names(SecondLink(chain)) => a.labels.topic \in offered
  BY <1>1, SecondNames
<1>5. /\ LastLink(chain) \in Seq(Events)
      /\ Names(LastLink(chain)) \subseteq SystemEvents \cup {"unattributable"}
      /\ \A event \in Names(LastLink(chain)) \cap SystemEvents :
            /\ StoppedAt(t.outcome, StageOf[event]) /\ TRUE \in Wanted(a)
            /\ Refused(t) => ~Supervision(a, t)
      /\ LastLink(chain) = <<>> /\ Wanted(a) = {TRUE} /\ ~Refused(t)
            => t.outcome = {} \/ Delivered(t.outcome)
  BY <1>1, LastNames
<1>6. /\ blamed = Names(FirstLink(chain)) \cup Names(SecondLink(chain)) \cup Names(ThirdLink(chain))
                  \cup Names(LastLink(chain))
      /\ Classify(chain) \in Seq(Events)
      /\ Classify(chain) = <<>> => LastLink(chain) = <<>>
  <2> DEFINE p == FirstLink(chain)
  <2> DEFINE q == SecondLink(chain)
  <2> DEFINE s == ThirdLink(chain)
  <2> DEFINE u == LastLink(chain)
  <2>0. Classify(chain) = ((p \o q) \o s) \o u
    BY Links
  <2> HIDE DEF chain, p, q, s, u
  <2>1. p \in Seq(Events) /\ q \in Seq(Events) /\ s \in Seq(Events) /\ u \in Seq(Events)
    BY <1>3, <1>4, <1>5 DEF p, q, s, u
  <2>2. p \o q \in Seq(Events) /\ Names(p \o q) = Names(p) \cup Names(q)
    BY <2>1, NamesOfTwo
  <2>3. (p \o q) \o s \in Seq(Events) /\ Names((p \o q) \o s) = Names(p \o q) \cup Names(s)
    BY <2>1, <2>2, NamesOfTwo
  <2>4. /\ ((p \o q) \o s) \o u \in Seq(Events)
        /\ Names(((p \o q) \o s) \o u) = Names((p \o q) \o s) \cup Names(u)
        /\ ((p \o q) \o s) \o u = <<>> => u = <<>>
    BY <2>1, <2>3, NamesOfTwo
  <2> QED
    BY <2>0, <2>2, <2>3, <2>4 DEF p, q, s, u
<1>7. Blamed(chain) = "ok" => Classify(chain) = <<>>
  <2> SUFFICES ASSUME Classify(chain) # <<>> PROVE Blamed(chain) # "ok"
    OBVIOUS
  <2> DEFINE found == Classify(chain)
  <2>1. Head(found) \in Events
    <3> HIDE DEF found
    <3>1. found \in Seq(Events) /\ found # <<>>
      BY <1>6 DEF found
    <3> QED
      BY <3>1, HeadTailProperties
  <2>2. Blamed(chain) = Head(found)
    BY DEF Blamed
  <2> HIDE DEF found
  <2> QED
    BY <2>1, <2>2 DEF Events
<1>8. "participation_error" \in Names(ThirdLink(chain)) =>
         /\ AdmissionRecorded(t) /\ Wanted(a) # {~Refused(t)}
         /\ a.labels.rule = {} => a.mode = "legacy" /\ ~Downstream(t.outcome)
  <2> SUFFICES ASSUME "participation_error" \in Names(ThirdLink(chain))
               PROVE  /\ AdmissionRecorded(t) /\ Wanted(a) # {~Refused(t)}
                      /\ a.labels.rule = {} => a.mode = "legacy" /\ ~Downstream(t.outcome)
    OBVIOUS
  <2>1. PICK r \in OfRows("reply", chain) : Supervised(r) /\ r.said # r.expected
    <3>1. Wrong(chain) # {}
      BY <1>3
    <3> HIDE DEF chain
    <3> QED
      BY <3>1 DEF Wrong
  <2>2. /\ AdmissionRecorded(t) /\ \E want \in Wanted(a) : r.expected = Reply(want)
        /\ r.said = Reply(~Refused(t)) /\ Supervised(r) = Supervision(a, t)
    BY <1>1, AdmissionRows
  <2>3. Wanted(a) # {~Refused(t)}
    BY <2>1, <2>2
  <2>4. Supervision(a, t)
    BY <2>1, <2>2
  <2> HIDE DEF t, chain
  <2> QED
    BY <2>2, <2>3, <2>4 DEF Supervision
<1> HIDE DEF t, offered, chain, blamed
<1>9. \A event \in blamed \cap SystemEvents :
         /\ StoppedAt(t.outcome, StageOf[event]) /\ TRUE \in Wanted(a)
         /\ Refused(t) => ~Supervision(a, t)
  <2>1. \A event \in blamed \cap SystemEvents : event \in Names(LastLink(chain))
    BY <1>3, <1>4, <1>6 DEF SystemEvents, TopicEvents
  <2> QED
    BY <1>5, <2>1
<1>10. "topic_candidate_miss" \in blamed => t.cands # {} /\ a.labels.topic \notin offered
  BY <1>3, <1>4, <1>5, <1>6 DEF SystemEvents
<1>11. "topic_ranking_error" \in blamed => a.labels.topic \in offered
  BY <1>3, <1>4, <1>5, <1>6 DEF SystemEvents
<1>12. "participation_error" \in blamed =>
          /\ AdmissionRecorded(t) /\ Wanted(a) # {~Refused(t)}
          /\ a.labels.rule = {} => a.mode = "legacy" /\ ~Downstream(t.outcome)
  BY <1>3, <1>4, <1>5, <1>6, <1>8 DEF SystemEvents, TopicEvents
<1>13. Blamed(chain) = "ok" /\ Wanted(a) = {TRUE} /\ ~Refused(t) => t.outcome = {} \/ Delivered(t.outcome)
  BY <1>5, <1>6, <1>7
<1>14. RowsFor(m) = chain /\ TurnOf(m) = t
  BY <1>2 DEF chain, t, a, TurnOf
<1>15. DOMAIN StageOf = SystemEvents
  BY DEF StageOf, SystemEvents
<1>16. Refused(t) = (t.level # "strong" /\ ~(Explicit(t) /\ t.targeted))
  BY DEF Refused
<1> QED
  BY <1>9, <1>10, <1>11, <1>12, <1>13, <1>14, <1>15, <1>16 DEF a, offered, blamed, Names, StageOf

\* A layer is blamed for what it did: a system event stands for an outcome the
\* host told of a reply a human wanted and the rule let through; candidate
\* generation and ranking are blamed over a list without and with the topic;
\* the rule only where the label may judge it; and a wanted reply that was let
\* through and is known not to have arrived is never called ok.
THEOREM BlameIsEarned == RecordsSpec => []BlameIsTrue
  BY RecordsInvariant, BlameFollows, PTL

(***************************************************************************)
(* The activation gate                                                     *)
(***************************************************************************)
Judgement(m) ==
    {q.expected = "reply" : q \in {p \in disk : p.msg = m /\ p.task = "reply"}}
ShadowTurn(m, b) ==
    [msg |-> m, session |-> SessionOf[m], experiment |-> b.experiment,
     hour |-> b.hour, base |-> b.base, shadow |-> b.shadow, changed |-> b.changed,
     expected |-> Judgement(m)]
TheTurn(m) == ShadowTurn(m, The(TurnOf(m).shadow))

ComparedOnes == {m \in DOMAIN seen : RowsFor(m) # {} /\ TurnOf(m).shadow # {}}
JudgedOnes == {m \in ComparedOnes : Wanted(seen[m]) # {} /\ AdmissionRecorded(TurnOf(m))}
WonBy(side) == {m \in JudgedOnes : {The(TurnOf(m).shadow)[side]} = Wanted(seen[m])}

\* The label on the admission row is the human's.
LEMMA JudgementOfHuman ==
    ASSUME Inv, NEW m \in DOMAIN seen
    PROVE  /\ AdmissionRecorded(TurnOf(m)) => Judgement(m) = Wanted(seen[m])
           /\ ~AdmissionRecorded(TurnOf(m)) => Judgement(m) = {}
<1> DEFINE a == seen[m]
<1> DEFINE rows == {p \in disk : p.msg = m /\ p.task = "reply"}
<1>1. a \in Annotation
  BY DEF Inv, Typed
<1>2. PICK raw \in BOOLEAN : RowsFor(m) = SamplesOf(m, a, raw)
  BY DEF Inv, Stored
<1>3. rows = OfRows("reply", SamplesOf(m, a, raw))
  BY <1>2 DEF RowsFor, OfRows
<1>4. Wanted(a) \in Option(BOOLEAN)
  BY <1>1, AnnotationFields DEF Wanted
<1> HIDE DEF a, rows
<1>5. Judgement(m) = {q.expected = "reply" : q \in rows}
  BY DEF Judgement, rows
<1>6. \A want \in BOOLEAN : (Reply(want) = "reply") = want
  BY DEF Reply
<1>7. ASSUME NEW q \in rows
      PROVE  AdmissionRecorded(TraceOf(a)) /\ \E want \in Wanted(a) : (q.expected = "reply") = want
  <2>1. AdmissionRecorded(TraceOf(a)) /\ \E want \in Wanted(a) : q.expected = Reply(want)
    BY <1>1, <1>3, AdmissionRows
  <2>2. PICK want \in Wanted(a) : q.expected = Reply(want)
    BY <2>1
  <2>3. want \in BOOLEAN
    BY <1>4 DEF Option
  <2> QED
    BY <1>6, <2>1, <2>2, <2>3
<1>8. ASSUME AdmissionRecorded(TraceOf(a)), NEW want \in Wanted(a)
      PROVE  \E q \in rows : (q.expected = "reply") = want
  <2>1. IsReply(m, a, raw, ReplyRow(m, a, raw, want))
    BY <1>8 DEF IsReply
  <2>2. ReplyRow(m, a, raw, want) \in rows
    <3>1. ReplyRow(m, a, raw, want) \in SamplesOf(m, a, raw)
      BY <2>1, Kinds
    <3>2. ReplyRow(m, a, raw, want).task = "reply"
      BY <2>1, <3>1, KindOfTask
    <3> QED
      BY <1>3, <3>1, <3>2 DEF OfRows
  <2>3. ReplyRow(m, a, raw, want).expected = Reply(want)
    BY DEF ReplyRow, RowOf
  <2>4. want \in BOOLEAN
    BY <1>4 DEF Option
  <2> QED
    BY <1>6, <2>2, <2>3, <2>4
<1>9. TurnOf(m) = TraceOf(a)
  BY DEF TurnOf, a
<1>10. ASSUME AdmissionRecorded(TraceOf(a)) PROVE Judgement(m) = Wanted(a)
  <2>1. \A x \in Judgement(m) : x \in Wanted(a)
    BY <1>5, <1>7
  <2>2. \A x \in Wanted(a) : x \in Judgement(m)
    BY <1>5, <1>8, <1>10
  <2> QED
    BY <2>1, <2>2
<1>11. ASSUME ~AdmissionRecorded(TraceOf(a)) PROVE Judgement(m) = {}
  BY <1>5, <1>7, <1>11
<1> QED
  BY <1>9, <1>10, <1>11 DEF a

\* One turn for each compared message.
LEMMA TurnsOfRows ==
    ASSUME Inv
    PROVE  ShadowRows(disk) = {TheTurn(m) : m \in ComparedOnes}
<1> DEFINE made(r, b) ==
         [msg |-> r.msg, session |-> SessionOf[r.msg], experiment |-> b.experiment,
          hour |-> b.hour, base |-> b.base, shadow |-> b.shadow, changed |-> b.changed,
          expected |-> {q.expected = "reply" :
                           q \in {p \in disk : p.msg = r.msg /\ p.task = "reply"}}]
<1>1. ShadowRows(disk) = UNION {{made(r, b) : b \in ShadowOf(r)} : r \in disk}
  BY DEF ShadowRows
<1>2. \A r, b : made(r, b) = ShadowTurn(r.msg, b)
  BY DEF ShadowTurn, Judgement
<1> HIDE DEF made
<1>3. ASSUME NEW r \in disk, NEW b \in ShadowOf(r)
      PROVE  r.msg \in ComparedOnes /\ made(r, b) = TheTurn(r.msg)
  <2>1. r.msg \in DOMAIN seen /\ r \in RowsFor(r.msg) /\ ShadowOf(r) = TurnOf(r.msg).shadow
    BY StoredRow DEF Inv, RowsFor, ReadsAs, TurnOf
  <2>2. AtMostOne(TurnOf(r.msg).shadow)
    BY <2>1, ShadowOnce DEF Inv, Typed, TurnOf
  <2>3. b = The(TurnOf(r.msg).shadow)
    BY <2>1, <2>2 DEF AtMostOne, The
  <2> QED
    BY <1>2, <2>1, <2>3 DEF ComparedOnes, TheTurn
<1>4. ASSUME NEW m \in ComparedOnes
      PROVE  \E r \in disk : \E b \in ShadowOf(r) : TheTurn(m) = made(r, b)
  <2>1. m \in DOMAIN seen /\ TurnOf(m).shadow # {} /\ \E r \in disk : r.msg = m
    BY DEF ComparedOnes, RowsFor
  <2>2. PICK r \in disk : r.msg = m
    BY <2>1
  <2>3. ShadowOf(r) = TurnOf(m).shadow
    BY <2>2, StoredRow DEF Inv, ReadsAs, TurnOf
  <2>4. The(TurnOf(m).shadow) \in ShadowOf(r)
    BY <2>1, <2>3 DEF The
  <2> QED
    BY <1>2, <2>2, <2>4 DEF TheTurn
<1>5. \A x : x \in ShadowRows(disk) <=> \E r \in disk : \E b \in ShadowOf(r) : x = made(r, b)
  BY <1>1
<1>6. \A x \in ShadowRows(disk) : \E m \in ComparedOnes : x = TheTurn(m)
  BY <1>3, <1>5
<1>7. \A m \in ComparedOnes : TheTurn(m) \in ShadowRows(disk)
  BY <1>4, <1>5
<1> QED
  BY <1>6, <1>7

LEMMA TurnFields ==
    ASSUME NEW m
    PROVE  LET b == The(TurnOf(m).shadow)
           IN  /\ TheTurn(m).msg = m /\ TheTurn(m).experiment = b.experiment
               /\ TheTurn(m).base = b.base /\ TheTurn(m).shadow = b.shadow
               /\ TheTurn(m).expected = Judgement(m)
BY DEF TheTurn, ShadowTurn

\* So turns are counted as messages are.
LEMMA TurnCount ==
    ASSUME Inv, NEW T, T \subseteq ShadowRows(disk), NEW M, M \subseteq ComparedOnes,
           \A m \in ComparedOnes : TheTurn(m) \in T <=> m \in M
    PROVE  IsFiniteSet(T) /\ IsFiniteSet(M) /\ Cardinality(T) = Cardinality(M)
<1> DEFINE f == [t \in T |-> t.msg]
<1>1. \A t \in T : \E m \in M : t = TheTurn(m)
  BY TurnsOfRows
<1>2. f \in [T -> M] /\ \A x, y \in T : f[x] = f[y] => x = y
  BY <1>1, TurnFields
<1>3. \A m \in M : \E t \in T : f[t] = m
  BY TurnFields
<1>4. IsFiniteSet(M)
  BY RecordsAssumption, FS_Subset DEF ComparedOnes, Inv, Typed
<1> HIDE DEF f
<1> QED
  BY <1>2, <1>3, <1>4, Inject

LEMMA OpenChecks ==
    ASSUME NEW turns, Blocked(turns) = {}
    PROVE  /\ Checks(turns).shadow_samples /\ Checks(turns).net_gain
           /\ Cardinality({t.experiment : t \in turns}) = 1
           /\ \A t \in turns : t.experiment # ""
<1> DEFINE checks == Checks(turns)
<1> DEFINE identity == \/ Cardinality({t.experiment : t \in turns}) # 1
                       \/ \E t \in turns : t.experiment = ""
<1>1. "shadow_samples" \in DOMAIN checks /\ "net_gain" \in DOMAIN checks
  BY DEF Checks
<1>2. Blocked(turns) = {name \in DOMAIN checks : ~checks[name]} \cup {b \in {"experiment_identity"} : identity}
  BY DEF Blocked
<1> HIDE DEF checks, identity
<1>3. \A name \in DOMAIN checks : checks[name]
  BY <1>2
<1>4. ~identity
  BY <1>2
<1> QED
  BY <1>1, <1>3, <1>4 DEF checks, identity

LEMMA ActivationFollows == Inv => ActivationIsEarned
<1> SUFFICES ASSUME Inv, Blocked(ShadowRows(disk)) = {}
             PROVE  /\ Cardinality(JudgedOnes) >= Rules.min_shadow_samples
                    /\ \E e \in {The(TurnOf(m).shadow).experiment : m \in ComparedOnes} :
                          e # "" /\ \A m \in ComparedOnes : The(TurnOf(m).shadow).experiment = e
                    /\ Cardinality(WonBy("shadow")) > Cardinality(WonBy("base"))
  BY DEF ActivationIsEarned, JudgedOnes, ComparedOnes, WonBy
<1> DEFINE turns == ShadowRows(disk)
<1> DEFINE told == Labelled(turns)
<1> DEFINE won(side) == {t \in told : {t[side]} = t.expected}
<1> DEFINE B == won("base")
<1> DEFINE S == won("shadow")
<1>1. /\ Checks(turns).shadow_samples /\ Checks(turns).net_gain
      /\ Cardinality({t.experiment : t \in turns}) = 1 /\ \A t \in turns : t.experiment # ""
  BY OpenChecks
<1>2. turns = {TheTurn(m) : m \in ComparedOnes}
  BY TurnsOfRows
<1> HIDE DEF turns
<1>3. Table(turns).labelled = Cardinality(told)
      /\ Table(turns).shadow_only = Cardinality(S \ B) /\ Table(turns).baseline_only = Cardinality(B \ S)
  <2> DEFINE right(t, side) == {t[side]} = t.expected
  <2> DEFINE cell(base, shadow) ==
               Cardinality({t \in told : right(t, "base") = base /\ right(t, "shadow") = shadow})
  <2>1. /\ Table(turns).labelled = Cardinality(told) /\ Table(turns).shadow_only = cell(FALSE, TRUE)
        /\ Table(turns).baseline_only = cell(TRUE, FALSE)
    BY DEF Table
  <2>2. /\ {t \in told : right(t, "base") = FALSE /\ right(t, "shadow") = TRUE} = S \ B
        /\ {t \in told : right(t, "base") = TRUE /\ right(t, "shadow") = FALSE} = B \ S
    OBVIOUS
  <2> QED
    BY <2>1, <2>2
<1>4. Cardinality(told) >= Rules.min_shadow_samples
  <2>1. Checks(turns).shadow_samples = (Table(turns).labelled >= Rules.min_shadow_samples)
    BY DEF Checks
  <2> HIDE DEF told
  <2> QED
    BY <1>1, <1>3, <2>1
<1>5. Cardinality(S \ B) > Cardinality(B \ S)
  <2>1. Checks(turns).net_gain = (Table(turns).shadow_only > Table(turns).baseline_only)
    BY DEF Checks
  <2> HIDE DEF S, B
  <2> QED
    BY <1>1, <1>3, <2>1
<1>6. told = {t \in turns : t.expected # {}}
  BY DEF Labelled
<1>7. \A m \in ComparedOnes : TheTurn(m) \in turns
  BY <1>2
<1>8. ASSUME NEW m \in ComparedOnes
      PROVE  /\ TheTurn(m).expected # {} <=> m \in JudgedOnes
             /\ m \in JudgedOnes => TheTurn(m).expected = Wanted(seen[m])
  <2>1. m \in DOMAIN seen
    BY DEF ComparedOnes
  <2>2. /\ AdmissionRecorded(TurnOf(m)) => Judgement(m) = Wanted(seen[m])
        /\ ~AdmissionRecorded(TurnOf(m)) => Judgement(m) = {}
    BY <2>1, JudgementOfHuman
  <2> QED
    BY <2>2, TurnFields DEF JudgedOnes
<1>9. Cardinality(told) = Cardinality(JudgedOnes)
  <2>1. \A m \in ComparedOnes : TheTurn(m) \in told <=> m \in JudgedOnes
    BY <1>6, <1>7, <1>8
  <2>2. told \subseteq ShadowRows(disk) /\ JudgedOnes \subseteq ComparedOnes
    BY <1>6 DEF JudgedOnes, turns
  <2> HIDE DEF told
  <2> QED
    BY <2>1, <2>2, TurnCount
<1>10. \A m \in ComparedOnes : /\ TheTurn(m) \in B <=> m \in WonBy("base")
                               /\ TheTurn(m) \in S <=> m \in WonBy("shadow")
  <2> TAKE m \in ComparedOnes
  <2>1. /\ TheTurn(m)["base"] = The(TurnOf(m).shadow)["base"]
        /\ TheTurn(m)["shadow"] = The(TurnOf(m).shadow)["shadow"]
    BY TurnFields
  <2>2. TheTurn(m) \in told <=> m \in JudgedOnes
    BY <1>6, <1>7, <1>8
  <2> HIDE DEF told
  <2> QED
    BY <1>8, <2>1, <2>2 DEF WonBy
<1>11. /\ Cardinality(B) = Cardinality(WonBy("base")) /\ IsFiniteSet(B)
       /\ Cardinality(S) = Cardinality(WonBy("shadow")) /\ IsFiniteSet(S)
  <2>1. B \subseteq ShadowRows(disk) /\ S \subseteq ShadowRows(disk)
    BY <1>6 DEF turns
  <2>2. WonBy("base") \subseteq ComparedOnes /\ WonBy("shadow") \subseteq ComparedOnes
    BY DEF WonBy, JudgedOnes
  <2> HIDE DEF B, S
  <2> QED
    BY <1>10, <2>1, <2>2, TurnCount
<1> HIDE DEF told, B, S
<1>12. Cardinality(S) > Cardinality(B)
  <2>1. Cardinality(S \ B) = Cardinality(S) - Cardinality(S \cap B)
    BY <1>11, FS_Difference
  <2>2. Cardinality(B \ S) = Cardinality(B) - Cardinality(B \cap S)
    BY <1>11, FS_Difference
  <2>3. S \cap B = B \cap S
    OBVIOUS
  <2>4. Cardinality(S) \in Nat /\ Cardinality(B) \in Nat /\ Cardinality(S \cap B) \in Nat
    BY <1>11, FS_Subset, FS_CardinalityType
  <2>5. Cardinality(B \cap S) = Cardinality(S \cap B)
    BY <2>3
  <2> DEFINE x == Cardinality(S)
  <2> DEFINE y == Cardinality(B)
  <2> DEFINE z == Cardinality(S \cap B)
  <2>6. x - z > y - z
    BY <1>5, <2>1, <2>2, <2>5
  <2> HIDE DEF x, y, z
  <2>7. x > y
    BY <2>4, <2>6 DEF x, y, z
  <2> QED
    BY <2>7 DEF x, y
<1>13. \E e \in {The(TurnOf(m).shadow).experiment : m \in ComparedOnes} :
          e # "" /\ \A m \in ComparedOnes : The(TurnOf(m).shadow).experiment = e
  <2> DEFINE named == {t.experiment : t \in turns}
  <2>1. \A m \in ComparedOnes : The(TurnOf(m).shadow).experiment = TheTurn(m).experiment
    BY TurnFields
  <2>2. named = {The(TurnOf(m).shadow).experiment : m \in ComparedOnes}
    BY <1>2, <2>1
  <2>3. \E e : named = {e}
    <3>1. Cardinality(named) = 1
      BY <1>1
    <3>2. IsFiniteSet(named)
      <4>1. IsFiniteSet(turns)
        BY <1>7, <1>2, TurnCount DEF turns
      <4> DEFINE f == [t \in turns |-> t.experiment]
      <4>2. f \in Surjection(turns, named)
        BY DEF Surjection
      <4> HIDE DEF f, named
      <4> QED
        BY <4>1, <4>2, FS_Surjection
    <3> HIDE DEF named
    <3> QED
      BY <3>1, <3>2, FS_Singleton
  <2>4. PICK e : named = {e}
    BY <2>3
  <2>5. e # ""
    <3>1. \A x \in named : x # ""
      BY <1>1
    <3> HIDE DEF named
    <3> QED
      BY <2>4, <3>1
  <2> HIDE DEF named
  <2> QED
    BY <2>2, <2>4, <2>5
<1> QED
  BY <1>4, <1>9, <1>11, <1>12, <1>13

\* An open activation gate means that enough different messages were judged by
\* a human, in one complete experiment, and that the policy won more of them
\* than it lost, however many labels each carries.
THEOREM ActivationEarned == RecordsSpec => []ActivationIsEarned
  BY RecordsInvariant, ActivationFollows, PTL

(***************************************************************************)
(* The gate's recent labels                                                *)
(***************************************************************************)
LabelsTold(a) == Cardinality(a.labels.bot) + Cardinality(a.labels.reply)
                 + Cardinality({a.labels.topic} \ {""}) + Cardinality(Wanted(a))
RecentlyTold == {m \in DOMAIN seen : 0 < seen[m].at /\ now - seen[m].at <= MaxLabelAge}

\* At most one, where there is none without another.
LEMMA OneForOne ==
    ASSUME NEW A, NEW B, AtMostOne(A), AtMostOne(B), A # {} => B # {}
    PROVE  /\ IsFiniteSet(A) /\ Cardinality(A) \in Nat /\ Cardinality(B) \in Nat
           /\ Cardinality(A) <= Cardinality(B)
<1>1. \A S : AtMostOne(S) => S = {} \/ \E x : S = {x}
  BY DEF AtMostOne
<1>2. /\ Cardinality({}) = 0 /\ IsFiniteSet({})
      /\ \A x : Cardinality({x}) = 1 /\ IsFiniteSet({x})
  BY FS_EmptySet, FS_Singleton
<1>3. CASE A = {}
  BY <1>1, <1>2, <1>3
<1>4. CASE A # {}
  <2>1. PICK x : A = {x}
    BY <1>1, <1>4
  <2>2. PICK y : B = {y}
    BY <1>1, <1>4
  <2>3. IsFiniteSet(A) /\ Cardinality(A) = 1 /\ Cardinality(B) = 1
    BY <1>2, <2>1, <2>2
  <2> QED
    BY <2>3
<1> QED
  BY <1>3, <1>4

\* A message has no more rows than a human gave it labels.
LEMMA RowsPerLabel ==
    ASSUME Inv, NEW m \in DOMAIN seen, NEW S, S \subseteq RowsFor(m)
    PROVE  Cardinality(S) <= LabelsTold(seen[m]) /\ LabelsTold(seen[m]) \in Nat
<1> DEFINE a == seen[m]
           of(task) == {r \in S : r.task = task}
           topics == {a.labels.topic} \ {""}
<1>1. a \in Annotation
  BY DEF Inv, Typed
<1>2. PICK raw \in BOOLEAN : RowsFor(m) = SamplesOf(m, a, raw)
  BY DEF Inv, Stored
<1>3. AtMostOne(a.labels.bot) /\ AtMostOne(a.labels.reply) /\ AtMostOne(Wanted(a)) /\ AtMostOne(topics)
  BY <1>1, AnnotationFields DEF Option, Wanted, AtMostOne
<1> HIDE DEF a
<1>4. \A task : AtMostOne(of(task))
  BY <1>1, <1>2, OneRowPerTask DEF AtMostOne
<1>5. \A r \in S : r \in SamplesOf(m, a, raw)
  BY <1>2
<1>6. /\ of("recipient") # {} => a.labels.bot # {}
      /\ of("topic") # {} => topics # {}
      /\ of("reply") # {} => Wanted(a) # {}
      /\ of("reply_outcome") # {} => a.labels.reply # {}
  <2>1. of("recipient") # {} => a.labels.bot # {}
    BY <1>5, KindOfTask DEF IsRecipient
  <2>2. of("topic") # {} => topics # {}
    BY <1>5, KindOfTask DEF IsTopic
  <2>3. of("reply") # {} => Wanted(a) # {}
    BY <1>5, KindOfTask DEF IsReply
  <2>4. of("reply_outcome") # {} => a.labels.reply # {}
    BY <1>5, KindOfTask DEF IsOutcome
  <2> QED
    BY <2>1, <2>2, <2>3, <2>4
<1>7. S = ((of("recipient") \cup of("reply_outcome")) \cup of("topic")) \cup of("reply")
  BY <1>5, KindOfTask
<1> DEFINE A == of("recipient")
           B == of("reply_outcome")
           C == of("topic")
           D == of("reply")
<1>8. A \cap B = {} /\ (A \cup B) \cap C = {} /\ ((A \cup B) \cup C) \cap D = {}
  OBVIOUS
<1>9. /\ IsFiniteSet(A) /\ Cardinality(A) \in Nat /\ Cardinality(a.labels.bot) \in Nat
      /\ Cardinality(A) <= Cardinality(a.labels.bot)
      /\ IsFiniteSet(B) /\ Cardinality(B) \in Nat /\ Cardinality(a.labels.reply) \in Nat
      /\ Cardinality(B) <= Cardinality(a.labels.reply)
      /\ IsFiniteSet(C) /\ Cardinality(C) \in Nat /\ Cardinality(topics) \in Nat
      /\ Cardinality(C) <= Cardinality(topics)
      /\ IsFiniteSet(D) /\ Cardinality(D) \in Nat /\ Cardinality(Wanted(a)) \in Nat
      /\ Cardinality(D) <= Cardinality(Wanted(a))
  <2> HIDE DEF of, topics
  <2> QED
    BY <1>3, <1>4, <1>6, OneForOne
<1>10. LabelsTold(a) = Cardinality(a.labels.bot) + Cardinality(a.labels.reply)
                       + Cardinality(topics) + Cardinality(Wanted(a))
  BY DEF LabelsTold
<1>11. S = ((A \cup B) \cup C) \cup D
  BY <1>7
<1> HIDE DEF A, B, C, D, of, topics
<1>12. \A P, Q : IsFiniteSet(P) /\ IsFiniteSet(Q) /\ Cardinality(P) \in Nat
                 /\ Cardinality(Q) \in Nat /\ P \cap Q = {}
          => IsFiniteSet(P \cup Q) /\ Cardinality(P \cup Q) = Cardinality(P) + Cardinality(Q)
  <2> SUFFICES ASSUME NEW P, NEW Q, IsFiniteSet(P), IsFiniteSet(Q), Cardinality(P) \in Nat,
                      Cardinality(Q) \in Nat, P \cap Q = {}
               PROVE  IsFiniteSet(P \cup Q) /\ Cardinality(P \cup Q) = Cardinality(P) + Cardinality(Q)
    OBVIOUS
  <2>1. /\ IsFiniteSet(P \cup Q)
        /\ Cardinality(P \cup Q) = Cardinality(P) + Cardinality(Q) - Cardinality(P \cap Q)
    BY FS_Union
  <2>2. Cardinality(P \cap Q) = 0
    BY FS_EmptySet
  <2> QED
    BY <2>1, <2>2
<1>13. /\ IsFiniteSet(A \cup B) /\ Cardinality(A \cup B) = Cardinality(A) + Cardinality(B)
       /\ Cardinality(A \cup B) \in Nat
  BY <1>8, <1>9, <1>12
<1>14. /\ Cardinality((A \cup B) \cup C) = Cardinality(A \cup B) + Cardinality(C)
       /\ Cardinality(S) = Cardinality((A \cup B) \cup C) + Cardinality(D)
  <2>1. /\ IsFiniteSet((A \cup B) \cup C)
        /\ Cardinality((A \cup B) \cup C) = Cardinality(A \cup B) + Cardinality(C)
        /\ Cardinality((A \cup B) \cup C) \in Nat
    <3> DEFINE AB == A \cup B
    <3>1. IsFiniteSet(AB) /\ Cardinality(AB) \in Nat /\ AB \cap C = {}
          /\ IsFiniteSet(C) /\ Cardinality(C) \in Nat
      BY <1>8, <1>9, <1>13
    <3> HIDE DEF AB
    <3>2. IsFiniteSet(AB \cup C) /\ Cardinality(AB \cup C) = Cardinality(AB) + Cardinality(C)
      BY <1>12, <3>1
    <3>3. Cardinality(AB \cup C) \in Nat
      BY <3>1, <3>2
    <3> QED
      BY <3>2, <3>3 DEF AB
  <2> QED
    BY <1>8, <1>9, <1>11, <1>12, <2>1
<1>15. Cardinality(S) <= LabelsTold(a) /\ LabelsTold(a) \in Nat
  BY <1>9, <1>10, <1>12, <1>13, <1>14
<1> QED
  BY <1>15 DEF a

\* The gate's label check, and its session check.
LEMMA GateFollows == Inv => GateNeedsRecentLabels
<1> SUFFICES ASSUME Inv, GateBlocks(disk, now) = {}
             PROVE  /\ SumFunction([m \in RecentlyTold |-> LabelsTold(seen[m])]) >= MinGateSamples
                    /\ Cardinality({SessionOf[m] : m \in DOMAIN seen}) >= MinGateSessions
  BY DEF GateNeedsRecentLabels, RecentlyTold, LabelsTold
<1> DEFINE fresh == Fresh(disk, now)
           sessions == {r.session : r \in disk}
           told == [m \in RecentlyTold |-> LabelsTold(seen[m])]
           place == [r \in fresh |-> r.msg]
<1>1. ~(Cardinality(fresh) < MinGateSamples) /\ ~(Cardinality(sessions) < MinGateSessions)
  BY DEF GateBlocks
<1>2. IsFiniteSet(DOMAIN seen) /\ IsFiniteSet(RecentlyTold)
  BY RecordsAssumption, FS_Subset DEF Inv, Typed, RecentlyTold
<1>3. IsFiniteSet(fresh) /\ IsFiniteSet(disk)
  BY DiskKeyed, FS_Subset DEF Fresh
<1>4. ASSUME NEW r \in fresh PROVE r.msg \in RecentlyTold
  <2>1. r \in disk /\ 0 < r.at /\ now - r.at <= MaxLabelAge
    BY DEF Fresh
  <2>2. r.msg \in DOMAIN seen /\ r.at = seen[r.msg].at
    BY <2>1, StoredRow DEF Inv, ReadsAs
  <2> QED
    BY <2>1, <2>2 DEF RecentlyTold
<1>5. ASSUME NEW m \in RecentlyTold
      PROVE  told[m] \in Int /\ Cardinality({r \in fresh : place[r] = m}) <= told[m]
  <2>1. m \in DOMAIN seen
    BY DEF RecentlyTold
  <2>2. {r \in fresh : place[r] = m} \subseteq RowsFor(m)
    BY DEF Fresh, RowsFor
  <2>3. Cardinality({r \in fresh : place[r] = m}) <= LabelsTold(seen[m]) /\ LabelsTold(seen[m]) \in Nat
    <3> DEFINE mine == {r \in fresh : place[r] = m}
    <3>1. mine \subseteq RowsFor(m)
      BY <2>2
    <3> HIDE DEF mine
    <3>2. Cardinality(mine) <= LabelsTold(seen[m]) /\ LabelsTold(seen[m]) \in Nat
      BY <2>1, <3>1, RowsPerLabel
    <3> QED
      BY <3>2 DEF mine
  <2>4. told[m] = LabelsTold(seen[m])
    OBVIOUS
  <2> QED
    BY <2>3, <2>4
<1>6. \A r \in fresh : place[r] \in RecentlyTold
  BY <1>4
<1>7. SumFunction(told) = SumFunctionOnSet(told, RecentlyTold)
  BY DEF SumFunction
<1> HIDE DEF fresh, told, place
<1>8. Cardinality(fresh) <= SumFunctionOnSet(told, RecentlyTold)
  BY <1>2, <1>3, <1>5, <1>6, CountByPlace
<1>9. SumFunctionOnSet(told, RecentlyTold) \in Int /\ Cardinality(fresh) \in Nat
  BY <1>2, <1>3, <1>5, SumIsInt, FS_CardinalityType
<1>10. SumFunction(told) >= MinGateSamples
  BY <1>1, <1>7, <1>8, <1>9, QualityAssumption
<1>11. Cardinality({SessionOf[m] : m \in DOMAIN seen}) >= MinGateSessions
  <2> DEFINE all == {SessionOf[m] : m \in DOMAIN seen}
             f == [m \in DOMAIN seen |-> SessionOf[m]]
  <2>1. sessions \subseteq all
    <3>1. \A r \in disk : r.msg \in DOMAIN seen /\ r.session = SessionOf[r.msg]
      BY StoredRow DEF Inv, ReadsAs
    <3> QED
      BY <3>1
  <2>2. IsFiniteSet(all)
    <3>1. DOMAIN f = DOMAIN seen /\ all = {f[m] : m \in DOMAIN seen}
      OBVIOUS
    <3> HIDE DEF f, all
    <3> QED
      BY <1>2, <3>1, ImageFinite
  <2> HIDE DEF all, sessions
  <2>3. Cardinality(sessions) <= Cardinality(all) /\ Cardinality(sessions) \in Nat
        /\ Cardinality(all) \in Nat
    BY <2>1, <2>2, FS_Subset, FS_CardinalityType
  <2>4. Cardinality(all) >= MinGateSessions
    BY <1>1, <2>3, QualityAssumption
  <2> QED
    BY <2>4 DEF all
<1> QED
  BY <1>10, <1>11 DEF told

\* When nothing blocks learning, humans gave at least as many labels within the
\* allowed age as the gate asks for, in as many sessions: rows are never more
\* than labels, and importing old ones again does not renew them.
THEOREM GateNeedsRecent == RecordsSpec => []GateNeedsRecentLabels
  BY RecordsInvariant, GateFollows, PTL
=============================================================================
