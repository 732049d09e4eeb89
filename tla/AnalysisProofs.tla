--------------------------- MODULE AnalysisProofs ---------------------------
(***************************************************************************)
(* Theorems about Analysis, for every corpus, host, configuration and rule  *)
(* of the search that meets the named assumptions.                          *)
(*                                                                          *)
(* That the parameters a task does not tune stay exactly the host's needs   *)
(* nothing of what a sweep returns.  The rest does: a sweep's cut is a best *)
(* of finitely many, a score is made of sums over finite sets of rows and   *)
(* of pairs, and SumTheorems says what those sums do.  Two invariants carry *)
(* the theorems about a search: SearchInv, what each run is worth on its    *)
(* own holdout, and BeatsInv, what a validated policy does on those that    *)
(* decide.                                                                  *)
(***************************************************************************)
EXTENDS Analysis, SumTheorems

(***************************************************************************)
(* Parameters                                                              *)
(***************************************************************************)
(* The range of a parameter is not left, wherever the value comes from.     *)
LEMMA ClampType ==
    ASSUME NEW p \in Params, NEW v \in Int
    PROVE  /\ Clamp(p, v) \in Least4[p]..Most4[p]
           /\ Clamp(p, Clamp(p, v)) = Clamp(p, v)
<1>1. Least4[p] \in Nat /\ Most4[p] \in Nat /\ Least4[p] <= Most4[p]
  BY EvaluatorAssumption DEF EvaluatorAssumption, Params
<1> QED
  BY <1>1 DEF Clamp, Larger, Smaller

LEMMA ParamNames == Params = {"strong", "hover", "commit"}
BY EvaluatorAssumption DEF EvaluatorAssumption, Params

(* What normalisation makes of each parameter, whatever the others are.     *)
LEMMA NormalizeAt ==
    ASSUME NEW policy
    PROVE  /\ DOMAIN Normalize(policy) = Params
           /\ Normalize(policy).strong = Clamp("strong", policy["strong"])
           /\ Normalize(policy).commit = Clamp("commit", policy["commit"])
           /\ Normalize(policy).hover =
                 Clamp("hover", Smaller(Clamp("hover", policy["hover"]),
                                        Clamp("strong", policy["strong"]) - Gap))
BY ParamNames DEF Normalize

(* Normalising twice is normalising once. *)
LEMMA NormalizeStable ==
    ASSUME NEW policy \in [Params -> Int]
    PROVE  /\ Normalize(policy) \in [Params -> Nat]
           /\ \A p \in Params : Clamp(p, Normalize(policy)[p]) = Normalize(policy)[p]
           /\ Normalize(Normalize(policy)) = Normalize(policy)
<1> DEFINE n == Normalize(policy)
           strong == Clamp("strong", policy["strong"])
           hover == Clamp("hover", Smaller(Clamp("hover", policy["hover"]), strong - Gap))
           commit == Clamp("commit", policy["commit"])
<1>1. /\ Least4 \in [Params -> Nat] /\ Most4 \in [Params -> Nat] /\ Gap \in Nat
      /\ \A p \in Params : Least4[p] <= Most4[p]
  BY ParamNames, EvaluatorAssumption DEF EvaluatorAssumption
<1>2. strong \in Nat /\ commit \in Nat /\ Clamp("hover", policy["hover"]) \in Nat
  BY <1>1, ParamNames, ClampType
<1>3. Smaller(Clamp("hover", policy["hover"]), strong - Gap) \in Int
  BY <1>1, <1>2 DEF Smaller
<1>4. hover \in Nat
  BY <1>1, <1>3, ParamNames, ClampType
<1>5. DOMAIN n = Params /\ n["strong"] = strong /\ n["hover"] = hover /\ n["commit"] = commit
  BY NormalizeAt
<1>6. n = [p \in Params |-> n[p]]
  BY DEF Normalize
<1>7. n \in [Params -> Nat]
  BY <1>2, <1>4, <1>5, <1>6, ParamNames
<1>8. \A p \in Params : Clamp(p, n[p]) = n[p]
  <2>1. Clamp("strong", strong) = strong /\ Clamp("commit", commit) = commit
    BY ParamNames, ClampType
  <2>2. Clamp("hover", hover) = hover
    BY <1>3, ParamNames, ClampType
  <2> QED
    BY <1>5, <2>1, <2>2, ParamNames
<1>9. Normalize(n) = n
  <2>1. /\ Normalize(n)["strong"] = strong
        /\ Normalize(n)["commit"] = commit
        /\ Normalize(n)["hover"] = Clamp("hover", Smaller(hover, strong - Gap))
    BY NormalizeAt, <1>5, <1>8, ParamNames
  <2>2. Clamp("hover", Smaller(hover, strong - Gap)) = hover
    <3> DEFINE free == Clamp("hover", policy["hover"])
               least == Least4["hover"]
               most == Most4["hover"]
    <3>1. least \in Nat /\ most \in Nat /\ least <= most /\ free \in least..most
      BY <1>1, ParamNames, ClampType
    <3>2. hover = Larger(least, Smaller(most, Smaller(free, strong - Gap)))
      BY DEF Clamp
    <3>3. Clamp("hover", Smaller(hover, strong - Gap))
             = Larger(least, Smaller(most, Smaller(hover, strong - Gap)))
      BY DEF Clamp
    <3> HIDE DEF strong, hover, free, least, most
    <3> QED
      BY <3>1, <3>2, <3>3, <1>1, <1>2, <1>4 DEF Larger, Smaller
  <2>3. DOMAIN Normalize(n) = Params /\ Normalize(n) = [p \in Params |-> Normalize(n)[p]]
    BY NormalizeAt DEF Normalize
  <2> HIDE DEF n
  <2> QED
    BY <2>1, <2>2, <2>3, <1>5, <1>6, ParamNames
<1> QED
  BY <1>7, <1>8, <1>9

(***************************************************************************)
(* The steps of a search                                                   *)
(***************************************************************************)
(* What the tuning of a task may not touch.                                 *)
Untouched(task) == IF task = "topic" THEN {"strong", "hover"} ELSE {"commit"}
Keeps(task, base, policy) == \A p \in Untouched(task) : policy[p] = base[p]

(* Normalising moves nothing untouched, if the base is normal already.      *)
LEMMA NormalizeKeeps ==
    ASSUME NEW task \in {"recipient", "topic"}, NEW policy, NEW base \in [Params -> Nat],
           \A p \in Params : Clamp(p, base[p]) = base[p],
           Normalize(base) = base,
           Keeps(task, base, policy)
    PROVE  Keeps(task, base, Normalize(policy))
<1>1. CASE task = "recipient"
  <2>1. policy["commit"] = base["commit"]
    BY <1>1 DEF Keeps, Untouched
  <2> QED
    BY <2>1, <1>1, NormalizeAt, ParamNames DEF Keeps, Untouched
<1>2. CASE task = "topic"
  <2>1. policy["strong"] = base["strong"] /\ policy["hover"] = base["hover"]
    BY <1>2 DEF Keeps, Untouched
  <2>2. /\ Normalize(policy)["strong"] = Normalize(base)["strong"]
        /\ Normalize(policy)["hover"] = Normalize(base)["hover"]
    BY <2>1, NormalizeAt
  <2> QED
    BY <1>2, <2>2 DEF Keeps, Untouched
<1> QED
  BY <1>1, <1>2

(* A proposal moves only the parameter of its task. *)
LEMMA ProposalKeeps ==
    ASSUME NEW task \in {"recipient", "topic"}, NEW split, NEW policy, NEW base \in [Params -> Nat],
           \A p \in Params : Clamp(p, base[p]) = base[p],
           Normalize(base) = base,
           Keeps(task, base, policy)
    PROVE  Keeps(task, base, Propose(task, split, Normalize(policy), StepPercent))
<1> DEFINE now == Normalize(policy)
           moved(p, v) == [now EXCEPT ![p] = v]
<1>1. Keeps(task, base, now) /\ DOMAIN now = Params
  BY NormalizeKeeps, NormalizeAt
<1>2. ASSUME NEW v
      PROVE  Keeps("topic", base, now) => Keeps("topic", base, moved("commit", v))
  BY <1>1, ParamNames DEF Keeps, Untouched
<1>3. ASSUME NEW v
      PROVE  Keeps("recipient", base, now) => Keeps("recipient", base, moved("strong", v))
  BY <1>1, ParamNames DEF Keeps, Untouched
<1> HIDE DEF now
<1>4. CASE task = "topic"
  <2>1. \/ Propose(task, split, now, StepPercent) = now
        \/ \E v : Propose(task, split, now, StepPercent) = Normalize(moved("commit", v))
    BY <1>4 DEF Propose
  <2> QED
    BY <2>1, <1>1, <1>2, <1>4, NormalizeKeeps DEF now
<1>5. CASE task = "recipient"
  <2>1. \/ Propose(task, split, now, StepPercent) = now
        \/ \E v : Propose(task, split, now, StepPercent) = Normalize(moved("strong", v))
    BY <1>5 DEF Propose
  <2> QED
    BY <2>1, <1>1, <1>3, <1>5, NormalizeKeeps DEF now
<1> QED
  BY <1>4, <1>5

(* The cap on the drift moves nothing untouched either. *)
LEMMA CapKeeps ==
    ASSUME NEW task \in {"recipient", "topic"}, NEW proposal, NEW base \in [Params -> Nat],
           \A p \in Params : Clamp(p, base[p]) = base[p],
           Normalize(base) = base,
           Keeps(task, base, proposal)
    PROVE  Keeps(task, base, ClampCumulative(base, proposal, DriftPercent))
<1>1. Keeps(task, base, Normalize(proposal))
  BY NormalizeKeeps
<1>2. SUFFICES ASSUME NEW p \in Untouched(task)
               PROVE  ClampCumulative(base, proposal, DriftPercent)[p] = base[p]
  BY DEF Keeps
<1>3. p \in Params
  BY ParamNames DEF Untouched
<1> DEFINE budget == (base[p] * DriftPercent) \div 100
<1>4. budget \in Nat
  <2>1. base[p] \in Nat /\ DriftPercent \in Nat
    BY <1>3, TuningAssumption DEF TuningAssumption
  <2>2. base[p] * DriftPercent \in Nat
    BY <2>1
  <2> QED
    BY <2>2
<1>5. Normalize(proposal)[p] = base[p]
  BY <1>1 DEF Keeps
<1>6. ClampCumulative(base, proposal, DriftPercent)[p]
         = Clamp(p, Larger(base[p] - budget, Smaller(base[p] + budget, base[p])))
  BY <1>3, <1>5 DEF ClampCumulative
<1> HIDE DEF budget
<1>7. Larger(base[p] - budget, Smaller(base[p] + budget, base[p])) = base[p]
  BY <1>3, <1>4 DEF Larger, Smaller
<1> QED
  BY <1>3, <1>6, <1>7

(* A run of the search of a task, at whatever point it is. *)
Single(S) == \A x, y \in S : x = y
IsSequence(s) == \E S : s \in Seq(S)
RunFields == {"task", "baseline", "current", "split", "holdout", "stalled", "steps", "decision",
              "final", "candidate"}
CandidateOK(task, base, c) ==
    /\ {"params", "baseline", "status"} \subseteq DOMAIN c
    /\ c.baseline = base
    /\ Keeps(task, base, c.params)
    /\ c.status \in {"proposed", "validated"}
RunOK(run, task) ==
    /\ DOMAIN run = RunFields
    /\ run.task = task
    /\ run.baseline = Normalize(host)
    /\ \A policy \in {run.current} \cup run.final : Keeps(task, run.baseline, policy)
    /\ IsSequence(run.steps) /\ Len(run.steps) <= MaxSteps
    /\ run.decision \in Decisions \cup {Undecided}
    /\ Single(run.final) /\ Single(run.candidate)
    /\ \A c \in run.candidate : CandidateOK(task, run.baseline, c)
HostOK == host \in [Params -> Nat]

LEMMA AppendAny ==
    ASSUME NEW s, IsSequence(s), NEW x
    PROVE  IsSequence(Append(s, x)) /\ Len(Append(s, x)) = Len(s) + 1 /\ Len(s) \in Nat
<1>1. PICK S : s \in Seq(S)
  BY DEF IsSequence
<1>2. s \in Seq(S \cup {x})
  BY <1>1
<1>3. Append(s, x) \in Seq(S \cup {x}) /\ Len(Append(s, x)) = Len(s) + 1 /\ Len(s) \in Nat
  BY <1>2
<1> QED
  BY <1>3 DEF IsSequence

LEMMA SingleCardinality ==
    ASSUME NEW S, Single(S)
    PROVE  Cardinality(S) <= 1
<1>1. CASE S = {}
  BY <1>1, FS_EmptySet
<1>2. CASE S # {}
  <2>1. PICK x \in S : TRUE
    BY <1>2
  <2>2. S = {x}
    BY <2>1 DEF Single
  <2> QED
    BY <2>2, FS_Singleton
<1> QED
  BY <1>1, <1>2

(* The host's parameters, normalised, are the base of every run. *)
LEMMA BaseIsNormal ==
    ASSUME HostOK
    PROVE  /\ Normalize(host) \in [Params -> Nat]
           /\ \A p \in Params : Clamp(p, Normalize(host)[p]) = Normalize(host)[p]
           /\ Normalize(Normalize(host)) = Normalize(host)
<1>1. host \in [Params -> Int]
  BY DEF HostOK
<1> QED
  BY <1>1, NormalizeStable

(* A run begins at its base. *)
LEMMA FreshOK ==
    ASSUME HostOK, NEW task \in {"recipient", "topic"}, NEW rows
    PROVE  RunOK(Fresh(task, rows, host), task)
<1> DEFINE run == Fresh(task, rows, host)
<1>1. /\ DOMAIN run = RunFields
      /\ run.task = task /\ run.baseline = Normalize(host) /\ run.current = Normalize(host)
      /\ run.steps = <<>> /\ run.decision = Undecided /\ run.final = {} /\ run.candidate = {}
  BY DEF Fresh, RunFields
<1>2. IsSequence(<<>>) /\ Len(<<>>) <= MaxSteps
  <2>1. <<>> \in Seq({}) /\ Len(<<>>) = 0
    OBVIOUS
  <2> QED
    BY <2>1, TuningAssumption DEF TuningAssumption, IsSequence
<1> HIDE DEF run
<1>3. Keeps(task, Normalize(host), Normalize(host))
  BY DEF Keeps
<1> QED
  BY <1>1, <1>2, <1>3 DEF RunOK, Single, run

(* Stopping hands over a policy the run was allowed to reach. *)
LEMMA StopOK ==
    ASSUME HostOK, NEW task \in {"recipient", "topic"}, NEW run, RunOK(run, task),
           NEW decision \in Decisions, NEW final, Single(final),
           \A policy \in final : Keeps(task, run.baseline, policy)
    PROVE  RunOK(Stop(run, decision, final), task)
<1> DEFINE stopped == [run EXCEPT !.decision = decision, !.final = final]
           kept == {policy \in stopped.final : Drift(stopped.baseline, policy) # {}}
           last == stopped.steps[Len(stopped.steps)]
           handed(policy) == [params |-> Normalize(policy), baseline |-> stopped.baseline,
              status |-> IF stopped.decision \in PromotedDecisions THEN "validated" ELSE "proposed",
              kind |-> last.kind, collateral |-> last.collateral, gain |-> last.gain]
           candidates == {handed(policy) : policy \in kept}
<1>1. Stop(run, decision, final) = [stopped EXCEPT !.candidate = candidates]
  BY DEF Stop, Finalise
<1>2. /\ DOMAIN stopped = RunFields /\ stopped.task = task
      /\ stopped.baseline = Normalize(host) /\ stopped.current = run.current
      /\ stopped.steps = run.steps /\ stopped.decision = decision /\ stopped.final = final
      /\ run.baseline = Normalize(host)
  BY DEF RunOK, RunFields
<1>3. ASSUME NEW policy \in kept
      PROVE  CandidateOK(task, Normalize(host), handed(policy))
  <2>1. Keeps(task, Normalize(host), policy)
    BY <1>2
  <2>2. Keeps(task, Normalize(host), Normalize(policy))
    BY <2>1, BaseIsNormal, NormalizeKeeps
  <2> QED
    BY <1>2, <2>2 DEF CandidateOK
<1>4. \A c \in candidates : CandidateOK(task, Normalize(host), c)
  BY <1>3
<1>5. Single(candidates)
  <2>1. \A p, q \in kept : p = q
    BY <1>2 DEF Single
  <2> HIDE DEF kept, handed
  <2> QED
    BY <2>1 DEF Single
<1> HIDE DEF stopped, candidates
<1> DEFINE result == [stopped EXCEPT !.candidate = candidates]
<1>6. /\ DOMAIN result = RunFields /\ result.task = task
      /\ result.baseline = Normalize(host) /\ result.current = run.current
      /\ result.steps = run.steps /\ result.decision = decision /\ result.final = final
      /\ result.candidate = candidates
  BY <1>2 DEF RunFields
<1> HIDE DEF result
<1> QED
  BY <1>1, <1>2, <1>4, <1>5, <1>6 DEF RunOK, result

(* A step is counted, and adopted or not. *)
LEMMA StepOK ==
    ASSUME NEW task \in {"recipient", "topic"}, NEW run, RunOK(run, task),
           Len(run.steps) < MaxSteps, NEW step, Keeps(task, run.baseline, step.policy)
    PROVE  /\ RunOK(With(run, step), task)
           /\ RunOK(Adopt(run, step), task)
           /\ RunOK(Continued(run, step), task)
<1>1. /\ IsSequence(Append(run.steps, step)) /\ Len(Append(run.steps, step)) <= MaxSteps
  <2>1. MaxSteps \in Int
    BY TuningAssumption DEF TuningAssumption
  <2> QED
    BY <2>1, AppendAny DEF RunOK
<1> DEFINE with == With(run, step)
<1>2. /\ DOMAIN with = RunFields /\ with.task = task /\ with.baseline = run.baseline
      /\ with.current = run.current /\ with.steps = Append(run.steps, step)
      /\ with.decision = run.decision /\ with.final = run.final
      /\ with.candidate = run.candidate
  BY DEF RunOK, RunFields, With
<1> HIDE DEF with
<1>3. RunOK(with, task)
  BY <1>1, <1>2 DEF RunOK
<1> DEFINE adopted == Adopt(run, step)
<1>4. /\ DOMAIN adopted = RunFields /\ adopted.task = task /\ adopted.baseline = run.baseline
      /\ adopted.current = step.policy /\ adopted.steps = Append(run.steps, step)
      /\ adopted.decision = run.decision /\ adopted.final = run.final
      /\ adopted.candidate = run.candidate
  BY <1>2 DEF RunFields, Adopt, with
<1> HIDE DEF adopted
<1>5. RunOK(adopted, task)
  BY <1>1, <1>4 DEF RunOK
<1> DEFINE continued == Continued(run, step)
<1>6. /\ DOMAIN continued = RunFields /\ continued.task = task
      /\ continued.baseline = run.baseline
      /\ continued.current = step.policy /\ continued.steps = Append(run.steps, step)
      /\ continued.decision = run.decision /\ continued.final = run.final
      /\ continued.candidate = run.candidate
  BY <1>4 DEF RunFields, Continued, adopted
<1> HIDE DEF continued
<1>7. RunOK(continued, task)
  BY <1>1, <1>6 DEF RunOK
<1> QED
  BY <1>3, <1>5, <1>7 DEF with, adopted, continued

(* Whatever the verdict on a step, the run stays within its task. *)
LEMMA JudgedOK ==
    ASSUME HostOK, NEW task \in {"recipient", "topic"}, NEW run, RunOK(run, task),
           Len(run.steps) < MaxSteps, NEW step, Keeps(task, run.baseline, step.policy),
           NEW clamped
    PROVE  RunOK(Judged(run, step, clamped), task)
<1>1. RunOK(With(run, step), task) /\ RunOK(Adopt(run, step), task)
      /\ RunOK(Continued(run, step), task)
  BY StepOK
<1>2. /\ With(run, step).baseline = run.baseline /\ Adopt(run, step).baseline = run.baseline
      /\ Keeps(task, run.baseline, run.baseline) /\ Keeps(task, run.baseline, run.current)
  BY <1>1 DEF RunOK, Keeps
<1>3. {"rollback", "reject", "strong_promote", "promote", "needs_review"} \subseteq Decisions
  BY DEF Decisions, PromotedDecisions
<1>4. RunOK(RolledBack(run, step), task)
  <2>1. Single({run.baseline})
    BY DEF Single
  <2> QED
    BY <1>1, <1>2, <1>3, <2>1, StopOK DEF RolledBack
<1>5. RunOK(Rejected(run, step), task)
  <2>1. Single({run.current} \ {run.baseline})
    BY DEF Single
  <2> QED
    BY <1>1, <1>2, <1>3, <2>1, StopOK DEF Rejected
<1>6. ASSUME NEW decision \in {"strong_promote", "promote", "needs_review"}
      PROVE  RunOK(Accepted(run, step, decision), task)
  <2>1. Single({step.policy})
    BY DEF Single
  <2> QED
    BY <1>1, <1>2, <1>3, <2>1, StopOK DEF Accepted
<1> QED
  BY <1>1, <1>4, <1>5, <1>6 DEF Judged

LEMMA ConcludedOK ==
    ASSUME HostOK, NEW task \in {"recipient", "topic"}, NEW run, RunOK(run, task)
    PROVE  RunOK(Concluded(run), task)
<1>1. RunOK(Stop(run, "no_change", {}), task)
  BY StopOK DEF Single, Decisions
<1>2. RunOK(Stop(run, "candidate", {run.current}), task)
  <2>1. Single({run.current}) /\ Keeps(task, run.baseline, run.current)
    BY DEF Single, RunOK
  <2> QED
    BY <2>1, StopOK DEF Decisions
<1> QED
  BY <1>1, <1>2 DEF Concluded

LEMMA TurnedOK ==
    ASSUME HostOK, NEW task \in {"recipient", "topic"}, NEW run, RunOK(run, task)
    PROVE  RunOK(Turned(run), task)
<1> DEFINE proposal == Proposal(run)
           target == Target(run, proposal)
<1>1. Keeps(task, run.baseline, proposal)
  BY BaseIsNormal, ProposalKeeps DEF RunOK, Proposal
<1>2. Keeps(task, run.baseline, target)
  BY <1>1, BaseIsNormal, CapKeeps DEF RunOK, Target
<1>3. Measure(run, target).policy = target
  BY DEF Measure
<1> HIDE DEF proposal, target
<1>4. CASE CanStep(run, proposal)
  <2>1. Len(run.steps) < MaxSteps
    BY <1>4 DEF CanStep
  <2>2. RunOK(Judged(run, Measure(run, target), target # Normalize(proposal)), task)
    BY <1>2, <1>3, <2>1, JudgedOK
  <2> QED
    BY <1>4, <2>2 DEF Turned, proposal, target
<1>5. CASE ~CanStep(run, proposal)
  BY <1>5, ConcludedOK DEF Turned, proposal
<1> QED
  BY <1>4, <1>5

(***************************************************************************)
(* What is set aside                                                       *)
(***************************************************************************)
LEMMA SplitApart ==
    ASSUME NEW rows, NEW percent
    PROVE  LET split == SplitBySession(rows, percent)
           IN  /\ split.train \cup split.holdout = rows
               /\ Sessions(split.train) \cap Sessions(split.holdout) = {}
<1> DEFINE all == Sessions(rows)
           count == Cardinality(all)
           wanted == Larger(1, Smaller(count - 1, RoundDiv(count * percent, 100)))
           picked == {(i * count) \div wanted : i \in 0..(wanted - 1)}
           rank(s) == Cardinality({x \in all : x < s})
           out == {r \in rows : rank(r.session) \in picked}
<1>1. \/ SplitBySession(rows, percent) = [train |-> rows, holdout |-> {}]
      \/ SplitBySession(rows, percent) = [train |-> rows \ out, holdout |-> out]
  BY DEF SplitBySession
<1> HIDE DEF rank, picked
<1> QED
  BY <1>1 DEF Sessions

LEMMA ReservedApart ==
    ASSUME NEW rows, NEW forward
    PROVE  LET set == Reserved(rows, forward)
           IN  /\ set.development \cup set.session \cup set.future = rows
               /\ Sessions(set.session) \cap Sessions(set.development) = {}
               /\ \A r \in set.development \cup set.session :
                      \A q \in set.future : Message(r) # Message(q)
<1> DEFINE newest == IF forward THEN SplitByTime(rows, FuturePercent).holdout ELSE {}
           future == {r \in rows : Message(r) \in {Message(q) : q \in newest}}
           split == SplitBySession(rows \ future, HoldoutPercent)
<1>1. Reserved(rows, forward) =
         [development |-> split.train, session |-> split.holdout, future |-> future]
  BY DEF Reserved
<1>2. /\ split.train \cup split.holdout = rows \ future
      /\ Sessions(split.train) \cap Sessions(split.holdout) = {}
  BY SplitApart
<1> HIDE DEF split, newest
<1>3. \A r \in rows \ future : \A q \in future : Message(r) # Message(q)
  OBVIOUS
<1> QED
  BY <1>1, <1>2, <1>3

LEMMA ReserveSetsApart ==
    ASSUME context = Reserved(samples, options.forward)
    PROVE  HoldoutsApart
<1>1. /\ context.development \cup context.session \cup context.future = samples
      /\ Sessions(context.session) \cap Sessions(context.development) = {}
      /\ \A r \in context.development \cup context.session :
            \A q \in context.future : Message(r) # Message(q)
  BY ReservedApart
<1>2. \A r \in context.development : \A q \in context.session : Message(r) # Message(q)
  BY <1>1 DEF Sessions, Message
<1> QED
  BY <1>1, <1>2 DEF HoldoutsApart

(***************************************************************************)
(* Once an analysis has set its samples apart, no message a search may     *)
(* train on is measured in the frozen future window, nor a session held    *)
(* out for candidates shared with the development samples, whatever the    *)
(* samples are (report._reserve_future, evaluator.split_sessions).         *)
(***************************************************************************)
THEOREM HoldoutsStayApart == Spec => [](phase # "reserve" => HoldoutsApart)
<1> DEFINE Inv == phase # "reserve" => context = Reserved(samples, options.forward)
<1>1. Init => Inv
  BY DEF Init
<1>2. Inv /\ [Next]_vars => Inv'
  BY DEF vars, Next, Reserve, Learn, Evaluate, BeginRun, TuneStep, EndTuning, FinalizeSingle,
         FinalizeRuns, Annotate, Record, Done
<1>3. Inv => (phase # "reserve" => HoldoutsApart)
  BY ReserveSetsApart
<1> QED
  BY <1>1, <1>2, <1>3, PTL DEF Spec

(***************************************************************************)
(* The whole analysis                                                      *)
(***************************************************************************)
Own(task) == IF task = "topic" THEN "commit" ELSE "strong"
Supported(run) ==
    \A c \in run.candidate : c.status = "validated" => Own(run.task) \in Drift(c.baseline, c.params)
Recordable(c) == {"params", "baseline", "status"} \subseteq DOMAIN c
                 /\ c.status \in {"proposed", "validated"}

RunsOK ==
    /\ IsSequence(runs) /\ Len(runs) \in 0..2
    /\ \A i \in 1..Len(runs) : RunOK(runs[i], Tasks[i])
AdviceOK(row) == {"param", "before", "after", "actionable"} \subseteq DOMAIN row
                 /\ row.param \in {"strong", "commit"}
Late == {"annotate", "record", "done"}
AfterTuning == {"final_single", "final_runs"} \cup Late
AnalysisInv ==
    /\ phase \in Phases
    /\ HostOK
    /\ DOMAIN options = {"forward", "interval", "gate", "evaluation", "tuning"}
    /\ context = IF phase = "reserve" THEN NoContext ELSE Reserved(samples, options.forward)
    /\ verdict \in {"not_run", "insufficient", "rejected", "accepted"}
    /\ RunsOK
    /\ options.tuning /\ phase \in AfterTuning => Len(runs) = 2
    /\ phase \in Late => \A i \in 1..Len(runs) : Supported(runs[i])
    /\ phase \in {"final_runs"} \cup Late => \A c \in single : Recordable(c)
    /\ \A row \in advice : AdviceOK(row)
    /\ \A c \in recorded : c.status \in {"proposed", "validated"}
    /\ ActionableIsSupported

LEMMA TaskNames == Tasks[1] = "recipient" /\ Tasks[2] = "topic" /\ Len(Tasks) = 2
BY DEF Tasks

LEMMA RunsDomain ==
    ASSUME IsSequence(runs)
    PROVE  DOMAIN runs = 1..Len(runs) /\ Len(runs) \in Nat
BY DEF IsSequence

(* An accepted candidate moved a parameter that a replay can show, so, if   *)
(* everything but its task's own is untouched, that one.                    *)
LEMMA AcceptedMoves ==
    ASSUME HostOK, NEW task \in {"recipient", "topic"}, NEW c,
           CandidateOK(task, Normalize(host), c), NEW interval,
           Gate(c, interval) = "accepted"
    PROVE  Own(task) \in Drift(c.baseline, c.params)
<1> DEFINE tasks == {r.task : r \in samples}
           changed == Drift(c.baseline, c.params)
           plan == Plan(c.params, c.baseline)
<1>1. Verdict(c.params, c.baseline, tasks, context.session) = "accepted"
  BY DEF Gate, PromotionCheck
<1>2. plan.unsupported = {} /\ plan.targets # <<>>
  BY <1>1 DEF Verdict
<1>3. changed \subseteq {"strong", "commit"}
  BY <1>2 DEF Plan
<1>4. "strong" \in changed \/ "commit" \in changed
  BY <1>2 DEF Plan
<1>5. Keeps(task, Normalize(host), c.params) /\ c.baseline = Normalize(host)
  BY DEF CandidateOK
<1>6. Keeps(task, Normalize(host), Normalize(c.params))
  BY <1>5, BaseIsNormal, NormalizeKeeps
<1>7. CASE task = "topic"
  <2>1. "strong" \notin changed
    BY <1>5, <1>6, <1>7, BaseIsNormal DEF Drift, Keeps, Untouched
  <2> QED
    BY <1>4, <1>7, <2>1 DEF Own
<1>8. CASE task = "recipient"
  <2>1. "commit" \notin changed
    BY <1>5, <1>6, <1>8, BaseIsNormal DEF Drift, Keeps, Untouched
  <2> QED
    BY <1>4, <1>8, <2>1 DEF Own
<1> QED
  BY <1>7, <1>8

LEMMA GateType ==
    ASSUME NEW c, NEW interval
    PROVE  Gate(c, interval) \in {"insufficient", "rejected", "accepted"}
<1> DEFINE tasks == {r.task : r \in samples}
<1>1. \A holdout : Verdict(c.params, c.baseline, tasks, holdout)
                     \in {"insufficient", "rejected", "accepted"}
  BY DEF Verdict
<1> QED
  BY <1>1 DEF Gate, PromotionCheck

(* The final measurement of a run. *)
LEMMA FinalRunOK ==
    ASSUME HostOK, NEW task \in {"recipient", "topic"}, NEW run, RunOK(run, task), NEW interval
    PROVE  RunOK(FinalRun(run, interval), task) /\ Supported(FinalRun(run, interval))
<1>1. CASE run.candidate = {}
  BY <1>1 DEF FinalRun, Supported
<1>2. CASE run.candidate # {}
  <2> DEFINE c == CHOOSE x \in run.candidate : TRUE
             gate == Gate(c, interval)
             measured == [c EXCEPT !.status = Final(gate)]
             decision == IF Final(gate) = "validated" THEN run.decision
                         ELSE IF gate = "rejected" THEN "reject" ELSE "insufficient"
             result == [run EXCEPT !.candidate = {measured}, !.decision = decision]
  <2>1. FinalRun(run, interval) = result
    BY <1>2 DEF FinalRun
  <2>2. CandidateOK(task, Normalize(host), c)
    BY <1>2 DEF RunOK
  <2>3. Final(gate) \in {"proposed", "validated"}
        /\ (Final(gate) = "validated" => gate = "accepted")
    BY DEF Final
  <2> HIDE DEF c
  <2>4. /\ DOMAIN measured = DOMAIN c /\ measured.params = c.params
        /\ measured.baseline = c.baseline /\ measured.status = Final(gate)
    BY <2>2 DEF CandidateOK
  <2> HIDE DEF gate
  <2>5. decision \in Decisions \cup {Undecided}
    BY DEF Decisions, RunOK
  <2> HIDE DEF measured, decision
  <2>6. /\ DOMAIN result = RunFields /\ result.task = task
        /\ result.baseline = Normalize(host) /\ result.current = run.current
        /\ result.steps = run.steps /\ result.decision = decision /\ result.final = run.final
        /\ result.candidate = {measured} /\ run.baseline = Normalize(host)
    BY DEF RunFields, RunOK
  <2>7. CandidateOK(task, Normalize(host), measured)
    BY <2>2, <2>3, <2>4 DEF CandidateOK
  <2>8. Single({measured})
    BY DEF Single
  <2> HIDE DEF result
  <2>9. RunOK(result, task)
    BY <2>5, <2>6, <2>7, <2>8 DEF RunOK
  <2>10. measured.status = "validated" => Own(task) \in Drift(measured.baseline, measured.params)
    BY <2>2, <2>3, <2>4, AcceptedMoves DEF gate
  <2> QED
    BY <2>1, <2>6, <2>9, <2>10 DEF Supported
<1> QED
  BY <1>1, <1>2

LEMMA AnalysisInitially == Init => AnalysisInv
<1> SUFFICES ASSUME Init PROVE AnalysisInv
  OBVIOUS
<1>1. PICK met \in Situations : host = met.host /\ options = met.options
  BY DEF Init
<1>2. HostOK /\ DOMAIN options = {"forward", "interval", "gate", "evaluation", "tuning"}
  BY <1>1, SituationsAssumption DEF SituationsAssumption, HostOK
<1>3. RunsOK
  <2>1. <<>> \in Seq({}) /\ Len(<<>>) = 0
    OBVIOUS
  <2> QED
    BY <2>1 DEF Init, RunsOK, IsSequence
<1> QED
  BY <1>2, <1>3
     DEF Init, AnalysisInv, Phases, AfterTuning, Late, ActionableIsSupported

LEMMA ReserveStep == AnalysisInv /\ Reserve => AnalysisInv'
BY DEF AnalysisInv, Reserve, Phases, AfterTuning, Late, ActionableIsSupported, HostOK, RunsOK, RunOK

LEMMA LearnStep == AnalysisInv /\ Learn => AnalysisInv'
<1> SUFFICES ASSUME AnalysisInv, Learn PROVE AnalysisInv'
  OBVIOUS
<1>1. \A p, target, support : p \in {"strong", "commit"} => AdviceOK(Proposed(p, target, support))
  BY DEF AdviceOK, Proposed
<1>2. \A row \in advice' : AdviceOK(row)
  BY <1>1 DEF Learn, RecipientAdvice, TopicAdvice
<1> QED
  BY <1>2 DEF AnalysisInv, Learn, Phases, AfterTuning, Late, ActionableIsSupported, HostOK, RunsOK,
              RunOK

LEMMA EvaluateStep == AnalysisInv /\ Evaluate => AnalysisInv'
BY DEF AnalysisInv, Evaluate, Phases, AfterTuning, Late, ActionableIsSupported, HostOK, RunsOK, RunOK

(* The searches of the next state, each judged against the host of this one. *)
LEMMA RunsBuilt ==
    ASSUME host' = host, IsSequence(runs'), Len(runs') \in 0..2,
           \A i \in 1..Len(runs') : RunOK(runs'[i], Tasks[i])
    PROVE  RunsOK'
BY DEF RunsOK, RunOK

LEMMA BeginRunStep == AnalysisInv /\ BeginRun => AnalysisInv'
<1> SUFFICES ASSUME AnalysisInv, BeginRun PROVE AnalysisInv'
  OBVIOUS
<1> DEFINE n == Len(runs)
           task == Tasks[n + 1]
           fresh == Fresh(task, context.development, host)
           run == IF Starved(fresh) THEN Stop(fresh, "insufficient", {}) ELSE fresh
<1>1. n \in {0, 1} /\ task \in {"recipient", "topic"}
  BY TaskNames DEF AnalysisInv, RunsOK, BeginRun
<1>2. runs' = Append(runs, run)
  BY DEF BeginRun
<1>3. RunOK(fresh, task)
  BY <1>1, FreshOK DEF AnalysisInv
<1>4. RunOK(run, task)
  BY <1>1, <1>3, StopOK DEF AnalysisInv, Single, Decisions
<1> HIDE DEF run
<1>5. IsSequence(runs') /\ Len(runs') = n + 1
  BY <1>2, AppendAny DEF AnalysisInv, RunsOK
<1>6. \A i \in 1..(n + 1) : runs'[i] = IF i = n + 1 THEN run ELSE runs[i]
  BY <1>2 DEF AnalysisInv, RunsOK, IsSequence
<1>7. RunsOK'
  <2>1. Len(runs') \in 0..2
    <3>1. n \in {0, 1} /\ Len(runs') = n + 1
      BY <1>1, <1>5
    <3> HIDE DEF n
    <3> QED
      BY <3>1
  <2>2. ASSUME NEW i \in 1..(n + 1)
        PROVE  RunOK(runs'[i], Tasks[i])
    <3>1. CASE i = n + 1
      BY <1>4, <1>6, <3>1
    <3>2. CASE i # n + 1
      <4>1. i \in 1..n /\ runs'[i] = runs[i]
        BY <1>1, <1>6, <3>2
      <4> QED
        BY <4>1 DEF AnalysisInv, RunsOK
    <3> QED
      BY <3>1, <3>2
  <2>3. host' = host
    BY DEF BeginRun
  <2>4. \A i \in 1..Len(runs') : RunOK(runs'[i], Tasks[i])
    BY <1>5, <2>2
  <2> QED
    BY <1>5, <2>1, <2>3, <2>4, RunsBuilt
<1>8. phase' = "tune" /\ phase = "tune"
  BY DEF BeginRun
<1>9. ActionableIsSupported'
  BY <1>8 DEF ActionableIsSupported
<1> QED
  BY <1>7, <1>8, <1>9 DEF AnalysisInv, BeginRun, AfterTuning, Late, HostOK

LEMMA TuneStepStep == AnalysisInv /\ TuneStep => AnalysisInv'
<1> SUFFICES ASSUME AnalysisInv, TuneStep PROVE AnalysisInv'
  OBVIOUS
<1> DEFINE n == Len(runs)
<1>1. n \in {1, 2} /\ DOMAIN runs = 1..n
  BY RunsDomain DEF AnalysisInv, RunsOK, TuneStep, Working
<1>2. RunOK(Turned(runs[n]), Tasks[n])
  BY <1>1, TaskNames, TurnedOK DEF AnalysisInv, RunsOK
<1>3. runs' = [runs EXCEPT ![n] = Turned(runs[n])]
  BY DEF TuneStep
<1>4. IsSequence(runs') /\ Len(runs') = n
  <2>1. PICK S : runs \in Seq(S)
    BY DEF AnalysisInv, RunsOK, IsSequence
  <2>2. runs' \in Seq(S \cup {Turned(runs[n])}) /\ Len(runs') = n
    BY <1>1, <1>3, <2>1
  <2> QED
    BY <2>2 DEF IsSequence
<1>5. RunsOK'
  <2>1. \A i \in 1..n : RunOK(runs'[i], Tasks[i])
    BY <1>1, <1>2, <1>3 DEF AnalysisInv, RunsOK
  <2>2. host' = host
    BY DEF TuneStep
  <2> QED
    BY <1>1, <1>4, <2>1, <2>2 DEF RunsOK, RunOK
<1> QED
  BY <1>5 DEF AnalysisInv, TuneStep, Phases, AfterTuning, Late, ActionableIsSupported, HostOK

LEMMA EndTuningStep == AnalysisInv /\ EndTuning => AnalysisInv'
<1> SUFFICES ASSUME AnalysisInv, EndTuning PROVE AnalysisInv'
  OBVIOUS
<1> QED
  BY TaskNames DEF AnalysisInv, EndTuning, Phases, AfterTuning, Late, ActionableIsSupported, HostOK,
                   RunsOK, RunOK

LEMMA FinalizeSingleStep == AnalysisInv /\ FinalizeSingle => AnalysisInv'
<1> SUFFICES ASSUME AnalysisInv, FinalizeSingle PROVE AnalysisInv'
  OBVIOUS
<1>1. verdict' \in {"not_run", "insufficient", "rejected", "accepted"}
  BY GateType DEF AnalysisInv, FinalizeSingle
<1>2. \A c \in single' : Recordable(c)
  BY DEF FinalizeSingle, Recordable, Final
<1> QED
  BY <1>1, <1>2 DEF AnalysisInv, FinalizeSingle, Phases, AfterTuning, Late, ActionableIsSupported,
                    HostOK, RunsOK, RunOK

LEMMA FinalizeRunsStep == AnalysisInv /\ FinalizeRuns => AnalysisInv'
<1> SUFFICES ASSUME AnalysisInv, FinalizeRuns PROVE AnalysisInv'
  OBVIOUS
<1>1. DOMAIN runs = 1..Len(runs) /\ Len(runs) \in 0..2
  BY RunsDomain DEF AnalysisInv, RunsOK
<1>2. PICK interval : runs' = [i \in DOMAIN runs |-> FinalRun(runs[i], interval[i])]
  BY DEF FinalizeRuns
<1>3. ASSUME NEW i \in 1..Len(runs)
      PROVE  RunOK(FinalRun(runs[i], interval[i]), Tasks[i])
             /\ Supported(FinalRun(runs[i], interval[i]))
  BY <1>1, TaskNames, FinalRunOK DEF AnalysisInv, RunsOK
<1>4. IsSequence(runs') /\ Len(runs') = Len(runs)
  <2> DEFINE S == {FinalRun(runs[i], interval[i]) : i \in 1..Len(runs)}
  <2>1. runs' \in [1..Len(runs) -> S]
    BY <1>1, <1>2
  <2> HIDE DEF S
  <2>2. runs' \in Seq(S) /\ Len(runs') = Len(runs)
    BY <1>1, <2>1
  <2> QED
    BY <2>2 DEF IsSequence
<1>5. RunsOK' /\ \A i \in 1..Len(runs') : Supported(runs'[i])
  <2>1. host' = host
    BY DEF FinalizeRuns
  <2> QED
    BY <1>1, <1>2, <1>3, <1>4, <2>1 DEF RunsOK, RunOK
<1> QED
  BY <1>4, <1>5 DEF AnalysisInv, FinalizeRuns, Phases, AfterTuning, Late, ActionableIsSupported, HostOK

LEMMA AnnotateStep == AnalysisInv /\ Annotate => AnalysisInv'
<1> SUFFICES ASSUME AnalysisInv, Annotate PROVE AnalysisInv'
  OBVIOUS
<1>1. DOMAIN runs = 1..Len(runs) /\ Len(runs) \in 0..2
  BY RunsDomain DEF AnalysisInv, RunsOK
<1>2. ASSUME NEW row \in advice
      PROVE  AdviceOK(Annotated(row)) /\ Annotated(row).param = row.param
             /\ (Annotated(row).actionable =>
                     options.gate /\ \A run \in RunOf(row.param) : Agrees(row, run))
  BY DEF AnalysisInv, AdviceOK, Annotated
<1>3. \A row \in advice' : AdviceOK(row)
  BY <1>2 DEF Annotate
<1>4. CASE options.gate
  <2>1. runs' = runs
    BY <1>4 DEF Annotate
  <2>2. ASSUME options.tuning, NEW row \in advice, Annotated(row).actionable
        PROVE  \E run \in RunOf(row.param) : \E c \in run.candidate :
                  c.status = "validated" /\ row.param \in Drift(run.baseline, c.params)
    <3> DEFINE k == IF row.param = "commit" THEN 2 ELSE 1
    <3>1. k \in 1..Len(runs) /\ Len(runs) = 2 /\ row.param \in {"strong", "commit"}
      BY <2>2 DEF AnalysisInv, AfterTuning, Late, AdviceOK, Annotate
    <3>2. runs[k].task = Tasks[k] /\ RunOK(runs[k], Tasks[k])
      BY <3>1 DEF AnalysisInv, RunsOK, RunOK
    <3>3. runs[k] \in RunOf(row.param) /\ Own(runs[k].task) = row.param
      BY <1>1, <3>1, <3>2, TaskNames DEF RunOf, Own
    <3>4. PICK c \in runs[k].candidate : c.status = "validated"
      BY <1>2, <2>2, <3>3 DEF Agrees
    <3>5. Supported(runs[k]) /\ c.baseline = runs[k].baseline
      BY <3>1, <3>2, <3>4 DEF AnalysisInv, Late, Annotate, RunOK, CandidateOK
    <3> QED
      BY <3>3, <3>4, <3>5 DEF Supported
  <2>3. ActionableIsSupported'
    <3>1. \A param : RunOf(param)' = RunOf(param)
      BY <2>1 DEF RunOf
    <3>2. advice' = {Annotated(row) : row \in advice} /\ options' = options
      BY DEF Annotate
    <3>3. ASSUME options.tuning, NEW told \in advice', told.actionable
          PROVE  \E run \in RunOf(told.param) : \E c \in run.candidate :
                    c.status = "validated" /\ told.param \in Drift(run.baseline, c.params)
      <4>1. PICK row \in advice : told = Annotated(row)
        BY <3>2
      <4> QED
        BY <1>2, <2>2, <3>3, <4>1
    <3> QED
      BY <3>1, <3>2, <3>3 DEF ActionableIsSupported
  <2>4. RunsOK'
    BY <2>1 DEF AnalysisInv, Annotate, RunsOK, RunOK
  <2> QED
    BY <1>3, <2>1, <2>3, <2>4 DEF AnalysisInv, Annotate, Phases, AfterTuning, Late, HostOK
<1>5. CASE ~options.gate
  <2> DEFINE lowered(i) == [runs[i] EXCEPT !.candidate =
                               {[c EXCEPT !.status = "proposed"] : c \in runs[i].candidate}]
  <2>1. runs' = [i \in DOMAIN runs |-> lowered(i)]
    BY <1>5 DEF Annotate
  <2>2. ASSUME NEW i \in 1..Len(runs)
        PROVE  RunOK(lowered(i), Tasks[i]) /\ Supported(lowered(i))
    <3> DEFINE run == runs[i]
               marked(c) == [c EXCEPT !.status = "proposed"]
               marks == {marked(c) : c \in run.candidate}
    <3>1. RunOK(run, Tasks[i])
      BY DEF AnalysisInv, RunsOK
    <3>2. \A c \in run.candidate :
             CandidateOK(Tasks[i], run.baseline, marked(c)) /\ marked(c).status = "proposed"
      BY <3>1 DEF RunOK, CandidateOK
    <3>3. Single(marks)
      BY <3>1 DEF RunOK, Single
    <3> HIDE DEF marked
    <3>4. \A c \in marks : CandidateOK(Tasks[i], run.baseline, c) /\ c.status = "proposed"
      BY <3>2
    <3> HIDE DEF marks
    <3> DEFINE result == [run EXCEPT !.candidate = marks]
    <3>5. /\ DOMAIN result = RunFields /\ result.task = run.task
          /\ result.baseline = run.baseline /\ result.current = run.current
          /\ result.steps = run.steps /\ result.decision = run.decision
          /\ result.final = run.final /\ result.candidate = marks
      BY <3>1 DEF RunOK, RunFields
    <3>6. lowered(i) = result
      BY DEF marks, marked
    <3> HIDE DEF result, run
    <3>7. RunOK(result, Tasks[i]) /\ Supported(result)
      BY <3>1, <3>3, <3>4, <3>5 DEF RunOK, Supported
    <3> QED
      BY <3>6, <3>7
  <2>3. IsSequence(runs') /\ Len(runs') = Len(runs)
    <3> DEFINE S == {lowered(i) : i \in 1..Len(runs)}
    <3>1. runs' \in [1..Len(runs) -> S]
      BY <1>1, <2>1
    <3> HIDE DEF S
    <3>2. runs' \in Seq(S) /\ Len(runs') = Len(runs)
      BY <1>1, <3>1
    <3> QED
      BY <3>2 DEF IsSequence
  <2> HIDE DEF lowered
  <2>4. RunsOK' /\ \A i \in 1..Len(runs') : Supported(runs'[i])
    <3>1. host' = host
      BY DEF Annotate
    <3> QED
      BY <1>1, <2>1, <2>2, <2>3, <3>1 DEF RunsOK, RunOK
  <2>5. ActionableIsSupported'
    BY <1>2, <1>5 DEF ActionableIsSupported, Annotate
  <2> QED
    BY <1>3, <2>3, <2>4, <2>5 DEF AnalysisInv, Annotate, Phases, AfterTuning, Late, HostOK
<1> QED
  BY <1>4, <1>5

LEMMA RecordStep == AnalysisInv /\ Record => AnalysisInv'
<1> SUFFICES ASSUME AnalysisInv, Record PROVE AnalysisInv'
  OBVIOUS
<1>1. DOMAIN runs = 1..Len(runs)
  BY RunsDomain DEF AnalysisInv, RunsOK
<1>2. \A i \in DOMAIN runs : \A c \in runs[i].candidate : c.status \in {"proposed", "validated"}
  BY <1>1 DEF AnalysisInv, RunsOK, RunOK, CandidateOK
<1>3. \A c \in single : c.status \in {"proposed", "validated"}
  BY DEF AnalysisInv, Record, Late, Recordable
<1>4. \A c \in recorded' : c.status \in {"proposed", "validated"}
  BY <1>2, <1>3 DEF Record
<1>5. ActionableIsSupported'
  BY DEF AnalysisInv, ActionableIsSupported, Record, RunOf
<1> QED
  BY <1>4, <1>5 DEF AnalysisInv, Record, Phases, AfterTuning, Late, HostOK, RunsOK, RunOK

LEMMA AnalysisStep == AnalysisInv /\ [Next]_vars => AnalysisInv'
<1>1. AnalysisInv /\ UNCHANGED vars => AnalysisInv'
  <2> SUFFICES ASSUME AnalysisInv, UNCHANGED vars PROVE AnalysisInv'
    OBVIOUS
  <2>1. RunsOK' /\ HostOK'
    BY DEF vars, AnalysisInv, RunsOK, RunOK, HostOK
  <2>2. ActionableIsSupported'
    BY DEF vars, AnalysisInv, ActionableIsSupported, RunOf
  <2> QED
    BY <2>1, <2>2 DEF vars, AnalysisInv
<1> QED
  BY <1>1, ReserveStep, LearnStep, EvaluateStep, BeginRunStep, TuneStepStep, EndTuningStep,
     FinalizeSingleStep, FinalizeRunsStep, AnnotateStep, RecordStep DEF Next, Done

LEMMA AnalysisAlways == Spec => []AnalysisInv
BY AnalysisInitially, AnalysisStep, PTL DEF Spec

(* Types, and the bounds on what a run keeps (run_tuning, _finalise).       *)
THEOREM AnalysisTypes == Spec => []AnalysisTypeOK
<1>1. AnalysisInv => AnalysisTypeOK
  <2> SUFFICES ASSUME AnalysisInv PROVE AnalysisTypeOK
    OBVIOUS
  <2>1. context.development \cup context.session \cup context.future \subseteq samples
    BY ReservedApart DEF AnalysisInv, NoContext
  <2>2. DOMAIN runs = 1..Len(runs)
    BY RunsDomain DEF AnalysisInv, RunsOK
  <2>3. \A i \in DOMAIN runs :
          /\ runs[i].task = Tasks[i]
          /\ runs[i].decision \in Decisions \cup {Undecided}
          /\ Len(runs[i].steps) <= MaxSteps
          /\ Cardinality(runs[i].final) <= 1 /\ Cardinality(runs[i].candidate) <= 1
    BY <2>2, SingleCardinality DEF AnalysisInv, RunsOK, RunOK
  <2> QED
    BY <2>1, <2>3 DEF AnalysisInv, AnalysisTypeOK
<1> QED
  BY <1>1, AnalysisAlways, PTL

(* A number the console may apply names a parameter that a validated run of *)
(* its own task moved, whatever the corpus and the host (_annotate).        *)
THEOREM ActionableSupported == Spec => []ActionableIsSupported
<1>1. AnalysisInv => ActionableIsSupported
  BY DEF AnalysisInv
<1> QED
  BY <1>1, AnalysisAlways, PTL

(***************************************************************************)
(* Numbers                                                                 *)
(***************************************************************************)
(* A rounded quotient is the nearest integer, and grows with its dividend.  *)
LEMMA Divides ==
    ASSUME NEW a \in Int, NEW b \in Nat \ {0}
    PROVE  /\ a \div b \in Int /\ a % b \in 0..(b - 1)
           /\ a = b * (a \div b) + (a % b)
<1>1. a \div b \in Int
  OBVIOUS
<1>2. a % b \in 0..(b - 1)
  OBVIOUS
<1>3. a = b * (a \div b) + (a % b)
  OBVIOUS
<1> QED
  BY <1>1, <1>2, <1>3

(* A rounded quotient is one of the two integers next to it.                *)
LEMMA Rounds ==
    ASSUME NEW a \in Int, NEW b \in Nat \ {0}
    PROVE  /\ RoundDiv(a, b) \in Int
           /\ 2 * a <= (2 * RoundDiv(a, b) + 1) * b
           /\ (2 * RoundDiv(a, b) - 1) * b <= 2 * a
<1> DEFINE q == a \div b
           r == a % b
           n == RoundDiv(a, b)
<1>1. q \in Int /\ r \in Int /\ 0 <= r /\ r < b /\ a = b * q + r
  BY Divides
<1>2. \/ n = q /\ 2 * r <= b
      \/ n = q + 1 /\ 2 * r >= b
  BY <1>1 DEF RoundDiv
<1> HIDE DEF q, r, n
<1> DEFINE p == b * q
<1>3. p \in Int /\ (2 * q + 1) * b = 2 * p + b /\ (2 * q - 1) * b = 2 * p - b
      /\ (2 * (q + 1) + 1) * b = 2 * p + 3 * b /\ (2 * (q + 1) - 1) * b = 2 * p + b
  BY <1>1
<1>4. a = p + r
  BY <1>1
<1> HIDE DEF p
<1>5. CASE n = q /\ 2 * r <= b
  <2>1. 2 * a <= 2 * p + b /\ 2 * p - b <= 2 * a
    BY <1>1, <1>3, <1>4, <1>5
  <2> QED
    BY <1>1, <1>3, <1>5, <2>1 DEF n
<1>6. CASE n = q + 1 /\ 2 * r >= b
  <2>1. 2 * a <= 2 * p + 3 * b /\ 2 * p + b <= 2 * a
    BY <1>1, <1>3, <1>4, <1>6
  <2> QED
    BY <1>1, <1>3, <1>6, <2>1 DEF n
<1> QED
  BY <1>2, <1>5, <1>6

(* Rounding keeps the order.                                                *)
LEMMA RoundsUp ==
    ASSUME NEW a \in Int, NEW b \in Int, a <= b, NEW c \in Nat \ {0}
    PROVE  RoundDiv(a, c) <= RoundDiv(b, c)
<1> DEFINE q == a \div c
           r == a % c
           s == b \div c
           t == b % c
<1>1. /\ q \in Int /\ r \in Int /\ 0 <= r /\ r < c /\ a = c * q + r
      /\ s \in Int /\ t \in Int /\ 0 <= t /\ t < c /\ b = c * s + t
  BY Divides
<1>2. /\ RoundDiv(a, c) = IF 2 * r > c \/ (2 * r = c /\ q % 2 = 1) THEN q + 1 ELSE q
      /\ RoundDiv(b, c) = IF 2 * t > c \/ (2 * t = c /\ s % 2 = 1) THEN s + 1 ELSE s
  BY DEF RoundDiv
<1> HIDE DEF q, r, s, t
<1>3. q <= s
  <2>1. SUFFICES ASSUME q >= s + 1 PROVE FALSE
    BY <1>1
  <2>2. c * q >= c * (s + 1)
    BY <1>1, <2>1
  <2>3. c * (s + 1) = c * s + c
    BY <1>1
  <2> DEFINE x == c * q
             y == c * s
  <2>4. x \in Int /\ y \in Int /\ x >= y + c /\ a = x + r /\ b = y + t
    BY <1>1, <2>2, <2>3
  <2> HIDE DEF x, y
  <2> QED
    BY <1>1, <2>4
<1>4. CASE q = s
  <2>1. r <= t
    <3> DEFINE x == c * q
    <3>1. x \in Int /\ a = x + r /\ b = x + t
      BY <1>1, <1>4
    <3> HIDE DEF x
    <3> QED
      BY <1>1, <3>1
  <2> QED
    BY <1>1, <1>2, <1>4, <2>1
<1>5. CASE q < s
  BY <1>1, <1>2, <1>5
<1> QED
  BY <1>1, <1>3, <1>4, <1>5

IsCount(c) == /\ {"hit", "missed", "false", "rest"} = DOMAIN c
              /\ c.hit \in Nat /\ c.missed \in Nat /\ c.false \in Nat /\ c.rest \in Nat

(* A rate is an integer, a missing one included.                            *)
LEMMA RatioIsInt ==
    ASSUME NEW a \in Nat, NEW b \in Nat
    PROVE  Ratio(a, b) \in Int
<1>1. One * a \in Int /\ NoRate \in Int
  BY DEF One, NoRate
<1> QED
  BY <1>1, Rounds DEF Ratio

LEMMA RatesAreInts ==
    ASSUME NEW c, IsCount(c)
    PROVE  Accuracy(c) \in Int /\ F1(c) \in Int
<1>1. c.hit + c.rest \in Nat /\ Total(c) \in Nat
      /\ 2 * c.hit \in Nat /\ 2 * c.hit + c.false + c.missed \in Nat
  BY DEF IsCount, Total
<1> QED
  BY <1>1, RatioIsInt DEF Accuracy, F1

(***************************************************************************)
(* Rows                                                                    *)
(***************************************************************************)
LEMMA PartOfCorpus ==
    ASSUME NEW rows, IsCorpus(rows), NEW part \in SUBSET rows
    PROVE  IsCorpus(part)
BY FS_Subset DEF IsCorpus

Sizes(rows) == [r \in rows |-> r.n]
(* The weight of rows is a sum over any corpus they are part of.            *)
LEMMA WeightIn ==
    ASSUME NEW rows, IsCorpus(rows), NEW part \in SUBSET rows
    PROVE  Weight(part) = SumFunctionOnSet(Sizes(rows), part)
<1>1. IsFiniteSet(part)
  BY FS_Subset DEF IsCorpus
<1> DEFINE own == [r \in part |-> r.n]
<1>2. DOMAIN own = part /\ \A r \in part : own[r] = Sizes(rows)[r]
  BY DEF Sizes
<1> HIDE DEF own
<1>3. SumFunctionOnSet(own, part) = SumFunctionOnSet(Sizes(rows), part)
  BY <1>1, <1>2, SumSame
<1> QED
  BY <1>2, <1>3 DEF Weight, SumFunction, own

(* More rows weigh more.                                                    *)
LEMMA WeightGrows ==
    ASSUME NEW rows, IsCorpus(rows), NEW part \in SUBSET rows
    PROVE  /\ Weight(part) \in Nat /\ Weight(rows) \in Nat
           /\ Weight(part) <= Weight(rows)
           /\ part # rows => Weight(part) < Weight(rows)
<1>1. IsFiniteSet(rows) /\ \A r \in rows : Sizes(rows)[r] \in Nat /\ Sizes(rows)[r] >= 1
  BY DEF IsCorpus, Sizes
<1>2. /\ Weight(part) = SumFunctionOnSet(Sizes(rows), part)
      /\ Weight(rows) = SumFunctionOnSet(Sizes(rows), rows)
  BY WeightIn
<1>3. /\ Weight(part) \in Nat /\ Weight(rows) \in Nat /\ Weight(part) <= Weight(rows)
      /\ \A r \in rows \ part : Weight(part) + Sizes(rows)[r] <= Weight(rows)
  BY <1>1, <1>2, SumGrows
<1>4. ASSUME part # rows PROVE Weight(part) < Weight(rows)
  <2>1. PICK r \in rows : r \notin part
    BY <1>4
  <2>2. Weight(part) + Sizes(rows)[r] <= Weight(rows) /\ Sizes(rows)[r] \in Nat
        /\ Sizes(rows)[r] >= 1
    BY <1>1, <1>3, <2>1
  <2> QED
    BY <1>3, <2>2
<1> QED
  BY <1>3, <1>4

(* Four classes of turns make all of them. *)
LEMMA WeightOfParts ==
    ASSUME NEW rows, IsCorpus(rows), NEW A \in SUBSET rows, NEW B \in SUBSET rows,
           A \cap B = {}
    PROVE  Weight(A \cup B) = Weight(A) + Weight(B)
<1>1. IsFiniteSet(A) /\ IsFiniteSet(B) /\ \A r \in A \cup B : Sizes(rows)[r] \in Int
  BY FS_Subset DEF IsCorpus, Sizes
<1>2. A \cup B \in SUBSET rows
  OBVIOUS
<1> QED
  BY <1>1, <1>2, SumOfParts, WeightIn

(***************************************************************************)
(* The best of a curve                                                     *)
(***************************************************************************)
IsPoint(a) == a.value \in Int /\ a.far \in Int /\ a.cut \in Int
Ahead(a, b) ==
    \/ a.value > b.value
    \/ a.value = b.value /\ a.far < b.far
    \/ a.value = b.value /\ a.far = b.far /\ a.cut <= b.cut

(* The best cut of a curve is a cut of that curve.                          *)
LEMMA BestIsThere ==
    ASSUME NEW curve, IsFiniteSet(curve), curve # {}, \A a \in curve : IsPoint(a)
    PROVE  \E a \in curve : Best(curve) = a.cut
<1> DEFINE T == {t \in SUBSET curve : t # {} /\ ~ \E a \in t : \A b \in t : Ahead(a, b)}
<1>1. SUFFICES ASSUME T # {} PROVE FALSE
  <2>1. curve \notin T
    BY <1>1
  <2>2. \E a \in curve : \A b \in curve : Ahead(a, b)
    BY <2>1
  <2> QED
    BY <2>2 DEF Best, Ahead
<1>2. PICK t \in T : \A u \in SUBSET t : u # t => u \notin T
  <2>1. T \in SUBSET SUBSET curve
    OBVIOUS
  <2> HIDE DEF T
  <2> QED
    BY <1>1, <2>1, LeastSubset
<1>3. t \in SUBSET curve /\ t # {} /\ ~ \E a \in t : \A b \in t : Ahead(a, b)
  OBVIOUS
<1>4. PICK x \in t : TRUE
  BY <1>3
<1> DEFINE u == t \ {x}
<1>5. u \in SUBSET curve /\ u # t /\ u \in SUBSET t /\ u \notin T
  BY <1>2, <1>3, <1>4
<1>6. Ahead(x, x)
  BY <1>3, <1>4 DEF Ahead, IsPoint
<1>7. CASE u = {}
  <2>1. t = {x}
    BY <1>4, <1>7
  <2> QED
    BY <1>3, <1>6, <2>1
<1>8. CASE u # {}
  <2>1. PICK a \in u : \A b \in u : Ahead(a, b)
    BY <1>5, <1>8
  <2>2. Ahead(a, x) \/ Ahead(x, a)
    BY <1>3, <1>4, <1>5 DEF Ahead, IsPoint
  <2>3. CASE Ahead(a, x)
    <3>1. \A b \in t : Ahead(a, b)
      BY <2>1, <2>3
    <3> QED
      BY <1>3, <1>5, <3>1
  <2>4. CASE Ahead(x, a)
    <3>1. ASSUME NEW b \in u PROVE Ahead(x, b)
      <4>1. Ahead(a, b) /\ IsPoint(a) /\ IsPoint(b) /\ IsPoint(x)
        BY <1>3, <1>4, <1>5, <2>1
      <4> QED
        BY <2>4, <4>1 DEF Ahead, IsPoint
    <3>2. \A b \in t : Ahead(x, b)
      BY <1>6, <3>1
    <3> QED
      BY <1>3, <1>4, <3>2
  <2> QED
    BY <2>2, <2>3, <2>4
<1> QED
  BY <1>7, <1>8

LEMMA ScoresFinite ==
    ASSUME NEW rows, IsFiniteSet(rows)
    PROVE  /\ IsFiniteSet({r.score : r \in rows})
           /\ IsFiniteSet({r.score + 5 : r \in rows})
<1> DEFINE f == [r \in rows |-> r.score]
           g == [r \in rows |-> r.score + 5]
<1>1. /\ DOMAIN f = rows /\ {r.score : r \in rows} = {f[r] : r \in rows}
      /\ DOMAIN g = rows /\ {r.score + 5 : r \in rows} = {g[r] : r \in rows}
  OBVIOUS
<1> HIDE DEF f, g
<1>2. IsFiniteSet({f[r] : r \in rows}) /\ IsFiniteSet({g[r] : r \in rows})
  BY <1>1, ImageFinite
<1> QED
  BY <1>1, <1>2

(***************************************************************************)
(* What a sweep proposes                                                   *)
(***************************************************************************)
LEMMA SweptCut ==
    ASSUME NEW rows, IsCorpus(rows), NEW metric
    PROVE  Sweep(rows, metric) \in Int
<1> DEFINE cuts == {0, One} \cup {r.score : r \in rows} \cup {r.score + 5 : r \in rows}
           of(cut, truth, told) ==
               Weight({r \in rows : (r.expected = "bot") = truth /\ (r.score >= cut) = told})
           count(cut) == [hit |-> of(cut, TRUE, TRUE), missed |-> of(cut, TRUE, FALSE),
                          false |-> of(cut, FALSE, TRUE), rest |-> of(cut, FALSE, FALSE)]
           rate(cut) == IF metric = "f1" THEN F1(count(cut)) ELSE Accuracy(count(cut))
           far(cut) == Larger(cut - One \div 2, One \div 2 - cut)
           point(cut) == [value |-> IF rate(cut) = NoRate THEN 0 ELSE rate(cut),
                          far |-> far(cut), cut |-> cut]
           curve == {point(cut) : cut \in cuts}
<1>1. Sweep(rows, metric) = Best(curve)
  BY DEF Sweep
<1>2. IsFiniteSet(cuts) /\ cuts # {} /\ cuts \subseteq Int
  <2>1. IsFiniteSet({0, One})
    <3>1. {0, One} = {0} \cup {One}
      OBVIOUS
    <3>2. IsFiniteSet({0}) /\ IsFiniteSet({One})
      BY FS_Singleton
    <3> QED
      BY <3>1, <3>2, FS_Union
  <2>2. IsFiniteSet({r.score : r \in rows}) /\ IsFiniteSet({r.score + 5 : r \in rows})
    BY ScoresFinite DEF IsCorpus
  <2>3. cuts \subseteq Int
    BY DEF IsCorpus, One
  <2> QED
    BY <2>1, <2>2, <2>3, FS_Union
<1>3. ASSUME NEW cut \in cuts PROVE IsPoint(point(cut))
  <2>1. \A truth, told : of(cut, truth, told) \in Nat
    BY WeightGrows
  <2> HIDE DEF of
  <2>2. IsCount(count(cut))
    BY <2>1 DEF IsCount
  <2> HIDE DEF count
  <2>3. rate(cut) \in Int
    BY <2>2, RatesAreInts
  <2> HIDE DEF rate, cuts
  <2>4. cut \in Int
    BY <1>2
  <2>5. far(cut) \in Int
    <3>1. One \div 2 \in Int
      BY DEF One
    <3> QED
      BY <2>4, <3>1 DEF Larger
  <2> HIDE DEF far
  <2> QED
    BY <2>3, <2>4, <2>5 DEF IsPoint
<1> HIDE DEF cuts, point
<1>4. IsFiniteSet(curve)
  <2> DEFINE f == [cut \in cuts |-> point(cut)]
  <2>1. DOMAIN f = cuts /\ curve = {f[cut] : cut \in cuts}
    OBVIOUS
  <2> HIDE DEF f, curve
  <2> QED
    BY <1>2, <2>1, ImageFinite
<1>5. curve # {} /\ \A a \in curve : IsPoint(a)
  BY <1>2, <1>3
<1> HIDE DEF curve
<1> QED
  BY <1>1, <1>4, <1>5, BestIsThere DEF IsPoint

(***************************************************************************)
(* Pairs of topics                                                         *)
(***************************************************************************)
Times(pair) == IF pair[1] = pair[2] THEN pair[1].n * (pair[1].n - 1)
               ELSE pair[1].n * pair[2].n
Together(rows) == {pair \in rows \X rows : pair[1].session = pair[2].session}
JoinedAt(pair, threshold) ==
    /\ ReplayLabel(pair[1], threshold) # ""
    /\ ReplayLabel(pair[1], threshold) = ReplayLabel(pair[2], threshold)
PairsOf(rows, threshold, truth, told) ==
    {pair \in Together(rows) :
        (pair[1].expected = pair[2].expected) = truth /\ JoinedAt(pair, threshold) = told}
TimesIn(rows) == [pair \in rows \X rows |-> Times(pair)]
PairSum(rows, P) == SumFunctionOnSet(TimesIn(rows), P)

LEMMA PairsAreFinite ==
    ASSUME NEW rows, IsCorpus(rows)
    PROVE  /\ IsFiniteSet(rows \X rows)
           /\ \A pair \in rows \X rows : TimesIn(rows)[pair] \in Nat
<1>1. IsFiniteSet(rows \X rows)
  BY FS_Product DEF IsCorpus
<1>2. ASSUME NEW pair \in rows \X rows PROVE Times(pair) \in Nat
  <2>1. pair[1] \in rows /\ pair[2] \in rows
    OBVIOUS
  <2>2. pair[1].n \in Nat /\ pair[2].n \in Nat /\ pair[1].n - 1 \in Nat
    BY <2>1 DEF IsCorpus
  <2>3. pair[1].n * (pair[1].n - 1) \in Nat /\ pair[1].n * pair[2].n \in Nat
    BY <2>2
  <2> QED
    BY <2>3 DEF Times
<1> QED
  BY <1>1, <1>2 DEF TimesIn

LEMMA PairCountIs ==
    ASSUME NEW rows, IsCorpus(rows), NEW threshold
    PROVE  PairCounts(rows, threshold) =
              [hit |-> PairSum(rows, PairsOf(rows, threshold, TRUE, TRUE)) \div 2,
               missed |-> PairSum(rows, PairsOf(rows, threshold, TRUE, FALSE)) \div 2,
               false |-> PairSum(rows, PairsOf(rows, threshold, FALSE, TRUE)) \div 2,
               rest |-> PairSum(rows, PairsOf(rows, threshold, FALSE, FALSE)) \div 2]
<1> DEFINE own(P) == [pair \in P |-> Times(pair)]
<1>1. ASSUME NEW P \in SUBSET (rows \X rows)
      PROVE  SumFunction(own(P)) = PairSum(rows, P)
  <2>1. DOMAIN own(P) = P /\ \A pair \in P : own(P)[pair] = TimesIn(rows)[pair]
    BY DEF TimesIn
  <2>2. IsFiniteSet(P)
    BY PairsAreFinite, FS_Subset
  <2> HIDE DEF own
  <2>3. SumFunctionOnSet(own(P), P) = SumFunctionOnSet(TimesIn(rows), P)
    BY <2>1, <2>2, SumSame
  <2> QED
    BY <2>1, <2>3 DEF SumFunction, PairSum
<1>2. \A truth, told : PairsOf(rows, threshold, truth, told) \in SUBSET (rows \X rows)
  BY DEF PairsOf, Together
<1>3. PairCounts(rows, threshold) =
              [hit |-> SumFunction(own(PairsOf(rows, threshold, TRUE, TRUE))) \div 2,
               missed |-> SumFunction(own(PairsOf(rows, threshold, TRUE, FALSE))) \div 2,
               false |-> SumFunction(own(PairsOf(rows, threshold, FALSE, TRUE))) \div 2,
               rest |-> SumFunction(own(PairsOf(rows, threshold, FALSE, FALSE))) \div 2]
  BY DEF PairCounts, PairsOf, Together, JoinedAt, Times
<1> HIDE DEF own
<1> QED
  BY <1>1, <1>2, <1>3

(* Unordered pairs are counted twice, and a row with itself an even number  *)
(* of times.                                                                *)
LEMMA EvenNeighbours ==
    ASSUME NEW n \in Nat \ {0}
    PROVE  \E k \in Nat : n * (n - 1) = 2 * k
<1>1. CASE n % 2 = 0
  <2> DEFINE h == n \div 2
  <2>1. h \in Nat /\ n = 2 * h
    BY <1>1
  <2> HIDE DEF h
  <2>2. n * (n - 1) = 2 * (h * (n - 1)) /\ h * (n - 1) \in Nat
    BY <2>1
  <2> QED
    BY <2>2
<1>2. CASE n % 2 = 1
  <2> DEFINE h == (n - 1) \div 2
  <2>1. h \in Nat /\ n - 1 = 2 * h
    BY <1>2
  <2> HIDE DEF h
  <2>2. n * (n - 1) = 2 * (n * h) /\ n * h \in Nat
    BY <2>1
  <2> QED
    BY <2>2
<1> QED
  BY <1>1, <1>2

(* Each pair of two rows is met twice, and n (n - 1) is even.               *)
LEMMA PairsAreEven ==
    ASSUME NEW rows, IsCorpus(rows), NEW threshold, NEW truth, NEW told
    PROVE  \E k \in Nat : PairSum(rows, PairsOf(rows, threshold, truth, told)) = 2 * k
<1> DEFINE P == PairsOf(rows, threshold, truth, told)
           partner == [pair \in P |-> <<pair[2], pair[1]>>]
           w == TimesIn(rows)
<1>1. IsFiniteSet(P) /\ P \in SUBSET (rows \X rows) /\ \A pair \in P : w[pair] \in Nat
  <2>1. P \in SUBSET (rows \X rows)
    BY DEF PairsOf, Together
  <2> HIDE DEF P
  <2> QED
    BY <2>1, PairsAreFinite, FS_Subset
<1>2. ASSUME NEW pair \in P
      PROVE  /\ <<pair[2], pair[1]>> \in P
             /\ w[<<pair[2], pair[1]>>] = w[pair]
             /\ <<pair[2], pair[1]>> = pair => \E k \in Nat : w[pair] = 2 * k
  <2> DEFINE back == <<pair[2], pair[1]>>
  <2>1. /\ pair \in rows \X rows /\ pair[1] \in rows /\ pair[2] \in rows
        /\ back \in rows \X rows /\ back[1] = pair[2] /\ back[2] = pair[1]
        /\ pair = <<pair[1], pair[2]>>
    BY <1>1
  <2>2. back \in Together(rows) <=> pair \in Together(rows)
    BY <2>1 DEF Together
  <2>3. /\ JoinedAt(back, threshold) <=> JoinedAt(pair, threshold)
        /\ JoinedAt(back, threshold) \in BOOLEAN /\ JoinedAt(pair, threshold) \in BOOLEAN
    BY <2>1 DEF JoinedAt
  <2>4. (back[1].expected = back[2].expected) <=> (pair[1].expected = pair[2].expected)
    BY <2>1
  <2>5. back \in P
    BY <2>2, <2>3, <2>4 DEF PairsOf
  <2>6. pair[1].n \in Nat \ {0} /\ pair[2].n \in Nat \ {0}
    BY <2>1 DEF IsCorpus
  <2>7. w[back] = w[pair]
    <3>1. w[back] = Times(back) /\ w[pair] = Times(pair)
      BY <2>1 DEF TimesIn
    <3>2. pair[1].n * pair[2].n = pair[2].n * pair[1].n
      BY <2>6
    <3> HIDE DEF back
    <3> QED
      BY <2>1, <3>1, <3>2 DEF Times
  <2>8. ASSUME back = pair PROVE \E k \in Nat : w[pair] = 2 * k
    <3>1. pair[1] = pair[2]
      BY <2>1, <2>8
    <3>2. w[pair] = pair[1].n * (pair[1].n - 1)
      BY <2>1, <3>1 DEF TimesIn, Times
    <3> QED
      BY <2>6, <3>2, EvenNeighbours
  <2> QED
    BY <2>5, <2>7, <2>8
<1>3. /\ partner \in [P -> P]
      /\ \A pair \in P : /\ partner[partner[pair]] = pair /\ w[partner[pair]] = w[pair]
                         /\ partner[pair] = pair => \E k \in Nat : w[pair] = 2 * k
  <2>1. partner \in [P -> P]
    BY <1>2
  <2>2. ASSUME NEW pair \in P PROVE partner[partner[pair]] = pair
    <3>1. pair = <<pair[1], pair[2]>>
      BY <1>1
    <3> QED
      BY <1>2, <3>1
  <2> QED
    BY <1>2, <2>1, <2>2
<1> HIDE DEF P, partner, w
<1>4. \E k \in Nat : SumFunctionOnSet(w, P) = 2 * k
  BY <1>1, <1>3, SumIsEven
<1> QED
  BY <1>4 DEF PairSum, P, w

Halved(n) == n \div 2
LEMMA Halves == ASSUME NEW k \in Nat PROVE Halved(2 * k) = k
BY DEF Halved

(* So halving a sum of pairs loses nothing.                                 *)
LEMMA PairCountsAre ==
    ASSUME NEW rows, IsCorpus(rows), NEW threshold
    PROVE  LET c == PairCounts(rows, threshold)
           IN  /\ IsCount(c)
               /\ PairSum(rows, PairsOf(rows, threshold, TRUE, TRUE)) = 2 * c.hit
               /\ PairSum(rows, PairsOf(rows, threshold, TRUE, FALSE)) = 2 * c.missed
               /\ PairSum(rows, PairsOf(rows, threshold, FALSE, TRUE)) = 2 * c.false
               /\ PairSum(rows, PairsOf(rows, threshold, FALSE, FALSE)) = 2 * c.rest
<1> DEFINE c == PairCounts(rows, threshold)
           sum(truth, told) == PairSum(rows, PairsOf(rows, threshold, truth, told))
<1>1. c = [hit |-> sum(TRUE, TRUE) \div 2, missed |-> sum(TRUE, FALSE) \div 2,
           false |-> sum(FALSE, TRUE) \div 2, rest |-> sum(FALSE, FALSE) \div 2]
  BY PairCountIs
<1>2. ASSUME NEW truth, NEW told
      PROVE  sum(truth, told) \div 2 \in Nat /\ sum(truth, told) = 2 * (sum(truth, told) \div 2)
  <2>1. PICK k \in Nat : sum(truth, told) = 2 * k
    BY PairsAreEven
  <2> HIDE DEF sum
  <2> QED
    BY <2>1, Halves DEF Halved
<1> HIDE DEF sum, c
<1>3. /\ c.hit = sum(TRUE, TRUE) \div 2 /\ c.missed = sum(TRUE, FALSE) \div 2
      /\ c.false = sum(FALSE, TRUE) \div 2 /\ c.rest = sum(FALSE, FALSE) \div 2
      /\ DOMAIN c = {"hit", "missed", "false", "rest"}
  BY <1>1
<1>4. IsCount(c)
  BY <1>2, <1>3 DEF IsCount
<1> QED
  BY <1>2, <1>3, <1>4 DEF c, sum

LEMMA CandidateScoresFinite ==
    ASSUME NEW rows, IsCorpus(rows)
    PROVE  LET offered == {r.score : r \in rows} \cup UNION {{c.score : c \in r.cands} : r \in rows}
           IN  IsFiniteSet(offered) /\ offered \subseteq Int
<1> DEFINE of(r) == {c.score : c \in r.cands}
           all == {of(r) : r \in rows}
<1>1. IsFiniteSet({r.score : r \in rows}) /\ {r.score : r \in rows} \subseteq Int
  BY ScoresFinite DEF IsCorpus
<1>2. ASSUME NEW r \in rows PROVE IsFiniteSet(of(r)) /\ of(r) \subseteq Int
  <2>1. IsFiniteSet(r.cands) /\ \A c \in r.cands : c.score \in Int
    BY DEF IsCorpus
  <2> QED
    BY <2>1, ScoresFinite
<1> HIDE DEF of
<1>3. IsFiniteSet(all)
  <2> DEFINE f == [r \in rows |-> of(r)]
  <2>1. DOMAIN f = rows /\ all = {f[r] : r \in rows}
    OBVIOUS
  <2> HIDE DEF f, all
  <2> QED
    BY <2>1, ImageFinite DEF IsCorpus
<1>4. IsFiniteSet(UNION all) /\ UNION all \subseteq Int
  <2>1. \A s \in all : IsFiniteSet(s) /\ s \subseteq Int
    BY <1>2
  <2> HIDE DEF all
  <2> QED
    BY <1>3, <2>1, FS_UNION
<1>5. IsFiniteSet({r.score : r \in rows} \cup UNION all)
  BY <1>1, <1>4, FS_Union
<1> QED
  BY <1>1, <1>4, <1>5 DEF of

LEMMA TopicCut ==
    ASSUME NEW rows, IsCorpus(rows), NEW base \in Int
    PROVE  TopicSweep(rows, base) \in Int
<1> DEFINE offered == {r.score : r \in rows} \cup UNION {{c.score : c \in r.cands} : r \in rows}
           within(v) == Larger(3000, Smaller(9500, v))
           cuts == {base} \cup {within(v) : v \in offered}
           point(cut) == [value |-> Accuracy(PairCounts(rows, cut)),
                          far |-> Larger(cut - base, base - cut), cut |-> cut]
           curve == {point(cut) : cut \in cuts}
<1>1. IsFiniteSet(cuts) /\ cuts \subseteq Int /\ cuts # {}
  <2>1. IsFiniteSet(offered) /\ offered \subseteq Int
    BY CandidateScoresFinite
  <2> HIDE DEF offered
  <2> DEFINE f == [v \in offered |-> within(v)]
  <2>2. DOMAIN f = offered
    OBVIOUS
  <2>3. {within(v) : v \in offered} = {f[v] : v \in offered}
    OBVIOUS
  <2> HIDE DEF f
  <2>4. IsFiniteSet({f[v] : v \in offered})
    BY <2>1, <2>2, ImageFinite
  <2>5. \A v \in offered : within(v) \in Int
    BY <2>1 DEF Larger, Smaller
  <2> HIDE DEF within
  <2>6. IsFiniteSet({base})
    BY FS_Singleton
  <2> QED
    BY <2>3, <2>4, <2>5, <2>6, FS_Union
<1> HIDE DEF cuts
<1>2. ASSUME NEW cut \in cuts PROVE IsPoint(point(cut))
  <2>1. cut \in Int
    BY <1>1
  <2>2. Accuracy(PairCounts(rows, cut)) \in Int
    BY PairCountsAre, RatesAreInts
  <2>3. Larger(cut - base, base - cut) \in Int
    BY <2>1 DEF Larger
  <2> QED
    BY <2>1, <2>2, <2>3 DEF IsPoint
<1>3. TopicSweep(rows, base) = IF \E row \in curve : row.value = NoRate THEN base ELSE Best(curve)
  BY DEF TopicSweep, cuts
<1> HIDE DEF point
<1>4. IsFiniteSet(curve)
  <2> DEFINE f == [cut \in cuts |-> point(cut)]
  <2>1. DOMAIN f = cuts /\ curve = {f[cut] : cut \in cuts}
    OBVIOUS
  <2> HIDE DEF f, curve
  <2> QED
    BY <1>1, <2>1, ImageFinite
<1>5. curve # {} /\ \A a \in curve : IsPoint(a)
  BY <1>1, <1>2
<1> HIDE DEF curve
<1>6. Best(curve) \in Int
  BY <1>4, <1>5, BestIsThere DEF IsPoint
<1> QED
  BY <1>3, <1>6

(* One step from a policy of natural numbers to another. *)
LEMMA TargetIsNat ==
    ASSUME NEW p \in Params, NEW base \in Int, NEW target \in Int
    PROVE  BoundedTarget(p, base, target, StepPercent) \in Int
<1>1. StepPercent \in Int /\ base * StepPercent \in Int
  BY TuningAssumption DEF TuningAssumption
<1>2. RoundDiv(base * StepPercent, 100) \in Int
  BY <1>1, Rounds
<1>3. Clamp(p, target) \in Int
  <2>1. Clamp(p, target) \in Least4[p]..Most4[p] /\ Least4[p] \in Nat /\ Most4[p] \in Nat
    BY ClampType, EvaluatorAssumption DEF EvaluatorAssumption, Params
  <2> QED
    BY <2>1
<1> DEFINE budget == RoundDiv(base * StepPercent, 100)
           to == base + Larger(-budget, Smaller(budget, Clamp(p, target) - base))
<1>4. to \in Int
  <2> HIDE DEF budget
  <2>1. budget \in Int
    BY <1>2 DEF budget
  <2> QED
    BY <1>3, <2>1 DEF Larger, Smaller
<1>5. Clamp(p, to) \in Least4[p]..Most4[p] /\ Least4[p] \in Nat /\ Most4[p] \in Nat
  BY <1>4, ClampType, EvaluatorAssumption DEF EvaluatorAssumption, Params
<1>6. BoundedTarget(p, base, target, StepPercent) = Clamp(p, to)
  BY DEF BoundedTarget
<1> HIDE DEF to
<1> QED
  BY <1>5, <1>6

(* What is proposed is a policy, whatever was swept.                        *)
LEMMA ProposalIsPolicy ==
    ASSUME NEW task, NEW split, IsCorpus(split.train), NEW base \in [Params -> Int]
    PROVE  Propose(task, split, base, StepPercent) \in [Params -> Int]
<1> DEFINE train == OfTask(task, split.train)
           move(p, target) == Normalize([base EXCEPT ![p] = BoundedTarget(p, @, target, StepPercent)])
<1>1. IsCorpus(train) /\ IsCorpus(Swept(train))
  <2>1. IsCorpus(train)
    BY PartOfCorpus DEF OfTask
  <2> HIDE DEF train
  <2> QED
    BY <2>1, PartOfCorpus DEF Swept, OfTask
<1>2. ASSUME NEW p \in Params, NEW target \in Int PROVE move(p, target) \in [Params -> Int]
  <2> DEFINE to == BoundedTarget(p, base[p], target, StepPercent)
  <2>1. to \in Int
    BY <1>2, TargetIsNat
  <2> HIDE DEF to
  <2>2. [base EXCEPT ![p] = to] \in [Params -> Int]
    BY <2>1
  <2>3. Normalize([base EXCEPT ![p] = to]) \in [Params -> Nat]
    BY <2>2, NormalizeStable
  <2>4. [Params -> Nat] \subseteq [Params -> Int]
    OBVIOUS
  <2> QED
    BY <2>3, <2>4 DEF to
<1>3. TopicSweep(train, base["commit"]) \in Int /\ Sweep(Swept(train), "accuracy") \in Int
  <2>1. base["commit"] \in Int
    BY ParamNames
  <2> QED
    BY <1>1, <2>1, TopicCut, SweptCut
<1>4. \/ Propose(task, split, base, StepPercent) = base
      \/ Propose(task, split, base, StepPercent) = move("commit", TopicSweep(train, base["commit"]))
      \/ Propose(task, split, base, StepPercent) = move("strong", Sweep(Swept(train), "accuracy"))
  BY DEF Propose
<1> HIDE DEF move, train
<1> QED
  BY <1>2, <1>3, <1>4, ParamNames

(***************************************************************************)
(* How far a search gets                                                   *)
(***************************************************************************)
InReach(policy) ==
    /\ policy \in [Params -> Int]
    /\ \A p \in Params :
        /\ policy[p] \in Least4[p]..Most4[p]
        /\ 100 * (policy[p] - Normalize(host)[p]) <= DriftPercent * Normalize(host)[p]
        /\ 100 * (Normalize(host)[p] - policy[p]) <= DriftPercent * Normalize(host)[p]

LEMMA RangeOfClamped ==
    ASSUME NEW p \in Params, NEW v \in Int, Clamp(p, v) = v
    PROVE  v \in Least4[p]..Most4[p]
BY ClampType

(* A search starts within reach.                                            *)
LEMMA BaseInReach ==
    ASSUME HostOK
    PROVE  InReach(Normalize(host))
<1> DEFINE base == Normalize(host)
<1>1. base \in [Params -> Nat] /\ \A p \in Params : Clamp(p, base[p]) = base[p]
  BY BaseIsNormal
<1> HIDE DEF base
<1>2. ASSUME NEW p \in Params
      PROVE  /\ base[p] \in Least4[p]..Most4[p]
             /\ 100 * (base[p] - base[p]) <= DriftPercent * base[p]
  <2>1. base[p] \in Nat /\ DriftPercent \in Nat
    BY <1>1, TuningAssumption DEF TuningAssumption
  <2>2. DriftPercent * base[p] \in Nat
    BY <2>1
  <2> QED
    BY <1>1, <2>1, <2>2, RangeOfClamped
<1>3. base \in [Params -> Int]
  BY <1>1
<1> QED
  BY <1>2, <1>3 DEF InReach, base

(* The cumulative cap keeps every step within reach (clamp_cumulative).     *)
LEMMA CapInReach ==
    ASSUME HostOK, NEW proposal \in [Params -> Int]
    PROVE  InReach(ClampCumulative(Normalize(host), proposal, DriftPercent))
<1> DEFINE base == Normalize(host)
           capped == ClampCumulative(base, proposal, DriftPercent)
           wish == Normalize(proposal)
<1>1. /\ base \in [Params -> Nat] /\ \A p \in Params : Clamp(p, base[p]) = base[p]
      /\ wish \in [Params -> Nat] /\ DriftPercent \in Nat
  BY BaseIsNormal, NormalizeStable, TuningAssumption DEF TuningAssumption
<1>2. capped = [p \in Params |->
                  Clamp(p, Larger(base[p] - (base[p] * DriftPercent) \div 100,
                                  Smaller(base[p] + (base[p] * DriftPercent) \div 100, wish[p])))]
  BY DEF ClampCumulative
<1> HIDE DEF base, capped, wish
<1>3. ASSUME NEW p \in Params
      PROVE  /\ capped[p] \in Int /\ capped[p] \in Least4[p]..Most4[p]
             /\ 100 * (capped[p] - base[p]) <= DriftPercent * base[p]
             /\ 100 * (base[p] - capped[p]) <= DriftPercent * base[p]
  <2> DEFINE all == DriftPercent * base[p]
             budget == (base[p] * DriftPercent) \div 100
             to == Larger(base[p] - budget, Smaller(base[p] + budget, wish[p]))
             least == Least4[p]
             most == Most4[p]
             b == base[p]
             w == wish[p]
  <2>1. b \in Nat /\ w \in Nat /\ all \in Nat /\ all = b * DriftPercent
    BY <1>1
  <2>2. least \in Nat /\ most \in Nat /\ b \in least..most
    BY <1>1, <2>1, RangeOfClamped, EvaluatorAssumption DEF EvaluatorAssumption, Params
  <2>3. budget \in Nat /\ 100 * budget <= all
    <3>1. budget = all \div 100
      BY <2>1
    <3> HIDE DEF all, budget
    <3> QED
      BY <2>1, <3>1
  <2>4. capped[p] = Larger(least, Smaller(most, to))
    BY <1>2 DEF Clamp
  <2>5. to = Larger(b - budget, Smaller(b + budget, w))
    OBVIOUS
  <2> HIDE DEF all, budget, to, least, most, b, w
  <2>6. to \in Int /\ b - budget <= to /\ to <= b + budget
    BY <2>1, <2>3, <2>5 DEF Larger, Smaller
  <2>7. capped[p] \in Int /\ capped[p] \in least..most
        /\ b - budget <= capped[p] /\ capped[p] <= b + budget
    BY <2>1, <2>2, <2>3, <2>4, <2>6 DEF Larger, Smaller
  <2>8. 100 * (capped[p] - b) <= all /\ 100 * (b - capped[p]) <= all
    BY <2>1, <2>3, <2>7
  <2> QED
    BY <2>7, <2>8 DEF all, least, most, b
<1>4. capped \in [Params -> Int]
  <2>1. capped = [p \in Params |-> capped[p]]
    BY <1>2
  <2> QED
    BY <1>3, <2>1
<1> QED
  BY <1>3, <1>4 DEF InReach, capped, base

(***************************************************************************)
(* Scores                                                                  *)
(***************************************************************************)
(* What is scored of a policy is what its normal form decides. *)
LEMMA TargetedNormal ==
    ASSUME NEW row, NEW policy \in [Params -> Int]
    PROVE  Targeted(row, Normalize(policy)) = Targeted(row, policy)
<1>1. Normalize(Normalize(policy)) = Normalize(policy)
  BY NormalizeStable
<1> QED
  BY <1>1 DEF Targeted

(* A score does not see what normalisation changes.                         *)
LEMMA ScoreNormal ==
    ASSUME NEW task, NEW rows, NEW policy \in [Params -> Int]
    PROVE  ScoreTask(task, rows, Normalize(policy)) = ScoreTask(task, rows, policy)
<1>1. Normalize(Normalize(policy)) = Normalize(policy)
  BY NormalizeStable
<1> DEFINE kept == {r \in rows : ~Unreplayable(r)}
           wanted(r) == r.expected \in {"bot", "reply"}
           part(now, truth, told) == {r \in kept : wanted(r) = truth /\ Targeted(r, now) = told}
           of(now, truth, told) == Weight(part(now, truth, told))
           score(now) == IF task = "topic" THEN PairCounts(rows, Normalize(now).commit)
                         ELSE [hit |-> of(now, TRUE, TRUE), missed |-> of(now, TRUE, FALSE),
                               false |-> of(now, FALSE, TRUE), rest |-> of(now, FALSE, FALSE)]
<1>2. \A now : ScoreTask(task, rows, now) = score(now)
  BY DEF ScoreTask
<1>3. \A truth, told : part(Normalize(policy), truth, told) = part(policy, truth, told)
  BY TargetedNormal
<1> HIDE DEF part
<1>4. score(Normalize(policy)) = score(policy)
  BY <1>1, <1>3
<1> QED
  BY <1>2, <1>4

(* The four classes of the turns of a task. *)
Kept(rows) == {r \in rows : ~Unreplayable(r)}
Turns(rows, policy, truth, told) ==
    {r \in Kept(rows) : (r.expected \in {"bot", "reply"}) = truth /\ Targeted(r, policy) = told}

LEMMA ScoreIs ==
    ASSUME NEW task, NEW rows, NEW policy
    PROVE  ScoreTask(task, rows, policy) =
              IF task = "topic" THEN PairCounts(rows, Normalize(policy).commit)
              ELSE [hit |-> Weight(Turns(rows, policy, TRUE, TRUE)),
                    missed |-> Weight(Turns(rows, policy, TRUE, FALSE)),
                    false |-> Weight(Turns(rows, policy, FALSE, TRUE)),
                    rest |-> Weight(Turns(rows, policy, FALSE, FALSE))]
BY DEF ScoreTask, Turns, Kept

(* A score is four natural numbers.                                         *)
LEMMA ScoreIsCount ==
    ASSUME NEW task, NEW rows, IsCorpus(rows), NEW policy
    PROVE  IsCount(ScoreTask(task, rows, policy))
<1>1. CASE task = "topic"
  BY <1>1, ScoreIs, PairCountsAre
<1>2. CASE task # "topic"
  <2>1. \A truth, told : Weight(Turns(rows, policy, truth, told)) \in Nat
    BY WeightGrows DEF Turns, Kept
  <2>2. DOMAIN ScoreTask(task, rows, policy) = {"hit", "missed", "false", "rest"}
    BY <1>2, ScoreIs
  <2> QED
    BY <1>2, <2>1, <2>2, ScoreIs DEF IsCount
<1> QED
  BY <1>1, <1>2

(***************************************************************************)
(* What a search hands over                                                *)
(***************************************************************************)
Gain(run, policy) == Change(Primary(run.task, Score(run, run.baseline)),
                            Primary(run.task, Score(run, policy)))
Sound(run, policy) ==
    /\ AtLeast(Gain(run, policy), -Floor)
    /\ ~GuardBroken(Score(run, run.baseline), Score(run, policy), GuardLoss)
Spared(run, policy, kind) ==
    LET base == Score(run, run.baseline)
        after == Score(run, policy)
    IN  /\ Errors(kind, base) > 0
        /\ 2 * One * (Errors(kind, base) - Errors(kind, after))
                >= (2 * PromoteError - 1) * Errors(kind, base)
Worthy(run, policy) ==
    Gain(run, policy) >= PromoteGain \/ Spared(run, policy, "missed") \/ Spared(run, policy, "false")
HandedOver(run, decision, policy) ==
    /\ Sound(run, policy)
    /\ decision \in PromotedDecisions => Worthy(run, policy)
    /\ decision = "candidate" => Gain(run, policy) > 0

Placed(run) ==
    /\ IsCorpus(run.split.train) /\ IsCorpus(run.holdout)
    /\ InReach(run.current)
    /\ run.current = run.baseline \/ Sound(run, run.current)
Searched(run) ==
    /\ Placed(run)
    /\ \A policy \in run.final : InReach(policy)
    /\ run.decision = Undecided =>
        /\ run.candidate = {} /\ run.final = {}
        /\ run.steps # <<>> => run.steps[Len(run.steps)].gain = Gain(run, run.current)
    /\ \A c \in run.candidate : HandedOver(run, run.decision, c.params)

(* A run is judged by its task, holdout and baseline alone.                 *)
LEMMA SameScores ==
    ASSUME NEW run, NEW other, other.task = run.task, other.holdout = run.holdout,
           other.baseline = run.baseline, NEW policy, NEW decision
    PROVE  /\ Gain(other, policy) = Gain(run, policy)
           /\ Sound(other, policy) <=> Sound(run, policy)
           /\ Worthy(other, policy) <=> Worthy(run, policy)
           /\ HandedOver(other, decision, policy) <=> HandedOver(run, decision, policy)
<1>1. \A p : Score(other, p) = Score(run, p)
  BY DEF Score
<1>2. Gain(other, policy) = Gain(run, policy)
  BY <1>1 DEF Gain
<1>3. Sound(other, policy) <=> Sound(run, policy)
  BY <1>1, <1>2 DEF Sound
<1>4. Worthy(other, policy) <=> Worthy(run, policy)
  BY <1>1, <1>2 DEF Worthy, Spared
<1> QED
  BY <1>2, <1>3, <1>4 DEF HandedOver

LEMMA NormalScores ==
    ASSUME NEW run, NEW policy \in [Params -> Int], NEW decision
    PROVE  HandedOver(run, decision, Normalize(policy)) <=> HandedOver(run, decision, policy)
<1>1. Score(run, Normalize(policy)) = Score(run, policy)
  BY ScoreNormal DEF Score
<1> QED
  BY <1>1 DEF HandedOver, Sound, Worthy, Spared, Gain

(* A search begins within reach, with nothing handed over.                  *)
LEMMA FreshSearched ==
    ASSUME HostOK, NEW task, NEW rows, IsCorpus(rows)
    PROVE  Searched(Fresh(task, rows, host))
<1> DEFINE run == Fresh(task, rows, host)
           split == SplitBySession(rows, HoldoutPercent)
<1>1. /\ run.current = Normalize(host) /\ run.baseline = Normalize(host)
      /\ run.split = split /\ run.holdout = OfTask(task, split.holdout)
      /\ run.steps = <<>> /\ run.final = {} /\ run.candidate = {}
  BY DEF Fresh
<1>2. split.train \subseteq rows /\ split.holdout \subseteq rows
  BY SplitApart
<1> HIDE DEF run, split
<1>3. IsCorpus(run.split.train) /\ IsCorpus(run.holdout)
  <2>1. OfTask(task, split.holdout) \subseteq rows
    BY <1>2 DEF OfTask
  <2> QED
    BY <1>1, <1>2, <2>1, PartOfCorpus
<1> QED
  BY <1>1, <1>3, BaseInReach DEF Searched, Placed, run

(* A search that stops hands over what it was worth.                        *)
LEMMA StopSearched ==
    ASSUME NEW run, Placed(run), DOMAIN run = RunFields,
           NEW decision, decision # Undecided, NEW final,
           \A policy \in final :
              /\ InReach(policy)
              /\ Drift(run.baseline, policy) # {} => HandedOver(run, decision, policy)
    PROVE  Searched(Stop(run, decision, final))
<1> DEFINE stopped == [run EXCEPT !.decision = decision, !.final = final]
           kept == {policy \in stopped.final : Drift(stopped.baseline, policy) # {}}
           last == stopped.steps[Len(stopped.steps)]
           handed(policy) == [params |-> Normalize(policy), baseline |-> stopped.baseline,
              status |-> IF stopped.decision \in PromotedDecisions THEN "validated" ELSE "proposed",
              kind |-> last.kind, collateral |-> last.collateral, gain |-> last.gain]
           candidates == {handed(policy) : policy \in kept}
           result == [stopped EXCEPT !.candidate = candidates]
<1>1. Stop(run, decision, final) = result
  BY DEF Stop, Finalise
<1>2. /\ DOMAIN stopped = RunFields /\ stopped.final = final /\ stopped.baseline = run.baseline
      /\ stopped.task = run.task /\ stopped.holdout = run.holdout /\ stopped.split = run.split
      /\ stopped.current = run.current /\ stopped.decision = decision
  BY DEF RunFields
<1>3. ASSUME NEW c \in candidates
      PROVE  HandedOver(run, decision, c.params)
  <2>1. PICK policy \in kept : c = handed(policy)
    OBVIOUS
  <2>2. policy \in final /\ Drift(run.baseline, policy) # {}
    BY <1>2
  <2>3. c.params = Normalize(policy) /\ policy \in [Params -> Int]
    BY <2>1, <2>2 DEF InReach
  <2> QED
    BY <2>2, <2>3, NormalScores
<1> HIDE DEF candidates, stopped
<1>4. /\ result.task = run.task /\ result.holdout = run.holdout
      /\ result.baseline = run.baseline /\ result.split = run.split
      /\ result.current = run.current /\ result.final = final
      /\ result.decision = decision /\ result.candidate = candidates
  BY <1>2 DEF RunFields
<1> HIDE DEF result
<1>5. \A c \in result.candidate : HandedOver(result, decision, c.params)
  BY <1>3, <1>4, SameScores
<1>6. result.current = result.baseline \/ Sound(result, result.current)
  BY <1>4, SameScores DEF Placed
<1> QED
  BY <1>1, <1>4, <1>5, <1>6 DEF Searched, Placed

LEMMA GainIsInt ==
    ASSUME NEW run, IsCorpus(run.holdout), NEW policy
    PROVE  /\ Gain(run, policy) \in Int
           /\ IsCount(Score(run, policy)) /\ IsCount(Score(run, run.baseline))
<1>1. IsCount(Score(run, policy)) /\ IsCount(Score(run, run.baseline))
  BY ScoreIsCount DEF Score
<1>2. Primary(run.task, Score(run, policy)) \in Int
      /\ Primary(run.task, Score(run, run.baseline)) \in Int
  BY <1>1, RatesAreInts DEF Primary
<1> QED
  BY <1>1, <1>2 DEF Gain, Change, NoRate, One

(* A step whose error kind shrank enough spared as much as is claimed. *)
LEMMA ShrunkIsSpared ==
    ASSUME NEW before \in Nat, NEW after \in Nat,
           Below(Relative(before, after), -PromoteError + 1)
    PROVE  before > 0 /\ 2 * One * (before - after) >= (2 * PromoteError - 1) * before
<1>1. before # 0 /\ Relative(before, after) = RoundDiv(One * (after - before), before)
  BY DEF Below, Relative
<1> DEFINE n == RoundDiv(One * (after - before), before)
           d == One * (after - before)
<1>2. d \in Int /\ One * (before - after) = -d /\ 2 * One * (before - after) = -(2 * d)
  BY DEF One
<1>3. n \in Int /\ 2 * d <= (2 * n + 1) * before
  BY <1>1, <1>2, Rounds
<1>4. PromoteError \in Int /\ n < -PromoteError + 1
  BY <1>1, TuningAssumption DEF TuningAssumption, Below
<1> HIDE DEF n
<1>5. n <= -PromoteError
  BY <1>3, <1>4
<1>6. (2 * n + 1) * before <= (2 * (-PromoteError) + 1) * before
  BY <1>3, <1>4, <1>5
<1>7. (2 * (-PromoteError) + 1) * before = -((2 * PromoteError - 1) * before)
  BY <1>4
<1> DEFINE x == (2 * n + 1) * before
           y == (2 * PromoteError - 1) * before
<1>8. x \in Int /\ y \in Int /\ x <= -y /\ 2 * d <= x
  BY <1>3, <1>4, <1>6, <1>7
<1> HIDE DEF x, y, d
<1>9. -(2 * d) >= y
  BY <1>2, <1>8
<1> QED
  BY <1>1, <1>2, <1>9 DEF y

(* What a step measures is what the property measures.                      *)
LEMMA MeasureIs ==
    ASSUME NEW run, NEW policy
    PROVE  LET step == Measure(run, policy)
           IN  /\ step.policy = policy
               /\ step.gain = Gain(run, policy)
               /\ step.broken = GuardBroken(Score(run, run.baseline), Score(run, policy), GuardLoss)
               /\ \E kind \in {"missed", "false"} :
                    step.error = IF Total(Score(run, policy)) = 0 THEN NoRate
                                 ELSE Relative(Errors(kind, Score(run, run.baseline)),
                                               Errors(kind, Score(run, policy)))
<1> DEFINE aim == TargetError(policy, Normalize(run.current))
           kind == IF aim = "none" THEN "missed" ELSE aim
<1>1. aim \in {"none", "missed", "false"}
  BY DEF TargetError
<1>2. kind \in {"missed", "false"}
  BY <1>1
<1>3. Measure(run, policy).error =
         IF Total(Score(run, policy)) = 0 THEN NoRate
         ELSE Relative(Errors(kind, Score(run, run.baseline)), Errors(kind, Score(run, policy)))
  BY DEF Measure
<1> HIDE DEF kind
<1>4. \E k \in {"missed", "false"} :
         Measure(run, policy).error =
            IF Total(Score(run, policy)) = 0 THEN NoRate
            ELSE Relative(Errors(k, Score(run, run.baseline)), Errors(k, Score(run, policy)))
  BY <1>2, <1>3
<1>5. /\ Measure(run, policy).policy = policy
      /\ Measure(run, policy).gain = Gain(run, policy)
      /\ Measure(run, policy).broken =
            GuardBroken(Score(run, run.baseline), Score(run, policy), GuardLoss)
  BY DEF Measure, Gain
<1> QED
  BY <1>4, <1>5

(* What makes a step a promotion makes its policy worth one. *)
LEMMA PromotedIsWorthy ==
    ASSUME NEW run, IsCorpus(run.holdout), NEW policy,
           Strong(Measure(run, policy)) \/ Earned(Measure(run, policy))
    PROVE  Worthy(run, policy)
<1> DEFINE step == Measure(run, policy)
<1>1. step.gain = Gain(run, policy) /\ Gain(run, policy) \in Int
      /\ PromoteGain \in Int /\ StrongGain \in Int /\ PromoteGain <= StrongGain
  BY MeasureIs, GainIsInt, TuningAssumption DEF TuningAssumption
<1>2. PICK kind \in {"missed", "false"} :
         step.error = IF Total(Score(run, policy)) = 0 THEN NoRate
                      ELSE Relative(Errors(kind, Score(run, run.baseline)),
                                    Errors(kind, Score(run, policy)))
  BY MeasureIs
<1> DEFINE before == Errors(kind, Score(run, run.baseline))
           after == Errors(kind, Score(run, policy))
<1>3. before \in Nat /\ after \in Nat
  BY GainIsInt DEF Errors, IsCount
<1> HIDE DEF step
<1>4. CASE AtLeast(step.gain, StrongGain) \/ AtLeast(step.gain, PromoteGain)
  BY <1>1, <1>4 DEF AtLeast, Worthy
<1>5. CASE Below(step.error, -PromoteError + 1)
  <2>1. step.error = Relative(before, after)
    BY <1>2, <1>5 DEF Below
  <2> HIDE DEF before, after
  <2>2. before > 0 /\ 2 * One * (before - after) >= (2 * PromoteError - 1) * before
    BY <1>3, <1>5, <2>1, ShrunkIsSpared
  <2>3. Spared(run, policy, kind)
    BY <2>2 DEF Spared, before, after
  <2> QED
    BY <2>3 DEF Worthy
<1> QED
  BY <1>4, <1>5 DEF Strong, Earned, step

LEMMA AppendLast ==
    ASSUME NEW s, IsSequence(s), NEW x
    PROVE  Append(s, x)[Len(Append(s, x))] = x
<1>1. PICK S : s \in Seq(S)
  BY DEF IsSequence
<1>2. s \in Seq(S \cup {x})
  BY <1>1
<1> QED
  BY <1>2

(* A step is placed where it was measured to be sound. *)
LEMMA StepPlaced ==
    ASSUME NEW task \in {"recipient", "topic"}, NEW run, RunOK(run, task), Placed(run), NEW step
    PROVE  /\ DOMAIN With(run, step) = RunFields /\ DOMAIN Adopt(run, step) = RunFields
           /\ Placed(With(run, step))
           /\ InReach(step.policy) /\ Sound(run, step.policy) => Placed(Adopt(run, step))
           /\ \A decision, policy :
                /\ HandedOver(With(run, step), decision, policy)
                       <=> HandedOver(run, decision, policy)
                /\ HandedOver(Adopt(run, step), decision, policy)
                       <=> HandedOver(run, decision, policy)
           /\ With(run, step).baseline = run.baseline
           /\ Adopt(run, step).baseline = run.baseline
<1> DEFINE with == With(run, step)
           adopted == Adopt(run, step)
<1>1. /\ DOMAIN with = RunFields /\ with.task = run.task /\ with.holdout = run.holdout
      /\ with.baseline = run.baseline /\ with.split = run.split /\ with.current = run.current
  BY DEF With, RunOK, RunFields
<1>2. /\ DOMAIN adopted = RunFields /\ adopted.task = run.task /\ adopted.holdout = run.holdout
      /\ adopted.baseline = run.baseline /\ adopted.split = run.split
      /\ adopted.current = step.policy
  BY DEF Adopt, With, RunOK, RunFields
<1> HIDE DEF with, adopted
<1>3. Placed(with)
  BY <1>1, SameScores DEF Placed
<1>4. InReach(step.policy) /\ Sound(run, step.policy) => Placed(adopted)
  BY <1>2, SameScores DEF Placed
<1>5. \A decision, policy :
        /\ HandedOver(with, decision, policy) <=> HandedOver(run, decision, policy)
        /\ HandedOver(adopted, decision, policy) <=> HandedOver(run, decision, policy)
  BY <1>1, <1>2, SameScores
<1> QED
  BY <1>1, <1>2, <1>3, <1>4, <1>5 DEF with, adopted

LEMMA BaseDrifts == ASSUME NEW base PROVE Drift(base, base) = {}
BY DEF Drift

(* However a step is judged, nothing unearned is handed over.               *)
LEMMA JudgedSearched ==
    ASSUME HostOK, NEW task \in {"recipient", "topic"}, NEW run, RunOK(run, task), Searched(run),
           run.decision = Undecided, NEW policy, InReach(policy), NEW clamped
    PROVE  Searched(Judged(run, Measure(run, policy), clamped))
<1> DEFINE step == Measure(run, policy)
<1>1. /\ step.policy = policy /\ step.gain = Gain(run, policy)
      /\ step.broken = GuardBroken(Score(run, run.baseline), Score(run, policy), GuardLoss)
  BY MeasureIs
<1>2. Placed(run) /\ IsCorpus(run.holdout) /\ run.baseline = Normalize(host) /\ run.final = {}
      /\ InReach(run.baseline) /\ DOMAIN run = RunFields
  <2>1. InReach(Normalize(host))
    BY BaseInReach
  <2>2. run.final = {} /\ Placed(run)
    BY DEF Searched
  <2>3. run.baseline = Normalize(host) /\ DOMAIN run = RunFields
    BY DEF RunOK
  <2>4. IsCorpus(run.holdout)
    BY <2>2 DEF Placed
  <2> QED
    BY <2>1, <2>2, <2>3, <2>4
<1>3. ~step.broken /\ Safe(step) => Sound(run, policy)
  BY <1>1 DEF Sound, Safe
<1>4. Strong(step) \/ Earned(step) => Worthy(run, policy)
  BY <1>2, PromotedIsWorthy
<1> HIDE DEF step
<1>5. Searched(RolledBack(run, step))
  <2>1. \A p \in {run.baseline} : InReach(p) /\ Drift(With(run, step).baseline, p) = {}
    BY <1>2, StepPlaced, BaseDrifts
  <2>2. "rollback" # Undecided
    BY DEF Undecided
  <2> QED
    BY <1>2, <2>1, <2>2, StepPlaced, StopSearched DEF RolledBack
<1>6. Searched(Rejected(run, step))
  <2>1. ASSUME NEW p \in {run.current} \ {run.baseline}
        PROVE  InReach(p) /\ HandedOver(run, "reject", p)
    BY <1>2 DEF Placed, HandedOver, PromotedDecisions
  <2>2. "reject" # Undecided
    BY DEF Undecided
  <2>3. /\ DOMAIN With(run, step) = RunFields /\ Placed(With(run, step))
        /\ \A p \in {run.current} \ {run.baseline} :
              InReach(p) /\ HandedOver(With(run, step), "reject", p)
    BY <1>2, <2>1, StepPlaced
  <2> QED
    BY <2>2, <2>3, StopSearched DEF Rejected
<1>7. ASSUME NEW decision \in {"strong_promote", "promote", "needs_review"}, Sound(run, policy),
             decision # "needs_review" => Worthy(run, policy)
      PROVE  Searched(Accepted(run, step, decision))
  <2>1. HandedOver(run, decision, policy)
    BY <1>7 DEF HandedOver, PromotedDecisions
  <2>2. /\ DOMAIN Adopt(run, step) = RunFields /\ Placed(Adopt(run, step))
        /\ HandedOver(Adopt(run, step), decision, policy)
    BY <1>1, <1>2, <1>7, <2>1, StepPlaced
  <2>3. decision # Undecided
    BY DEF Undecided
  <2>4. \A p \in {step.policy} : InReach(p) /\ HandedOver(Adopt(run, step), decision, p)
    BY <1>1, <2>2
  <2> QED
    BY <2>2, <2>3, <2>4, StopSearched DEF Accepted
<1>8. ASSUME Sound(run, policy)
      PROVE  Searched(Continued(run, step))
  <2> DEFINE adopted == Adopt(run, step)
             continued == Continued(run, step)
  <2>1. Placed(adopted)
    BY <1>1, <1>2, <1>8, StepPlaced
  <2>2. /\ DOMAIN adopted = RunFields /\ adopted.task = run.task /\ adopted.holdout = run.holdout
        /\ adopted.baseline = run.baseline /\ adopted.split = run.split
        /\ adopted.current = policy /\ adopted.steps = Append(run.steps, step)
        /\ adopted.final = {} /\ adopted.candidate = {} /\ adopted.decision = Undecided
    BY <1>1, <1>2 DEF Adopt, With, RunFields, Searched
  <2> HIDE DEF adopted
  <2>3. /\ continued.task = run.task /\ continued.holdout = run.holdout
        /\ continued.baseline = run.baseline /\ continued.split = adopted.split
        /\ continued.current = policy /\ continued.steps = Append(run.steps, step)
        /\ continued.final = {} /\ continued.candidate = {} /\ continued.decision = Undecided
    BY <2>2 DEF Continued, RunFields, adopted
  <2> HIDE DEF continued
  <2>4. Placed(continued)
    BY <2>1, <2>2, <2>3, SameScores DEF Placed
  <2>5. continued.steps[Len(continued.steps)].gain = Gain(continued, continued.current)
    <3>1. Append(run.steps, step)[Len(Append(run.steps, step))] = step
      BY AppendLast DEF RunOK
    <3> QED
      BY <1>1, <2>3, <3>1, SameScores
  <2> QED
    BY <2>3, <2>4, <2>5 DEF Searched, continued
<1> QED
  BY <1>3, <1>4, <1>5, <1>6, <1>7, <1>8 DEF Judged, step

(* A search that runs out keeps its gain only if it has one.                *)
LEMMA ConcludedSearched ==
    ASSUME NEW task \in {"recipient", "topic"}, NEW run, RunOK(run, task), Searched(run),
           run.decision = Undecided
    PROVE  Searched(Concluded(run))
<1>1. Placed(run) /\ IsCorpus(run.holdout) /\ DOMAIN run = RunFields
  BY DEF Searched, Placed, RunOK
<1>2. Searched(Stop(run, "no_change", {}))
  BY <1>1, StopSearched DEF Undecided
<1>3. ASSUME run.steps # <<>>, run.current # run.baseline,
             ~(run.steps[Len(run.steps)].gain = NoRate \/ run.steps[Len(run.steps)].gain <= 0)
      PROVE  Searched(Stop(run, "candidate", {run.current}))
  <2>1. Gain(run, run.current) \in Int /\ Gain(run, run.current) > 0
    BY <1>1, <1>3, GainIsInt DEF Searched
  <2>2. InReach(run.current) /\ HandedOver(run, "candidate", run.current)
    BY <1>1, <1>3, <2>1 DEF Placed, HandedOver, PromotedDecisions
  <2> QED
    BY <1>1, <2>2, StopSearched DEF Undecided
<1> QED
  BY <1>2, <1>3 DEF Concluded

LEMMA TurnedSearched ==
    ASSUME HostOK, NEW task \in {"recipient", "topic"}, NEW run, RunOK(run, task), Searched(run),
           run.decision = Undecided
    PROVE  Searched(Turned(run))
<1> DEFINE proposal == Proposal(run)
           target == Target(run, proposal)
<1>1. Normalize(run.current) \in [Params -> Int]
  <2>1. run.current \in [Params -> Int]
    BY DEF Searched, Placed, InReach
  <2>2. Normalize(run.current) \in [Params -> Nat]
    BY <2>1, NormalizeStable
  <2> QED
    BY <2>2
<1>2. proposal \in [Params -> Int]
  BY <1>1, ProposalIsPolicy DEF Searched, Placed, Proposal
<1>3. InReach(target)
  BY <1>2, CapInReach DEF Target, RunOK
<1> HIDE DEF proposal, target
<1>4. CASE CanStep(run, proposal)
  <2>1. Searched(Judged(run, Measure(run, target), target # Normalize(proposal)))
    BY <1>3, JudgedSearched
  <2> QED
    BY <1>4, <2>1 DEF Turned, proposal, target
<1>5. CASE ~CanStep(run, proposal)
  BY <1>5, ConcludedSearched DEF Turned, proposal
<1> QED
  BY <1>4, <1>5

(***************************************************************************)
(* Every search of an analysis                                             *)
(***************************************************************************)
SearchInv ==
    /\ IsCorpus(samples)
    /\ \A i \in 1..Len(runs) : Searched(runs[i])

LEMMA SearchBuilt ==
    ASSUME IsCorpus(samples), host' = host, samples' = samples,
           \A i \in 1..Len(runs') : Searched(runs'[i])
    PROVE  SearchInv'
BY DEF SearchInv, Searched, Placed, InReach, IsCorpus

LEMMA SearchInitially == Init => SearchInv
<1> SUFFICES ASSUME Init PROVE SearchInv
  OBVIOUS
<1>1. IsCorpus(samples)
  BY SituationsAssumption DEF SituationsAssumption, Init
<1>2. Len(runs) = 0
  BY DEF Init
<1> QED
  BY <1>1, <1>2 DEF SearchInv

LEMMA DevelopmentIsCorpus ==
    ASSUME AnalysisInv, IsCorpus(samples)
    PROVE  IsCorpus(context.development)
<1>1. context.development \subseteq samples
  BY ReservedApart DEF AnalysisInv, NoContext
<1> QED
  BY <1>1, PartOfCorpus

(* The final measurement takes nothing back. *)
LEMMA FinalSearched ==
    ASSUME NEW task, NEW run, RunOK(run, task), Searched(run), NEW interval
    PROVE  Searched(FinalRun(run, interval))
<1>1. CASE run.candidate = {}
  BY <1>1 DEF FinalRun
<1>2. CASE run.candidate # {}
  <2> DEFINE c == CHOOSE x \in run.candidate : TRUE
             gate == Gate(c, interval)
             measured == [c EXCEPT !.status = Final(gate)]
             decision == IF Final(gate) = "validated" THEN run.decision
                         ELSE IF gate = "rejected" THEN "reject" ELSE "insufficient"
             result == [run EXCEPT !.candidate = {measured}, !.decision = decision]
  <2>1. FinalRun(run, interval) = result
    BY <1>2 DEF FinalRun
  <2>2. c \in run.candidate
    BY <1>2
  <2> HIDE DEF c
  <2>3. measured.params = c.params
    BY <2>2 DEF RunOK, CandidateOK
  <2>4. run.decision # Undecided /\ HandedOver(run, run.decision, c.params)
    BY <1>2, <2>2 DEF Searched
  <2>5. HandedOver(run, decision, c.params) /\ decision # Undecided
    BY <2>4 DEF HandedOver, PromotedDecisions, Undecided
  <2> HIDE DEF measured, decision
  <2>6. /\ result.task = run.task /\ result.holdout = run.holdout
        /\ result.baseline = run.baseline /\ result.split = run.split
        /\ result.current = run.current /\ result.final = run.final
        /\ result.candidate = {measured} /\ result.decision = decision
    BY DEF RunOK, RunFields
  <2> HIDE DEF result
  <2>7. Placed(result)
    BY <2>6, SameScores DEF Placed, Searched
  <2>8. \A x \in result.candidate : HandedOver(result, result.decision, x.params)
    BY <2>3, <2>5, <2>6, SameScores
  <2> QED
    BY <2>1, <2>5, <2>6, <2>7, <2>8 DEF Searched
<1> QED
  BY <1>1, <1>2

(* Lowering a status changes nothing a search has earned.                   *)
LEMMA MarkedSearched ==
    ASSUME NEW task, NEW run, RunOK(run, task), Searched(run)
    PROVE  Searched([run EXCEPT !.candidate =
                        {[c EXCEPT !.status = "proposed"] : c \in run.candidate}])
<1> DEFINE marked(c) == [c EXCEPT !.status = "proposed"]
           marks == {marked(c) : c \in run.candidate}
           result == [run EXCEPT !.candidate = marks]
<1>1. \A c \in run.candidate : marked(c).params = c.params
  BY DEF RunOK, CandidateOK
<1> HIDE DEF marked
<1>2. \A c \in marks : HandedOver(run, run.decision, c.params)
  BY <1>1 DEF Searched
<1>3. run.decision = Undecided => marks = {}
  BY DEF Searched
<1> HIDE DEF marks
<1>4. /\ result.task = run.task /\ result.holdout = run.holdout
      /\ result.baseline = run.baseline /\ result.split = run.split
      /\ result.current = run.current /\ result.final = run.final /\ result.steps = run.steps
      /\ result.candidate = marks /\ result.decision = run.decision
  BY DEF RunOK, RunFields
<1> HIDE DEF result
<1>5. Placed(result)
  BY <1>4, SameScores DEF Placed, Searched
<1>6. \A c \in result.candidate : HandedOver(result, result.decision, c.params)
  BY <1>2, <1>4, SameScores
<1>7. result.decision = Undecided =>
        /\ result.candidate = {} /\ result.final = {}
        /\ result.steps # <<>> =>
              result.steps[Len(result.steps)].gain = Gain(result, result.current)
  BY <1>3, <1>4, SameScores DEF Searched
<1>8. \A policy \in result.final : InReach(policy)
  BY <1>4 DEF Searched
<1>9. Searched(result)
  BY <1>5, <1>6, <1>7, <1>8 DEF Searched
<1> QED
  BY <1>9 DEF result, marks, marked

LEMMA SearchStep == AnalysisInv /\ SearchInv /\ [Next]_vars => SearchInv'
<1> SUFFICES ASSUME AnalysisInv, SearchInv, [Next]_vars PROVE SearchInv'
  OBVIOUS
<1>1. host' = host /\ samples' = samples
  BY DEF vars, Next, Reserve, Learn, Evaluate, BeginRun, TuneStep, EndTuning, FinalizeSingle,
         FinalizeRuns, Annotate, Record, Done
<1>2. HostOK /\ IsCorpus(samples) /\ DOMAIN runs = 1..Len(runs) /\ Len(runs) \in 0..2
      /\ \A i \in 1..Len(runs) : Searched(runs[i]) /\ RunOK(runs[i], Tasks[i])
                                 /\ Tasks[i] \in {"recipient", "topic"}
  BY RunsDomain, TaskNames DEF AnalysisInv, SearchInv, RunsOK
<1>3. CASE runs' = runs
  BY <1>1, <1>2, <1>3, SearchBuilt
<1>4. CASE BeginRun
  <2> DEFINE n == Len(runs)
             task == Tasks[n + 1]
             fresh == Fresh(task, context.development, host)
             run == IF Starved(fresh) THEN Stop(fresh, "insufficient", {}) ELSE fresh
  <2>1. runs' = Append(runs, run) /\ n \in {0, 1}
    BY <1>2, <1>4, TaskNames DEF BeginRun
  <2>2. Searched(fresh)
    BY <1>2, DevelopmentIsCorpus, FreshSearched
  <2>3. Placed(fresh) /\ DOMAIN fresh = RunFields
    BY <2>2 DEF Searched, Fresh, RunFields
  <2> HIDE DEF fresh
  <2>4. Searched(run)
    BY <2>2, <2>3, StopSearched DEF Undecided
  <2> HIDE DEF run, task
  <2>5. \A i \in 1..Len(runs') : runs'[i] = IF i = n + 1 THEN run ELSE runs[i]
    BY <2>1 DEF AnalysisInv, RunsOK, IsSequence
  <2>6. Len(runs') = n + 1
    BY <2>1, AppendAny DEF AnalysisInv, RunsOK
  <2>7. \A i \in 1..Len(runs') : Searched(runs'[i])
    <3> SUFFICES ASSUME NEW i \in 1..Len(runs') PROVE Searched(runs'[i])
      OBVIOUS
    <3>1. CASE i = n + 1
      BY <2>4, <2>5, <3>1
    <3>2. CASE i # n + 1
      <4>1. i \in 1..n
        BY <2>1, <2>6, <3>2
      <4> QED
        BY <1>2, <2>5, <3>2, <4>1
    <3> QED
      BY <3>1, <3>2
  <2> QED
    BY <1>1, <1>2, <2>7, SearchBuilt
<1>5. CASE TuneStep
  <2> DEFINE n == Len(runs)
  <2>1. runs' = [runs EXCEPT ![n] = Turned(runs[n])] /\ n \in 1..n /\ runs[n].decision = Undecided
    BY <1>2, <1>5 DEF TuneStep, Working
  <2>2. Searched(Turned(runs[n]))
    BY <1>2, <2>1, TurnedSearched
  <2>3. DOMAIN runs' = DOMAIN runs /\ Len(runs') = n
    <3>1. PICK S : runs \in Seq(S)
      BY DEF AnalysisInv, RunsOK, IsSequence
    <3> QED
      BY <2>1, <3>1
  <2>4. \A i \in 1..Len(runs') : Searched(runs'[i])
    BY <1>2, <2>1, <2>2, <2>3
  <2> QED
    BY <1>1, <1>2, <2>4, SearchBuilt
<1>6. CASE FinalizeRuns
  <2>1. PICK interval : runs' = [i \in DOMAIN runs |-> FinalRun(runs[i], interval[i])]
    BY <1>6 DEF FinalizeRuns
  <2>2. \A i \in 1..Len(runs) : Searched(runs'[i])
    BY <1>2, <2>1, FinalSearched
  <2>3. Len(runs') = Len(runs)
    <3>1. DOMAIN runs' = 1..Len(runs) /\ Len(runs) \in Nat
      BY <1>2, <2>1
    <3> QED
      BY <3>1
  <2> QED
    BY <1>1, <1>2, <2>2, <2>3, SearchBuilt
<1>7. CASE Annotate
  <2>1. CASE options.gate
    BY <1>3, <1>7, <2>1 DEF Annotate
  <2>2. CASE ~options.gate
    <3> DEFINE lowered(i) == [runs[i] EXCEPT !.candidate =
                                 {[c EXCEPT !.status = "proposed"] : c \in runs[i].candidate}]
    <3>1. runs' = [i \in DOMAIN runs |-> lowered(i)]
      BY <1>7, <2>2 DEF Annotate
    <3>2. \A i \in 1..Len(runs) : Searched(lowered(i))
      BY <1>2, MarkedSearched
    <3> HIDE DEF lowered
    <3>3. DOMAIN runs' = 1..Len(runs) /\ Len(runs) \in Nat
      BY <1>2, <3>1
    <3>4. Len(runs') = Len(runs)
      BY <3>3
    <3>5. \A i \in 1..Len(runs') : Searched(runs'[i])
      BY <1>2, <3>1, <3>2, <3>4
    <3> QED
      BY <1>1, <1>2, <3>5, SearchBuilt
  <2> QED
    BY <2>1, <2>2
<1> QED
  BY <1>3, <1>4, <1>5, <1>6, <1>7
     DEF vars, Next, Reserve, Learn, Evaluate, EndTuning, FinalizeSingle, Record, Done

LEMMA SearchAlways == Spec => [](AnalysisInv /\ SearchInv)
<1>1. Init => AnalysisInv /\ SearchInv
  BY AnalysisInitially, SearchInitially
<1>2. (AnalysisInv /\ SearchInv) /\ [Next]_vars => (AnalysisInv /\ SearchInv)'
  BY AnalysisStep, SearchStep
<1> QED
  BY <1>1, <1>2, PTL DEF Spec

LEMMA DriftWithinTask ==
    ASSUME HostOK, NEW task \in {"recipient", "topic"}, NEW c, CandidateOK(task, Normalize(host), c)
    PROVE  Drift(c.baseline, c.params)
               \subseteq IF task = "topic" THEN {"commit"} ELSE {"strong", "hover"}
<1>1. Keeps(task, Normalize(host), c.params) /\ c.baseline = Normalize(host)
  BY DEF CandidateOK
<1>2. Keeps(task, Normalize(host), Normalize(c.params))
  BY <1>1, BaseIsNormal, NormalizeKeeps
<1>3. Normalize(c.baseline) = Normalize(host)
  BY <1>1, BaseIsNormal
<1>4. \A p \in Untouched(task) : p \notin Drift(c.baseline, c.params)
  BY <1>2, <1>3 DEF Drift, Keeps
<1>5. Drift(c.baseline, c.params) \subseteq {"strong", "hover", "commit"}
  BY ParamNames DEF Drift
<1> QED
  BY <1>4, <1>5 DEF Untouched

(* However many steps a search takes and whatever its sweeps return, the    *)
(* policy it is at and the one it ends with keep both tuned parameters in   *)
(* their range and within the agreed share of the host's normalised values  *)
(* (clamp_cumulative).                                                      *)
THEOREM DriftStaysBounded == Spec => []DriftBounded
<1>1. ASSUME AnalysisInv, SearchInv PROVE DriftBounded
  <2>1. DOMAIN runs = 1..Len(runs)
    BY <1>1, RunsDomain DEF AnalysisInv, RunsOK
  <2>2. \A i \in DOMAIN runs : \A policy \in {runs[i].current} \cup runs[i].final : InReach(policy)
    BY <1>1, <2>1 DEF SearchInv, Searched, Placed
  <2> QED
    BY <2>2, ParamNames DEF DriftBounded, InReach
<1> QED
  BY <1>1, SearchAlways, PTL

(* What a search hands over is safe against the host on the search's own    *)
(* holdout and moved nothing but its task's parameter; a promotion or a     *)
(* kept gain is of that very policy, whatever was tried and rejected after  *)
(* it (run_tuning, _finalise).                                              *)
THEOREM CandidatesAreEarned == Spec => []CandidateIsEarned
<1>1. ASSUME AnalysisInv, SearchInv PROVE CandidateIsEarned
  <2>1. DOMAIN runs = 1..Len(runs)
    BY <1>1, RunsDomain DEF AnalysisInv, RunsOK
  <2>2. SUFFICES ASSUME NEW i \in DOMAIN runs, NEW candidate \in runs[i].candidate
                 PROVE  /\ HandedOver(runs[i], runs[i].decision, candidate.params)
                        /\ Drift(runs[i].baseline, candidate.params) \subseteq
                              IF runs[i].task = "topic" THEN {"commit"} ELSE {"strong", "hover"}
    BY DEF CandidateIsEarned, HandedOver, Sound, Worthy, Spared, Gain, Promoted
  <2>3. RunOK(runs[i], Tasks[i]) /\ Tasks[i] \in {"recipient", "topic"} /\ HostOK
    BY <1>1, <2>1, TaskNames DEF AnalysisInv, RunsOK
  <2>4. /\ CandidateOK(Tasks[i], Normalize(host), candidate)
        /\ runs[i].baseline = candidate.baseline /\ runs[i].task = Tasks[i]
    BY <2>3 DEF RunOK, CandidateOK
  <2> QED
    BY <1>1, <2>1, <2>3, <2>4, DriftWithinTask DEF SearchInv, Searched
<1> QED
  BY <1>1, SearchAlways, PTL

(***************************************************************************)
(* The newest rows                                                         *)
(***************************************************************************)
(* A row of the newer side of a split by time carries a date, and nothing   *)
(* on the older side has a later one.                                       *)
LEMMA NewerIsNewer ==
    ASSUME NEW rows, IsCorpus(rows)
    PROVE  LET split == SplitByTime(rows, FuturePercent)
           IN  /\ split.holdout \subseteq rows
               /\ \A r \in split.holdout : r.at > 0
               /\ \A r \in split.holdout : \A q \in rows \ split.holdout : q.at <= r.at
<1> DEFINE count == Weight(rows)
           undated == Weight({r \in rows : r.at <= 0})
           share == RoundDiv(count * (100 - FuturePercent), 100)
           cut == Larger(undated, Larger(1, Smaller(count - 1, share)))
           before(r) == {q \in rows : Earlier(q, r)}
           out == {r \in rows : Weight(before(r)) >= cut}
           split == SplitByTime(rows, FuturePercent)
<1>1. \/ split = [train |-> rows, holdout |-> {}]
      \/ split = [train |-> rows \ out, holdout |-> out]
  BY DEF SplitByTime
<1>2. /\ count \in Nat /\ undated \in Nat
      /\ \A r : Weight(before(r)) \in Nat
  BY WeightGrows
<1>3. cut \in Int /\ cut >= undated
  <2>1. count * (100 - FuturePercent) \in Int
    <3>1. FuturePercent \in Int
      BY SituationsAssumption DEF SituationsAssumption
    <3> HIDE DEF count
    <3> QED
      BY <1>2, <3>1
  <2>2. share \in Int
    BY <2>1, Rounds
  <2> HIDE DEF count, undated, share
  <2> QED
    BY <1>2, <2>2 DEF Larger, Smaller
<1>4. ASSUME NEW r \in rows, r.at <= 0
      PROVE  Weight(before(r)) < undated
  <2> DEFINE old == {q \in rows : q.at <= 0}
  <2>1. before(r) \subseteq old
    BY <1>4 DEF Earlier, IsCorpus
  <2>2. r \in old /\ r \notin before(r)
    <3>1. r.session \in Nat /\ r.msg \in Nat /\ r.at \in Int
          /\ r.task \in {"recipient", "reply", "topic"}
      BY DEF IsCorpus
    <3>2. TaskOrder[r.task] \in Int
      BY <3>1 DEF TaskOrder
    <3> QED
      BY <1>4, <3>1, <3>2 DEF Earlier
  <2>3. IsCorpus(old)
    BY PartOfCorpus
  <2> HIDE DEF before, old
  <2>4. Weight(before(r)) < Weight(old)
    BY <2>1, <2>2, <2>3, WeightGrows
  <2> QED
    BY <2>4 DEF old
<1>5. ASSUME NEW r \in rows, NEW q \in rows, q.at > r.at
      PROVE  Weight(before(r)) <= Weight(before(q))
  <2>1. before(r) \subseteq before(q)
    BY <1>5 DEF Earlier, IsCorpus
  <2>2. IsCorpus(before(q))
    BY PartOfCorpus
  <2> HIDE DEF before
  <2> QED
    BY <2>1, <2>2, WeightGrows
<1> HIDE DEF count, undated, share, cut, before, split
<1>6. \A r \in out : r.at > 0
  <2> SUFFICES ASSUME NEW r \in out PROVE r.at > 0
    OBVIOUS
  <2>1. r \in rows /\ r.at \in Int /\ Weight(before(r)) >= cut
    BY DEF IsCorpus
  <2> QED
    BY <1>2, <1>3, <1>4, <2>1
<1>7. ASSUME NEW r \in out, NEW q \in rows \ out
      PROVE  q.at <= r.at
  <2>1. /\ r \in rows /\ q \in rows /\ r.at \in Int /\ q.at \in Int
        /\ Weight(before(r)) >= cut /\ ~(Weight(before(q)) >= cut)
    BY DEF IsCorpus
  <2> QED
    BY <1>2, <1>3, <1>5, <2>1
<1> HIDE DEF out
<1>8. out \subseteq rows
  BY DEF out
<1>9. /\ split.holdout \subseteq rows
      /\ \A r \in split.holdout : r.at > 0
      /\ \A r \in split.holdout : \A q \in rows \ split.holdout : q.at <= r.at
  BY <1>1, <1>6, <1>7, <1>8
<1> QED
  BY <1>9 DEF split

LEMMA FutureNewest ==
    ASSUME IsCorpus(samples), context = Reserved(samples, options.forward)
    PROVE  FutureIsNewest
<1> DEFINE newest == IF options.forward THEN SplitByTime(samples, FuturePercent).holdout ELSE {}
           future == {r \in samples : Message(r) \in {Message(q) : q \in newest}}
           split == SplitBySession(samples \ future, HoldoutPercent)
<1>1. context = [development |-> split.train, session |-> split.holdout, future |-> future]
  BY DEF Reserved
<1>2. split.train \subseteq samples \ future
  BY SplitApart
<1>3. /\ newest \subseteq samples
      /\ \A r \in newest : r.at > 0
      /\ \A r \in newest : \A q \in samples \ newest : q.at <= r.at
  BY NewerIsNewer
<1> HIDE DEF newest, split
<1>4. context.future = future /\ context.development \subseteq samples \ future
  BY <1>1, <1>2
<1>5. ASSUME NEW r \in future
      PROVE  \E q \in newest : q \in future /\ Message(q) = Message(r)
  BY <1>3
<1>6. \A q \in context.development : q \in samples \ newest
  BY <1>3, <1>4
<1>7. ASSUME NEW r \in context.future
      PROVE  \E at \in {q.at : q \in {x \in context.future : Message(x) = Message(r)}} :
                at > 0 /\ \A q \in context.development : q.at <= at
  <2>1. PICK q \in newest : q \in future /\ Message(q) = Message(r)
    BY <1>4, <1>5, <1>7
  <2>2. q.at > 0 /\ \A d \in context.development : d.at <= q.at
    BY <1>3, <1>6, <2>1
  <2>3. q \in {x \in context.future : Message(x) = Message(r)}
    BY <1>4, <2>1
  <2> HIDE DEF future
  <2> QED
    BY <2>2, <2>3
<1> QED
  BY <1>7 DEF FutureIsNewest

(* From the first stage on nothing that is learned from is measured in the  *)
(* end, and every message of the frozen future window has a label that is   *)
(* dated and no older than anything learned from, for any corpus, share and *)
(* order of dates (EvaluationContext.reserve, split_by_time).               *)
THEOREM HoldoutsStayUnseen == Spec => []HoldoutsUnseen
<1>1. ASSUME AnalysisInv, SearchInv PROVE HoldoutsUnseen
  BY <1>1, ReserveSetsApart, FutureNewest DEF AnalysisInv, SearchInv, HoldoutsUnseen
<1> QED
  BY <1>1, SearchAlways, PTL

(***************************************************************************)
(* Better than the host                                                    *)
(***************************************************************************)
(* A policy decides every turn one way or the other, so the four counts of  *)
(* any two policies add up to the same.                                     *)
LEMMA TurnsAddUp ==
    ASSUME NEW rows, IsCorpus(rows), \A r \in rows : r.task # "topic", NEW policy
    PROVE  Weight(Kept(rows)) =
              Weight(Turns(rows, policy, TRUE, TRUE)) + Weight(Turns(rows, policy, TRUE, FALSE))
              + (Weight(Turns(rows, policy, FALSE, TRUE)) + Weight(Turns(rows, policy, FALSE, FALSE)))
<1> DEFINE part(truth, told) == Turns(rows, policy, truth, told)
           wanted == part(TRUE, TRUE) \cup part(TRUE, FALSE)
           others == part(FALSE, TRUE) \cup part(FALSE, FALSE)
<1>1. IsCorpus(Kept(rows))
  BY PartOfCorpus DEF Kept
<1>2. \A r \in Kept(rows) : Targeted(r, policy) \in BOOLEAN
  <2> SUFFICES ASSUME NEW r \in Kept(rows) PROVE Targeted(r, policy) \in BOOLEAN
    OBVIOUS
  <2>1. r.kind \in {"explicit", "unscored", "unknown", "early", "scored"}
    BY DEF Kept, IsCorpus
  <2>2. CASE r.kind \in {"explicit", "unscored", "unknown"}
    <3>1. Targeted(r, policy) = (r.said \in {"bot", "reply"})
      BY <2>2 DEF Targeted
    <3> QED
      BY <3>1
  <2>3. CASE r.kind = "early"
    <3>1. Targeted(r, policy) = FALSE
      BY <2>3 DEF Targeted
    <3> QED
      BY <3>1
  <2>4. CASE r.kind = "scored"
    <3>1. Targeted(r, policy) = (r.score >= Normalize(policy).strong)
      BY <2>4 DEF Targeted
    <3> QED
      BY <3>1
  <2> QED
    BY <2>1, <2>2, <2>3, <2>4
<1>3. /\ Kept(rows) = wanted \cup others
      /\ wanted \cap others = {}
      /\ part(TRUE, TRUE) \cap part(TRUE, FALSE) = {}
      /\ part(FALSE, TRUE) \cap part(FALSE, FALSE) = {}
      /\ wanted \subseteq Kept(rows) /\ others \subseteq Kept(rows)
      /\ \A truth, told : part(truth, told) \subseteq Kept(rows)
  BY <1>2 DEF Turns
<1> HIDE DEF part
<1>4. /\ Weight(wanted) = Weight(part(TRUE, TRUE)) + Weight(part(TRUE, FALSE))
      /\ Weight(others) = Weight(part(FALSE, TRUE)) + Weight(part(FALSE, FALSE))
  <2>1. \A A, B \in SUBSET Kept(rows) : A \cap B = {} => Weight(A \cup B) = Weight(A) + Weight(B)
    BY <1>1, WeightOfParts
  <2>2. \A truth, told : part(truth, told) \in SUBSET Kept(rows)
    BY <1>3
  <2> QED
    BY <1>3, <2>1, <2>2
<1> HIDE DEF wanted, others
<1>5. Weight(Kept(rows)) = Weight(wanted) + Weight(others)
  BY <1>1, <1>3, WeightOfParts
<1> QED
  BY <1>4, <1>5 DEF part

(* Every pair is joined or not, so their sums add up to the same too.       *)
LEMMA PairsAddUp ==
    ASSUME NEW rows, IsCorpus(rows), NEW threshold
    PROVE  PairSum(rows, Together(rows)) =
              PairSum(rows, PairsOf(rows, threshold, TRUE, TRUE))
              + PairSum(rows, PairsOf(rows, threshold, TRUE, FALSE))
              + (PairSum(rows, PairsOf(rows, threshold, FALSE, TRUE))
                 + PairSum(rows, PairsOf(rows, threshold, FALSE, FALSE)))
<1> DEFINE part(truth, told) == PairsOf(rows, threshold, truth, told)
           same == part(TRUE, TRUE) \cup part(TRUE, FALSE)
           others == part(FALSE, TRUE) \cup part(FALSE, FALSE)
           all == Together(rows)
           sum(P) == PairSum(rows, P)
<1>1. \A pair : JoinedAt(pair, threshold) \in BOOLEAN
  BY DEF JoinedAt
<1>2. /\ all = same \cup others
      /\ same \cap others = {}
      /\ part(TRUE, TRUE) \cap part(TRUE, FALSE) = {}
      /\ part(FALSE, TRUE) \cap part(FALSE, FALSE) = {}
      /\ \A truth, told : part(truth, told) \subseteq all
      /\ all \subseteq rows \X rows
  BY <1>1 DEF PairsOf, Together
<1> HIDE DEF part, all
<1>3. ASSUME NEW A \in SUBSET all, NEW B \in SUBSET all, A \cap B = {}
      PROVE  sum(A \cup B) = sum(A) + sum(B)
  <2>1. A \subseteq rows \X rows /\ B \subseteq rows \X rows
    BY <1>2
  <2>2. IsFiniteSet(rows \X rows) /\ \A pair \in rows \X rows : TimesIn(rows)[pair] \in Nat
    BY PairsAreFinite
  <2>3. IsFiniteSet(A) /\ IsFiniteSet(B)
    BY <2>1, <2>2, FS_Subset
  <2>4. \A pair \in A \cup B : TimesIn(rows)[pair] \in Int
    BY <2>1, <2>2
  <2> QED
    BY <1>3, <2>3, <2>4, SumOfParts DEF PairSum
<1> HIDE DEF sum
<1>4. /\ sum(same) = sum(part(TRUE, TRUE)) + sum(part(TRUE, FALSE))
      /\ sum(others) = sum(part(FALSE, TRUE)) + sum(part(FALSE, FALSE))
      /\ sum(all) = sum(same) + sum(others)
  BY <1>2, <1>3
<1> QED
  BY <1>4 DEF sum, part, all

(* Two policies are scored over the same total.                             *)
LEMMA SameTotal ==
    ASSUME NEW task, NEW rows, IsCorpus(rows), \A r \in rows : r.task = task,
           NEW p, NEW q
    PROVE  Total(ScoreTask(task, rows, p)) = Total(ScoreTask(task, rows, q))
<1>1. CASE task = "topic"
  <2>1. ASSUME NEW policy
        PROVE  2 * Total(ScoreTask(task, rows, policy)) = PairSum(rows, Together(rows))
               /\ Total(ScoreTask(task, rows, policy)) \in Nat
    <3> DEFINE c == ScoreTask(task, rows, policy)
               cut == Normalize(policy).commit
    <3>1. c = PairCounts(rows, cut)
      BY <1>1, ScoreIs
    <3> HIDE DEF c, cut
    <3>2. /\ IsCount(c)
          /\ PairSum(rows, PairsOf(rows, cut, TRUE, TRUE)) = 2 * c.hit
          /\ PairSum(rows, PairsOf(rows, cut, TRUE, FALSE)) = 2 * c.missed
          /\ PairSum(rows, PairsOf(rows, cut, FALSE, TRUE)) = 2 * c.false
          /\ PairSum(rows, PairsOf(rows, cut, FALSE, FALSE)) = 2 * c.rest
      BY <3>1, PairCountsAre
    <3>3. PairSum(rows, Together(rows)) = 2 * c.hit + 2 * c.missed + (2 * c.false + 2 * c.rest)
      BY <3>2, PairsAddUp
    <3> QED
      BY <3>2, <3>3 DEF IsCount, Total, c
  <2>2. /\ 2 * Total(ScoreTask(task, rows, p)) = 2 * Total(ScoreTask(task, rows, q))
        /\ Total(ScoreTask(task, rows, p)) \in Nat /\ Total(ScoreTask(task, rows, q)) \in Nat
    BY <2>1
  <2> QED
    BY <2>2
<1>2. CASE task # "topic"
  <2>1. ASSUME NEW policy
        PROVE  Total(ScoreTask(task, rows, policy)) = Weight(Kept(rows))
    <3> DEFINE of(truth, told) == Weight(Turns(rows, policy, truth, told))
    <3>1. Weight(Kept(rows)) = of(TRUE, TRUE) + of(TRUE, FALSE) + (of(FALSE, TRUE) + of(FALSE, FALSE))
      BY <1>2, TurnsAddUp
    <3>2. \A truth, told : of(truth, told) \in Nat
      BY WeightGrows DEF Turns, Kept
    <3>3. ScoreTask(task, rows, policy) = [hit |-> of(TRUE, TRUE), missed |-> of(TRUE, FALSE),
                                           false |-> of(FALSE, TRUE), rest |-> of(FALSE, FALSE)]
      BY <1>2, ScoreIs
    <3> DEFINE c == ScoreTask(task, rows, policy)
    <3>4. /\ c.hit = of(TRUE, TRUE) /\ c.missed = of(TRUE, FALSE)
          /\ c.false = of(FALSE, TRUE) /\ c.rest = of(FALSE, FALSE)
      BY <3>3
    <3>5. Total(c) = c.hit + c.missed + c.false + c.rest
      BY DEF Total
    <3> HIDE DEF of, c
    <3>6. /\ c.hit \in Nat /\ c.missed \in Nat /\ c.false \in Nat /\ c.rest \in Nat
          /\ Weight(Kept(rows)) = c.hit + c.missed + (c.false + c.rest)
      BY <3>1, <3>2, <3>4
    <3>7. Total(c) = Weight(Kept(rows))
      BY <3>5, <3>6
    <3> QED
      BY <3>7 DEF c
  <2> QED
    BY <2>1
<1> QED
  BY <1>1, <1>2

RightOf(c) == c.hit + c.rest

(* A higher accuracy over the same total is more that is right. *)
LEMMA MoreAccurate ==
    ASSUME NEW before, NEW after, IsCount(before), IsCount(after), Total(before) = Total(after),
           Change(Accuracy(before), Accuracy(after)) # NoRate,
           Change(Accuracy(before), Accuracy(after)) > 0
    PROVE  RightOf(after) > RightOf(before)
<1> DEFINE n == Total(before)
           b == RightOf(before)
           a == RightOf(after)
<1>1. n \in Nat /\ b \in Nat /\ a \in Nat
  BY DEF IsCount, Total, RightOf
<1>2. Accuracy(before) = Ratio(b, n) /\ Accuracy(after) = Ratio(a, n)
  BY DEF Accuracy, RightOf
<1> HIDE DEF n, a, b
<1>3. n # 0 /\ Ratio(a, n) - Ratio(b, n) > 0
  BY <1>2 DEF Change, Ratio
<1>4. Ratio(a, n) = RoundDiv(One * a, n) /\ Ratio(b, n) = RoundDiv(One * b, n)
  BY <1>3 DEF Ratio
<1>5. Ratio(a, n) \in Int /\ Ratio(b, n) \in Int
  BY <1>1, RatioIsInt
<1>6. SUFFICES ASSUME a <= b PROVE FALSE
  BY <1>1 DEF a, b
<1>7. One * a <= One * b /\ One * a \in Int /\ One * b \in Int
  BY <1>1, <1>6 DEF One
<1>8. RoundDiv(One * a, n) <= RoundDiv(One * b, n)
  BY <1>1, <1>3, <1>7, RoundsUp
<1> QED
  BY <1>3, <1>4, <1>5, <1>8

BeatsOn(params, base, holdout) ==
    LET count(task, policy) == ScoreTask(task, OfTask(task, holdout), policy)
        right(task, policy) == count(task, policy).hit + count(task, policy).rest
        moved == IF Drift(base, params) = {"commit"} THEN {"topic"} ELSE {"recipient", "reply"}
    IN  /\ \E task \in moved : right(task, params) > right(task, base)
        /\ \A task \in moved : ~GuardBroken(count(task, base), count(task, params), MaxLoss)

(* An accepted policy is right more often and breaks no other task.         *)
LEMMA AcceptedBeats ==
    ASSUME MinGain > 0, NEW holdout, IsCorpus(holdout), NEW params, NEW base, NEW tasks,
           Verdict(params, base, tasks, holdout) = "accepted"
    PROVE  BeatsOn(params, base, holdout)
<1> DEFINE plan == Plan(params, base)
           before(t) == ScoreTask(t, OfTask(t, holdout), base)
           after(t) == ScoreTask(t, OfTask(t, holdout), params)
           target == Head(plan.targets)
           gain == Change(Primary(target, before(target)), Primary(target, after(target)))
           changed == Drift(base, params)
           moved == IF changed = {"commit"} THEN {"topic"} ELSE {"recipient", "reply"}
<1>1. /\ plan.unsupported = {} /\ plan.targets # <<>>
      /\ \A t \in plan.affected : ~GuardBroken(before(t), after(t), MaxLoss)
      /\ gain # NoRate /\ gain >= MinGain
  BY DEF Verdict
<1>2. changed \subseteq {"strong", "commit"} /\ ("strong" \in changed \/ "commit" \in changed)
  BY <1>1 DEF Plan
<1>3. moved \subseteq plan.affected /\ target \in moved /\ target # "reply"
  <2>1. CASE "strong" \in changed
    <3>1. changed # {"commit"}
      BY <2>1
    <3> QED
      BY <2>1, <3>1 DEF Plan
  <2>2. CASE "strong" \notin changed
    <3>1. changed = {"commit"}
      BY <1>2, <2>2
    <3>2. plan.targets = <<"topic">> /\ "topic" \in plan.affected
      BY <3>1 DEF Plan
    <3> QED
      BY <3>1, <3>2
  <2> QED
    BY <2>1, <2>2
<1> HIDE DEF plan
<1>4. /\ IsCount(before(target)) /\ IsCount(after(target))
      /\ Total(before(target)) = Total(after(target))
  <2> DEFINE rows == OfTask(target, holdout)
  <2>1. IsCorpus(rows) /\ \A r \in rows : r.task = target
    BY PartOfCorpus DEF OfTask
  <2> HIDE DEF rows, target
  <2> QED
    BY <2>1, ScoreIsCount, SameTotal DEF rows
<1>5. gain = Change(Accuracy(before(target)), Accuracy(after(target)))
  BY <1>3 DEF Primary
<1>6. gain > 0
  <2>1. Accuracy(before(target)) \in Int /\ Accuracy(after(target)) \in Int
    BY <1>4, RatesAreInts
  <2>2. gain \in Int
    BY <1>5, <2>1 DEF Change, NoRate, One
  <2>3. MinGain \in Nat
    BY EvaluatorAssumption DEF EvaluatorAssumption
  <2> HIDE DEF gain
  <2> QED
    BY <1>1, <2>2, <2>3
<1>7. RightOf(after(target)) > RightOf(before(target))
  <2> HIDE DEF gain, before, after, target
  <2> QED
    BY <1>1, <1>4, <1>5, <1>6, MoreAccurate
<1> HIDE DEF target
<1>8. \A t \in moved : ~GuardBroken(before(t), after(t), MaxLoss)
  BY <1>1, <1>3
<1>9. \E t \in moved : RightOf(after(t)) > RightOf(before(t))
  BY <1>3, <1>7
<1> QED
  BY <1>8, <1>9 DEF BeatsOn, RightOf

(***************************************************************************)
(* Only what beat the host is recorded as validated                        *)
(***************************************************************************)
Decisive == {context.session} \cup (IF options.forward THEN {context.future} ELSE {})
BeatsHost(c) == \A holdout \in Decisive : BeatsOn(c.params, c.baseline, holdout)
Merited(c) == c.status = "validated" => BeatsHost(c)
BeatsInv ==
    /\ phase \in {"final_runs"} \cup Late => \A c \in single : Merited(c)
    /\ phase \in Late => \A i \in 1..Len(runs) : \A c \in runs[i].candidate : Merited(c)
    /\ phase # "done" => recorded = {}
    /\ \A c \in recorded : Merited(c)
    /\ recorded # {} => options.gate

(* The final gate looks at every holdout that was set aside.                *)
LEMMA GateBeats ==
    ASSUME MinGain > 0, AnalysisInv, SearchInv, NEW c, NEW interval, Gate(c, interval) = "accepted"
    PROVE  BeatsHost(c)
<1> DEFINE tasks == {r.task : r \in samples}
<1>1. Verdict(c.params, c.baseline, tasks, context.session) = "accepted"
  BY DEF Gate, PromotionCheck
<1>2. options.forward => Verdict(c.params, c.baseline, tasks, context.future) = "accepted"
  <2> HAVE options.forward
  <2> DEFINE newer == Verdict(c.params, c.baseline, tasks, context.future)
  <2>1. newer \in {"insufficient", "rejected", "accepted"}
    BY DEF Verdict
  <2>2. newer # "insufficient" /\ newer # "rejected"
    BY DEF Gate, PromotionCheck
  <2> QED
    BY <2>1, <2>2
<1>3. IsCorpus(context.session) /\ IsCorpus(context.future)
  <2>1. context.session \subseteq samples /\ context.future \subseteq samples
    BY ReservedApart DEF AnalysisInv, NoContext
  <2>2. IsCorpus(samples)
    BY DEF SearchInv
  <2> QED
    BY <2>1, <2>2, PartOfCorpus
<1> HIDE DEF tasks
<1>4. BeatsOn(c.params, c.baseline, context.session)
  BY <1>1, <1>3, AcceptedBeats
<1>5. options.forward => BeatsOn(c.params, c.baseline, context.future)
  BY <1>2, <1>3, AcceptedBeats
<1> QED
  BY <1>4, <1>5 DEF BeatsHost, Decisive

LEMMA BeatsInitially == Init => BeatsInv
BY DEF Init, BeatsInv, Late

(* No stage but the first touches what decides. *)
LEMMA SameHoldouts ==
    ASSUME context' = context, options' = options, NEW c
    PROVE  Merited(c)' <=> Merited(c)
BY DEF Merited, BeatsHost, Decisive

(* A stage that leaves the holdouts and the record alone.                   *)
LEMMA BeatsBuilt ==
    ASSUME BeatsInv, context' = context, options' = options, recorded' = recorded,
           phase' \in {"final_runs"} \cup Late => \A c \in single' : Merited(c),
           phase' \in Late => \A i \in 1..Len(runs') : \A c \in runs'[i].candidate : Merited(c),
           phase # "done", phase' # "done"
    PROVE  BeatsInv'
<1>1. recorded' = {}
  BY DEF BeatsInv
<1> QED
  BY <1>1 DEF BeatsInv, Merited, BeatsHost, Decisive

LEMMA BeatsStep ==
    ASSUME MinGain > 0, AnalysisInv, SearchInv, BeatsInv, [Next]_vars
    PROVE  BeatsInv'
<1>1. CASE UNCHANGED vars
  BY <1>1 DEF BeatsInv, Merited, BeatsHost, Decisive, vars
<1>2. CASE Reserve
  BY <1>2 DEF Reserve, BeatsInv, Late
<1>3. CASE Learn
  BY <1>3, BeatsBuilt DEF Learn, Late
<1>4. CASE Evaluate
  BY <1>4, BeatsBuilt DEF Evaluate, Late
<1>5. CASE BeginRun
  BY <1>5, BeatsBuilt DEF BeginRun, Late
<1>6. CASE TuneStep
  BY <1>6, BeatsBuilt DEF TuneStep, Late
<1>7. CASE EndTuning
  BY <1>7, BeatsBuilt DEF EndTuning, Late
<1>8. CASE FinalizeSingle
  <2>1. \A c \in single' : Merited(c)
    <3>1. CASE single = {} /\ UNCHANGED single
      BY <3>1
    <3>2. CASE \E c \in single : \E interval \in PossibleIntervals(c) :
                  single' = {[params |-> c.params, baseline |-> c.baseline,
                              status |-> Final(Gate(c, interval))]}
      <4>1. PICK c \in single : \E interval \in PossibleIntervals(c) :
               single' = {[params |-> c.params, baseline |-> c.baseline,
                           status |-> Final(Gate(c, interval))]}
        BY <3>2
      <4> PICK interval \in PossibleIntervals(c) :
               single' = {[params |-> c.params, baseline |-> c.baseline,
                           status |-> Final(Gate(c, interval))]}
        BY <4>1
      <4>2. Final(Gate(c, interval)) = "validated" => BeatsHost(c)
        BY GateBeats DEF Final
      <4> QED
        BY <4>2 DEF Merited, BeatsHost
    <3> QED
      BY <1>8, <3>1, <3>2 DEF FinalizeSingle
  <2> QED
    BY <1>8, <2>1, BeatsBuilt DEF FinalizeSingle, Late
<1>9. CASE FinalizeRuns
  <2>1. DOMAIN runs = 1..Len(runs) /\ Len(runs) \in Nat
    BY RunsDomain DEF AnalysisInv, RunsOK
  <2>2. PICK interval : runs' = [i \in DOMAIN runs |-> FinalRun(runs[i], interval[i])]
    BY <1>9 DEF FinalizeRuns
  <2>3. DOMAIN runs' = 1..Len(runs)
    BY <2>1, <2>2
  <2>4. Len(runs') = Len(runs)
    BY <2>1, <2>3
  <2>5. ASSUME NEW i \in 1..Len(runs), NEW x \in FinalRun(runs[i], interval[i]).candidate
        PROVE  Merited(x)
    <3> DEFINE run == runs[i]
               c == CHOOSE y \in run.candidate : TRUE
               gate == Gate(c, interval[i])
    <3>1. RunOK(run, Tasks[i])
      BY DEF AnalysisInv, RunsOK
    <3>2. CASE run.candidate = {}
      BY <2>5, <3>2 DEF FinalRun
    <3>3. CASE run.candidate # {}
      <4>1. c \in run.candidate
        BY <3>3
      <4>2. CandidateOK(Tasks[i], run.baseline, c)
        BY <3>1, <4>1 DEF RunOK
      <4>3. FinalRun(run, interval[i]).candidate = {[c EXCEPT !.status = Final(gate)]}
        BY <3>1, <3>3 DEF FinalRun, RunOK, RunFields
      <4> HIDE DEF c
      <4>4. x.status = Final(gate) /\ x.params = c.params /\ x.baseline = c.baseline
        BY <2>5, <4>2, <4>3 DEF CandidateOK
      <4>5. Final(gate) = "validated" => BeatsHost(c)
        BY GateBeats DEF Final
      <4> QED
        BY <4>4, <4>5 DEF Merited, BeatsHost
    <3> QED
      BY <3>2, <3>3
  <2>6. \A i \in 1..Len(runs') : \A c \in runs'[i].candidate : Merited(c)
    BY <2>1, <2>2, <2>4, <2>5
  <2>7. \A c \in single' : Merited(c)
    BY <1>9 DEF FinalizeRuns, BeatsInv
  <2> QED
    BY <1>9, <2>6, <2>7, BeatsBuilt DEF FinalizeRuns, Late
<1>10. CASE Annotate
  <2>1. \A c \in single' : Merited(c)
    BY <1>10 DEF Annotate, BeatsInv, Late
  <2>2. \A i \in 1..Len(runs) : \A c \in runs[i].candidate : Merited(c)
    BY <1>10 DEF Annotate, BeatsInv, Late
  <2>3. CASE options.gate
    BY <1>10, <2>1, <2>2, <2>3, BeatsBuilt DEF Annotate
  <2>4. CASE ~options.gate
    <3>1. DOMAIN runs = 1..Len(runs) /\ Len(runs) \in Nat
      BY RunsDomain DEF AnalysisInv, RunsOK
    <3> DEFINE marks(i) == {[c EXCEPT !.status = "proposed"] : c \in runs[i].candidate}
    <3>2. runs' = [i \in DOMAIN runs |-> [runs[i] EXCEPT !.candidate = marks(i)]]
      BY <1>10, <2>4 DEF Annotate
    <3>3. DOMAIN runs' = 1..Len(runs)
      BY <3>1, <3>2
    <3>4. Len(runs') = Len(runs)
      BY <3>1, <3>3
    <3>5. ASSUME NEW i \in 1..Len(runs), NEW c \in marks(i) PROVE Merited(c)
      <4>1. PICK d \in runs[i].candidate : c = [d EXCEPT !.status = "proposed"]
        OBVIOUS
      <4>2. CandidateOK(Tasks[i], runs[i].baseline, d)
        BY DEF AnalysisInv, RunsOK, RunOK
      <4>3. c.status = "proposed"
        BY <4>1, <4>2 DEF CandidateOK
      <4> QED
        BY <4>3 DEF Merited
    <3> HIDE DEF marks
    <3>6. \A i \in 1..Len(runs) : runs'[i].candidate = marks(i)
      BY <3>1, <3>2 DEF AnalysisInv, RunsOK, RunOK, RunFields
    <3>7. \A i \in 1..Len(runs') : \A c \in runs'[i].candidate : Merited(c)
      BY <3>4, <3>5, <3>6
    <3> QED
      BY <1>10, <2>1, <3>7, BeatsBuilt DEF Annotate
  <2> QED
    BY <2>3, <2>4
<1>11. CASE Record
  <2> DEFINE ofRuns == UNION {runs[i].candidate : i \in DOMAIN runs}
             kept == IF ofRuns = {} THEN single ELSE ofRuns
  <2>1. \A c \in kept : Merited(c)
    <3>1. DOMAIN runs = 1..Len(runs)
      BY RunsDomain DEF AnalysisInv, RunsOK
    <3> QED
      BY <1>11, <3>1 DEF Record, BeatsInv, Late
  <2>2. recorded' = IF options.gate
                    THEN {[params |-> c.params, baseline |-> c.baseline, status |-> c.status] : c \in kept}
                    ELSE {}
    BY <1>11 DEF Record
  <2> HIDE DEF kept
  <2>3. \A c \in recorded' : Merited(c)
    BY <2>1, <2>2 DEF Merited, BeatsHost
  <2>4. /\ recorded' # {} => options.gate
        /\ context' = context /\ options' = options /\ single' = single /\ runs' = runs
        /\ phase = "record" /\ phase' = "done"
    BY <1>11, <2>2 DEF Record
  <2>5. /\ \A c \in single : Merited(c)
        /\ \A i \in 1..Len(runs) : \A c \in runs[i].candidate : Merited(c)
    BY <2>4 DEF BeatsInv, Late
  <2> QED
    BY <2>3, <2>4, <2>5 DEF BeatsInv, Merited, BeatsHost, Decisive
<1>12. CASE Done
  BY <1>12 DEF Done, BeatsInv, Merited, BeatsHost, Decisive, vars
<1> QED
  BY <1>1, <1>2, <1>3, <1>4, <1>5, <1>6, <1>7, <1>8, <1>9, <1>10, <1>11, <1>12 DEF Next

(* With a required improvement above zero, a recorded policy that says      *)
(* validated is right more often than the host on every holdout that was    *)
(* set aside, whatever the corpus and however the search went, and nothing  *)
(* is recorded below the corpus gate (promotion_check, finalize,            *)
(* run_analysis).                                                           *)
THEOREM ValidatedBeats == ASSUME MinGain > 0 PROVE Spec => []ValidatedBeatsHost
<1>1. Init => BeatsInv
  BY BeatsInitially
<1>2. AnalysisInv /\ SearchInv /\ BeatsInv /\ [Next]_vars => BeatsInv'
  BY BeatsStep
<1>3. BeatsInv => ValidatedBeatsHost
  BY DEF BeatsInv, ValidatedBeatsHost, Merited, BeatsHost, Decisive, BeatsOn
<1> QED
  BY <1>1, <1>2, <1>3, SearchAlways, PTL DEF Spec
=============================================================================
