------------------------------- MODULE Shadow -------------------------------
(***************************************************************************)
(* core/shadow.py: the turns on which the host wrote what a shadow policy   *)
(* would have decided, held against the human's label, and the gate that    *)
(* offers the policy for activation.                                        *)
(*                                                                          *)
(* A stored block has the experiment it belongs to (its five identity       *)
(* fields: "" when one is missing), the two decisions and the hour of the   *)
(* turn.  Rules has the fields of ActiveRules, shares in per cent.          *)
(***************************************************************************)
EXTENDS Samples

CONSTANT Rules

Labelled(turns) == {t \in turns : t.expected # {}}
Hits(turns, side) == Cardinality({t \in Labelled(turns) : {t[side]} = t.expected})

(* As ShadowRows below, one row for each sample that carries the block. *)
ShadowRowsOfSamples(rows) ==
    UNION {{[msg |-> r.msg, task |-> r.task, session |-> r.session,
             experiment |-> b.experiment, hour |-> b.hour,
             base |-> b.base, shadow |-> b.shadow, changed |-> b.changed,
             expected |-> {q.expected = "reply" :
                              q \in {p \in rows : p.msg = r.msg /\ p.task = "reply"}}] :
                b \in ShadowOf(r)} : r \in rows}

(* shadow_rows: a message counts once, whichever samples it has; its label  *)
(* is the one on the admission sample.                                      *)
ShadowRows(rows) ==
    UNION {{[msg |-> r.msg, session |-> SessionOf[r.msg], experiment |-> b.experiment,
             hour |-> b.hour, base |-> b.base, shadow |-> b.shadow, changed |-> b.changed,
             expected |-> {q.expected = "reply" :
                              q \in {p \in rows : p.msg = r.msg /\ p.task = "reply"}}] :
                b \in ShadowOf(r)} : r \in rows}

(* disagreement_table *)
Table(turns) ==
    LET told == Labelled(turns)
        right(t, side) == {t[side]} = t.expected
        cell(base, shadow) ==
            Cardinality({t \in told : right(t, "base") = base /\ right(t, "shadow") = shadow})
    IN  [labelled |-> Cardinality(told), changed |-> Cardinality({t \in told : t.changed}),
         both_correct |-> cell(TRUE, TRUE), baseline_only |-> cell(TRUE, FALSE),
         shadow_only |-> cell(FALSE, TRUE), both_wrong |-> cell(FALSE, FALSE)]

(* _gate_checks and _subgroups.  The bootstrap resamples whole sessions: its *)
(* lower bound can clear the floor only if some session does not lose.       *)
Checks(turns) ==
    LET table == Table(turns)
        count == table.labelled
        hits(side) == Hits(turns, side)
        gain == hits("shadow") - hits("base")
        errors == count - hits("base")
        sessions == {t.session : t \in turns}
        of(s) == {t \in Labelled(turns) : t.session = s}
        gainIn(s) == Hits(of(s), "shadow") - Hits(of(s), "base")
    IN  [shadow_samples |-> count >= Rules.min_shadow_samples,
         disagreements |-> table.changed >= Rules.min_disagreements,
         overall_regression |-> 100 * gain >= -Rules.max_overall_regression * count,
         target_improvement |->
            /\ count > 0
            /\ \/ 100 * gain >= Rules.target_absolute_improvement * count
               \/ /\ 100 * errors >= Rules.relative_min_baseline_error * count
                  /\ 100 * gain >= Rules.target_relative_improvement * errors,
         interval_floor |-> \E s \in sessions : of(s) # {} /\ gainIn(s) >= 0,
         sessions |-> Cardinality(sessions) >= Rules.min_sessions,
         active_hours |-> Cardinality({t.hour : t \in turns} \ {0}) >= Rules.min_active_hours,
         subgroups |-> ~\E s \in sessions :
            /\ Cardinality(of(s)) >= Rules.subgroup_min_support
            /\ 100 * gainIn(s) <= -Rules.subgroup_max_regression * Cardinality(of(s))
            /\ of(s) # {},
         net_gain |-> table.shadow_only > table.baseline_only]

(* evaluate_shadow: only a single complete experiment can open the gate. *)
Blocked(turns) ==
    LET checks == Checks(turns)
    IN  {name \in DOMAIN checks : ~checks[name]}
        \cup {b \in {"experiment_identity"} :
                \/ Cardinality({t.experiment : t \in turns}) # 1
                \/ \E t \in turns : t.experiment = ""}
=============================================================================
