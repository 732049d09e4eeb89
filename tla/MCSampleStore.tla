--------------------------- MODULE MCSampleStore ---------------------------
(* Instances of SampleStore for TLC: the batches an import may find.       *)
EXTENDS SampleStore, TLC

SessionSymmetry == Permutations(Sessions)

\* Message 1 is labelled a, message 2 is labelled b.
Notes(a, b) == [m \in MsgIds |-> IF m = 1 THEN a ELSE b]
Of(s, form, damaged, notes) ==
    [session |-> s, form |-> form, damaged |-> damaged, notes |-> notes]
Whole(s, a, b)  == Of(s, "list", FALSE, Notes(a, b))
Broken(s, a, b) == Of(s, "list", TRUE, Notes(a, b))
Single(s, a, b) == Of(s, "record", FALSE, Notes(a, b))

\* A complete list of both messages, of which one is in a damaged list too, and
\* a single revised message, for any of the sessions at once.
Parts(s) == {{}, {Whole(s, "r1", "r1"), Broken(s, "r1", "unmentioned")},
             {Single(s, "r2", "unmentioned")}}
Common == {UNION {f[s] : s \in Sessions} :
             f \in {g \in [Sessions -> UNION {Parts(s) : s \in Sessions}] :
                        \A s \in Sessions : g[s] \in Parts(s)}}

\* Alone, an empty list, a damaged one, and a damaged one with a new message
\* beside a record that lost its label.
Alone == UNION {{{Whole(s, "unmentioned", "unmentioned")},
                 {Broken(s, "unmentioned", "r1")},
                 {Broken(s, "unmentioned", "r1"), Single(s, "unlabelled", "unmentioned")}} :
                    s \in Sessions}

Batches == Common \cup Alone
=============================================================================
