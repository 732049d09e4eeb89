------------------------------- MODULE Scores -------------------------------
(***************************************************************************)
(* The numbers every verdict is made of (core/metrics.py).  A rate is an    *)
(* integer in ten-thousandths, rounded as the code rounds it to four        *)
(* decimals; NoRate stands for None.  A row [..., n] is n samples of one    *)
(* shape.  A count is a confusion record: for a binary task hit, missed,    *)
(* false and rest are tp, fn, fp and tn; for the topic task they are the    *)
(* pairs rightly joined, fragmented, wrongly merged and rightly apart, so   *)
(* accuracy, F1 and both error kinds are the same formulas for every task.  *)
(***************************************************************************)
EXTENDS Integers, FiniteSets, FiniteSetsExt

One == 10000                 \* 1.0 in ten-thousandths
NoRate == One * One          \* Python's None: no denominator, nothing to compare

(* Python's round(): halves go to the even neighbour. *)
RoundDiv(a, b) ==
    LET q == a \div b
        r == a % b
    IN  IF 2 * r > b \/ (2 * r = b /\ q % 2 = 1) THEN q + 1 ELSE q

Ratio(a, b) == IF b = 0 THEN NoRate ELSE RoundDiv(One * a, b)

(* _metric_delta: undefined as soon as one side is. *)
Change(before, after) == IF NoRate \in {before, after} THEN NoRate ELSE after - before

AtLeast(x, bound) == x # NoRate /\ x >= bound
Below(x, bound) == x # NoRate /\ x < bound

Weight(rows) == SumFunction([r \in rows |-> r.n])

Total(c) == c.hit + c.missed + c.false + c.rest
Accuracy(c) == Ratio(c.hit + c.rest, Total(c))
F1(c) == Ratio(2 * c.hit, 2 * c.hit + c.false + c.missed)

(* PRIMARY_METRIC and GUARD_METRICS: reply admission is judged by F1, the   *)
(* others by accuracy, and each of them is guarded by both.                 *)
Primary(task, c) == IF task = "reply" THEN F1(c) ELSE Accuracy(c)
GuardBroken(before, after, allowance) ==
    \/ Below(Change(Accuracy(before), Accuracy(after)), -allowance)
    \/ Below(Change(F1(before), F1(after)), -allowance)

(* ErrorRate.relative, both sides over the same exposure. *)
Relative(before, after) ==
    IF before = 0 THEN NoRate ELSE RoundDiv(One * (after - before), before)

ErrorImproved(before, after) == IF before = 0 THEN after = 0 ELSE after < before
=============================================================================
