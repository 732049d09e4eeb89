--------------------------- MODULE MCPolicyStore ---------------------------
(* Instances of PolicyStore for TLC: what an older version may have left.  *)
EXTENDS PolicyStore, TLC

CONSTANTS f0, f1

HandlerSymmetry == Permutations(Handlers)

AnOldRow(status, evidence) ==
    [status |-> status, stale |-> FALSE, evidence |-> evidence, data |-> f1, moves |-> 0]

\* A first installation, a store whose record has all its evidence, one whose
\* record was promoted by a version that kept none, and one in between.
Leftovers ==
    {NoRows} \cup
    {[NoRows EXCEPT ![1] = AnOldRow(s, e)] :
        <<s, e>> \in {<<"validated", "full">>, <<"promoted", "none">>,
                      <<"validated", "checked">>}}

\* A first installation and a store with one complete record.
FreshOrUsed == {NoRows, [NoRows EXCEPT ![1] = AnOldRow("validated", "full")]}
=============================================================================
