-------------------------- MODULE MCReviewRuntime --------------------------
(* Instances of ReviewRuntime for TLC. *)
EXTENDS ReviewRuntime, TLC

\* All requests but one are plain ones; that one may ask for a new reading.
OneMayRefresh ==
    LET plain == CHOOSE q \in Requests : TRUE
    IN  [q \in Requests |-> IF q = plain THEN {FALSE} ELSE BOOLEAN]

\* Settings that enable everything, and settings that enable nothing.
OnOff == {[enabled |-> Kinds, other |-> 0], [enabled |-> {}, other |-> 0]}
=============================================================================
