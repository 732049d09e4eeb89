--------------------------- MODULE PolicyRegister ---------------------------
(***************************************************************************)
(* What the policy store promises its callers: one list of records and the *)
(* fingerprint of the stored samples, each operation changing them in one  *)
(* step, and no step undone by a crash, a retry or another request.        *)
(* PolicyStore implements this with four keys and many awaits.             *)
(***************************************************************************)
EXTENDS PolicyRecord

CONSTANT LegacyRows   \* the record lists an older version may have left

VARIABLES rows, data

regvars == <<rows, data>>

\* A finalised candidate is validated exactly when its evidence is complete.
RecordedRow(evidence, fingerprint) ==
    [status |-> IF evidence = "full" THEN "validated" ELSE "proposed",
     stale |-> FALSE, evidence |-> evidence, data |-> fingerprint, moves |-> 1]

Init == rows \in LegacyRows /\ data \in Fingerprints

\* update_policy
Decide ==
    \E v \in Versions, s \in Statuses :
        /\ Accepts(rows[v], s)
        /\ rows' = WithStatus(rows, v, s)
        /\ UNCHANGED data

\* A list that keeps PolicyCap records makes room by giving up its oldest one.
Displaced(v) ==
    /\ v \in PresentIn(rows) /\ \A w \in PresentIn(rows) : v <= w
    /\ Cardinality(PresentIn(rows)) >= PolicyCap

\* run_analysis: one candidate trained on the stored samples
Record ==
    \E v \in Versions, e \in Evidence :
        /\ IsNextVersion(rows, v)
        /\ rows' = [w \in Versions |-> IF w = v THEN RecordedRow(e, data)
                                      ELSE IF Displaced(w) THEN NoRow ELSE rows[w]]
        /\ UNCHANGED data

\* ingest and reset_storage change the samples before the records
ChangeSamples == data' \in Fingerprints /\ UNCHANGED rows

\* ingest
MarkStale == rows' = MarkAll(rows) /\ UNCHANGED data

\* initialize
Revalidate == rows' = MarkOutdated(rows, data) /\ UNCHANGED data

\* reset_storage
Forget == rows' = NoRows /\ UNCHANGED data

Next == Decide \/ Record \/ ChangeSamples \/ MarkStale \/ Revalidate \/ Forget

Spec == Init /\ [][Next]_regvars
=============================================================================
