---------------------------- MODULE PolicyRecord ----------------------------
(***************************************************************************)
(* The policy record of core/policy.py and the operators every component   *)
(* that stores or publishes records is built from: the status table, the   *)
(* refusal rule of LearningStore.update_policy_status, and the projections *)
(* that turn a list of records into the two offers.                        *)
(*                                                                         *)
(* A list of records is a total function from version numbers to records   *)
(* (NoRow where the list has none). The order of the list is the order of  *)
(* the versions: next_version is one more than the highest stored version, *)
(* append_policy appends, and an empty list starts again at 1.             *)
(***************************************************************************)
EXTENDS Integers, FiniteSets

CONSTANTS
    MaxVersion,     \* bound: versions are policy_v1 .. policy_v<MaxVersion>
    PolicyCap,      \* how many records a list keeps (500 in the code)
    Fingerprints    \* the dataset fingerprints that can occur

ASSUME RecordAssumption ==
    /\ MaxVersion \in Nat \ {0}
    /\ PolicyCap \in Nat \ {0}
    /\ Fingerprints # {}

Versions == 1 .. MaxVersion

Statuses == {"proposed", "validated", "shadow", "promoted",
             "superseded", "rolled_back", "rejected"}

\* The statuses that claim a passed validation.
LiveStatuses == {"validated", "shadow", "promoted"}

AllowedTransitions ==
    [proposed    |-> {"validated", "rejected"},
     validated   |-> {"shadow", "promoted", "rejected", "proposed"},
     shadow      |-> {"promoted", "rejected", "rolled_back", "proposed"},
     promoted    |-> {"superseded", "rolled_back"},
     rejected    |-> {"proposed"},
     rolled_back |-> {"proposed"},
     superseded  |-> {}]

CanTransition(current, target) ==
    current = target \/ target \in AllowedTransitions[current]

(***************************************************************************)
(* What a record carries of its final validation:                          *)
(*   "none"    identity mismatch or no accepted verdict                    *)
(*   "checked" identity and verdict hold, but evaluation was switched off  *)
(*             or the dataset gate had not passed                          *)
(*   "full"    everything update_policy_status asks for                    *)
(***************************************************************************)
Evidence == {"none", "checked", "full"}

Row == [status   : Statuses \cup {"absent"},
        stale    : BOOLEAN,
        evidence : Evidence,
        data     : Fingerprints,    \* training_dataset.fingerprint
        moves    : Nat]             \* history entries written by this version

NoRow == [status |-> "absent", stale |-> FALSE, evidence |-> "none",
          data |-> CHOOSE d \in Fingerprints : TRUE, moves |-> 0]

Present(row) == row.status # "absent"
Live(row)    == row.status \in LiveStatuses

RowMap == [Versions -> Row]
NoRows == [v \in Versions |-> NoRow]

PresentIn(rows) == {v \in Versions : Present(rows[v])}

\* rows[-500:]: a list keeps the records appended last.
Trim(rows) ==
    [v \in Versions |->
        IF Cardinality({w \in PresentIn(rows) : w > v}) < PolicyCap
        THEN rows[v] ELSE NoRow]

\* One more than the highest stored version; 1 when there is none.
IsNextVersion(rows, v) ==
    /\ \A w \in PresentIn(rows) : w < v
    /\ v = 1 \/ (v - 1) \in PresentIn(rows)

(***************************************************************************)
(* update_policy_status                                                    *)
(***************************************************************************)
\* Slip: the evidence of the record is not asked for.
AcceptsUnproven(row, status) == Present(row) /\ CanTransition(row.status, status)

Accepts(row, status) ==
    /\ Present(row)
    /\ CanTransition(row.status, status)
    /\ status \in LiveStatuses => ~row.stale /\ row.evidence = "full"

\* with_status appends to the history whatever the old status was.
WithStatus(rows, v, status) ==
    [rows EXCEPT ![v].status = status, ![v].moves = @ + 1]

(***************************************************************************)
(* Staleness marks: ingest marks every record, initialize the records      *)
(* whose fingerprint or evidence no longer holds.                          *)
(***************************************************************************)
\* Slip: only records that claim a validation are marked.
MarkLive(rows) ==
    [v \in Versions |->
        IF Live(rows[v]) THEN [rows[v] EXCEPT !.stale = TRUE] ELSE rows[v]]

MarkAll(rows) ==
    [v \in Versions |->
        IF Present(rows[v]) THEN [rows[v] EXCEPT !.stale = TRUE] ELSE rows[v]]

Outdated(row, fingerprint) ==
    /\ Present(row)
    /\ \/ row.data # fingerprint
       \/ Live(row) /\ row.evidence = "none"

MarkOutdated(rows, fingerprint) ==
    [v \in Versions |->
        IF Outdated(rows[v], fingerprint)
        THEN [rows[v] EXCEPT !.stale = TRUE] ELSE rows[v]]

(***************************************************************************)
(* The offers. The revision is a hash of the records; two lists have the   *)
(* same revision exactly when they are the same list, so it is modelled by *)
(* the list itself.                                                        *)
(***************************************************************************)
PublishedVersions(rows) ==
    {v \in Versions : rows[v].status = "promoted" /\ ~rows[v].stale}

CandidateVersions(rows) ==
    {v \in Versions : Live(rows[v]) /\ ~rows[v].stale}

Offer == [offered : SUBSET Versions, revision : RowMap]

PublishedOffer(rows) == [offered |-> PublishedVersions(rows), revision |-> rows]
CandidateOffer(rows) == [offered |-> CandidateVersions(rows), revision |-> rows]

\* A live record that is not stale carries the evidence its status claims: all
\* of it if this version moved it, identity and verdict if an older one did.
HasEvidence(row) ==
    row.evidence = "full" \/ (row.evidence = "checked" /\ row.moves = 0)

Backed(rows) ==
    \A v \in Versions : Live(rows[v]) /\ ~rows[v].stale => HasEvidence(rows[v])
=============================================================================
