-------------------------- MODULE PolicyStoreProofs --------------------------
(***************************************************************************)
(* Theorems about PolicyStore, for every number of coroutines, versions,   *)
(* fingerprints, operations, crashes and aborts.                           *)
(***************************************************************************)
EXTENDS PolicyStore, FiniteSetTheorems, SequenceTheorems, TLAPS

(***************************************************************************)
(* What the operators of PolicyRecord return, preserve and bound           *)
(***************************************************************************)
LEMMA VersionsAreFinite == IsFiniteSet(Versions)
BY FS_Interval, RecordAssumption DEF Versions

(* The absent record and the list without records are well typed.          *)
LEMMA NoRowsType == NoRow \in Row /\ NoRows \in RowMap
BY RecordAssumption DEF NoRow, NoRows, Row, RowMap, Statuses, Evidence

(* Keeping the newest PolicyCap records keeps the type of a list.          *)
LEMMA TrimType ==
    ASSUME NEW rows \in RowMap
    PROVE  /\ Trim(rows) \in RowMap
           /\ \A v \in Versions : Trim(rows)[v] = rows[v] \/ Trim(rows)[v] = NoRow
           /\ PresentIn(Trim(rows)) \subseteq PresentIn(rows)
BY NoRowsType DEF Trim, RowMap, PresentIn, Present, NoRow

(* Of the records a list keeps, the newer ones are kept too.               *)
LEMMA TrimKeepsNewer ==
    ASSUME NEW rows \in RowMap, NEW v \in Versions, NEW w \in Versions, v <= w,
           Cardinality({x \in PresentIn(rows) : x > v}) < PolicyCap
    PROVE  Cardinality({x \in PresentIn(rows) : x > w}) < PolicyCap
<1> DEFINE Above(y) == {x \in PresentIn(rows) : x > y}
<1>1. Above(w) \subseteq Above(v)
  BY DEF Versions, PresentIn
<1>2. IsFiniteSet(Above(v))
  BY VersionsAreFinite, FS_Subset DEF PresentIn
<1>3. Cardinality(Above(w)) <= Cardinality(Above(v))
  BY <1>1, <1>2, FS_Subset
<1>4. Cardinality(Above(w)) \in Nat /\ Cardinality(Above(v)) \in Nat
  BY <1>1, <1>2, FS_Subset, FS_CardinalityType
<1> QED
  BY <1>3, <1>4, RecordAssumption

(* The cap applied twice is the cap applied once: load_policies may trim   *)
(* what save_policies trimmed.                                             *)
LEMMA TrimTwice ==
    ASSUME NEW rows \in RowMap
    PROVE  Trim(Trim(rows)) = Trim(rows)
<1> DEFINE Few(r, v) == Cardinality({x \in PresentIn(r) : x > v}) < PolicyCap
<1>1. Trim(rows) \in RowMap
  BY TrimType
<1>2. ASSUME NEW v \in Versions PROVE Trim(Trim(rows))[v] = Trim(rows)[v]
  <2>1. CASE ~Few(rows, v)
    <3>1. Trim(rows)[v] = NoRow
      BY <2>1 DEF Trim
    <3> QED
      BY <3>1 DEF Trim
  <2>2. CASE Few(rows, v)
    <3>1. {x \in PresentIn(Trim(rows)) : x > v} = {x \in PresentIn(rows) : x > v}
      <4>1. ASSUME NEW x \in PresentIn(rows), x > v PROVE x \in PresentIn(Trim(rows))
        <5>1. x \in Versions /\ v <= x
          BY <4>1 DEF PresentIn, Versions
        <5>2. Few(rows, x)
          BY <2>2, <5>1, TrimKeepsNewer
        <5>3. Trim(rows)[x] = rows[x]
          BY <5>1, <5>2 DEF Trim
        <5> QED
          BY <5>1, <5>3 DEF PresentIn
      <4> QED
        BY <4>1, TrimType
    <3>2. Few(Trim(rows), v)
      BY <2>2, <3>1
    <3> QED
      BY <3>2 DEF Trim
  <2> QED
    BY <2>1, <2>2
<1> QED
  BY <1>2 DEF Trim

(* The newest record of a list survives the cap.                           *)
LEMMA TrimKeepsNewest ==
    ASSUME NEW rows \in RowMap, NEW v \in Versions,
           \A w \in PresentIn(rows) : w <= v
    PROVE  Trim(rows)[v] = rows[v]
<1>1. {w \in PresentIn(rows) : w > v} = {}
  BY DEF PresentIn, Versions
<1>2. Cardinality({w \in PresentIn(rows) : w > v}) = 0
  BY <1>1, FS_EmptySet
<1> QED
  BY <1>2, RecordAssumption DEF Trim

(* A record with a new status and one more history entry is a record.      *)
LEMMA MovedRowType ==
    ASSUME NEW row \in Row, NEW s \in Statuses
    PROVE  [row EXCEPT !.status = s, !.moves = @ + 1] \in Row
<1> DEFINE moved == [row EXCEPT !.status = s]
<1>1. moved \in Row /\ moved.moves = row.moves
  BY DEF Row
<1> HIDE DEF moved
<1>2. [moved EXCEPT !.moves = @ + 1] \in Row
  BY <1>1 DEF Row
<1> QED
  BY <1>1, <1>2 DEF moved

(* Every edit of a list of records is a list of records.                   *)
LEMMA EditTypes ==
    ASSUME NEW rows \in RowMap
    PROVE  /\ \A v \in Versions, s \in Statuses : WithStatus(rows, v, s) \in RowMap
           /\ \A v \in Versions, row \in Row : [rows EXCEPT ![v] = row] \in RowMap
           /\ MarkAll(rows) \in RowMap
           /\ \A d \in Fingerprints : MarkOutdated(rows, d) \in RowMap
<1>1. ASSUME NEW v \in Versions, NEW s \in Statuses
      PROVE  WithStatus(rows, v, s) \in RowMap
  BY MovedRowType DEF WithStatus, RowMap
<1>2. ASSUME NEW v \in Versions, NEW row \in Row
      PROVE  [rows EXCEPT ![v] = row] \in RowMap
  BY DEF RowMap
<1>3. MarkAll(rows) \in RowMap
  BY DEF MarkAll, RowMap, Row
<1>4. ASSUME NEW d \in Fingerprints PROVE MarkOutdated(rows, d) \in RowMap
  BY DEF MarkOutdated, RowMap, Row
<1> QED
  BY <1>1, <1>2, <1>3, <1>4

LEMMA OfferTypes ==
    ASSUME NEW rows \in RowMap
    PROVE  PublishedOffer(rows) \in Offer /\ CandidateOffer(rows) \in Offer
BY DEF PublishedOffer, CandidateOffer, PublishedVersions, CandidateVersions, Offer

(* What is offered is live and not stale, in both offers.                  *)
LEMMA OffersAreLive ==
    ASSUME NEW rows
    PROVE  \A offer \in {PublishedOffer(rows), CandidateOffer(rows)} :
               /\ offer.revision = rows
               /\ \A v \in offer.offered :
                     v \in Versions /\ Live(rows[v]) /\ ~rows[v].stale
BY DEF PublishedOffer, CandidateOffer, PublishedVersions, CandidateVersions,
       Live, LiveStatuses

(* An accepted update does not let a record claim evidence it lacks, and   *)
(* no mark or trim does either.                                            *)
LEMMA EditsKeepBacked ==
    ASSUME NEW rows \in RowMap, Backed(rows)
    PROVE  /\ \A v \in Versions, s \in Statuses :
                  Accepts(rows[v], s) => Backed(WithStatus(rows, v, s))
           /\ Backed(MarkAll(rows))
           /\ Backed(Trim(rows))
<1>1. ASSUME NEW v \in Versions, NEW s \in Statuses, Accepts(rows[v], s)
      PROVE  Backed(WithStatus(rows, v, s))
  <2>1. ASSUME NEW w \in Versions, w # v
        PROVE  WithStatus(rows, v, s)[w] = rows[w]
    BY <2>1 DEF WithStatus, RowMap
  <2>2. /\ WithStatus(rows, v, s)[v].status = s
        /\ WithStatus(rows, v, s)[v].evidence = rows[v].evidence
    BY DEF WithStatus, RowMap, Row
  <2>3. s \in LiveStatuses => HasEvidence(WithStatus(rows, v, s)[v])
    BY <1>1, <2>2 DEF Accepts, HasEvidence
  <2> QED
    BY <2>1, <2>2, <2>3 DEF Backed, Live
<1>2. Backed(MarkAll(rows))
  BY DEF Backed, MarkAll, RowMap, Row, HasEvidence, Live
<1>3. Backed(Trim(rows))
  BY TrimType, NoRowsType DEF Backed, NoRow, Live, LiveStatuses
<1> QED
  BY <1>1, <1>2, <1>3

(* Whatever an older version left, the marks of initialize leave no live   *)
(* record without evidence.                                                *)
Unmoved(rows) ==
    \A v \in Versions : Live(rows[v]) /\ ~rows[v].stale => 
        HasEvidence(rows[v]) \/ rows[v].moves = 0

LEMMA MarkOutdatedBacks ==
    ASSUME NEW rows \in RowMap, Unmoved(rows), NEW d \in Fingerprints
    PROVE  Backed(MarkOutdated(rows, d))
BY DEF Unmoved, Backed, MarkOutdated, Outdated, RowMap, Row, HasEvidence, Live,
       Evidence, Present, LiveStatuses

LEMMA BackedIsUnmoved ==
    ASSUME NEW rows, Backed(rows) PROVE Unmoved(rows)
BY DEF Unmoved, Backed

(***************************************************************************)
(* Typing                                                                  *)
(***************************************************************************)
\* A batch fits into the versions, and an append has a candidate to append.
BatchFits(f) ==
    /\ f.batch # <<>> => f.version + Len(f.batch) - 1 \in Versions
    /\ f.call = "load_append" => f.batch # <<>>
    /\ f.call = "save_append" /\ f.phase = "start" => f.batch # <<>>

TypeInv == TypeOK /\ \A p \in Procs : BatchFits(frame[p])

(* The frame of a coroutine that runs nothing.                             *)
LEMMA IdleFrameType == IdleFrame \in Frame /\ BatchFits(IdleFrame)
<1>1. 1 \in Versions
  BY RecordAssumption DEF Versions
<1>2. <<>> \in Seq(Evidence)
  OBVIOUS
<1> QED
  BY <1>1, <1>2, NoRowsType, StoreAssumption
     DEF IdleFrame, Frame, Calls, Loads, Saves, Phases, Statuses, BatchFits

(* The successor of every call that ends is a call.                        *)
LEMMA NextCallType ==
    ASSUME NEW f \in Frame,
           f.call \in (Loads \cup Saves \cup {"clear_samples", "clear_published",
                                              "clear_candidate"})
    PROVE  /\ NextCall(f) \in Calls
           /\ NextCall(f) # "save_append" \/ f.call = "load_append"
           /\ NextCall(f) = "load_append" => f.batch # <<>>
BY DEF NextCall, After, Loads, Saves, Calls, Frame

(* A call that returns leaves well-typed frames.                           *)
LEMMA ReturnType ==
    ASSUME TypeInv, NEW p \in Procs, NEW f \in Frame,
           f.batch # <<>> => f.version + Len(f.batch) - 1 \in Versions,
           f.call \in (Loads \cup Saves \cup {"clear_samples", "clear_published",
                                              "clear_candidate"}),
           f.call = "load_append" => f.batch # <<>>,
           Return(p, f)
    PROVE  /\ frame' \in [Procs -> Frame]
           /\ \A q \in Procs : BatchFits(frame[q]')
           /\ lock' \in Handlers \cup {None}
           /\ plugin' \in {"down", "booting", "up"}
<1>1. CASE NextCall(f) = "idle"
  BY <1>1, IdleFrameType DEF Return, Leave, TypeInv, TypeOK
<1>2. CASE NextCall(f) # "idle"
  <2> DEFINE g == [f EXCEPT !.call = NextCall(f), !.phase = "start"]
  <2>1. g \in Frame
    BY NextCallType DEF Frame, Phases
  <2>2. g.batch = f.batch /\ g.version = f.version /\ g.call = NextCall(f)
    BY DEF Frame
  <2>3. BatchFits(g)
    BY <2>2, NextCallType DEF BatchFits
  <2>4. frame' = [frame EXCEPT ![p] = g] /\ UNCHANGED <<lock, plugin>>
    BY <1>2 DEF Return
  <2> HIDE DEF g
  <2> QED
    BY <2>1, <2>3, <2>4 DEF TypeInv, TypeOK
<1> QED
  BY <1>1, <1>2

(* What a step that only rewrites one frame has to show.                   *)
LEMMA FrameStep ==
    ASSUME TypeInv, NEW p \in Procs, NEW f \in Frame, BatchFits(f),
           frame' = [frame EXCEPT ![p] = f]
    PROVE  frame' \in [Procs -> Frame] /\ \A q \in Procs : BatchFits(frame[q]')
BY DEF TypeInv, TypeOK

(* The lists the operations save are lists, and the list saved is capped.  *)
LEMMA EditedType ==
    ASSUME NEW f \in Frame, f.call \in Saves,
           f.call = "save_append" => f.batch # <<>>
    PROVE  Edited(f) \in RowMap
<1>1. CASE f.call = "save_append"
  <2>1. f.batch \in Seq(Evidence) /\ f.batch # <<>>
    BY <1>1 DEF Frame
  <2>2. Head(f.batch) \in Evidence
    BY <2>1
  <2>3. CandidateRow(Head(f.batch), f.seen) \in Row
    BY <2>2 DEF CandidateRow, Row, Frame, Statuses
  <2> QED
    BY <1>1, <2>3, EditTypes DEF Edited, Frame
<1>2. CASE f.call # "save_append"
  BY <1>2, EditTypes, NoRowsType DEF Edited, Frame, Saves
<1> QED
  BY <1>1, <1>2

(* Appending takes one candidate off the batch and moves to its version.   *)
LEMMA AppendedType ==
    ASSUME NEW f \in Frame, BatchFits(f), f.call \in Saves, f.phase = "start"
    PROVE  /\ Appended(f) \in Frame
           /\ Appended(f).batch # <<>> =>
                Appended(f).version + Len(Appended(f).batch) - 1 \in Versions
           /\ Appended(f).call = f.call
<1>1. CASE f.call # "save_append"
  BY <1>1 DEF Appended, BatchFits
<1>2. CASE f.call = "save_append"
  <2> DEFINE v == IF Len(f.batch) > 1 THEN f.version + 1 ELSE f.version
  <2>1. f.batch \in Seq(Evidence) /\ f.batch # <<>> /\ f.version \in Versions
    BY <1>2 DEF BatchFits, Frame
  <2>2. /\ Tail(f.batch) \in Seq(Evidence)
        /\ Len(Tail(f.batch)) = Len(f.batch) - 1
        /\ Len(f.batch) \in Nat \ {0}
    BY <2>1
  <2>3. f.version + Len(f.batch) - 1 \in Versions
    BY <2>1 DEF BatchFits
  <2>4. v \in Versions
    BY <2>1, <2>2, <2>3, RecordAssumption DEF Versions
  <2>5. Tail(f.batch) # <<>> => v + Len(Tail(f.batch)) - 1 \in Versions
    BY <2>1, <2>2, <2>3, RecordAssumption DEF Versions
  <2>6. Appended(f) = [f EXCEPT !.batch = Tail(f.batch), !.version = v]
    BY <1>2 DEF Appended
  <2> HIDE DEF v
  <2> QED
    BY <2>2, <2>4, <2>5, <2>6 DEF Frame
<1> QED
  BY <1>1, <1>2

(* The recovery of a call that keeps its frame.                            *)
LEMMA RecoveryTypes ==
    ASSUME TypeInv, NEW p \in Procs, Recover(p)
    PROVE  TypeInv'
<1> DEFINE f == frame[p]
<1>0. f \in Frame /\ BatchFits(f)
  BY DEF TypeInv, TypeOK
<1>1. ASSUME NEW ph \in Phases \ {"start"}, Goto(p, ph)
      PROVE  /\ frame' \in [Procs -> Frame] /\ \A q \in Procs : BatchFits(frame[q]')
             /\ UNCHANGED <<lock, plugin>>
  <2>1. [f EXCEPT !.phase = ph] \in Frame
    BY <1>0 DEF Frame
  <2>2. BatchFits([f EXCEPT !.phase = ph])
    BY <1>0, <1>1 DEF BatchFits, Frame
  <2>3. frame' = [frame EXCEPT ![p] = [f EXCEPT !.phase = ph]]
    BY <1>1 DEF Goto, TypeInv, TypeOK
  <2> QED
    BY <1>1, <2>1, <2>2, <2>3, FrameStep DEF Goto
<1>2. ASSUME Recovered(p), f.call \in Loads \cup Saves
      PROVE  /\ frame' \in [Procs -> Frame] /\ \A q \in Procs : BatchFits(frame[q]')
             /\ lock' \in Handlers \cup {None}
             /\ plugin' \in {"down", "booting", "up"}
  BY <1>0, <1>1, <1>2, ReturnType DEF Recovered, BatchFits, Phases, TypeInv, TypeOK
<1>3. CASE GetIntent(p)
  <2>1. [f EXCEPT !.snap = pending, !.phase = "pub"] \in Frame
    BY <1>0, <1>3 DEF GetIntent, Frame, Phases, TypeInv, TypeOK
  <2>2. BatchFits([f EXCEPT !.snap = pending, !.phase = "pub"])
    BY <1>0 DEF BatchFits, Frame
  <2>3. frame' = [frame EXCEPT ![p] = [f EXCEPT !.snap = pending, !.phase = "pub"]]
    BY <1>3 DEF GetIntent, TypeInv, TypeOK
  <2> QED
    BY <1>3, <2>1, <2>2, <2>3, FrameStep DEF GetIntent, keys, TypeInv, TypeOK
<1>4. CASE GetNoIntent(p)
  BY <1>2, <1>4 DEF GetNoIntent, Recovering, At, keys, TypeInv, TypeOK
<1>5. CASE PutPublished(p)
  <2>1. PublishedOffer(f.snap) \in Offer
    BY <1>0, OfferTypes DEF Frame
  <2> QED
    BY <1>1, <1>5, <2>1 DEF PutPublished, Phases, TypeInv, TypeOK
<1>6. CASE PutCandidate(p)
  <2>1. CandidateOffer(f.snap) \in Offer
    BY <1>0, OfferTypes DEF Frame
  <2> QED
    BY <1>1, <1>6, <2>1 DEF PutCandidate, Phases, TypeInv, TypeOK
<1>7. CASE PutPolicy(p)
  BY <1>0, <1>1, <1>7 DEF PutPolicy, Phases, Frame, TypeInv, TypeOK
<1>8. CASE DeleteIntent(p)
  BY <1>2, <1>8 DEF DeleteIntent, At, TypeInv, TypeOK
<1> QED
  BY <1>3, <1>4, <1>5, <1>6, <1>7, <1>8 DEF Recover

(* The remaining steps of an operation.                                    *)
LEMMA StepTypes ==
    ASSUME TypeInv, NEW p \in Procs, Step(p)
    PROVE  TypeInv'
<1> DEFINE f == frame[p]
<1>0. f \in Frame /\ BatchFits(f) /\ Trim(policy) \in RowMap
  BY TrimType DEF TypeInv, TypeOK
<1>1. ASSUME Leave(p)
      PROVE  /\ frame' \in [Procs -> Frame] /\ \A q \in Procs : BatchFits(frame[q]')
             /\ lock' \in Handlers \cup {None}
  BY <1>1, IdleFrameType, FrameStep DEF Leave, TypeInv, TypeOK
<1>2. CASE Recover(p)
  BY <1>2, RecoveryTypes
<1>3. CASE ReadPolicies(p)
  <2> DEFINE g == [f EXCEPT !.rows = Trim(policy)]
  <2>1. /\ g \in Frame /\ g.batch = f.batch /\ g.version = f.version
        /\ g.call = f.call /\ g.call \in Loads
    BY <1>0, <1>3 DEF ReadPolicies, At, Frame
  <2>2. Return(p, g)
    BY <1>3 DEF ReadPolicies
  <2> HIDE DEF g
  <2> QED
    BY <1>0, <1>3, <2>1, <2>2, ReturnType DEF ReadPolicies, BatchFits, keys, TypeInv, TypeOK
<1>4. CASE CheckRevision(p)
  <2>1. CASE Return(p, f)
    BY <1>0, <1>4, <2>1, ReturnType DEF CheckRevision, At, BatchFits, Loads, keys, TypeInv, TypeOK
  <2>2. CASE Leave(p) /\ UNCHANGED plugin
    BY <1>1, <1>4, <2>2 DEF CheckRevision, keys, TypeInv, TypeOK
  <2> QED
    BY <1>4, <2>1, <2>2 DEF CheckRevision
<1>5. CASE SendPage(p)
  <2>1. [rows |-> f.rows, revision |-> Trim(policy)] \in Page
    BY <1>0 DEF Page, Frame
  <2> QED
    BY <1>0, <1>5, <2>1, ReturnType DEF SendPage, At, BatchFits, Loads, keys, TypeInv, TypeOK
<1>6. CASE PutIntent(p)
  <2> DEFINE g == [Appended(f) EXCEPT !.phase = "recover"]
  <2>1. f.call \in Saves /\ f.phase = "start"
    BY <1>6 DEF PutIntent, At
  <2>2. Trim(Edited(f)) \in RowMap
    BY <1>0, <2>1, EditedType, TrimType DEF BatchFits
  <2>3. g \in Frame /\ BatchFits(g)
    BY <1>0, <2>1, AppendedType DEF BatchFits, Frame, Phases, Saves
  <2>4. frame' = [frame EXCEPT ![p] = g]
    BY <1>6 DEF PutIntent
  <2> HIDE DEF g
  <2> QED
    BY <1>6, <2>2, <2>3, <2>4, FrameStep DEF PutIntent, TypeInv, TypeOK
<1>7. CASE RefuseUpdate(p)
  BY <1>1, <1>7 DEF RefuseUpdate, keys, TypeInv, TypeOK
<1>8. CASE Analyze(p)
  <2>1. CASE frame' = [frame EXCEPT ![p].call = "load_offers"]
    <3>1. [f EXCEPT !.call = "load_offers"] \in Frame
      BY <1>0 DEF Frame, Calls, Loads
    <3>2. BatchFits([f EXCEPT !.call = "load_offers"])
      BY <1>0 DEF Frame, BatchFits
    <3>3. frame' = [frame EXCEPT ![p] = [f EXCEPT !.call = "load_offers"]]
      BY <2>1 DEF TypeInv, TypeOK
    <3> QED
      BY <1>8, <3>1, <3>2, <3>3, FrameStep DEF Analyze, keys, TypeInv, TypeOK
  <2>2. ASSUME NEW n \in 1 .. MaxBatch, NEW first \in Versions, NEW ev \in [1 .. n -> Evidence],
               first + n - 1 <= MaxVersion,
               frame' = [frame EXCEPT ![p].call = "load_append",
                                      ![p].version = first, ![p].batch = ev]
        PROVE  TypeInv'
    <3> DEFINE g == [f EXCEPT !.call = "load_append", !.version = first, !.batch = ev]
    <3>1. n \in Nat \ {0}
      BY StoreAssumption
    <3>2. ev \in Seq(Evidence) /\ Len(ev) = n /\ ev # <<>>
      BY <3>1
    <3>3. g \in Frame
      BY <1>0, <3>2 DEF Frame, Calls, Loads
    <3>4. g.batch = ev /\ g.version = first /\ g.call = "load_append" /\ g.phase = f.phase
      BY <1>0 DEF Frame
    <3>5. first + n - 1 \in Versions
      BY <2>2, <3>1, RecordAssumption DEF Versions
    <3>6. BatchFits(g)
      BY <3>2, <3>4, <3>5 DEF BatchFits
    <3>7. frame' = [frame EXCEPT ![p] = g]
      BY <2>2 DEF TypeInv, TypeOK
    <3> HIDE DEF g
    <3> QED
      BY <1>8, <3>3, <3>6, <3>7, FrameStep DEF Analyze, keys, TypeInv, TypeOK
  <2> QED
    BY <1>8, <2>1, <2>2 DEF Analyze
<1>9. CASE Import(p)
  <2>1. [f EXCEPT !.call = "load_stale"] \in Frame
    BY <1>0 DEF Frame, Calls, Loads
  <2>2. BatchFits([f EXCEPT !.call = "load_stale"])
    BY <1>0 DEF Frame, BatchFits
  <2>3. CASE frame' = [frame EXCEPT ![p].call = "load_stale"] /\ UNCHANGED lock
    <3>1. frame' = [frame EXCEPT ![p] = [f EXCEPT !.call = "load_stale"]]
      BY <2>3 DEF TypeInv, TypeOK
    <3> QED
      BY <1>9, <2>1, <2>2, <2>3, <3>1, FrameStep DEF Import, keys, TypeInv, TypeOK
  <2>4. CASE Leave(p)
    BY <1>1, <1>9, <2>4 DEF Import, keys, TypeInv, TypeOK
  <2> QED
    BY <1>9, <2>3, <2>4 DEF Import
<1>10. CASE ClearSamples(p)
  BY <1>0, <1>10, ReturnType, StoreAssumption
     DEF ClearSamples, At, BatchFits, keys, TypeInv, TypeOK
<1>11. CASE ClearPublished(p)
  BY <1>0, <1>11, ReturnType DEF ClearPublished, At, BatchFits, TypeInv, TypeOK
<1>12. CASE ClearCandidate(p)
  BY <1>0, <1>12, ReturnType DEF ClearCandidate, At, BatchFits, TypeInv, TypeOK
<1> QED
  BY <1>2, <1>3, <1>4, <1>5, <1>6, <1>7, <1>8, <1>9, <1>10, <1>11, <1>12 DEF Step

(* Joining the queue, leaving it and being admitted.                       *)
Counters == [ops : 0 .. MaxOps, crashes : 0 .. MaxCrashes, aborts : 0 .. MaxAborts]

QueueOK == queue \in Seq(Handlers) /\ Len(queue) <= MaxWaiters

LEMMA OneOpLess ==
    ASSUME TypeInv, budget.ops > 0
    PROVE  /\ [budget EXCEPT !.ops = @ - 1] \in Counters
           /\ [budget EXCEPT !.ops = @ - 1].aborts = budget.aborts
BY StoreAssumption DEF TypeInv, TypeOK, Counters

LEMMA AdmittedTypes ==
    ASSUME TypeInv, NEW p \in Procs, Admitted(p)
    PROVE  QueueOK' /\ budget' \in Counters /\ budget'.aborts = budget.aborts
<1>1. queue \in Seq(Handlers) /\ Len(queue) <= MaxWaiters /\ MaxWaiters \in Nat
        /\ budget \in Counters
  BY StoreAssumption DEF TypeInv, TypeOK, Counters
<1>2. CASE UNCHANGED queue /\ budget.ops > 0 /\ budget' = [budget EXCEPT !.ops = @ - 1]
  BY <1>1, <1>2, OneOpLess DEF QueueOK
<1>3. CASE queue # <<>> /\ queue' = Tail(queue) /\ UNCHANGED budget
  <2>1. Tail(queue) \in Seq(Handlers) /\ Len(Tail(queue)) = Len(queue) - 1
    BY <1>1, <1>3
  <2>2. Len(queue) \in Nat
    BY <1>1
  <2>3. QueueOK'
    BY <1>1, <1>3, <2>1, <2>2 DEF QueueOK
  <2> QED
    BY <1>1, <1>3, <2>3
<1> QED
  BY <1>2, <1>3 DEF Admitted

LEMMA QueueTypes ==
    ASSUME TypeInv, NEW p \in Procs, Wait(p) \/ GiveUp(p)
    PROVE  QueueOK' /\ budget' \in Counters /\ budget'.aborts = budget.aborts
<1>1. queue \in Seq(Handlers) /\ Len(queue) <= MaxWaiters /\ MaxWaiters \in Nat
        /\ Len(queue) \in Nat /\ budget \in Counters
  BY StoreAssumption DEF TypeInv, TypeOK, Counters
<1>2. CASE Wait(p)
  <2>1. p \in Handlers /\ Len(queue) < MaxWaiters /\ queue' = Append(queue, p)
    BY <1>2 DEF Wait
  <2>2. Append(queue, p) \in Seq(Handlers) /\ Len(Append(queue, p)) = Len(queue) + 1
    BY <1>1, <2>1
  <2>3. QueueOK'
    BY <1>1, <2>1, <2>2 DEF QueueOK
  <2> QED
    BY <1>2, <2>3, OneOpLess DEF Wait
<1>3. CASE GiveUp(p)
  <2>1. PICK i \in DOMAIN queue :
          queue' = SubSeq(queue, 1, i - 1) \o SubSeq(queue, i + 1, Len(queue))
    BY <1>3 DEF GiveUp
  <2>2. i \in 1 .. Len(queue)
    BY <1>1
  <2> DEFINE front == SubSeq(queue, 1, i - 1)
             back  == SubSeq(queue, i + 1, Len(queue))
  <2>3. front \in Seq(Handlers) /\ Len(front) = i - 1
    BY <1>1, <2>2
  <2>4. back \in Seq(Handlers) /\ Len(back) = Len(queue) - i
    BY <1>1, <2>2
  <2> HIDE DEF front, back
  <2>5. front \o back \in Seq(Handlers) /\ Len(front \o back) = Len(front) + Len(back)
    BY <2>3, <2>4
  <2>6. Len(queue') <= MaxWaiters /\ queue' \in Seq(Handlers)
    BY <1>1, <2>1, <2>2, <2>3, <2>4, <2>5 DEF front, back
  <2> QED
    BY <1>1, <1>3, <2>6 DEF QueueOK, GiveUp
<1> QED
  BY <1>2, <1>3

(* Beginning an operation.                                                 *)
LEMMA BeginTypes ==
    ASSUME TypeInv, NEW p \in Procs, Begin(p)
    PROVE  TypeInv'
<1>0. budget.ops > 0 => [budget EXCEPT !.ops = @ - 1] \in Counters
  BY OneOpLess
<1>1. ASSUME NEW f \in Frame, BatchFits(f), BeginLocked(p, f) PROVE TypeInv'
  BY <1>1, AdmittedTypes, FrameStep
     DEF BeginLocked, QueueOK, Counters, keys, TypeInv, TypeOK
<1>2. ASSUME NEW c \in {"load_versions", "import", "clear_samples", "load_page", "load_overview"}
      PROVE  /\ [IdleFrame EXCEPT !.call = c] \in Frame
             /\ BatchFits([IdleFrame EXCEPT !.call = c])
  BY IdleFrameType DEF IdleFrame, Frame, Calls, Loads, BatchFits
<1>3. CASE BeginUpdate(p)
  <2> SUFFICES ASSUME NEW v \in Versions, NEW s \in Statuses,
                      NEW e \in {None} \cup {page},
                      BeginLocked(p, [IdleFrame EXCEPT
                          !.call = IF e = None THEN "load_update" ELSE "check_revision",
                          !.version = v, !.status = s, !.expected = e])
               PROVE  TypeInv'
    BY <1>3 DEF BeginUpdate
  <2> DEFINE g == [IdleFrame EXCEPT
                      !.call = IF e = None THEN "load_update" ELSE "check_revision",
                      !.version = v, !.status = s, !.expected = e]
  <2>1. e \in Page \cup {None}
    BY DEF TypeInv, TypeOK
  <2>2. g \in Frame /\ BatchFits(g)
    BY <2>1, IdleFrameType DEF IdleFrame, Frame, Calls, Loads, BatchFits
  <2> HIDE DEF g
  <2> QED
    BY <1>1, <2>2 DEF g
<1>4. CASE BeginAnalysis(p)
  <2> DEFINE g == [IdleFrame EXCEPT !.call = "load_versions", !.seen = data]
  <2>1. g \in Frame /\ BatchFits(g)
    BY IdleFrameType DEF IdleFrame, Frame, Calls, Loads, BatchFits, TypeInv, TypeOK
  <2> HIDE DEF g
  <2> QED
    BY <1>1, <1>4, <2>1 DEF BeginAnalysis, g
<1>5. CASE BeginIngest(p)
  BY <1>1, <1>2, <1>5 DEF BeginIngest
<1>6. CASE BeginReset(p)
  BY <1>1, <1>2, <1>6 DEF BeginReset
<1>7. CASE BeginView(p)
  BY <1>1, <1>2, <1>7 DEF BeginView
<1>8. CASE BeginOverview(p)
  BY <1>0, <1>2, <1>8, FrameStep DEF BeginOverview, Counters, keys, TypeInv, TypeOK
<1> QED
  BY <1>3, <1>4, <1>5, <1>6, <1>7, <1>8 DEF Begin, Enter

LEMMA TypeInit == Init => TypeInv
BY IdleFrameType, NoRowsType, StoreAssumption DEF Init, TypeInv, TypeOK

LEMMA TypeStep == TypeInv /\ [Next]_vars => TypeInv'
<1> SUFFICES ASSUME TypeInv, [Next]_vars PROVE TypeInv'
  OBVIOUS
<1>1. CASE StartPlugin
  <2> DEFINE g == [IdleFrame EXCEPT !.call = "load_outdated", !.seen = data]
  <2>1. g \in Frame /\ BatchFits(g)
    BY IdleFrameType DEF IdleFrame, Frame, Calls, Loads, BatchFits, TypeInv, TypeOK
  <2>2. frame' = [frame EXCEPT ![Initializer] = g] /\ Initializer \in Procs
    BY <1>1 DEF StartPlugin, Procs
  <2> HIDE DEF g
  <2> QED
    BY <1>1, <2>1, <2>2, FrameStep DEF StartPlugin, keys, TypeInv, TypeOK
<1>2. ASSUME NEW p \in Procs, Begin(p) PROVE TypeInv'
  BY <1>2, BeginTypes
<1>3. ASSUME NEW p \in Procs, Step(p) PROVE TypeInv'
  BY <1>3, StepTypes
<1>4. ASSUME NEW p \in Procs, Abort(p) PROVE TypeInv'
  <2>1. [budget EXCEPT !.aborts = @ - 1]
          \in [ops : 0 .. MaxOps, crashes : 0 .. MaxCrashes, aborts : 0 .. MaxAborts]
    BY <1>4, StoreAssumption DEF Abort, TypeInv, TypeOK
  <2> QED
    BY <1>4, <2>1, IdleFrameType, FrameStep DEF Abort, Leave, keys, TypeInv, TypeOK
<1>5. CASE Crash
  <2>1. [budget EXCEPT !.crashes = @ - 1]
          \in [ops : 0 .. MaxOps, crashes : 0 .. MaxCrashes, aborts : 0 .. MaxAborts]
    BY <1>5, StoreAssumption DEF Crash, TypeInv, TypeOK
  <2>2. <<>> \in Seq(Handlers) /\ Len(<<>>) <= MaxWaiters
    BY StoreAssumption
  <2>3. UNCHANGED <<keys, data, page>> /\ lock' = None /\ plugin' = "down" /\ queue' = <<>>
    BY <1>5 DEF Crash
  <2>4. frame' \in [Procs -> Frame] /\ \A p \in Procs : BatchFits(frame[p]')
    BY <1>5, IdleFrameType DEF Crash
  <2>5. TypeOK'
    BY <1>5, <2>1, <2>2, <2>3, <2>4 DEF Crash, keys, TypeInv, TypeOK
  <2> QED
    BY <2>4, <2>5 DEF TypeInv
<1>6. ASSUME NEW p \in Procs, Wait(p) \/ GiveUp(p) PROVE TypeInv'
  <2>1. UNCHANGED <<keys, data, lock, plugin, frame, page>>
    BY <1>6 DEF Wait, GiveUp
  <2> QED
    BY <1>6, <2>1, QueueTypes DEF QueueOK, Counters, keys, TypeInv, TypeOK
<1>7. CASE UNCHANGED vars
  BY <1>7 DEF vars, TypeInv, TypeOK
<1> QED
  BY <1>1, <1>2, <1>3, <1>4, <1>5, <1>6, <1>7 DEF Next

(* Every variable keeps its type: whatever coroutines interleave, crash or *)
(* are cancelled, no operation of main.py reads or writes a malformed key. *)
THEOREM TypeCorrect == Spec => []TypeOK
<1>1. TypeInv => TypeOK
  BY DEF TypeInv
<1> QED
  BY <1>1, TypeInit, TypeStep, PTL DEF Spec

(***************************************************************************)
(* Evidence. Once requests wait for initialize, no interleaving of         *)
(* handlers and unlocked viewers, no crash and no cancelled operation lets *)
(* a record without evidence reach the host. OffersAreBacked is not        *)
(* inductive: an offer is computed from a replayed intent, the intent from *)
(* the rows a coroutine loaded, and those from a list that an older        *)
(* version may have written; all four have to be backed.                   *)
(***************************************************************************)
Replaying == {"pub", "cand", "pol", "del"}

BackedKeys ==
    /\ Unmoved(policy)
    /\ plugin = "up" => Backed(policy)
    /\ pending # None => Backed(pending)
    /\ \A offer \in {published, candidate} \ {None} :
          \A v \in offer.offered : HasEvidence(offer.revision[v])

\* initialize may hold rows an older version left, and nobody else runs then.
BackedFrame(p) ==
    LET f == frame[p] IN
    /\ f.call = "idle" => f = IdleFrame
    /\ f.call # "idle" => plugin = IF p = Initializer THEN "booting" ELSE "up"
    /\ f.phase \in Replaying => Backed(f.snap)
    /\ p # Initializer => Backed(f.rows)
    /\ p = Initializer =>
          /\ f.call \in {"idle", "load_outdated", "save_outdated"}
          /\ Unmoved(f.rows)
          /\ f.phase = "recover" => pending # None
          /\ f.call = "save_outdated" /\ f.phase = "del" => Backed(policy)

BackedInv == BackedKeys /\ \A p \in Procs : BackedFrame(p)

LEMMA NoRowsBacked == Backed(NoRows) /\ Unmoved(NoRows)
BY DEF NoRows, NoRow, Backed, Unmoved, Live, LiveStatuses

LEMMA IdleFields ==
    /\ IdleFrame.call = "idle" /\ IdleFrame.phase = "start"
    /\ IdleFrame.rows = NoRows
BY DEF IdleFrame

(* A step of one coroutine leaves the others as they were: either they are *)
(* idle, or both are requests of a plugin that stays up.                   *)
LEMMA OthersStayBacked ==
    ASSUME BackedInv, NEW p \in Procs, NEW q \in Procs, q # p, ~Idle(p),
           p # Initializer => plugin' = plugin,
           frame'[q] = frame[q]
    PROVE  BackedFrame(q)'
<1>1. CASE p = Initializer
  <2>1. frame[q] = IdleFrame
    BY <1>1 DEF BackedInv, BackedFrame, Idle
  <2> QED
    BY <1>1, <2>1, IdleFields, NoRowsBacked DEF BackedFrame, Replaying
<1>2. CASE p # Initializer /\ q = Initializer
  <2>1. frame[q] = IdleFrame
    BY <1>2 DEF BackedInv, BackedFrame, Idle
  <2> QED
    BY <1>2, <2>1, IdleFields, NoRowsBacked DEF BackedFrame, Replaying
<1>3. CASE p # Initializer /\ q # Initializer
  BY <1>3 DEF BackedInv, BackedFrame
<1> QED
  BY <1>1, <1>2, <1>3

(* A call that returns.                                                    *)
LEMMA ReturnBacked ==
    ASSUME TypeInv, BackedInv, NEW p \in Procs, NEW f \in Frame, ~Idle(p),
           f.call = frame[p].call,
           f.call \in (Loads \cup Saves \cup {"clear_samples", "clear_published",
                                              "clear_candidate"}),
           p # Initializer => Backed(f.rows),
           p = Initializer => Unmoved(f.rows),
           Return(p, f)
    PROVE  /\ \A q \in Procs : BackedFrame(q)'
           /\ plugin' = plugin \/ (p = Initializer /\ f.call = "save_outdated")
<1>0. p = Initializer => f.call \in {"load_outdated", "save_outdated"}
  BY DEF BackedInv, BackedFrame, Idle
<1>1. CASE NextCall(f) = "idle"
  <2>1. frame' = [frame EXCEPT ![p] = IdleFrame]
    BY <1>1 DEF Return, Leave
  <2>2. p # Initializer => plugin' = plugin
    BY <1>1 DEF Return
  <2>3. ASSUME NEW q \in Procs PROVE BackedFrame(q)'
    <3>1. CASE q = p
      BY <2>1, <3>1, IdleFields, NoRowsBacked DEF BackedFrame, Replaying, TypeInv, TypeOK
    <3>2. CASE q # p
      BY <2>1, <2>2, <3>2, OthersStayBacked DEF TypeInv, TypeOK
    <3> QED
      BY <3>1, <3>2
  <2>4. p = Initializer => f.call = "save_outdated"
    BY <1>0, <1>1 DEF NextCall, After
  <2> QED
    BY <2>2, <2>3, <2>4
<1>2. CASE NextCall(f) # "idle"
  <2> DEFINE g == [f EXCEPT !.call = NextCall(f), !.phase = "start"]
  <2>1. frame' = [frame EXCEPT ![p] = g] /\ plugin' = plugin
    BY <1>2 DEF Return
  <2>2. g.call = NextCall(f) /\ g.phase = "start" /\ g.rows = f.rows
    BY DEF Frame
  <2>3. p = Initializer => NextCall(f) = "save_outdated"
    BY <1>0, <1>2 DEF NextCall, After
  <2>4. plugin = IF p = Initializer THEN "booting" ELSE "up"
    BY DEF BackedInv, BackedFrame, Idle
  <2> HIDE DEF g
  <2>5. BackedFrame(p)'
    BY <1>2, <2>1, <2>2, <2>3, <2>4 DEF BackedFrame, Replaying, TypeInv, TypeOK
  <2>6. ASSUME NEW q \in Procs, q # p PROVE BackedFrame(q)'
    BY <2>1, <2>6, OthersStayBacked DEF TypeInv, TypeOK
  <2> QED
    BY <2>1, <2>5, <2>6
<1> QED
  BY <1>1, <1>2

(* An operation that ends.                                                 *)
LEMMA LeaveBacked ==
    ASSUME TypeInv, BackedInv, NEW p \in Procs, ~Idle(p), Leave(p), UNCHANGED plugin
    PROVE  \A q \in Procs : BackedFrame(q)'
<1>1. frame' = [frame EXCEPT ![p] = IdleFrame]
  BY DEF Leave
<1>2. ASSUME NEW q \in Procs, q # p PROVE BackedFrame(q)'
  BY <1>1, <1>2, OthersStayBacked DEF TypeInv, TypeOK
<1>3. BackedFrame(p)'
  BY <1>1, IdleFields, NoRowsBacked DEF BackedFrame, Replaying, TypeInv, TypeOK
<1> QED
  BY <1>2, <1>3

(* The recovery replays a backed list into every key.                      *)
LEMMA RecoverBacked ==
    ASSUME TypeInv, BackedInv, NEW p \in Procs, Recover(p)
    PROVE  BackedInv'
<1> DEFINE f == frame[p]
<1>0. /\ f \in Frame /\ ~Idle(p) /\ f.call \in Loads \cup Saves
      /\ p # Initializer => Backed(f.rows)
      /\ p = Initializer => Unmoved(f.rows) /\ f.call \in {"load_outdated", "save_outdated"}
  BY DEF Recover, GetIntent, GetNoIntent, PutPublished, PutCandidate, PutPolicy,
         DeleteIntent, Recovering, At, Idle, Loads, Saves, BackedInv, BackedFrame,
         TypeInv, TypeOK
<1>1. ASSUME NEW g \in Frame, frame' = [frame EXCEPT ![p] = g], UNCHANGED plugin
      PROVE  \A q \in Procs : q # p => BackedFrame(q)'
  BY <1>0, <1>1, OthersStayBacked DEF TypeInv, TypeOK
<1>2. ASSUME NEW ph \in Phases, Goto(p, ph)
      PROVE  /\ frame' = [frame EXCEPT ![p] = [f EXCEPT !.phase = ph]]
             /\ [f EXCEPT !.phase = ph] \in Frame
             /\ [f EXCEPT !.phase = ph].rows = f.rows
             /\ [f EXCEPT !.phase = ph].snap = f.snap
             /\ [f EXCEPT !.phase = ph].call = f.call
             /\ [f EXCEPT !.phase = ph].phase = ph
             /\ UNCHANGED plugin
  BY <1>0, <1>2 DEF Goto, Frame, TypeInv, TypeOK
<1>3. CASE GetIntent(p)
  <2> DEFINE g == [f EXCEPT !.snap = pending, !.phase = "pub"]
  <2>1. /\ g \in Frame /\ g.snap = pending /\ g.phase = "pub"
        /\ g.rows = f.rows /\ g.call = f.call
    BY <1>0, <1>3 DEF GetIntent, Frame, Phases, TypeInv, TypeOK
  <2>2. frame' = [frame EXCEPT ![p] = g] /\ UNCHANGED <<keys, plugin>>
    BY <1>3 DEF GetIntent, TypeInv, TypeOK
  <2> HIDE DEF g
  <2>3. BackedFrame(p)'
    BY <1>0, <1>3, <2>1, <2>2
       DEF GetIntent, BackedFrame, BackedInv, BackedKeys, Idle, keys, Loads, Saves, TypeInv, TypeOK
  <2>4. BackedKeys'
    BY <2>2 DEF BackedInv, BackedKeys, keys
  <2> QED
    BY <1>1, <2>1, <2>2, <2>3, <2>4 DEF BackedInv
<1>4. CASE GetNoIntent(p)
  <2>1. CASE f.call \in Loads
    <3>1. Goto(p, "read") /\ UNCHANGED keys
      BY <1>4, <2>1 DEF GetNoIntent, Recovered
    <3>2. BackedFrame(p)'
      BY <1>0, <1>2, <3>1
         DEF BackedFrame, BackedInv, Idle, Replaying, Phases, keys, Loads, Saves, TypeInv, TypeOK
    <3>3. BackedKeys'
      BY <1>2, <3>1 DEF BackedInv, BackedKeys, keys, Phases
    <3> QED
      BY <1>1, <1>2, <3>1, <3>2, <3>3 DEF BackedInv, Phases
  <2>2. CASE f.call \notin Loads
    <3>1. Return(p, f) /\ UNCHANGED keys /\ f.phase = "recover" /\ pending = None
      BY <1>4, <2>2 DEF GetNoIntent, Recovered, Recovering, At
    <3>2. p # Initializer
      BY <3>1 DEF BackedInv, BackedFrame
    <3>3. (\A q \in Procs : BackedFrame(q)') /\ plugin' = plugin
      BY <1>0, <3>1, <3>2, ReturnBacked
    <3> QED
      BY <3>1, <3>3 DEF BackedInv, BackedKeys, keys
  <2> QED
    BY <2>1, <2>2
<1>5. ASSUME f.phase \in Replaying PROVE Backed(f.snap) /\ Unmoved(f.snap)
  BY <1>5, BackedIsUnmoved DEF BackedInv, BackedFrame
<1>6. CASE PutPublished(p)
  <2>1. Goto(p, "cand") /\ UNCHANGED <<pending, candidate, policy>> /\ Backed(f.snap)
    BY <1>5, <1>6 DEF PutPublished, At, Replaying
  <2>2. BackedFrame(p)'
    BY <1>0, <1>2, <2>1 DEF BackedFrame, BackedInv, Idle, Phases, Loads, Saves, TypeInv, TypeOK
  <2>3. \A v \in published'.offered : HasEvidence(published'.revision[v])
    BY <1>6, <2>1, OffersAreLive DEF PutPublished, Backed
  <2>4. BackedKeys'
    BY <1>2, <2>1, <2>3 DEF BackedInv, BackedKeys, Phases
  <2> QED
    BY <1>1, <1>2, <2>1, <2>2, <2>4 DEF BackedInv, Phases
<1>7. CASE PutCandidate(p)
  <2>1. Goto(p, "pol") /\ UNCHANGED <<pending, published, policy>> /\ Backed(f.snap)
    BY <1>5, <1>7 DEF PutCandidate, At, Replaying
  <2>2. BackedFrame(p)'
    BY <1>0, <1>2, <2>1 DEF BackedFrame, BackedInv, Idle, Phases, Loads, Saves, TypeInv, TypeOK
  <2>3. \A v \in candidate'.offered : HasEvidence(candidate'.revision[v])
    BY <1>7, <2>1, OffersAreLive DEF PutCandidate, Backed
  <2>4. BackedKeys'
    BY <1>2, <2>1, <2>3 DEF BackedInv, BackedKeys, Phases
  <2> QED
    BY <1>1, <1>2, <2>1, <2>2, <2>4 DEF BackedInv, Phases
<1>8. CASE PutPolicy(p)
  <2>1. /\ Goto(p, "del") /\ UNCHANGED <<pending, published, candidate>>
        /\ policy' = f.snap /\ Backed(f.snap) /\ Unmoved(f.snap)
    BY <1>5, <1>8 DEF PutPolicy, At, Replaying
  <2>2. BackedFrame(p)'
    BY <1>0, <1>2, <2>1 DEF BackedFrame, BackedInv, Idle, Phases, Loads, Saves, TypeInv, TypeOK
  <2>3. BackedKeys'
    BY <1>2, <2>1 DEF BackedInv, BackedKeys, Phases
  <2> QED
    BY <1>1, <1>2, <2>1, <2>2, <2>3 DEF BackedInv, Phases
<1>9. CASE DeleteIntent(p)
  <2>1. UNCHANGED <<published, candidate, policy>> /\ pending' = None
    BY <1>9 DEF DeleteIntent
  <2>2. CASE f.call \in Loads
    <3>1. Goto(p, "read")
      BY <1>9, <2>2 DEF DeleteIntent, Recovered
    <3>2. BackedFrame(p)'
      BY <1>0, <1>2, <2>1, <3>1
         DEF BackedFrame, BackedInv, Idle, Replaying, Phases, Loads, Saves, TypeInv, TypeOK
    <3>3. BackedKeys'
      BY <1>2, <2>1, <3>1 DEF BackedInv, BackedKeys, Phases
    <3> QED
      BY <1>1, <1>2, <3>1, <3>2, <3>3 DEF BackedInv, Phases
  <2>3. CASE f.call \notin Loads
    <3>1. Return(p, f) /\ f.phase = "del"
      BY <1>9, <2>3 DEF DeleteIntent, Recovered, At
    <3>2. /\ \A q \in Procs : BackedFrame(q)'
          /\ plugin' = plugin \/ (p = Initializer /\ f.call = "save_outdated")
      BY <1>0, <3>1, ReturnBacked
    <3>3. plugin' = plugin \/ Backed(policy)
      BY <3>1, <3>2 DEF BackedInv, BackedFrame
    <3> QED
      BY <2>1, <3>2, <3>3 DEF BackedInv, BackedKeys
  <2> QED
    BY <2>2, <2>3
<1> QED
  BY <1>3, <1>4, <1>6, <1>7, <1>8, <1>9 DEF Recover

(* What an operation saves is backed if what it loaded is.                 *)
LEMMA EditedBacked ==
    ASSUME NEW f \in Frame, f.call \in Saves,
           f.call = "save_append" => f.batch # <<>>,
           f.call = "save_update" => UpdateAccepted(f),
           Backed(f.rows) \/ (f.call = "save_outdated" /\ Unmoved(f.rows))
    PROVE  Backed(Trim(Edited(f)))
<1>0. f.rows \in RowMap /\ f.version \in Versions /\ f.status \in Statuses
        /\ f.seen \in Fingerprints
  BY DEF Frame
<1>1. Backed(Edited(f))
  <2>1. CASE f.call = "save_update"
    BY <1>0, <2>1, EditsKeepBacked DEF Edited, UpdateAccepted
  <2>2. CASE f.call = "save_append"
    <3> DEFINE row == CandidateRow(Head(f.batch), f.seen)
    <3>1. Live(row) => HasEvidence(row)
      BY DEF CandidateRow, Live, LiveStatuses, HasEvidence
    <3>2. Edited(f) = [f.rows EXCEPT ![f.version] = row]
      BY <2>2 DEF Edited
    <3>3. ASSUME NEW v \in Versions
          PROVE  Edited(f)[v] = IF v = f.version THEN row ELSE f.rows[v]
      BY <1>0, <3>2 DEF RowMap
    <3> HIDE DEF row
    <3> QED
      BY <2>2, <3>1, <3>3 DEF Backed
  <2>3. CASE f.call = "save_stale"
    BY <1>0, <2>3, EditsKeepBacked DEF Edited
  <2>4. CASE f.call = "save_outdated"
    BY <1>0, <2>4, MarkOutdatedBacks, BackedIsUnmoved DEF Edited
  <2>5. CASE f.call = "save_empty"
    BY <2>5, NoRowsBacked DEF Edited
  <2>6. CASE f.call = "save_offers"
    BY <2>6 DEF Edited
  <2> QED
    BY <2>1, <2>2, <2>3, <2>4, <2>5, <2>6 DEF Saves
<1> QED
  BY <1>1, EditedType, EditsKeepBacked

(* The remaining steps of an operation.                                    *)
LEMMA StepBacked ==
    ASSUME TypeInv, BackedInv, NEW p \in Procs, Step(p)
    PROVE  BackedInv'
<1> DEFINE f == frame[p]
<1>0. /\ f \in Frame /\ BatchFits(f) /\ ~Idle(p)
      /\ p # Initializer => Backed(f.rows) /\ plugin = "up"
      /\ p = Initializer => Unmoved(f.rows) /\ f.call \in {"load_outdated", "save_outdated"}
  BY DEF Step, Recover, GetIntent, GetNoIntent, PutPublished, PutCandidate, PutPolicy,
         DeleteIntent, ReadPolicies, CheckRevision, SendPage, PutIntent, RefuseUpdate,
         Analyze, Import, ClearSamples, ClearPublished, ClearCandidate,
         Recovering, At, Idle, Loads, Saves, BackedInv, BackedFrame, TypeInv, TypeOK
<1>1. CASE Recover(p)
  BY <1>1, RecoverBacked
<1>2. CASE ReadPolicies(p)
  <2> DEFINE g == [f EXCEPT !.rows = Trim(policy)]
  <2>1. /\ g \in Frame /\ g.rows = Trim(policy) /\ g.call = f.call
        /\ f.call \in Loads /\ Return(p, g) /\ UNCHANGED keys
    BY <1>0, <1>2, TrimType DEF ReadPolicies, At, Frame, TypeInv, TypeOK
  <2>2. p # Initializer => Backed(Trim(policy))
    BY <1>0, EditsKeepBacked DEF BackedInv, BackedKeys, TypeInv, TypeOK
  <2>3. Unmoved(Trim(policy))
    BY TrimType, NoRowsType DEF BackedInv, BackedKeys, Unmoved, NoRow, Live, LiveStatuses, TypeInv, TypeOK
  <2> HIDE DEF g
  <2>4. (\A q \in Procs : BackedFrame(q)') /\ plugin' = plugin
    BY <1>0, <2>1, <2>2, <2>3, ReturnBacked DEF Loads
  <2> QED
    BY <2>1, <2>4 DEF BackedInv, BackedKeys, keys
<1>3. CASE CheckRevision(p)
  <2>1. f.call = "check_revision" /\ UNCHANGED keys
    BY <1>3 DEF CheckRevision, At
  <2>2. p # Initializer
    BY <1>0, <2>1
  <2>3. (\A q \in Procs : BackedFrame(q)') /\ plugin' = plugin
    BY <1>0, <1>3, <2>1, <2>2, ReturnBacked, LeaveBacked DEF CheckRevision, Loads
  <2> QED
    BY <2>1, <2>3 DEF BackedInv, BackedKeys, keys
<1>4. CASE SendPage(p)
  <2>1. f.call = "load_revision" /\ UNCHANGED keys /\ Return(p, f)
    BY <1>4 DEF SendPage, At
  <2>2. p # Initializer
    BY <1>0, <2>1
  <2>3. (\A q \in Procs : BackedFrame(q)') /\ plugin' = plugin
    BY <1>0, <2>1, <2>2, ReturnBacked DEF Loads
  <2> QED
    BY <2>1, <2>3 DEF BackedInv, BackedKeys, keys
<1>5. CASE PutIntent(p)
  <2> DEFINE g == [Appended(f) EXCEPT !.phase = "recover"]
  <2>1. /\ f.call \in Saves /\ f.phase = "start"
        /\ f.call = "save_update" => UpdateAccepted(f)
        /\ pending' = Trim(Edited(f))
        /\ frame' = [frame EXCEPT ![p] = g]
        /\ UNCHANGED <<published, candidate, policy, plugin>>
    BY <1>5 DEF PutIntent, At
  <2>2. Trim(Edited(f)) \in RowMap
    BY <1>0, <2>1, EditedType, TrimType DEF BatchFits
  <2>3. Backed(Trim(Edited(f)))
    BY <1>0, <2>1, EditedBacked DEF BatchFits, Saves
  <2>4. None \notin RowMap
    BY StoreAssumption
  <2>5. g.call = f.call /\ g.phase = "recover" /\ g.rows = f.rows
    BY <1>0, <2>1, AppendedType DEF Frame, Appended
  <2> HIDE DEF g
  <2>6. BackedFrame(p)'
    BY <1>0, <2>1, <2>2, <2>4, <2>5 DEF BackedFrame, BackedInv, Replaying, Idle, Saves, TypeInv, TypeOK
  <2>7. ASSUME NEW q \in Procs, q # p PROVE BackedFrame(q)'
    BY <1>0, <2>1, <2>7, OthersStayBacked DEF TypeInv, TypeOK
  <2>8. BackedKeys'
    BY <2>1, <2>3 DEF BackedInv, BackedKeys
  <2> QED
    BY <2>6, <2>7, <2>8 DEF BackedInv
<1>6. CASE RefuseUpdate(p)
  <2>1. Leave(p) /\ UNCHANGED <<keys, plugin>>
    BY <1>6 DEF RefuseUpdate
  <2> QED
    BY <1>0, <2>1, LeaveBacked DEF BackedInv, BackedKeys, keys
<1>7. ASSUME NEW g \in Frame, frame' = [frame EXCEPT ![p] = g], UNCHANGED <<keys, plugin>>,
             p # Initializer, g.call # "idle", g.phase = "start", g.rows = f.rows
      PROVE  BackedInv'
  <2>1. BackedFrame(p)'
    BY <1>0, <1>7 DEF BackedFrame, BackedInv, Replaying, TypeInv, TypeOK
  <2>2. ASSUME NEW q \in Procs, q # p PROVE BackedFrame(q)'
    BY <1>0, <1>7, <2>2, OthersStayBacked DEF TypeInv, TypeOK
  <2> QED
    BY <1>7, <2>1, <2>2 DEF BackedInv, BackedKeys, keys
<1>8. CASE Analyze(p)
  <2>1. f.call = "analyze" /\ f.phase = "start" /\ UNCHANGED <<keys, plugin>>
    BY <1>8 DEF Analyze, At
  <2>2. PICK g \in Frame : /\ frame' = [frame EXCEPT ![p] = g] /\ g.call # "idle"
                           /\ g.phase = "start" /\ g.rows = f.rows
    <3>1. CASE frame' = [frame EXCEPT ![p].call = "load_offers"]
      <4>1. [f EXCEPT !.call = "load_offers"] \in Frame
        BY <1>0 DEF Frame, Calls, Loads
      <4> QED
        BY <1>0, <2>1, <3>1, <4>1 DEF Frame, TypeInv, TypeOK
    <3>2. ASSUME NEW n \in 1 .. MaxBatch, NEW first \in Versions, NEW ev \in [1 .. n -> Evidence],
                 frame' = [frame EXCEPT ![p].call = "load_append",
                                        ![p].version = first, ![p].batch = ev]
          PROVE  \E g \in Frame : /\ frame' = [frame EXCEPT ![p] = g] /\ g.call # "idle"
                                  /\ g.phase = "start" /\ g.rows = f.rows
      <4> DEFINE g == [f EXCEPT !.call = "load_append", !.version = first, !.batch = ev]
      <4>1. n \in Nat /\ ev \in Seq(Evidence)
        BY StoreAssumption
      <4>2. g \in Frame /\ g.call = "load_append" /\ g.phase = "start" /\ g.rows = f.rows
        BY <1>0, <2>1, <4>1 DEF Frame, Calls, Loads
      <4>3. frame' = [frame EXCEPT ![p] = g]
        BY <3>2 DEF TypeInv, TypeOK
      <4> HIDE DEF g
      <4> QED
        BY <4>2, <4>3
    <3> QED
      BY <1>8, <3>1, <3>2 DEF Analyze
  <2> QED
    BY <1>0, <1>7, <2>1, <2>2
<1>9. CASE Import(p)
  <2>1. f.call = "import" /\ f.phase = "start" /\ UNCHANGED <<keys, plugin>>
    BY <1>9 DEF Import, At
  <2>2. CASE Leave(p)
    BY <1>0, <2>1, <2>2, LeaveBacked DEF BackedInv, BackedKeys, keys
  <2>3. CASE frame' = [frame EXCEPT ![p].call = "load_stale"]
    <3>1. [f EXCEPT !.call = "load_stale"] \in Frame
      BY <1>0 DEF Frame, Calls, Loads
    <3>2. frame' = [frame EXCEPT ![p] = [f EXCEPT !.call = "load_stale"]]
      BY <2>3 DEF TypeInv, TypeOK
    <3> QED
      BY <1>0, <1>7, <2>1, <3>1, <3>2 DEF Frame
  <2> QED
    BY <1>9, <2>2, <2>3 DEF Import
<1>10. CASE ClearSamples(p)
  <2>1. f.call = "clear_samples" /\ UNCHANGED keys /\ Return(p, f)
    BY <1>10 DEF ClearSamples, At
  <2>2. (\A q \in Procs : BackedFrame(q)') /\ plugin' = plugin
    BY <1>0, <2>1, ReturnBacked
  <2> QED
    BY <2>1, <2>2 DEF BackedInv, BackedKeys, keys
<1>11. CASE ClearPublished(p)
  <2>1. /\ f.call = "clear_published" /\ UNCHANGED <<pending, candidate, policy>>
        /\ published' = None /\ Return(p, f)
    BY <1>11 DEF ClearPublished, At
  <2>2. (\A q \in Procs : BackedFrame(q)') /\ plugin' = plugin
    BY <1>0, <2>1, ReturnBacked
  <2> QED
    BY <2>1, <2>2 DEF BackedInv, BackedKeys
<1>12. CASE ClearCandidate(p)
  <2>1. /\ f.call = "clear_candidate" /\ UNCHANGED <<pending, published, policy>>
        /\ candidate' = None /\ Return(p, f)
    BY <1>12 DEF ClearCandidate, At
  <2>2. (\A q \in Procs : BackedFrame(q)') /\ plugin' = plugin
    BY <1>0, <2>1, ReturnBacked
  <2> QED
    BY <2>1, <2>2 DEF BackedInv, BackedKeys
<1> QED
  BY <1>1, <1>2, <1>3, <1>4, <1>5, <1>6, <1>8, <1>9, <1>10, <1>11, <1>12 DEF Step

(* A request that begins while the plugin is up.                           *)
LEMMA BeginBacked ==
    ASSUME BootGate = TRUE, TypeInv, BackedInv, NEW p \in Procs, Begin(p)
    PROVE  BackedInv'
<1>1. ASSUME NEW f, frame' = [frame EXCEPT ![p] = f], f.call # "idle", f.phase = "start",
             f.rows = NoRows, p # Initializer, Serving, UNCHANGED <<keys, plugin>>
      PROVE  BackedInv'
  <2>1. plugin = "up"
    BY <1>1 DEF Serving
  <2>2. BackedFrame(p)'
    BY <1>1, <2>1, NoRowsBacked DEF BackedFrame, Replaying, TypeInv, TypeOK
  <2>3. ASSUME NEW q \in Procs, q # p PROVE BackedFrame(q)'
    BY <1>1, <2>3 DEF BackedFrame, BackedInv, keys, TypeInv, TypeOK
  <2> QED
    BY <1>1, <2>2, <2>3 DEF BackedInv, BackedKeys, keys
<1>2. p \in Handlers \cup Viewers => p # Initializer
  BY StoreAssumption
<1>3. ASSUME NEW f, BeginLocked(p, f), f.call # "idle", f.phase = "start", f.rows = NoRows
      PROVE  BackedInv'
  BY <1>1, <1>2, <1>3 DEF BeginLocked
<1>4. ASSUME NEW c \in Calls
      PROVE  LET f == [IdleFrame EXCEPT !.call = c]
             IN  f.call = c /\ f.phase = "start" /\ f.rows = NoRows
  BY DEF IdleFrame
<1>5. CASE BeginUpdate(p)
  <2>1. PICK v \in Versions, s \in Statuses, e \in {None} \cup {page} :
          BeginLocked(p, [IdleFrame EXCEPT
              !.call = IF e = None THEN "load_update" ELSE "check_revision",
              !.version = v, !.status = s, !.expected = e])
    BY <1>5 DEF BeginUpdate
  <2> DEFINE g == [IdleFrame EXCEPT
                      !.call = IF e = None THEN "load_update" ELSE "check_revision",
                      !.version = v, !.status = s, !.expected = e]
  <2>2. g.call # "idle" /\ g.phase = "start" /\ g.rows = NoRows
    BY DEF IdleFrame
  <2> HIDE DEF g
  <2> QED
    BY <1>3, <2>1, <2>2 DEF g
<1>6. CASE BeginAnalysis(p)
  <2> DEFINE g == [IdleFrame EXCEPT !.call = "load_versions", !.seen = data]
  <2>1. g.call # "idle" /\ g.phase = "start" /\ g.rows = NoRows
    BY DEF IdleFrame
  <2> HIDE DEF g
  <2> QED
    BY <1>3, <1>6, <2>1 DEF BeginAnalysis, g
<1>7. CASE BeginIngest(p)
  BY <1>3, <1>4, <1>7 DEF BeginIngest, Calls
<1>8. CASE BeginReset(p)
  BY <1>3, <1>4, <1>8 DEF BeginReset, Calls
<1>9. CASE BeginView(p)
  BY <1>3, <1>4, <1>9 DEF BeginView, Calls, Loads
<1>10. CASE BeginOverview(p)
  BY <1>1, <1>2, <1>4, <1>10 DEF BeginOverview, Calls, Loads
<1> QED
  BY <1>5, <1>6, <1>7, <1>8, <1>9, <1>10 DEF Begin, Enter

LEMMA BackedInit == Init => BackedInv
BY NoRowsBacked, IdleFields, StoreAssumption
   DEF Init, BackedInv, BackedKeys, BackedFrame, Replaying, Unmoved

LEMMA BackedStep ==
    ASSUME BootGate = TRUE
    PROVE  TypeInv /\ BackedInv /\ [Next]_vars => BackedInv'
<1> SUFFICES ASSUME TypeInv, BackedInv, [Next]_vars PROVE BackedInv'
  OBVIOUS
<1>1. CASE StartPlugin
  <2> DEFINE g == [IdleFrame EXCEPT !.call = "load_outdated", !.seen = data]
  <2>1. g.call = "load_outdated" /\ g.phase = "start" /\ g.rows = NoRows
    BY DEF IdleFrame
  <2>2. /\ frame' = [frame EXCEPT ![Initializer] = g] /\ Initializer \in Procs
        /\ plugin = "down" /\ plugin' = "booting" /\ UNCHANGED keys
    BY <1>1 DEF StartPlugin, Procs
  <2> HIDE DEF g
  <2>3. BackedFrame(Initializer)'
    BY <2>1, <2>2, NoRowsBacked DEF BackedFrame, Replaying, TypeInv, TypeOK
  <2>4. ASSUME NEW q \in Procs, q # Initializer PROVE BackedFrame(q)'
    <3>1. frame[q] = IdleFrame /\ frame'[q] = IdleFrame
      BY <2>2, <2>4 DEF BackedInv, BackedFrame, TypeInv, TypeOK
    <3> QED
      BY <2>4, <3>1, IdleFields, NoRowsBacked DEF BackedFrame, Replaying
  <2> QED
    BY <2>2, <2>3, <2>4 DEF BackedInv, BackedKeys, keys
<1>2. ASSUME NEW p \in Procs, Begin(p) PROVE BackedInv'
  BY <1>2, BeginBacked
<1>3. ASSUME NEW p \in Procs, Step(p) PROVE BackedInv'
  BY <1>3, StepBacked
<1>4. ASSUME NEW p \in Procs, Abort(p) PROVE BackedInv'
  <2>1. Leave(p) /\ ~Idle(p) /\ UNCHANGED <<keys, plugin>>
    BY <1>4 DEF Abort
  <2> QED
    BY <2>1, LeaveBacked DEF BackedInv, BackedKeys, keys
<1>5. CASE Crash
  <2>1. plugin' = "down" /\ frame' = [p \in Procs |-> IdleFrame] /\ UNCHANGED keys
    BY <1>5 DEF Crash
  <2> QED
    BY <2>1, IdleFields, NoRowsBacked DEF BackedInv, BackedKeys, BackedFrame, Replaying, keys
<1>6. CASE UNCHANGED vars \/ \E p \in Procs : Wait(p) \/ GiveUp(p)
  <2>1. UNCHANGED <<keys, plugin, frame>>
    BY <1>6 DEF vars, keys, Wait, GiveUp
  <2> QED
    BY <2>1 DEF keys, BackedInv, BackedKeys, BackedFrame
<1> QED
  BY <1>1, <1>2, <1>3, <1>4, <1>5, <1>6 DEF Next

(* With requests held back until initialize has returned, nothing without  *)
(* the evidence its status claims is ever offered to the host, however the *)
(* unlocked overview_payload races the locked operations.                  *)
THEOREM OffersBacked ==
    ASSUME BootGate = TRUE
    PROVE  Spec => []OffersAreBacked
<1>1. BackedInv => OffersAreBacked
  BY DEF BackedInv, BackedKeys, OffersAreBacked
<1>2. TypeInv /\ BackedInv /\ [Next]_vars => BackedInv'
  BY BackedStep
<1> QED
  BY <1>1, <1>2, TypeInit, TypeStep, BackedInit, PTL DEF Spec

=============================================================================
