------------------------- MODULE SampleStoreProofs -------------------------
(***************************************************************************)
(* Theorems about SampleStore, for any number of sessions, messages and    *)
(* loads, any caps, and without a bound on operations, crashes and aborts. *)
(***************************************************************************)
EXTENDS SampleStore, SumTheorems, FiniteSetTheorems, SequenceTheorems, TLAPS

(***************************************************************************)
(* Rows and entries, each message and each session at most once            *)
(***************************************************************************)
RowSets == {rows \in SUBSET Row : /\ IsFiniteSet(rows)
                                  /\ \A a, b \in rows : a.id = b.id => a = b}

Shards == {seq \in Seq(Row) : \A i, j \in 1 .. Len(seq) : seq[i].id = seq[j].id => i = j}

Indexes == {seq \in Seq(Entry) : \A i, j \in 1 .. Len(seq) : seq[i].session = seq[j].session => i = j}

LEMMA RowFields == \A row \in Row : row.id \in MsgIds /\ row.id \in Int /\ row.rev \in Revisions
BY SampleAssumption DEF Row

LEMMA NoRows == {} \in RowSets /\ <<>> \in Shards /\ <<>> \in Indexes
BY FS_EmptySet, EmptySeq DEF RowSets, Shards, Indexes

\* The rank of a row is the number of rows before it: each row has its own,
\* and every rank below the number of rows is taken.
LEMMA Ranks ==
    ASSUME NEW rows \in RowSets
    PROVE  LET rank(row) == Cardinality({other \in rows : other.id < row.id})
           IN  /\ Cardinality(rows) \in Nat
               /\ \A row \in rows : rank(row) \in 0 .. Cardinality(rows) - 1
               /\ \A a, b \in rows : rank(a) = rank(b) => a = b
               /\ \A n \in 0 .. Cardinality(rows) - 1 : \E row \in rows : rank(row) = n
<1> DEFINE before(row) == {other \in rows : other.id < row.id}
<1> DEFINE rank(row) == Cardinality(before(row))
<1> DEFINE size == Cardinality(rows)
<1>0. IsFiniteSet(rows) /\ rows \subseteq Row /\ \A a, b \in rows : a.id = b.id => a = b
  BY DEF RowSets
<1>1. size \in Nat
  BY <1>0, FS_CardinalityType
<1>2. ASSUME NEW row \in rows, NEW wide \in SUBSET rows, before(row) \subseteq wide, row \in wide
      PROVE  rank(row) \in Nat /\ Cardinality(wide) \in Nat /\ rank(row) < Cardinality(wide)
  <2>1. IsFiniteSet(wide) /\ Cardinality(wide) \in Nat
    BY <1>0, FS_Subset, FS_CardinalityType
  <2>2. before(row) \in SUBSET wide
    BY <1>2
  <2>3. IsFiniteSet(before(row)) /\ rank(row) <= Cardinality(wide) /\ (Cardinality(wide) = rank(row) => wide = before(row))
    BY <2>1, <2>2, FS_Subset
  <2>4. rank(row) \in Nat
    BY <2>3, FS_CardinalityType
  <2>5. row \notin before(row)
    BY <1>0, RowFields
  <2>6. wide # before(row)
    BY <1>2, <2>5
  <2> QED
    BY <2>1, <2>3, <2>4, <2>6
<1>3. \A row \in rows : rank(row) \in 0 .. size - 1
  <2> SUFFICES ASSUME NEW row \in rows PROVE rank(row) \in 0 .. size - 1
    OBVIOUS
  <2>1. rows \in SUBSET rows /\ before(row) \subseteq rows
    OBVIOUS
  <2>2. rank(row) \in Nat /\ rank(row) < size
    BY <1>2, <2>1
  <2> QED
    BY <1>1, <2>2
<1>4. ASSUME NEW a \in rows, NEW b \in rows, a.id < b.id
      PROVE  rank(a) < rank(b)
  <2>1. before(a) \subseteq before(b) /\ a \in before(b) /\ before(b) \in SUBSET rows
    BY <1>0, <1>4, RowFields
  <2> QED
    BY <1>2, <2>1
<1>5. \A a, b \in rows : rank(a) = rank(b) => a = b
  <2> SUFFICES ASSUME NEW a \in rows, NEW b \in rows, rank(a) = rank(b) PROVE a = b
    OBVIOUS
  <2>1. a.id \in Int /\ b.id \in Int /\ rank(a) \in Nat /\ rank(b) \in Nat
    BY <1>0, <1>1, <1>3, RowFields
  <2>3. (a.id < b.id => rank(a) < rank(b)) /\ (b.id < a.id => rank(b) < rank(a))
    BY <1>4
  <2> HIDE DEF rank
  <2>2. ~(a.id < b.id) /\ ~(b.id < a.id)
    BY <2>1, <2>3
  <2> QED
    BY <1>0, <2>1, <2>2
<1>6. \A n \in 0 .. size - 1 : \E row \in rows : rank(row) = n
  <2> DEFINE R == [row \in rows |-> rank(row)]
  <2>1. R \in [rows -> 0 .. size - 1] /\ \A row \in rows : R[row] = rank(row)
    BY <1>3
  <2>2. \A a, b \in rows : R[a] = R[b] => a = b
    BY <1>5, <2>1
  <2> HIDE DEF R, rank
  <2>3. R \in Injection(rows, 0 .. size - 1)
    BY <2>1, <2>2 DEF Injection, IsInjective
  <2>4. IsFiniteSet(0 .. size - 1) /\ Cardinality(0 .. size - 1) = size
    BY <1>1, FS_Interval
  <2>5. R \in Surjection(rows, 0 .. size - 1)
    BY <2>3, <2>4, FS_Injection
  <2> QED
    BY <2>1, <2>5 DEF Surjection
<1> QED
  BY <1>1, <1>3, <1>5, <1>6

LEMMA SortedTypes ==
    ASSUME NEW rows \in RowSets
    PROVE  Sorted(rows) \in Shards /\ ToSet(Sorted(rows)) = rows
<1> DEFINE rank(row) == Cardinality({other \in rows : other.id < row.id})
<1> DEFINE size == Cardinality(rows)
<1> DEFINE at(i) == CHOOSE row \in rows : rank(row) = i - 1
<1>1. /\ size \in Nat
      /\ \A row \in rows : rank(row) \in 0 .. size - 1
      /\ \A a, b \in rows : rank(a) = rank(b) => a = b
      /\ \A n \in 0 .. size - 1 : \E row \in rows : rank(row) = n
  BY Ranks
<1>2. Sorted(rows) = [i \in 1 .. size |-> at(i)]
  BY DEF Sorted
<1> HIDE DEF rank, size
<1>3. \A i \in 1 .. size : at(i) \in rows /\ rank(at(i)) = i - 1
  <2> SUFFICES ASSUME NEW i \in 1 .. size PROVE \E row \in rows : rank(row) = i - 1
    OBVIOUS
  <2> QED
    BY <1>1, i - 1 \in 0 .. size - 1
<1>4. \A row \in rows : \E i \in 1 .. size : at(i) = row
  <2> SUFFICES ASSUME NEW row \in rows PROVE \E i \in 1 .. size : at(i) = row
    OBVIOUS
  <2>1. rank(row) + 1 \in 1 .. size /\ rank(row) \in Int
    BY <1>1
  <2>2. rank(at(rank(row) + 1)) = rank(row) /\ at(rank(row) + 1) \in rows
    BY <1>3, <2>1
  <2> QED
    BY <1>1, <2>1, <2>2
<1> HIDE DEF at
<1>5. Sorted(rows) \in Seq(Row) /\ Len(Sorted(rows)) = size
  BY <1>1, <1>2, <1>3 DEF RowSets
<1>6. \A i \in 1 .. size : Sorted(rows)[i] = at(i)
  BY <1>2
<1>7. \A i, j \in 1 .. size : at(i).id = at(j).id => i = j
  BY <1>3 DEF RowSets
<1>8. ToSet(Sorted(rows)) = rows
  BY <1>2, <1>3, <1>4 DEF ToSet
<1> QED
  BY <1>5, <1>6, <1>7, <1>8 DEF Shards

(***************************************************************************)
(* What an import makes of its batch                                       *)
(***************************************************************************)
LEMMA DatasetTypes ==
    ASSUME NEW notes
    PROVE  /\ Dataset(notes) \in RowSets
           /\ \A row \in Dataset(notes) : row.id \in Mentioned(notes)
<1> DEFINE D == Dataset(notes)
<1> DEFINE I == [row \in D |-> row.id]
<1>1. D \subseteq Row /\ \A row \in D : notes[row.id] = row.rev /\ row.id \in MsgIds /\ row.rev \in Revisions
  BY RowFields DEF Dataset
<1>2. \A a, b \in D : a.id = b.id => a = b
  BY <1>1 DEF Row
<1>3. I \in Injection(D, MsgIds)
  BY <1>1, <1>2 DEF Injection, IsInjective
<1>4. IsFiniteSet(D)
  BY <1>3, FS_Injection, SampleAssumption
<1>5. \A row \in D : row.id \in Mentioned(notes)
  BY <1>1, SampleAssumption DEF Mentioned
<1> QED
  BY <1>1, <1>2, <1>4, <1>5 DEF RowSets

LEMMA RowSubsets == \A rows \in RowSets : \A part \in SUBSET rows : part \in RowSets
BY FS_Subset DEF RowSets

LEMMA MergedTypes ==
    ASSUME NEW said, NEW old \in RowSets, said.kind \in {"full", "partial", "none"}
    PROVE  /\ Merged(said, old) \in Shards
           /\ said.kind = "partial" =>
                ToSet(Merged(said, old)) =
                    {row \in old : row.id \notin Mentioned(said.notes)} \cup Dataset(said.notes)
<1> DEFINE kept == {row \in old : row.id \notin Mentioned(said.notes)}
<1> DEFINE new == Dataset(said.notes)
<1>1. new \in RowSets /\ \A row \in new : row.id \in Mentioned(said.notes)
  BY DatasetTypes
<1>2. kept \in RowSets /\ \A row \in kept : row.id \notin Mentioned(said.notes)
  BY RowSubsets
<1>3. CASE said.kind = "full"
  BY <1>1, <1>3, SortedTypes DEF Merged
<1>4. CASE said.kind = "partial"
  <2> DEFINE a == Sorted(kept)
  <2> DEFINE b == Sorted(new)
  <2>1. a \in Shards /\ ToSet(a) = kept /\ b \in Shards /\ ToSet(b) = new
    BY <1>1, <1>2, SortedTypes
  <2>2. Merged(said, old) = a \o b
    BY <1>4 DEF Merged
  <2> HIDE DEF a, b, kept, new
  <2>3. a \in Seq(Row) /\ b \in Seq(Row) /\ Len(a) \in Nat /\ Len(b) \in Nat
    BY <2>1, LenProperties DEF Shards
  <2>4. /\ a \o b \in Seq(Row) /\ Len(a \o b) = Len(a) + Len(b)
        /\ \A i \in 1 .. Len(a) + Len(b) : (a \o b)[i] = IF i <= Len(a) THEN a[i] ELSE b[i - Len(a)]
    BY <2>3, ConcatProperties
  <2>5. /\ \A i \in 1 .. Len(a) : a[i] \in kept
        /\ \A i \in 1 .. Len(b) : b[i] \in new
    BY <2>1, <2>3, LenProperties DEF ToSet
  <2>6. \A i \in 1 .. Len(a) + Len(b) :
           \/ i \in 1 .. Len(a) /\ (a \o b)[i] = a[i] /\ (a \o b)[i] \in kept
           \/ i - Len(a) \in 1 .. Len(b) /\ i > Len(a) /\ (a \o b)[i] = b[i - Len(a)] /\ (a \o b)[i] \in new
    <3> SUFFICES ASSUME NEW i \in 1 .. Len(a) + Len(b)
                 PROVE  \/ i \in 1 .. Len(a) /\ (a \o b)[i] = a[i] /\ (a \o b)[i] \in kept
                        \/ i - Len(a) \in 1 .. Len(b) /\ i > Len(a) /\ (a \o b)[i] = b[i - Len(a)]
                           /\ (a \o b)[i] \in new
      OBVIOUS
    <3>1. CASE i <= Len(a)
      <4>1. i \in 1 .. Len(a)
        BY <2>3, <3>1
      <4> QED
        BY <2>4, <2>5, <3>1, <4>1
    <3>2. CASE i > Len(a)
      <4>1. i - Len(a) \in 1 .. Len(b) /\ ~(i <= Len(a))
        BY <2>3, <3>2
      <4> QED
        BY <2>4, <2>5, <3>2, <4>1
    <3> QED
      BY <2>3, <3>1, <3>2
  <2>7. ASSUME NEW i \in 1 .. Len(a) + Len(b), NEW j \in 1 .. Len(a) + Len(b),
               (a \o b)[i].id = (a \o b)[j].id
        PROVE  i = j
    <3>1. CASE i \in 1 .. Len(a) /\ (a \o b)[i] = a[i] /\ (a \o b)[i] \in kept
      <4>1. j \in 1 .. Len(a) /\ (a \o b)[j] = a[j]
        BY <1>1, <1>2, <2>6, <2>7, <3>1
      <4> QED
        BY <2>1, <2>7, <3>1, <4>1 DEF Shards
    <3>2. CASE i - Len(a) \in 1 .. Len(b) /\ (a \o b)[i] = b[i - Len(a)] /\ (a \o b)[i] \in new
      <4>1. j - Len(a) \in 1 .. Len(b) /\ (a \o b)[j] = b[j - Len(a)]
        BY <1>1, <1>2, <2>6, <2>7, <3>2
      <4>2. i - Len(a) = j - Len(a)
        BY <2>1, <2>7, <3>2, <4>1 DEF Shards
      <4> QED
        BY <2>3, <4>2
    <3> QED
      BY <2>6, <3>1, <3>2
  <2>8. a \o b \in Shards
    BY <2>4, <2>7 DEF Shards
  <2>9. ToSet(a \o b) = kept \cup new
    <3>1. DOMAIN (a \o b) = 1 .. Len(a) + Len(b) /\ DOMAIN a = 1 .. Len(a) /\ DOMAIN b = 1 .. Len(b)
      BY <2>3, <2>4, LenProperties
    <3>2. ToSet(a \o b) \subseteq kept \cup new
      BY <2>6, <3>1 DEF ToSet
    <3>3. kept \subseteq ToSet(a \o b)
      <4> SUFFICES ASSUME NEW row \in kept PROVE \E i \in 1 .. Len(a) + Len(b) : (a \o b)[i] = row
        BY <3>1 DEF ToSet
      <4>1. PICK i \in 1 .. Len(a) : a[i] = row
        BY <2>1, <3>1 DEF ToSet
      <4>2. i \in 1 .. Len(a) + Len(b) /\ i <= Len(a)
        BY <2>3
      <4> QED
        BY <2>4, <4>1, <4>2
    <3>4. new \subseteq ToSet(a \o b)
      <4> SUFFICES ASSUME NEW row \in new PROVE \E i \in 1 .. Len(a) + Len(b) : (a \o b)[i] = row
        BY <3>1 DEF ToSet
      <4>1. PICK i \in 1 .. Len(b) : b[i] = row
        BY <2>1, <3>1 DEF ToSet
      <4>2. i + Len(a) \in 1 .. Len(a) + Len(b) /\ ~(i + Len(a) <= Len(a)) /\ (i + Len(a)) - Len(a) = i
        BY <2>3
      <4> QED
        BY <2>4, <4>1, <4>2
    <3> QED
      BY <3>2, <3>3, <3>4
  <2> QED
    BY <2>2, <2>8, <2>9 DEF kept, new
<1>5. CASE said.kind = "none"
  BY <1>5, NoRows DEF Merged
<1> QED
  BY <1>3, <1>4, <1>5

\* The kind of a session's reading is one of the three.
LEMMA ReadingKinds ==
    ASSUME NEW batch, NEW s \in Sessions
    PROVE  /\ Reading(batch)[s].kind \in {"full", "partial", "none"}
           /\ Reading(batch)[s].notes = Annotations(batch, s)
           /\ Reading(batch)[s].kind = "full" => s \in Confirmed(batch)
BY DEF Reading

(***************************************************************************)
(* The index                                                               *)
(***************************************************************************)
LEMMA EntryFields == \A e \in Entry : e.session \in Sessions /\ e.count \in Nat /\ e.at \in Nat
BY DEF Entry

LEMMA IndexFields ==
    ASSUME NEW entries \in Indexes
    PROVE  /\ entries \in Seq(Entry) /\ Len(entries) \in Nat /\ DOMAIN entries = 1 .. Len(entries)
           /\ \A i \in 1 .. Len(entries) : entries[i] \in Entry /\ entries[i].session \in Sessions
           /\ \A i, j \in 1 .. Len(entries) : entries[i].session = entries[j].session => i = j
           /\ Listed(entries) = {entries[i].session : i \in 1 .. Len(entries)}
           /\ Listed(entries) \subseteq Sessions
BY EntryFields, LenProperties DEF Indexes, Listed

LEMMA Places ==
    ASSUME NEW entries \in Indexes, NEW s \in Listed(entries)
    PROVE  /\ PlaceOf(entries, s) \in 1 .. Len(entries)
           /\ entries[PlaceOf(entries, s)].session = s
           /\ EntryOf(entries, s) \in Entry
BY IndexFields DEF PlaceOf, EntryOf

\* A session's entry is the one at whatever place has it.
LEMMA EntryAt ==
    ASSUME NEW entries \in Indexes, NEW i \in 1 .. Len(entries)
    PROVE  /\ entries[i].session \in Listed(entries)
           /\ EntryOf(entries, entries[i].session) = entries[i]
<1>1. entries[i].session \in Listed(entries)
  BY IndexFields
<1>2. PlaceOf(entries, entries[i].session) = i
  BY <1>1, Places, IndexFields
<1> QED
  BY <1>1, <1>2 DEF EntryOf

LEMMA Removed ==
    ASSUME NEW S, NEW seq \in Seq(S), NEW p \in 1 .. Len(seq)
    PROVE  /\ RemoveAt(seq, p) \in Seq(S)
           /\ Len(RemoveAt(seq, p)) = Len(seq) - 1
           /\ \A i \in 1 .. Len(seq) - 1 :
                RemoveAt(seq, p)[i] = IF i < p THEN seq[i] ELSE seq[i + 1]
<1> DEFINE a == SubSeq(seq, 1, p - 1)
<1> DEFINE b == SubSeq(seq, p + 1, Len(seq))
<1>0. Len(seq) \in Nat /\ p \in Int /\ p >= 1 /\ p <= Len(seq) /\ \A i \in 1 .. Len(seq) : seq[i] \in S
  BY LenProperties, ElementOfSeq
<1>1. a \in Seq(S) /\ Len(a) = p - 1 /\ \A i \in 1 .. p - 1 : a[i] = seq[i]
  <2>1. \A i \in 1 .. p - 1 : seq[i] \in S
    BY <1>0
  <2>2. a \in Seq(S) /\ Len(a) = (IF 1 <= p - 1 THEN (p - 1) - 1 + 1 ELSE 0)
        /\ \A i \in 1 .. (p - 1) - 1 + 1 : a[i] = seq[1 + i - 1]
    BY <1>0, <2>1, SubSeqProperties
  <2> HIDE DEF a
  <2>3. Len(a) = p - 1
    BY <1>0, <2>2
  <2>4. \A i \in 1 .. p - 1 : i \in 1 .. (p - 1) - 1 + 1 /\ 1 + i - 1 = i
    BY <1>0
  <2> QED
    BY <2>2, <2>3, <2>4
<1>2. b \in Seq(S) /\ Len(b) = Len(seq) - p /\ \A i \in 1 .. Len(seq) - p : b[i] = seq[p + i]
  <2>1. \A i \in p + 1 .. Len(seq) : seq[i] \in S
    BY <1>0
  <2>2. b \in Seq(S) /\ Len(b) = (IF p + 1 <= Len(seq) THEN Len(seq) - (p + 1) + 1 ELSE 0)
        /\ \A i \in 1 .. Len(seq) - (p + 1) + 1 : b[i] = seq[(p + 1) + i - 1]
    BY <1>0, <2>1, SubSeqProperties
  <2> HIDE DEF b
  <2>3. Len(b) = Len(seq) - p
    BY <1>0, <2>2
  <2>4. \A i \in 1 .. Len(seq) - p : i \in 1 .. Len(seq) - (p + 1) + 1 /\ (p + 1) + i - 1 = p + i
    BY <1>0
  <2> QED
    BY <2>2, <2>3, <2>4
<1>3. RemoveAt(seq, p) = a \o b
  BY DEF RemoveAt
<1> HIDE DEF a, b
<1>4. /\ a \o b \in Seq(S) /\ Len(a \o b) = Len(a) + Len(b)
      /\ \A i \in 1 .. Len(a) + Len(b) : (a \o b)[i] = IF i <= Len(a) THEN a[i] ELSE b[i - Len(a)]
  BY <1>1, <1>2, ConcatProperties
<1>5. Len(a) + Len(b) = Len(seq) - 1
  BY <1>0, <1>1, <1>2
<1>6. ASSUME NEW i \in 1 .. Len(seq) - 1
      PROVE  (a \o b)[i] = IF i < p THEN seq[i] ELSE seq[i + 1]
  <2>1. CASE i < p
    <3>1. i \in 1 .. p - 1 /\ i <= Len(a)
      BY <1>0, <1>1, <2>1
    <3> QED
      BY <1>1, <1>4, <1>5, <2>1, <3>1
  <2>2. CASE ~(i < p)
    <3>1. i - (p - 1) \in 1 .. Len(seq) - p /\ ~(i <= Len(a)) /\ p + (i - (p - 1)) = i + 1
      BY <1>0, <1>1, <2>2
    <3> QED
      BY <1>1, <1>2, <1>4, <1>5, <2>2, <3>1
  <2> QED
    BY <2>1, <2>2
<1> QED
  BY <1>3, <1>4, <1>5, <1>6

LEMMA WithoutTypes ==
    ASSUME NEW entries \in Indexes, NEW s
    PROVE  /\ Without(entries, s) \in Indexes
           /\ Listed(Without(entries, s)) = Listed(entries) \ {s}
           /\ \A t \in Listed(entries) \ {s} : EntryOf(Without(entries, s), t) = EntryOf(entries, t)
<1>1. CASE s \notin Listed(entries)
  BY <1>1 DEF Without
<1>2. CASE s \in Listed(entries)
  <2> DEFINE p == PlaceOf(entries, s)
  <2> DEFINE left == RemoveAt(entries, p)
  <2>0. /\ entries \in Seq(Entry) /\ Len(entries) \in Nat
        /\ p \in 1 .. Len(entries) /\ entries[p].session = s
    BY <1>2, IndexFields, Places
  <2>1. Without(entries, s) = left
    BY <1>2 DEF Without
  <2> HIDE DEF p
  <2>2. /\ left \in Seq(Entry) /\ Len(left) = Len(entries) - 1
        /\ \A i \in 1 .. Len(entries) - 1 : left[i] = IF i < p THEN entries[i] ELSE entries[i + 1]
    BY <2>0, Removed
  <2> HIDE DEF left
  <2>3. \A i \in 1 .. Len(left) : \E j \in 1 .. Len(entries) :
           j # p /\ j = (IF i < p THEN i ELSE i + 1) /\ left[i] = entries[j]
    <3> SUFFICES ASSUME NEW i \in 1 .. Len(left)
                 PROVE  \E j \in 1 .. Len(entries) :
                            j # p /\ j = (IF i < p THEN i ELSE i + 1) /\ left[i] = entries[j]
      OBVIOUS
    <3>1. i \in 1 .. Len(entries) - 1 /\ i \in 1 .. Len(entries) /\ i + 1 \in 1 .. Len(entries)
      BY <2>0, <2>2
    <3>2. left[i] = IF i < p THEN entries[i] ELSE entries[i + 1]
      BY <2>2, <3>1
    <3> QED
      BY <2>0, <3>1, <3>2
  <2>4. \A j \in 1 .. Len(entries) : j # p => \E i \in 1 .. Len(left) : left[i] = entries[j]
    <3> SUFFICES ASSUME NEW j \in 1 .. Len(entries), j # p
                 PROVE  \E i \in 1 .. Len(left) : left[i] = entries[j]
      OBVIOUS
    <3>1. CASE j < p
      <4>1. j \in 1 .. Len(entries) - 1
        BY <2>0, <3>1
      <4> QED
        BY <2>2, <3>1, <4>1
    <3>2. CASE j > p
      <4>1. j - 1 \in 1 .. Len(entries) - 1 /\ ~(j - 1 < p) /\ (j - 1) + 1 = j
        BY <2>0, <3>2
      <4> QED
        BY <2>2, <4>1
    <3> QED
      BY <2>0, <3>1, <3>2
  <2>5. \A i, j \in 1 .. Len(left) : left[i].session = left[j].session => i = j
    <3> SUFFICES ASSUME NEW i \in 1 .. Len(left), NEW j \in 1 .. Len(left),
                        left[i].session = left[j].session
                 PROVE  i = j
      OBVIOUS
    <3>1. PICK a \in 1 .. Len(entries) :
              a # p /\ a = (IF i < p THEN i ELSE i + 1) /\ left[i] = entries[a]
      BY <2>3
    <3>2. PICK b \in 1 .. Len(entries) :
              b # p /\ b = (IF j < p THEN j ELSE j + 1) /\ left[j] = entries[b]
      BY <2>3
    <3>3. a = b
      BY <3>1, <3>2, IndexFields
    <3> QED
      BY <2>0, <2>2, <3>1, <3>2, <3>3
  <2>6. left \in Indexes
    BY <2>2, <2>5 DEF Indexes
  <2>7. Listed(left) = Listed(entries) \ {s}
    <3>1. \A i \in 1 .. Len(left) : left[i].session \in Listed(entries) \ {s}
      BY <2>0, <2>3, IndexFields
    <3>2. \A t \in Listed(entries) \ {s} : \E i \in 1 .. Len(left) : left[i].session = t
      <4> SUFFICES ASSUME NEW t \in Listed(entries) \ {s} PROVE \E i \in 1 .. Len(left) : left[i].session = t
        OBVIOUS
      <4>1. PICK j \in 1 .. Len(entries) : entries[j].session = t
        BY IndexFields
      <4> QED
        BY <2>0, <2>4, <4>1
    <3> QED
      BY <2>6, <3>1, <3>2, IndexFields
  <2>8. \A t \in Listed(entries) \ {s} : EntryOf(left, t) = EntryOf(entries, t)
    <3> SUFFICES ASSUME NEW t \in Listed(entries) \ {s} PROVE EntryOf(left, t) = EntryOf(entries, t)
      OBVIOUS
    <3>1. PICK j \in 1 .. Len(entries) : entries[j].session = t
      BY IndexFields
    <3>2. PICK i \in 1 .. Len(left) : left[i] = entries[j]
      BY <2>0, <2>4, <3>1
    <3>3. EntryOf(entries, t) = entries[j]
      BY <3>1, EntryAt
    <3>4. EntryOf(left, t) = left[i]
      BY <2>6, <3>1, <3>2, EntryAt
    <3> QED
      BY <3>2, <3>3, <3>4
  <2> QED
    BY <2>1, <2>6, <2>7, <2>8
<1> QED
  BY <1>1, <1>2

LEMMA WithTypes ==
    ASSUME NEW entries \in Indexes, NEW e \in Entry
    PROVE  /\ With(entries, e) \in Indexes
           /\ Listed(With(entries, e)) = Listed(entries) \cup {e.session}
           /\ EntryOf(With(entries, e), e.session) = e
           /\ \A t \in Listed(entries) \ {e.session} : EntryOf(With(entries, e), t) = EntryOf(entries, t)
<1> DEFINE new == With(entries, e)
<1>0. /\ entries \in Seq(Entry) /\ Len(entries) \in Nat /\ DOMAIN entries = 1 .. Len(entries)
      /\ \A i \in 1 .. Len(entries) : entries[i] \in Entry
  BY IndexFields
<1>1. CASE e.session \in Listed(entries)
  <2>1. new = [i \in 1 .. Len(entries) |-> IF entries[i].session = e.session THEN e ELSE entries[i]]
    BY <1>0, <1>1 DEF With
  <2> HIDE DEF new
  <2>2. new \in Seq(Entry) /\ Len(new) = Len(entries)
    BY <1>0, <2>1
  <2>3. \A i \in 1 .. Len(entries) :
           /\ new[i] = IF entries[i].session = e.session THEN e ELSE entries[i]
           /\ new[i].session = entries[i].session
    BY <2>1
  <2>4. new \in Indexes
    BY <2>2, <2>3, IndexFields DEF Indexes
  <2>5. Listed(new) = Listed(entries)
    <3>1. Listed(new) = {new[i].session : i \in 1 .. Len(entries)}
      BY <2>2, <2>4, IndexFields
    <3>2. Listed(entries) = {entries[i].session : i \in 1 .. Len(entries)}
      BY IndexFields
    <3> QED
      BY <2>3, <3>1, <3>2
  <2>6. \A i \in 1 .. Len(entries) : EntryOf(new, entries[i].session) = new[i]
    BY <2>2, <2>3, <2>4, EntryAt
  <2>7. \A t \in Listed(entries) :
           EntryOf(new, t) = IF t = e.session THEN e ELSE EntryOf(entries, t)
    BY <2>3, <2>6, IndexFields, EntryAt
  <2> QED
    BY <1>1, <2>4, <2>5, <2>7 DEF new
<1>2. CASE e.session \notin Listed(entries)
  <2>1. new = Append(entries, e)
    BY <1>2 DEF With
  <2> HIDE DEF new
  <2>2. new \in Seq(Entry) /\ Len(new) = Len(entries) + 1
    BY <1>0, <2>1
  <2>3. /\ \A i \in 1 .. Len(entries) : i \in 1 .. Len(new) /\ new[i] = entries[i]
        /\ Len(new) \in 1 .. Len(new) /\ new[Len(new)] = e
        /\ \A i \in 1 .. Len(new) : i \in 1 .. Len(entries) \/ i = Len(new)
    BY <1>0, <2>1, <2>2
  <2>4. new \in Indexes
    <3> SUFFICES ASSUME NEW i \in 1 .. Len(new), NEW j \in 1 .. Len(new), new[i].session = new[j].session
                 PROVE  i = j
      BY <2>2 DEF Indexes
    <3>1. \A k \in 1 .. Len(entries) : new[k].session # e.session
      BY <1>2, <2>3, IndexFields
    <3> QED
      BY <2>3, <3>1, IndexFields
  <2>5. Listed(new) = Listed(entries) \cup {e.session}
    BY <2>3, <2>4, IndexFields
  <2>6. EntryOf(new, e.session) = e
    BY <2>3, <2>4, EntryAt
  <2>7. \A i \in 1 .. Len(entries) : EntryOf(new, entries[i].session) = entries[i]
    BY <2>3, <2>4, EntryAt
  <2>8. \A t \in Listed(entries) : EntryOf(new, t) = EntryOf(entries, t)
    BY <2>7, IndexFields, EntryAt
  <2> QED
    BY <2>4, <2>5, <2>6, <2>8 DEF new
<1> QED
  BY <1>1, <1>2

\* The first n elements.
LEMMA FirstTypes ==
    ASSUME NEW S, NEW seq \in Seq(S), NEW n \in Nat
    PROVE  /\ FirstOf(seq, n) \in Seq(S)
           /\ Len(FirstOf(seq, n)) \in Nat /\ Len(FirstOf(seq, n)) <= Len(seq)
           /\ n >= Len(seq) => Len(FirstOf(seq, n)) = Len(seq)
           /\ \A i \in 1 .. Len(FirstOf(seq, n)) : i \in 1 .. Len(seq) /\ FirstOf(seq, n)[i] = seq[i]
<1> DEFINE m == IF n < Len(seq) THEN n ELSE Len(seq)
<1>1. Len(seq) \in Nat /\ m \in Nat /\ m <= Len(seq) /\ (n >= Len(seq) => m = Len(seq))
  BY LenProperties
<1>2. FirstOf(seq, n) = SubSeq(seq, 1, m)
  BY DEF FirstOf
<1> HIDE DEF m
<1>3. \A i \in 1 .. m : i \in 1 .. Len(seq) /\ seq[i] \in S
  BY <1>1, ElementOfSeq
<1>4. /\ SubSeq(seq, 1, m) \in Seq(S)
      /\ Len(SubSeq(seq, 1, m)) = IF 1 <= m THEN m - 1 + 1 ELSE 0
      /\ \A i \in 1 .. m - 1 + 1 : SubSeq(seq, 1, m)[i] = seq[1 + i - 1]
  BY <1>1, <1>3, SubSeqProperties
<1>5. Len(SubSeq(seq, 1, m)) = m
  BY <1>1, <1>4
<1>6. \A i \in 1 .. m : i \in 1 .. m - 1 + 1 /\ 1 + i - 1 = i
  BY <1>1
<1> QED
  BY <1>1, <1>2, <1>3, <1>4, <1>5, <1>6

LEMMA FirstEntries ==
    ASSUME NEW entries \in Indexes, NEW n \in Nat
    PROVE  FirstOf(entries, n) \in Indexes
<1>1. entries \in Seq(Entry)
  BY DEF Indexes
<1> QED
  BY <1>1, FirstTypes DEF Indexes

LEMMA FirstRows ==
    ASSUME NEW seq \in Shards, NEW n \in Nat
    PROVE  ToSet(FirstOf(seq, n)) \in RowSets
<1> DEFINE q == FirstOf(seq, n)
<1>1. seq \in Seq(Row) /\ \A i, j \in 1 .. Len(seq) : seq[i].id = seq[j].id => i = j
  BY DEF Shards
<1>2. /\ q \in Seq(Row) /\ Len(q) \in Nat
      /\ \A i \in 1 .. Len(q) : i \in 1 .. Len(seq) /\ q[i] = seq[i]
  BY <1>1, FirstTypes
<1> HIDE DEF q
<1>3. DOMAIN q = 1 .. Len(q) /\ q \in [1 .. Len(q) -> Row]
  BY <1>2, LenProperties
<1>4. ToSet(q) = {q[i] : i \in 1 .. Len(q)} /\ ToSet(q) \subseteq Row
  BY <1>3 DEF ToSet
<1>5. IsFiniteSet(ToSet(q))
  <2>1. q \in Surjection(1 .. Len(q), ToSet(q))
    BY <1>3, <1>4 DEF Surjection
  <2>2. IsFiniteSet(1 .. Len(q))
    BY <1>2, FS_Interval
  <2> QED
    BY <2>1, <2>2, FS_Surjection
<1>6. \A a, b \in ToSet(q) : a.id = b.id => a = b
  BY <1>1, <1>2, <1>4
<1> QED
  BY <1>4, <1>5, <1>6 DEF RowSets, q

(***************************************************************************)
(* The inductive invariant                                                 *)
(***************************************************************************)
Copies == [Sessions -> RowSets]

Operations == [kind : {"idle", "import", "reset"},
               step : {"idle", "load", "compose", "index", "replace", "refresh", "clear", "forget"},
               batch : Exports \cup {{}}, input : {Reading(batch) : batch \in Exports \cup {{}}},
               todo : SUBSET Sessions, want : [Sessions -> Shards], entries : Indexes]

Loads == [step : {"idle", "called", "reading"}, todo : Seq(Sessions), got : Copies]

Typed ==
    /\ shards \in [Sessions -> Shards]
    /\ index \in Indexes
    /\ samples \in Copies \cup {None}
    /\ Doing("import", "compose") => samples \in Copies
    /\ op \in Operations /\ op.input = Reading(op.batch)
    /\ \/ op = IdleOp
       \/ op.kind = "import" /\ op.step \in {"load", "compose", "index", "replace", "refresh"}
       \/ op.kind = "reset" /\ op.step \in {"index", "clear", "forget"}
    /\ loader \in [Loaders \cup {Initializer} -> Loads]
    /\ past \in [failed : SUBSET {"import", "reset"}, crashed : BOOLEAN, crossed : BOOLEAN]
    /\ budget \in [ops : 0 .. MaxOps, crashes : Int, aborts : Int]

Importing(steps) == op.kind = "import" /\ op.step \in steps
Resetting(steps) == op.kind = "reset" /\ op.step \in steps

\* Without a crossing, a load and an operation exclude each other, ...
LoadsApart == ~past.crossed => Idle \/ \A p \in DOMAIN loader : loader[p].step = "idle"

\* ... a load has what is stored of the sessions it is done with, ...
LoadsTrue ==
    ~past.crossed => \A p \in DOMAIN loader : loader[p].step = "reading" =>
        /\ ToSet(loader[p].todo) \subseteq Listed(LoadedIndex)
        /\ \A s \in Sessions \ ToSet(loader[p].todo) : loader[p].got[s] = Stored[s]

\* ... and the copy in memory is what is stored, if no reset has failed.
CopyTrue ==
    ~past.crossed /\ "reset" \notin past.failed =>
        /\ Idle \/ Importing({"load", "refresh"}) => samples \in {None, Stored}
        /\ Importing({"compose", "index"}) => samples = Stored

Gone == Resetting({"forget"}) => index = <<>>

Composed ==
    Importing({"index"}) =>
        /\ op.todo = Said(op.input, {"full", "partial"})
        /\ ~past.crossed => \A s \in Sessions : op.want[s] = Merged(op.input[s], samples[s])

\* A session an import is done with.
Settled(entries, s) ==
    \/ shards[s] = <<>> /\ s \notin Listed(entries)
    \/ /\ shards[s] = op.want[s]
       /\ s \in Listed(entries) /\ EntryOf(entries, s).count = Len(shards[s])

Settling ==
    /\ Importing({"replace"}) =>
           \A s \in Said(op.input, {"full", "partial"}) \ op.todo : Settled(op.entries, s)
    /\ Importing({"refresh"}) =>
           \A s \in Said(op.input, {"full", "partial"}) : Settled(index, s)

\* _load_index drops no entry.
FewSessions == IsFiniteSet(Sessions) /\ Cardinality(Sessions) <= MaxTracked

MatchedBy(entries, s) ==
    IF shards[s] = <<>> THEN s \notin Listed(entries)
    ELSE s \in Listed(entries) /\ EntryOf(entries, s).count = Len(shards[s])

Matching ==
    FewSessions /\ Undisturbed => \A s \in Sessions :
        /\ \/ Idle
           \/ Importing({"load", "compose", "index", "refresh"})
           \/ Resetting({"index", "forget"})
           => MatchedBy(index, s)
        /\ Importing({"replace"}) => MatchedBy(op.entries, s)
        /\ Resetting({"clear"}) /\ s \notin Listed(op.entries) => shards[s] = <<>>

StoreInv == LoadsApart /\ LoadsTrue /\ CopyTrue /\ Gone /\ Composed /\ Settling /\ Matching

LEMMA StoredTypes ==
    ASSUME shards \in [Sessions -> Shards], index \in Indexes
    PROVE  /\ LoadedIndex \in Indexes
           /\ \A s \in Sessions : Shard(s) \in RowSets
           /\ Stored \in Copies
<1>0. MaxTracked \in Nat /\ MaxSamples \in Nat
  BY SampleAssumption
<1>1. LoadedIndex \in Indexes
  BY <1>0, FirstEntries DEF LoadedIndex
<1>2. \A s \in Sessions : Shard(s) \in RowSets
  BY <1>0, FirstRows DEF Shard
<1> QED
  BY <1>1, <1>2, NoRows DEF Stored, Copies

LEMMA StoredSame ==
    ASSUME UNCHANGED <<shards, index>>
    PROVE  Stored' = Stored /\ LoadedIndex' = LoadedIndex /\ \A s : Shard(s)' = Shard(s)
BY DEF Stored, LoadedIndex, Shard

LEMMA IdleShape ==
    /\ IdleOp \in Operations /\ IdleOp.kind = "idle" /\ IdleOp.step = "idle"
    /\ IdleOp.batch = {} /\ IdleOp.input = Reading({}) /\ IdleOp.entries = <<>>
    /\ IdleOp.todo = {}
    /\ IdleLoad \in Loads /\ Starting \in [Loaders \cup {Initializer} -> Loads]
    /\ \A p \in DOMAIN Starting : Starting[p].step \in {"idle", "called"}
<1>1. NoSamples \in Copies
  BY NoRows DEF NoSamples, Copies
<1>2. IdleLoad \in Loads /\ [IdleLoad EXCEPT !.step = "called"] \in Loads
      /\ [IdleLoad EXCEPT !.step = "called"].step = "called" /\ IdleLoad.step = "idle"
  BY <1>1, EmptySeq DEF IdleLoad, Loads
<1>3. Starting \in [Loaders \cup {Initializer} -> Loads]
      /\ \A p \in DOMAIN Starting : Starting[p].step \in {"idle", "called"}
  BY <1>2 DEF Starting
<1>4. IdleOp \in Operations
  BY NoRows DEF IdleOp, Operations
<1> QED
  BY <1>2, <1>3, <1>4 DEF IdleOp

\* The tail of a sequence that is not empty.
LEMMA Tails ==
    ASSUME NEW S, NEW seq \in Seq(S), seq # <<>>
    PROVE  /\ Len(seq) \in Nat /\ Len(seq) >= 1 /\ Head(seq) = seq[1] /\ seq[1] \in S
           /\ Tail(seq) \in Seq(S) /\ Len(Tail(seq)) = Len(seq) - 1
           /\ \A i \in 1 .. Len(seq) - 1 : Tail(seq)[i] = seq[i + 1]
BY LenProperties, EmptySeq, ElementOfSeq, HeadTailProperties

LEMMA TailEntries ==
    ASSUME NEW entries \in Indexes, entries # <<>>
    PROVE  /\ Tail(entries) \in Indexes
           /\ Head(entries).session \in Sessions
           /\ Listed(entries) = Listed(Tail(entries)) \cup {Head(entries).session}
<1> DEFINE rest == Tail(entries)
<1>1. /\ entries \in Seq(Entry) /\ Len(entries) \in Nat /\ Len(entries) >= 1
      /\ Head(entries) = entries[1] /\ entries[1] \in Entry
      /\ rest \in Seq(Entry) /\ Len(rest) = Len(entries) - 1
      /\ \A i \in 1 .. Len(entries) - 1 : rest[i] = entries[i + 1]
  BY Tails, IndexFields
<1> HIDE DEF rest
<1>2. \A i \in 1 .. Len(rest) : i + 1 \in 1 .. Len(entries) /\ rest[i] = entries[i + 1] /\ i \in Int
  BY <1>1
<1>3. rest \in Indexes
  <2> SUFFICES ASSUME NEW i \in 1 .. Len(rest), NEW j \in 1 .. Len(rest), rest[i].session = rest[j].session
               PROVE  i = j
    BY <1>1 DEF Indexes
  <2>1. i + 1 = j + 1
    BY <1>2, IndexFields
  <2> QED
    BY <1>2, <2>1
<1>4. \A i \in 1 .. Len(entries) : i = 1 \/ (i - 1 \in 1 .. Len(rest) /\ rest[i - 1] = entries[i])
  <2> SUFFICES ASSUME NEW i \in 1 .. Len(entries), i # 1
               PROVE  i - 1 \in 1 .. Len(rest) /\ rest[i - 1] = entries[i]
    OBVIOUS
  <2>1. i - 1 \in 1 .. Len(rest) /\ (i - 1) + 1 = i
    BY <1>1
  <2> QED
    BY <1>2, <2>1
<1>5. Listed(entries) = {entries[i].session : i \in 1 .. Len(entries)}
      /\ Listed(rest) = {rest[i].session : i \in 1 .. Len(rest)}
  BY <1>3, IndexFields
<1>6. 1 \in 1 .. Len(entries)
  BY <1>1
<1>7. Listed(rest) \cup {entries[1].session} \subseteq Listed(entries)
  BY <1>2, <1>5, <1>6
<1>8. Listed(entries) \subseteq Listed(rest) \cup {entries[1].session}
  BY <1>4, <1>5
<1> QED
  BY <1>1, <1>3, <1>7, <1>8, EntryFields DEF rest

LEMMA TailSet ==
    ASSUME NEW S, NEW seq \in Seq(S), seq # <<>>
    PROVE  ToSet(seq) = ToSet(Tail(seq)) \cup {Head(seq)}
<1> DEFINE rest == Tail(seq)
<1>1. /\ Len(seq) \in Nat /\ Len(seq) >= 1 /\ Head(seq) = seq[1]
      /\ rest \in Seq(S) /\ Len(rest) = Len(seq) - 1
      /\ \A i \in 1 .. Len(seq) - 1 : rest[i] = seq[i + 1]
  BY Tails
<1> HIDE DEF rest
<1>2. DOMAIN seq = 1 .. Len(seq) /\ DOMAIN rest = 1 .. Len(rest)
  BY <1>1, LenProperties
<1>3. \A i \in 1 .. Len(rest) : i + 1 \in 1 .. Len(seq) /\ rest[i] = seq[i + 1]
  BY <1>1
<1>4. \A i \in 1 .. Len(seq) : i = 1 \/ (i - 1 \in 1 .. Len(rest) /\ rest[i - 1] = seq[i])
  <2> SUFFICES ASSUME NEW i \in 1 .. Len(seq), i # 1
               PROVE  i - 1 \in 1 .. Len(rest) /\ rest[i - 1] = seq[i]
    OBVIOUS
  <2>1. i - 1 \in 1 .. Len(rest) /\ (i - 1) + 1 = i
    BY <1>1
  <2> QED
    BY <1>3, <2>1
<1>5. 1 \in 1 .. Len(seq)
  BY <1>1
<1>6. ToSet(rest) \cup {seq[1]} \subseteq ToSet(seq)
  BY <1>2, <1>3, <1>5 DEF ToSet
<1>7. ToSet(seq) \subseteq ToSet(rest) \cup {seq[1]}
  BY <1>2, <1>4 DEF ToSet
<1> QED
  BY <1>1, <1>6, <1>7 DEF rest

LEMMA TypedInit == Init => Typed
<1> SUFFICES ASSUME Init PROVE Typed
  OBVIOUS
<1>1. budget \in [ops : 0 .. MaxOps, crashes : Int, aborts : Int]
  BY SampleAssumption DEF Init
<1>2. shards \in [Sessions -> Shards] /\ index \in Indexes
  BY NoRows DEF Init
<1>3. past \in [failed : SUBSET {"import", "reset"}, crashed : BOOLEAN, crossed : BOOLEAN]
  BY DEF Init
<1> QED
  BY <1>1, <1>2, <1>3, IdleShape DEF Init, Typed, Doing

LEMMA TypedImport == Typed /\ Import => Typed'
<1> SUFFICES ASSUME Typed, Import PROVE Typed'
  OBVIOUS
<1>0. /\ shards \in [Sessions -> Shards] /\ index \in Indexes /\ samples \in Copies \cup {None}
      /\ op \in Operations /\ op.input = Reading(op.batch)
      /\ op.entries \in Indexes /\ op.want \in [Sessions -> Shards] /\ op.todo \subseteq Sessions
      /\ LoadedIndex \in Indexes /\ Stored \in Copies
  BY StoredTypes DEF Typed, Operations
<1>1. CASE BeginImport
  <2>1. PICK batch \in Exports : op' = [IdleOp EXCEPT !.kind = "import", !.step = "load",
                                                      !.batch = batch, !.input = Reading(batch)]
    BY <1>1 DEF BeginImport
  <2>2. op' \in Operations /\ op'.input = Reading(op'.batch) /\ op'.kind = "import" /\ op'.step = "load"
    BY <2>1, IdleShape DEF Operations
  <2>3. budget' \in [ops : 0 .. MaxOps, crashes : Int, aborts : Int]
    <3>1. budget.ops - 1 \in 0 .. MaxOps
      BY <1>1, SampleAssumption DEF BeginImport, Begin, Typed
    <3> QED
      BY <1>1, <3>1 DEF BeginImport, Begin, Typed
  <2>4. past' \in [failed : SUBSET {"import", "reset"}, crashed : BOOLEAN, crossed : BOOLEAN]
    <3>1. (past.crossed \/ \E p \in DOMAIN loader : loader[p].step # "idle") \in BOOLEAN
      OBVIOUS
    <3> QED
      BY <1>1, <3>1 DEF BeginImport, Begin, Typed
  <2> QED
    BY <1>1, <2>2, <2>3, <2>4 DEF BeginImport, Typed, Doing
<1>2. CASE LoadOnce
  <2>1. samples' \in Copies
    BY <1>0, <1>2 DEF LoadOnce
  <2>2. op' \in Operations /\ op'.kind = "import" /\ op'.step = "compose" /\ op'.input = op.input
        /\ op'.batch = op.batch
    BY <1>0, <1>2 DEF LoadOnce, Doing, Operations
  <2> QED
    BY <1>0, <1>2, <2>1, <2>2 DEF LoadOnce, Typed, Doing
<1>3. CASE Compose
  <2> DEFINE todo == Said(op.input, {"full", "partial"})
  <2> DEFINE want == [s \in Sessions |-> Merged(op.input[s], samples[s])]
  <2>1. samples \in Copies
    BY <1>3 DEF Compose, Typed
  <2>2. want \in [Sessions -> Shards]
    <3> SUFFICES ASSUME NEW s \in Sessions PROVE Merged(op.input[s], samples[s]) \in Shards
      OBVIOUS
    <3>1. samples[s] \in RowSets /\ op.input[s].kind \in {"full", "partial", "none"}
      BY <1>0, <2>1, ReadingKinds DEF Copies
    <3> QED
      BY <3>1, MergedTypes
  <2>3. todo \subseteq Sessions
    BY DEF Said
  <2>4. op' = [op EXCEPT !.want = want, !.todo = todo, !.step = IF todo = {} THEN "refresh" ELSE "index"]
    BY <1>3 DEF Compose
  <2> HIDE DEF todo, want
  <2>5. op' \in Operations /\ op'.kind = op.kind /\ op'.step \in {"refresh", "index"}
        /\ op'.input = op.input /\ op'.batch = op.batch
    BY <1>0, <2>2, <2>3, <2>4 DEF Operations
  <2> QED
    BY <1>0, <1>3, <2>5 DEF Compose, Typed, Doing
<1>4. CASE ReadIndex
  <2>1. op' \in Operations /\ op'.kind = op.kind /\ op'.input = op.input /\ op'.batch = op.batch
        /\ op'.step = IF op.kind = "import" THEN "replace" ELSE "clear"
    BY <1>0, <1>4 DEF ReadIndex, Operations
  <2>2. op.kind = "import" \/ op.kind = "reset"
    BY <1>4, IdleShape DEF ReadIndex, Typed
  <2> QED
    BY <1>0, <1>4, <2>1, <2>2 DEF ReadIndex, Typed, Doing
<1>5. CASE Evict
  <2> DEFINE victim == Oldest(op.entries).session
  <2>1. shards' \in [Sessions -> Shards]
    <3>1. shards' = [shards EXCEPT ![victim] = <<>>]
      BY <1>5 DEF Evict
    <3> HIDE DEF victim
    <3> QED
      BY <1>0, <3>1, NoRows
  <2>2. Without(op.entries, victim) \in Indexes
    BY <1>0, WithoutTypes
  <2>3. op' = [op EXCEPT !.entries = Without(@, victim)]
    BY <1>5 DEF Evict
  <2> HIDE DEF victim
  <2>4. op' \in Operations /\ op'.kind = op.kind /\ op'.step = op.step /\ op'.input = op.input
        /\ op'.batch = op.batch
    BY <1>0, <2>2, <2>3 DEF Operations
  <2>5. op.kind = "import" /\ op.step = "replace"
    BY <1>5 DEF Evict, Replaced, Doing
  <2> QED
    BY <1>0, <1>5, <2>1, <2>4, <2>5 DEF Evict, Typed, Doing
<1>6. CASE SaveIndex
  <2>1. op' \in Operations /\ op'.kind = op.kind /\ op'.step = "refresh" /\ op'.input = op.input
        /\ op'.batch = op.batch /\ op.kind = "import"
    BY <1>0, <1>6 DEF SaveIndex, Replaced, Doing, Operations
  <2> QED
    BY <1>0, <1>6, <2>1 DEF SaveIndex, Typed, Doing
<1>7. CASE Refresh
  BY <1>0, <1>7, IdleShape DEF Refresh, Typed, Doing
<1>8. ASSUME NEW s \in Sessions, ReplaceSession(s) PROVE Typed'
  <2> DEFINE rows == op.want[s]
  <2> DEFINE at == IF shards[s] = rows /\ s \in Listed(op.entries) THEN EntryOf(op.entries, s).at ELSE Now
  <2> DEFINE new == IF rows = <<>> THEN Without(op.entries, s)
                    ELSE With(op.entries, [session |-> s, count |-> Len(rows), at |-> at])
  <2>1. rows \in Shards /\ Len(rows) \in Nat
    BY <1>0, LenProperties DEF Shards
  <2>2. at \in Nat
    <3>1. Now \in Nat
      <4>1. budget.ops \in 0 .. MaxOps /\ MaxOps \in Nat
        BY SampleAssumption DEF Typed
      <4> QED
        BY <4>1 DEF Now
    <3>2. s \in Listed(op.entries) => EntryOf(op.entries, s).at \in Nat
      BY <1>0, Places, EntryFields
    <3> QED
      BY <3>1, <3>2
  <2>3. shards' = [shards EXCEPT ![s] = rows] /\ op' = [op EXCEPT !.todo = @ \ {s}, !.entries = new]
    BY <1>8 DEF ReplaceSession
  <2> HIDE DEF at
  <2>4. [session |-> s, count |-> Len(rows), at |-> at] \in Entry
    BY <2>1, <2>2 DEF Entry
  <2>5. new \in Indexes
    BY <1>0, <2>4, WithoutTypes, WithTypes
  <2> HIDE DEF new, rows
  <2>6. op' \in Operations /\ op'.kind = op.kind /\ op'.step = op.step /\ op'.input = op.input
        /\ op'.batch = op.batch
    BY <1>0, <2>3, <2>5 DEF Operations
  <2>7. op.kind = "import" /\ op.step = "replace"
    BY <1>8 DEF ReplaceSession, Doing
  <2>8. shards' \in [Sessions -> Shards]
    BY <1>0, <2>1, <2>3
  <2> QED
    BY <1>0, <1>8, <2>6, <2>7, <2>8 DEF ReplaceSession, Typed, Doing
<1> QED
  BY <1>1, <1>2, <1>3, <1>4, <1>5, <1>6, <1>7, <1>8 DEF Import

LEMMA TypedReset == Typed /\ Reset => Typed'
<1> SUFFICES ASSUME Typed, Reset PROVE Typed'
  OBVIOUS
<1>0. /\ shards \in [Sessions -> Shards] /\ index \in Indexes
      /\ op \in Operations /\ op.input = Reading(op.batch) /\ op.entries \in Indexes
  BY DEF Typed, Operations
<1>1. CASE BeginReset
  <2>1. op' \in Operations /\ op'.input = Reading(op'.batch) /\ op'.kind = "reset" /\ op'.step = "index"
    BY <1>1, IdleShape DEF BeginReset, Operations
  <2>2. budget' \in [ops : 0 .. MaxOps, crashes : Int, aborts : Int]
    <3>1. budget.ops - 1 \in 0 .. MaxOps
      BY <1>1, SampleAssumption DEF BeginReset, Begin, Typed
    <3> QED
      BY <1>1, <3>1 DEF BeginReset, Begin, Typed
  <2>3. past' \in [failed : SUBSET {"import", "reset"}, crashed : BOOLEAN, crossed : BOOLEAN]
    <3>1. (past.crossed \/ \E p \in DOMAIN loader : loader[p].step # "idle") \in BOOLEAN
      OBVIOUS
    <3> QED
      BY <1>1, <3>1 DEF BeginReset, Begin, Typed
  <2> QED
    BY <1>1, <2>1, <2>2, <2>3 DEF BeginReset, Typed, Doing
<1>2. CASE DeleteShard
  <2>1. Tail(op.entries) \in Indexes /\ Head(op.entries).session \in Sessions
    BY <1>0, <1>2, TailEntries DEF DeleteShard
  <2>2. op' \in Operations /\ op'.kind = op.kind /\ op'.step = op.step /\ op'.input = op.input
        /\ op'.batch = op.batch /\ op.kind = "reset" /\ op.step = "clear"
    BY <1>0, <1>2, <2>1 DEF DeleteShard, Doing, Operations
  <2>3. shards' \in [Sessions -> Shards]
    BY <1>0, <1>2, NoRows DEF DeleteShard
  <2> QED
    BY <1>0, <1>2, <2>2, <2>3 DEF DeleteShard, Typed, Doing
<1>3. CASE SaveEmptyIndex
  <2>1. op' \in Operations /\ op'.kind = op.kind /\ op'.step = "forget" /\ op'.input = op.input
        /\ op'.batch = op.batch /\ op.kind = "reset"
    BY <1>0, <1>3 DEF SaveEmptyIndex, Doing, Operations
  <2> QED
    BY <1>0, <1>3, <2>1, NoRows DEF SaveEmptyIndex, Typed, Doing
<1>4. CASE Forget
  <2>1. NoSamples \in Copies
    BY NoRows DEF NoSamples, Copies
  <2> QED
    BY <1>0, <1>4, <2>1, IdleShape DEF Forget, Typed, Doing
<1> QED
  BY <1>1, <1>2, <1>3, <1>4 DEF Reset

LEMMA TypedLoad == \A p \in Loaders \cup {Initializer} : Typed /\ Load(p) => Typed'
<1> SUFFICES ASSUME Typed, NEW p \in Loaders \cup {Initializer}, Load(p) PROVE Typed'
  OBVIOUS
<1>0. /\ loader \in [Loaders \cup {Initializer} -> Loads] /\ loader[p] \in Loads
      /\ LoadedIndex \in Indexes /\ \A s \in Sessions : Shard(s) \in RowSets
      /\ NoSamples \in Copies
  BY StoredTypes, NoRows DEF Typed, NoSamples, Copies
<1>1. CASE CallLoad(p)
  <2>1. loader' \in [Loaders \cup {Initializer} -> Loads]
    BY <1>0, <1>1 DEF CallLoad, Loads
  <2>2. past' \in [failed : SUBSET {"import", "reset"}, crashed : BOOLEAN, crossed : BOOLEAN]
    <3>1. (past.crossed \/ ~Idle) \in BOOLEAN
      OBVIOUS
    <3> QED
      BY <1>1, <3>1 DEF CallLoad, Typed
  <2> QED
    BY <1>1, <2>1, <2>2 DEF CallLoad, Typed, Doing
<1>2. CASE LoadIndex(p)
  <2> DEFINE todo == [i \in DOMAIN LoadedIndex |-> LoadedIndex[i].session]
  <2>1. todo \in Seq(Sessions)
    <3>1. DOMAIN LoadedIndex = 1 .. Len(LoadedIndex) /\ Len(LoadedIndex) \in Nat
          /\ \A i \in 1 .. Len(LoadedIndex) : LoadedIndex[i].session \in Sessions
      BY <1>0, IndexFields
    <3> QED
      BY <3>1
  <2>2. loader' = [loader EXCEPT ![p] = [step |-> "reading", got |-> NoSamples, todo |-> todo]]
    BY <1>2 DEF LoadIndex
  <2> HIDE DEF todo
  <2>3. loader' \in [Loaders \cup {Initializer} -> Loads]
    BY <1>0, <2>1, <2>2 DEF Loads
  <2> QED
    BY <1>2, <2>3 DEF LoadIndex, Typed, Doing
<1>3. CASE LoadShard(p)
  <2>1. Tail(loader[p].todo) \in Seq(Sessions) /\ Head(loader[p].todo) \in Sessions
    BY <1>0, <1>3, Tails DEF LoadShard, Loads
  <2>2. loader' \in [Loaders \cup {Initializer} -> Loads]
    BY <1>0, <1>3, <2>1 DEF LoadShard, Loads, Copies
  <2> QED
    BY <1>3, <2>2 DEF LoadShard, Typed, Doing
<1>4. CASE EndLoad(p)
  <2>1. loader' \in [Loaders \cup {Initializer} -> Loads]
    BY <1>0, <1>4, IdleShape DEF EndLoad
  <2>2. samples' \in Copies
    BY <1>0, <1>4 DEF EndLoad, Loads
  <2> QED
    BY <1>4, <2>1, <2>2 DEF EndLoad, Typed, Doing
<1> QED
  BY <1>1, <1>2, <1>3, <1>4 DEF Load

LEMMA TypedStep == Typed /\ [Next]_vars => Typed'
<1> SUFFICES ASSUME Typed, [Next]_vars PROVE Typed'
  OBVIOUS
<1>1. CASE Analyze
  <2>1. samples' \in Copies
    BY <1>1, StoredTypes DEF Analyze, Typed
  <2> QED
    BY <1>1, <2>1 DEF Analyze, Typed, Doing
<1>2. CASE Abort
  <2>1. op.kind \in {"import", "reset"}
    BY <1>2 DEF Abort, Idle, Typed, Operations
  <2>2. past' \in [failed : SUBSET {"import", "reset"}, crashed : BOOLEAN, crossed : BOOLEAN]
    BY <1>2, <2>1 DEF Abort, Typed
  <2>3. budget' \in [ops : 0 .. MaxOps, crashes : Int, aborts : Int]
    BY <1>2 DEF Abort, Typed
  <2> QED
    BY <1>2, <2>2, <2>3, IdleShape DEF Abort, Typed, Doing
<1>3. CASE Crash
  <2>1. past' \in [failed : SUBSET {"import", "reset"}, crashed : BOOLEAN, crossed : BOOLEAN]
    BY <1>3 DEF Crash, Typed
  <2>2. budget' \in [ops : 0 .. MaxOps, crashes : Int, aborts : Int]
    BY <1>3 DEF Crash, Typed
  <2> QED
    BY <1>3, <2>1, <2>2, IdleShape DEF Crash, Typed, Doing
<1>4. CASE UNCHANGED vars
  BY <1>4 DEF vars, Typed, Doing
<1> QED
  BY <1>1, <1>2, <1>3, <1>4, TypedImport, TypedReset, TypedLoad DEF Next

(***************************************************************************)
(* Loads, operations and the copy in memory                                *)
(***************************************************************************)
\* The steps of an operation after its beginning.
Work == \/ LoadOnce \/ Compose \/ ReadIndex \/ Evict \/ SaveIndex \/ Refresh
        \/ \E s \in Sessions : ReplaceSession(s)
        \/ DeleteShard \/ SaveEmptyIndex \/ Forget

LEMMA Works == Typed /\ Work => ~Idle /\ UNCHANGED <<loader, past, budget>>
<1> SUFFICES ASSUME Typed, Work PROVE ~Idle /\ UNCHANGED <<loader, past, budget>>
  OBVIOUS
<1>1. CASE ReadIndex
  BY <1>1, IdleShape DEF ReadIndex, Typed, Idle
<1>2. CASE \E s \in Sessions : ReplaceSession(s)
  BY <1>2 DEF ReplaceSession, Idle, Doing
<1> QED
  BY <1>1, <1>2 DEF Work, LoadOnce, Compose, Evict, SaveIndex, Refresh, DeleteShard, SaveEmptyIndex,
                    Forget, Replaced, Doing, Idle

LEMMA Cases ==
    Next => \/ BeginImport \/ BeginReset \/ Work \/ Analyze \/ Abort \/ Crash
            \/ \E p \in Loaders \cup {Initializer} : Load(p)
BY DEF Next, Import, Reset, Work

LEMMA LoadSteps ==
    ASSUME Typed, NEW p \in Loaders \cup {Initializer}, Load(p)
    PROVE  /\ UNCHANGED <<shards, index, op, budget>>
           /\ past'.failed = past.failed /\ past'.crashed = past.crashed
           /\ ~past'.crossed => ~past.crossed
           /\ loader[p].step = "idle" /\ ~past'.crossed => Idle
           /\ ~EndLoad(p) => samples' = samples
           /\ EndLoad(p) => loader[p].step # "idle"
<1>1. CASE CallLoad(p)
  BY <1>1 DEF CallLoad, Typed, EndLoad
<1>2. CASE LoadIndex(p) \/ LoadShard(p) \/ EndLoad(p)
  BY <1>2 DEF LoadIndex, LoadShard, EndLoad
<1> QED
  BY <1>1, <1>2 DEF Load

LEMMA ApartStep == Typed /\ LoadsApart /\ Next => LoadsApart'
<1> SUFFICES ASSUME Typed, LoadsApart, Next PROVE LoadsApart'
  OBVIOUS
<1>1. CASE BeginImport \/ BeginReset
  BY <1>1 DEF BeginImport, BeginReset, Begin, LoadsApart, Typed
<1>2. CASE Work
  BY <1>2, Works DEF LoadsApart
<1>3. CASE Analyze
  BY <1>3 DEF Analyze, LoadsApart, Idle
<1>4. CASE Abort \/ Crash
  BY <1>4, IdleShape DEF Abort, Crash, LoadsApart, Idle
<1>5. ASSUME NEW p \in Loaders \cup {Initializer}, Load(p) PROVE LoadsApart'
  <2>1. ~past'.crossed => Idle
    BY <1>5, LoadSteps DEF LoadsApart, Typed
  <2> QED
    BY <1>5, <2>1, LoadSteps DEF LoadsApart, Idle
<1> QED
  BY <1>1, <1>2, <1>3, <1>4, <1>5, Cases

LEMMA LoadsStep == Typed /\ LoadsApart /\ LoadsTrue /\ Next => LoadsTrue'
<1> SUFFICES ASSUME Typed, LoadsApart, LoadsTrue, Next PROVE LoadsTrue'
  OBVIOUS
<1> DEFINE true(p) == loader[p].step = "reading" =>
        /\ ToSet(loader[p].todo) \subseteq Listed(LoadedIndex)
        /\ \A s \in Sessions \ ToSet(loader[p].todo) : loader[p].got[s] = Stored[s]
<1>0. LoadsTrue <=> (~past.crossed => \A p \in DOMAIN loader : true(p))
  BY DEF LoadsTrue
<1>00. LoadsTrue' <=> (~past'.crossed => \A p \in DOMAIN loader' : true(p)')
  BY DEF LoadsTrue
<1>1. CASE BeginImport \/ BeginReset
  <2>1. ~past'.crossed => \A p \in DOMAIN loader' : loader'[p].step = "idle"
    BY <1>1 DEF BeginImport, BeginReset, Begin, Typed
  <2> QED
    BY <1>00, <2>1
<1>2. CASE Work
  <2>1. ~past'.crossed => \A p \in DOMAIN loader' : loader'[p].step = "idle"
    BY <1>2, Works DEF LoadsApart
  <2> QED
    BY <1>00, <2>1
<1>3. CASE Analyze \/ Abort
  <2>1. UNCHANGED <<shards, index, loader>> /\ past'.crossed = past.crossed
    BY <1>3 DEF Analyze, Abort, Typed
  <2>2. Stored' = Stored /\ LoadedIndex' = LoadedIndex
    BY <2>1, StoredSame
  <2> QED
    BY <1>0, <1>00, <2>1, <2>2
<1>4. CASE Crash
  <2>1. \A p \in DOMAIN loader' : loader'[p].step # "reading"
    BY <1>4, IdleShape DEF Crash
  <2> QED
    BY <1>00, <2>1
<1>5. ASSUME NEW p \in Loaders \cup {Initializer}, Load(p) PROVE LoadsTrue'
  <2>1. Stored' = Stored /\ LoadedIndex' = LoadedIndex /\ (~past'.crossed => ~past.crossed)
    BY <1>5, LoadSteps, StoredSame
  <2>2. /\ loader \in [Loaders \cup {Initializer} -> Loads] /\ p \in DOMAIN loader /\ loader[p] \in Loads
        /\ LoadedIndex \in Indexes /\ Stored \in Copies
    BY StoredTypes DEF Typed
  <2>3. \A q \in DOMAIN loader : q # p => loader'[q] = loader[q]
    BY <1>5, <2>2 DEF Load, CallLoad, LoadIndex, LoadShard, EndLoad
  <2>4. DOMAIN loader' = DOMAIN loader
    BY <1>5, <2>2 DEF Load, CallLoad, LoadIndex, LoadShard, EndLoad
  <2>5. ~past'.crossed => true(p)'
    <3>1. CASE CallLoad(p)
      <4>1. loader'[p].step = "called"
        BY <2>2, <3>1 DEF CallLoad, Loads
      <4> QED
        BY <4>1
    <3>2. CASE EndLoad(p)
      <4>1. loader'[p].step = "idle"
        BY <2>2, <3>2 DEF EndLoad, IdleLoad
      <4> QED
        BY <4>1
    <3>3. CASE LoadIndex(p)
      <4> DEFINE todo == [i \in DOMAIN LoadedIndex |-> LoadedIndex[i].session]
      <4>1. loader'[p] = [step |-> "reading", got |-> NoSamples, todo |-> todo]
        BY <2>2, <3>3 DEF LoadIndex
      <4>2. ToSet(todo) = Listed(LoadedIndex)
        BY DEF ToSet, Listed
      <4>3. \A s \in Sessions \ Listed(LoadedIndex) : NoSamples[s] = Stored[s]
        BY DEF NoSamples, Stored
      <4> HIDE DEF todo
      <4>4. loader'[p].todo = todo /\ loader'[p].got = NoSamples
        BY <4>1
      <4> QED
        BY <2>1, <4>2, <4>3, <4>4
    <3>4. CASE LoadShard(p)
      <4> DEFINE t == Head(loader[p].todo)
      <4>1. /\ loader'[p].todo = Tail(loader[p].todo) /\ loader'[p].step = "reading"
            /\ loader'[p].got = [loader[p].got EXCEPT ![t] = Shard(t)]
        BY <2>2, <3>4 DEF LoadShard, Loads
      <4>2. /\ loader[p].todo \in Seq(Sessions) /\ loader[p].todo # <<>> /\ loader[p].step = "reading"
            /\ loader[p].got \in Copies
        BY <2>2, <3>4 DEF LoadShard, Loads
      <4>3. t \in Sessions /\ ToSet(loader[p].todo) = ToSet(loader'[p].todo) \cup {t}
        BY <4>1, <4>2, TailSet, Tails
      <4> HIDE DEF t
      <4>4. SUFFICES ASSUME ~past'.crossed PROVE true(p)'
        OBVIOUS
      <4>5. true(p)
        BY <1>0, <2>1, <2>2, <4>4
      <4>6. ToSet(loader'[p].todo) \subseteq Listed(LoadedIndex)
        BY <4>2, <4>3, <4>5
      <4>7. t \in Listed(LoadedIndex) /\ Stored[t] = Shard(t)
        BY <4>2, <4>3, <4>5 DEF Stored
      <4>8. ASSUME NEW s \in Sessions \ ToSet(loader'[p].todo)
            PROVE  loader'[p].got[s] = Stored[s]
        <5>1. CASE s = t
          BY <4>1, <4>2, <4>3, <4>7, <5>1 DEF Copies
        <5>2. CASE s # t
          <6>1. s \in Sessions \ ToSet(loader[p].todo)
            BY <4>3, <4>8, <5>2
          <6> QED
            BY <4>1, <4>2, <4>5, <5>2, <6>1 DEF Copies
        <5> QED
          BY <5>1, <5>2
      <4> QED
        BY <2>1, <4>6, <4>8
    <3> QED
      BY <1>5, <3>1, <3>2, <3>3, <3>4 DEF Load
  <2>6. \A q \in DOMAIN loader : q # p /\ ~past'.crossed => true(q)'
    BY <1>0, <2>1, <2>3
  <2> QED
    BY <1>00, <2>4, <2>5, <2>6
<1> QED
  BY <1>1, <1>2, <1>3, <1>4, <1>5, Cases

LEMMA GoneStep == Typed /\ Gone /\ Next => Gone'
<1> SUFFICES ASSUME Typed, Gone, Next PROVE Gone'
  OBVIOUS
<1> USE DEF Gone, Resetting
<1>1. CASE Import
  <2>1. op'.kind # "reset" \/ op'.step # "forget"
    <3>1. CASE \E s \in Sessions : ReplaceSession(s)
      BY <3>1 DEF ReplaceSession, Doing, Typed, Operations
    <3>2. CASE BeginImport
      BY <3>2, IdleShape DEF BeginImport, Operations
    <3>3. CASE LoadOnce \/ Compose \/ ReadIndex \/ Evict \/ SaveIndex
      BY <3>3 DEF LoadOnce, Compose, ReadIndex, Evict, SaveIndex, Replaced, Doing, Typed, Operations
    <3>4. CASE Refresh
      BY <3>4, IdleShape DEF Refresh
    <3> QED
      BY <1>1, <3>1, <3>2, <3>3, <3>4 DEF Import
  <2> QED
    BY <2>1
<1>2. CASE BeginReset \/ DeleteShard \/ Forget
  BY <1>2, IdleShape DEF BeginReset, DeleteShard, Forget, Doing, Typed, Operations
<1>3. CASE SaveEmptyIndex
  BY <1>3 DEF SaveEmptyIndex
<1>4. CASE Analyze
  BY <1>4 DEF Analyze
<1>5. CASE Abort \/ Crash
  BY <1>5, IdleShape DEF Abort, Crash
<1>6. ASSUME NEW p \in Loaders \cup {Initializer}, Load(p) PROVE Gone'
  BY <1>6, LoadSteps
<1> QED
  BY <1>1, <1>2, <1>3, <1>4, <1>5, <1>6 DEF Next, Reset

LEMMA CopyStep == Typed /\ LoadsApart /\ LoadsTrue /\ CopyTrue /\ Gone /\ Next => CopyTrue'
<1> SUFFICES ASSUME Typed, LoadsApart, LoadsTrue, CopyTrue, Gone, Next, ~past'.crossed,
                    "reset" \notin past'.failed
             PROVE  /\ (Idle \/ Importing({"load", "refresh"}))' => samples' \in {None, Stored'}
                    /\ Importing({"compose", "index"})' => samples' = Stored'
  BY DEF CopyTrue
<1>0. /\ op \in Operations /\ samples \in Copies \cup {None}
      /\ past \in [failed : SUBSET {"import", "reset"}, crashed : BOOLEAN, crossed : BOOLEAN]
  BY DEF Typed
<1> USE DEF Importing, Idle
<1>1. CASE BeginImport
  <2>1. op'.kind = "import" /\ op'.step = "load"
    BY <1>1, IdleShape DEF BeginImport, Operations
  <2>2. samples' = samples /\ Stored' = Stored
    BY <1>1, StoredSame DEF BeginImport
  <2>3. ~past.crossed /\ "reset" \notin past.failed /\ Idle
    BY <1>0, <1>1 DEF BeginImport, Begin
  <2> QED
    BY <2>1, <2>2, <2>3 DEF CopyTrue
<1>2. CASE BeginReset
  BY <1>2, IdleShape DEF BeginReset, Operations
<1>3. CASE Work
  <2>0. ~past.crossed /\ "reset" \notin past.failed
    BY <1>3, Works
  <2>1. CASE LoadOnce
    <3>1. op.kind = "import" /\ op.step = "load" /\ op'.kind = "import" /\ op'.step = "compose"
      BY <1>0, <2>1 DEF LoadOnce, Doing, Operations
    <3>2. Stored' = Stored /\ samples \in {None, Stored}
      BY <2>0, <2>1, <3>1, StoredSame DEF LoadOnce, CopyTrue
    <3>3. samples' = Stored
      BY <2>1, <3>2 DEF LoadOnce
    <3> QED
      BY <3>1, <3>2, <3>3
  <2>2. CASE Compose
    <3>1. op.kind = "import" /\ op.step = "compose" /\ op'.kind = "import"
      BY <1>0, <2>2 DEF Compose, Doing, Operations
    <3>2. Stored' = Stored /\ samples' = samples /\ samples = Stored
      BY <2>0, <2>2, <3>1, StoredSame DEF Compose, CopyTrue
    <3> QED
      BY <3>2
  <2>3. CASE ReadIndex \/ Evict \/ DeleteShard \/ SaveEmptyIndex \/ \E s \in Sessions : ReplaceSession(s)
    <3>1. op'.kind # "idle" /\ op'.step \notin {"load", "refresh", "compose", "index"}
      <4>1. CASE ReadIndex
        BY <1>0, <4>1, IdleShape DEF ReadIndex, Typed, Operations
      <4>2. CASE Evict \/ DeleteShard \/ SaveEmptyIndex
        BY <1>0, <4>2 DEF Evict, DeleteShard, SaveEmptyIndex, Replaced, Doing, Operations
      <4>3. CASE \E s \in Sessions : ReplaceSession(s)
        BY <1>0, <4>3 DEF ReplaceSession, Doing, Operations
      <4> QED
        BY <2>3, <4>1, <4>2, <4>3
    <3> QED
      BY <3>1
  <2>4. CASE SaveIndex
    <3>1. samples' = None /\ op'.step = "refresh"
      BY <1>0, <2>4 DEF SaveIndex, Operations
    <3> QED
      BY <3>1
  <2>5. CASE Refresh
    <3>1. samples' = Stored /\ Stored' = Stored /\ op'.kind = "idle"
      BY <2>5, StoredSame, IdleShape DEF Refresh
    <3> QED
      BY <3>1
  <2>6. CASE Forget
    <3>1. index = <<>> /\ op'.kind = "idle" /\ samples' = NoSamples /\ Stored' = Stored
      BY <2>6, StoredSame, IdleShape DEF Forget, Gone, Resetting, Doing
    <3>2. LoadedIndex = <<>>
      <4>1. /\ FirstOf(index, MaxTracked) \in Seq(Entry)
            /\ Len(FirstOf(index, MaxTracked)) \in Nat /\ Len(FirstOf(index, MaxTracked)) <= Len(index)
        BY <3>1, FirstTypes, SampleAssumption, EmptySeq
      <4>2. Len(index) = 0
        BY <3>1, EmptySeq
      <4> QED
        BY <4>1, <4>2, EmptySeq DEF LoadedIndex
    <3>3. Listed(LoadedIndex) = {}
      <4>1. <<>> \in Indexes /\ Len(<<>>) = 0
        BY NoRows, EmptySeq
      <4>2. Listed(<<>>) = {<<>>[i].session : i \in 1 .. 0}
        BY <4>1, IndexFields
      <4> QED
        BY <3>2, <4>2
    <3>4. Stored = NoSamples
      BY <3>3 DEF Stored, NoSamples
    <3> QED
      BY <3>1, <3>4
  <2> QED
    BY <1>3, <2>1, <2>2, <2>3, <2>4, <2>5, <2>6 DEF Work
<1>4. CASE Analyze
  <2>1. samples' = Stored /\ Stored' = Stored /\ op'.kind = "idle"
    BY <1>4, StoredSame DEF Analyze
  <2> QED
    BY <2>1
<1>5. CASE Abort
  <2>1. op'.kind = "idle" /\ Stored' = Stored /\ ~past.crossed /\ "reset" \notin past.failed
        /\ op.kind # "reset"
    BY <1>0, <1>5, StoredSame, IdleShape DEF Abort
  <2>2. op.kind = "import" /\ op.step \in {"load", "compose", "index", "replace", "refresh"}
    BY <1>0, <1>5, <2>1 DEF Abort, Operations, Typed
  <2>3. samples' \in {None, Stored}
    BY <1>5, <2>1, <2>2 DEF Abort, CopyTrue
  <2> QED
    BY <2>1, <2>3
<1>6. CASE Crash
  BY <1>6, IdleShape DEF Crash
<1>7. ASSUME NEW p \in Loaders \cup {Initializer}, Load(p)
      PROVE  /\ (Idle \/ Importing({"load", "refresh"}))' => samples' \in {None, Stored'}
             /\ Importing({"compose", "index"})' => samples' = Stored'
  <2>1. op' = op /\ Stored' = Stored /\ ~past.crossed /\ "reset" \notin past.failed
    BY <1>7, LoadSteps, StoredSame
  <2>2. CASE EndLoad(p)
    <3>1. Idle /\ loader[p].step = "reading" /\ loader[p].todo = <<>> /\ p \in DOMAIN loader
          /\ loader[p].got \in Copies /\ samples' = loader[p].got
      BY <2>1, <2>2 DEF LoadsApart, Typed, EndLoad, Loads
    <3>2. ToSet(loader[p].todo) = {}
      BY <3>1 DEF ToSet
    <3>3. \A s \in Sessions : loader[p].got[s] = Stored[s]
      BY <2>1, <3>1, <3>2 DEF LoadsTrue
    <3>4. Stored \in Copies
      BY StoredTypes DEF Typed
    <3>5. loader[p].got = Stored
      BY <3>1, <3>3, <3>4 DEF Copies
    <3> QED
      BY <2>1, <3>1, <3>5
  <2>3. CASE ~EndLoad(p)
    BY <1>7, <2>1, <2>3, LoadSteps DEF CopyTrue
  <2> QED
    BY <2>2, <2>3
<1> QED
  BY <1>1, <1>2, <1>3, <1>4, <1>5, <1>6, <1>7, Cases

(***************************************************************************)
(* What an import composes and what it leaves                              *)
(***************************************************************************)
\* Where a step leads. An import is at "index" only after Compose, ...
LEMMA Into ==
    ASSUME Typed, Next
    PROVE  /\ Importing({"index"})' => Compose \/ (op' = op /\ ~Idle)
           /\ Importing({"refresh"})' => Compose \/ SaveIndex \/ (op' = op /\ ~Idle /\ ~Work)
           /\ Importing({"replace"})' =>
                  \/ ReadIndex \/ Evict \/ \E s \in Sessions : ReplaceSession(s)
                  \/ op' = op /\ ~Idle /\ ~Work
<1> USE DEF Importing, Idle
<1>0. op \in Operations
  BY DEF Typed
<1>1. CASE BeginImport \/ BeginReset
  BY <1>1, IdleShape DEF BeginImport, BeginReset, Operations
<1>2. CASE Work
  <2>1. CASE LoadOnce \/ DeleteShard \/ SaveEmptyIndex
    BY <1>0, <2>1 DEF LoadOnce, DeleteShard, SaveEmptyIndex, Doing, Operations
  <2>2. CASE Refresh \/ Forget
    BY <2>2, IdleShape DEF Refresh, Forget
  <2>3. CASE SaveIndex
    BY <1>0, <2>3 DEF SaveIndex, Operations
  <2>4. CASE ReadIndex
    BY <1>0, <2>4 DEF ReadIndex, Operations
  <2>5. CASE Evict
    BY <1>0, <2>5 DEF Evict, Replaced, Doing, Operations
  <2>6. ASSUME NEW s \in Sessions, ReplaceSession(s)
        PROVE  op'.step = "replace"
    BY <1>0, <2>6 DEF ReplaceSession, Doing, Operations
  <2>7. CASE \E s \in Sessions : ReplaceSession(s)
    BY <2>6, <2>7
  <2>8. CASE Compose
    BY <1>0, <2>8 DEF Compose, Operations
  <2> QED
    BY <1>2, <2>1, <2>2, <2>3, <2>4, <2>5, <2>7, <2>8 DEF Work
<1>3. CASE ~Work /\ (Analyze \/ \E p \in Loaders \cup {Initializer} : Load(p))
  <2>1. op' = op
    BY <1>3, LoadSteps DEF Analyze
  <2> QED
    BY <1>3, <2>1
<1>4. CASE Abort \/ Crash
  BY <1>4, IdleShape DEF Abort, Crash
<1> QED
  BY <1>1, <1>2, <1>3, <1>4, Cases

\* A step beside an operation leaves the store as it is; without a crossing,
\* the copy in memory too.
LEMMA Beside ==
    ASSUME Typed, LoadsApart, Next, op' = op, ~Idle, ~Work
    PROVE  /\ UNCHANGED <<shards, index>>
           /\ ~past'.crossed => ~past.crossed /\ samples' = samples
           /\ past'.failed = past.failed /\ past'.crashed = past.crashed
<1>1. ~BeginImport /\ ~BeginReset /\ ~Analyze
  BY DEF BeginImport, BeginReset, Begin, Analyze
<1>2. ~Abort /\ ~Crash
  BY IdleShape DEF Abort, Crash, Idle
<1>3. PICK p \in Loaders \cup {Initializer} : Load(p)
  BY <1>1, <1>2, Cases
<1>4. /\ UNCHANGED <<shards, index>>
      /\ ~past'.crossed => ~past.crossed
      /\ past'.failed = past.failed /\ past'.crashed = past.crashed
  BY <1>3, LoadSteps
<1>5. ~past'.crossed => ~EndLoad(p)
  BY <1>3, <1>4, LoadSteps DEF LoadsApart, Typed
<1> QED
  BY <1>3, <1>4, <1>5, LoadSteps

LEMMA ComposedStep == Typed /\ LoadsApart /\ Composed /\ Next => Composed'
<1> SUFFICES ASSUME Typed, LoadsApart, Composed, Next, Importing({"index"})'
             PROVE  /\ op'.todo = Said(op'.input, {"full", "partial"})
                    /\ ~past'.crossed => \A s \in Sessions : op'.want[s] = Merged(op'.input[s], samples'[s])
  BY DEF Composed, Said, Merged, Dataset, Mentioned, Sorted
<1>1. CASE Compose
  <2>1. /\ op'.todo = Said(op.input, {"full", "partial"}) /\ op'.input = op.input
        /\ op'.want = [s \in Sessions |-> Merged(op.input[s], samples[s])]
        /\ samples' = samples
    BY <1>1 DEF Compose, Typed, Operations
  <2> QED
    BY <2>1
<1>2. CASE ~Compose
  <2>1. op' = op /\ ~Idle
    BY <1>2, Into
  <2>2. Importing({"index"})
    BY <2>1 DEF Importing
  <2>3. ~Work
    <3>1. op.kind = "import" /\ op.step = "index"
      BY <2>2 DEF Importing
    <3>2. CASE ReadIndex
      BY <2>1, <3>1, <3>2 DEF ReadIndex, Typed, Operations
    <3>3. CASE Work /\ ~ReadIndex
      BY <1>2, <3>1, <3>3 DEF Work, LoadOnce, Evict, SaveIndex, Refresh, ReplaceSession, DeleteShard,
                              SaveEmptyIndex, Forget, Replaced, Doing
    <3> QED
      BY <3>2, <3>3
  <2> QED
    BY <2>1, <2>2, <2>3, Beside DEF Composed
<1> QED
  BY <1>1, <1>2

\* The effect of ReplaceSession, for any list of entries.
LEMMA Replacing ==
    ASSUME Typed, NEW s \in Sessions, ReplaceSession(s)
    PROVE  /\ op.kind = "import" /\ op.step = "replace" /\ op'.kind = "import" /\ op'.step = "replace"
           /\ op'.want = op.want /\ op'.input = op.input /\ op'.todo = op.todo \ {s}
           /\ shards' = [shards EXCEPT ![s] = op.want[s]] /\ index' = index
           /\ \A t \in Sessions \ {s} :
                /\ t \in Listed(op'.entries) <=> t \in Listed(op.entries)
                /\ t \in Listed(op.entries) => EntryOf(op'.entries, t) = EntryOf(op.entries, t)
           /\ op.want[s] = <<>> => s \notin Listed(op'.entries)
           /\ op.want[s] # <<>> => /\ s \in Listed(op'.entries)
                                   /\ EntryOf(op'.entries, s).count = Len(op.want[s])
                                   /\ EntryOf(op'.entries, s).at =
                                         IF shards[s] = op.want[s] /\ s \in Listed(op.entries)
                                         THEN EntryOf(op.entries, s).at ELSE Now
<1> DEFINE rows == op.want[s]
<1> DEFINE at == IF shards[s] = rows /\ s \in Listed(op.entries) THEN EntryOf(op.entries, s).at ELSE Now
<1> DEFINE e == [session |-> s, count |-> Len(rows), at |-> at]
<1> DEFINE new == IF rows = <<>> THEN Without(op.entries, s) ELSE With(op.entries, e)
<1>0. op \in Operations /\ op.entries \in Indexes /\ rows \in Shards /\ Len(rows) \in Nat
  <2>1. op \in Operations
    BY DEF Typed
  <2>2. op.entries \in Indexes /\ rows \in Shards
    BY <2>1 DEF Operations
  <2> QED
    BY <2>1, <2>2, LenProperties DEF Shards
<1>1. /\ op.kind = "import" /\ op.step = "replace"
      /\ shards' = [shards EXCEPT ![s] = rows] /\ index' = index
      /\ op' = [op EXCEPT !.todo = @ \ {s}, !.entries = new]
  BY DEF ReplaceSession, Doing
<1>2. at \in Nat
  <2>1. Now \in Nat
    <3>1. budget.ops \in 0 .. MaxOps /\ MaxOps \in Nat
      BY SampleAssumption DEF Typed
    <3> QED
      BY <3>1 DEF Now
  <2>2. s \in Listed(op.entries) => EntryOf(op.entries, s).at \in Nat
    BY <1>0, Places, EntryFields
  <2> QED
    BY <2>1, <2>2
<1> HIDE DEF at
<1>3. e \in Entry /\ e.session = s /\ e.count = Len(rows) /\ e.at = at
  BY <1>0, <1>2 DEF Entry
<1> HIDE DEF e
<1>4. CASE rows = <<>>
  <2>1. new = Without(op.entries, s)
    BY <1>4
  <2>2. /\ Listed(new) = Listed(op.entries) \ {s}
        /\ \A t \in Listed(op.entries) \ {s} : EntryOf(new, t) = EntryOf(op.entries, t)
    BY <1>0, <2>1, WithoutTypes
  <2> HIDE DEF new
  <2>3. /\ op'.kind = "import" /\ op'.step = "replace" /\ op'.entries = new
        /\ op'.want = op.want /\ op'.input = op.input /\ op'.todo = op.todo \ {s}
    BY <1>0, <1>1 DEF Operations
  <2> QED
    BY <1>1, <1>4, <2>2, <2>3
<1>5. CASE rows # <<>>
  <2>1. new = With(op.entries, e)
    BY <1>5
  <2>2. /\ Listed(new) = Listed(op.entries) \cup {s} /\ EntryOf(new, s) = e
        /\ \A t \in Listed(op.entries) \ {s} : EntryOf(new, t) = EntryOf(op.entries, t)
    BY <1>0, <1>3, <2>1, WithTypes
  <2> HIDE DEF new
  <2>3. /\ op'.kind = "import" /\ op'.step = "replace" /\ op'.entries = new
        /\ op'.want = op.want /\ op'.input = op.input /\ op'.todo = op.todo \ {s}
    BY <1>0, <1>1 DEF Operations
  <2> QED
    BY <1>1, <1>3, <1>5, <2>2, <2>3 DEF at
<1> QED
  BY <1>4, <1>5

\* The effect of Evict, whichever session goes.
LEMMA Evicting ==
    ASSUME Typed, Evict
    PROVE  /\ op.kind = "import" /\ op.step = "replace" /\ op'.kind = "import" /\ op'.step = "replace"
           /\ op'.want = op.want /\ op'.input = op.input /\ op'.todo = op.todo /\ index' = index
           /\ \E victim :
                /\ \A t \in Sessions : shards'[t] = IF t = victim THEN <<>> ELSE shards[t]
                /\ Listed(op'.entries) = Listed(op.entries) \ {victim}
                /\ \A t \in Listed(op.entries) \ {victim} :
                        EntryOf(op'.entries, t) = EntryOf(op.entries, t)
<1> DEFINE victim == Oldest(op.entries).session
<1>0. op \in Operations /\ op.entries \in Indexes /\ shards \in [Sessions -> Shards]
  <2>1. op \in Operations
    BY DEF Typed
  <2> QED
    BY <2>1 DEF Operations, Typed
<1>1. /\ op.kind = "import" /\ op.step = "replace" /\ index' = index
      /\ shards' = [shards EXCEPT ![victim] = <<>>]
      /\ op' = [op EXCEPT !.entries = Without(@, victim)]
  BY DEF Evict, Replaced, Doing
<1>2. /\ Listed(Without(op.entries, victim)) = Listed(op.entries) \ {victim}
      /\ \A t \in Listed(op.entries) \ {victim} :
            EntryOf(Without(op.entries, victim), t) = EntryOf(op.entries, t)
  BY <1>0, WithoutTypes
<1> HIDE DEF victim
<1>3. /\ op'.kind = "import" /\ op'.step = "replace" /\ op'.entries = Without(op.entries, victim)
      /\ op'.want = op.want /\ op'.input = op.input /\ op'.todo = op.todo
  BY <1>0, <1>1 DEF Operations
<1>4. \A t \in Sessions : shards'[t] = IF t = victim THEN <<>> ELSE shards[t]
  BY <1>0, <1>1
<1> QED
  BY <1>1, <1>2, <1>3, <1>4

LEMMA SettlingStep == Typed /\ LoadsApart /\ Composed /\ Settling /\ Next => Settling'
<1> SUFFICES ASSUME Typed, LoadsApart, Composed, Settling, Next
             PROVE  /\ Importing({"replace"})' =>
                        \A s \in Said(op'.input, {"full", "partial"}) \ op'.todo : Settled(op.entries, s)'
                    /\ Importing({"refresh"})' =>
                        \A s \in Said(op'.input, {"full", "partial"}) : Settled(index, s)'
  BY DEF Settling, Said
<1>0. op \in Operations /\ shards \in [Sessions -> Shards] /\ op.want \in [Sessions -> Shards]
  <2>1. op \in Operations
    BY DEF Typed
  <2> QED
    BY <2>1 DEF Operations, Typed
<1>1. ASSUME Importing({"replace"})', NEW s \in Sessions, s \in Said(op'.input, {"full", "partial"}),
             s \notin op'.todo
      PROVE  Settled(op.entries, s)'
  <2>1. CASE ReadIndex
    <3>1. op.kind = "import" /\ op.step = "index" /\ op'.input = op.input /\ op'.todo = op.todo
      BY <1>0, <1>1, <2>1 DEF ReadIndex, Importing, Operations
    <3> QED
      BY <1>1, <3>1 DEF Composed, Importing
  <2>2. CASE Evict
    <3>1. Settled(op.entries, s)
      BY <1>1, <2>2, Evicting DEF Settling, Importing
    <3>2. PICK victim :
            /\ shards'[s] = IF s = victim THEN <<>> ELSE shards[s]
            /\ Listed(op'.entries) = Listed(op.entries) \ {victim}
            /\ s \in Listed(op.entries) /\ s # victim => EntryOf(op'.entries, s) = EntryOf(op.entries, s)
            /\ op'.want = op.want
      BY <2>2, Evicting
    <3> QED
      BY <3>1, <3>2 DEF Settled
  <2>3. ASSUME NEW t \in Sessions, ReplaceSession(t) PROVE Settled(op.entries, s)'
    <3>0. /\ op.kind = "import" /\ op.step = "replace"
          /\ op'.want = op.want /\ op'.input = op.input /\ op'.todo = op.todo \ {t}
          /\ shards' = [shards EXCEPT ![t] = op.want[t]]
      BY <2>3, Replacing
    <3>1. CASE s = t
      <4>1. shards'[s] = op.want[s]
        BY <1>0, <3>0, <3>1
      <4>2. /\ op.want[s] = <<>> => s \notin Listed(op'.entries)
            /\ op.want[s] # <<>> => /\ s \in Listed(op'.entries)
                                    /\ EntryOf(op'.entries, s).count = Len(op.want[s])
        BY <2>3, <3>1, Replacing
      <4> QED
        BY <3>0, <4>1, <4>2 DEF Settled
    <3>2. CASE s # t
      <4>1. Settled(op.entries, s)
        BY <1>1, <3>0, <3>2 DEF Settling, Importing
      <4>2. shards'[s] = shards[s]
        BY <1>0, <3>0, <3>2
      <4>3. /\ s \in Listed(op'.entries) <=> s \in Listed(op.entries)
            /\ s \in Listed(op.entries) => EntryOf(op'.entries, s) = EntryOf(op.entries, s)
        BY <2>3, <3>2, Replacing
      <4> QED
        BY <3>0, <4>1, <4>2, <4>3 DEF Settled
    <3> QED
      BY <3>1, <3>2
  <2>4. CASE op' = op /\ ~Idle /\ ~Work
    <3>1. Settled(op.entries, s) /\ shards' = shards
      BY <1>1, <2>4, Beside DEF Settling, Importing
    <3> QED
      BY <2>4, <3>1 DEF Settled
  <2> QED
    BY <1>1, <2>1, <2>2, <2>3, <2>4, Into
<1>2. ASSUME Importing({"refresh"})', NEW s \in Sessions, s \in Said(op'.input, {"full", "partial"})
      PROVE  Settled(index, s)'
  <2>1. CASE Compose
    <3>1. op'.input = op.input /\ op'.step = IF Said(op.input, {"full", "partial"}) = {} THEN "refresh" ELSE "index"
      BY <1>0, <2>1 DEF Compose, Operations
    <3> QED
      BY <1>2, <3>1 DEF Importing
  <2>2. CASE SaveIndex
    <3>1. /\ op.kind = "import" /\ op.step = "replace" /\ op.todo = {}
          /\ op'.want = op.want /\ op'.input = op.input /\ index' = op.entries /\ shards' = shards
      BY <1>0, <2>2 DEF SaveIndex, Replaced, Doing, Operations
    <3>2. Settled(op.entries, s)
      BY <1>2, <3>1 DEF Settling, Importing
    <3> QED
      BY <3>1, <3>2 DEF Settled
  <2>3. CASE op' = op /\ ~Idle /\ ~Work
    <3>1. Settled(index, s) /\ shards' = shards /\ index' = index
      BY <1>2, <2>3, Beside DEF Settling, Importing
    <3> QED
      BY <2>3, <3>1 DEF Settled
  <2> QED
    BY <1>2, <2>1, <2>2, <2>3, Into
<1> QED
  BY <1>1, <1>2 DEF Said

(***************************************************************************)
(* The index and the shards                                                *)
(***************************************************************************)
\* With few sessions no index is longer than what _load_index reads of it.
LEMMA WholeIndex ==
    ASSUME FewSessions, index \in Indexes
    PROVE  /\ Listed(LoadedIndex) = Listed(index)
           /\ \A s \in Listed(index) : EntryOf(LoadedIndex, s) = EntryOf(index, s)
<1> DEFINE place == [i \in 1 .. Len(index) |-> index[i].session]
<1>0. MaxTracked \in Nat
  BY SampleAssumption
<1>1. /\ index \in Seq(Entry) /\ Len(index) \in Nat
      /\ \A i \in 1 .. Len(index) : index[i] \in Entry /\ index[i].session \in Sessions
      /\ \A i, j \in 1 .. Len(index) : index[i].session = index[j].session => i = j
  BY IndexFields
<1>2. Len(index) <= MaxTracked
  <2>1. place \in Injection(1 .. Len(index), Sessions)
    BY <1>1 DEF Injection, IsInjective
  <2> HIDE DEF place
  <2> DEFINE n == Len(index)
  <2>5. n \in Nat
    BY <1>1
  <2> HIDE DEF n
  <2>6. Cardinality(1 .. n) = n
    BY <2>5, FS_Interval
  <2>2. Cardinality(1 .. Len(index)) = Len(index) /\ IsFiniteSet(Sessions)
        /\ Cardinality(Sessions) <= MaxTracked
    BY <2>6 DEF FewSessions, n
  <2>3. Cardinality(1 .. Len(index)) <= Cardinality(Sessions)
    BY <2>1, <2>2, FS_Injection
  <2>4. Cardinality(Sessions) \in Nat
    BY <2>2, FS_CardinalityType
  <2> QED
    BY <1>0, <1>1, <2>2, <2>3, <2>4
<1>3. /\ LoadedIndex \in Indexes /\ Len(LoadedIndex) = Len(index)
      /\ \A i \in 1 .. Len(index) : LoadedIndex[i] = index[i]
  <2>1. /\ Len(FirstOf(index, MaxTracked)) = Len(index)
        /\ \A i \in 1 .. Len(FirstOf(index, MaxTracked)) : FirstOf(index, MaxTracked)[i] = index[i]
    BY <1>0, <1>1, <1>2, FirstTypes
  <2> QED
    BY <1>0, <2>1, FirstEntries DEF LoadedIndex
<1>4. /\ Listed(LoadedIndex) = {LoadedIndex[i].session : i \in 1 .. Len(index)}
      /\ Listed(index) = {index[i].session : i \in 1 .. Len(index)}
  BY <1>3, IndexFields
<1>5. Listed(LoadedIndex) = Listed(index)
  BY <1>3, <1>4
<1>6. \A i \in 1 .. Len(index) : EntryOf(LoadedIndex, index[i].session) = EntryOf(index, index[i].session)
  BY <1>3, EntryAt
<1> QED
  BY <1>4, <1>5, <1>6

LEMMA MatchingStep == Typed /\ LoadsApart /\ Gone /\ Matching /\ Next => Matching'
<1> SUFFICES ASSUME Typed, LoadsApart, Gone, Matching, Next, FewSessions, past'.failed = {}, ~past'.crashed,
                    NEW s \in Sessions
             PROVE  /\ (\/ Idle
                        \/ Importing({"load", "compose", "index", "refresh"})
                        \/ Resetting({"index", "forget"}))' => MatchedBy(index, s)'
                    /\ Importing({"replace"})' => MatchedBy(op.entries, s)'
                    /\ Resetting({"clear"})' /\ s \notin Listed(op'.entries) => shards'[s] = <<>>
  BY DEF Matching, FewSessions, Undisturbed, Listed
<1> DEFINE matched ==
        /\ (\/ Idle
            \/ Importing({"load", "compose", "index", "refresh"})
            \/ Resetting({"index", "forget"})) => MatchedBy(index, s)
        /\ Importing({"replace"}) => MatchedBy(op.entries, s)
        /\ Resetting({"clear"}) /\ s \notin Listed(op.entries) => shards[s] = <<>>
<1>0. /\ op \in Operations /\ shards \in [Sessions -> Shards] /\ index \in Indexes
      /\ op.entries \in Indexes /\ op.want \in [Sessions -> Shards]
  <2>1. op \in Operations
    BY DEF Typed
  <2> QED
    BY <2>1 DEF Operations, Typed
<1>00. past.failed = {} /\ ~past.crashed => matched
  BY DEF Matching, Undisturbed
<1> USE DEF Importing, Resetting, Idle
<1>1. CASE BeginImport \/ BeginReset
  <2>1. /\ op.kind = "idle" /\ op'.kind \in {"import", "reset"} /\ op'.step \in {"load", "index"}
        /\ UNCHANGED <<shards, index>>
    BY <1>1, IdleShape DEF BeginImport, BeginReset, Begin, Operations
  <2>2. past.failed = {} /\ ~past.crashed
    BY <1>1 DEF BeginImport, BeginReset, Begin, Typed
  <2> QED
    BY <1>00, <2>1, <2>2 DEF MatchedBy
<1>2. CASE Work
  <2>0. matched
    BY <1>00, <1>2, Works
  <2> HIDE DEF matched
  <2>1. CASE LoadOnce \/ Compose
    <3>1. /\ op.kind = "import" /\ op.step \in {"load", "compose"}
          /\ op'.kind = "import" /\ op'.step \in {"compose", "index", "refresh"}
          /\ UNCHANGED <<shards, index>>
      BY <1>0, <2>1 DEF LoadOnce, Compose, Doing, Operations
    <3> QED
      BY <2>0, <3>1 DEF matched, MatchedBy
  <2>2. CASE ReadIndex
    <3>1. /\ op.step = "index" /\ op'.kind = op.kind /\ UNCHANGED <<shards, index>>
          /\ op'.entries = LoadedIndex
          /\ op'.step = IF op.kind = "import" THEN "replace" ELSE "clear"
      BY <1>0, <2>2 DEF ReadIndex, Operations
    <3>2. op.kind \in {"import", "reset"}
      BY <3>1, IdleShape DEF Typed
    <3>3. MatchedBy(index, s)
      BY <2>0, <3>1, <3>2 DEF matched
    <3>4. /\ s \in Listed(LoadedIndex) <=> s \in Listed(index)
          /\ s \in Listed(index) => EntryOf(LoadedIndex, s) = EntryOf(index, s)
      BY <1>0, WholeIndex
    <3> QED
      BY <3>1, <3>3, <3>4 DEF MatchedBy
  <2>3. CASE Evict
    <3>1. PICK victim :
            /\ shards'[s] = IF s = victim THEN <<>> ELSE shards[s]
            /\ Listed(op'.entries) = Listed(op.entries) \ {victim}
            /\ s \in Listed(op.entries) /\ s # victim => EntryOf(op'.entries, s) = EntryOf(op.entries, s)
      BY <2>3, Evicting
    <3>2. op.kind = "import" /\ op.step = "replace" /\ op'.kind = "import" /\ op'.step = "replace"
      BY <2>3, Evicting
    <3>3. MatchedBy(op.entries, s)
      BY <2>0, <3>2 DEF matched
    <3> QED
      BY <3>1, <3>2, <3>3 DEF MatchedBy
  <2>4. CASE SaveIndex
    <3>1. /\ op.kind = "import" /\ op.step = "replace" /\ op'.kind = "import" /\ op'.step = "refresh"
          /\ index' = op.entries /\ shards' = shards
      BY <1>0, <2>4 DEF SaveIndex, Replaced, Doing, Operations
    <3> QED
      BY <2>0, <3>1 DEF matched, MatchedBy
  <2>5. CASE Refresh
    <3>1. /\ op.kind = "import" /\ op.step = "refresh" /\ op'.kind = "idle"
          /\ UNCHANGED <<shards, index>>
      BY <2>5, IdleShape DEF Refresh, Doing
    <3> QED
      BY <2>0, <3>1 DEF matched, MatchedBy
  <2>6. ASSUME NEW t \in Sessions, ReplaceSession(t)
        PROVE  matched'
    <3>0. /\ op.kind = "import" /\ op.step = "replace" /\ op'.kind = "import" /\ op'.step = "replace"
          /\ shards' = [shards EXCEPT ![t] = op.want[t]]
      BY <2>6, Replacing
    <3>1. MatchedBy(op.entries, s)
      BY <2>0, <3>0 DEF matched
    <3>2. MatchedBy(op.entries, s)'
      <4>1. CASE s = t
        <5>1. shards'[s] = op.want[s]
          BY <1>0, <3>0, <4>1
        <5>2. /\ op.want[s] = <<>> => s \notin Listed(op'.entries)
              /\ op.want[s] # <<>> => /\ s \in Listed(op'.entries)
                                      /\ EntryOf(op'.entries, s).count = Len(op.want[s])
          BY <2>6, <4>1, Replacing
        <5> QED
          BY <5>1, <5>2 DEF MatchedBy
      <4>2. CASE s # t
        <5>1. shards'[s] = shards[s]
          BY <1>0, <3>0, <4>2
        <5>2. /\ s \in Listed(op'.entries) <=> s \in Listed(op.entries)
              /\ s \in Listed(op.entries) => EntryOf(op'.entries, s) = EntryOf(op.entries, s)
          BY <2>6, <4>2, Replacing
        <5> QED
          BY <3>1, <5>1, <5>2 DEF MatchedBy
      <4> QED
        BY <4>1, <4>2
    <3> QED
      BY <3>0, <3>2 DEF matched
  <2>7. CASE DeleteShard
    <3>1. /\ op.kind = "reset" /\ op.step = "clear" /\ op'.kind = "reset" /\ op'.step = "clear"
          /\ op.entries # <<>> /\ op'.entries = Tail(op.entries)
          /\ shards' = [shards EXCEPT ![Head(op.entries).session] = <<>>]
      BY <1>0, <2>7 DEF DeleteShard, Doing, Operations
    <3>2. Listed(op.entries) = Listed(Tail(op.entries)) \cup {Head(op.entries).session}
      BY <1>0, <3>1, TailEntries
    <3>3. s \notin Listed(op.entries) => shards[s] = <<>>
      BY <2>0, <3>1 DEF matched
    <3>4. shards'[s] = IF s = Head(op.entries).session THEN <<>> ELSE shards[s]
      BY <1>0, <3>1
    <3> QED
      BY <3>1, <3>2, <3>3, <3>4
  <2>8. CASE SaveEmptyIndex
    <3>1. /\ op.kind = "reset" /\ op.step = "clear" /\ op'.kind = "reset" /\ op'.step = "forget"
          /\ op.entries = <<>> /\ index' = <<>> /\ shards' = shards
      BY <1>0, <2>8 DEF SaveEmptyIndex, Doing, Operations
    <3>2. Listed(<<>>) = {}
      <4>1. <<>> \in Indexes /\ Len(<<>>) = 0
        BY NoRows, EmptySeq
      <4>2. Listed(<<>>) = {<<>>[i].session : i \in 1 .. 0}
        BY <4>1, IndexFields
      <4> QED
        BY <4>2
    <3>3. shards[s] = <<>>
      BY <2>0, <3>1, <3>2 DEF matched
    <3> QED
      BY <3>1, <3>2, <3>3 DEF MatchedBy
  <2>9. CASE Forget
    <3>1. /\ op.kind = "reset" /\ op.step = "forget" /\ op'.kind = "idle"
          /\ UNCHANGED <<shards, index>>
      BY <2>9, IdleShape DEF Forget, Doing
    <3> QED
      BY <2>0, <3>1 DEF matched, MatchedBy
  <2>10. CASE \E t \in Sessions : ReplaceSession(t)
    BY <2>6, <2>10 DEF matched
  <2> QED
    BY <1>2, <2>1, <2>2, <2>3, <2>4, <2>5, <2>7, <2>8, <2>9, <2>10 DEF Work
<1>3. CASE Analyze \/ \E p \in Loaders \cup {Initializer} : Load(p)
  <2>1. UNCHANGED <<shards, index, op>> /\ past'.failed = past.failed /\ past'.crashed = past.crashed
    BY <1>3, LoadSteps DEF Analyze
  <2> QED
    BY <1>00, <2>1 DEF MatchedBy
<1>4. CASE Abort
  <2>1. past'.failed = past.failed \cup {op.kind}
    BY <1>4 DEF Abort, Typed
  <2> QED
    BY <2>1
<1>5. CASE Crash
  <2>1. past'.crashed
    BY <1>5 DEF Crash, Typed
  <2> QED
    BY <2>1
<1> QED
  BY <1>1, <1>2, <1>3, <1>4, <1>5, Cases

(***************************************************************************)
(* The theorems                                                            *)
(***************************************************************************)
LEMMA StoreInit == Init => Typed /\ StoreInv
<1> SUFFICES ASSUME Init PROVE Typed /\ StoreInv
  OBVIOUS
<1> USE DEF Importing, Resetting
<1>1. op.kind = "idle" /\ samples = None
  BY IdleShape DEF Init
<1>2. \A p \in DOMAIN loader : loader[p].step # "reading"
  BY IdleShape DEF Init
<1>3. LoadsApart /\ LoadsTrue /\ CopyTrue /\ Gone /\ Composed /\ Settling
  BY <1>1, <1>2 DEF LoadsApart, LoadsTrue, CopyTrue, Gone, Composed, Settling, Idle
<1>4. Listed(index) = {}
  <2>1. <<>> \in Indexes /\ Len(<<>>) = 0
    BY NoRows, EmptySeq
  <2>2. Listed(<<>>) = {<<>>[i].session : i \in 1 .. 0}
    BY <2>1, IndexFields
  <2> QED
    BY <2>2 DEF Init
<1>5. Matching
  BY <1>1, <1>4 DEF Matching, MatchedBy, Init
<1> QED
  BY <1>3, <1>5, TypedInit DEF StoreInv

LEMMA StoreStep == Typed /\ StoreInv /\ [Next]_vars => Typed' /\ StoreInv'
<1> SUFFICES ASSUME Typed, StoreInv, [Next]_vars PROVE Typed' /\ StoreInv'
  OBVIOUS
<1>0. Typed'
  BY TypedStep
<1>1. CASE Next
  BY <1>0, <1>1, ApartStep, LoadsStep, CopyStep, GoneStep, ComposedStep, SettlingStep, MatchingStep
     DEF StoreInv
<1>2. CASE UNCHANGED vars
  <2>1. UNCHANGED <<shards, index, samples, op, loader, past>> /\ Stored' = Stored /\ LoadedIndex' = LoadedIndex
    BY <1>2, StoredSame DEF vars
  <2>2. LoadsApart' /\ LoadsTrue' /\ CopyTrue' /\ Gone'
    BY <2>1 DEF StoreInv, LoadsApart, LoadsTrue, CopyTrue, Gone, Idle, Importing, Resetting
  <2>3. Composed' /\ Settling'
    <3>1. \A entries, s : Settled(entries, s)' <=> Settled(entries, s)
      BY <2>1 DEF Settled
    <3> QED
      BY <2>1 DEF StoreInv, Composed, Settling, Settled, Importing
  <2>4. Matching'
    BY <2>1 DEF StoreInv, Matching, MatchedBy, Undisturbed, Idle, Importing, Resetting
  <2> QED
    BY <1>0, <2>2, <2>3, <2>4 DEF StoreInv
<1> QED
  BY <1>1, <1>2

THEOREM StoreInvariant == Spec => [](Typed /\ StoreInv)
BY StoreInit, StoreStep, PTL DEF Spec

\* The stored rows of a session are one per message, the index has one entry
\* per session, and an operation works on what it made of its batch.
THEOREM SampleTypes == Spec => []TypeOK
<1>1. Typed => TypeOK
  <2> SUFFICES ASSUME Typed PROVE TypeOK
    OBVIOUS
  <2>1. \A s \in Sessions : /\ shards[s] \in Seq(Row)
                            /\ IsInjective([i \in DOMAIN shards[s] |-> shards[s][i].id])
    <3> SUFFICES ASSUME NEW s \in Sessions
                 PROVE  /\ shards[s] \in Seq(Row)
                        /\ IsInjective([i \in DOMAIN shards[s] |-> shards[s][i].id])
      OBVIOUS
    <3>1. shards[s] \in Shards
      BY DEF Typed
    <3>2. DOMAIN shards[s] = 1 .. Len(shards[s])
      BY <3>1, LenProperties DEF Shards
    <3> QED
      BY <3>1, <3>2 DEF Shards, IsInjective
  <2>2. index \in Seq(Entry) /\ IsInjective([i \in DOMAIN index |-> index[i].session])
    <3>1. index \in Indexes
      BY DEF Typed
    <3> QED
      BY <3>1, IndexFields DEF IsInjective
  <2>3. op \in Operations /\ op.entries \in Seq(Entry)
    BY DEF Typed, Operations, Indexes
  <2>4. samples \in [Sessions -> SUBSET Row] \cup {None}
    BY DEF Typed, Copies, RowSets
  <2> QED
    BY <2>1, <2>2, <2>3, <2>4 DEF TypeOK, Typed, Operations, Loads
<1> QED
  BY <1>1, StoreInvariant, PTL

\* Whatever happened before it, an import whose index is saved leaves every
\* session it named as it composed it, with an entry of that size, or evicted.
THEOREM ImportsSettle == Spec => []ImportSettles
<1>1. StoreInv => ImportSettles
  BY DEF StoreInv, Settling, Importing, Settled, ImportSettles, Doing
<1> QED
  BY <1>1, StoreInvariant, PTL

\* As long as the index may list every session, what is stored and what is
\* listed agree between operations; _load_index drops entries otherwise.
THEOREM IndexAndShards == FewSessions => (Spec => []IndexMatches)
<1> SUFFICES ASSUME FewSessions PROVE Spec => []IndexMatches
  OBVIOUS
<1>1. StoreInv => IndexMatches
  BY DEF StoreInv, Matching, MatchedBy, IndexMatches
<1> QED
  BY <1>1, StoreInvariant, PTL

\* A message is mentioned in the annotations of a session exactly if a part of
\* the batch says something of it.
LEMMA Mentions ==
    ASSUME NEW batch \in Exports, NEW s \in Sessions
    PROVE  Mentioned(Annotations(batch, s))
                = UNION {Mentioned(p.notes) : p \in {q \in batch : q.session = s}}
<1> DEFINE said(m) == {p.notes[m] : p \in {q \in batch : q.session = s}}
<1>1. \A p \in batch : p.notes \in [MsgIds -> Note]
  BY SampleAssumption DEF Part
<1>2. ASSUME NEW m \in MsgIds
      PROVE  Annotations(batch, s)[m] # "unmentioned" <=> \E x \in said(m) : x # "unmentioned"
  <2>1. Annotations(batch, s)[m] =
            CASE said(m) \cap Revisions # {} -> CHOOSE rev \in said(m) : rev \in Revisions
              [] said(m) \cap Revisions = {} /\ "unlabelled" \in said(m) -> "unlabelled"
              [] OTHER -> "unmentioned"
    BY DEF Annotations
  <2>2. said(m) \subseteq Note
    BY <1>1
  <2> HIDE DEF said
  <2>3. CASE said(m) \cap Revisions # {}
    <3>1. Annotations(batch, s)[m] \in Revisions
      BY <2>1, <2>3
    <3>2. "unmentioned" \notin Revisions
      BY SampleAssumption
    <3> QED
      BY <2>3, <3>1, <3>2
  <2>4. CASE said(m) \cap Revisions = {} /\ "unlabelled" \in said(m)
    BY <2>1, <2>4
  <2>5. CASE said(m) \cap Revisions = {} /\ "unlabelled" \notin said(m)
    <3>1. \A x \in said(m) : x = "unmentioned"
      BY <2>2, <2>5 DEF Note
    <3> QED
      BY <2>1, <2>5, <3>1
  <2> QED
    BY <2>3, <2>4, <2>5
<1>3. \A m : m \in Mentioned(Annotations(batch, s)) <=> m \in MsgIds /\ \E x \in said(m) : x # "unmentioned"
  BY <1>2 DEF Mentioned
<1>4. \A m : m \in UNION {Mentioned(p.notes) : p \in {q \in batch : q.session = s}}
                <=> m \in MsgIds /\ \E x \in said(m) : x # "unmentioned"
  BY DEF Mentioned
<1> QED
  BY <1>3, <1>4

\* As long as no unlocked load ran beside an operation and no reset failed, an
\* import replaces a session only by a complete list of it; of any other session
\* the rows no part mentions stay as stored, over crashes and failed imports.
THEOREM MergesKeepTheRest == Spec => []UncrossedMerges
<1>1. Typed /\ StoreInv => UncrossedMerges
  <2> SUFFICES ASSUME Typed, StoreInv, ~past.crossed, "reset" \notin past.failed,
                      Doing("import", "index"), NEW s \in op.todo,
                      ~ \E p \in op.batch : p.session = s /\ p.form = "list" /\ ~p.damaged
               PROVE  LET named == UNION {Mentioned(p.notes) : p \in {q \in op.batch : q.session = s}}
                          others(rows) == {row \in rows : row.id \notin named}
                      IN  others(ToSet(op.want[s])) = others(Stored[s])
    BY DEF UncrossedMerges, MergesWithStored
  <2> DEFINE named == UNION {Mentioned(p.notes) : p \in {q \in op.batch : q.session = s}}
  <2>1. /\ op.todo = Said(op.input, {"full", "partial"}) /\ samples = Stored
        /\ \A t \in Sessions : op.want[t] = Merged(op.input[t], samples[t])
    BY DEF StoreInv, Composed, CopyTrue, Importing, Doing
  <2>2. s \in Sessions /\ op.input[s].kind \in {"full", "partial"} /\ op.input = Reading(op.batch)
    BY <2>1 DEF Said, Typed
  <2>3. s \notin Confirmed(op.batch)
    BY DEF Confirmed
  <2>4. op.input[s].kind = "partial" /\ op.input[s].notes = Annotations(op.batch, s)
    BY <2>2, <2>3, ReadingKinds
  <2>5. op.batch \in Exports
    <3>1. op.batch \in Exports \cup {{}}
      BY DEF Typed, Operations
    <3>2. op.batch = {} => s \notin Bare(op.batch)
      BY DEF Bare
    <3>3. s \in Bare(op.batch)
      BY <2>2, <2>3, <2>4 DEF Reading
    <3> QED
      BY <3>1, <3>2, <3>3
  <2>6. Stored[s] \in RowSets
    BY <2>2, StoredTypes DEF Typed, Copies
  <2>7. ToSet(op.want[s]) =
            {row \in Stored[s] : row.id \notin Mentioned(op.input[s].notes)} \cup Dataset(op.input[s].notes)
    BY <2>1, <2>2, <2>4, <2>6, MergedTypes
  <2>8. Mentioned(op.input[s].notes) = named
    BY <2>2, <2>4, <2>5, Mentions
  <2>9. \A row \in Dataset(op.input[s].notes) : row.id \in named
    BY <2>8, DatasetTypes
  <2> HIDE DEF named
  <2>10. {row \in ToSet(op.want[s]) : row.id \notin named} = {row \in Stored[s] : row.id \notin named}
    BY <2>7, <2>8, <2>9
  <2> QED
    BY <2>10 DEF named
<1> QED
  BY <1>1, StoreInvariant, PTL


(***************************************************************************)
(* How much is held                                                        *)
(***************************************************************************)
HeldIn(stored) == SumFunction([s \in Sessions |-> Len(stored[s])])

\* Entries are dated no later than now, and while an import runs only those
\* it has replaced are dated now.
Dated ==
    FewSessions =>
        /\ \A s \in Listed(index) :
              /\ EntryOf(index, s).at <= Now
              /\ Importing({"load", "compose", "index", "replace"}) => EntryOf(index, s).at < Now
        /\ Importing({"replace"}) => \A s \in Listed(op.entries) :
              /\ EntryOf(op.entries, s).at <= Now
              /\ s \in op.todo \/ s \notin Said(op.input, {"full", "partial"})
                    => EntryOf(op.entries, s).at < Now

\* Beyond the cap only an import that has not saved its index.
Capped == FewSessions /\ Undisturbed /\ ~Importing({"replace"}) => HeldIn(shards) <= MaxSamples

\* An import of one session that fits: while more is held than the cap, its
\* entry is the only recent one.
Sole(s) == Said(op.input, {"full", "partial"}) = {s} /\ Len(op.want[s]) <= MaxSamples
Recent(s) == /\ s \in Listed(op.entries) => EntryOf(op.entries, s).at = Now
             /\ \A t \in Listed(op.entries) \ {s} : EntryOf(op.entries, t).at < Now
Newcomer ==
    FewSessions /\ Undisturbed => \A s \in Sessions : Sole(s) =>
        /\ Importing({"replace"}) =>
              IF s \in op.todo THEN HeldIn(shards) <= MaxSamples
              ELSE shards[s] = op.want[s] /\ (HeldIn(shards) <= MaxSamples \/ Recent(s))
        /\ Importing({"refresh"}) => shards[s] = op.want[s]

\* An import has still to do only what it was told.
ToDo == Importing({"index", "replace"}) => op.todo \subseteq Said(op.input, {"full", "partial"})

CapInv == Dated /\ Capped /\ Newcomer /\ ToDo

\* What is held is the sum of the lengths of the shards.
LEMMA HeldSizes ==
    ASSUME FewSessions, NEW stored \in [Sessions -> Shards]
    PROVE  LET sizes == [s \in Sessions |-> Len(stored[s])]
           IN  /\ HeldIn(stored) = SumFunctionOnSet(sizes, Sessions)
               /\ \A s \in Sessions : sizes[s] = Len(stored[s]) /\ sizes[s] \in Nat
<1> DEFINE sizes == [s \in Sessions |-> Len(stored[s])]
<1>1. \A s \in Sessions : Len(stored[s]) \in Nat
  BY LenProperties DEF Shards
<1>2. HeldIn(stored) = SumFunctionOnSet(sizes, Sessions)
  BY DEF HeldIn, SumFunction
<1> QED
  BY <1>1, <1>2

\* What shrinks a shard or leaves it alone leaves no more.
LEMMA HeldFalls ==
    ASSUME FewSessions, NEW old \in [Sessions -> Shards], NEW new \in [Sessions -> Shards],
           \A s \in Sessions : new[s] = old[s] \/ new[s] = <<>>
    PROVE  HeldIn(new) <= HeldIn(old) /\ HeldIn(new) \in Nat /\ HeldIn(old) \in Nat
<1> DEFINE v == [s \in Sessions |-> Len(new[s])]
           w == [s \in Sessions |-> Len(old[s])]
<1>1. /\ HeldIn(new) = SumFunctionOnSet(v, Sessions) /\ HeldIn(old) = SumFunctionOnSet(w, Sessions)
      /\ \A s \in Sessions : v[s] \in Nat /\ w[s] \in Nat
  BY HeldSizes
<1>2. \A s \in Sessions : v[s] <= w[s]
  <2> SUFFICES ASSUME NEW s \in Sessions PROVE v[s] <= w[s]
    OBVIOUS
  <2>1. Len(<<>>) = 0
    BY EmptySeq
  <2> QED
    BY <1>1, <2>1
<1> HIDE DEF v, w
<1>3. IsFiniteSet(Sessions)
  BY DEF FewSessions
<1> QED
  BY <1>1, <1>2, <1>3, SumBelow, SumIsNat

\* The index of matching shards counts what is held.
LEMMA TotalIsHeld ==
    ASSUME FewSessions, shards \in [Sessions -> Shards], NEW entries \in Indexes,
           \A s \in Sessions : MatchedBy(entries, s)
    PROVE  Total(entries) = HeldIn(shards)
<1> DEFINE D == DOMAIN entries
           counts == [i \in D |-> entries[i].count]
           place == [i \in D |-> entries[i].session]
           sizes == [s \in Sessions |-> Len(shards[s])]
           L == Listed(entries)
           rest == Sessions \ L
<1>1. /\ D = 1 .. Len(entries) /\ Len(entries) \in Nat /\ L \subseteq Sessions
      /\ \A i \in D : entries[i].session \in Sessions /\ entries[i].count \in Nat
      /\ \A i, j \in D : entries[i].session = entries[j].session => i = j
      /\ L = {entries[i].session : i \in D}
  BY IndexFields, EntryFields
<1>2. /\ HeldIn(shards) = SumFunctionOnSet(sizes, Sessions)
      /\ \A s \in Sessions : sizes[s] = Len(shards[s]) /\ sizes[s] \in Nat
  BY HeldSizes
<1>3. Total(entries) = SumFunctionOnSet(counts, D)
  BY DEF Total, SumFunction
<1>4. \A i \in D : counts[i] \in Int /\ counts[i] = sizes[place[i]]
  <2> SUFFICES ASSUME NEW i \in D PROVE counts[i] \in Int /\ counts[i] = sizes[place[i]]
    OBVIOUS
  <2>1. /\ entries[i].session \in L /\ EntryOf(entries, entries[i].session) = entries[i]
    BY <1>1, EntryAt
  <2>2. entries[i].count = Len(shards[entries[i].session])
    BY <1>1, <2>1 DEF MatchedBy
  <2> QED
    BY <1>1, <2>2
<1>5. \A s \in rest : sizes[s] = 0
  <2> SUFFICES ASSUME NEW s \in rest PROVE sizes[s] = 0
    OBVIOUS
  <2>1. shards[s] = <<>>
    BY DEF MatchedBy
  <2> QED
    BY <2>1, EmptySeq
<1>6. DOMAIN place = D /\ L = {place[i] : i \in D} /\ \A i, j \in D : place[i] = place[j] => i = j
  BY <1>1
<1>7. IsFiniteSet(D) /\ IsFiniteSet(L) /\ IsFiniteSet(rest) /\ L \cup rest = Sessions
      /\ L \cap rest = {}
  <2>1. IsFiniteSet(1 .. Len(entries))
    BY <1>1, FS_Interval
  <2>2. IsFiniteSet(L) /\ IsFiniteSet(rest)
    BY <1>1, FS_Subset DEF FewSessions
  <2> QED
    BY <1>1, <2>1, <2>2
<1> HIDE DEF D, counts, place, sizes, L, rest
<1>8. SumFunctionOnSet(counts, D) = SumFunctionOnSet(sizes, L)
  BY <1>4, <1>6, <1>7, SumOfImage
<1>9. SumFunctionOnSet(sizes, Sessions)
         = SumFunctionOnSet(sizes, L) + SumFunctionOnSet(sizes, rest)
  <2>1. SumFunctionOnSet(sizes, L \cup rest)
         = SumFunctionOnSet(sizes, L) + SumFunctionOnSet(sizes, rest)
    BY <1>2, <1>7, SumOfParts
  <2> QED
    BY <1>7, <2>1
<1>10. SumFunctionOnSet(sizes, rest) = 0 /\ SumFunctionOnSet(sizes, L) \in Int
  <2>1. \A s \in L : sizes[s] \in Int
    BY <1>2, <1>7
  <2> QED
    BY <1>5, <1>7, <2>1, SumOfZeros, SumIsInt
<1> QED
  BY <1>2, <1>3, <1>8, <1>9, <1>10

\* What is held when only one session has anything.
LEMMA HeldAlone ==
    ASSUME FewSessions, NEW stored \in [Sessions -> Shards], NEW s \in Sessions,
           \A t \in Sessions \ {s} : stored[t] = <<>>
    PROVE  HeldIn(stored) = Len(stored[s])
<1> DEFINE sizes == [x \in Sessions |-> Len(stored[x])]
<1>1. /\ HeldIn(stored) = SumFunctionOnSet(sizes, Sessions)
      /\ \A x \in Sessions : sizes[x] = Len(stored[x]) /\ sizes[x] \in Nat
  BY HeldSizes
<1>2. \A t \in Sessions \ {s} : sizes[t] = 0
  BY EmptySeq
<1>3. IsFiniteSet(Sessions) /\ IsFiniteSet(Sessions \ {s})
  BY FS_Subset DEF FewSessions
<1> HIDE DEF sizes
<1>4. SumFunctionOnSet(sizes, Sessions) = sizes[s] + SumFunctionOnSet(sizes, Sessions \ {s})
  BY <1>1, <1>3, SumAny
<1>5. SumFunctionOnSet(sizes, Sessions \ {s}) = 0
  BY <1>2, <1>3, SumOfZeros
<1> QED
  BY <1>1, <1>4, <1>5

\* The order of entries, by date and then by place, is transitive.
LEMMA DatesChain ==
    ASSUME NEW a \in Int, NEW b \in Int, NEW c \in Int, NEW i \in Int, NEW j \in Int, NEW k \in Int,
           a < b \/ (a = b /\ i <= j), b < c \/ (b = c /\ j <= k)
    PROVE  a < c \/ (a = c /\ i <= k)
OBVIOUS

\* Of entries at any places, one is the oldest, and among equals the first.
LEMMA OldestPlace ==
    ASSUME NEW entries \in Indexes, entries # <<>>
    PROVE  \E i \in DOMAIN entries : \A j \in DOMAIN entries :
              \/ entries[i].at < entries[j].at
              \/ entries[i].at = entries[j].at /\ i <= j
<1> DEFINE D == DOMAIN entries
           before(i, j) == entries[i].at < entries[j].at \/ (entries[i].at = entries[j].at /\ i <= j)
           T == {t \in SUBSET D : t # {} /\ ~ \E i \in t : \A j \in t : before(i, j)}
<1>1. /\ D = 1 .. Len(entries) /\ Len(entries) \in Nat /\ Len(entries) # 0
      /\ \A i \in D : i \in Int /\ entries[i].at \in Int
  BY IndexFields, EntryFields, EmptySeq
<1>2. IsFiniteSet(D) /\ D # {}
  <2>1. 1 \in D
    BY <1>1
  <2>2. IsFiniteSet(1 .. Len(entries))
    BY <1>1, FS_Interval
  <2> QED
    BY <1>1, <2>1, <2>2
<1>3. SUFFICES ASSUME T # {} PROVE FALSE
  <2>1. D \notin T
    BY <1>3
  <2> QED
    BY <1>2, <2>1
<1>4. PICK t \in T : \A u \in SUBSET t : u # t => u \notin T
  <2>1. T \in SUBSET SUBSET D
    OBVIOUS
  <2> HIDE DEF T, D
  <2> QED
    BY <1>2, <1>3, <2>1, LeastSubset
<1>5. PICK x \in t : TRUE
  OBVIOUS
<1>6. \A i, j \in t : i \in Int /\ entries[i].at \in Int /\ entries[j].at \in Int /\ j \in Int
  BY <1>1
<1>7. CASE t \ {x} = {}
  <2>1. before(x, x)
    BY <1>6
  <2>2. \A j \in t : j = x
    BY <1>7
  <2> QED
    BY <1>5, <2>1, <2>2
<1>8. CASE t \ {x} # {}
  <2>1. (t \ {x}) \in SUBSET t /\ t \ {x} # t /\ (t \ {x}) \in SUBSET D
    BY <1>5
  <2>2. PICK i \in t \ {x} : \A j \in t \ {x} : before(i, j)
    BY <1>4, <1>8, <2>1
  <2>3. CASE before(i, x)
    <3>1. \A j \in t : before(i, j)
      BY <2>2, <2>3
    <3> QED
      BY <2>2, <3>1
  <2>4. CASE ~before(i, x)
    <3>1. before(x, x) /\ before(x, i)
      BY <1>6, <2>2, <2>4
    <3>2. \A j \in t : before(x, j)
      <4> SUFFICES ASSUME NEW j \in t PROVE before(x, j)
        OBVIOUS
      <4>1. /\ x \in Int /\ i \in Int /\ j \in Int /\ entries[x].at \in Int
            /\ entries[i].at \in Int /\ entries[j].at \in Int
        BY <1>6, <2>2
      <4>2. CASE j = x
        BY <3>1, <4>2
      <4>3. CASE j # x
        <5>1. before(i, j) /\ before(x, i)
          BY <2>2, <3>1, <4>3
        <5> DEFINE ax == entries[x].at
                   ai == entries[i].at
                   aj == entries[j].at
        <5>2. /\ x \in Int /\ i \in Int /\ j \in Int /\ ax \in Int /\ ai \in Int /\ aj \in Int
              /\ ai < aj \/ (ai = aj /\ i <= j)
              /\ ax < ai \/ (ax = ai /\ x <= i)
          BY <4>1, <5>1
        <5> HIDE DEF ax, ai, aj, before, T, D
        <5>3. ax < aj \/ (ax = aj /\ x <= j)
          BY <5>2, DatesChain
        <5> QED
          BY <5>3 DEF ax, aj, before
      <4> QED
        BY <4>2, <4>3
    <3> QED
      BY <3>2
  <2> QED
    BY <2>3, <2>4
<1> QED
  BY <1>7, <1>8

\* _prune's victim is listed, and no entry is older than it.
LEMMA OldestIs ==
    ASSUME NEW entries \in Indexes, entries # <<>>
    PROVE  /\ Oldest(entries).session \in Listed(entries)
           /\ \A t \in Listed(entries) :
                 EntryOf(entries, Oldest(entries).session).at <= EntryOf(entries, t).at
<1> DEFINE first(i) == \A j \in DOMAIN entries :
                          \/ entries[i].at < entries[j].at
                          \/ entries[i].at = entries[j].at /\ i <= j
           k == CHOOSE i \in DOMAIN entries : first(i)
<1>1. k \in DOMAIN entries /\ first(k)
  <2>1. \E i \in DOMAIN entries : first(i)
    BY OldestPlace
  <2> QED
    BY <2>1
<1>2. Oldest(entries) = entries[k]
  BY DEF Oldest
<1>3. /\ DOMAIN entries = 1 .. Len(entries)
      /\ \A i \in DOMAIN entries : entries[i].at \in Int
      /\ Listed(entries) = {entries[i].session : i \in DOMAIN entries}
  BY IndexFields, EntryFields
<1> HIDE DEF k
<1>4. \A i \in DOMAIN entries : EntryOf(entries, entries[i].session) = entries[i]
                                /\ entries[i].session \in Listed(entries)
  BY <1>3, EntryAt
<1>5. \A i \in DOMAIN entries : entries[k].at <= entries[i].at
  BY <1>1, <1>3
<1> QED
  BY <1>1, <1>2, <1>3, <1>4, <1>5

(***************************************************************************)
(* The steps, and the cap                                                  *)
(***************************************************************************)
\* Dates are integers.
LEMMA NowIsInt == Typed => Now \in Int /\ budget.ops \in Int
BY SampleAssumption DEF Typed, Now

\* Only the beginning of an operation makes it later.
LEMMA Later ==
    ASSUME Typed, Next
    PROVE  /\ BeginImport \/ BeginReset => Now' = Now + 1
           /\ ~(BeginImport \/ BeginReset) => Now' = Now
<1>1. budget.ops \in Int /\ MaxOps \in Int /\ \A x : budget' = [budget EXCEPT !.ops = x] => budget'.ops = x
  BY SampleAssumption DEF Typed
<1>2. CASE BeginImport \/ BeginReset
  <2>1. budget'.ops = budget.ops - 1
    BY <1>1, <1>2 DEF BeginImport, BeginReset, Begin
  <2>2. ~ ~(BeginImport \/ BeginReset)
    BY <1>2
  <2> QED
    BY <1>1, <2>1, <2>2 DEF Now
<1>3. CASE ~(BeginImport \/ BeginReset)
  <2>1. budget'.ops = budget.ops
    BY <1>3, Cases, Works, LoadSteps DEF Analyze, Abort, Crash, Typed
  <2> QED
    BY <1>3, <2>1 DEF Now
<1> QED
  BY <1>2, <1>3

\* An empty index lists no session.
LEMMA NothingListed == Listed(<<>>) = {}
<1>1. <<>> \in Indexes /\ Len(<<>>) = 0
  BY NoRows, EmptySeq
<1>2. Listed(<<>>) = {<<>>[i].session : i \in 1 .. 0}
  BY <1>1, IndexFields
<1> QED
  BY <1>2

\* Only an import's own steps change what it has still to do.
LEMMA ToDoStep == Typed /\ LoadsApart /\ Composed /\ ToDo /\ Next => ToDo'
<1> SUFFICES ASSUME Typed, LoadsApart, Composed, ToDo, Next, Importing({"index", "replace"})'
             PROVE  op'.todo \subseteq Said(op'.input, {"full", "partial"})
  BY DEF ToDo, Said
<1>0. op \in Operations
  BY DEF Typed
<1>1. CASE Compose
  BY <1>0, <1>1 DEF Compose, Operations
<1>2. CASE op' = op /\ ~Idle
  BY <1>2 DEF ToDo, Importing
<1>3. CASE ReadIndex
  <2>1. op.kind = "import" /\ op.step = "index" /\ op'.input = op.input /\ op'.todo = op.todo
    BY <1>0, <1>3 DEF ReadIndex, Importing, Operations
  <2> QED
    BY <2>1 DEF ToDo, Importing
<1>4. CASE Evict
  BY <1>4, Evicting DEF ToDo, Importing
<1>5. ASSUME NEW s \in Sessions, ReplaceSession(s)
      PROVE  op'.todo \subseteq Said(op'.input, {"full", "partial"})
  BY <1>5, Replacing DEF ToDo, Importing
<1>6. Importing({"index"})' \/ Importing({"replace"})'
  BY DEF Importing
<1> QED
  BY <1>1, <1>2, <1>3, <1>4, <1>5, <1>6, Into

\* Entries are dated by the step that writes them, and stay in the past.
LEMMA DatedStep == Typed /\ LoadsApart /\ ToDo /\ Dated /\ Next => Dated'
<1> SUFFICES ASSUME Typed, LoadsApart, ToDo, Dated, Next, FewSessions
             PROVE  /\ \A s \in Listed(index') :
                          /\ EntryOf(index', s).at <= Now'
                          /\ Importing({"load", "compose", "index", "replace"})'
                                => EntryOf(index', s).at < Now'
                    /\ Importing({"replace"})' => \A s \in Listed(op'.entries) :
                          /\ EntryOf(op'.entries, s).at <= Now'
                          /\ s \in op'.todo \/ s \notin Said(op'.input, {"full", "partial"})
                                => EntryOf(op'.entries, s).at < Now'
  BY DEF Dated, Said, Listed, EntryOf, PlaceOf, FewSessions
<1>0. /\ op \in Operations /\ op.entries \in Indexes /\ index \in Indexes
      /\ shards \in [Sessions -> Shards] /\ Now \in Int
  <2>1. op \in Operations
    BY DEF Typed
  <2> QED
    BY <2>1, NowIsInt DEF Operations, Typed
<1>1. \A s \in Listed(index) : EntryOf(index, s).at \in Int
  BY <1>0, Places, EntryFields
<1>2. CASE BeginImport \/ BeginReset
  <2>1. Now' = Now + 1 /\ index' = index /\ ~Importing({"replace"})'
    BY <1>0, <1>2, Later, IdleShape DEF BeginImport, BeginReset, Importing, Operations
  <2> QED
    BY <1>0, <1>1, <2>1 DEF Dated
<1>3. CASE ~(BeginImport \/ BeginReset)
  <2>0. Now' = Now
    BY <1>3, Later
  <2>1. CASE ReadIndex
    <3>1. /\ op.step = "index" /\ op'.kind = op.kind /\ index' = index
          /\ op'.entries = LoadedIndex
      BY <1>0, <2>1 DEF ReadIndex, Operations
    <3>2. Importing({"replace"})' => op.kind = "import"
      BY <3>1 DEF Importing
    <3>3. op.kind = "import" => \A s \in Listed(index) : EntryOf(index, s).at < Now
      BY <3>1 DEF Dated, Importing
    <3>4. /\ Listed(LoadedIndex) = Listed(index)
          /\ \A s \in Listed(index) : EntryOf(LoadedIndex, s) = EntryOf(index, s)
      BY <1>0, WholeIndex
    <3>5. Importing({"load", "compose", "index", "replace"})' => op.kind = "import"
      BY <3>1 DEF Importing
    <3>6. \A s \in Listed(index) : EntryOf(index, s).at <= Now
      BY DEF Dated
    <3>7. op.kind = "import" => \A s \in Listed(LoadedIndex) : EntryOf(LoadedIndex, s).at < Now
                                                              /\ EntryOf(LoadedIndex, s).at <= Now
      BY <3>3, <3>4, <3>6
    <3> QED
      BY <2>0, <3>1, <3>2, <3>3, <3>5, <3>6, <3>7
  <2>2. CASE Evict
    <3>1. PICK victim :
            /\ op.kind = "import" /\ op.step = "replace" /\ index' = index
            /\ op'.todo = op.todo /\ op'.input = op.input
            /\ Listed(op'.entries) = Listed(op.entries) \ {victim}
            /\ \A t \in Listed(op.entries) \ {victim} : EntryOf(op'.entries, t) = EntryOf(op.entries, t)
      BY <2>2, Evicting
    <3> QED
      BY <2>0, <3>1 DEF Dated, Importing
  <2>3. ASSUME NEW s \in Sessions, ReplaceSession(s)
        PROVE  /\ \A t \in Listed(index') : EntryOf(index', t).at <= Now' /\ EntryOf(index', t).at < Now'
               /\ \A t \in Listed(op'.entries) :
                          /\ EntryOf(op'.entries, t).at <= Now'
                          /\ t \in op'.todo \/ t \notin Said(op'.input, {"full", "partial"})
                                => EntryOf(op'.entries, t).at < Now'
    <3>1. /\ op.kind = "import" /\ op.step = "replace" /\ index' = index
          /\ op'.todo = op.todo \ {s} /\ op'.input = op.input
          /\ \A t \in Sessions \ {s} :
                /\ t \in Listed(op'.entries) <=> t \in Listed(op.entries)
                /\ t \in Listed(op.entries) => EntryOf(op'.entries, t) = EntryOf(op.entries, t)
      BY <2>3, Replacing
    <3>2. s \in Listed(op'.entries) =>
             EntryOf(op'.entries, s).at = Now
             \/ (s \in Listed(op.entries) /\ EntryOf(op'.entries, s).at = EntryOf(op.entries, s).at)
      BY <2>3, Replacing
    <3>3. s \in Said(op.input, {"full", "partial"})
      <4>1. s \in op.todo
        BY <2>3 DEF ReplaceSession
      <4> QED
        BY <3>1, <4>1 DEF ToDo, Importing
    <3>4. Listed(op'.entries) \subseteq Sessions
      <4>1. op' \in Operations
        BY TypedStep DEF Typed
      <4>2. op'.entries \in Indexes
        BY <4>1 DEF Operations
      <4> QED
        BY <4>2, IndexFields
    <3>5. \A t \in Listed(op.entries) :
             /\ EntryOf(op.entries, t).at <= Now
             /\ t \in op.todo \/ t \notin Said(op.input, {"full", "partial"})
                    => EntryOf(op.entries, t).at < Now
      BY <3>1 DEF Dated, Importing
    <3>6. \A t \in Listed(index) : EntryOf(index, t).at <= Now /\ EntryOf(index, t).at < Now
      BY <3>1 DEF Dated, Importing
    <3>7. ASSUME NEW t \in Listed(op'.entries)
          PROVE  /\ EntryOf(op'.entries, t).at <= Now
                 /\ t \in op'.todo \/ t \notin Said(op'.input, {"full", "partial"})
                       => EntryOf(op'.entries, t).at < Now
      <4>1. CASE t = s
        <5>1. t \notin op'.todo /\ t \in Said(op'.input, {"full", "partial"})
          BY <3>1, <3>3, <4>1
        <5>2. EntryOf(op'.entries, s).at <= Now
          BY <1>0, <3>2, <3>5, <3>7, <4>1
        <5> QED
          BY <4>1, <5>1, <5>2
      <4>2. CASE t # s
        <5>1. t \in Listed(op.entries) /\ EntryOf(op'.entries, t) = EntryOf(op.entries, t)
          BY <3>1, <3>4, <3>7, <4>2
        <5> QED
          BY <3>1, <3>5, <5>1
      <4> QED
        BY <4>1, <4>2
    <3> QED
      BY <2>0, <3>1, <3>6, <3>7
  <2>4. CASE SaveIndex
    <3>1. /\ op.kind = "import" /\ op.step = "replace" /\ index' = op.entries
          /\ op'.step = "refresh"
      BY <1>0, <2>4 DEF SaveIndex, Replaced, Doing, Operations
    <3> QED
      BY <2>0, <3>1 DEF Dated, Importing
  <2>5. CASE SaveEmptyIndex
    <3>1. index' = <<>> /\ op'.kind = "reset"
      BY <1>0, <2>5 DEF SaveEmptyIndex, Doing, Operations
    <3>2. \A s \in Listed(index') : FALSE
      BY <3>1, NothingListed
    <3>3. ~Importing({"replace"})'
      BY <3>1 DEF Importing
    <3> QED
      BY <3>2, <3>3
  <2>6. CASE LoadOnce \/ Compose
    <3>1. /\ op.kind = "import" /\ op.step \in {"load", "compose"} /\ index' = index
          /\ op'.step \in {"compose", "index", "refresh"}
      BY <1>0, <2>6 DEF LoadOnce, Compose, Doing, Operations
    <3>2. ~Importing({"replace"})'
      BY <3>1 DEF Importing
    <3> QED
      BY <2>0, <3>1, <3>2 DEF Dated, Importing
  <2>7. CASE Refresh \/ DeleteShard \/ Forget \/ Abort \/ Crash
    <3>1. index' = index /\ op'.kind # "import"
      BY <1>0, <2>7, IdleShape DEF Refresh, DeleteShard, Forget, Abort, Crash, Doing, Operations
    <3>2. \A steps : ~Importing(steps)'
      BY <3>1 DEF Importing
    <3> QED
      BY <2>0, <3>1, <3>2 DEF Dated
  <2>8. CASE Analyze \/ \E p \in Loaders \cup {Initializer} : Load(p)
    <3>1. index' = index /\ op' = op
      BY <2>8, LoadSteps DEF Analyze
    <3> QED
      BY <2>0, <3>1 DEF Dated, Importing
  <2>9. CASE \E s \in Sessions : ReplaceSession(s)
    BY <2>3, <2>9
  <2> QED
    BY <1>3, <2>1, <2>2, <2>4, <2>5, <2>6, <2>7, <2>8, <2>9, Cases DEF Work
<1> QED
  BY <1>2, <1>3

\* What is undisturbed was undisturbed.
LEMMA Undisturbing ==
    ASSUME Typed, Next, Undisturbed'
    PROVE  Undisturbed /\ ~Abort /\ ~Crash
<1>1. ~Abort /\ ~Crash
  BY DEF Abort, Crash, Undisturbed, Typed
<1>2. past'.failed = past.failed /\ past'.crashed = past.crashed
  <2>1. CASE BeginImport \/ BeginReset
    BY <2>1 DEF BeginImport, BeginReset, Begin, Typed
  <2>2. CASE ~(BeginImport \/ BeginReset)
    BY <1>1, <2>2, Cases, Works, LoadSteps DEF Analyze
  <2> QED
    BY <2>1, <2>2
<1> QED
  BY <1>1, <1>2 DEF Undisturbed

\* While an import replaces sessions its entries count what is held.
LEMMA CountIsHeld ==
    ASSUME Typed, Matching, FewSessions, Undisturbed, Importing({"replace"})
    PROVE  Total(op.entries) = HeldIn(shards) /\ HeldIn(shards) \in Nat
<1>1. op.entries \in Indexes /\ shards \in [Sessions -> Shards]
  <2>1. op \in Operations
    BY DEF Typed
  <2> QED
    BY <2>1 DEF Operations, Typed
<1>2. \A s \in Sessions : MatchedBy(op.entries, s)
  BY DEF Matching
<1> QED
  BY <1>1, <1>2, TotalIsHeld, HeldFalls

\* An import saves its index only when no more is held than the cap.
LEMMA CappedStep == Typed /\ LoadsApart /\ Matching /\ Capped /\ Next => Capped'
<1> SUFFICES ASSUME Typed, LoadsApart, Matching, Capped, Next, FewSessions, Undisturbed',
                    ~Importing({"replace"})'
             PROVE  HeldIn(shards') <= MaxSamples
  BY DEF Capped, HeldIn, FewSessions
<1>0. /\ op \in Operations /\ shards \in [Sessions -> Shards] /\ shards' \in [Sessions -> Shards]
      /\ MaxSamples \in Nat
  BY TypedStep, SampleAssumption DEF Typed
<1>1. Undisturbed /\ ~Abort /\ ~Crash
  BY Undisturbing
<1>2. CASE Importing({"replace"})
  <2>1. CASE SaveIndex
    <3>1. Total(op.entries) <= MaxSamples /\ shards' = shards
      BY <2>1 DEF SaveIndex
    <3> QED
      BY <1>1, <1>2, <3>1, CountIsHeld
  <2>2. CASE ~SaveIndex
    <3>1. op.kind = "import" /\ op.step = "replace"
      BY <1>2 DEF Importing
    <3>2. ~BeginImport /\ ~BeginReset /\ ~Analyze
      BY <3>1 DEF BeginImport, BeginReset, Begin, Analyze, Idle
    <3>3. ~LoadOnce /\ ~Compose /\ ~ReadIndex /\ ~Refresh /\ ~DeleteShard /\ ~SaveEmptyIndex /\ ~Forget
      BY <3>1 DEF LoadOnce, Compose, ReadIndex, Refresh, DeleteShard, SaveEmptyIndex, Forget, Doing
    <3>4. ~Evict
      BY Evicting DEF Importing
    <3>5. ~ \E s \in Sessions : ReplaceSession(s)
      BY Replacing DEF Importing
    <3>6. PICK p \in Loaders \cup {Initializer} : Load(p)
      BY <1>1, <2>2, <3>2, <3>3, <3>4, <3>5, Cases DEF Work
    <3>7. op' = op
      BY <3>6, LoadSteps
    <3> QED
      BY <3>1, <3>7 DEF Importing
  <2> QED
    BY <2>1, <2>2
<1>3. CASE ~Importing({"replace"})
  <2>0. HeldIn(shards) <= MaxSamples
    BY <1>1, <1>3 DEF Capped
  <2>1. shards' = shards \/ DeleteShard
    <3>1. ~Evict
      BY <1>3, Evicting DEF Importing
    <3>2. ~ \E s \in Sessions : ReplaceSession(s)
      BY <1>3, Replacing DEF Importing
    <3>3. BeginImport \/ BeginReset \/ Analyze => shards' = shards
      BY DEF BeginImport, BeginReset, Analyze
    <3>4. LoadOnce \/ Compose \/ ReadIndex \/ SaveIndex \/ Refresh \/ SaveEmptyIndex \/ Forget => shards' = shards
      BY DEF LoadOnce, Compose, ReadIndex, SaveIndex, Refresh, SaveEmptyIndex, Forget
    <3>5. \A p \in Loaders \cup {Initializer} : Load(p) => shards' = shards
      BY LoadSteps
    <3> QED
      BY <1>1, <3>1, <3>2, <3>3, <3>4, <3>5, Cases DEF Work
  <2>2. CASE DeleteShard
    <3>1. \A s \in Sessions : shards'[s] = shards[s] \/ shards'[s] = <<>>
      BY <1>0, <2>2 DEF DeleteShard
    <3>2. HeldIn(shards') <= HeldIn(shards) /\ HeldIn(shards) \in Nat /\ HeldIn(shards') \in Nat
      BY <1>0, <3>1, HeldFalls
    <3> QED
      BY <1>0, <2>0, <3>2
  <2> QED
    BY <2>0, <2>1, <2>2
<1> QED
  BY <1>2, <1>3

\* While more is held than the cap, the session just imported is not the oldest.
LEMMA NewcomerStep ==
    Typed /\ LoadsApart /\ Composed /\ Matching /\ ToDo /\ Dated /\ Capped /\ Newcomer /\ Next => Newcomer'
<1> SUFFICES ASSUME Typed, LoadsApart, Composed, Matching, ToDo, Dated, Capped, Newcomer, Next,
                    FewSessions, Undisturbed', NEW s \in Sessions, Sole(s)'
             PROVE  /\ Importing({"replace"})' =>
                          IF s \in op'.todo THEN HeldIn(shards') <= MaxSamples
                          ELSE shards'[s] = op'.want[s] /\ (HeldIn(shards') <= MaxSamples \/ Recent(s)')
                    /\ Importing({"refresh"})' => shards'[s] = op'.want[s]
  BY DEF Newcomer, HeldIn, FewSessions
<1>0. /\ op \in Operations /\ op.entries \in Indexes /\ shards \in [Sessions -> Shards]
      /\ op.want \in [Sessions -> Shards]
      /\ shards' \in [Sessions -> Shards] /\ MaxSamples \in Nat /\ Now \in Int
  <2>1. op \in Operations
    BY DEF Typed
  <2> QED
    BY <2>1, TypedStep, NowIsInt, SampleAssumption DEF Operations, Typed
<1>1. Undisturbed /\ ~Abort /\ ~Crash
  BY Undisturbing
<1>2. CASE op' = op /\ ~Idle /\ ~Work
  <2>1. UNCHANGED <<shards, index>> /\ Now' = Now
    <3>1. ~(BeginImport \/ BeginReset)
      BY <1>2 DEF BeginImport, BeginReset, Begin
    <3> QED
      BY <1>2, <3>1, Beside, Later
  <2>2. Sole(s)
    BY <1>2 DEF Sole, Said
  <2> QED
    BY <1>1, <1>2, <2>1, <2>2 DEF Newcomer, Importing, Recent
<1>3. CASE ReadIndex
  <2>1. op'.kind = op.kind /\ op'.input = op.input /\ op'.todo = op.todo /\ op.step = "index"
        /\ shards' = shards /\ op'.step \in {"replace", "clear"}
    BY <1>0, <1>3 DEF ReadIndex, Operations
  <2>2. Importing({"replace"})' => HeldIn(shards') <= MaxSamples /\ s \in op'.todo
    <3> HAVE Importing({"replace"})'
    <3>1. Importing({"index"}) /\ ~Importing({"replace"})
      BY <2>1 DEF Importing
    <3>2. op.todo = Said(op.input, {"full", "partial"}) /\ HeldIn(shards) <= MaxSamples
      BY <1>1, <3>1 DEF Composed, Capped
    <3>3. s \in Said(op'.input, {"full", "partial"})
      BY DEF Sole
    <3> QED
      BY <2>1, <3>2, <3>3
  <2>3. ~Importing({"refresh"})'
    BY <2>1 DEF Importing
  <2> QED
    BY <2>2, <2>3
<1>4. CASE Compose
  <2>1. ~Importing({"replace"})'
    BY <1>0, <1>4 DEF Compose, Importing, Operations
  <2>2. ~Importing({"refresh"})'
    <3>1. /\ op'.input = op.input
          /\ op'.step = IF Said(op.input, {"full", "partial"}) = {} THEN "refresh" ELSE "index"
      BY <1>0, <1>4 DEF Compose, Operations
    <3>2. Said(op.input, {"full", "partial"}) = {s}
      BY <3>1 DEF Sole
    <3> QED
      BY <3>1, <3>2 DEF Importing
  <2> QED
    BY <2>1, <2>2
<1>5. CASE SaveIndex
  <2>1. /\ op.kind = "import" /\ op.step = "replace" /\ op.todo = {}
        /\ op'.want = op.want /\ op'.input = op.input /\ op'.step = "refresh" /\ shards' = shards
    BY <1>0, <1>5 DEF SaveIndex, Replaced, Doing, Operations
  <2>2. Sole(s)
    BY <2>1 DEF Sole
  <2>3. shards[s] = op.want[s]
    BY <1>1, <2>1, <2>2 DEF Newcomer, Importing
  <2> QED
    BY <2>1, <2>3 DEF Importing
<1>6. CASE Evict
  <2> DEFINE victim == Oldest(op.entries).session
  <2>1. /\ op.kind = "import" /\ op.step = "replace" /\ op'.kind = "import" /\ op'.step = "replace"
        /\ op'.want = op.want /\ op'.input = op.input /\ op'.todo = op.todo
    BY <1>6, Evicting
  <2>2. /\ op.todo = {} /\ Total(op.entries) > MaxSamples
        /\ shards' = [shards EXCEPT ![victim] = <<>>] /\ op'.entries = Without(op.entries, victim)
    BY <1>0, <1>6 DEF Evict, Replaced, Operations
  <2>3. Sole(s)
    BY <2>1 DEF Sole
  <2>4. Total(op.entries) = HeldIn(shards) /\ HeldIn(shards) \in Nat
    BY <1>1, <2>1, CountIsHeld DEF Importing
  <2>5. shards[s] = op.want[s] /\ Recent(s)
    <3>1. ~(HeldIn(shards) <= MaxSamples)
      BY <1>0, <2>2, <2>4
    <3> QED
      BY <1>1, <2>1, <2>2, <2>3, <3>1 DEF Newcomer, Importing
  <2>6. op.entries # <<>>
    <3> SUFFICES ASSUME op.entries = <<>> PROVE FALSE
      OBVIOUS
    <3>1. \A t \in Sessions : shards[t] = <<>>
      <4>1. Importing({"replace"})
        BY <2>1 DEF Importing
      <4> QED
        BY <1>1, <4>1, NothingListed DEF Matching, MatchedBy
    <3>2. HeldIn(shards) = Len(shards[s])
      BY <1>0, <3>1, HeldAlone
    <3> QED
      BY <1>0, <2>2, <2>4, <3>1, <3>2, EmptySeq
  <2>7. /\ victim \in Listed(op.entries)
        /\ \A t \in Listed(op.entries) : EntryOf(op.entries, victim).at <= EntryOf(op.entries, t).at
    BY <1>0, <2>6, OldestIs
  <2> HIDE DEF victim
  <2>8. \A t \in Listed(op.entries) : EntryOf(op.entries, t).at \in Int
    BY <1>0, Places, EntryFields
  <2>9. victim # s
    <3> SUFFICES ASSUME victim = s PROVE FALSE
      OBVIOUS
    <3>1. \A t \in Listed(op.entries) : t = s
      BY <1>0, <2>5, <2>7, <2>8 DEF Recent
    <3>2. \A t \in Sessions \ {s} : shards[t] = <<>>
      <4>1. Importing({"replace"})
        BY <2>1 DEF Importing
      <4> QED
        BY <1>1, <3>1, <4>1 DEF Matching, MatchedBy
    <3>3. HeldIn(shards) = Len(shards[s])
      BY <1>0, <3>2, HeldAlone
    <3>4. Len(op.want[s]) <= MaxSamples
      BY <2>3 DEF Sole
    <3> QED
      BY <1>0, <2>2, <2>4, <2>5, <3>3, <3>4
  <2>10. shards'[s] = op'.want[s]
    BY <1>0, <2>1, <2>2, <2>5, <2>9
  <2>11. /\ Listed(op'.entries) = Listed(op.entries) \ {victim}
         /\ \A t \in Listed(op.entries) \ {victim} : EntryOf(op'.entries, t) = EntryOf(op.entries, t)
    BY <1>0, <2>2, WithoutTypes
  <2>12. Now' = Now
    <3>1. ~BeginImport /\ ~BeginReset
      BY <2>1 DEF BeginImport, BeginReset, Begin, Idle
    <3> QED
      BY <3>1, Later
  <2>13. Recent(s)'
    BY <2>5, <2>11, <2>12 DEF Recent
  <2>14. ~Importing({"refresh"})'
    BY <2>1 DEF Importing
  <2> QED
    BY <2>1, <2>2, <2>10, <2>13, <2>14
<1>7. ASSUME NEW t \in Sessions, ReplaceSession(t)
      PROVE  /\ ~Importing({"refresh"})' /\ s \notin op'.todo /\ shards'[s] = op'.want[s]
             /\ HeldIn(shards') <= MaxSamples \/ Recent(s)'
  <2>1. /\ op.kind = "import" /\ op.step = "replace" /\ op'.kind = "import" /\ op'.step = "replace"
        /\ op'.want = op.want /\ op'.input = op.input /\ op'.todo = op.todo \ {t}
        /\ shards' = [shards EXCEPT ![t] = op.want[t]]
    BY <1>7, Replacing
  <2>2. Importing({"replace"}) /\ t \in op.todo
    BY <1>7, <2>1 DEF ReplaceSession, Importing
  <2>3. Said(op.input, {"full", "partial"}) = {s} /\ Sole(s)
    BY <2>1 DEF Sole
  <2>4. t = s /\ s \in op.todo
    <3>1. op.todo \subseteq {s}
      BY <2>2, <2>3 DEF ToDo, Importing
    <3> QED
      BY <2>2, <3>1
  <2>5. HeldIn(shards) <= MaxSamples
    BY <1>1, <2>2, <2>3, <2>4 DEF Newcomer
  <2>6. shards'[s] = op.want[s] /\ \A x \in Sessions \ {s} : shards'[x] = shards[x]
    BY <1>0, <2>1, <2>4
  <2>7. HeldIn(shards') <= MaxSamples \/ Recent(s)'
    <3>1. CASE op.want[s] = <<>> \/ shards[s] = op.want[s]
      <4>1. \A x \in Sessions : shards'[x] = shards[x] \/ shards'[x] = <<>>
        BY <2>6, <3>1
      <4>2. HeldIn(shards') <= HeldIn(shards) /\ HeldIn(shards') \in Nat /\ HeldIn(shards) \in Nat
        BY <1>0, <4>1, HeldFalls
      <4> QED
        BY <1>0, <2>5, <4>2
    <3>2. CASE op.want[s] # <<>> /\ shards[s] # op.want[s]
      <4>1. s \in Listed(op'.entries) /\ EntryOf(op'.entries, s).at = Now
        BY <1>7, <2>4, <3>2, Replacing
      <4>2. Now' = Now
        <5>1. ~BeginImport /\ ~BeginReset
          BY <2>1 DEF BeginImport, BeginReset, Begin, Idle
        <5> QED
          BY <5>1, Later
      <4>3. ASSUME NEW x \in Listed(op'.entries) \ {s}
            PROVE  EntryOf(op'.entries, x).at < Now
        <5>1. Listed(op'.entries) \subseteq Sessions
          <6>1. op' \in Operations
            BY TypedStep DEF Typed
          <6>2. op'.entries \in Indexes
            BY <6>1 DEF Operations
          <6> QED
            BY <6>2, IndexFields
        <5>2. x \in Listed(op.entries) /\ EntryOf(op'.entries, x) = EntryOf(op.entries, x)
          BY <1>7, <2>4, <5>1, Replacing
        <5>3. x \notin Said(op.input, {"full", "partial"})
          BY <2>3
        <5> QED
          BY <2>2, <5>2, <5>3 DEF Dated
      <4> QED
        BY <4>1, <4>2, <4>3 DEF Recent
    <3> QED
      BY <3>1, <3>2
  <2> QED
    BY <2>1, <2>4, <2>6, <2>7 DEF Importing
<1>8. CASE \E t \in Sessions : ReplaceSession(t)
  BY <1>7, <1>8
<1> QED
  BY <1>2, <1>3, <1>4, <1>5, <1>6, <1>8, Into

\* Nothing is held at first.
LEMMA CapInit == Init => CapInv
<1> SUFFICES ASSUME Init PROVE CapInv
  OBVIOUS
<1>1. op.kind = "idle" /\ shards = [s \in Sessions |-> <<>>] /\ index = <<>>
  BY IdleShape DEF Init
<1>2. ToDo /\ Newcomer /\ Dated
  BY <1>1, NothingListed DEF ToDo, Newcomer, Dated, Importing
<1>3. Capped
  <2> SUFFICES ASSUME FewSessions PROVE HeldIn(shards) <= MaxSamples
    BY DEF Capped
  <2> DEFINE sizes == [s \in Sessions |-> Len(shards[s])]
  <2>1. \A s \in Sessions : sizes[s] = 0
    BY <1>1, EmptySeq
  <2>2. HeldIn(shards) = SumFunctionOnSet(sizes, Sessions)
    BY DEF HeldIn, SumFunction
  <2> HIDE DEF sizes
  <2>3. HeldIn(shards) = 0
    BY <2>1, <2>2, SumOfZeros DEF FewSessions
  <2> QED
    BY <2>3, SampleAssumption
<1> QED
  BY <1>2, <1>3 DEF CapInv

\* The cap's invariant is inductive, given the store's.
LEMMA CapStep == Typed /\ StoreInv /\ CapInv /\ [Next]_vars => CapInv'
<1> SUFFICES ASSUME Typed, StoreInv, CapInv, [Next]_vars PROVE CapInv'
  OBVIOUS
<1>1. CASE Next
  BY <1>1, ToDoStep, DatedStep, CappedStep, NewcomerStep DEF StoreInv, CapInv
<1>2. CASE UNCHANGED vars
  BY <1>2 DEF vars, CapInv, ToDo, Dated, Capped, Newcomer, Sole, Recent, Importing, Now, Undisturbed,
              HeldIn, Said
<1> QED
  BY <1>1, <1>2

\* An import leaves no more rows than the cap, whatever was there, and a session
\* that fits is not evicted by the very import that brought it alone, as long
\* as the index may list every session and nothing has failed (_prune).
THEOREM TheCap == FewSessions => (Spec => []CapKeepsTheNewest)
<1> SUFFICES ASSUME FewSessions PROVE Spec => []CapKeepsTheNewest
  OBVIOUS
<1>1. CapInv => CapKeepsTheNewest
  <2> SUFFICES ASSUME CapInv, Undisturbed
               PROVE  /\ Idle => HeldIn(shards) <= MaxSamples
                      /\ Doing("import", "refresh") =>
                            \A s \in Sessions : Sole(s) => shards[s] = op.want[s]
    BY DEF CapKeepsTheNewest, HeldIn, Sole
  <2>1. Idle => ~Importing({"replace"})
    BY DEF Idle, Importing
  <2>2. Doing("import", "refresh") => Importing({"refresh"})
    BY DEF Doing, Importing
  <2> QED
    BY <2>1, <2>2 DEF CapInv, Capped, Newcomer
<1>2. Typed /\ StoreInv /\ CapInv /\ [Next]_vars => CapInv'
  BY CapStep
<1> QED
  BY <1>1, <1>2, CapInit, StoreInvariant, PTL DEF Spec

=============================================================================
