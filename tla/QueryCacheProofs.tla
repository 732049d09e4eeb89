-------------------------- MODULE QueryCacheProofs --------------------------
(***************************************************************************)
(* Theorems about QueryCache, for any number of requests and operations    *)
(* and any cache limit.                                                    *)
(***************************************************************************)
EXTENDS QueryCache, TLAPS

(***************************************************************************)
(* The sequence of cached results                                          *)
(***************************************************************************)
\* Moving an entry to the end permutes the sequence.
LEMMA Moved ==
    ASSUME NEW seq \in Seq(Entry), NEW i \in 1 .. Len(seq)
    PROVE  LET moved == Append(WithoutAt(seq, i), seq[i])
           IN  /\ moved \in Seq(Entry)
               /\ Len(moved) = Len(seq)
               /\ \A a \in 1 .. Len(seq) :
                    moved[a] = IF a = Len(seq) THEN seq[i]
                               ELSE IF a < i THEN seq[a] ELSE seq[a + 1]
<1> DEFINE rest == WithoutAt(seq, i)
<1>0. Len(seq) \in Nat /\ Len(seq) >= 1
  OBVIOUS
<1>1. /\ rest \in [1 .. Len(seq) - 1 -> Entry]
      /\ \A a \in 1 .. Len(seq) - 1 : rest[a] = IF a < i THEN seq[a] ELSE seq[a + 1]
  BY <1>0 DEF WithoutAt
<1>2. rest \in Seq(Entry) /\ Len(rest) = Len(seq) - 1
  BY <1>0, <1>1
<1> HIDE DEF rest
<1>3. seq[i] \in Entry
  OBVIOUS
<1> QED
  BY <1>0, <1>1, <1>2, <1>3 DEF rest

\* The cap drops at most the first entry.
LEMMA Capped ==
    ASSUME NEW seq \in Seq(Entry), Len(seq) <= Limit + 1
    PROVE  /\ Bounded(seq) \in Seq(Entry)
           /\ Len(Bounded(seq)) <= Limit
           /\ \/ Bounded(seq) = seq
              \/ /\ Len(Bounded(seq)) = Len(seq) - 1
                 /\ \A a \in 1 .. Len(Bounded(seq)) : Bounded(seq)[a] = seq[a + 1]
<1>1. CASE Len(seq) <= Limit
  BY <1>1, CacheAssumption DEF Bounded
<1>2. CASE Len(seq) > Limit
  <2>1. seq # <<>>
    BY <1>2, CacheAssumption
  <2>2. Tail(seq) \in Seq(Entry) /\ Len(Tail(seq)) = Len(seq) - 1
    BY <2>1
  <2>3. \A a \in 1 .. Len(Tail(seq)) : Tail(seq)[a] = seq[a + 1]
    BY <2>1, <2>2
  <2>4. Bounded(seq) = Tail(seq)
    BY <1>2 DEF Bounded
  <2>5. Len(Tail(seq)) <= Limit
    BY <2>2, CacheAssumption
  <2> QED
    BY <2>2, <2>3, <2>4, <2>5
<1> QED
  BY <1>1, <1>2, CacheAssumption, Len(seq) \in Nat

(***************************************************************************)
(* Types                                                                   *)
(***************************************************************************)
LEMMA EntryTypes ==
    /\ \A e \in Entry : e.gen \in Nat /\ e.key \in Key /\ e.rows \in Nat
                        /\ IdentityOf(e) \in Identity
    /\ \A g \in Nat, k \in Key, n \in Nat :
           /\ [gen |-> g, key |-> k] \in Identity
           /\ [gen |-> g, key |-> k, rows |-> n] \in Entry
BY DEF Entry, Identity, IdentityOf

LEMMA NoReaderType == NoReader \in Reader
BY DEF NoReader, Reader, Steps

\* What compute may leave behind.
LEMMA ComputeTypes ==
    ASSUME TypeOK, NEW r \in Readers, NEW f \in Reader, NEW gen \in Nat,
           NEW key \in Key, NEW then \in Steps, Compute(r, f, gen, key, then)
    PROVE  /\ values' \in Seq(Entry) /\ Len(values') <= Limit
           /\ tasks' \subseteq Entry
           /\ reader' \in [Readers -> Reader]
<1> DEFINE id == [gen |-> gen, key |-> key]
<1>1. id \in Identity /\ f.rows \in Nat /\ [gen |-> gen, key |-> key, rows |-> f.rows] \in Entry
  BY DEF Reader, Identity, Entry
<1>2. CASE Hit(r, f, id, then)
  <2>1. PICK i \in Cached(id) :
            /\ values' = Append(WithoutAt(values, i), values[i])
            /\ reader' = [reader EXCEPT ![r] = [f EXCEPT !.step = then, !.got = @ \cup {values[i].rows}]]
            /\ UNCHANGED tasks
    BY <1>2 DEF Hit
  <2>2. i \in 1 .. Len(values) /\ values \in Seq(Entry)
    BY <2>1 DEF Cached, TypeOK
  <2>3. values[i] \in Entry /\ values[i].rows \in Nat
    <3>1. values[i] \in Entry
      BY <2>2
    <3> QED
      BY <3>1, EntryTypes
  <2>4. [f EXCEPT !.step = then, !.got = @ \cup {values[i].rows}] \in Reader
    BY <2>3 DEF Reader
  <2>5. reader' \in [Readers -> Reader]
    BY <2>1, <2>4 DEF TypeOK
  <2>6. values' \in Seq(Entry) /\ Len(values') = Len(values)
    BY <2>1, <2>2, Moved
  <2> QED
    BY <2>1, <2>5, <2>6 DEF TypeOK
<1>3. CASE Miss(r, f, id)
  <2>1. [f EXCEPT !.waits = id] \in Reader
    BY <1>1 DEF Reader
  <2>2. reader' \in [Readers -> Reader]
    BY <1>3, <2>1 DEF Miss, TypeOK
  <2> QED
    BY <1>1, <1>3, <2>2 DEF Miss, TypeOK
<1> QED
  BY <1>2, <1>3 DEF Compute

\* The keys of the three computations.
LEMMA KeyTypes ==
    ASSUME TypeOK, NEW c \in Nat
    PROVE  TableKey \in Key /\ QualityKey(c) \in Key /\ GateKey(c) \in Key
BY DEF TypeOK, TableKey, QualityKey, GateKey, Key

LEMMA WithRowsTypes ==
    ASSUME TypeOK, NEW r \in Readers, NEW f \in Reader, NEW g \in Nat, g = generation,
           WithRows(r, f)
    PROVE  /\ values' \in Seq(Entry) /\ Len(values') <= Limit
           /\ tasks' \subseteq Entry
           /\ reader' \in [Readers -> Reader]
<1>1. CASE f.kind = "table"
  <2>1. [f EXCEPT !.step = "table"] \in Reader
    BY DEF Reader, Steps
  <2>2. Compute(r, [f EXCEPT !.step = "table"], generation, TableKey, "answered")
    BY <1>1 DEF WithRows
  <2>3. TableKey \in Key /\ "answered" \in Steps /\ generation \in Nat
    BY KeyTypes, 0 \in Nat DEF TypeOK, Steps
  <2> QED
    BY <2>1, <2>2, <2>3, ComputeTypes
<1>2. CASE f.kind # "table"
  <2>1. [f EXCEPT !.step = "state"] \in Reader
    BY DEF Reader, Steps
  <2>2. /\ reader' = [reader EXCEPT ![r] = [f EXCEPT !.step = "state"]]
        /\ UNCHANGED <<values, tasks>>
    BY <1>2 DEF WithRows
  <2> QED
    BY <2>1, <2>2 DEF TypeOK
<1> QED
  BY <1>1, <1>2

\* The results a finished task delivers, and the cache with its result.
LEMMA FinishTypes ==
    ASSUME TypeOK, NEW t \in tasks
    PROVE  /\ Put(t) \in Seq(Entry) /\ Len(Put(t)) <= Limit
           /\ Delivered(t) \in [Readers -> Reader]
<1>1. t \in Entry /\ t.rows \in Nat
  BY EntryTypes DEF TypeOK
<1>2. Put(t) \in Seq(Entry) /\ Len(Put(t)) <= Limit
  <2>1. CASE t.gen # generation
    BY <2>1 DEF Put, TypeOK
  <2>2. CASE t.gen = generation /\ Cached(IdentityOf(t)) # {}
    <3> DEFINE new == [i \in 1 .. Len(values) |-> IF i \in Cached(IdentityOf(t)) THEN t ELSE values[i]]
    <3>1. Put(t) = new
      BY <2>2 DEF Put
    <3>2. values \in Seq(Entry) /\ Len(values) \in Nat
      BY DEF TypeOK
    <3>3. new \in [1 .. Len(values) -> Entry]
      BY <1>1, <3>2
    <3>4. new \in Seq(Entry) /\ Len(new) = Len(values)
      BY <3>2, <3>3
    <3> HIDE DEF new
    <3> QED
      BY <3>1, <3>4 DEF TypeOK
  <2>3. CASE t.gen = generation /\ Cached(IdentityOf(t)) = {}
    <3> DEFINE long == Append(values, t)
    <3>1. long \in Seq(Entry) /\ Len(long) <= Limit + 1
      BY <1>1, CacheAssumption DEF TypeOK
    <3>2. Put(t) = Bounded(long)
      BY <2>3 DEF Put
    <3> HIDE DEF long
    <3> QED
      BY <3>1, <3>2, Capped
  <2> QED
    BY <2>1, <2>2, <2>3
<1>3. ASSUME NEW r \in Readers
      PROVE  [reader[r] EXCEPT !.step = After(@), !.waits = None, !.got = @ \cup {t.rows}] \in Reader
  <2>1. reader[r] \in Reader /\ After(reader[r].step) \in Steps
    BY DEF TypeOK, After, Steps
  <2> QED
    BY <1>1, <2>1 DEF Reader
<1>4. Delivered(t) \in [Readers -> Reader]
  BY <1>3 DEF Delivered, TypeOK
<1> QED
  BY <1>2, <1>4

LEMMA TypesBegin == Init => TypeOK
<1> SUFFICES ASSUME Init PROVE TypeOK
  OBVIOUS
<1>1. values \in Seq(Entry) /\ Len(values) <= Limit
  BY CacheAssumption DEF Init
<1>2. reader \in [Readers -> Reader]
  BY NoReaderType DEF Init
<1>3. writer \in Writer
  BY DEF Init, NoWriter, Writer
<1>4. budget \in [ops : 0 .. MaxOps, requests : 0 .. MaxRequests]
  BY CacheAssumption DEF Init
<1> QED
  BY <1>1, <1>2, <1>3, <1>4 DEF Init, TypeOK

\* The steps of the locked operations.
LEMMA TypesWrite == TypeOK /\ Write => TypeOK'
<1> SUFFICES ASSUME TypeOK, Write PROVE TypeOK'
  OBVIOUS
<1>1. /\ reader' \in [Readers -> Reader]
      /\ tasks' \subseteq Entry
      /\ plugin' \in {"up", "closed"}
  BY DEF Write, StartImport, Fill, Replace, DropCopy, Refresh, SetContract, PatchState,
         StartAnalysis, StartReset, Clear, ClearState, Forget, TypeOK
<1>2. values' \in Seq(Entry) /\ Len(values') <= Limit /\ generation' \in Nat
  <2>1. CASE UNCHANGED <<generation, values>>
    BY <2>1 DEF TypeOK
  <2>2. ASSUME NEW n \in {1, 2}, Invalidate(n) 
      PROVE  values' \in Seq(Entry) /\ Len(values') <= Limit /\ generation' \in Nat
    BY <2>2, CacheAssumption DEF Invalidate, TypeOK
  <2>3. UNCHANGED <<generation, values>> \/ Invalidate(1) \/ Invalidate(2)
    BY DEF Write, StartImport, Fill, Replace, DropCopy, Refresh, SetContract, PatchState,
           StartAnalysis, StartReset, Clear, ClearState, Forget
  <2> QED
    BY <2>1, <2>2, <2>3
<1>3. writer' \in Writer
  BY DEF Write, StartImport, Fill, Replace, DropCopy, Refresh, SetContract, PatchState,
         StartAnalysis, StartReset, Clear, ClearState, Forget, WriterGoes, NoWriter, Writer, TypeOK
<1>4. past' \in [reset : BOOLEAN, crossed : BOOLEAN]
      /\ budget' \in [ops : 0 .. MaxOps, requests : 0 .. MaxRequests]
  <2>1. CASE UNCHANGED <<past, budget>>
    BY <2>1 DEF TypeOK
  <2>2. ASSUME NEW kind \in {"import", "analysis", "reset"}, Start(kind)
      PROVE  /\ past' \in [reset : BOOLEAN, crossed : BOOLEAN]
             /\ budget' \in [ops : 0 .. MaxOps, requests : 0 .. MaxRequests]
    <3>1. past' \in [reset : BOOLEAN, crossed : BOOLEAN]
      <4>1. (past.reset \/ kind = "reset") \in BOOLEAN
        OBVIOUS
      <4> QED
        BY <2>2, <4>1 DEF Start, TypeOK
    <3>2. budget' \in [ops : 0 .. MaxOps, requests : 0 .. MaxRequests]
      BY <2>2, CacheAssumption DEF Start, TypeOK
    <3> QED
      BY <3>1, <3>2
  <2>3. UNCHANGED <<past, budget>> \/ \E kind \in {"import", "analysis", "reset"} : Start(kind)
    BY DEF Write, StartImport, Fill, Replace, DropCopy, Refresh, SetContract, PatchState,
           StartAnalysis, StartReset, Clear, ClearState, Forget
  <2> QED
    BY <2>1, <2>2, <2>3
<1>5. /\ stored' \in Nat /\ contract' \in Nat /\ state' \in Nat /\ done' \in Nat
      /\ copy' \in Nat \cup {None}
  <2>1. /\ stored \in Nat /\ contract \in Nat /\ state \in Nat /\ done \in Nat
        /\ copy \in Nat \cup {None}
    BY DEF TypeOK
  <2>2. stored' = stored \/ stored' = stored + 1
    BY DEF Write, StartImport, Fill, Replace, DropCopy, Refresh, SetContract, PatchState,
           StartAnalysis, StartReset, Clear, ClearState, Forget, NextVersion
  <2>3. contract' \in {contract, stored, 0} /\ state' \in {state, stored, 0} /\ done' \in {done, stored}
    BY DEF Write, StartImport, Fill, Replace, DropCopy, Refresh, SetContract, PatchState,
           StartAnalysis, StartReset, Clear, ClearState, Forget, NextVersion
  <2>4. copy' \in {copy, stored, None}
    BY DEF Write, StartImport, Fill, Replace, DropCopy, Refresh, SetContract, PatchState,
           StartAnalysis, StartReset, Clear, ClearState, Forget, NextVersion
  <2> QED
    BY <2>1, <2>2, <2>3, <2>4
<1> QED
  BY <1>1, <1>2, <1>3, <1>4, <1>5 DEF TypeOK

\* The steps of a request.
LEMMA TypesRequest == ASSUME TypeOK, NEW r \in Readers, Request(r) PROVE TypeOK'
<1>1. /\ budget' \in [ops : 0 .. MaxOps, requests : 0 .. MaxRequests]
      /\ UNCHANGED <<data, copy, plugin, past>>
  BY CacheAssumption DEF Request, TypeOK
<1>2. PICK kind \in {"table", "quality"} :
        \/ /\ copy # None
           /\ WithRows(r, [Opened(r, kind) EXCEPT !.rows = copy])
           /\ UNCHANGED generation
        \/ /\ copy = None
           /\ generation' = generation + 1
           /\ values' = <<>>
           /\ reader' = [reader EXCEPT ![r] = [Opened(r, kind) EXCEPT !.step = "called"]]
           /\ UNCHANGED tasks
  BY DEF Request
<1>3. Opened(r, kind) \in Reader
  BY DEF Opened, NoReader, Reader, Steps, TypeOK
<1>4. /\ values' \in Seq(Entry) /\ Len(values') <= Limit
      /\ tasks' \subseteq Entry /\ reader' \in [Readers -> Reader] /\ generation' \in Nat
  <2>1. CASE copy # None
    <3>1. [Opened(r, kind) EXCEPT !.rows = copy] \in Reader
      BY <1>3, <2>1 DEF Reader, TypeOK
    <3> QED
      BY <1>2, <2>1, <3>1, WithRowsTypes DEF TypeOK
  <2>2. CASE copy = None
    <3>1. [Opened(r, kind) EXCEPT !.step = "called"] \in Reader
      BY <1>3 DEF Reader, Steps
    <3>2. <<>> \in Seq(Entry) /\ Len(<<>>) = 0
      OBVIOUS
    <3> QED
      BY <1>2, <2>2, <3>1, <3>2, CacheAssumption DEF TypeOK
  <2> QED
    BY <2>1, <2>2
<1> QED
  BY <1>1, <1>4 DEF TypeOK, data

LEMMA TypesGo == ASSUME TypeOK, NEW r \in Readers, Go(r) PROVE TypeOK'
<1>1. reader[r] \in Reader
  BY DEF TypeOK
<1>2. CASE SlowLoad(r)
  <2>1. [reader[r] EXCEPT !.step = "loaded", !.rows = stored] \in Reader
    BY <1>1 DEF Reader, Steps, TypeOK
  <2>2. reader' = [reader EXCEPT ![r] = [reader[r] EXCEPT !.step = "loaded", !.rows = stored]]
    BY <1>2 DEF SlowLoad, TypeOK
  <2> QED
    BY <1>2, <2>1, <2>2 DEF SlowLoad, TypeOK, data
<1>3. CASE EndLoad(r)
  <2>1. copy' \in Nat
    BY <1>1, <1>3 DEF EndLoad, TypeOK, Reader
  <2>2. [reader[r] EXCEPT !.rows = copy'] \in Reader
    BY <1>1, <2>1 DEF Reader
  <2>3. /\ values' \in Seq(Entry) /\ Len(values') <= Limit
        /\ tasks' \subseteq Entry /\ reader' \in [Readers -> Reader]
    BY <1>3, <2>2, WithRowsTypes DEF EndLoad, TypeOK
  <2>4. past' \in [reset : BOOLEAN, crossed : BOOLEAN]
    BY <1>3 DEF EndLoad, TypeOK
  <2> QED
    BY <1>3, <2>1, <2>3, <2>4 DEF EndLoad, TypeOK, data
<1>4. CASE ReadState(r)
  <2>1. KnownContract \in Nat
    BY DEF KnownContract, TypeOK
  <2>2. [reader[r] EXCEPT !.step = "quality", !.contract = KnownContract] \in Reader
    BY <1>1, <2>1 DEF Reader, Steps
  <2>3. /\ values' \in Seq(Entry) /\ Len(values') <= Limit
        /\ tasks' \subseteq Entry /\ reader' \in [Readers -> Reader]
    <3>1. QualityKey(KnownContract) \in Key /\ "ask_gate" \in Steps /\ generation \in Nat
      BY <2>1, KeyTypes DEF Steps, TypeOK
    <3> QED
      BY <1>4, <2>2, <3>1, ComputeTypes DEF ReadState
  <2> QED
    BY <1>4, <2>3 DEF ReadState, TypeOK, data
<1>5. CASE AskGate(r)
  <2>1. [reader[r] EXCEPT !.step = "gate"] \in Reader /\ reader[r].contract \in Nat
    BY <1>1 DEF Reader, Steps
  <2>2. /\ values' \in Seq(Entry) /\ Len(values') <= Limit
        /\ tasks' \subseteq Entry /\ reader' \in [Readers -> Reader]
    <3>1. GateKey(reader[r].contract) \in Key /\ "answered" \in Steps /\ generation \in Nat
      BY <2>1, KeyTypes DEF Steps, TypeOK
    <3> QED
      BY <1>5, <2>1, <3>1, ComputeTypes DEF AskGate
  <2> QED
    BY <1>5, <2>2 DEF AskGate, TypeOK, data
<1>6. CASE Answer(r)
  BY <1>6, NoReaderType DEF Answer, TypeOK, data
<1> QED
  BY <1>2, <1>3, <1>4, <1>5, <1>6 DEF Go

LEMMA TypesKept == TypeOK /\ [Next]_vars => TypeOK'
<1> SUFFICES ASSUME TypeOK, [Next]_vars PROVE TypeOK'
  OBVIOUS
<1>1. CASE Write
  BY <1>1, TypesWrite
<1>2. CASE Close
  <2>1. generation' \in Nat /\ values' \in Seq(Entry) /\ Len(values') <= Limit
    BY <1>2, CacheAssumption DEF Close, Invalidate, TypeOK
  <2>2. reader' \in [Readers -> Reader]
    BY <1>2, NoReaderType DEF Close, TypeOK
  <2> QED
    BY <1>2, <2>1, <2>2 DEF Close, TypeOK, data
<1>3. ASSUME NEW r \in Readers, Request(r) \/ Go(r) \/ Leave(r) PROVE TypeOK'
  <2>1. CASE Leave(r)
    BY <2>1, NoReaderType DEF Leave, TypeOK, data
  <2> QED
    BY <1>3, <2>1, TypesRequest, TypesGo
<1>4. ASSUME NEW t \in tasks, Finish(t) \/ Fail(t) PROVE TypeOK'
  <2>1. CASE Finish(t)
    <3>1. /\ values' \in Seq(Entry) /\ Len(values') <= Limit
          /\ reader' \in [Readers -> Reader]
      BY <2>1, FinishTypes DEF Finish
    <3> QED
      BY <2>1, <3>1 DEF Finish, TypeOK, data
  <2>2. CASE Fail(t)
    <3>1. reader' \in [Readers -> Reader]
      BY <2>2, NoReaderType DEF Fail, TypeOK
    <3> QED
      BY <2>2, <3>1 DEF Fail, TypeOK, data
  <2> QED
    BY <1>4, <2>1, <2>2
<1>5. CASE UNCHANGED vars
  BY <1>5 DEF vars, TypeOK
<1> QED
  BY <1>1, <1>2, <1>3, <1>4, <1>5 DEF Next

\* The cache never holds more than its limit, and every variable its type.
THEOREM CacheTypes == Spec => []TypeOK
BY TypesBegin, TypesKept, PTL DEF Spec

(***************************************************************************)
(* One value, one task, no lost waiter                                     *)
(***************************************************************************)
\* No task belongs to a generation that has not begun.
TasksAreKnown == \A t \in tasks : t.gen <= generation

CacheInv == OneCurrentValue /\ SingleFlight /\ NobodyWaitsForNothing /\ TasksAreKnown

\* A reader's frame waits for nothing, or for a task that runs.
Attended(f) == f.waits # None => \E t \in tasks : IdentityOf(t) = f.waits

\* The tasks after compute.
LEMMA ComputeTasks ==
    ASSUME NEW r, NEW f, NEW gen, NEW key, NEW then, Compute(r, f, gen, key, then)
    PROVE  \/ tasks' = tasks
           \/ /\ tasks' = tasks \cup {[gen |-> gen, key |-> key, rows |-> f.rows]}
              /\ \A t \in tasks : IdentityOf(t) # [gen |-> gen, key |-> key]
BY DEF Compute, Hit, Miss

LEMMA ComputeValues ==
    ASSUME TypeOK, OneCurrentValue, generation' = generation, NEW r, NEW f,
           NEW key, NEW then, Compute(r, f, generation, key, then)
    PROVE  /\ OneCurrentValue'
           /\ \A a \in 1 .. Len(values') : \E b \in 1 .. Len(values) : values'[a] = values[b]
<1> DEFINE id == [gen |-> generation, key |-> key]
<1>0. values \in Seq(Entry) /\ Len(values) \in Nat
  BY DEF TypeOK
<1>1. CASE Hit(r, f, id, then)
  <2>1. PICK i \in Cached(id) : values' = Append(WithoutAt(values, i), values[i])
    BY <1>1 DEF Hit
  <2>2. i \in 1 .. Len(values)
    BY <2>1 DEF Cached
  <2> DEFINE from(a) == IF a = Len(values) THEN i ELSE IF a < i THEN a ELSE a + 1
  <2>3. Len(values') = Len(values)
    BY <2>1, <2>2, <1>0, Moved
  <2>4. \A a \in 1 .. Len(values) :
            values'[a] = IF a = Len(values) THEN values[i]
                         ELSE IF a < i THEN values[a] ELSE values[a + 1]
    BY <2>1, <2>2, <1>0, Moved
  <2>5. \A a \in 1 .. Len(values') : from(a) \in 1 .. Len(values) /\ values'[a] = values[from(a)]
    BY <1>0, <2>2, <2>3, <2>4
  <2>6. \A a, b \in 1 .. Len(values') : from(a) = from(b) => a = b
    BY <1>0, <2>2, <2>3
  <2> HIDE DEF from
  <2>7. OneCurrentValue'
    BY <2>5, <2>6 DEF OneCurrentValue
  <2> QED
    BY <2>5, <2>7
<1>2. CASE Miss(r, f, id)
  BY <1>2 DEF Miss, OneCurrentValue
<1> QED
  BY <1>1, <1>2 DEF Compute

\* compute keeps the invariant.
LEMMA ComputeInv ==
    ASSUME TypeOK, CacheInv, generation' = generation, NEW r \in Readers, NEW f \in Reader,
           Attended(f), NEW key \in Key, NEW then \in Steps,
           Compute(r, f, generation, key, then)
    PROVE  CacheInv'
<1> DEFINE id == [gen |-> generation, key |-> key]
<1> DEFINE new == [gen |-> generation, key |-> key, rows |-> f.rows]
<1>1. OneCurrentValue'
  BY ComputeValues DEF CacheInv
<1>2. IdentityOf(new) = id /\ new.gen = generation /\ generation \in Nat
  BY DEF IdentityOf, TypeOK
<1>3. \/ tasks' = tasks
      \/ tasks' = tasks \cup {new} /\ \A t \in tasks : IdentityOf(t) # id
  BY ComputeTasks
<1> HIDE DEF new
<1>4. SingleFlight' /\ TasksAreKnown'
  <2>1. CASE tasks' = tasks
    BY <2>1 DEF CacheInv, SingleFlight, TasksAreKnown
  <2>2. CASE tasks' = tasks \cup {new} /\ \A t \in tasks : IdentityOf(t) # id
    <3>1. SingleFlight'
      BY <1>2, <2>2 DEF CacheInv, SingleFlight
    <3>2. TasksAreKnown'
      BY <1>2, <2>2 DEF CacheInv, TasksAreKnown
    <3> QED
      BY <3>1, <3>2
  <2> QED
    BY <1>3, <2>1, <2>2
<1>5. NobodyWaitsForNothing'
  <2>1. tasks \subseteq tasks'
    BY <1>3
  <2>2. /\ reader' \in [Readers -> Reader]
        /\ \A q \in Readers : q # r => reader'[q] = reader[q]
        /\ \/ reader'[r].waits = f.waits
           \/ reader'[r].waits = id /\ \E t \in tasks' : IdentityOf(t) = id
    <3>1. CASE Hit(r, f, id, then)
      <4>1. PICK e : reader' = [reader EXCEPT ![r] = [f EXCEPT !.step = then, !.got = @ \cup {e}]]
        BY <3>1 DEF Hit
      <4>2. [f EXCEPT !.step = then, !.got = @ \cup {e}].waits = f.waits
        BY DEF Reader
      <4> QED
        BY <4>1, <4>2, ComputeTypes DEF TypeOK
    <3>2. CASE Miss(r, f, id)
      <4>1. reader' = [reader EXCEPT ![r] = [f EXCEPT !.waits = id]]
        BY <3>2 DEF Miss
      <4>2. [f EXCEPT !.waits = id].waits = id
        BY DEF Reader
      <4>3. \E t \in tasks' : IdentityOf(t) = id
        BY <1>2, <3>2 DEF Miss, new
      <4> QED
        BY <4>1, <4>2, <4>3, ComputeTypes DEF TypeOK
    <3> QED
      BY <3>1, <3>2 DEF Compute
  <2> HIDE DEF id
  <2>3. ASSUME NEW q \in Readers, reader'[q].waits # None
        PROVE  \E t \in tasks' : IdentityOf(t) = reader'[q].waits
    <3>1. CASE q # r
      BY <2>1, <2>2, <2>3, <3>1 DEF CacheInv, NobodyWaitsForNothing
    <3>2. CASE q = r /\ reader'[r].waits = f.waits
      BY <2>1, <2>3, <3>2 DEF Attended
    <3> QED
      BY <2>2, <3>1, <3>2
  <2> QED
    BY <2>3 DEF NobodyWaitsForNothing
<1> QED
  BY <1>1, <1>4, <1>5 DEF CacheInv

\* Dropping the first entry keeps the entries distinct and current.
LEMMA BoundedValues ==
    ASSUME NEW seq \in Seq(Entry), Len(seq) <= Limit + 1, NEW gen,
           \A a, b \in 1 .. Len(seq) : seq[a].gen = gen /\ (seq[a].key = seq[b].key => a = b)
    PROVE  \A a, b \in 1 .. Len(Bounded(seq)) :
               /\ Bounded(seq)[a].gen = gen
               /\ Bounded(seq)[a].key = Bounded(seq)[b].key => a = b
<1>1. CASE Bounded(seq) = seq
  BY <1>1
<1>2. CASE /\ Len(Bounded(seq)) = Len(seq) - 1
           /\ \A a \in 1 .. Len(Bounded(seq)) : Bounded(seq)[a] = seq[a + 1]
  <2>1. \A a \in 1 .. Len(Bounded(seq)) :
            a \in Int /\ a + 1 \in 1 .. Len(seq) /\ Bounded(seq)[a] = seq[a + 1]
    BY <1>2
  <2> QED
    BY <2>1
<1> QED
  BY <1>1, <1>2, Capped

LEMMA PutValues ==
    ASSUME TypeOK, OneCurrentValue, NEW t \in tasks, values' = Put(t), generation' = generation
    PROVE  OneCurrentValue'
<1>0. /\ values \in Seq(Entry) /\ Len(values) \in Nat /\ Len(values) <= Limit
      /\ t \in Entry /\ IdentityOf(t) = [gen |-> t.gen, key |-> t.key]
  BY DEF TypeOK, IdentityOf
<1>1. CASE t.gen # generation
  BY <1>1 DEF Put, OneCurrentValue
<1>2. CASE t.gen = generation /\ Cached(IdentityOf(t)) # {}
  <2> DEFINE new == [a \in 1 .. Len(values) |-> IF a \in Cached(IdentityOf(t)) THEN t ELSE values[a]]
  <2>1. values' = new
    BY <1>2 DEF Put
  <2>2. \A a \in 1 .. Len(values) : new[a] \in Entry
    BY <1>0
  <2>3. new \in Seq(Entry) /\ Len(new) = Len(values)
    BY <1>0, <2>2
  <2>4. \A a \in 1 .. Len(values) : new[a].gen = values[a].gen /\ new[a].key = values[a].key
    BY DEF Cached, IdentityOf
  <2> HIDE DEF new
  <2> QED
    BY <2>1, <2>3, <2>4 DEF OneCurrentValue
<1>3. CASE t.gen = generation /\ Cached(IdentityOf(t)) = {}
  <2> DEFINE long == Append(values, t)
  <2>1. long \in Seq(Entry) /\ Len(long) = Len(values) + 1
    BY <1>0
  <2>2. \A a \in 1 .. Len(long) : a \in Nat /\ long[a] = IF a <= Len(values) THEN values[a] ELSE t
    BY <1>0
  <2>3. \A a \in 1 .. Len(values) : values[a].gen = generation /\ values[a].key # t.key
    BY <1>0, <1>3 DEF OneCurrentValue, Cached, IdentityOf
  <2>4. values' = Bounded(long)
    BY <1>3 DEF Put
  <2> HIDE DEF long
  <2>5. \A a, b \in 1 .. Len(long) :
            long[a].gen = generation /\ (long[a].key = long[b].key => a = b)
    BY <1>0, <1>3, <2>1, <2>2, <2>3 DEF OneCurrentValue
  <2>6. Len(long) <= Limit + 1
    BY <1>0, <2>1, CacheAssumption
  <2> QED
    <3>1. \A a, b \in 1 .. Len(Bounded(long)) :
              /\ Bounded(long)[a].gen = generation
              /\ Bounded(long)[a].key = Bounded(long)[b].key => a = b
      BY <2>1, <2>5, <2>6, BoundedValues
    <3> QED
      BY <2>4, <3>1 DEF OneCurrentValue
<1> QED
  BY <1>1, <1>2, <1>3

\* A new generation has no values, and every task is of an earlier one.
LEMMA InvalidateInv ==
    ASSUME TypeOK, CacheInv, NEW n \in {1, 2}, Invalidate(n), UNCHANGED <<tasks, reader>>
    PROVE  CacheInv'
<1>1. generation' = generation + n /\ values' = <<>> /\ generation \in Nat
  BY DEF Invalidate, TypeOK
<1>2. OneCurrentValue'
  BY <1>1 DEF OneCurrentValue
<1>3. TasksAreKnown'
  <2>1. \A t \in tasks : t.gen \in Nat
    BY EntryTypes DEF TypeOK
  <2> QED
    BY <1>1, <2>1 DEF CacheInv, TasksAreKnown
<1> QED
  BY <1>2, <1>3 DEF CacheInv, SingleFlight, NobodyWaitsForNothing

LEMMA WithRowsInv ==
    ASSUME TypeOK, CacheInv, generation' = generation, NEW r \in Readers, NEW f \in Reader,
           Attended(f), WithRows(r, f)
    PROVE  CacheInv'
<1>1. CASE f.kind = "table"
  <2>1. [f EXCEPT !.step = "table"] \in Reader /\ [f EXCEPT !.step = "table"].waits = f.waits
    BY DEF Reader, Steps
  <2>2. Attended([f EXCEPT !.step = "table"])
    BY <2>1 DEF Attended
  <2>3. Compute(r, [f EXCEPT !.step = "table"], generation, TableKey, "answered")
    BY <1>1 DEF WithRows
  <2>4. TableKey \in Key /\ "answered" \in Steps
    BY KeyTypes, 0 \in Nat DEF Steps
  <2> QED
    BY <2>1, <2>2, <2>3, <2>4, ComputeInv
<1>2. CASE f.kind # "table"
  <2>1. reader' = [reader EXCEPT ![r] = [f EXCEPT !.step = "state"]] /\ UNCHANGED <<values, tasks>>
    BY <1>2 DEF WithRows
  <2>2. [f EXCEPT !.step = "state"].waits = f.waits
    BY DEF Reader
  <2>3. NobodyWaitsForNothing'
    BY <2>1, <2>2 DEF CacheInv, NobodyWaitsForNothing, Attended, TypeOK
  <2> QED
    BY <2>1, <2>3 DEF CacheInv, OneCurrentValue, SingleFlight, TasksAreKnown
<1> QED
  BY <1>1, <1>2

\* Replacing frames by attended ones, with the tasks and values as they are.
LEMMA FramesInv ==
    ASSUME TypeOK, CacheInv, UNCHANGED <<generation, values, tasks>>,
           \A q \in Readers : reader'[q].waits \in {None, reader[q].waits}
    PROVE  CacheInv'
BY DEF CacheInv, OneCurrentValue, SingleFlight, NobodyWaitsForNothing, TasksAreKnown

LEMMA CacheGo ==
    ASSUME TypeOK, CacheInv, NEW r \in Readers, Go(r) PROVE CacheInv'
<1>1. reader[r] \in Reader /\ Attended(reader[r])
  BY DEF TypeOK, Attended, CacheInv, NobodyWaitsForNothing
<1>2. CASE SlowLoad(r)
  <2>1. [reader[r] EXCEPT !.step = "loaded", !.rows = stored].waits = reader[r].waits
    BY <1>1 DEF Reader
  <2>2. reader' = [reader EXCEPT ![r] = [reader[r] EXCEPT !.step = "loaded", !.rows = stored]]
    BY <1>2 DEF SlowLoad, TypeOK
  <2>3. \A q \in Readers : reader'[q].waits \in {None, reader[q].waits}
    BY <2>1, <2>2 DEF TypeOK
  <2> QED
    BY <1>2, <2>3, FramesInv DEF SlowLoad
<1>3. CASE EndLoad(r)
  <2>1. copy' \in Nat
    BY <1>1, <1>3 DEF EndLoad, TypeOK, Reader
  <2>2. /\ [reader[r] EXCEPT !.rows = copy'] \in Reader
        /\ [reader[r] EXCEPT !.rows = copy'].waits = reader[r].waits
    BY <1>1, <2>1 DEF Reader
  <2>3. Attended([reader[r] EXCEPT !.rows = copy'])
    BY <1>1, <2>2 DEF Attended
  <2> QED
    BY <1>3, <2>2, <2>3, WithRowsInv DEF EndLoad
<1>4. CASE ReadState(r)
  <2> DEFINE f == [reader[r] EXCEPT !.step = "quality", !.contract = KnownContract]
  <2>1. KnownContract \in Nat
    BY DEF KnownContract, TypeOK
  <2>2. f \in Reader /\ f.waits = reader[r].waits
    BY <1>1, <2>1 DEF Reader, Steps
  <2>3. Compute(r, f, generation, QualityKey(KnownContract), "ask_gate")
    BY <1>4 DEF ReadState
  <2>4. QualityKey(KnownContract) \in Key /\ "ask_gate" \in Steps /\ generation' = generation
    BY <1>4, <2>1, KeyTypes DEF Steps, ReadState
  <2> HIDE DEF f
  <2>5. Attended(f)
    BY <1>1, <2>2 DEF Attended
  <2> QED
    BY <2>2, <2>3, <2>4, <2>5, ComputeInv
<1>5. CASE AskGate(r)
  <2> DEFINE f == [reader[r] EXCEPT !.step = "gate"]
  <2>2. f \in Reader /\ f.waits = reader[r].waits /\ reader[r].contract \in Nat
    BY <1>1 DEF Reader, Steps
  <2>3. Compute(r, f, generation, GateKey(reader[r].contract), "answered")
    BY <1>5 DEF AskGate
  <2>4. GateKey(reader[r].contract) \in Key /\ "answered" \in Steps /\ generation' = generation
    BY <1>5, <2>2, KeyTypes DEF Steps, AskGate
  <2> HIDE DEF f
  <2>5. Attended(f)
    BY <1>1, <2>2 DEF Attended
  <2> QED
    BY <2>2, <2>3, <2>4, <2>5, ComputeInv
<1>6. CASE Answer(r)
  <2>1. \A q \in Readers : reader'[q].waits \in {None, reader[q].waits}
    BY <1>6 DEF Answer, NoReader, TypeOK
  <2> QED
    BY <1>6, <2>1, FramesInv DEF Answer
<1> QED
  BY <1>2, <1>3, <1>4, <1>5, <1>6 DEF Go

LEMMA CacheRequest ==
    ASSUME TypeOK, CacheInv, NEW r \in Readers, Request(r) PROVE CacheInv'
<1>1. PICK kind \in {"table", "quality"} :
        \/ /\ copy # None
           /\ WithRows(r, [Opened(r, kind) EXCEPT !.rows = copy])
           /\ UNCHANGED generation
        \/ /\ copy = None
           /\ generation' = generation + 1
           /\ values' = <<>>
           /\ reader' = [reader EXCEPT ![r] = [Opened(r, kind) EXCEPT !.step = "called"]]
           /\ UNCHANGED tasks
  BY DEF Request
<1>2. Opened(r, kind) \in Reader /\ Opened(r, kind).waits = None
  BY DEF Opened, NoReader, Reader, Steps, TypeOK
<1>3. CASE copy # None
  <2>1. /\ [Opened(r, kind) EXCEPT !.rows = copy] \in Reader
        /\ [Opened(r, kind) EXCEPT !.rows = copy].waits = None
    BY <1>2, <1>3 DEF Reader, TypeOK
  <2>2. Attended([Opened(r, kind) EXCEPT !.rows = copy])
    BY <2>1 DEF Attended
  <2> QED
    BY <1>1, <1>3, <2>1, <2>2, WithRowsInv
<1>4. CASE copy = None
  <2>1. [Opened(r, kind) EXCEPT !.step = "called"].waits = None
    BY <1>2 DEF Reader
  <2>2. /\ \A q \in Readers : reader'[q].waits \in {None, reader[q].waits}
        /\ generation' = generation + 1 /\ values' = <<>> /\ tasks' = tasks
    BY <1>1, <1>4, <2>1 DEF TypeOK
  <2>3. NobodyWaitsForNothing'
    BY <2>2 DEF CacheInv, NobodyWaitsForNothing
  <2>4. TasksAreKnown'
    <3>1. \A t \in tasks : t.gen \in Nat
      BY EntryTypes DEF TypeOK
    <3> QED
      BY <2>2, <3>1 DEF CacheInv, TasksAreKnown, TypeOK
  <2> QED
    BY <2>2, <2>3, <2>4 DEF CacheInv, OneCurrentValue, SingleFlight
<1> QED
  BY <1>3, <1>4

\* A task that ends, and what its waiters do.
LEMMA CacheTask ==
    ASSUME TypeOK, CacheInv, NEW t \in tasks, Finish(t) \/ Fail(t) PROVE CacheInv'
<1>1. tasks' = tasks \ {t} /\ generation' = generation
  BY DEF Finish, Fail
<1>2. \A q \in Readers : reader'[q].waits = IF q \in Waiting(t) THEN None ELSE reader[q].waits
  <2>1. ASSUME NEW q \in Readers
        PROVE  [reader[q] EXCEPT !.step = After(@), !.waits = None, !.got = @ \cup {t.rows}].waits = None
    <3>1. reader[q] \in Reader
      BY DEF TypeOK
    <3> QED
      BY <3>1 DEF Reader
  <2>2. NoReader.waits = None
    BY DEF NoReader
  <2> QED
    BY <2>1, <2>2 DEF Finish, Fail, Delivered
<1>3. NobodyWaitsForNothing'
  <2> SUFFICES ASSUME NEW q \in Readers, reader'[q].waits # None
               PROVE  \E u \in tasks' : IdentityOf(u) = reader'[q].waits
    BY DEF NobodyWaitsForNothing
  <2>1. q \notin Waiting(t) /\ reader'[q].waits = reader[q].waits
    BY <1>2
  <2>2. PICK u \in tasks : IdentityOf(u) = reader[q].waits
    BY <2>1 DEF CacheInv, NobodyWaitsForNothing
  <2> QED
    BY <1>1, <2>1, <2>2 DEF Waiting
<1>4. OneCurrentValue'
  <2>1. CASE Finish(t)
    BY <2>1, PutValues DEF Finish, CacheInv
  <2>2. CASE Fail(t)
    BY <2>2 DEF Fail, CacheInv, OneCurrentValue
  <2> QED
    BY <2>1, <2>2
<1> QED
  BY <1>1, <1>3, <1>4 DEF CacheInv, SingleFlight, TasksAreKnown

LEMMA CacheKept == TypeOK /\ CacheInv /\ [Next]_vars => CacheInv'
<1> SUFFICES ASSUME TypeOK, CacheInv, [Next]_vars PROVE CacheInv'
  OBVIOUS
<1>1. CASE Write
  <2>1. UNCHANGED <<tasks, reader>>
        /\ (UNCHANGED <<generation, values>> \/ Invalidate(1) \/ Invalidate(2))
    BY <1>1 DEF Write, StartImport, Fill, Replace, DropCopy, Refresh, SetContract, PatchState,
                StartAnalysis, StartReset, Clear, ClearState, Forget
  <2>2. CASE UNCHANGED <<generation, values>>
    BY <2>1, <2>2, FramesInv
  <2> QED
    BY <2>1, <2>2, InvalidateInv
<1>2. CASE Close
  <2>1. \A q \in Readers : reader'[q].waits = None
    BY <1>2 DEF Close, NoReader
  <2> QED
    BY <1>2, <2>1 DEF Close, Invalidate, CacheInv, OneCurrentValue, SingleFlight,
                      NobodyWaitsForNothing, TasksAreKnown
<1>3. ASSUME NEW r \in Readers, Request(r) \/ Go(r) \/ Leave(r) PROVE CacheInv'
  <2>1. CASE Leave(r)
    <3>1. \A q \in Readers : reader'[q].waits \in {None, reader[q].waits}
      BY <2>1 DEF Leave, NoReader, TypeOK
    <3> QED
      BY <2>1, <3>1, FramesInv DEF Leave
  <2> QED
    BY <1>3, <2>1, CacheRequest, CacheGo
<1>4. ASSUME NEW t \in tasks, Finish(t) \/ Fail(t) PROVE CacheInv'
  BY <1>4, CacheTask
<1>5. CASE UNCHANGED vars
  BY <1>5 DEF vars, CacheInv, OneCurrentValue, SingleFlight, NobodyWaitsForNothing, TasksAreKnown
<1> QED
  BY <1>1, <1>2, <1>3, <1>4, <1>5 DEF Next

LEMMA CacheBegin == Init => CacheInv
<1> SUFFICES ASSUME Init PROVE CacheInv
  OBVIOUS
<1>1. \A q \in Readers : reader[q].waits = None
  BY DEF Init, NoReader
<1> QED
  BY <1>1 DEF Init, CacheInv, OneCurrentValue, SingleFlight, NobodyWaitsForNothing, TasksAreKnown

LEMMA CacheInvariant == Spec => [](TypeOK /\ CacheInv)
<1>1. Init => TypeOK /\ CacheInv
  BY TypesBegin, CacheBegin
<1>2. TypeOK /\ CacheInv /\ [Next]_vars => (TypeOK /\ CacheInv)'
  BY TypesKept, CacheKept
<1> QED
  BY <1>1, <1>2, PTL DEF Spec

\* A late result of an older generation is never stored, and a key is stored
\* once: compute's check of the generation after its await.
THEOREM CurrentValues == Spec => []OneCurrentValue
<1>1. CacheInv => OneCurrentValue
  BY DEF CacheInv
<1> QED
  BY <1>1, CacheInvariant, PTL

\* However many requests miss, one computation runs for a key and a generation.
THEOREM OneFlight == Spec => []SingleFlight
<1>1. CacheInv => SingleFlight
  BY DEF CacheInv
<1> QED
  BY <1>1, CacheInvariant, PTL

\* A task ends, fails or is cancelled only together with the awaits on it.
THEOREM WaitersAreServed == Spec => []NobodyWaitsForNothing
<1>1. CacheInv => NobodyWaitsForNothing
  BY DEF CacheInv
<1> QED
  BY <1>1, CacheInvariant, PTL

(***************************************************************************)
(* Freshness of the tables                                                 *)
(*                                                                         *)
(* While an import has the new rows in the store and not yet ended, the    *)
(* results of its new generation must already be of those rows (Due): the  *)
(* import ends without another invalidation.                               *)
(***************************************************************************)
Plain == ~past.reset /\ ~past.crossed

Due == IF writer.kind = "import" /\ writer.step \in {"refresh", "contract", "state"}
       THEN stored ELSE done

WriterSteps ==
    writer \in {NoWriter, [kind |-> "analysis", step |-> "refresh"]}
        \cup [kind : {"import"},
              step : {"fill", "write", "drop", "refresh", "contract", "state"}]

CopyFresh ==
    /\ done <= stored
    /\ copy # None => copy >= done /\ (Writing("import", "drop") \/ copy = stored)

ResultsFresh ==
    /\ \A a \in 1 .. Len(values) : values[a].key.name = "table" => values[a].rows >= Due
    /\ \A t \in tasks : t.gen = generation /\ t.key.name = "table" => t.rows >= Due

ReaderFresh(f) ==
    /\ f.since <= done
    /\ f.kind = "table" =>
        /\ f.step \notin {"state", "quality", "gate", "ask_gate"}
        /\ \A n \in f.got : n >= f.since
        /\ f.waits # None => f.waits.key.name = "table"
        /\ \A t \in tasks : IdentityOf(t) = f.waits => t.rows >= f.since

ReadersFresh == \A r \in Readers : ReaderFresh(reader[r])

FreshInv == Plain => WriterSteps /\ CopyFresh /\ ResultsFresh /\ ReadersFresh

LEMMA DueFacts ==
    ASSUME TypeOK, CopyFresh PROVE Due \in Nat /\ done \in Nat /\ done <= Due
BY DEF TypeOK, CopyFresh, Due

\* Rows a request finds or loads are due, so what it computes or joins is.
LEMMA ComputeFresh ==
    ASSUME TypeOK, CacheInv, CopyFresh, ResultsFresh, ReadersFresh,
           UNCHANGED <<generation, writer, stored, done>>,
           NEW r \in Readers, NEW f \in Reader, ReaderFresh(f),
           NEW key \in Key, NEW then \in Steps,
           f.kind = "table" => key.name = "table" /\ f.rows >= Due /\ then = "answered",
           f.kind # "table" => key.name # "table",
           Compute(r, f, generation, key, then)
    PROVE  ResultsFresh' /\ ReadersFresh'
<1> DEFINE id == [gen |-> generation, key |-> key]
<1> DEFINE new == [gen |-> generation, key |-> key, rows |-> f.rows]
<1>0. Due \in Nat /\ done \in Nat /\ done <= Due /\ Due' = Due /\ f.since \in Nat /\ f.rows \in Nat
  BY DueFacts DEF Due, Reader
<1>1. IdentityOf(new) = id /\ new.gen = generation /\ new.key = key /\ new.rows = f.rows
  BY DEF IdentityOf
<1>2. \/ tasks' = tasks
      \/ tasks' = tasks \cup {new} /\ \A t \in tasks : IdentityOf(t) # id
  BY ComputeTasks
<1> HIDE DEF new
<1>3. ResultsFresh'
  <2>1. \A a \in 1 .. Len(values') : \E b \in 1 .. Len(values) : values'[a] = values[b]
    BY ComputeValues DEF CacheInv
  <2>2. new.key.name = "table" => new.rows >= Due
    BY <1>1, <1>0 DEF Reader
  <2> QED
    BY <1>0, <1>2, <2>1, <2>2 DEF ResultsFresh
<1>4. ASSUME NEW q \in Readers, q # r PROVE ReaderFresh(reader[q])'
  <2>1. reader'[q] = reader[q]
    BY <1>4 DEF Compute, Hit, Miss, TypeOK
  <2>2. ASSUME NEW t \in tasks', IdentityOf(t) = reader[q].waits PROVE t \in tasks
    <3>1. CASE tasks' = tasks \cup {new} /\ \A u \in tasks : IdentityOf(u) # id
      <4>1. id # None
        BY CacheAssumption, <1>1, reader[q] \in Reader DEF TypeOK, Reader, Identity
      <4> QED
        BY <1>1, <2>2, <3>1, <4>1 DEF CacheInv, NobodyWaitsForNothing
    <3> QED
      BY <1>2, <2>2, <3>1
  <2> QED
    BY <2>1, <2>2 DEF ReadersFresh, ReaderFresh
<1>5. ReaderFresh(reader[r])'
  <2>1. CASE Hit(r, f, id, then)
    <3>1. PICK i \in Cached(id) :
              reader' = [reader EXCEPT ![r] = [f EXCEPT !.step = then, !.got = @ \cup {values[i].rows}]]
      BY <2>1 DEF Hit
    <3> DEFINE g == [f EXCEPT !.step = then, !.got = @ \cup {values[i].rows}]
    <3>2. /\ g.since = f.since /\ g.kind = f.kind /\ g.waits = f.waits
          /\ g.step = then /\ g.got = f.got \cup {values[i].rows}
      BY DEF Reader
    <3> HIDE DEF g
    <3>3. reader'[r] = g /\ tasks' = tasks
      BY <2>1, <3>1 DEF Hit, TypeOK, g
    <3>4. f.kind = "table" => values[i].rows >= f.since
      <4>1. i \in 1 .. Len(values) /\ values[i].key = key /\ values[i] \in Entry
        BY DEF Cached, IdentityOf, TypeOK
      <4>2. f.kind = "table" => values[i].rows >= Due
        BY <4>1 DEF ResultsFresh
      <4> QED
        BY <1>0, <4>1, <4>2, EntryTypes DEF ReaderFresh
    <3> QED
      BY <3>2, <3>3, <3>4 DEF ReaderFresh
  <2>2. CASE Miss(r, f, id)
    <3> DEFINE g == [f EXCEPT !.waits = id]
    <3>1. /\ g.since = f.since /\ g.kind = f.kind /\ g.waits = id
          /\ g.step = f.step /\ g.got = f.got
      BY DEF Reader
    <3> HIDE DEF g
    <3>2. reader'[r] = g
      BY <2>2 DEF Miss, TypeOK, g
    <3>3. ASSUME NEW t \in tasks', IdentityOf(t) = id, f.kind = "table" PROVE t.rows >= f.since
      <4>1. CASE t \in tasks
        <5>1. t.gen = generation /\ t.key = key /\ t.rows \in Nat
          BY <3>3, <4>1, EntryTypes DEF IdentityOf, TypeOK
        <5>2. t.rows >= Due
          BY <3>3, <4>1, <5>1 DEF ResultsFresh
        <5> QED
          BY <1>0, <5>1, <5>2 DEF ReaderFresh
      <4>2. CASE t = new
        BY <1>0, <1>1, <3>3, <4>2 DEF ReaderFresh
      <4> QED
        BY <1>2, <4>1, <4>2
    <3>4. f.kind = "table" => id.key.name = "table"
      OBVIOUS
    <3> QED
      BY <3>1, <3>2, <3>3, <3>4 DEF ReaderFresh
  <2> QED
    BY <2>1, <2>2 DEF Compute
<1> QED
  BY <1>3, <1>4, <1>5 DEF ReadersFresh

LEMMA WithRowsFresh ==
    ASSUME TypeOK, CacheInv, CopyFresh, ResultsFresh, ReadersFresh,
           UNCHANGED <<generation, writer, stored, done>>,
           NEW r \in Readers, NEW f \in Reader, ReaderFresh(f),
           f.kind = "table" => f.rows >= Due, WithRows(r, f)
    PROVE  ResultsFresh' /\ ReadersFresh'
<1>1. CASE f.kind = "table"
  <2> DEFINE g == [f EXCEPT !.step = "table"]
  <2>1. /\ g \in Reader /\ g.kind = f.kind /\ g.since = f.since /\ g.waits = f.waits
        /\ g.got = f.got /\ g.rows = f.rows /\ g.step = "table"
    BY DEF Reader, Steps
  <2>2. Compute(r, g, generation, TableKey, "answered")
    BY <1>1 DEF WithRows
  <2>3. TableKey \in Key /\ TableKey.name = "table" /\ "answered" \in Steps
    BY KeyTypes, 0 \in Nat DEF Steps, TableKey
  <2> HIDE DEF g
  <2>4. ReaderFresh(g)
    BY <1>1, <2>1 DEF ReaderFresh
  <2> QED
    BY <1>1, <2>1, <2>2, <2>3, <2>4, ComputeFresh
<1>2. CASE f.kind # "table"
  <2> DEFINE g == [f EXCEPT !.step = "state"]
  <2>1. reader' = [reader EXCEPT ![r] = g] /\ UNCHANGED <<values, tasks>>
    BY <1>2 DEF WithRows
  <2>2. g.kind # "table" /\ g.since = f.since
    BY <1>2 DEF Reader
  <2> HIDE DEF g
  <2>3. ReadersFresh'
    BY <2>1, <2>2 DEF ReadersFresh, ReaderFresh, TypeOK
  <2>4. ResultsFresh'
    BY <2>1 DEF ResultsFresh, Due
  <2> QED
    BY <2>3, <2>4
<1> QED
  BY <1>1, <1>2

\* After an invalidation there is no result of the current generation.
LEMMA InvalidateFresh ==
    ASSUME TypeOK, CacheInv, NEW n \in {1, 2}, Invalidate(n), UNCHANGED tasks
    PROVE  ResultsFresh'
<1>1. generation' = generation + n /\ values' = <<>> /\ generation \in Nat
  BY DEF Invalidate, TypeOK
<1>2. \A t \in tasks : t.gen \in Nat /\ t.gen <= generation
  BY EntryTypes DEF TypeOK, CacheInv, TasksAreKnown
<1>3. \A t \in tasks : t.gen # generation'
  BY <1>1, <1>2
<1> QED
  BY <1>1, <1>3 DEF ResultsFresh

LEMMA SameResultsFresh ==
    ASSUME ResultsFresh, UNCHANGED <<generation, values, tasks>>, Due' = Due
    PROVE  ResultsFresh'
BY DEF ResultsFresh

LEMMA FreshWrite ==
    ASSUME TypeOK, CacheInv, FreshInv, Write, Plain'
    PROVE  WriterSteps' /\ CopyFresh' /\ ResultsFresh' /\ ReadersFresh'
<1>1. Plain /\ ~StartReset
  <2>1. past' = past \/ \E kind \in {"import", "analysis", "reset"} : Start(kind)
    BY DEF Write, StartImport, Fill, Replace, DropCopy, Refresh, SetContract,
           PatchState, StartAnalysis, StartReset, Clear, ClearState, Forget
  <2>2. ASSUME past' = past PROVE Plain
    BY <2>2 DEF Plain
  <2>3. ASSUME NEW kind \in {"import", "analysis", "reset"}, Start(kind)
        PROVE  Plain
    <3>1. past'.crossed = past.crossed /\ past'.reset = (past.reset \/ kind = "reset")
      BY <2>3 DEF Start, TypeOK
    <3> QED
      BY <3>1 DEF Plain
  <2>4. ASSUME StartReset PROVE FALSE
    <3>1. past' = [past EXCEPT !.reset = @ \/ "reset" = "reset"]
      BY <2>4 DEF StartReset, Start
    <3>2. past'.reset = TRUE
      BY <3>1 DEF TypeOK
    <3> QED
      BY <3>2 DEF Plain
  <2> QED
    BY <2>1, <2>2, <2>3, <2>4
<1>2. WriterSteps /\ CopyFresh /\ ResultsFresh /\ ReadersFresh
  BY <1>1 DEF FreshInv
<1>3. stored \in Nat /\ done \in Nat /\ copy \in Nat \cup {None} /\ None \notin Nat /\ done <= stored
  BY <1>2, CacheAssumption DEF TypeOK, CopyFresh
<1>4. UNCHANGED <<tasks, reader>>
  BY DEF Write, StartImport, Fill, Replace, DropCopy, Refresh, SetContract, PatchState,
         StartAnalysis, StartReset, Clear, ClearState, Forget
<1>5. ASSUME done' >= done, done' \in Nat PROVE ReadersFresh'
  <2>1. \A r \in Readers : reader[r].since \in Nat
    BY DEF TypeOK, Reader
  <2> QED
    BY <1>2, <1>3, <1>4, <1>5, <2>1 DEF ReadersFresh, ReaderFresh
<1>6. CASE StartImport
  <2>1. CASE copy = None
    <3>1. Invalidate(1) /\ writer' = [kind |-> "import", step |-> "fill"]
      BY <1>6, <2>1 DEF StartImport
    <3> QED
      BY <1>2, <1>3, <1>5, <1>6, <2>1, <3>1, InvalidateFresh DEF StartImport, WriterSteps, CopyFresh
  <2>2. CASE copy # None
    <3>1. /\ UNCHANGED <<generation, values>> /\ writer' = [kind |-> "import", step |-> "write"]
          /\ writer = NoWriter
      BY <1>6, <2>2 DEF StartImport, Start
    <3>2. Due' = Due
      BY <1>6, <3>1 DEF StartImport, Due, NoWriter
    <3> QED
      BY <1>2, <1>3, <1>4, <1>5, <1>6, <3>1, <3>2, SameResultsFresh
         DEF StartImport, WriterSteps, CopyFresh, Writing, NoWriter
  <2> QED
    BY <2>1, <2>2
<1>7. CASE Fill
  <2>1. writer = [kind |-> "import", step |-> "fill"] /\ writer' = [kind |-> "import", step |-> "write"]
    BY <1>7 DEF Fill, Writing, WriterGoes
  <2>2. Due' = Due
    BY <1>7, <2>1 DEF Fill, Due
  <2> QED
    BY <1>2, <1>3, <1>5, <1>7, <2>1, <2>2, SameResultsFresh DEF Fill, WriterSteps, CopyFresh
<1>8. CASE Replace
  <2>1. writer = [kind |-> "import", step |-> "write"] /\ writer' = [kind |-> "import", step |-> "drop"]
    BY <1>8 DEF Replace, Writing, WriterGoes
  <2>2. Due' = Due
    BY <1>8, <2>1 DEF Replace, Due
  <2>3. stored' = stored + 1
    BY <1>8 DEF Replace, NextVersion
  <2>4. CopyFresh'
    BY <1>2, <1>3, <1>8, <2>1, <2>3 DEF Replace, CopyFresh, Writing
  <2> QED
    BY <1>2, <1>3, <1>5, <1>8, <2>1, <2>2, <2>4, SameResultsFresh DEF Replace, WriterSteps
<1>9. CASE DropCopy
  <2>1. writer' = [kind |-> "import", step |-> "refresh"]
    BY <1>9 DEF DropCopy, Writing, WriterGoes
  <2> QED
    BY <1>2, <1>3, <1>5, <1>9, <2>1, InvalidateFresh DEF DropCopy, WriterSteps, CopyFresh
<1>10. CASE Refresh
  <2>1. CASE writer.kind = "analysis"
    <3>1. writer' = NoWriter
      BY <1>10, <2>1 DEF Refresh
    <3>2. Due' = Due
      BY <1>10, <2>1, <3>1 DEF Refresh, Due, NoWriter
    <3> QED
      BY <1>2, <1>3, <1>5, <1>10, <3>1, <3>2, SameResultsFresh DEF Refresh, WriterSteps, CopyFresh
  <2>2. CASE writer.kind # "analysis"
    <3>1. writer = [kind |-> "import", step |-> "refresh"] /\ writer' = [kind |-> "import", step |-> "contract"]
      BY <1>2, <1>10, <2>2 DEF Refresh, WriterSteps, NoWriter
    <3>2. Due' = Due
      BY <1>10, <3>1 DEF Refresh, Due
    <3> QED
      BY <1>2, <1>3, <1>5, <1>10, <3>1, <3>2, SameResultsFresh DEF Refresh, WriterSteps, CopyFresh
  <2> QED
    BY <2>1, <2>2
<1>11. CASE SetContract
  <2>1. writer = [kind |-> "import", step |-> "contract"] /\ writer' = [kind |-> "import", step |-> "state"]
    BY <1>11 DEF SetContract, Writing, WriterGoes
  <2>2. Due' = Due
    BY <1>11, <2>1 DEF SetContract, Due
  <2> QED
    BY <1>2, <1>3, <1>5, <1>11, <2>1, <2>2, SameResultsFresh DEF SetContract, WriterSteps, CopyFresh, Writing
<1>12. CASE PatchState
  <2>1. writer = [kind |-> "import", step |-> "state"] /\ writer' = NoWriter
    BY <1>12 DEF PatchState, Writing
  <2>2. Due' = Due /\ done' = stored
    BY <1>12, <2>1 DEF PatchState, Due, NoWriter
  <2>3. CopyFresh'
    BY <1>2, <1>3, <1>12, <2>1, <2>2 DEF PatchState, CopyFresh, Writing
  <2> QED
    BY <1>2, <1>3, <1>5, <1>12, <2>1, <2>2, <2>3, SameResultsFresh DEF PatchState, WriterSteps
<1>13. CASE StartAnalysis
  <2>1. writer' = [kind |-> "analysis", step |-> "refresh"] /\ writer = NoWriter
    BY <1>13 DEF StartAnalysis, Start
  <2> QED
    BY <1>2, <1>3, <1>5, <1>13, <2>1, InvalidateFresh
       DEF StartAnalysis, WriterSteps, CopyFresh, Writing, NoWriter
<1>14. ~(StartReset \/ Clear \/ ClearState \/ Forget)
  BY <1>1, <1>2 DEF Clear, ClearState, Forget, Writing, WriterSteps, NoWriter
<1> QED
  BY <1>6, <1>7, <1>8, <1>9, <1>10, <1>11, <1>12, <1>13, <1>14 DEF Write

\* Frames that keep or lose what they had, with the tasks as they are or fewer.
LEMMA FramesFresh ==
    ASSUME TypeOK, ReadersFresh, UNCHANGED done, tasks' \subseteq tasks,
           NEW f, f.since <= done,
           f.kind = "table" =>
               /\ f.step \notin {"state", "quality", "gate", "ask_gate"}
               /\ f.got = {} /\ f.waits = None,
           \A t \in tasks : IdentityOf(t) # None,
           \A q \in Readers : reader'[q] \in {reader[q], f}
    PROVE  ReadersFresh'
BY DEF ReadersFresh, ReaderFresh

LEMMA NoReaderFacts ==
    ASSUME TypeOK
    PROVE  /\ NoReader.since <= done /\ NoReader.got = {} /\ NoReader.waits = None
           /\ NoReader.step = "idle"
           /\ \A t \in tasks : IdentityOf(t) # None
<1>1. \A t \in tasks : IdentityOf(t) \in Identity
  BY EntryTypes DEF TypeOK
<1> QED
  BY <1>1, CacheAssumption DEF NoReader, TypeOK

LEMMA FreshRequest ==
    ASSUME TypeOK, CacheInv, FreshInv, NEW r \in Readers, Request(r), Plain'
    PROVE  WriterSteps' /\ CopyFresh' /\ ResultsFresh' /\ ReadersFresh'
<1>1. UNCHANGED <<data, copy, past>> /\ UNCHANGED <<writer, stored, done>>
  BY DEF Request, data
<1>2. Plain /\ WriterSteps /\ CopyFresh /\ ResultsFresh /\ ReadersFresh
  BY <1>1 DEF FreshInv, Plain
<1>3. WriterSteps' /\ CopyFresh'
  BY <1>1, <1>2 DEF WriterSteps, CopyFresh, Writing
<1>4. PICK kind \in {"table", "quality"} :
        \/ /\ copy # None
           /\ WithRows(r, [Opened(r, kind) EXCEPT !.rows = copy])
           /\ UNCHANGED generation
        \/ /\ copy = None
           /\ generation' = generation + 1
           /\ values' = <<>>
           /\ reader' = [reader EXCEPT ![r] = [Opened(r, kind) EXCEPT !.step = "called"]]
           /\ UNCHANGED tasks
  BY DEF Request
<1>5. /\ Opened(r, kind) \in Reader /\ Opened(r, kind).waits = None /\ Opened(r, kind).got = {}
      /\ Opened(r, kind).since = done /\ Opened(r, kind).step = "idle"
  BY DEF Opened, NoReader, Reader, Steps, TypeOK
<1>6. CASE copy # None
  <2> DEFINE f == [Opened(r, kind) EXCEPT !.rows = copy]
  <2>1. /\ f \in Reader /\ f.waits = None /\ f.got = {} /\ f.since = done /\ f.rows = copy
        /\ f.step = "idle"
    BY <1>5, <1>6 DEF Reader, TypeOK
  <2>2. WithRows(r, f) /\ generation' = generation
    BY <1>4, <1>6
  <2> HIDE DEF f
  <2>3. ReaderFresh(f)
    BY <2>1, NoReaderFacts DEF ReaderFresh, TypeOK
  <2>4. f.rows >= Due
    <3>1. copy >= done /\ (Writing("import", "drop") \/ copy = stored)
      BY <1>2, <1>6 DEF CopyFresh
    <3> QED
      BY <1>2, <1>6, <2>1, <3>1, DueFacts DEF Due, Writing, CopyFresh, TypeOK
  <2> QED
    BY <1>1, <1>2, <1>3, <2>1, <2>2, <2>3, <2>4, WithRowsFresh
<1>7. CASE copy = None
  <2> DEFINE f == [Opened(r, kind) EXCEPT !.step = "called"]
  <2>1. f.waits = None /\ f.got = {} /\ f.since = done /\ f.step = "called"
    BY <1>5 DEF Reader
  <2>2. reader' = [reader EXCEPT ![r] = f] /\ Invalidate(1) /\ UNCHANGED tasks
    BY <1>4, <1>7 DEF Invalidate
  <2> HIDE DEF f
  <2>3. \A q \in Readers : reader'[q] \in {reader[q], f}
    BY <2>2 DEF TypeOK
  <2>4. ReadersFresh'
    BY <1>1, <1>2, <2>1, <2>2, <2>3, NoReaderFacts, FramesFresh DEF TypeOK
  <2> QED
    BY <1>3, <2>2, <2>4, InvalidateFresh
<1> QED
  BY <1>6, <1>7

LEMMA FreshGo ==
    ASSUME TypeOK, CacheInv, FreshInv, NEW r \in Readers, Go(r), Plain'
    PROVE  WriterSteps' /\ CopyFresh' /\ ResultsFresh' /\ ReadersFresh'
<1>1. UNCHANGED <<data, generation>> /\ UNCHANGED <<writer, stored, done>>
  BY DEF Go, SlowLoad, EndLoad, ReadState, AskGate, Answer, data
<1>2. Plain
  <2>1. past' = past \/ past' = [past EXCEPT !.crossed = @ \/ copy' # stored]
    BY DEF Go, SlowLoad, EndLoad, ReadState, AskGate, Answer
  <2> QED
    BY <2>1 DEF Plain, TypeOK
<1>3. WriterSteps /\ CopyFresh /\ ResultsFresh /\ ReadersFresh /\ WriterSteps'
  BY <1>1, <1>2 DEF FreshInv, WriterSteps
<1>4. reader[r] \in Reader /\ ReaderFresh(reader[r])
  BY <1>3 DEF TypeOK, ReadersFresh
<1>5. ASSUME copy' = copy PROVE CopyFresh'
  BY <1>1, <1>3, <1>5 DEF CopyFresh, Writing
<1>6. CASE SlowLoad(r)
  <2> DEFINE f == [reader[r] EXCEPT !.step = "loaded", !.rows = stored]
  <2>1. /\ f.kind = reader[r].kind /\ f.since = reader[r].since /\ f.got = reader[r].got
        /\ f.waits = reader[r].waits /\ f.step = "loaded"
    BY <1>4 DEF Reader
  <2>2. reader' = [reader EXCEPT ![r] = f] /\ UNCHANGED <<values, tasks, copy>>
    BY <1>6 DEF SlowLoad, TypeOK
  <2> HIDE DEF f
  <2>3. ReadersFresh'
    BY <1>1, <1>3, <1>4, <2>1, <2>2 DEF ReadersFresh, ReaderFresh, TypeOK
  <2> QED
    BY <1>1, <1>3, <1>5, <2>2, <2>3, SameResultsFresh DEF Due
<1>7. CASE EndLoad(r)
  <2> DEFINE f == [reader[r] EXCEPT !.rows = copy']
  <2>1. copy' = stored /\ stored \in Nat
    <3>1. past' = [past EXCEPT !.crossed = @ \/ copy' # stored]
      BY <1>7 DEF EndLoad
    <3>2. copy' # stored => past'.crossed = TRUE
      BY <3>1 DEF TypeOK
    <3> QED
      BY <3>2 DEF Plain, TypeOK
  <2>2. /\ f \in Reader /\ f.kind = reader[r].kind /\ f.since = reader[r].since
        /\ f.got = reader[r].got /\ f.waits = reader[r].waits /\ f.step = reader[r].step
        /\ f.rows = stored
    BY <1>4, <2>1 DEF Reader
  <2>3. WithRows(r, f)
    BY <1>7 DEF EndLoad
  <2> HIDE DEF f
  <2>4. ReaderFresh(f)
    BY <1>4, <2>2 DEF ReaderFresh
  <2>5. stored >= Due /\ CopyFresh'
    BY <1>1, <1>3, <2>1 DEF Due, CopyFresh, TypeOK
  <2> QED
    BY <1>1, <1>3, <2>2, <2>3, <2>4, <2>5, WithRowsFresh
<1>8. CASE ReadState(r)
  <2> DEFINE f == [reader[r] EXCEPT !.step = "quality", !.contract = KnownContract]
  <2>1. KnownContract \in Nat
    BY DEF KnownContract, TypeOK
  <2>2. f \in Reader /\ f.kind = reader[r].kind /\ f.since = reader[r].since
    BY <1>4, <2>1 DEF Reader, Steps
  <2>3. Compute(r, f, generation, QualityKey(KnownContract), "ask_gate") /\ UNCHANGED copy
    BY <1>8 DEF ReadState
  <2>4. /\ QualityKey(KnownContract) \in Key /\ "ask_gate" \in Steps
        /\ QualityKey(KnownContract).name # "table" /\ reader[r].kind # "table"
    BY <1>4, <1>8, <2>1, KeyTypes DEF Steps, QualityKey, ReadState, ReaderFresh
  <2> HIDE DEF f
  <2>5. ReaderFresh(f)
    BY <1>4, <2>2, <2>4 DEF ReaderFresh
  <2> QED
    BY <1>1, <1>3, <1>5, <2>2, <2>3, <2>4, <2>5, ComputeFresh
<1>9. CASE AskGate(r)
  <2> DEFINE f == [reader[r] EXCEPT !.step = "gate"]
  <2>1. /\ f \in Reader /\ f.kind = reader[r].kind /\ f.since = reader[r].since
        /\ reader[r].contract \in Nat
    BY <1>4 DEF Reader, Steps
  <2>2. Compute(r, f, generation, GateKey(reader[r].contract), "answered") /\ UNCHANGED copy
    BY <1>9 DEF AskGate
  <2>3. /\ GateKey(reader[r].contract) \in Key /\ "answered" \in Steps
        /\ GateKey(reader[r].contract).name # "table" /\ reader[r].kind # "table"
    BY <1>4, <1>9, <2>1, KeyTypes DEF Steps, GateKey, AskGate, ReaderFresh
  <2> HIDE DEF f
  <2>4. ReaderFresh(f)
    BY <1>4, <2>1, <2>3 DEF ReaderFresh
  <2> QED
    BY <1>1, <1>3, <1>5, <2>1, <2>2, <2>3, <2>4, ComputeFresh
<1>10. CASE Answer(r)
  <2>1. reader' = [reader EXCEPT ![r] = NoReader] /\ UNCHANGED <<values, tasks, copy>>
    BY <1>10 DEF Answer
  <2>2. \A q \in Readers : reader'[q] \in {reader[q], NoReader}
    BY <2>1 DEF TypeOK
  <2>3. ReadersFresh'
    BY <1>1, <1>3, <2>1, <2>2, NoReaderFacts, FramesFresh
  <2> QED
    BY <1>1, <1>3, <1>5, <2>1, <2>3, SameResultsFresh DEF Due
<1> QED
  BY <1>6, <1>7, <1>8, <1>9, <1>10 DEF Go

\* A cached value is one that was there, or the one of the finished task.
LEMMA PutFrom ==
    ASSUME TypeOK, NEW t \in tasks, values' = Put(t)
    PROVE  \A a \in 1 .. Len(values') :
               \/ \E b \in 1 .. Len(values) : values'[a] = values[b]
               \/ values'[a] = t /\ t.gen = generation
<1>0. values \in Seq(Entry) /\ Len(values) \in Nat /\ Len(values) <= Limit /\ t \in Entry
  BY DEF TypeOK
<1>1. CASE t.gen # generation
  BY <1>1 DEF Put
<1>2. CASE t.gen = generation /\ Cached(IdentityOf(t)) # {}
  <2> DEFINE new == [a \in 1 .. Len(values) |-> IF a \in Cached(IdentityOf(t)) THEN t ELSE values[a]]
  <2>1. values' = new
    BY <1>2 DEF Put
  <2>2. \A a \in 1 .. Len(values) : new[a] \in Entry
    BY <1>0
  <2>3. Len(new) = Len(values)
    BY <1>0, <2>2
  <2>4. \A a \in 1 .. Len(values) : new[a] = values[a] \/ new[a] = t
    OBVIOUS
  <2> HIDE DEF new
  <2> QED
    BY <1>2, <2>1, <2>3, <2>4
<1>3. CASE t.gen = generation /\ Cached(IdentityOf(t)) = {}
  <2> DEFINE long == Append(values, t)
  <2>1. long \in Seq(Entry) /\ Len(long) = Len(values) + 1
    BY <1>0
  <2>2. \A a \in 1 .. Len(long) : a \in Nat /\ long[a] = IF a <= Len(values) THEN values[a] ELSE t
    BY <1>0
  <2>3. values' = Bounded(long) /\ Len(long) <= Limit + 1
    BY <1>0, <1>3, <2>1, CacheAssumption DEF Put
  <2> HIDE DEF long
  <2>4. \A a \in 1 .. Len(values') : \E b \in 1 .. Len(long) : values'[a] = long[b]
    <3>1. CASE values' = long
      BY <3>1
    <3>2. CASE /\ Len(values') = Len(long) - 1
               /\ \A a \in 1 .. Len(values') : values'[a] = long[a + 1]
      <4>1. \A a \in 1 .. Len(values') : a + 1 \in 1 .. Len(long)
        BY <1>0, <2>1, <3>2
      <4> QED
        BY <3>2, <4>1
    <3> QED
      BY <2>1, <2>3, <3>1, <3>2, Capped
  <2>5. \A b \in 1 .. Len(long) : (b \in 1 .. Len(values) /\ long[b] = values[b]) \/ long[b] = t
    BY <1>0, <2>1, <2>2
  <2> QED
    BY <1>3, <2>4, <2>5
<1> QED
  BY <1>1, <1>2, <1>3

LEMMA FreshTask ==
    ASSUME TypeOK, CacheInv, FreshInv, NEW t \in tasks, Finish(t) \/ Fail(t), Plain'
    PROVE  WriterSteps' /\ CopyFresh' /\ ResultsFresh' /\ ReadersFresh'
<1>1. UNCHANGED <<writer, stored, done, copy, past, generation>> /\ tasks' = tasks \ {t}
  BY DEF Finish, Fail, data
<1>2. WriterSteps /\ CopyFresh /\ ResultsFresh /\ ReadersFresh
  BY <1>1 DEF FreshInv, Plain
<1>3. WriterSteps' /\ CopyFresh' /\ Due' = Due
  BY <1>1, <1>2 DEF WriterSteps, CopyFresh, Writing, Due
<1>4. CASE Finish(t)
  <2>1. ResultsFresh'
    <3>1. \A a \in 1 .. Len(values') :
             \/ \E b \in 1 .. Len(values) : values'[a] = values[b]
             \/ values'[a] = t /\ t.gen = generation
      BY <1>4, PutFrom DEF Finish
    <3> QED
      BY <1>1, <1>2, <1>3, <3>1 DEF ResultsFresh
  <2>2. ASSUME NEW q \in Readers, q \in Waiting(t) PROVE ReaderFresh(reader[q])'
    <3> DEFINE f == reader[q]
    <3> DEFINE g == [f EXCEPT !.step = After(@), !.waits = None, !.got = @ \cup {t.rows}]
    <3>1. f \in Reader /\ ReaderFresh(f) /\ f.waits = IdentityOf(t)
      BY <1>2, <2>2 DEF ReadersFresh, TypeOK, Waiting
    <3>2. reader'[q] = g
      BY <1>4, <2>2 DEF Finish, Delivered
    <3>3. /\ g.kind = f.kind /\ g.since = f.since /\ g.step = After(f.step)
          /\ g.waits = None /\ g.got = f.got \cup {t.rows}
      BY <3>1 DEF Reader
    <3> HIDE DEF f, g
    <3>4. f.step # "quality" => After(f.step) = "answered"
      BY DEF After
    <3>5. \A u \in tasks : IdentityOf(u) # None
      BY NoReaderFacts
    <3> QED
      BY <1>1, <3>1, <3>2, <3>3, <3>4, <3>5 DEF ReaderFresh
  <2>3. ASSUME NEW q \in Readers, q \notin Waiting(t) PROVE ReaderFresh(reader[q])'
    <3>1. reader'[q] = reader[q]
      BY <1>4, <2>3 DEF Finish, Delivered
    <3> QED
      BY <1>1, <1>2, <3>1 DEF ReadersFresh, ReaderFresh
  <2>4. ReadersFresh'
    BY <2>2, <2>3 DEF ReadersFresh
  <2> QED
    BY <1>3, <2>1, <2>4
<1>5. CASE Fail(t)
  <2>1. values' = values
    BY <1>5 DEF Fail
  <2>2. ResultsFresh'
    BY <1>1, <1>2, <1>3, <2>1 DEF ResultsFresh
  <2>3. \A q \in Readers : reader'[q] \in {reader[q], NoReader}
    BY <1>5 DEF Fail
  <2> QED
    BY <1>1, <1>2, <1>3, <2>2, <2>3, NoReaderFacts, FramesFresh
<1> QED
  BY <1>4, <1>5

LEMMA FreshKept == TypeOK /\ CacheInv /\ FreshInv /\ [Next]_vars => FreshInv'
<1> SUFFICES ASSUME TypeOK, CacheInv, FreshInv, [Next]_vars, Plain'
             PROVE  WriterSteps' /\ CopyFresh' /\ ResultsFresh' /\ ReadersFresh'
  BY DEF FreshInv
<1>1. CASE Write
  BY <1>1, FreshWrite
<1>2. CASE Close
  <2>1. UNCHANGED <<writer, stored, done, copy, past>> /\ Invalidate(1) /\ tasks' = {}
    BY <1>2 DEF Close, data
  <2>2. Plain /\ WriterSteps /\ CopyFresh /\ ReadersFresh
    BY <2>1 DEF FreshInv, Plain
  <2>3. WriterSteps' /\ CopyFresh'
    BY <2>1, <2>2 DEF WriterSteps, CopyFresh, Writing
  <2>4. ResultsFresh'
    BY <2>1 DEF ResultsFresh, Invalidate
  <2>5. \A q \in Readers : reader'[q] \in {reader[q], NoReader}
    BY <1>2 DEF Close
  <2> QED
    BY <2>1, <2>2, <2>3, <2>4, <2>5, NoReaderFacts, FramesFresh
<1>3. ASSUME NEW r \in Readers, Request(r) \/ Go(r) \/ Leave(r)
      PROVE  WriterSteps' /\ CopyFresh' /\ ResultsFresh' /\ ReadersFresh'
  <2>1. CASE Leave(r)
    <3>1. UNCHANGED <<generation, values, tasks, writer, stored, done, copy, past>>
      BY <2>1 DEF Leave, data
    <3>2. WriterSteps /\ CopyFresh /\ ResultsFresh /\ ReadersFresh
      BY <3>1 DEF FreshInv, Plain
    <3>3. \A q \in Readers : reader'[q] \in {reader[q], NoReader}
      BY <2>1 DEF Leave, TypeOK
    <3>4. ReadersFresh'
      BY <3>1, <3>2, <3>3, NoReaderFacts, FramesFresh
    <3>5. WriterSteps' /\ CopyFresh' /\ ResultsFresh'
      BY <3>1, <3>2 DEF WriterSteps, CopyFresh, Writing, ResultsFresh, Due
    <3> QED
      BY <3>4, <3>5
  <2> QED
    BY <1>3, <2>1, FreshRequest, FreshGo
<1>4. ASSUME NEW t \in tasks, Finish(t) \/ Fail(t)
      PROVE  WriterSteps' /\ CopyFresh' /\ ResultsFresh' /\ ReadersFresh'
  BY <1>4, FreshTask
<1>5. CASE UNCHANGED vars
  <2>1. Plain /\ WriterSteps /\ CopyFresh /\ ResultsFresh /\ ReadersFresh
    BY <1>5 DEF vars, FreshInv, Plain
  <2> QED
    BY <1>5, <2>1 DEF vars, WriterSteps, CopyFresh, Writing, ResultsFresh, Due, ReadersFresh, ReaderFresh
<1> QED
  BY <1>1, <1>2, <1>3, <1>4, <1>5 DEF Next

LEMMA FreshBegin == Init => FreshInv
<1> SUFFICES ASSUME Init PROVE FreshInv
  OBVIOUS
<1>1. \A r \in Readers : ReaderFresh(reader[r])
  BY CacheAssumption DEF Init, NoReader, ReaderFresh
<1> QED
  BY <1>1, CacheAssumption DEF Init, FreshInv, WriterSteps, CopyFresh, ResultsFresh, ReadersFresh

\* No table is older than the import that had ended when it was asked for,
\* whatever loads, evictions and late results there were, as long as no reset
\* has begun and no load has put replaced rows back.
THEOREM FreshTables == Spec => []TablesAreFresh
<1>1. Init => TypeOK /\ CacheInv /\ FreshInv
  BY TypesBegin, CacheBegin, FreshBegin
<1>2. TypeOK /\ CacheInv /\ FreshInv /\ [Next]_vars => (TypeOK /\ CacheInv /\ FreshInv)'
  BY TypesKept, CacheKept, FreshKept
<1>3. FreshInv => TablesAreFresh
  BY DEF FreshInv, Plain, ReadersFresh, ReaderFresh, TablesAreFresh, Fresh
<1> QED
  BY <1>1, <1>2, <1>3, PTL DEF Spec

=============================================================================
