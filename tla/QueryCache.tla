----------------------------- MODULE QueryCache -----------------------------
(***************************************************************************)
(* core/query_cache.py (QueryCache) with the endpoints of main.py that     *)
(* read through it and the operations that invalidate it.                  *)
(*                                                                         *)
(* The samples are a version number: each import and each reset stores a   *)
(* higher one. A result is the version it was computed from. A key is the  *)
(* name of the computation with the contract and the import time that are  *)
(* part of it. Whether an entry is older than the ttl is a choice of each  *)
(* lookup.                                                                 *)
(***************************************************************************)
EXTENDS Integers, Sequences, FiniteSets

CONSTANTS
    None,
    Readers,        \* requests
    Limit,          \* entries the cache keeps (32 in the code)
    MaxOps,         \* bound: locked operations
    MaxRequests     \* bound: requests

VARIABLES
    generation,
    values,     \* the cached results, least recently used first
    tasks,      \* the computations in pending
    stored,     \* version of the stored samples
    copy,       \* version in self._samples, or None
    contract,   \* version whose import set self._last_contract, 0 if none
    state,      \* version whose import patched the stored state, 0 if none
    done,       \* version of the last import or reset that has ended
    writer,     \* the operation that holds _lock
    reader,     \* what each request is doing
    plugin,     \* "up" or "closed"
    past,       \* what has happened so far (for the properties only)
    budget

vars == <<generation, values, tasks, stored, copy, contract, state, done,
          writer, reader, plugin, past, budget>>
data == <<stored, contract, state, done, writer>>

Key      == [name : {"table", "quality", "gate"}, contract : Nat, at : Nat]
Identity == [gen : Nat, key : Key]
Entry    == [gen : Nat, key : Key, rows : Nat]

ASSUME CacheAssumption ==
    /\ Limit \in Nat \ {0}
    /\ MaxOps \in Nat /\ MaxRequests \in Nat
    /\ None \notin Nat \cup Identity

Steps    == {"idle", "called", "loaded", "state", "quality", "gate", "table",
             "ask_gate", "answered"}

Reader == [kind  : {"table", "quality"},
           step  : Steps,
           rows  : Nat,               \* the samples it was handed
           contract : Nat,            \* the contract quality_payload read
           since : Nat,               \* what had ended when it began
           waits : Identity \cup {None},
           got   : SUBSET Nat]        \* the results it was given
Writer == [kind : {"none", "import", "analysis", "reset"},
           step : {"none", "fill", "write", "drop", "refresh", "contract", "state",
                   "clear", "clear_state", "forget"}]

NoReader == [kind |-> "table", step |-> "idle", rows |-> 0,
             contract |-> 0, since |-> 0, waits |-> None, got |-> {}]
NoWriter == [kind |-> "none", step |-> "none"]

TypeOK ==
    /\ generation \in Nat
    /\ values \in Seq(Entry) /\ Len(values) <= Limit
    /\ tasks \subseteq Entry
    /\ stored \in Nat /\ contract \in Nat /\ state \in Nat /\ done \in Nat
    /\ copy \in Nat \cup {None}
    /\ writer \in Writer
    /\ reader \in [Readers -> Reader]
    /\ plugin \in {"up", "closed"}
    /\ past \in [reset : BOOLEAN, crossed : BOOLEAN]
    /\ budget \in [ops : 0 .. MaxOps, requests : 0 .. MaxRequests]

Init ==
    /\ generation = 0
    /\ values = <<>>
    /\ tasks = {}
    /\ stored = 0 /\ copy \in {0, None} /\ contract = 0 /\ state = 0 /\ done = 0
    /\ writer = NoWriter
    /\ reader = [r \in Readers |-> NoReader]
    /\ plugin = "up"
    /\ past = [reset |-> FALSE, crossed |-> FALSE]
    /\ budget = [ops |-> MaxOps, requests |-> MaxRequests]

(***************************************************************************)
(* compute: a hit, a join of the running task, or a task of its own. It    *)
(* runs without an await until it waits, so it is part of a reader's step. *)
(***************************************************************************)
IdentityOf(e) == [gen |-> e.gen, key |-> e.key]

Cached(id) == {i \in 1 .. Len(values) : IdentityOf(values[i]) = id}

WithoutAt(seq, i) == [j \in 1 .. Len(seq) - 1 |-> IF j < i THEN seq[j] ELSE seq[j + 1]]

\* f is the reader's frame with the step it is in while it waits.
Hit(r, f, id, then) ==
    \E i \in Cached(id) :
        /\ values' = Append(WithoutAt(values, i), values[i])
        /\ reader' = [reader EXCEPT ![r] = [f EXCEPT !.step = then, !.got = @ \cup {values[i].rows}]]
        /\ UNCHANGED tasks

\* Slip: a task that already runs is not looked for.
MissAlone(r, f, id) ==
    /\ reader' = [reader EXCEPT ![r] = [f EXCEPT !.waits = id]]
    /\ tasks' = tasks \cup {[gen |-> id.gen, key |-> id.key, rows |-> f.rows]}
    /\ UNCHANGED values

\* Without an entry, or with one older than the ttl.
Miss(r, f, id) ==
    /\ reader' = [reader EXCEPT ![r] = [f EXCEPT !.waits = id]]
    /\ tasks' = IF \E t \in tasks : IdentityOf(t) = id THEN tasks
                ELSE tasks \cup {[gen |-> id.gen, key |-> id.key, rows |-> f.rows]}
    /\ UNCHANGED values

Compute(r, f, gen, key, then) ==
    LET id == [gen |-> gen, key |-> key]
    IN  Hit(r, f, id, then) \/ Miss(r, f, id)

TableKey   == [name |-> "table", contract |-> 0, at |-> 0]
QualityKey(c) == [name |-> "quality", contract |-> c, at |-> state]
GateKey(c)    == [name |-> "gate", contract |-> c, at |-> 0]

\* self._last_contract or state.get("last_contract_stats")
KnownContract == IF contract # 0 THEN contract ELSE state

(***************************************************************************)
(* Requests                                                                *)
(***************************************************************************)
\* The samples are at hand: a table is computed at once, quality_payload
\* first awaits load_state.
WithRows(r, f) ==
    IF f.kind = "table"
    THEN Compute(r, [f EXCEPT !.step = "table"], generation, TableKey, "answered")
    ELSE /\ reader' = [reader EXCEPT ![r] = [f EXCEPT !.step = "state"]]
         /\ UNCHANGED <<values, tasks>>

Opened(r, kind) == [NoReader EXCEPT !.kind = kind, !.since = done]

Request(r) ==
    /\ plugin = "up" /\ reader[r].step = "idle" /\ budget.requests > 0
    /\ budget' = [budget EXCEPT !.requests = @ - 1]
    /\ \E kind \in {"table", "quality"} :
        \/ /\ copy # None
           /\ WithRows(r, [Opened(r, kind) EXCEPT !.rows = copy])
           /\ UNCHANGED generation
        \/ /\ copy = None
           /\ generation' = generation + 1
           /\ values' = <<>>
           /\ reader' = [reader EXCEPT ![r] = [Opened(r, kind) EXCEPT !.step = "called"]]
           /\ UNCHANGED tasks
    /\ UNCHANGED <<data, copy, plugin, past>>

\* load_samples read the store; it assigns self._samples when it returns.
SlowLoad(r) ==
    /\ reader[r].step = "called"
    /\ reader' = [reader EXCEPT ![r].step = "loaded", ![r].rows = stored]
    /\ UNCHANGED <<generation, values, tasks, data, copy, plugin, past, budget>>

EndLoad(r) ==
    /\ \/ reader[r].step = "loaded" /\ copy' = reader[r].rows
       \/ reader[r].step = "called" /\ copy' = stored
    /\ WithRows(r, [reader[r] EXCEPT !.rows = copy'])
    /\ past' = [past EXCEPT !.crossed = @ \/ copy' # stored]
    /\ UNCHANGED <<generation, data, plugin, budget>>

\* quality_payload: load_state returns, then the contract is read and kept
ReadState(r) ==
    /\ reader[r].step = "state"
    /\ Compute(r, [reader[r] EXCEPT !.step = "quality", !.contract = KnownContract],
               generation, QualityKey(KnownContract), "ask_gate")
    /\ UNCHANGED <<generation, data, copy, plugin, past, budget>>

AskGate(r) ==
    /\ reader[r].step = "ask_gate"
    /\ Compute(r, [reader[r] EXCEPT !.step = "gate"], generation,
               GateKey(reader[r].contract), "answered")
    /\ UNCHANGED <<generation, data, copy, plugin, past, budget>>

Answer(r) ==
    /\ reader[r].step = "answered"
    /\ reader' = [reader EXCEPT ![r] = NoReader]
    /\ UNCHANGED <<generation, values, tasks, data, copy, plugin, past, budget>>

(***************************************************************************)
(* A task                                                                  *)
(***************************************************************************)
Waiting(t) == {r \in Readers : reader[r].waits = IdentityOf(t)}

After(step) == IF step = "quality" THEN "ask_gate" ELSE "answered"

\* The result goes to every waiter of the task.
Delivered(t) ==
    [r \in Readers |->
        IF r \in Waiting(t)
        THEN [reader[r] EXCEPT !.step = After(@), !.waits = None, !.got = @ \cup {t.rows}]
        ELSE reader[r]]

\* Slip: the cap is checked before the insertion only.
BoundedLate(seq) == IF Len(seq) > Limit + 1 THEN Tail(seq) ELSE seq

Bounded(seq) == IF Len(seq) > Limit THEN Tail(seq) ELSE seq

\* Assigning to an OrderedDict keeps the place of a key that is there.
Put(t) ==
    IF t.gen # generation THEN values
    ELSE IF Cached(IdentityOf(t)) # {}
    THEN [i \in 1 .. Len(values) |-> IF i \in Cached(IdentityOf(t)) THEN t ELSE values[i]]
    ELSE Bounded(Append(values, t))

Finish(t) ==
    /\ values' = Put(t)
    /\ tasks' = tasks \ {t}
    /\ reader' = Delivered(t)
    /\ UNCHANGED <<generation, data, copy, plugin, past, budget>>

\* The computation raises or is cancelled: so do the awaits of its waiters.
Fail(t) ==
    /\ tasks' = tasks \ {t}
    /\ reader' = [r \in Readers |-> IF r \in Waiting(t) THEN NoReader ELSE reader[r]]
    /\ UNCHANGED <<generation, values, data, copy, plugin, past, budget>>

\* The client of a request goes away; shield keeps the task.
Leave(r) ==
    /\ reader[r].waits # None
    /\ reader' = [reader EXCEPT ![r] = NoReader]
    /\ UNCHANGED <<generation, values, tasks, data, copy, plugin, past, budget>>

(***************************************************************************)
(* The locked operations                                                   *)
(***************************************************************************)
Writing(kind, step) == writer = [kind |-> kind, step |-> step]
WriterGoes(step) == writer' = [writer EXCEPT !.step = step]

Invalidate(times) == generation' = generation + times /\ values' = <<>>

Start(kind) ==
    /\ writer = NoWriter /\ budget.ops > 0
    /\ past' = [past EXCEPT !.reset = @ \/ kind = "reset"]
    /\ budget' = [budget EXCEPT !.ops = @ - 1]

NextVersion == stored + 1

\* ingest: load_samples for before_fingerprint
StartImport ==
    /\ Start("import")
    /\ IF copy = None
       THEN Invalidate(1) /\ writer' = [kind |-> "import", step |-> "fill"]
       ELSE UNCHANGED <<generation, values>> /\ writer' = [kind |-> "import", step |-> "write"]
    /\ UNCHANGED <<tasks, stored, copy, contract, state, done, reader, plugin>>

Fill ==
    /\ Writing("import", "fill")
    /\ copy' = stored
    /\ WriterGoes("write")
    /\ UNCHANGED <<generation, values, tasks, stored, contract, state, done, reader, plugin, past, budget>>

\* replace_sessions
Replace ==
    /\ Writing("import", "write")
    /\ stored' = NextVersion
    /\ WriterGoes("drop")
    /\ UNCHANGED <<generation, values, tasks, copy, contract, state, done, reader, plugin, past, budget>>

\* Slip: the copy is dropped, the cache is not invalidated with it.
DropCopyOnly ==
    /\ Writing("import", "drop")
    /\ copy' = None
    /\ WriterGoes("refresh")
    /\ UNCHANGED <<generation, values, tasks, stored, contract, state, done, reader, plugin, past, budget>>

\* The finally after replace_sessions, and load_samples(refresh=True) begins.
DropCopy ==
    /\ Writing("import", "drop")
    /\ copy' = None
    /\ Invalidate(2)
    /\ WriterGoes("refresh")
    /\ UNCHANGED <<tasks, stored, contract, state, done, reader, plugin, past, budget>>

Refresh ==
    /\ writer.step = "refresh"
    /\ copy' = stored
    /\ writer' = IF writer.kind = "analysis" THEN NoWriter
                 ELSE [writer EXCEPT !.step = "contract"]
    /\ UNCHANGED <<generation, values, tasks, stored, contract, state, done, reader, plugin, past, budget>>

SetContract ==
    /\ Writing("import", "contract")
    /\ contract' = stored
    /\ WriterGoes("state")
    /\ UNCHANGED <<generation, values, tasks, stored, copy, state, done, reader, plugin, past, budget>>

\* patch_state, and the import has ended
PatchState ==
    /\ Writing("import", "state")
    /\ state' = stored /\ done' = stored
    /\ writer' = NoWriter
    /\ UNCHANGED <<generation, values, tasks, stored, copy, contract, reader, plugin, past, budget>>

\* run_analysis: load_samples(refresh=True); the copy stays until it returns
StartAnalysis ==
    /\ Start("analysis")
    /\ Invalidate(1)
    /\ writer' = [kind |-> "analysis", step |-> "refresh"]
    /\ UNCHANGED <<tasks, stored, copy, contract, state, done, reader, plugin>>

\* reset_storage
StartReset ==
    /\ Start("reset")
    /\ Invalidate(1)
    /\ writer' = [kind |-> "reset", step |-> "clear"]
    /\ UNCHANGED <<tasks, stored, copy, contract, state, done, reader, plugin>>

Clear ==
    /\ Writing("reset", "clear")
    /\ stored' = NextVersion
    /\ WriterGoes("clear_state")
    /\ UNCHANGED <<generation, values, tasks, copy, contract, state, done, reader, plugin, past, budget>>

ClearState ==
    /\ Writing("reset", "clear_state")
    /\ state' = 0
    /\ WriterGoes("forget")
    /\ UNCHANGED <<generation, values, tasks, stored, copy, contract, done, reader, plugin, past, budget>>

\* self._samples = [] and self._last_contract = {}, without an invalidate
Forget ==
    /\ Writing("reset", "forget")
    /\ copy' = stored /\ contract' = 0 /\ done' = stored
    /\ writer' = NoWriter
    /\ UNCHANGED <<generation, values, tasks, stored, state, reader, plugin, past, budget>>

(***************************************************************************)
(* terminate: close invalidates and cancels the tasks                      *)
(***************************************************************************)
\* Slip: the tasks are dropped without being cancelled.
CloseDropsTasks ==
    /\ plugin = "up"
    /\ plugin' = "closed"
    /\ Invalidate(1)
    /\ tasks' = {}
    /\ UNCHANGED <<data, copy, reader, past, budget>>

Close ==
    /\ plugin = "up"
    /\ plugin' = "closed"
    /\ Invalidate(1)
    /\ tasks' = {}
    /\ reader' = [r \in Readers |-> IF reader[r].waits # None THEN NoReader ELSE reader[r]]
    /\ UNCHANGED <<data, copy, past, budget>>

(***************************************************************************)
(* Specification                                                           *)
(***************************************************************************)
Write == \/ StartImport \/ Fill \/ Replace \/ DropCopy \/ Refresh \/ SetContract \/ PatchState
         \/ StartAnalysis
         \/ StartReset \/ Clear \/ ClearState \/ Forget

Go(r) == SlowLoad(r) \/ EndLoad(r) \/ ReadState(r) \/ AskGate(r) \/ Answer(r)

Next == \/ Write \/ Close
        \/ \E r \in Readers : Request(r) \/ Go(r) \/ Leave(r)
        \/ \E t \in tasks : Finish(t) \/ Fail(t)

Spec == Init /\ [][Next]_vars

\* The event loop runs every request, and every worker thread ends.
FairSpec == Spec /\ (\A r \in Readers : WF_vars(Go(r)))
                 /\ WF_vars(\E t \in tasks : Finish(t) \/ Fail(t))

(***************************************************************************)
(* Properties                                                              *)
(***************************************************************************)
\* A cached value belongs to the current generation, and once.
OneCurrentValue ==
    \A i, j \in 1 .. Len(values) :
        /\ values[i].gen = generation
        /\ values[i].key = values[j].key => i = j

\* At most one computation runs for a key and a generation.
SingleFlight == \A t, u \in tasks : IdentityOf(t) = IdentityOf(u) => t = u

\* A request waits only for a task that is still going to answer it.
NobodyWaitsForNothing ==
    \A r \in Readers : reader[r].waits # None =>
        \E t \in tasks : IdentityOf(t) = reader[r].waits

\* What a request is answered with is not older than the import or reset that
\* had ended when it was made.
Fresh(kind) ==
    \A r \in Readers : reader[r].step = "answered" /\ reader[r].kind = kind =>
        \A rows \in reader[r].got : rows >= reader[r].since

\* So it is for the tables, over imports, analyses and evictions, until a reset
\* begins or a load ends with rows that an import has replaced meanwhile.
TablesAreFresh  == ~past.reset /\ ~past.crossed => Fresh("table")

\* And so it should be for the data quality and its gate.
QualityIsFresh  == ~past.reset /\ ~past.crossed => Fresh("quality")

\* Every request is answered.
RequestsEnd == \A r \in Readers : reader[r].step # "idle" ~> reader[r].step = "idle"
=============================================================================
