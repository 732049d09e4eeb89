---------------------------- MODULE SampleStore ----------------------------
(***************************************************************************)
(* The sample half of core/store.py (one shard per session and an index)   *)
(* with the code of main.py that writes it: ingest, reset_storage and the  *)
(* in-memory copy self._samples.                                           *)
(*                                                                         *)
(* A sample is the message it was labelled from and a revision of the      *)
(* label; one sample stands for the samples of all tasks of a message.     *)
(* Writers hold the plugin's _lock, so one operation runs at a time. The   *)
(* read endpoints and initialize call load_samples without the lock.       *)
(***************************************************************************)
EXTENDS Integers, SequencesExt

CONSTANTS
    None,
    Sessions,
    MsgIds,         \* message ids, ordered: samples are sorted by them
    Revisions,      \* revisions of a message's label
    Exports,        \* what an import may find: the parts of an export, or host keys
    MaxSamples,     \* learning_max_samples
    MaxTracked,     \* MAX_SESSIONS_TRACKED (2000 in the code)
    Loaders,        \* requests that call load_samples without the lock
    Initializer,    \* the load of initialize
    MaxOps,         \* bound: operations begun
    MaxCrashes,     \* bound: process crashes
    MaxAborts       \* bound: operations ended by an exception

Row   == [id : MsgIds, rev : Revisions]
Entry == [session : Sessions, count : Nat, at : Nat]

(***************************************************************************)
(* What an import may find: lists of the records of a session (an entry of  *)
(* an export, or an annotation key of the host) and bare records. A list is *)
(* damaged if a record of it is unreadable or it is longer than what is     *)
(* read of it; its notes are those of the records that were read. A record  *)
(* labels its message, or no sample is built from it.                       *)
(***************************************************************************)
Note == Revisions \cup {"unlabelled", "unmentioned"}
Part == [session : Sessions, form : {"list", "record"}, damaged : BOOLEAN,
         notes : [MsgIds -> Note]]

(* The parts of one batch do not label a message in two ways (build_dataset *)
(* would take the label given last).                                        *)
ASSUME SampleAssumption ==
    /\ MsgIds \subseteq Int /\ IsFiniteSet(MsgIds)
    /\ {"unlabelled", "unmentioned"} \cap Revisions = {}
    /\ Exports \subseteq SUBSET Part
    /\ \A batch \in Exports : \A p, q \in batch : \A m \in MsgIds :
            p.session = q.session /\ {p.notes[m], q.notes[m]} \subseteq Revisions
                => p.notes[m] = q.notes[m]
    /\ {MaxSamples, MaxTracked, MaxOps, MaxCrashes, MaxAborts} \subseteq Nat
    /\ Initializer \notin Loaders

VARIABLES
    shards,     \* SAMPLE_KEY_PREFIX + digest: the stored rows, <<>> if no key
    index,      \* SAMPLE_INDEX_KEY: a dict, so its entries have an order
    samples,    \* self._samples
    op,         \* the operation that holds _lock
    loader,     \* the loads that run without it
    past,       \* what has gone wrong so far (for the properties only)
    budget

vars == <<shards, index, samples, op, loader, past, budget>>

(***************************************************************************)
(* The index                                                               *)
(***************************************************************************)
Listed(entries) == {entries[i].session : i \in DOMAIN entries}
PlaceOf(entries, s) == CHOOSE i \in DOMAIN entries : entries[i].session = s
EntryOf(entries, s) == entries[PlaceOf(entries, s)]

\* Slip: the entry of a session that has become empty stays.
Kept(entries, s) == entries

\* pop(digest, None)
Without(entries, s) ==
    IF s \in Listed(entries) THEN RemoveAt(entries, PlaceOf(entries, s)) ELSE entries

\* Slip: the entry of a session is added once more.
Added(entries, e) == Append(entries, e)

\* Assigning to a dict keeps the place of a key that is already there.
With(entries, e) ==
    IF e.session \in Listed(entries)
    THEN [i \in DOMAIN entries |-> IF entries[i].session = e.session THEN e ELSE entries[i]]
    ELSE Append(entries, e)

Total(entries) == SumFunction([i \in DOMAIN entries |-> entries[i].count])

\* Slip: the most recently updated entry goes first.
Newest(entries) ==
    entries[CHOOSE i \in DOMAIN entries : \A j \in DOMAIN entries :
                \/ entries[i].at > entries[j].at
                \/ entries[i].at = entries[j].at /\ i <= j]

\* sorted() is stable: of the least recently updated the first in the dict.
Oldest(entries) ==
    entries[CHOOSE i \in DOMAIN entries : \A j \in DOMAIN entries :
                \/ entries[i].at < entries[j].at
                \/ entries[i].at = entries[j].at /\ i <= j]

FirstOf(seq, n) == SubSeq(seq, 1, IF n < Len(seq) THEN n ELSE Len(seq))

\* _load_index reads the first MAX_SESSIONS_TRACKED entries
LoadedIndex == FirstOf(index, MaxTracked)

(***************************************************************************)
(* Samples                                                                 *)
(***************************************************************************)
Shard(s) == ToSet(FirstOf(shards[s], MaxSamples))

\* What load_samples would return now.
Stored == [s \in Sessions |-> IF s \in Listed(LoadedIndex) THEN Shard(s) ELSE {}]

NoSamples == [s \in Sessions |-> {}]

\* By message: the i-th row is the one with i - 1 rows before it.
Sorted(rows) ==
    [i \in 1 .. Cardinality(rows) |->
        CHOOSE row \in rows : Cardinality({other \in rows : other.id < row.id}) = i - 1]

\* build_dataset
Dataset(notes) == {row \in Row : notes[row.id] = row.rev}

Mentioned(notes) == {m \in MsgIds : notes[m] # "unmentioned"}

\* Slip: a list counts as complete although a record of it was not read.
ConfirmedUnread(batch) == {p.session : p \in {q \in batch : q.form = "list"}}

\* confirmed_sessions and partial_sessions
Confirmed(batch) == {p.session : p \in {q \in batch : q.form = "list" /\ ~q.damaged}}
Bare(batch) == {p.session : p \in {q \in batch : q.form = "record" /\ ~q.damaged}}

\* annotations: a message's label by any part of the session that has one.
Annotations(batch, s) ==
    [m \in MsgIds |->
        LET said == {p.notes[m] : p \in {q \in batch : q.session = s}}
        IN  CASE said \cap Revisions # {} -> CHOOSE rev \in said : rev \in Revisions
              [] said \cap Revisions = {} /\ "unlabelled" \in said -> "unlabelled"
              [] OTHER -> "unmentioned"]

(***************************************************************************)
(* What is made of a batch: a session with a complete list is a snapshot,  *)
(* whatever else the batch has of it; one with a bare record has single    *)
(* records, those read of a damaged list among them; of any other nothing  *)
(* is used.                                                                *)
(***************************************************************************)
Reading(batch) ==
    [s \in Sessions |->
        [kind  |-> CASE s \in Confirmed(batch) -> "full"
                     [] s \in Bare(batch) \ Confirmed(batch) -> "partial"
                     [] OTHER -> "none",
         notes |-> Annotations(batch, s)]]

\* ingest: a full snapshot replaces a session, single records revise messages.
Merged(said, old) ==
    CASE said.kind = "full"    -> Sorted(Dataset(said.notes))
      [] said.kind = "partial" -> Sorted({row \in old : row.id \notin Mentioned(said.notes)})
                                     \o Sorted(Dataset(said.notes))
      [] said.kind = "none"    -> <<>>

Said(input, kinds) == {s \in Sessions : input[s].kind \in kinds}

(***************************************************************************)
(* State                                                                   *)
(***************************************************************************)
IdleOp == [kind |-> "idle", step |-> "idle", batch |-> {}, input |-> Reading({}), todo |-> {},
           want |-> [s \in Sessions |-> <<>>], entries |-> <<>>]
IdleLoad == [step |-> "idle", todo |-> <<>>, got |-> NoSamples]

Starting == [p \in Loaders \cup {Initializer} |->
                IF p = Initializer THEN [IdleLoad EXCEPT !.step = "called"] ELSE IdleLoad]

TypeOK ==
    /\ \A s \in Sessions : shards[s] \in Seq(Row)
    /\ index \in Seq(Entry)
    /\ samples \in [Sessions -> SUBSET Row] \cup {None}
    /\ op.kind \in {"idle", "import", "reset"}
    /\ op.batch \in Exports \cup {{}} /\ op.input = Reading(op.batch)
    /\ op.entries \in Seq(Entry)
    /\ \A p \in DOMAIN loader : loader[p].step \in {"idle", "called", "reading"}
    /\ \A s \in Sessions : IsInjective([i \in DOMAIN shards[s] |-> shards[s][i].id])
    /\ IsInjective([i \in DOMAIN index |-> index[i].session])

Init ==
    /\ shards = [s \in Sessions |-> <<>>]
    /\ index = <<>>
    /\ samples = None
    /\ op = IdleOp
    /\ loader = Starting
    /\ past = [failed |-> {}, crashed |-> FALSE, crossed |-> FALSE]
    /\ budget = [ops |-> MaxOps, crashes |-> MaxCrashes, aborts |-> MaxAborts]

Idle == op.kind = "idle"
Doing(kind, step) == op.kind = kind /\ op.step = step

\* An operation begins. A load that is under way crosses it.
Begin ==
    /\ Idle /\ budget.ops > 0
    /\ budget' = [budget EXCEPT !.ops = @ - 1]
    /\ past' = [past EXCEPT !.crossed = @ \/ \E p \in DOMAIN loader : loader[p].step # "idle"]

\* time.time(): each operation begins later than the one before it.
Now == MaxOps - budget.ops

(***************************************************************************)
(* ingest                                                                  *)
(***************************************************************************)
BeginImport ==
    /\ Begin
    /\ \E batch \in Exports : op' = [IdleOp EXCEPT !.kind = "import", !.step = "load",
                                                   !.batch = batch, !.input = Reading(batch)]
    /\ UNCHANGED <<shards, index, samples, loader>>

\* before_fingerprint: load_samples reads the store only if there is no copy.
\* No other operation writes meanwhile, so its reads are one step.
LoadOnce ==
    /\ Doing("import", "load")
    /\ samples' = IF samples = None THEN Stored ELSE samples
    /\ op' = [op EXCEPT !.step = "compose"]
    /\ UNCHANGED <<shards, index, loader, past, budget>>

\* by_session
Compose ==
    /\ Doing("import", "compose")
    /\ LET todo == Said(op.input, {"full", "partial"})
       IN  op' = [op EXCEPT !.want = [s \in Sessions |-> Merged(op.input[s], samples[s])],
                            !.todo = todo,
                            !.step = IF todo = {} THEN "refresh" ELSE "index"]
    /\ UNCHANGED <<shards, index, samples, loader, past, budget>>

\* replace_sessions and clear_samples
ReadIndex ==
    /\ op.step = "index"
    /\ op' = [op EXCEPT !.entries = LoadedIndex,
                        !.step = IF op.kind = "import" THEN "replace" ELSE "clear"]
    /\ UNCHANGED <<shards, index, samples, loader, past, budget>>

\* Slip: the entry counts the rows that were there before.
ReplaceSessionOldCount(s) ==
    /\ Doing("import", "replace")
    /\ s \in op.todo
    /\ op.input[s].kind = "partial" => op.todo \cap Said(op.input, {"full"}) = {}
    /\ LET rows == op.want[s]
           kept == shards[s] = rows /\ s \in Listed(op.entries)
           at   == IF kept THEN EntryOf(op.entries, s).at ELSE Now
       IN  /\ shards' = [shards EXCEPT ![s] = rows]
           /\ op' = [op EXCEPT
                !.todo = @ \ {s},
                !.entries = IF rows = <<>> THEN Without(@, s)
                            ELSE With(@, [session |-> s, count |-> Len(shards[s]), at |-> at])]
    /\ UNCHANGED <<index, samples, loader, past, budget>>

\* One session of the batch, snapshots first. Rows that are already stored do
\* not make the session recent.
ReplaceSession(s) ==
    /\ Doing("import", "replace")
    /\ s \in op.todo
    /\ op.input[s].kind = "partial" => op.todo \cap Said(op.input, {"full"}) = {}
    /\ LET rows == op.want[s]
           kept == shards[s] = rows /\ s \in Listed(op.entries)
           at   == IF kept THEN EntryOf(op.entries, s).at ELSE Now
       IN  /\ shards' = [shards EXCEPT ![s] = rows]
           /\ op' = [op EXCEPT
                !.todo = @ \ {s},
                !.entries = IF rows = <<>> THEN Without(@, s)
                            ELSE With(@, [session |-> s, count |-> Len(rows), at |-> at])]
    /\ UNCHANGED <<index, samples, loader, past, budget>>

Replaced == Doing("import", "replace") /\ op.todo = {}

\* _prune
Evict ==
    /\ Replaced
    /\ Total(op.entries) > MaxSamples
    /\ LET victim == Oldest(op.entries).session
       IN  /\ shards' = [shards EXCEPT ![victim] = <<>>]
           /\ op' = [op EXCEPT !.entries = Without(@, victim)]
    /\ UNCHANGED <<index, samples, loader, past, budget>>

\* _save_index, then the finally of ingest
SaveIndex ==
    /\ Replaced
    /\ Total(op.entries) <= MaxSamples
    /\ index' = op.entries
    /\ samples' = None
    /\ op' = [op EXCEPT !.step = "refresh"]
    /\ UNCHANGED <<shards, loader, past, budget>>

\* load_samples(refresh=True); the rest of ingest leaves the samples alone
Refresh ==
    /\ Doing("import", "refresh")
    /\ samples' = Stored
    /\ op' = IdleOp
    /\ UNCHANGED <<shards, index, loader, past, budget>>

(***************************************************************************)
(* reset_storage and run_analysis                                          *)
(***************************************************************************)
BeginReset ==
    /\ Begin
    /\ op' = [IdleOp EXCEPT !.kind = "reset", !.step = "index"]
    /\ UNCHANGED <<shards, index, samples, loader>>

DeleteShard ==
    /\ Doing("reset", "clear")
    /\ op.entries # <<>>
    /\ shards' = [shards EXCEPT ![Head(op.entries).session] = <<>>]
    /\ op' = [op EXCEPT !.entries = Tail(@)]
    /\ UNCHANGED <<index, samples, loader, past, budget>>

SaveEmptyIndex ==
    /\ Doing("reset", "clear")
    /\ op.entries = <<>>
    /\ index' = <<>>
    /\ op' = [op EXCEPT !.step = "forget"]
    /\ UNCHANGED <<shards, samples, loader, past, budget>>

\* The policies, the offers, the review and the state go first.
Forget ==
    /\ Doing("reset", "forget")
    /\ samples' = NoSamples
    /\ op' = IdleOp
    /\ UNCHANGED <<shards, index, loader, past, budget>>

\* run_analysis: load_samples(refresh=True), and nothing else is written
Analyze ==
    /\ Idle
    /\ samples' = Stored
    /\ UNCHANGED <<shards, index, op, loader, past, budget>>

(***************************************************************************)
(* load_samples without the lock                                           *)
(***************************************************************************)
CallLoad(p) ==
    /\ p \in Loaders
    /\ loader[p].step = "idle" /\ samples = None
    /\ loader' = [loader EXCEPT ![p].step = "called"]
    /\ past' = [past EXCEPT !.crossed = @ \/ ~Idle]
    /\ UNCHANGED <<shards, index, samples, op, budget>>

LoadIndex(p) ==
    /\ loader[p].step = "called"
    /\ loader' = [loader EXCEPT ![p] = [step |-> "reading", got |-> NoSamples,
                    todo |-> [i \in DOMAIN LoadedIndex |-> LoadedIndex[i].session]]]
    /\ UNCHANGED <<shards, index, samples, op, past, budget>>

LoadShard(p) ==
    /\ loader[p].step = "reading" /\ loader[p].todo # <<>>
    /\ LET s == Head(loader[p].todo)
       IN  loader' = [loader EXCEPT ![p].got[s] = Shard(s), ![p].todo = Tail(@)]
    /\ UNCHANGED <<shards, index, samples, op, past, budget>>

EndLoad(p) ==
    /\ loader[p].step = "reading" /\ loader[p].todo = <<>>
    /\ samples' = loader[p].got
    /\ loader' = [loader EXCEPT ![p] = IdleLoad]
    /\ UNCHANGED <<shards, index, op, past, budget>>

(***************************************************************************)
(* Failures                                                                *)
(***************************************************************************)
\* An await raises; replace_sessions is followed by a finally.
Abort ==
    /\ ~Idle /\ budget.aborts > 0
    /\ past' = [past EXCEPT !.failed = @ \cup {op.kind}]
    /\ samples' = IF op.kind = "import" /\ op.step \in {"index", "replace"}
                  THEN None ELSE samples
    /\ op' = IdleOp
    /\ budget' = [budget EXCEPT !.aborts = @ - 1]
    /\ UNCHANGED <<shards, index, loader>>

\* The process dies and is started again.
Crash ==
    /\ budget.crashes > 0
    /\ samples' = None
    /\ op' = IdleOp
    /\ loader' = Starting
    /\ past' = [past EXCEPT !.crashed = TRUE]
    /\ budget' = [budget EXCEPT !.crashes = @ - 1]
    /\ UNCHANGED <<shards, index>>

Import == BeginImport \/ LoadOnce \/ Compose \/ ReadIndex \/ Evict \/ SaveIndex \/ Refresh
            \/ \E s \in Sessions : ReplaceSession(s)
Reset  == BeginReset \/ DeleteShard \/ SaveEmptyIndex \/ Forget
Load(p) == CallLoad(p) \/ LoadIndex(p) \/ LoadShard(p) \/ EndLoad(p)

Next == Import \/ Reset \/ Analyze \/ Abort \/ Crash
          \/ \E p \in Loaders \cup {Initializer} : Load(p)

Spec == Init /\ [][Next]_vars

(***************************************************************************)
(* Safety                                                                  *)
(***************************************************************************)
\* No operation has failed and no process has died.
Undisturbed == past.failed = {} /\ ~past.crashed

\* Between operations the index lists exactly the stored shards, with their
\* sizes: nothing is stored that no load would find. (A crash or a failure
\* leaves shards without an entry.)
IndexMatches ==
    Idle /\ Undisturbed => \A s \in Sessions :
        IF shards[s] = <<>> THEN s \notin Listed(index)
        ELSE s \in Listed(index) /\ EntryOf(index, s).count = Len(shards[s])

\* Once its index is saved, every session of an import holds what the import
\* composed for it, or was evicted; crashed imports before it do not matter.
ImportSettles ==
    Doing("import", "refresh") =>
        \A s \in Said(op.input, {"full", "partial"}) :
            \/ shards[s] = <<>> /\ s \notin Listed(index)
            \/ /\ shards[s] = op.want[s]
               /\ s \in Listed(index) /\ EntryOf(index, s).count = Len(shards[s])

\* A finished import leaves no more rows than the cap, whatever was there, and
\* a session that fits is not evicted by the very import that brought it alone.
\* (A retry of a failed import may be taken for an old one.)
CapKeepsTheNewest ==
    Undisturbed =>
        /\ Idle => SumFunction([s \in Sessions |-> Len(shards[s])]) <= MaxSamples
        /\ Doing("import", "refresh") =>
              \A s \in Sessions :
                  /\ Said(op.input, {"full", "partial"}) = {s}
                  /\ Len(op.want[s]) <= MaxSamples
                  => shards[s] = op.want[s]

\* Only a complete list replaces a session: unknown, damaged or truncated ones
\* do not, and what other records they say revises the messages they name.
\* Everything else stays as stored.
MergesWithStored ==
    Doing("import", "index") =>
        \A s \in op.todo :
            \/ \E p \in op.batch : p.session = s /\ p.form = "list" /\ ~p.damaged
            \/ LET named == UNION {Mentioned(p.notes) : p \in {q \in op.batch : q.session = s}}
                   others(rows) == {row \in rows : row.id \notin named}
               IN  others(ToSet(op.want[s])) = others(Stored[s])

\* The same as long as no unlocked load has run beside an operation and no
\* reset has failed: over crashes and failed imports.
UncrossedMerges == ~past.crossed /\ "reset" \notin past.failed => MergesWithStored

=============================================================================
