# Verification of the ChatDynamics learning plugin

TLA+ models, TLC runs and TLAPS proofs for `astrbot_plugin_dynamics_learning`,
a plugin that imports annotated group-chat messages from a host plugin
(ChatDynamics), evaluates policy adjustments offline and keeps *policy records*
that a console can validate, promote or roll back. Promoted records are offered
to the host.

Everything runs in one asyncio event loop. Coroutines interleave at every
`await`: of the host's key-value store, of a worker thread
(`asyncio.to_thread`), of the language model, of a semaphore and of the
plugin's one lock. The models therefore have one action per await, and what a
coroutine does between two awaits is one step.

## 1. Inventory

| Component | State | Operations | Hard behaviour |
|---|---|---|---|
| Policy store, `core/store.py` 223-330 | four keys: intent, published offer, candidate offer, records | load, save, append, update status, revision | a save is five awaits; a crash or another reader between them |
| Policy record, `core/policy.py` | status, evidence, staleness, history | transitions, versions, offers; replay and parameter steps | status table against evidence; retries; compounding steps |
| Sample store, `core/store.py` 94-219 | one shard per session, one index | replace sessions, prune, clear, load | shards are written before the index; eviction at the cap |
| Orchestrator, `main.py` | `_lock`, `_samples`, last report, contract, diagnostics | initialize, ingest, run_analysis, update_policy, reset_storage, read payloads, terminate | some readers and initialize take no lock |
| Query cache, `core/query_cache.py` | generation, values, pending tasks | compute, invalidate, close | a late result of an older generation |
| Review runtime, `core/review_runtime.py` | epoch, tasks, slots, stored review, failure memo | singleflight, invalidate, save | a review of old data arriving after a reset |
| Autotune, `core/autotune.py`, `core/evaluation_pipeline.py` | best candidate, rounds, budget | search loop, finalise on a frozen window | stopping rules, one look at the final window |
| Evaluator, learners, report, `core/evaluator.py`, `recipient_learner.py`, `topic_learner.py`, `report.py` | one analysis, in a worker thread | reserve, learn, propose, tune, measure, annotate | what decides must not have been learned from; the order of gates |
| Ingestion, `core/ingest.py`, `samples.py`, `trace.py`, `outcome.py` | none between calls | an annotation to samples; a stored row back to facts | whole sessions and single records; two storage modes; schema versions |
| Quality, attribution, shadow gate, `core/quality.py`, `attribution.py`, `shadow.py` | contract counters of the last import | capability matrix, gates, blame, activation | they must speak of the same turn as the replay |
| Web API and console | the page's rows and revision | requests | decisions taken on an outdated page |

How they meet. `ingest`, `run_analysis`, `update_policy`, `reset_storage` and
`policies_payload` run under `_lock` (asyncio.Lock). `initialize`,
`overview_payload` and the sample read endpoints reach the same keys and the
same `_samples` without it. An import revises the sample store, drops the copy
in memory, invalidates the query cache and the reviews, and marks policy
records stale. An analysis reads the copy, computes in a worker thread and
appends policy records. The console sends a decision together with the policy
revision its page was built from.

What makes each part correct:

* policy store: the three published keys describe one list, whatever crashes;
  a list operation takes effect entirely or not at all; nothing is offered to
  the host without the evidence its status claims; a decision on an outdated
  page is refused.
* sample store: shards and index agree; single records are merged with what is
  stored; the cap holds and evicts the oldest; a reset leaves nothing.
* query cache: one computation per key; results of an old generation are not
  stored; no answer is older than an import that had ended before the request.
* review runtime: the stored review is of the samples in memory; no review of
  an earlier epoch is saved; one question per review; every request is
  answered.
* analysis: what was set aside is not learned from; a search stays near the
  host's parameters; only what the unseen evidence confirms is recorded as
  validated or left applicable.
* ingestion and its readers: a stored row, in either storage mode and after any
  merge, says what the host recorded; the gates open only on the labels and
  turns they ask for; a layer is blamed only for what it did.

## 2. Modules

| Module | Models |
|---|---|
| `PolicyRecord` | the record, the status table, evidence, marks, offers (operators) |
| `PolicyRegister` | what the policy store promises: one list of records, changed in one step |
| `PolicyStore` | the four keys and the coroutines of `main.py` that use them |
| `SampleStore` | shards, index and `_samples` under imports, analyses, resets, unlocked loads |
| `QueryCache` | the cache, the requests that read through it, the operations that invalidate it |
| `ReviewRuntime` | requests, flights (single-flight tasks), slots, stored review, invalidation |
| `Scores`, `Evaluator` | rates in ten-thousandths; normalisation, replay, splits, sweeps, verdicts (operators) |
| `Tuning` | the search loop of one tuning run, as operators on the record of its locals |
| `Analysis` | one analysis: reserve, learn, evaluate, tune, the final measurement, annotate, record |
| `Traces`, `Samples` | an annotation's trace and outcome; the samples of it, their storage and their readers (operators) |
| `Quality`, `Shadow` | replay of stored rows, capability matrix, gates, contract counters, blame; shadow gate (operators) |
| `Records` | the host that writes, completes and relabels annotations, and the imports that store them |
| `MC...` | instances for TLC |
| `...Proofs` | theorems |

How they compose. `PolicyStore` refines `PolicyRegister`. `Analysis` extends
`Tuning`, which extends `Evaluator` and `Scores`: a tuning run is driven by the
analysis that keeps it. `Records` extends `Quality` and `Shadow`, which read the
rows that `Samples` makes of the annotations of `Traces`; `Quality` also extends
`Evaluator`, so that the replay of a stored row can be held against the replay
an evaluation makes. `SampleStore`, `QueryCache` and `ReviewRuntime` take the
samples as versions, because there it matters only which ones are meant.

### PolicyStore

| Code | Model |
|---|---|
| `POLICY_PENDING_KEY`, `PUBLISHED_KEY`, `CANDIDATE_KEY`, `POLICY_KEY` | `pending`, `published`, `candidate`, `policy` |
| a coroutine of `main.py` | `frame[p]`: a chain of store calls (`After`) and the place inside the current call (`phase`) |
| `_recover_policies` | `GetIntent`/`GetNoIntent`, `PutPublished`, `PutCandidate`, `PutPolicy`, `DeleteIntent` |
| `load_policies`, `policy_revision` | the recovery, then `ReadPolicies`, `CheckRevision`, `SendPage` |
| `save_policies` | `PutIntent`, then the recovery |
| `_lock` (asyncio.Lock) | `lock`, the coroutine that holds it, and `queue`, the handlers that wait for it in the order they asked: `Wait`, `GiveUp` (cancelled while waiting), `Admitted`; viewers (`overview_payload`) and the initializer ignore it |
| a crash, an exception out of an await | `Crash`, `Abort` |

A record's text, scores and parameters are abstracted to what the properties
tell apart: status, staleness, evidence (none, checked, full) and the
fingerprint of its dataset. A revision is the list it is the hash of.
What a waiting request asks for has no effect until it is let in, so it is
chosen there. An update from the console carries in `expected` the page it was
decided on; the code compares the page's revision only, and `NoBlindOverwrite`
speaks of the page's rows.

`PolicyRegister` has one variable, the list, and steps for update, append,
mark and reset. That the list keeps 500 records is stated there without the
code's slice: when the list is full, recording a candidate displaces the oldest
record (`Displaced`), and nothing else drops one. The refinement maps it to `Register`: the intent if there is
one, else the stored list. So the linearisation point of a save is the put of
its intent, and a crash later in the save does not undo it.

### SampleStore

`shards[s]` are the stored rows of a session, `index` the ordered dict that
counts them, `samples` is `self._samples`. A locked operation is `op` with its
local variables; `loader[p]` is a load without the lock. `ReplaceSession`
writes one shard, `Evict` one eviction of `_prune`, `SaveIndex` the index. An
import finds a batch of parts, each a list of a session's records, complete or
damaged, or a bare record; `Reading` is what `parse_export` and
`parse_preferences` make of it: per session a snapshot, single records or
nothing.

### QueryCache

Samples are a version number, so freshness is a comparison. `Compute` is
`QueryCache.compute` up to its await (hit, join, new task); `Finish`, `Fail` and
`Leave` are the task's end and a client that goes away. `Import`, `Analysis`
and `Reset` are cut at their awaits in the order of `main.py`, because what
matters is whether the generation moves before or after the copy does. Whether
an entry has outlived the ttl is a free choice of each lookup.

### ReviewRuntime

A request that has the lock-free checks behind it joins the flight of its key or
starts one (`Join`). A flight waits for a slot, reads, asks, checks, and saves
under the write lock. What a flight asked about is the version of samples,
contract and annotations it read. The module takes quality_payload to describe
the samples in memory; `QueryCache` shows when it does not.
### Analysis, Tuning, Evaluator, Scores

| Code | Model |
|---|---|
| `EvaluationContext.reserve` | `Reserve`: the newest rows with all rows of their messages, then whole sessions |
| `recipient_learner.learn`, `topic_learner.learn` | `Learn` |
| `evaluate_dataset` | `Evaluate` (one candidate), `Propose` (one task, for the search) |
| `run_tuning`, `run_all` | `BeginRun`, `TuneStep` (one turn of the loop: `Turned`), `EndTuning` |
| `finalize`, `validate_frozen`, `promotion_check` | `FinalizeSingle`, `FinalizeRuns`, `Gate` |
| `_annotate`, `run_analysis` | `Annotate`, `Record` |

Thresholds, scores and rates are integers in ten-thousandths, rounded where the
code rounds. A row stands for `n` equal samples, so corpora of thousands of
turns stay small. The three parameters are the two the evaluator can move
(`strong`, `commit`) and the one that normalisation moves with them (`hover`).
The bootstrap interval of 600 resamples is the set of outcomes the sessions
allow (`Intervals`). Within one call nothing interleaves: an analysis works on a
copy in a thread of its own, so the actions are the stages in their order.

### Records, Traces, Samples, Quality, Shadow

| Code | Model |
|---|---|
| an annotation of the host | an element of `host`; a field that may be missing is a set of at most one value |
| `normalize_trace`, `trace_from_sample_record` | `TraceOf` |
| `from_block`, `final_outcome` of four places | `Assemble`, `Told`, `FirstTold` |
| `samples_from_annotation` | `SamplesOf` |
| `as_dict` with and without `store_raw_trace` | `Saved`; the keys of a stored trace are the DOMAIN of a record |
| `ingest`, whole sessions and single records | `ImportSessions`, `ImportRecords` |
| `decide` over a stored row | `ReplayTrace`, `Decide`, `Mismatched` |
| `capability_matrix`, `dataset_gate`, `RawContractStats`, `classify` | `Capabilities`, `GateBlocks`, `GateWarnings`, `Observed`, `Classify` |
| `shadow_rows`, `evaluate_shadow` | `ShadowRows`, `Blocked` |

`Records` changes what the host says (annotate, relabel, complete an outcome) and
what the store holds (imports in either mode) in any order; the properties
compare what a reader of the store finds with the annotation its message was
last imported from.


## 3. Runs

Each run is one `.cfg`. Bounds are on operations begun (`MaxOps`), crashes,
aborts (an exception out of an await), requests and so on; the models count
them in `budget`, so every reachable state within the bounds is visited.
Deadlock is checked for `Analysis_tuned` and the two `Records` runs, whose
systems say themselves when they are done. It is not checked for the store, cache
and runtime modules: with the budget spent, and in a plugin nobody uses, they
may rest.

Seven runs pass.

| Run | Question | Bounds, distinct states |
|---|---|---|
| `PolicyStore_locked` | do the keys, pages and decisions stay consistent with all handlers under the lock, and do the four keys implement one register? | 2 handlers and initialize, 3 versions, list cap 2, 3 operations, 1 crash; 571 k |
| `PolicyStore_viewers` | with the unlocked overview beside them: are interrupted writes completed, requests answered, those that wait for the lock too, and the lock given back? | 2 handlers, 1 viewer, 2 versions, 2 operations, 1 handler waiting (`MaxWaiters`), 1 crash, 1 abort, fairness; 96 k |
| `SampleStore_operations` | do shards and index agree, does the cap evict the oldest only, does only a complete list replace a session, and do single records revise what is stored? | 2 sessions of 2 messages, 15 batches, cap 3 rows, 3 operations, 1 crash, 1 abort; 3.3 M |
| `QueryCache_requests` | is the cache bounded, single-flight and fresh, and is everyone answered? | 2 concurrent requests, 1 operation, cache limit 2, fairness; 323 k |
| `ReviewRuntime_requests` | is no obsolete review stored or handed out, no question asked twice, and is everyone answered? | 2 requests of both kinds, one may refresh, 2 slots, one event (import, reset, change or failing read), a termination, fairness; 408 k |
| `Analysis_tuned` | does only confirmed evidence decide, and does every analysis end? | 404 situations: corpora of 4 sessions, 3 hosts, 6 configurations, 3 tuning steps, fairness |
| `Records_imports` | does every reader of the store speak of the turn the host saw? | 3 messages in 2 sessions, 7 kinds of turn, 1 edit, 2 days; 47 k |

Five runs have one property that the code does not have. Each states what a
document or a comment of the repository says, and ends in a trace.

| Run | What the trace shows |
|---|---|
| `PolicyStore_overview` | the unlocked `overview_payload` replays an intent it read before a locked save finished; the offers end up describing another list than the records |
| `PolicyStore_earlyrequest` | a request served during `initialize` writes back rows it read before they were marked, and an unproven record is offered |
| `QueryCache_quality` | `quality_payload` holds old samples over an await and caches their result under the new generation |
| `ReviewRuntime_reset` | a review requested while a reset is under way is of the erased samples and stays stored |
| `Records_activation` | a turn whose label may not judge the rule (in the trace a held-back turn of an old record, completed later; a persona turn likewise) counts in the shadow gate |

### What the properties say, and under which history

A defect of that second table also breaks invariants of the healthy part. Those
invariants are stated for the histories in which it has not happened, and
the condition is visible in the property: `past.crossed` (an unlocked load has
run beside an operation, or has put replaced rows back), `past.reset`,
`past.failed`, `past.crashed`, and `budget.x = MaxX` (no x has happened).
The important ones:

* `FreshMeansCurrent` needs that no operation has failed: an import that fails
  after `replace_sessions` leaves the records unmarked, and nothing marks them
  later.
* `UncrossedMerges` holds over crashes and failed imports, and needs that no
  unlocked load ran beside an operation and no reset failed (a failed reset
  keeps the copy of what it has erased).
* `HandedOutIsCurrent` asks less of a fresh contract review than of the others:
  it is checked before it waits for the write lock and is saved, so the provider
  and the settings may have changed when it is handed out; its epoch has not.
* `IndexMatches` and `CapKeepsTheNewest` need an undisturbed history: a crash
  between the shards and the index leaves a shard that no load finds and no
  reset deletes. `ImportSettles` does not need it.
* `TablesAreFresh` needs that no reset has begun: `reset_storage` invalidates
  before it empties the copy, so a result computed in between stays. It holds
  over imports, analyses, late results and evictions.
* `EpochFencesSaves` and `SlotsAddUp` need nothing.
* `ReplayIsOfTheTurn` is about evidence codes the plugin has names for. An
  unknown code is not kept by the features: with the raw trace off, a turn that
  had only the baseline and such a code is replayed as having no earlier bot
  message (`evaluator.py` 169-219).
* `DriftBounded` is about `strong` and `commit`, against the host's values as
  `decide` reads them, normalised. `safe_hover`, as `decide` reads it, follows
  `strong` by normalisation and may pass the cap; a candidate that moved it is
  listed as unsupported by `evaluation_plan` and never validated.
* `ValidatedBeatsHost` speaks of a required improvement above zero; the run's is.

### Why the bounds are enough

* Policies. Two handlers under the lock are as good as one at each moment, so
  what matters is the sequence of operations: three let a page be sent, another
  decision be taken and the outdated one arrive (`NoBlindOverwrite`), or an
  import outdate records an analysis has just added. Cap 2 with 3 versions fills
  the list and drops its oldest. One crash falls at every await, including
  those of the replay of an earlier crash's intent only once; the theorems of
  section 5 lift that bound. For liveness one handler that waits is enough: the
  lock is passed on to a waiter by a holder that ends in any of its ways, and a
  longer queue repeats that. That run starts from no records or from one
  validated record with full evidence (`FreshOrUsed`), which lets an update be
  accepted, refused and be a conflict; the other runs start from no
  record or from one of the three kinds of old record in `MCPolicyStore`.
* Samples. Two sessions and a cap of 3 rows make an import evict the other
  session or be evicted; three operations allow import, failed import, import.
* Cache. One operation between two requests is what every stale answer needs.
  The theorems hold for any number.
* Reviews. Two requests are a leader and a follower of one flight, or two
  flights for two slots. One event falls at every await of both.
* Analysis. Session 1 and the newest, session 4, are what decides; session 2 is
  the tuner's holdout and session 3 what it fits on. The corpora put turns
  between a threshold and where a search may carry it: each of up to three
  steps gains, costs or changes nothing, in every combination; the final
  evidence confirms, refuses or costs another task. Nine odd corpora (no rows,
  one session, undated labels, a message judged again later, no admission
  labels) meet every configuration.
* Records. The turns of message 1 are the seven kinds the readers treat
  differently: scored and held back, unscored, explicit, early, without
  evidence, without a trace, persona. Two neighbours, one in the same session,
  let single records be merged. Two days and an age limit of 0 let labels grow
  old between two imports.

### Fairness

The event loop runs a coroutine whose await has completed, and every await of
the store, the host, a worker thread or the model completes or raises (the
model call has a timeout). So each coroutine's next step is weakly fair. In
`PolicyStore` the host starts the plugin again after a crash, so `StartPlugin`
is weakly fair too, and a released asyncio.Lock wakes the first coroutine that
waits for it, so the entry of a waiting handler is weakly fair. No fairness is
given to asking for an operation, to crashes, to failures or to clients going
away. In `QueryCache` each request's own steps
are fair and so is the end of some task, which is enough because a request
starts boundedly many. In `ReviewRuntime` the flights share one weakly fair
disjunction: a flight at work never blocks the others' ends. An analysis is one
call in a worker thread: until it is done it goes on; `Analysis!Fairness` says so
with the state predicate that tells when `Next` is enabled.

## 4. Liveness

`IntentIsCompleted`: an intent left by a crash is replayed, because the plugin
is started again and `initialize` loads the policies. After an exception in a
running plugin nothing forces a load, and the intent may stay until the next
one; the property says so. `RequestsEnd` of the policy store: every request is
answered or given up, one that waits in the queue of the lock included, and
whenever the lock is held it is given back (`lock # None ~> lock = None`). A
handler that ended in an early refusal without releasing the lock would be idle
itself; it is the lock and the waiting request that would never move again.
`RequestsEnd` of the query cache: every request is answered. `EverythingEnds` of
the review runtime: every request is answered, and an import, a reset and a
termination end although they wait for the flights they cancel and those for
slots.
`AnalysisEnds`: the search loop comes to an end whatever it meets.

## 5. Theorems

All are checked by TLAPS for every value of the constants that meets the named
assumptions, with no bound on crashes, aborts, operations, processes, samples,
messages or tuning steps other than those the code has. Together they state
every safety invariant and every action property that a passing run checks, and
the refinement.

The assumptions: `RecordAssumption`, `StoreAssumption`, `SampleAssumption`,
`CacheAssumption` and `ReviewAssumption` say that bounds and caps are natural
numbers and that the sets of processes are disjoint. `TuningAssumption` and
`EvaluatorAssumption` say what `core/config.py` and the default rules grant of
ranges and limits (`PromoteGain <= StrongGain`, `Least4[p] <= Most4[p]`).
`QualityAssumption` and `RecordsAssumption` do so for the gates and for the
annotations a host may write. `SituationsAssumption` says that a corpus is a
finite set of rows that stand for at least one sample each and have a session,
a time and a label of the kinds `Samples` makes.

| Module | Theorem | States |
|---|---|---|
| `PolicyStoreProofs` | `TypeCorrect` | `TypeOK` |
| | `OffersBacked` | `OffersAreBacked`, if requests wait for `initialize` (`BootGate`), with viewers |
| `PolicyLockProofs` | `KeysAgree`, `CurrentRows`, `PagesAreConsistent` | the three keys, the working rows and the pages agree |
| | `FreshIsCurrent` | `FreshMeansCurrent` |
| | `LegalArrows`, `StaleStays` | what no step may do |
| | `NoLostUpdate` | `NoBlindOverwrite`: a decision is saved over the rows its page showed |
| | `StoreIsARegister` | `PolicyStore` implements `PolicyRegister` |
| `SampleStoreProofs` | `SampleTypes` | `TypeOK`, with one row per message and one entry per session |
| | `ImportsSettle`, `MergesKeepTheRest` | `ImportSettles`, `UncrossedMerges` |
| | `IndexAndShards`, `TheCap` | `IndexMatches`, `CapKeepsTheNewest`, if the index may list every session (`FewSessions`) |
| `QueryCacheProofs` | `CacheTypes`, `CurrentValues`, `OneFlight`, `WaitersAreServed` | types and bound, generations, single flight, no lost waiter |
| | `FreshTables` | `TablesAreFresh` |
| `ReviewRuntimeProofs` | `ReviewTypes`, `SlotsBalance` | `TypeOK`, `SlotsAddUp` |
| | `TasksHaveTheirKeys`, `QuestionsDiffer` | one task per key; `OneAskPerReview` |
| | `SavesAreFenced`, `TerminationIsQuiet` | `EpochFencesSaves`, `TerminatedIsQuiet` |
| | `HandedOutReviews` | `HandedOutIsCurrent`, an action property |
| `AnalysisProofs` | `AnalysisTypes` | `AnalysisTypeOK`, with the cap on tuning steps |
| | `HoldoutsStayApart`, `HoldoutsStayUnseen` | what is learned from and what decides share no message, nor a session; `HoldoutsUnseen` |
| | `DriftStaysBounded`, `CandidatesAreEarned` | `DriftBounded`, `CandidateIsEarned` |
| | `ValidatedBeats` | `ValidatedBeatsHost`, if an improvement is required at all (`MinGain > 0`) |
| | `ActionableSupported` | `ActionableIsSupported` |
| `RecordsProofs` | `RecordsInvariant`, `RecordTypes` | the rows in the store are those of an imported annotation in one mode; `RecordsTypeOK` |
| | `SchemasAreKept`, `ImportsStand`, `PlanesMeet` | `SchemaIsTheHosts`, `LastImportStands`, `PlanesAgree` |
| | `ReplaysAreOfTurns` | `ReplayIsOfTheTurn`, if the host writes evidence codes the plugin names (`KnownTurns`) |
| | `OnlyEligible`, `BlameIsEarned` | `OnlyEligibleMove`, `BlameIsTrue` |
| | `ActivationEarned`, `GateNeedsRecent` | `ActivationIsEarned`, `GateNeedsRecentLabels` |

`SumTheorems` has the lemmas about sums that the others cite.

Some theorems state a property no run lists any more (`CurrentRows`,
`PagesAreConsistent`, `LegalArrows`, `StaleStays`, `CurrentValues`,
`WaitersAreServed`, `TasksHaveTheirKeys`): the theorem says more than the run did.

The hypotheses some theorems have are there because the code needs them:

* `BootGate` (`OffersBacked`, and `PolicyLockProofs`): `PolicyStore_earlyrequest`
  refutes the theorem without it.
* `Viewers = {}` (all of `PolicyLockProofs`): `PolicyStore_overview` does.
* `FewSessions` (`IndexAndShards`, `TheCap`): `_load_index` forgets the sessions
  beyond `MAX_SESSIONS_TRACKED` and leaves their shards.
* `MinGain > 0` (`ValidatedBeats`): `learning_min_improvement` may be set to 0
  (`core/config.py` 232), and then a policy that only ties with the host
  passes the gate.
* `KnownTurns` (`ReplaysAreOfTurns`): see section 3.

### Policy store

`OffersBacked` rests on `BackedInv`: every
list in a key, in an intent or in a coroutine's frame has only live records
with evidence, except in frames of the initializer before its save.
`PolicyLockProofs` uses `LockInv`: at most one
coroutine is inside the store (`Alone`: the lock's holder, or the initializer
while booting); the keys between the phases of a replay are partly those of the
intent, in the order the code writes them (`Keys`, `Replay`); and a frame between
load and save holds the current list (`Remembers`). None of the properties is
inductive without it: `ThreeKeysAgree` says nothing while a replay is half done.
The refinement maps the register to the intent, if there is one, so the step
that puts the intent is the register's step and all others stutter. The code
cuts every list it saves and every list it reads to its last 500 records, the
register only makes room for a new one: the two agree because every list a key,
an intent or a frame holds is within the cap already and blank where it has no
record (`Capped`), so that only an append can be cut (`EditsAreNotTrimmed`) and
the cut takes the oldest record and nothing else (`AppendDropsTheOldest`).
`NoLostUpdate` needs besides that every page, the one the console holds and the
one an update carries, shows the rows its revision is of (`Honest`, `Pages`);
that is `PagesAreConsistent`, and it follows from `Remembers`, since the second
load of a page finds the list the first one found.
`FreshIsCurrent` adds `FreshInv`: the fresh records are current, or the operation
that changed the samples has its marking or erasing still before it
(`Repairing`), or the plugin is down. The second half is what makes a crash between
the two harmless: once `initialize` has put its intent, the records are current
already, and a later replay of that intent leaves them so (`ReplayStays`).

### Sample store

`StoreInv` follows an operation from await to await. `Composed` says what an
import wants of each session, from what it loaded and from its batch; `Settling`
that a session already dealt with is stored as wanted and listed with its size,
or evicted; `CopyTrue` and `LoadsTrue` that the copy and what a load has so far
are the stored rows as long as no load has crossed an operation. `ImportsSettle`
needs no history: what a crash or a failure left behind is overwritten before
the index is saved. `Matching` is the agreement of index and shards at each await of an
undisturbed operation: between the shards and the index it is the local index
that matches. `CapInv` is what eviction adds: `Dated` (no
listed session is dated later than now, and while an import runs only those it
has replaced are dated now), `Capped` (more than the cap is held only while an
import has not saved its index), `Newcomer` (while more is held than the cap,
the one session the import brings is the only recent one, so the loop evicts
everything else first). The loop stops because the rows held are
a sum that falls with each eviction, and when only the newcomer is left the sum
is its own size.

### Query cache

`CacheInv` adds to the three invariants that no
task belongs to a future generation, so an invalidation makes every running
task obsolete at once. `FreshInv` strengthens freshness with what an import
owes: from its invalidation to its end the results of the new generation are of
the *new* rows (`Due`), because the import ends without another invalidation;
the copy is the stored rows except between the write and the drop; and the
waiters of a task were promised no more than the task's rows.

### Review runtime

`RuntimeInv` has two halves. `Fenced`: a cancelled flight is of an earlier
epoch and every other one is of the current epoch, because whatever moves the
epoch cancels all flights in the same step; so a flight past its last check is
not obsolete (`SavesGoOn`), and after `terminate` all are cancelled (`Quiet`).
`HandedOutReviews` says of each end of a flight what it may return (`Rightly`): a
review checked in that step, or one saved just now, which only a contract
review is (`Fitting`) and which `Fenced` keeps in its epoch.
`Counted`: the free places and the flights inside add up to the size. A flight
leaves a place on every way out, cancelled ones included, and the lemmas about
`Held` count that with cardinalities of finite sets.
`OneAskPerReview` does not follow from one task per key alone: the key holds the
settings and the provider as the request saw them, so `KeysOfNow` says that these
are the current ones as long as nothing was switched.

### Analysis

A recommendation says which parameter to move; it
stays actionable only if a validated candidate of the task that owns the
parameter moved that parameter. The code never compares the two directly: it
trusts that a recipient run moves `commit` only, and a topic run `strong` and what
`normalize` drags after it. `AnalysisInv` therefore follows what every step of
`run_tuning` keeps (`Keeps`, `Untouched`): a proposal, the cumulative cap and
the normalisation of a normalised parameter set leave the other task's own
parameter where the host has it (`NormalizeKeeps`, `ProposalKeeps`,
`CapKeeps`). It is the normalised host everything is compared with, and
normalising twice changes nothing (`NormalizeStable`). A finalised run is
supported because the gate accepts only a candidate that differs from the host
in what it may move (`AcceptedMoves`). For this theorem nothing is assumed of
what a sweep returns.

`SearchInv` says of every run that its splits are parts of the corpus, that the
policy it is at and the one it ends with are in reach of the normalised host
(`InReach`), that a policy it has gone to is safe against the host (`Sound`), and
that, while it goes on, the gain of its last step is that of the policy it is at
(`Searched`): a rejected step ends the search. `DriftBounded` is exact
because the cap rounds its share down, and clamping cannot move a value away
from a host value that is in range itself. `CandidatesAreEarned` compares two error counts over
the same rows although the code compares rates rounded to ten-thousandths, and
says exactly what rounding can hide. `BeatsInv` carries the final measurement
to what is recorded: an accepted gate means more right answers on the holdout of
sessions and, where one was set aside, on the future window. The verdict
compares two rounded rates, `ValidatedBeatsHost` two counts of right answers;
the one implies the other because both policies are scored over the same
total (`SameTotal`), which for topics is a count of pairs (`PairsAddUp`).
`FutureNewest` is about the cut `split_by_time` takes: the newest rows with all
rows of their messages leave behind only what is no newer.

### Records

`RecordsInvariant` is short: what the store has of a message is what
`samples_from_records` makes of the annotation its last import read, in one of the
two storage modes, and there is nothing else. It is inductive because an import
replaces all rows of the messages it reads. All the rest is about one
annotation, and shows that each reader gets out of a stored row what was in the
annotation: through the raw trace, or through the features and facts kept in its
place. `RecordsProofs` goes through `TraceOf`, `Saved` and the readers field by field,
by the kind of the turn. `ActivationEarned` and `GateNeedsRecent` count: rows map
to labels one to one, so there are no more of the first than of the second.

### Sums

The models add up with the folds of the community modules. Those are
CHOSEN recursive functions, and the library's induction theorems take an
operator as a parameter, which no prover here can instantiate. `SumTheorems` does
without: the function exists and is unique because a least subset of a finite
set on which it would not be leads to a contradiction
(`LeastSubset`, from the well-foundedness of strict inclusion, which the library
states for a set and not for an operator). In the same way follow the facts
others need: the sum of two disjoint parts (`SumOfParts`), comparison element by
element (`SumBelow`), the sum over an image (`SumOfImage`), counting by groups
(`CountByPlace`).

Only model-checked:

* liveness (`IntentIsCompleted`, `RequestsEnd`, `EverythingEnds`,
  `AnalysisEnds`): TLAPS has no rules for fairness and `ENABLED` here;
* what a recursive definition computes for every input beyond the sums, as the
  metrics' exact values: the theorems use bounds and comparisons of them;
* that the five properties of the second table of section 3 fail: a trace of TLC
  is the whole argument.

## 6. What the models leave out

* Text: messages, names, prompts, logs, the rendering of pages and reports.
* `SampleStore`, `QueryCache`, `ReviewRuntime` and `PolicyStore` take a sample
  as a message and a revision of its label, and a dataset as a fingerprint; what
  is in a sample is modelled in `Samples`, `Traces` and `Records`, what an
  analysis makes of a dataset in `Analysis`.
* `ReviewRuntime` takes what `quality_payload` returns to be of the samples in
  memory.
* Numbers. A score is an integer in ten-thousandths, a ratio is compared by
  cross-multiplication (so no rounding), and the host's parameters are the three
  the rule reads: `strong`, `hover` and `commit`.
* The bootstrap interval of a metric is any of the intervals the units allow
  (`PossibleIntervals`), not the seeded draw of the code. The sweep tries every
  cut of the grid, where the code thins more than 41 of them.

Not modelled:

* the history of a record (32 entries) and the time in shadow read from it;
* the counts of refused, truncated and malformed records of an import;
* shadow coverage, scope profiles and the learning window: counters and
  summaries that only the console shows;
* the learned logistic scorer and its features: floating-point descent, whose
  result is shown and never recorded as a candidate by itself;
* configuration, prompts and their parsers, the web layer, the page and the
  scripts: conversions without state.

Behaviour met while modelling, faithful to the code and not counted as a
disagreement, since no document states otherwise or no run can isolate it:

* Policy store and sample store. Repeating a record's status appends to its
  history and moves the revision. Version numbers start again after a reset. A
  session that loses its place in the truncated index keeps its shard. Above the
  cap, importing a batch again can evict other sessions than before. An import
  repeated after a failure may keep the old time of a session.
* An unlocked `load_samples` that spans an import (`main.py` 186) puts replaced
  rows back as the plugin's copy, and the next single record is merged into
  them and written: stored messages are lost, against what the comment at
  `main.py` 227 wants. `UncrossedMerges` states the merge for the histories in
  which no load has crossed an operation.
* Reviews. An unrelated change of settings makes a second flight ask the same
  question, and a request with `refresh` that joins a flight without it gets
  the stored answer: the key (`review_runtime.py` 77) leaves `refresh` out.
* Replay. With the raw trace off, a turn that had only the baseline and a code
  the plugin has no name for is replayed as one without an earlier bot message:
  `parse` keeps such codes (`core/trace.py` 473-485), the features do not
  (`EVIDENCE_CODES`, 82), and `prior_bot_proxy` becomes 0. The docstring at
  `core/evaluator.py` 172-178 says that a replay "still works" with it off.
  A record whose delivery is in flight and whose reply was expected becomes a
  `reply_outcome` row that says silent. A record with only a rule label and no
  admission decision is dropped without being counted as undecided, and two
  records of one message in a batch can both leave rows.
* Contracts. The routing of a record is looked at before its trace by the
  candidates' counter, and the other way round by the sample reader.
  `contract_compatibility` calls an undeclared contract and one of schema 4
  alike, and with the raw trace off everything missing; the schema block's
  `unreadable` is always empty.
* Shadow gate. The checks on sessions and active hours count unlabelled rows
  too, and `interval_floor` can only block together with `net_gain`.
* Tuning. `_finalise` writes the error and the collateral of the last step into
  the candidate, also when that step was rejected; `finalize` may then validate
  a candidate whose run ended with reject or needs_review. `safe_hover` can pass
  the cumulative cap when normalisation drags it after `strong`, and is not
  validated then. `TuneRules.step_delta_ratio` is used nowhere.
* Report. `_annotate` promises (docstring at 150) that a recommendation is
  downgraded when a tuning run moved the same parameter the other way. It
  compares the recommendation's direction from `BASE_POLICY` with the run's
  drift from the host's own value: a host at 0.60 may be told to raise `strong`
  to 0.665 by a validated run that lowered it from there. `ActionableIsSupported`
  is stated for what the code compares. Without a tuning run, an actionable
  recommendation rests on the evaluator's candidate alone.

## 7. Plan

Done: the policy store with its abstract register; the sample store; the query
cache; the review runtime; the reading of a record into rows, the data-quality
planes and the shadow gate; learning, evaluation, tuning and the report; proofs
of every safety invariant and action property of the passing runs.

Next, in this order:

1. Refinements worth stating: the sample store as a map from sessions to rows
   that an import, an eviction and a reset change; a review flight as one
   question with at most one answer.
2. The learners' recommendations as theorems about `Learn`: what makes one
   actionable before tuning.
3. `PolicyLifecycle`: the history of a record with its cap, shadow time, and the
   version numbers over a reset.
