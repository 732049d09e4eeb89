---------------------------- MODULE PolicyStore ----------------------------
(***************************************************************************)
(* The policy half of core/store.py (LearningStore) under the coroutines   *)
(* of main.py that call it.                                                *)
(*                                                                         *)
(* Four durable keys: POLICY_PENDING_KEY (the intent), PUBLISHED_KEY,      *)
(* CANDIDATE_KEY and POLICY_KEY. Every get, put and delete on them is an   *)
(* await of the host's key-value store, and so one action here. A          *)
(* coroutine runs a list of store calls; a "load" and a "save" both run    *)
(* _recover_policies, which replays the intent it finds.                   *)
(*                                                                         *)
(* Handlers hold the plugin's _lock, an asyncio.Lock, for the whole        *)
(* operation, and wait for it in the order they asked. Viewers run         *)
(* overview_payload and the Initializer runs initialize, both without it.  *)
(***************************************************************************)
EXTENDS PolicyRecord, Sequences

CONSTANTS
    None,            \* an absent key, an unset field
    NoSamples,       \* the fingerprint of the empty dataset
    Handlers,        \* coroutines that take the lock
    Viewers,         \* coroutines that run overview_payload
    Initializer,     \* the coroutine that runs initialize
    BootGate,        \* TRUE: requests wait until initialize has returned
    LegacyRows,      \* the record lists an older version may have left
    MaxBatch,        \* bound: candidates one analysis records (2 tasks)
    MaxOps,          \* bound: operations asked for
    MaxWaiters,      \* bound: handlers that wait for the lock at a time
    MaxCrashes,      \* bound: process crashes
    MaxAborts        \* bound: operations that end in an exception

Procs == Handlers \cup Viewers \cup {Initializer}

\* The rows the console shows and the revision it will send back.
Page == [rows : RowMap, revision : RowMap]

ASSUME StoreAssumption ==
    /\ NoSamples \in Fingerprints
    /\ BootGate \in BOOLEAN
    /\ LegacyRows \subseteq {rows \in RowMap : Trim(rows) = rows}
    /\ \A rows \in LegacyRows : \A v \in Versions :
          rows[v].moves = 0 /\ (Present(rows[v]) \/ rows[v] = NoRow)
    /\ {MaxBatch, MaxOps, MaxWaiters, MaxCrashes, MaxAborts} \subseteq Nat
    /\ Initializer \notin Handlers \cup Viewers
    /\ Handlers \cap Viewers = {}
    /\ None \notin Procs \cup RowMap \cup Offer \cup Statuses \cup Page

VARIABLES
    pending,     \* POLICY_PENDING_KEY
    published,   \* PUBLISHED_KEY
    candidate,   \* CANDIDATE_KEY
    policy,      \* POLICY_KEY
    data,        \* fingerprint of the stored samples
    lock,        \* the coroutine that holds _lock, or None
    queue,       \* the handlers that wait for it, in the order they asked
    plugin,      \* "down", "booting" (inside initialize) or "up"
    frame,       \* what each coroutine is doing
    page,        \* what policies_payload last sent to the console, or None
    budget       \* operations, crashes and aborts left

keys  == <<pending, published, candidate, policy>>
vars  == <<pending, published, candidate, policy, data, lock, queue, plugin,
           frame, page, budget>>

(***************************************************************************)
(* Coroutines. An operation is a chain of calls; After gives the successor *)
(* of a call whose successor is fixed.                                     *)
(***************************************************************************)
After ==
    [check_revision  |-> "load_update",        \* update_policy
     load_update     |-> "save_update",
     save_update     |-> "load_offers",
     load_offers     |-> "save_offers",        \* _save_policy_offers
     save_offers     |-> "idle",
     load_versions   |-> "analyze",            \* run_analysis
     load_append     |-> "save_append",        \* append_policy
     load_stale      |-> "save_stale",         \* ingest
     save_stale      |-> "idle",
     load_outdated   |-> "save_outdated",      \* initialize
     save_outdated   |-> "idle",
     clear_samples   |-> "save_empty",         \* reset_storage
     save_empty      |-> "clear_published",
     clear_published |-> "clear_candidate",
     clear_candidate |-> "idle",
     load_page       |-> "load_revision",      \* policies_payload
     load_revision   |-> "idle",
     load_overview   |-> "idle"]               \* overview_payload

Loads == {"check_revision", "load_update", "load_offers", "load_versions",
          "load_append", "load_stale", "load_outdated", "load_page",
          "load_revision", "load_overview"}
Saves == {"save_update", "save_offers", "save_append", "save_stale",
          "save_outdated", "save_empty"}
Calls == Loads \cup Saves \cup
         {"idle", "import", "clear_samples", "analyze",
          "clear_published", "clear_candidate"}

\* Where a coroutine stands inside its current call.
Phases == {"start", "recover", "pub", "cand", "pol", "del", "read"}

Frame == [call     : Calls,
          phase    : Phases,
          rows     : RowMap,                 \* the local `policies`
          snap     : RowMap,                 \* the local `pending` of a recovery
          seen     : Fingerprints,           \* fingerprint of the samples read
          batch    : Seq(Evidence),          \* candidates still to append
          version  : Versions,               \* version to update or to append
          status   : Statuses,               \* arguments of update_policy
          expected : Page \cup {None}]       \* the page the update was decided on

IdleFrame == [call |-> "idle", phase |-> "start", rows |-> NoRows, snap |-> NoRows,
              batch |-> <<>>, seen |-> NoSamples, version |-> 1,
              status |-> "proposed", expected |-> None]

Idle(p) == frame[p].call = "idle"
At(p, calls, phase) == frame[p].call \in calls /\ frame[p].phase = phase

\* The rows a load would return now: the intent if there is one.
Register == IF pending # None THEN pending ELSE Trim(policy)

TypeOK ==
    /\ pending \in RowMap \cup {None}
    /\ published \in Offer \cup {None}
    /\ candidate \in Offer \cup {None}
    /\ policy \in RowMap
    /\ data \in Fingerprints
    /\ lock \in Handlers \cup {None}
    /\ queue \in Seq(Handlers) /\ Len(queue) <= MaxWaiters
    /\ plugin \in {"down", "booting", "up"}
    /\ frame \in [Procs -> Frame]
    /\ page \in Page \cup {None}
    /\ budget \in [ops : 0 .. MaxOps, crashes : 0 .. MaxCrashes, aborts : 0 .. MaxAborts]

Init ==
    /\ pending = None
    /\ published = None
    /\ candidate = None
    /\ policy \in LegacyRows
    /\ data \in Fingerprints
    /\ lock = None
    /\ queue = <<>>
    /\ plugin = "down"
    /\ frame = [p \in Procs |-> IdleFrame]
    /\ page = None
    /\ budget = [ops |-> MaxOps, crashes |-> MaxCrashes, aborts |-> MaxAborts]

(***************************************************************************)
(* Asking for an operation, which spends budget.ops, and beginning it.     *)
(***************************************************************************)
Serving == plugin = "up" \/ (plugin = "booting" /\ ~BootGate)

Waiting(p) == \E i \in DOMAIN queue : queue[i] = p

\* async with self._lock: while the lock is held, or somebody waits for it, a
\* request joins the queue. What it asks for has no effect until it is let in
\* and is chosen there.
Wait(p) ==
    /\ p \in Handlers
    /\ Serving /\ Idle(p) /\ ~Waiting(p) /\ budget.ops > 0
    /\ lock # None \/ queue # <<>>
    /\ Len(queue) < MaxWaiters
    /\ queue' = Append(queue, p)
    /\ budget' = [budget EXCEPT !.ops = @ - 1]
    /\ UNCHANGED <<keys, data, lock, plugin, frame, page>>

\* A request cancelled while it waits.
GiveUp(p) ==
    /\ \E i \in DOMAIN queue :
          /\ queue[i] = p
          /\ queue' = SubSeq(queue, 1, i - 1) \o SubSeq(queue, i + 1, Len(queue))
    /\ UNCHANGED <<keys, data, lock, plugin, frame, page, budget>>

\* A lock nobody waits for is taken at once; else the first of the queue takes it.
Admitted(p) ==
    \/ /\ queue = <<>> /\ budget.ops > 0
       /\ budget' = [budget EXCEPT !.ops = @ - 1]
       /\ UNCHANGED queue
    \/ /\ queue # <<>> /\ Head(queue) = p
       /\ queue' = Tail(queue)
       /\ UNCHANGED budget

BeginLocked(p, f) ==
    /\ p \in Handlers
    /\ Serving /\ Idle(p) /\ lock = None
    /\ Admitted(p)
    /\ lock' = p
    /\ frame' = [frame EXCEPT ![p] = f]
    /\ UNCHANGED <<keys, data, plugin, page>>

\* update_policy, from the console's page or without expected_revision
BeginUpdate(p) ==
    \E v \in Versions, s \in Statuses, e \in {None} \cup {page} :
        BeginLocked(p, [IdleFrame EXCEPT
            !.call = IF e = None THEN "load_update" ELSE "check_revision",
            !.version = v, !.status = s, !.expected = e])

\* run_analysis reads the samples once, before the policies
BeginAnalysis(p) ==
    BeginLocked(p, [IdleFrame EXCEPT !.call = "load_versions", !.seen = data])

BeginIngest(p) == BeginLocked(p, [IdleFrame EXCEPT !.call = "import"])

BeginReset(p) == BeginLocked(p, [IdleFrame EXCEPT !.call = "clear_samples"])

\* policies_payload loads twice: the rows, then the revision sent with them
BeginView(p) == BeginLocked(p, [IdleFrame EXCEPT !.call = "load_page"])

\* overview_payload takes no lock
BeginOverview(p) ==
    /\ p \in Viewers
    /\ Serving /\ Idle(p) /\ budget.ops > 0
    /\ frame' = [frame EXCEPT ![p] = [IdleFrame EXCEPT !.call = "load_overview"]]
    /\ budget' = [budget EXCEPT !.ops = @ - 1]
    /\ UNCHANGED <<keys, data, lock, queue, plugin, page>>

\* initialize reads the samples, then the policies; it takes no lock
StartPlugin ==
    /\ plugin = "down"
    /\ plugin' = "booting"
    /\ frame' = [frame EXCEPT ![Initializer] =
                    [IdleFrame EXCEPT !.call = "load_outdated", !.seen = data]]
    /\ UNCHANGED <<keys, data, lock, queue, page, budget>>

(***************************************************************************)
(* Ending a call or an operation                                           *)
(***************************************************************************)
Leave(p) ==
    /\ frame' = [frame EXCEPT ![p] = IdleFrame]
    /\ lock' = IF lock = p THEN None ELSE lock

NextCall(f) ==
    IF f.call # "save_append" THEN After[f.call]
    ELSE IF f.batch # <<>> THEN "load_append" ELSE "load_offers"

\* f is p's frame after the current call; the last call ends the operation.
Return(p, f) ==
    IF NextCall(f) = "idle"
    THEN /\ Leave(p)
         /\ plugin' = IF p = Initializer THEN "up" ELSE plugin
    ELSE /\ frame' = [frame EXCEPT ![p] = [f EXCEPT !.call = NextCall(f), !.phase = "start"]]
         /\ UNCHANGED <<lock, plugin>>

Goto(p, phase) ==
    /\ frame' = [frame EXCEPT ![p].phase = phase]
    /\ UNCHANGED <<lock, plugin>>

(***************************************************************************)
(* _recover_policies                                                       *)
(***************************************************************************)
Recovering(p) == At(p, Loads, "start") \/ At(p, Saves, "recover")

\* A load goes on to read POLICY_KEY, a save is finished.
Recovered(p) == IF frame[p].call \in Loads THEN Goto(p, "read") ELSE Return(p, frame[p])

\* Slip: the published offer is taken to be in place already.
GetIntentSkipsPublished(p) ==
    /\ Recovering(p)
    /\ pending # None
    /\ frame' = [frame EXCEPT ![p].snap = pending, ![p].phase = "cand"]
    /\ UNCHANGED <<keys, data, lock, plugin, page, queue, budget>>

GetIntent(p) ==
    /\ Recovering(p)
    /\ pending # None
    /\ frame' = [frame EXCEPT ![p].snap = pending, ![p].phase = "pub"]
    /\ UNCHANGED <<keys, data, lock, plugin, page, queue, budget>>

GetNoIntent(p) ==
    /\ Recovering(p)
    /\ pending = None
    /\ Recovered(p)
    /\ UNCHANGED <<keys, data, page, queue, budget>>

PutPublished(p) ==
    /\ At(p, Loads \cup Saves, "pub")
    /\ published' = PublishedOffer(frame[p].snap)
    /\ Goto(p, "cand")
    /\ UNCHANGED <<pending, candidate, policy, data, page, queue, budget>>

PutCandidate(p) ==
    /\ At(p, Loads \cup Saves, "cand")
    /\ candidate' = CandidateOffer(frame[p].snap)
    /\ Goto(p, "pol")
    /\ UNCHANGED <<pending, published, policy, data, page, queue, budget>>

PutPolicy(p) ==
    /\ At(p, Loads \cup Saves, "pol")
    /\ policy' = frame[p].snap
    /\ Goto(p, "del")
    /\ UNCHANGED <<pending, published, candidate, data, page, queue, budget>>

\* Slip: the intent is deleted before the records are written.
DeleteIntentEarly(p) ==
    /\ At(p, Loads \cup Saves, "pol")
    /\ pending' = None
    /\ Recovered(p)
    /\ UNCHANGED <<published, candidate, policy, data, page, queue, budget>>

DeleteIntent(p) ==
    /\ At(p, Loads \cup Saves, "del")
    /\ pending' = None
    /\ Recovered(p)
    /\ UNCHANGED <<published, candidate, policy, data, page, queue, budget>>

(***************************************************************************)
(* load_policies and policy_revision, after the recovery                   *)
(***************************************************************************)
ReadPolicies(p) ==
    /\ At(p, Loads \ {"check_revision", "load_revision"}, "read")
    /\ Return(p, [frame[p] EXCEPT !.rows = Trim(policy)])
    /\ UNCHANGED <<keys, data, page, queue, budget>>

\* Slip: expected_revision is read and not compared.
CheckNoRevision(p) ==
    /\ At(p, {"check_revision"}, "read")
    /\ Return(p, frame[p])
    /\ UNCHANGED <<keys, data, page, queue, budget>>

\* expected_revision of update_policy_status: a mismatch is a conflict error.
CheckRevision(p) ==
    /\ At(p, {"check_revision"}, "read")
    /\ IF frame[p].expected.revision = Trim(policy)
       THEN Return(p, frame[p])
       ELSE Leave(p) /\ UNCHANGED plugin
    /\ UNCHANGED <<keys, data, page, queue, budget>>

SendPage(p) ==
    /\ At(p, {"load_revision"}, "read")
    /\ page' = [rows |-> frame[p].rows, revision |-> Trim(policy)]
    /\ Return(p, frame[p])
    /\ UNCHANGED <<keys, data, queue, budget>>

(***************************************************************************)
(* save_policies: the durable intent, then _recover_policies               *)
(***************************************************************************)
UpdateAccepted(f) == Accepts(f.rows[f.version], f.status)

\* A finalised candidate is validated exactly when its evidence is complete.
CandidateRow(evidence, fingerprint) ==
    [status |-> IF evidence = "full" THEN "validated" ELSE "proposed",
     stale |-> FALSE, evidence |-> evidence, data |-> fingerprint, moves |-> 1]

\* The list the operation saves, computed from the rows it loaded.
Edited(f) ==
    CASE f.call = "save_update"   -> WithStatus(f.rows, f.version, f.status)
      [] f.call = "save_append"   -> [f.rows EXCEPT ![f.version] =
                                          CandidateRow(Head(f.batch), f.seen)]
      [] f.call = "save_stale"    -> MarkAll(f.rows)
      [] f.call = "save_outdated" -> MarkOutdated(f.rows, f.seen)
      [] f.call = "save_empty"    -> NoRows
      [] f.call = "save_offers"   -> f.rows

\* Slip: the last append counts the version on as well.
AppendedPastEnd(f) ==
    IF f.call # "save_append" THEN f
    ELSE [f EXCEPT !.batch = Tail(@), !.version = @ + 1]

\* An appended candidate leaves the batch; the next has the next version.
Appended(f) ==
    IF f.call # "save_append" THEN f
    ELSE [f EXCEPT !.batch = Tail(@),
                   !.version = IF Len(f.batch) > 1 THEN @ + 1 ELSE @]

\* Slip: a save leaves the replay to the next reader.
PutIntentOnly(p) ==
    /\ At(p, Saves, "start")
    /\ frame[p].call = "save_update" => UpdateAccepted(frame[p])
    /\ pending' = Trim(Edited(frame[p]))
    /\ Return(p, Appended(frame[p]))
    /\ UNCHANGED <<published, candidate, policy, data, page, queue, budget>>

PutIntent(p) ==
    /\ At(p, Saves, "start")
    /\ frame[p].call = "save_update" => UpdateAccepted(frame[p])
    /\ pending' = Trim(Edited(frame[p]))
    /\ frame' = [frame EXCEPT ![p] = [Appended(frame[p]) EXCEPT !.phase = "recover"]]
    /\ UNCHANGED <<published, candidate, policy, data, lock, plugin, page, queue, budget>>

\* Slip: the refusal keeps the lock.
RefuseUpdateHolding(p) ==
    /\ At(p, {"save_update"}, "start")
    /\ ~UpdateAccepted(frame[p])
    /\ frame' = [frame EXCEPT ![p] = IdleFrame]
    /\ UNCHANGED <<keys, data, lock, plugin, page, queue, budget>>

\* ValueError: unknown version, stale or incomplete evidence, illegal arrow.
RefuseUpdate(p) ==
    /\ At(p, {"save_update"}, "start")
    /\ ~UpdateAccepted(frame[p])
    /\ Leave(p)
    /\ UNCHANGED <<keys, data, plugin, page, queue, budget>>

(***************************************************************************)
(* The steps of main.py between the store calls                            *)
(***************************************************************************)
\* analyze runs in a worker thread and numbers its candidates from the rows
\* loaded before; a failed dataset gate records none.
Analyze(p) ==
    /\ At(p, {"analyze"}, "start")
    /\ \/ /\ frame' = [frame EXCEPT ![p].call = "load_offers"]
       \/ \E n \in 1 .. MaxBatch, first \in Versions : \E ev \in [1 .. n -> Evidence] :
             /\ IsNextVersion(frame[p].rows, first)
             /\ first + n - 1 <= MaxVersion
             /\ frame' = [frame EXCEPT ![p].call = "load_append",
                                       ![p].version = first, ![p].batch = ev]
    /\ UNCHANGED <<keys, data, lock, plugin, page, queue, budget>>

\* ingest: replace_sessions, then every record is stale if the samples changed
Import(p) ==
    /\ At(p, {"import"}, "start")
    /\ \E d \in Fingerprints :
          /\ data' = d
          /\ IF d = data THEN Leave(p)
             ELSE /\ frame' = [frame EXCEPT ![p].call = "load_stale"]
                  /\ UNCHANGED lock
    /\ UNCHANGED <<keys, plugin, page, queue, budget>>

ClearSamples(p) ==
    /\ At(p, {"clear_samples"}, "start")
    /\ data' = NoSamples
    /\ Return(p, frame[p])
    /\ UNCHANGED <<keys, page, queue, budget>>

ClearPublished(p) ==
    /\ At(p, {"clear_published"}, "start")
    /\ published' = None
    /\ Return(p, frame[p])
    /\ UNCHANGED <<pending, candidate, policy, data, page, queue, budget>>

ClearCandidate(p) ==
    /\ At(p, {"clear_candidate"}, "start")
    /\ candidate' = None
    /\ Return(p, frame[p])
    /\ UNCHANGED <<pending, published, policy, data, page, queue, budget>>

(***************************************************************************)
(* Failures                                                                *)
(***************************************************************************)
\* An await raises (a store error, a cancelled request, the early return of
\* run_analysis while shutting down): the lock is released, the keys stay.
Abort(p) ==
    /\ p # Initializer
    /\ ~Idle(p) /\ budget.aborts > 0
    /\ Leave(p)
    /\ budget' = [budget EXCEPT !.aborts = @ - 1]
    /\ UNCHANGED <<keys, data, queue, plugin, page>>

\* The process dies; only the keys and the samples survive.
Crash ==
    /\ plugin # "down" /\ budget.crashes > 0
    /\ plugin' = "down"
    /\ lock' = None
    /\ queue' = <<>>
    /\ frame' = [p \in Procs |-> IdleFrame]
    /\ budget' = [budget EXCEPT !.crashes = @ - 1]
    /\ UNCHANGED <<keys, data, page>>

(***************************************************************************)
(* Specification                                                           *)
(***************************************************************************)
Enter(p) == BeginUpdate(p) \/ BeginAnalysis(p) \/ BeginIngest(p) \/ BeginReset(p)
              \/ BeginView(p)

Begin(p) == Enter(p) \/ BeginOverview(p)

Recover(p) == GetIntent(p) \/ GetNoIntent(p) \/ PutPublished(p) \/ PutCandidate(p)
                \/ PutPolicy(p) \/ DeleteIntent(p)

Step(p) == Recover(p) \/ ReadPolicies(p) \/ CheckRevision(p) \/ SendPage(p)
             \/ PutIntent(p) \/ RefuseUpdate(p) \/ Analyze(p) \/ Import(p)
             \/ ClearSamples(p) \/ ClearPublished(p) \/ ClearCandidate(p)

Next == \/ StartPlugin
        \/ \E p \in Procs : Begin(p) \/ Wait(p) \/ GiveUp(p) \/ Step(p) \/ Abort(p)
        \/ Crash

Spec == Init /\ [][Next]_vars

\* The event loop keeps running every coroutine, a released lock wakes the
\* first that waits for it, and the host loads the plugin.
FairSpec ==
    /\ Spec
    /\ WF_vars(StartPlugin)
    /\ \A p \in Procs : WF_vars(Step(p))
    /\ \A p \in Handlers : WF_vars(queue # <<>> /\ Enter(p))

(***************************************************************************)
(* Safety                                                                  *)
(***************************************************************************)
\* No intent is stored and no coroutine is replaying one.
Settled == pending = None /\ \A p \in Procs : frame[p].phase \in {"start", "read"}

\* Once no write is in flight the three published keys describe one list: the
\* offers are those of the stored records and carry their revision.
OfferAgrees(offer, expected) ==
    \/ offer = expected
    \/ offer = None /\ expected.offered = {}

ThreeKeysAgree ==
    plugin = "up" /\ Settled =>
        /\ OfferAgrees(published, PublishedOffer(policy))
        /\ OfferAgrees(candidate, CandidateOffer(policy))

\* Between its load and its save a locked operation works on the current rows:
\* nothing it did not see can be overwritten by what it saves.
Loaded(p) ==
    \/ At(p, (Saves \ {"save_empty"}) \cup {"analyze"}, "start")
    \/ frame[p].call = "load_revision"

WorksOnCurrentRows == \A p \in Handlers : Loaded(p) => frame[p].rows = Register

\* What the console shows and the revision it sends back belong together.
PageIsConsistent == page # None => page.rows = page.revision

\* With the plugin up and no operation running, a record that is not marked
\* stale was trained on exactly the samples that are stored, unless an
\* operation has failed half-way.
FreshMeansCurrent ==
    plugin = "up" /\ (\A p \in Procs : Idle(p)) /\ budget.aborts = MaxAborts =>
        \A v \in PresentIn(Register) :
            ~Register[v].stale => Register[v].data = data

\* Nothing is offered to the host without the evidence its status claims.
OffersAreBacked ==
    plugin = "up" /\ pending = None =>
        \A offer \in {published, candidate} \ {None} :
            \A v \in offer.offered : HasEvidence(offer.revision[v])

(***************************************************************************)
(* Action properties                                                       *)
(***************************************************************************)
Kept == PresentIn(Register) \cap PresentIn(Register)'

\* A record only moves along the arrows of the status table.
ArrowsAreLegal ==
    [][\A v \in Kept : CanTransition(Register[v].status, Register'[v].status)]_vars

\* A stale record never becomes fresh again.
StaleIsForever == [][\A v \in Kept : Register[v].stale => Register'[v].stale]_vars

\* An update decided on a page of the console is saved only over the rows that
\* page shows: the page's rows and the revision sent with them come from two
\* loads, and only the revision is compared.
NoBlindOverwrite ==
    [][\A p \in Handlers :
          At(p, {"save_update"}, "start") /\ frame'[p].phase = "recover"
             /\ frame[p].expected # None
          => frame[p].expected.rows = Register]_vars

(***************************************************************************)
(* Liveness                                                                *)
(***************************************************************************)
\* A write interrupted by crashes is completed: the intent does not stay. (After
\* an exception it stays until something loads the policies again.)
IntentIsCompleted == (pending # None) ~> (pending = None \/ budget.aborts < MaxAborts)

\* Every request is answered, one that waits for the lock included, and the
\* lock is given back whichever way its holder ends.
Asked(p) == ~Idle(p) \/ Waiting(p)

RequestsEnd ==
    /\ \A p \in Procs : Asked(p) ~> ~Asked(p)
    /\ lock # None ~> lock = None

(***************************************************************************)
(* Refinement: the intent is the point where a write takes effect.         *)
(***************************************************************************)
Reg == INSTANCE PolicyRegister WITH rows <- Register

\* The four keys behave as one register.
ImplementsRegister == Reg!Spec
=============================================================================
