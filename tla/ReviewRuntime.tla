--------------------------- MODULE ReviewRuntime ---------------------------
(***************************************************************************)
(* core/review_runtime.py (ReviewRuntimeMixin) with the operations of      *)
(* main.py that invalidate reviews.                                        *)
(*                                                                         *)
(* A request joins the running task of its key or starts one; the task is  *)
(* called a flight here. What a flight sends to the model is the version   *)
(* of the samples and of the contract it read, or the version of the       *)
(* host's annotations for a reply review; with the provider that is the    *)
(* fingerprint. quality_payload is taken to describe the samples in memory *)
(* (module QueryCache says when it does not).                              *)
(***************************************************************************)
EXTENDS Integers, FiniteSets

CONSTANTS
    None,
    Requests,       \* each is made once
    Kinds,          \* "contract", "reply"
    Refreshes,      \* [request -> the values of its refresh argument]
    Providers,      \* what _review_provider may return, None for no provider
    Configs,        \* settings: [enabled : SUBSET Kinds, other : Nat]
    Slots,          \* flights at work at once (2 in the code)
    MaxOps,         \* bound: imports
    MaxResets,      \* bound: resets
    MaxSwitches,    \* bound: changes of the provider, the settings or the host
    MaxFailures,    \* bound: store or host reads that raise
    MaxEvents       \* bound: all of these together

ASSUME ReviewAssumption ==
    /\ Kinds \subseteq {"contract", "reply"} /\ Kinds # {} /\ Refreshes \in [Requests -> SUBSET BOOLEAN]
    /\ Configs \subseteq [enabled : SUBSET Kinds, other : Nat]
    /\ Slots \in Nat \ {0} /\ {MaxOps, MaxResets} \subseteq Nat /\ {MaxSwitches, MaxFailures, MaxEvents} \subseteq Nat
    /\ None \notin Requests

VARIABLES
    epoch,
    flights,    \* the tasks that have not ended
    slots,      \* free places of _review_slots
    review,     \* the stored contract review
    reply,      \* _reply_review_cache
    failed,     \* per kind, the fingerprint whose failure is less than 90 s old
    request,
    rows,       \* version of self._samples
    contract,   \* version of self._last_contract
    notes,      \* version of the host's annotations
    provider,   \* the provider selected in the host
    config,
    writer,     \* the import or reset that holds _lock
    closing,    \* terminate: "up", "invalidate", "gather", "closed"
    budget

vars == <<epoch, flights, slots, review, reply, failed, request, rows, contract,
          notes, provider, config, writer, closing, budget>>
world   == <<rows, contract, notes, provider, config>>
others  == <<writer, closing>>

Read     == [rows : Nat, contract : Nat, notes : Nat]
NoRead   == [rows |-> 0, contract |-> 0, notes |-> 0]
Mark     == [kind : Kinds, read : Read, provider : Providers]
Settings == [enabled : SUBSET Kinds, other : Nat]
Key      == [kind : Kinds, config : Settings, epoch : Nat, provider : Providers \cup {None}]

WaitingForSlot == {"slot"}
Inside         == {"read", "provider", "load", "check_cached", "ask", "check", "lock", "saving"}

Flight  == [key : Key, refresh : BOOLEAN, cancelled : BOOLEAN,
            step : WaitingForSlot \cup Inside, read : Read, provider : Providers \cup {None}]
Answer  == [state : {"none", "disabled", "unavailable", "cached", "failed", "fresh",
                     "cancelled", "error", "gone"},
            provider : Providers \cup {None}]
Request == [step : {"new", "provider", "waiting", "answered"},
            kind : Kinds, refresh : BOOLEAN, epoch : Nat, config : Configs,
            key : Key \cup {None}, answer : Answer]
Writer  == [kind : {"none", "import", "reset"},
            step : {"none", "invalidate", "gather", "clear", "end"},
            gather : SUBSET Key]

NoAnswer == [state |-> "none", provider |-> None]
NewRequest == [step |-> "new", kind |-> CHOOSE k \in Kinds : TRUE, refresh |-> FALSE, epoch |-> 0,
             config |-> CHOOSE c \in Configs : TRUE, key |-> None, answer |-> NoAnswer]
NoWriter == [kind |-> "none", step |-> "none", gather |-> {}]

TypeOK ==
    /\ epoch \in Nat /\ slots \in 0 .. Slots
    /\ flights \subseteq Flight
    /\ review \in Mark \cup {None} /\ reply \in Mark \cup {None}
    /\ failed \in [Kinds -> Mark \cup {None}]
    /\ request \in [Requests -> Request]
    /\ rows \in Nat /\ contract \in Nat /\ notes \in Nat
    /\ provider \in Providers \cup {None} /\ config \in Configs
    /\ writer.kind \in {"none", "import", "reset"}
    /\ writer.step \in {"none", "invalidate", "gather", "clear", "end"}
    /\ closing.step \in {"up", "invalidate", "gather", "closed"}

Init ==
    /\ epoch = 0 /\ flights = {} /\ slots = Slots
    /\ rows = 0 /\ contract = 0 /\ notes = 0
    /\ provider \in Providers /\ config \in Configs
    /\ review \in {None} \cup [kind : {"contract"} \cap Kinds, read : {NoRead}, provider : Providers]
    /\ reply = None
    /\ failed = [k \in Kinds |-> None]
    /\ request = [q \in Requests |-> NewRequest]
    /\ writer = NoWriter
    /\ closing = [step |-> "up", gather |-> {}]
    /\ budget = [ops |-> MaxOps, resets |-> MaxResets,
                 switches |-> MaxSwitches, failures |-> MaxFailures, all |-> MaxEvents]

Spend(what) ==
    /\ budget[what] > 0 /\ budget.all > 0
    /\ budget' = [budget EXCEPT ![what] = @ - 1, !.all = @ - 1]

ShuttingDown == closing.step # "up"

\* Slip: nobody looks.
AlwaysValid(e) == TRUE

\* The checks of _review_singleflight after its await, and of run() in its slot.
Valid(e) == e = epoch /\ ~ShuttingDown

Enabled(kind) == kind \in config.enabled
MarkOf(f)    == [kind |-> f.key.kind, read |-> f.read, provider |-> f.provider]

\* _review_write_lock is held over the save only: an invalidation does not await in it.
WriteLocked == \E f \in flights : f.step = "saving"

(***************************************************************************)
(* A request: _review_singleflight                                         *)
(***************************************************************************)
\* A request is over; of what it asked only refresh is kept.
Over(q, state, p) == [NewRequest EXCEPT !.step = "answered", !.refresh = request[q].refresh,
                                   !.answer = [state |-> state, provider |-> p]]

Answered(q, state, p) == request' = [request EXCEPT ![q] = Over(q, state, p)]

\* Slip: the refresh argument made part of the key.
KeyWithRefresh(r, p) ==
    [kind |-> r.kind, config |-> [r.config EXCEPT !.other = IF r.refresh THEN 9 ELSE @],
     epoch |-> r.epoch, provider |-> p]

KeyOf(r, p) == [kind |-> r.kind, config |-> r.config, epoch |-> r.epoch, provider |-> p]

\* The task under the key, or a new one in _review_tasks.
Join(q, r, p) ==
    LET key == KeyOf(r, p)
    IN  /\ request' = [request EXCEPT ![q] = [r EXCEPT !.step = "waiting", !.key = key]]
        /\ flights' = IF \E f \in flights : f.key = key /\ ~f.cancelled THEN flights
                      ELSE flights \cup {[key |-> key, refresh |-> r.refresh, cancelled |-> FALSE,
                                          step |-> "slot", read |-> NoRead, provider |-> None]}

\* The provider is not asked for, and nothing awaited, when the kind is disabled.
Ask(q) ==
    /\ request[q].step = "new"
    /\ \E kind \in Kinds, refresh \in Refreshes[q] :
         LET r == [request[q] EXCEPT !.kind = kind, !.refresh = refresh,
                                     !.epoch = epoch, !.config = config]
         IN  \/ ShuttingDown /\ Answered(q, "unavailable", None) /\ UNCHANGED flights
             \/ ~ShuttingDown /\ ~Enabled(kind) /\ Join(q, r, None)
             \/ /\ ~ShuttingDown /\ Enabled(kind)
                /\ request' = [request EXCEPT ![q] = [r EXCEPT !.step = "provider"]]
                /\ UNCHANGED flights
    /\ UNCHANGED <<epoch, slots, review, reply, failed, world, others, budget>>

HasProvider(q) ==
    /\ request[q].step = "provider"
    /\ IF Valid(request[q].epoch)
       THEN Join(q, request[q], provider)
       ELSE Answered(q, "unavailable", None) /\ UNCHANGED flights
    /\ UNCHANGED <<epoch, slots, review, reply, failed, world, others, budget>>

\* The client goes away; shield keeps the task.
Leave(q) ==
    /\ request[q].step = "waiting"
    /\ Answered(q, "gone", None)
    /\ UNCHANGED <<epoch, flights, slots, review, reply, failed, world, others, budget>>

(***************************************************************************)
(* A flight: run() and the two implementations                             *)
(***************************************************************************)
Goes(f, g) == flights' = (flights \ {f}) \cup {g}

\* Slip: the place is kept by a task that ends before its work.
ReleasesLate(f) == slots' = IF f.step \in Inside \ {"read"} THEN slots + 1 ELSE slots

\* Slip: a flight that never had a place gives one back.
ReleasesAlways(f) == slots' = slots + 1

Releases(f) == slots' = IF f.step \in Inside THEN slots + 1 ELSE slots

\* Slip: the requests that wait are not told.
EndsUnheard(f, state) == flights' = flights \ {f} /\ Releases(f) /\ UNCHANGED request

\* Every request that waits for the flight gets what it returns or raises.
Ends(f, state) ==
    /\ flights' = flights \ {f}
    /\ Releases(f)
    /\ request' = [q \in Requests |->
          IF request[q].step = "waiting" /\ request[q].key = f.key
          THEN Over(q, state, f.provider)
          ELSE request[q]]

Running(f, step) == f.step = step /\ ~f.cancelled

\* Up to the first await: the samples are at hand, the contract is read after
\* load_state, the annotations when the host has answered.
EnterSlot(f) ==
    /\ Running(f, "slot") /\ slots > 0
    /\ \/ /\ ~Valid(f.key.epoch)
          /\ Ends(f, "unavailable")
       \/ /\ Valid(f.key.epoch) /\ f.key.kind = "reply" /\ ~Enabled("reply")
          /\ Ends(f, "disabled")
       \/ /\ Valid(f.key.epoch) /\ (f.key.kind = "contract" \/ Enabled("reply"))
          /\ slots' = slots - 1
          /\ Goes(f, [f EXCEPT !.step = "read",
                               !.read.rows = IF f.key.kind = "contract" THEN rows ELSE 0])
          /\ UNCHANGED request
    /\ UNCHANGED <<epoch, review, reply, failed, world, others, budget>>

ReadDone(f) ==
    /\ Running(f, "read")
    /\ \/ f.key.kind = "contract" /\ ~Enabled("contract") /\ Ends(f, "disabled")
       \/ /\ f.key.kind = "contract" /\ Enabled("contract")
          /\ Goes(f, [f EXCEPT !.step = "provider", !.read.contract = contract])
          /\ UNCHANGED <<slots, request>>
       \/ /\ f.key.kind = "reply"
          /\ Goes(f, [f EXCEPT !.step = "provider", !.read.notes = notes])
          /\ UNCHANGED <<slots, request>>
       \/ f.key.kind = "reply" /\ Ends(f, "unavailable")  \* host away, no message, no text
    /\ UNCHANGED <<epoch, review, reply, failed, world, others, budget>>

\* The memo, the back-off, or the model. g has read all it needs.
Decide(f, g, memo) ==
    \/ /\ ~g.refresh /\ memo = MarkOf(g)
       /\ IF g.key.epoch = epoch /\ ~ShuttingDown /\ Enabled(g.key.kind)
          THEN Goes(f, [g EXCEPT !.step = "check_cached"]) /\ UNCHANGED <<slots, request>>
          ELSE Ends(f, "unavailable")
    \/ /\ ~g.refresh /\ memo # MarkOf(g) /\ failed[g.key.kind] = MarkOf(g)
       /\ Ends(f, "failed")
    \/ /\ g.refresh \/ (memo # MarkOf(g) /\ failed[g.key.kind] # MarkOf(g))
       /\ Goes(f, [g EXCEPT !.step = "ask"])
       /\ UNCHANGED <<slots, request>>

GetProvider(f) ==
    /\ Running(f, "provider")
    /\ LET g == [f EXCEPT !.provider = provider]
       IN  \/ provider = None /\ Ends(f, "unavailable")
           \/ /\ provider # None /\ f.key.kind = "contract"
              /\ Goes(f, [g EXCEPT !.step = "load"])
              /\ UNCHANGED <<slots, request>>
           \/ provider # None /\ f.key.kind = "reply" /\ Decide(f, g, reply)
    /\ UNCHANGED <<epoch, review, reply, failed, world, others, budget>>

LoadReview(f) ==
    /\ Running(f, "load")
    /\ Decide(f, f, review)
    /\ UNCHANGED <<epoch, review, reply, failed, world, others, budget>>

\* quality_payload or load_review raises
Raise(f) ==
    /\ Running(f, "read") \/ Running(f, "load")
    /\ f.key.kind = "contract" /\ Spend("failures")
    /\ Ends(f, "error")
    /\ UNCHANGED <<epoch, review, reply, failed, world, others>>

\* Slip: the provider is not compared any more.
CurrentWithoutProvider(f) == f.key.epoch = epoch /\ ~ShuttingDown /\ Enabled(f.key.kind)

\* _review_current, after its await
Current(f) == /\ f.key.epoch = epoch /\ ~ShuttingDown /\ Enabled(f.key.kind)
              /\ provider = f.provider

CheckCached(f) ==
    /\ Running(f, "check_cached")
    /\ Ends(f, IF Current(f) THEN "cached" ELSE "unavailable")
    /\ UNCHANGED <<epoch, review, reply, failed, world, others, budget>>

\* The model answers in time with JSON; _review_current begins.
ModelAnswers(f) ==
    /\ Running(f, "ask")
    /\ IF f.key.epoch = epoch /\ ~ShuttingDown /\ Enabled(f.key.kind)
       THEN Goes(f, [f EXCEPT !.step = "check"]) /\ UNCHANGED <<slots, request>>
       ELSE Ends(f, "unavailable")
    /\ UNCHANGED <<epoch, review, reply, failed, world, others, budget>>

\* A timeout, an exception or prose
ModelFails(f) ==
    /\ Running(f, "ask")
    /\ failed' = [failed EXCEPT ![f.key.kind] = MarkOf(f)]
    /\ Ends(f, "failed")
    /\ UNCHANGED <<epoch, review, reply, world, others, budget>>

Check(f) ==
    /\ Running(f, "check")
    /\ \/ ~Current(f) /\ Ends(f, "unavailable") /\ UNCHANGED <<reply, failed>>
       \/ /\ Current(f) /\ f.key.kind = "contract"
          /\ failed' = [failed EXCEPT !["contract"] = None]
          /\ Goes(f, [f EXCEPT !.step = "lock"])
          /\ UNCHANGED <<slots, request, reply>>
       \/ /\ Current(f) /\ f.key.kind = "reply"
          /\ failed' = [failed EXCEPT !["reply"] = None]
          /\ reply' = MarkOf(f)
          /\ Ends(f, "fresh")
    /\ UNCHANGED <<epoch, review, world, others, budget>>

\* _save_review_if_current has the write lock.
LockReview(f) ==
    /\ Running(f, "lock") /\ ~WriteLocked
    /\ IF f.key.epoch = epoch /\ Enabled("contract")
       THEN Goes(f, [f EXCEPT !.step = "saving"]) /\ UNCHANGED <<slots, request>>
       ELSE Ends(f, "unavailable")
    /\ UNCHANGED <<epoch, review, reply, failed, world, others, budget>>

SaveReview(f) ==
    /\ Running(f, "saving")
    /\ review' = MarkOf(f)
    /\ Ends(f, "fresh")
    /\ UNCHANGED <<epoch, reply, failed, world, others, budget>>

\* CancelledError at the await the flight is in
Cancelled(f) ==
    /\ f.cancelled
    /\ Ends(f, "cancelled")
    /\ UNCHANGED <<epoch, review, reply, failed, world, others, budget>>

(***************************************************************************)
(* invalidate_reviews and its callers                                      *)
(***************************************************************************)
\* Slip: the write lock is not taken.
InvalidateUnlocked ==
    /\ epoch' = epoch + 1
    /\ flights' = {[f EXCEPT !.cancelled = f.step # "saving"] : f \in flights}
    /\ reply' = None
    /\ failed' = [k \in Kinds |-> None]

Invalidate ==
    /\ ~WriteLocked
    /\ epoch' = epoch + 1
    /\ flights' = {[f EXCEPT !.cancelled = TRUE] : f \in flights}
    /\ reply' = None
    /\ failed' = [k \in Kinds |-> None]

InFlight       == {f.key : f \in {g \in flights : ~g.cancelled}}
Ended(keys)    == \A f \in flights : f.key \notin keys

Then(step) ==
    CASE step = "none" -> "invalidate" [] step = "invalidate" -> "gather"
      [] step = "gather" -> "clear" [] step = "clear" -> "end" [] OTHER -> "none"

WriterGoes == writer' = [writer EXCEPT !.step = Then(@)]

\* ingest: the samples have been replaced and differ from the ones before.
StartImport ==
    /\ writer = NoWriter /\ Spend("ops")
    /\ rows' = rows + 1
    /\ writer' = [kind |-> "import", step |-> Then("none"), gather |-> {}]
    /\ UNCHANGED <<epoch, flights, slots, review, reply, failed, request, contract, notes,
                   provider, config, closing>>

StartReset ==
    /\ writer = NoWriter /\ Spend("resets")
    /\ writer' = [kind |-> "reset", step |-> Then("none"), gather |-> {}]
    /\ UNCHANGED <<epoch, flights, slots, review, reply, failed, request, world, closing>>

WriterInvalidates ==
    /\ writer.step = "invalidate"
    /\ Invalidate
    /\ writer' = [writer EXCEPT !.step = Then(@), !.gather = InFlight]
    /\ UNCHANGED <<slots, review, request, world, closing, budget>>

Gather ==
    /\ writer.step = "gather" /\ Ended(writer.gather)
    /\ writer' = [writer EXCEPT !.step = Then(@), !.gather = {}]
    /\ UNCHANGED <<epoch, flights, slots, review, reply, failed, request, world, closing, budget>>

ClearReview ==
    /\ writer.step = "clear"
    /\ review' = None
    /\ WriterGoes
    /\ UNCHANGED <<epoch, flights, slots, reply, failed, request, world, closing, budget>>

\* ingest keeps the contract of the import
EndImport ==
    /\ writer.kind = "import" /\ writer.step = "end"
    /\ contract' = rows
    /\ writer' = NoWriter
    /\ UNCHANGED <<epoch, flights, slots, review, reply, failed, request, rows, notes,
                   provider, config, closing, budget>>

\* reset_storage forgets what it kept in memory
EndReset ==
    /\ writer.kind = "reset" /\ writer.step = "end"
    /\ rows' = rows + 1 /\ contract' = 0
    /\ reply' = None
    /\ failed' = [k \in Kinds |-> None]
    /\ writer' = NoWriter
    /\ UNCHANGED <<epoch, flights, slots, review, request, notes, provider, config, closing, budget>>

StartTerminate ==
    /\ closing.step = "up"
    /\ closing' = [closing EXCEPT !.step = "invalidate"]
    /\ UNCHANGED <<epoch, flights, slots, review, reply, failed, request, world, writer, budget>>

TerminateInvalidates ==
    /\ closing.step = "invalidate"
    /\ Invalidate
    /\ closing' = [step |-> "gather", gather |-> InFlight]
    /\ UNCHANGED <<slots, review, request, world, writer, budget>>

Terminated ==
    /\ closing.step = "gather" /\ Ended(closing.gather)
    /\ closing' = [step |-> "closed", gather |-> {}]
    /\ UNCHANGED <<epoch, flights, slots, review, reply, failed, request, world, writer, budget>>

(***************************************************************************)
(* The host and the clock                                                  *)
(***************************************************************************)
\* The user selects a provider or changes the settings, or the host's
\* annotations change.
Switch ==
    /\ Spend("switches")
    /\ \/ provider' \in (Providers \cup {None}) \ {provider} /\ UNCHANGED <<config, notes>>
       \/ config' \in Configs \ {config} /\ UNCHANGED <<provider, notes>>
       \/ "reply" \in Kinds /\ notes' = notes + 1 /\ UNCHANGED <<provider, config>>
    /\ UNCHANGED <<epoch, flights, slots, review, reply, failed, request, rows, contract, others>>

\* REVIEW_RETRY_SECONDS have passed.
Cool(kind) ==
    /\ failed[kind] # None
    /\ failed' = [failed EXCEPT ![kind] = None]
    /\ UNCHANGED <<epoch, flights, slots, review, reply, request, world, others, budget>>

(***************************************************************************)
(* Specification                                                           *)
(***************************************************************************)
Fly(f) == \/ EnterSlot(f) \/ ReadDone(f) \/ GetProvider(f) \/ LoadReview(f) \/ Raise(f)
          \/ CheckCached(f) \/ ModelAnswers(f) \/ ModelFails(f) \/ Check(f)
          \/ LockReview(f) \/ SaveReview(f) \/ Cancelled(f)

Write == \/ StartImport \/ StartReset \/ WriterInvalidates \/ Gather \/ ClearReview
         \/ EndImport \/ EndReset

Closing == StartTerminate \/ TerminateInvalidates \/ Terminated

Next == \/ \E q \in Requests : Ask(q) \/ HasProvider(q) \/ Leave(q)
        \/ \E f \in flights : Fly(f)
        \/ Write \/ Closing \/ Switch
        \/ \E kind \in Kinds : Cool(kind)

Spec == Init /\ [][Next]_vars

\* The event loop runs every task that can run, and wait_for ends every call
\* of the model.
FairSpec ==
    /\ Spec
    /\ \A q \in Requests : WF_vars(HasProvider(q))
    /\ WF_vars(\E f \in flights : Fly(f))
    /\ WF_vars(WriterInvalidates \/ Gather \/ ClearReview \/ EndImport \/ EndReset)
    /\ WF_vars(TerminateInvalidates \/ Terminated)

(***************************************************************************)
(* Properties                                                              *)
(***************************************************************************)
\* Every place of the semaphore is free or held by a flight at work.
SlotsAddUp == slots + Cardinality({f \in flights : f.step \in Inside}) = Slots

\* Between two operations the stored review describes the samples in memory.
ReviewIsOfTheSamples ==
    writer = NoWriter /\ review # None => review.read.rows = rows

\* A review is saved in the epoch its flight belongs to: an invalidation that
\* has ended is never followed by the save of an older review.
EpochFencesSaves ==
    \A f \in flights : f.step = "saving" => f.key.epoch = epoch

\* The model is not asked the same question by two flights at once, as long as
\* provider and settings stay (both are part of the key).
OneAskPerReview ==
    budget.switches = MaxSwitches =>
        \A f, g \in {h \in flights : h.step = "ask" /\ ~h.cancelled} :
            MarkOf(f) = MarkOf(g) => f = g

\* What a request is given has been checked after the last await before it: the
\* review belongs to the current epoch, and a cached review and a reply review
\* are of the provider that is selected, of a kind that is enabled, and not
\* handed out during a shutdown. A fresh contract review is checked before it
\* waits for the write lock and is saved: while it is, the provider and the
\* settings may change, and only the epoch may not.
HandedOutIsCurrent ==
    [][\A q \in Requests :
         LET key == request[q].key  given == request'[q].answer
         IN  request[q].step = "waiting" /\ given.state \in {"cached", "fresh"}
             => /\ key.epoch = epoch
                /\ given.state = "cached" \/ key.kind = "reply"
                   => given.provider = provider /\ Enabled(key.kind) /\ ~ShuttingDown]_vars

\* Once terminate has returned no flight goes on and none begins; one that an
\* import has cancelled may still be on its way out.
TerminatedIsQuiet == closing.step = "closed" => \A f \in flights : f.cancelled

\* Every request is answered, and every import, reset and termination ends:
\* again and again nobody waits and nothing is under way.
EverythingEnds ==
    []<>(/\ \A q \in Requests : request[q].step \notin {"provider", "waiting"}
         /\ writer = NoWriter
         /\ closing.step \in {"up", "closed"})
=============================================================================
