------------------------ MODULE ReviewRuntimeProofs ------------------------
(***************************************************************************)
(* Theorems about ReviewRuntime, for any number of requests, providers,    *)
(* settings and places, and without a bound on what happens.               *)
(***************************************************************************)
EXTENDS ReviewRuntime, FiniteSetTheorems, TLAPS

(***************************************************************************)
(* The inductive invariant                                                 *)
(***************************************************************************)
Closings == [step : {"up", "invalidate", "gather", "closed"}, gather : SUBSET Key]
Budget   == [ops : Nat, resets : Nat, switches : 0 .. MaxSwitches, failures : Nat, all : Nat]

\* The steps of a flight that has been given a provider.
Provided == Inside \ {"read", "provider"}

\* A flight that has asked the host for a provider has one, and only a contract
\* review is saved.
Fitting(f) ==
    /\ f.step \in Provided => f.provider \in Providers
    /\ f.step \in {"lock", "saving"} => f.key.kind = "contract"

\* TypeOK, with all of writer, closing and budget, finitely many flights, and
\* what a flight has at its step.
Typed ==
    /\ TypeOK
    /\ writer \in Writer /\ closing \in Closings /\ budget \in Budget
    /\ IsFiniteSet(flights)
    /\ \A f \in flights : Fitting(f)

\* _review_tasks has one task per key, and what an invalidation left behind is
\* cancelled and of an earlier epoch.
OneTaskPerKey == \A f, g \in flights : f.key = g.key => f = g

Fenced == \A f \in flights : IF f.cancelled THEN f.key.epoch < epoch ELSE f.key.epoch = epoch

\* No invalidation is between the lock and the end of a save.
SavesGoOn == \A f \in flights : f.step = "saving" => ~f.cancelled

\* From its own invalidation on terminate has no flight of its epoch.
Quiet == closing.step \in {"gather", "closed"} => \A f \in flights : f.cancelled

\* A request has no answer before it is over.
Unanswered == \A q \in Requests : request[q].step # "answered" => request[q].answer = NoAnswer

\* As long as nothing is switched, every key is the one its kind has now.
KeysOfNow ==
    budget.switches = MaxSwitches =>
        /\ \A f \in flights : ~f.cancelled =>
             /\ f.key.config = config
             /\ f.key.provider = IF Enabled(f.key.kind) THEN provider ELSE None
        /\ \A q \in Requests : request[q].step = "provider" =>
             request[q].config = config /\ Enabled(request[q].kind)

RuntimeInv ==
    /\ OneTaskPerKey /\ Fenced /\ SavesGoOn /\ SlotsAddUp
    /\ Quiet /\ Unanswered /\ KeysOfNow

(***************************************************************************)
(* What one step of a flight does                                          *)
(***************************************************************************)
States == {"none", "disabled", "unavailable", "cached", "failed", "fresh", "cancelled", "error", "gone"}

\* A flight goes on as g; it takes a place when it had none.
Moves(f, g) ==
    /\ Goes(f, g) /\ UNCHANGED request
    /\ g \in Flight /\ g.key = f.key /\ ~g.cancelled /\ ~f.cancelled
    /\ g.step \in Inside /\ Fitting(g)
    /\ IF f.step \in Inside THEN slots' = slots ELSE slots' = slots - 1 /\ slots > 0

\* What a flight may return: a review it has checked, or one it has saved.
Rightly(f, state) ==
    /\ state = "cached" => Current(f)
    /\ state = "fresh" => Current(f) \/ f.step = "saving"

EndsWell(f) == \E state \in States : Ends(f, state) /\ Rightly(f, state)

Advances(f) == EndsWell(f) \/ \E g \in Flight : Moves(f, g)

LEMMA FlightFields ==
    \A f \in Flight :
        /\ f.key \in Key /\ f.key.kind \in Kinds /\ f.key.epoch \in Nat
        /\ f.refresh \in BOOLEAN /\ f.cancelled \in BOOLEAN
        /\ f.read \in Read /\ f.provider \in Providers \cup {None}
        /\ f.read.rows \in Nat /\ f.read.contract \in Nat /\ f.read.notes \in Nat
BY DEF Flight, Key, Read

\* A flight after one of its own steps.
LEMMA StepFlight ==
    ASSUME NEW f \in Flight, NEW s \in Inside
    PROVE  LET g == [f EXCEPT !.step = s]
           IN  /\ g \in Flight /\ g.step = s /\ g.key = f.key
               /\ g.cancelled = f.cancelled /\ g.provider = f.provider
BY DEF Flight

LEMMA ProvidedFlight ==
    ASSUME NEW f \in Flight, NEW p \in Providers \cup {None}
    PROVE  LET g == [f EXCEPT !.provider = p]
           IN  /\ g \in Flight /\ g.step = f.step /\ g.key = f.key
               /\ g.cancelled = f.cancelled /\ g.provider = p
BY DEF Flight

LEMMA MarkType ==
    ASSUME NEW f \in Flight, f.provider \in Providers
    PROVE  MarkOf(f) \in Mark
BY FlightFields DEF MarkOf, Mark

LEMMA BudgetSpent ==
    ASSUME budget \in Budget, NEW what \in {"ops", "resets", "switches", "failures"}, Spend(what)
    PROVE  /\ budget' \in Budget
           /\ what # "switches" => budget'.switches = budget.switches
           /\ what = "switches" => budget'.switches < MaxSwitches
<1>1. /\ budget.ops \in Nat /\ budget.resets \in Nat /\ budget.failures \in Nat /\ budget.all \in Nat
      /\ budget.switches \in Nat /\ budget.switches <= MaxSwitches /\ MaxSwitches \in Nat
  BY ReviewAssumption DEF Budget
<1>2. CASE what = "ops"
  <2>1. budget' = [budget EXCEPT !.ops = @ - 1, !.all = @ - 1] /\ budget.ops > 0 /\ budget.all > 0
    BY <1>2 DEF Spend
  <2>2. budget.ops - 1 \in Nat /\ budget.all - 1 \in Nat /\ budget.ops - 1 < budget.ops
    BY <1>1, <2>1
  <2>3. budget'.switches = IF what = "switches" THEN budget.switches - 1 ELSE budget.switches
    BY <1>2, <2>1 DEF Budget
  <2>4. budget' \in Budget
    BY <1>1, <2>1, <2>2 DEF Budget
  <2> QED
    BY <1>1, <1>2, <2>2, <2>3, <2>4
<1>3. CASE what = "resets"
  <2>1. budget' = [budget EXCEPT !.resets = @ - 1, !.all = @ - 1] /\ budget.resets > 0 /\ budget.all > 0
    BY <1>3 DEF Spend
  <2>2. budget.resets - 1 \in Nat /\ budget.all - 1 \in Nat /\ budget.resets - 1 < budget.resets
    BY <1>1, <2>1
  <2>3. budget'.switches = IF what = "switches" THEN budget.switches - 1 ELSE budget.switches
    BY <1>3, <2>1 DEF Budget
  <2>4. budget' \in Budget
    BY <1>1, <2>1, <2>2 DEF Budget
  <2> QED
    BY <1>1, <1>3, <2>2, <2>3, <2>4
<1>4. CASE what = "switches"
  <2>1. budget' = [budget EXCEPT !.switches = @ - 1, !.all = @ - 1] /\ budget.switches > 0 /\ budget.all > 0
    BY <1>4 DEF Spend
  <2>2. budget.switches - 1 \in Nat /\ budget.all - 1 \in Nat /\ budget.switches - 1 < budget.switches
    BY <1>1, <2>1
  <2>5. budget.switches - 1 \in 0 .. MaxSwitches
    BY <1>1, <2>2
  <2>3. budget'.switches = IF what = "switches" THEN budget.switches - 1 ELSE budget.switches
    BY <1>4, <2>1 DEF Budget
  <2>4. budget' \in Budget
    BY <1>1, <2>1, <2>2, <2>5 DEF Budget
  <2> QED
    BY <1>1, <1>4, <2>2, <2>3, <2>4
<1>5. CASE what = "failures"
  <2>1. budget' = [budget EXCEPT !.failures = @ - 1, !.all = @ - 1] /\ budget.failures > 0 /\ budget.all > 0
    BY <1>5 DEF Spend
  <2>2. budget.failures - 1 \in Nat /\ budget.all - 1 \in Nat /\ budget.failures - 1 < budget.failures
    BY <1>1, <2>1
  <2>3. budget'.switches = IF what = "switches" THEN budget.switches - 1 ELSE budget.switches
    BY <1>5, <2>1 DEF Budget
  <2>4. budget' \in Budget
    BY <1>1, <2>1, <2>2 DEF Budget
  <2> QED
    BY <1>1, <1>5, <2>2, <2>3, <2>4
<1> QED
  BY <1>2, <1>3, <1>4, <1>5

\* The memo, the back-off and the model, for a flight in its place.
LEMMA DecideAdvances ==
    ASSUME Typed, NEW f \in flights, ~f.cancelled, f.step \in Inside, NEW g \in Flight,
           g.key = f.key, ~g.cancelled, g.provider \in Providers, NEW memo, Decide(f, g, memo)
    PROVE  Advances(f)
<1> DEFINE c == [g EXCEPT !.step = "check_cached"]
<1> DEFINE a == [g EXCEPT !.step = "ask"]
<1>1. /\ c \in Flight /\ c.key = f.key /\ ~c.cancelled /\ c.step = "check_cached" /\ c.provider \in Providers
      /\ a \in Flight /\ a.key = f.key /\ ~a.cancelled /\ a.step = "ask" /\ a.provider \in Providers
  BY StepFlight DEF Inside
<1>2. \/ Ends(f, "unavailable") \/ Ends(f, "failed")
      \/ (Goes(f, c) \/ Goes(f, a)) /\ UNCHANGED <<slots, request>>
  BY DEF Decide
<1> HIDE DEF c, a
<1>3. CASE Ends(f, "unavailable") \/ Ends(f, "failed")
  BY <1>3 DEF Advances, EndsWell, Rightly, States
<1>4. CASE Goes(f, c) /\ UNCHANGED <<slots, request>>
  BY <1>1, <1>4 DEF Advances, Moves, Fitting, Inside
<1>5. CASE Goes(f, a) /\ UNCHANGED <<slots, request>>
  BY <1>1, <1>5 DEF Advances, Moves, Fitting, Inside
<1> QED
  BY <1>2, <1>3, <1>4, <1>5

\* Every step of a flight advances it, and leaves the rest as it may be.
Stays == UNCHANGED <<epoch, world, others>>
Memory ==
    /\ budget' \in Budget /\ budget'.switches = budget.switches
    /\ review' \in Mark \cup {None} /\ reply' \in Mark \cup {None}
    /\ failed' \in [Kinds -> Mark \cup {None}]

LEMMA GoesOn ==
    ASSUME Typed, NEW f \in flights, ~f.cancelled, f.step \in Inside, NEW s \in Inside,
           s \in Provided => f.provider \in Providers,
           s \in {"lock", "saving"} => f.key.kind = "contract",
           Goes(f, [f EXCEPT !.step = s]), UNCHANGED <<slots, request>>
    PROVE  Advances(f)
<1> DEFINE g == [f EXCEPT !.step = s]
<1>0. f \in Flight
  BY DEF Typed, TypeOK
<1>1. g \in Flight /\ g.step = s /\ g.key = f.key /\ g.cancelled = f.cancelled /\ g.provider = f.provider
  BY <1>0, StepFlight
<1>2. Goes(f, g)
  OBVIOUS
<1> HIDE DEF g
<1> QED
  BY <1>1, <1>2 DEF Advances, Moves, Fitting

LEMMA EndsOn ==
    ASSUME NEW f, NEW state \in States, Rightly(f, state), Ends(f, state)
    PROVE  Advances(f)
BY DEF Advances, EndsWell

LEMMA Entering ==
    ASSUME Typed, NEW f \in flights, EnterSlot(f)
    PROVE  Advances(f) /\ Stays /\ Memory
<1>0. f \in Flight /\ f.step = "slot" /\ ~f.cancelled /\ slots > 0
  BY DEF Typed, TypeOK, EnterSlot, Running
<1>1. Stays /\ Memory
  BY DEF EnterSlot, Stays, Memory, Typed, TypeOK
<1>2. CASE Ends(f, "unavailable") \/ Ends(f, "disabled")
  BY <1>1, <1>2, EndsOn DEF Rightly, States
<1>3. CASE /\ slots' = slots - 1
           /\ Goes(f, [f EXCEPT !.step = "read",
                                !.read.rows = IF f.key.kind = "contract" THEN rows ELSE 0])
           /\ UNCHANGED request
  <2> DEFINE n == IF f.key.kind = "contract" THEN rows ELSE 0
  <2> DEFINE g == [f EXCEPT !.step = "read", !.read.rows = n]
  <2>1. n \in Nat /\ "read" \in Inside /\ "slot" \notin Inside
    BY DEF Typed, TypeOK, Inside
  <2>2. Goes(f, g)
    BY <1>3
  <2> HIDE DEF n
  <2>3. g \in Flight /\ g.step = "read" /\ g.key = f.key /\ g.cancelled = f.cancelled
    BY <1>0, <2>1 DEF Flight, Read
  <2> HIDE DEF g
  <2>4. Moves(f, g)
    BY <1>0, <1>3, <2>1, <2>2, <2>3 DEF Moves, Fitting, Provided
  <2> QED
    BY <1>1, <2>3, <2>4 DEF Advances
<1> QED
  BY <1>2, <1>3 DEF EnterSlot

LEMMA Reading ==
    ASSUME Typed, NEW f \in flights, ReadDone(f)
    PROVE  Advances(f) /\ Stays /\ Memory
<1>0. f \in Flight /\ f.step = "read" /\ ~f.cancelled
  BY DEF Typed, TypeOK, ReadDone, Running
<1>1. Stays /\ Memory
  BY DEF ReadDone, Stays, Memory, Typed, TypeOK
<1>2. "read" \in Inside /\ "provider" \in Inside /\ "provider" \notin Provided
  BY DEF Inside, Provided
<1>3. CASE Ends(f, "unavailable") \/ Ends(f, "disabled")
  BY <1>1, <1>3, EndsOn DEF Rightly, States
<1>4. CASE /\ Goes(f, [f EXCEPT !.step = "provider", !.read.contract = contract])
           /\ UNCHANGED <<slots, request>>
  <2> DEFINE g == [f EXCEPT !.step = "provider", !.read.contract = contract]
  <2>1. g \in Flight /\ g.step = "provider" /\ g.key = f.key /\ g.cancelled = f.cancelled
    BY <1>0, <1>2 DEF Flight, Read, Typed, TypeOK
  <2>2. Goes(f, g)
    BY <1>4
  <2> HIDE DEF g
  <2>3. Moves(f, g)
    BY <1>0, <1>2, <1>4, <2>1, <2>2 DEF Moves, Fitting
  <2> QED
    BY <1>1, <2>1, <2>3 DEF Advances
<1>5. CASE /\ Goes(f, [f EXCEPT !.step = "provider", !.read.notes = notes])
           /\ UNCHANGED <<slots, request>>
  <2> DEFINE g == [f EXCEPT !.step = "provider", !.read.notes = notes]
  <2>1. g \in Flight /\ g.step = "provider" /\ g.key = f.key /\ g.cancelled = f.cancelled
    BY <1>0, <1>2 DEF Flight, Read, Typed, TypeOK
  <2>2. Goes(f, g)
    BY <1>5
  <2> HIDE DEF g
  <2>3. Moves(f, g)
    BY <1>0, <1>2, <1>5, <2>1, <2>2 DEF Moves, Fitting
  <2> QED
    BY <1>1, <2>1, <2>3 DEF Advances
<1> QED
  BY <1>3, <1>4, <1>5 DEF ReadDone

LEMMA Providing ==
    ASSUME Typed, NEW f \in flights, GetProvider(f)
    PROVE  Advances(f) /\ Stays /\ Memory
<1>0. f \in Flight /\ f.step = "provider" /\ ~f.cancelled
  BY DEF Typed, TypeOK, GetProvider, Running
<1>1. Stays /\ Memory
  BY DEF GetProvider, Stays, Memory, Typed, TypeOK
<1>2. "provider" \in Inside /\ "load" \in Inside
  BY DEF Inside
<1> DEFINE g == [f EXCEPT !.provider = provider]
<1>3. g \in Flight /\ g.step = "provider" /\ g.key = f.key /\ g.cancelled = f.cancelled /\ g.provider = provider
  BY <1>0, ProvidedFlight DEF Typed, TypeOK
<1>4. \/ provider = None /\ Ends(f, "unavailable")
      \/ provider # None /\ Goes(f, [g EXCEPT !.step = "load"]) /\ UNCHANGED <<slots, request>>
      \/ provider # None /\ Decide(f, g, reply)
  BY DEF GetProvider
<1>5. provider # None => provider \in Providers
  BY DEF Typed, TypeOK
<1> HIDE DEF g
<1>6. CASE Ends(f, "unavailable")
  BY <1>1, <1>6, EndsOn DEF Rightly, States
<1>7. CASE provider # None /\ Goes(f, [g EXCEPT !.step = "load"]) /\ UNCHANGED <<slots, request>>
  <2> DEFINE h == [g EXCEPT !.step = "load"]
  <2>1. h \in Flight /\ h.step = "load" /\ h.key = f.key /\ h.cancelled = f.cancelled /\ h.provider = provider
    BY <1>2, <1>3, StepFlight
  <2>2. Goes(f, h)
    BY <1>7
  <2> HIDE DEF h
  <2>3. Moves(f, h)
    BY <1>0, <1>2, <1>5, <1>7, <2>1, <2>2 DEF Moves, Fitting
  <2> QED
    BY <1>1, <2>1, <2>3 DEF Advances
<1>8. CASE provider # None /\ Decide(f, g, reply)
  BY <1>0, <1>1, <1>2, <1>3, <1>5, <1>8, DecideAdvances
<1> QED
  BY <1>4, <1>6, <1>7, <1>8

\* The steps of a flight that has its provider.
LEMMA Asking ==
    ASSUME Typed, NEW f \in flights,
           LoadReview(f) \/ ModelAnswers(f) \/ ModelFails(f) \/ Check(f) \/ LockReview(f) \/ SaveReview(f)
    PROVE  Advances(f) /\ Stays /\ Memory
<1>0. f \in Flight /\ ~f.cancelled /\ f.step \in Provided /\ f.step \in Inside
  BY DEF Typed, TypeOK, LoadReview, ModelAnswers, ModelFails, Check, LockReview, SaveReview, Running,
         Provided, Inside
<1>1. f.provider \in Providers /\ MarkOf(f) \in Mark /\ f.key.kind \in Kinds
  BY <1>0, MarkType, FlightFields DEF Typed, Fitting
<1>2. Stays
  BY DEF LoadReview, ModelAnswers, ModelFails, Check, LockReview, SaveReview, Stays
<1>3. Memory
  BY <1>1 DEF LoadReview, ModelAnswers, ModelFails, Check, LockReview, SaveReview, Memory, Typed, TypeOK
<1>4. CASE LoadReview(f)
  BY <1>0, <1>1, <1>2, <1>3, <1>4, DecideAdvances DEF LoadReview
<1>5. CASE ModelAnswers(f)
  BY <1>0, <1>1, <1>2, <1>3, <1>5, GoesOn, EndsOn DEF Rightly, ModelAnswers, States, Inside
<1>6. CASE ModelFails(f)
  BY <1>2, <1>3, <1>6, EndsOn DEF Rightly, ModelFails, States
<1>7. CASE Check(f)
  BY <1>0, <1>1, <1>2, <1>3, <1>7, GoesOn, EndsOn DEF Rightly, Check, States, Inside
<1>8. CASE LockReview(f)
  <2>1. f.key.kind = "contract"
    BY <1>8 DEF LockReview, Running, Typed, Fitting
  <2>2. \/ Goes(f, [f EXCEPT !.step = "saving"]) /\ UNCHANGED <<slots, request>>
        \/ Ends(f, "unavailable")
    BY <1>8 DEF LockReview
  <2>3. Rightly(f, "unavailable")
    BY DEF Rightly
  <2> QED
    BY <1>0, <1>1, <1>2, <1>3, <2>1, <2>2, <2>3, GoesOn, EndsOn DEF States, Inside
<1>9. CASE SaveReview(f)
  BY <1>2, <1>3, <1>9, EndsOn DEF Rightly, Running, SaveReview, States
<1> QED
  BY <1>4, <1>5, <1>6, <1>7, <1>8, <1>9

LEMMA FlyAdvances ==
    ASSUME Typed, NEW f \in flights, Fly(f)
    PROVE  Advances(f) /\ Stays /\ Memory
<1>1. CASE Raise(f)
  <2>1. Stays /\ Memory
    BY <1>1, BudgetSpent DEF Raise, Stays, Memory, Typed, TypeOK
  <2> QED
    BY <1>1, <2>1, EndsOn DEF Rightly, Raise, States
<1>2. CASE CheckCached(f)
  <2>1. Stays /\ Memory
    BY <1>2 DEF CheckCached, Stays, Memory, Typed, TypeOK
  <2> QED
    BY <1>2, <2>1 DEF CheckCached, Advances, EndsWell, Rightly, States
<1>3. CASE Cancelled(f)
  <2>1. Stays /\ Memory
    BY <1>3 DEF Cancelled, Stays, Memory, Typed, TypeOK
  <2> QED
    BY <1>3, <2>1, EndsOn DEF Rightly, Cancelled, States
<1> QED
  BY <1>1, <1>2, <1>3, Entering, Reading, Providing, Asking DEF Fly

(***************************************************************************)
(* The places                                                              *)
(***************************************************************************)
Held == {f \in flights : f.step \in Inside}

Counted == IsFiniteSet(flights) /\ SlotsAddUp /\ slots \in 0 .. Slots

LEMMA HeldFinite ==
    ASSUME IsFiniteSet(flights)
    PROVE  IsFiniteSet(Held) /\ Cardinality(Held) \in Nat
<1>1. Held \in SUBSET flights
  BY DEF Held
<1> QED
  BY <1>1, FS_Subset, FS_CardinalityType

LEMMA MovesCounted ==
    ASSUME Typed, OneTaskPerKey, SlotsAddUp, NEW f \in flights, NEW g \in Flight, Moves(f, g)
    PROVE  Counted'
<1>1. IsFiniteSet(flights') /\ flights' = (flights \ {f}) \cup {g}
  BY FS_RemoveElement, FS_AddElement DEF Typed, Moves, Goes
<1>2. Held' = (Held \ {f}) \cup {g}
  BY <1>1 DEF Held, Moves
<1>3. g \notin Held \ {f}
  BY DEF Held, Moves, OneTaskPerKey
<1>4. IsFiniteSet(Held) /\ Cardinality(Held) \in Nat
  BY HeldFinite DEF Typed
<1>5. /\ IsFiniteSet(Held \ {f})
      /\ Cardinality(Held \ {f}) = IF f \in Held THEN Cardinality(Held) - 1 ELSE Cardinality(Held)
  BY <1>4, FS_RemoveElement
<1>6. Cardinality(Held') = Cardinality(Held \ {f}) + 1
  BY <1>2, <1>3, <1>5, FS_AddElement
<1>7. f \in Held <=> f.step \in Inside
  BY DEF Held
<1>8. slots \in 0 .. Slots /\ Slots \in Nat /\ slots + Cardinality(Held) = Slots
  BY ReviewAssumption DEF Typed, TypeOK, SlotsAddUp, Held
<1>9. slots' = IF f \in Held THEN slots ELSE slots - 1
  BY <1>7 DEF Moves
<1>10. f \notin Held => slots > 0
  BY <1>7 DEF Moves
<1>11. slots' + Cardinality(Held') = Slots /\ slots' \in 0 .. Slots
  BY <1>4, <1>5, <1>6, <1>8, <1>9, <1>10
<1> QED
  BY <1>1, <1>11 DEF Counted, SlotsAddUp, Held

LEMMA EndsCounted ==
    ASSUME Typed, SlotsAddUp, NEW f \in flights, NEW state, Ends(f, state)
    PROVE  Counted'
<1>1. IsFiniteSet(flights') /\ flights' = flights \ {f}
  BY FS_RemoveElement DEF Typed, Ends
<1>2. Held' = Held \ {f}
  BY <1>1 DEF Held
<1>3. IsFiniteSet(Held) /\ Cardinality(Held) \in Nat
  BY HeldFinite DEF Typed
<1>4. Cardinality(Held') = IF f \in Held THEN Cardinality(Held) - 1 ELSE Cardinality(Held)
  BY <1>2, <1>3, FS_RemoveElement
<1>5. IsFiniteSet(Held') /\ Cardinality(Held') \in Nat
  BY <1>2, <1>3, FS_RemoveElement, FS_CardinalityType
<1>6. slots \in 0 .. Slots /\ Slots \in Nat /\ slots + Cardinality(Held) = Slots
  BY ReviewAssumption DEF Typed, TypeOK, SlotsAddUp, Held
<1>7. slots' = IF f \in Held THEN slots + 1 ELSE slots
  BY DEF Ends, Releases, Held
<1>8. slots' + Cardinality(Held') = Slots /\ slots' \in 0 .. Slots
  BY <1>3, <1>4, <1>5, <1>6, <1>7
<1> QED
  BY <1>1, <1>8 DEF Counted, SlotsAddUp, Held

\* Cancelling the flights merges none of them: their keys differ.
LEMMA InvalidateCounted ==
    ASSUME Typed, OneTaskPerKey, SlotsAddUp, Invalidate, slots' = slots
    PROVE  Counted'
<1> DEFINE C(f) == [f EXCEPT !.cancelled = TRUE]
<1> DEFINE F == [f \in flights |-> C(f)]
<1> DEFINE H == [f \in Held |-> C(f)]
<1>1. flights' = {C(f) : f \in flights}
  BY DEF Invalidate
<1>2. \A f \in flights : C(f).key = f.key /\ C(f).step = f.step
  BY DEF Typed, TypeOK, Flight
<1> HIDE DEF C
<1>3. \A f, g \in flights : C(f) = C(g) => f = g
  BY <1>2 DEF OneTaskPerKey
<1>4. IsFiniteSet(flights')
  <2>1. F \in Surjection(flights, flights')
    BY <1>1 DEF Surjection
  <2> QED
    BY <2>1, FS_Surjection DEF Typed
<1>5. Held' = {C(f) : f \in Held}
  BY <1>1, <1>2 DEF Held
<1>6. Held \subseteq flights
  BY DEF Held
<1>7. H \in Bijection(Held, Held')
  <2>1. H \in [Held -> Held'] /\ \A f \in Held : H[f] = C(f)
    BY <1>5
  <2>2. H \in Injection(Held, Held')
    <3>1. \A f, g \in Held : H[f] = H[g] => f = g
      BY <1>3, <1>6, <2>1
    <3> HIDE DEF H
    <3> QED
      BY <2>1, <3>1 DEF Injection, IsInjective
  <2>3. H \in Surjection(Held, Held')
    BY <1>5, <2>1 DEF Surjection
  <2> QED
    BY <2>2, <2>3 DEF Bijection
<1>8. Cardinality(Held') = Cardinality(Held)
  BY <1>7, HeldFinite, FS_Bijection DEF Typed, ExistsBijection
<1> QED
  BY <1>4, <1>8 DEF Counted, Typed, TypeOK, SlotsAddUp, Held

\* A new flight waits for a place.
LEMMA JoinCounted ==
    ASSUME Typed, SlotsAddUp, NEW f, f.step = "slot", flights' \in {flights, flights \cup {f}}, slots' = slots
    PROVE  Counted'
<1>1. IsFiniteSet(flights')
  BY FS_AddElement DEF Typed
<1>2. Held' = Held
  BY DEF Held, Inside
<1> QED
  BY <1>1, <1>2 DEF Counted, Typed, TypeOK, SlotsAddUp, Held

(***************************************************************************)
(* What one step of a request does                                         *)
(***************************************************************************)
\* The key its kind has now.
IsNow(key) ==
    /\ key.config = config
    /\ key.provider = IF Enabled(key.kind) THEN provider ELSE None

\* A new flight of this epoch, the only one under its key.
Joined(f) ==
    /\ flights' = flights \cup {f}
    /\ f \in Flight /\ f.step = "slot" /\ ~f.cancelled
    /\ f.key.epoch = epoch /\ ~ShuttingDown
    /\ \A g \in flights : g.key = f.key => g.cancelled

Given == {"cached", "fresh"}

LEMMA NoAnswerType == NoAnswer \in Answer /\ NoAnswer.state \notin Given
BY DEF NoAnswer, Answer, Given

LEMMA OverTypes ==
    ASSUME Typed, NEW q \in Requests, NEW state \in States, NEW p \in Providers \cup {None}
    PROVE  /\ Over(q, state, p) \in Request
           /\ Over(q, state, p).step = "answered"
           /\ Over(q, state, p).answer.state = state
           /\ Over(q, state, p).answer.provider = p
<1>1. request[q].refresh \in BOOLEAN
  BY DEF Typed, TypeOK, Request
<1>2. (CHOOSE k \in Kinds : TRUE) \in Kinds
  BY ReviewAssumption
<1>3. (CHOOSE c \in Configs : TRUE) \in Configs
  BY DEF Typed, TypeOK
<1>4. [state |-> state, provider |-> p] \in Answer
  BY DEF Answer, States
<1>5. NewRequest \in Request
  BY <1>2, <1>3, NoAnswerType DEF NewRequest, Request
<1> HIDE DEF NewRequest
<1>6. /\ [NewRequest EXCEPT !.step = "answered", !.refresh = request[q].refresh,
                            !.answer = [state |-> state, provider |-> p]] \in Request
      /\ Over(q, state, p).step = "answered"
      /\ Over(q, state, p).answer = [state |-> state, provider |-> p]
  BY <1>1, <1>4, <1>5 DEF Request, Over
<1> QED
  BY <1>6 DEF Over

LEMMA AnsweredTypes ==
    ASSUME Typed, NEW q \in Requests, NEW state \in States, Answered(q, state, None)
    PROVE  /\ request' \in [Requests -> Request]
           /\ request'[q].step = "answered" /\ request'[q].answer.state = state
           /\ \A p \in Requests : p # q => request'[p] = request[p]
BY OverTypes DEF Answered, Typed, TypeOK

LEMMA JoinSteps ==
    ASSUME Typed, NEW q \in Requests, NEW r \in Request, NEW p \in Providers \cup {None},
           r.answer = NoAnswer, r.epoch = epoch, ~ShuttingDown, Join(q, r, p)
    PROVE  /\ request' \in [Requests -> Request]
           /\ request'[q].step = "waiting" /\ request'[q].answer = NoAnswer
           /\ \A a \in Requests : a # q => request'[a] = request[a]
           /\ UNCHANGED flights \/ \E f \in Flight : Joined(f) /\ f.key = KeyOf(r, p)
<1> DEFINE key == KeyOf(r, p)
<1> DEFINE f == [key |-> key, refresh |-> r.refresh, cancelled |-> FALSE,
                 step |-> "slot", read |-> NoRead, provider |-> None]
<1>1. key \in Key /\ key.epoch = epoch
  <2>1. r.kind \in Kinds /\ r.config \in Configs /\ r.epoch \in Nat
    BY DEF Request
  <2>2. r.config \in Settings
    BY <2>1, ReviewAssumption DEF Settings
  <2> QED
    BY <2>1, <2>2 DEF KeyOf, Key
<1>2. request' = [request EXCEPT ![q] = [r EXCEPT !.step = "waiting", !.key = key]]
  BY DEF Join
<1>3. flights' = IF \E g \in flights : g.key = key /\ ~g.cancelled THEN flights ELSE flights \cup {f}
  BY DEF Join
<1> HIDE DEF key
<1>4. /\ [r EXCEPT !.step = "waiting", !.key = key] \in Request
      /\ [r EXCEPT !.step = "waiting", !.key = key].step = "waiting"
      /\ [r EXCEPT !.step = "waiting", !.key = key].answer = NoAnswer
  BY <1>1 DEF Request
<1>5. f \in Flight /\ f.key = key /\ f.step = "slot" /\ ~f.cancelled
  BY <1>1 DEF Flight, Request, Read, NoRead, WaitingForSlot
<1> HIDE DEF f
<1>6. UNCHANGED flights \/ Joined(f)
  BY <1>1, <1>3, <1>5 DEF Joined
<1>7. /\ request' \in [Requests -> Request]
      /\ request'[q].step = "waiting" /\ request'[q].answer = NoAnswer
      /\ \A a \in Requests : a # q => request'[a] = request[a]
  BY <1>2, <1>4 DEF Typed, TypeOK
<1> QED
  BY <1>5, <1>6, <1>7 DEF key

Calls(q) == Ask(q) \/ HasProvider(q) \/ Leave(q)

LEMMA CallSteps ==
    ASSUME Typed, Unanswered, KeysOfNow, NEW q \in Requests, Calls(q)
    PROVE  /\ UNCHANGED <<epoch, slots, review, reply, failed, world, others, budget>>
           /\ request' \in [Requests -> Request]
           /\ \A a \in Requests : a # q => request'[a] = request[a]
           /\ \/ request'[q].step = "answered" /\ request'[q].answer.state \notin Given
              \/ request'[q].step # "answered" /\ request'[q].answer = NoAnswer
           /\ request'[q].step = "provider" =>
                request'[q].config = config /\ Enabled(request'[q].kind)
           /\ \/ UNCHANGED flights
              \/ \E f \in Flight : Joined(f) /\ (budget.switches = MaxSwitches => IsNow(f.key))
<1>0. /\ UNCHANGED <<epoch, slots, review, reply, failed, world, others, budget>>
      /\ request[q] \in Request
  BY DEF Calls, Ask, HasProvider, Leave, Typed, TypeOK
<1>1. CASE Ask(q)
  <2>1. PICK kind \in Kinds, refresh \in Refreshes[q] :
           LET r == [request[q] EXCEPT !.kind = kind, !.refresh = refresh,
                                       !.epoch = epoch, !.config = config]
           IN  \/ ShuttingDown /\ Answered(q, "unavailable", None) /\ UNCHANGED flights
               \/ ~ShuttingDown /\ ~Enabled(kind) /\ Join(q, r, None)
               \/ /\ ~ShuttingDown /\ Enabled(kind)
                  /\ request' = [request EXCEPT ![q] = [r EXCEPT !.step = "provider"]]
                  /\ UNCHANGED flights
    BY <1>1 DEF Ask
  <2> DEFINE r == [request[q] EXCEPT !.kind = kind, !.refresh = refresh,
                                     !.epoch = epoch, !.config = config]
  <2>2. refresh \in BOOLEAN /\ request[q].step = "new" /\ request[q].answer = NoAnswer
    BY <1>1, ReviewAssumption DEF Ask, Unanswered
  <2>3. /\ r \in Request /\ r.kind = kind /\ r.epoch = epoch /\ r.config = config
        /\ r.answer = NoAnswer
    BY <1>0, <2>2 DEF Request, Typed, TypeOK
  <2>4. /\ [r EXCEPT !.step = "provider"] \in Request
        /\ [r EXCEPT !.step = "provider"].step = "provider"
        /\ [r EXCEPT !.step = "provider"].answer = NoAnswer
        /\ [r EXCEPT !.step = "provider"].config = config
        /\ [r EXCEPT !.step = "provider"].kind = kind
    BY <2>3 DEF Request
  <2>5. \/ ShuttingDown /\ Answered(q, "unavailable", None) /\ UNCHANGED flights
        \/ ~ShuttingDown /\ ~Enabled(kind) /\ Join(q, r, None)
        \/ /\ Enabled(kind) /\ UNCHANGED flights
           /\ request' = [request EXCEPT ![q] = [r EXCEPT !.step = "provider"]]
    BY <2>1
  <2> HIDE DEF r
  <2>6. CASE Answered(q, "unavailable", None) /\ UNCHANGED flights
    BY <1>0, <2>6, AnsweredTypes DEF States, Given
  <2>7. CASE ~ShuttingDown /\ ~Enabled(kind) /\ Join(q, r, None)
    <3>1. /\ request' \in [Requests -> Request]
          /\ request'[q].step = "waiting" /\ request'[q].answer = NoAnswer
          /\ \A a \in Requests : a # q => request'[a] = request[a]
          /\ UNCHANGED flights \/ \E f \in Flight : Joined(f) /\ f.key = KeyOf(r, None)
      BY <2>3, <2>7, JoinSteps
    <3>2. IsNow(KeyOf(r, None))
      BY <2>3, <2>7 DEF IsNow, KeyOf
    <3> QED
      BY <1>0, <3>1, <3>2
  <2>8. CASE /\ Enabled(kind) /\ UNCHANGED flights
             /\ request' = [request EXCEPT ![q] = [r EXCEPT !.step = "provider"]]
    <3>1. /\ request' \in [Requests -> Request]
          /\ request'[q] = [r EXCEPT !.step = "provider"]
          /\ \A a \in Requests : a # q => request'[a] = request[a]
      BY <2>4, <2>8 DEF Typed, TypeOK
    <3> QED
      BY <1>0, <2>4, <2>8, <3>1
  <2> QED
    BY <2>5, <2>6, <2>7, <2>8
<1>2. CASE HasProvider(q)
  <2>1. request[q].step = "provider" /\ request[q].answer = NoAnswer
    BY <1>2 DEF HasProvider, Unanswered
  <2>2. CASE Valid(request[q].epoch) /\ Join(q, request[q], provider)
    <3>1. request[q].epoch = epoch /\ ~ShuttingDown /\ provider \in Providers \cup {None}
      BY <2>2 DEF Valid, Typed, TypeOK
    <3>2. /\ request' \in [Requests -> Request]
          /\ request'[q].step = "waiting" /\ request'[q].answer = NoAnswer
          /\ \A a \in Requests : a # q => request'[a] = request[a]
          /\ UNCHANGED flights \/ \E f \in Flight : Joined(f) /\ f.key = KeyOf(request[q], provider)
      BY <1>0, <2>1, <2>2, <3>1, JoinSteps
    <3>3. budget.switches = MaxSwitches => IsNow(KeyOf(request[q], provider))
      BY <2>1 DEF KeysOfNow, IsNow, KeyOf
    <3> QED
      BY <1>0, <3>2, <3>3
  <2>3. CASE Answered(q, "unavailable", None) /\ UNCHANGED flights
    BY <1>0, <2>3, AnsweredTypes DEF States, Given
  <2> QED
    BY <1>2, <2>2, <2>3 DEF HasProvider
<1>3. CASE Leave(q)
  <2>1. Answered(q, "gone", None) /\ UNCHANGED flights
    BY <1>3 DEF Leave
  <2> QED
    BY <1>0, <2>1, AnsweredTypes DEF States, Given
<1> QED
  BY <1>1, <1>2, <1>3 DEF Calls

(***************************************************************************)
(* Every step keeps the invariant                                          *)
(***************************************************************************)
Inv == Typed /\ RuntimeInv

LEMMA EndsRequests ==
    ASSUME Typed, Unanswered, NEW f \in flights, EndsWell(f)
    PROVE  /\ request' \in [Requests -> Request]
           /\ \A q \in Requests :
                \/ request'[q] = request[q]
                \/ /\ request'[q].step = "answered" /\ request[q].key = f.key
                   /\ request'[q].answer.provider = f.provider
                   /\ Rightly(f, request'[q].answer.state)
<1>1. PICK state \in States : Ends(f, state) /\ Rightly(f, state)
  BY DEF EndsWell
<1>2. f.provider \in Providers \cup {None}
  BY FlightFields DEF Typed, TypeOK
<1>3. \A q \in Requests : /\ Over(q, state, f.provider) \in Request
                          /\ Over(q, state, f.provider).step = "answered"
                          /\ Over(q, state, f.provider).answer.state = state
                          /\ Over(q, state, f.provider).answer.provider = f.provider
  BY <1>2, OverTypes
<1>4. request' = [q \in Requests |->
                     IF request[q].step = "waiting" /\ request[q].key = f.key
                     THEN Over(q, state, f.provider)
                     ELSE request[q]]
  BY <1>1 DEF Ends
<1>5. request' \in [Requests -> Request]
  BY <1>3, <1>4 DEF Typed, TypeOK
<1> QED
  BY <1>1, <1>3, <1>4, <1>5

LEMMA FlyKeeps ==
    ASSUME Inv, NEW f \in flights, Fly(f)
    PROVE  Inv'
<1>0. Typed /\ OneTaskPerKey /\ Fenced /\ SavesGoOn /\ SlotsAddUp /\ Quiet /\ Unanswered /\ KeysOfNow
  BY DEF Inv, RuntimeInv
<1>1. Advances(f) /\ Stays /\ Memory
  BY <1>0, FlyAdvances
<1>2. Counted'
  BY <1>0, <1>1, MovesCounted, EndsCounted DEF Advances, EndsWell
<1>3. /\ request' \in [Requests -> Request]
      /\ Unanswered'
      /\ \A q \in Requests : request'[q].step = "provider" => request'[q] = request[q]
  <2>1. CASE EndsWell(f)
    BY <1>0, <2>1, EndsRequests DEF Unanswered
  <2>2. CASE \E g \in Flight : Moves(f, g)
    BY <1>0, <2>2 DEF Moves, Unanswered, Typed, TypeOK
  <2> QED
    BY <1>1, <2>1, <2>2 DEF Advances
<1>4. \A g \in flights' :
         \/ g \in flights /\ g # f
         \/ /\ g \in Flight /\ g.key = f.key /\ ~g.cancelled /\ ~f.cancelled
            /\ Fitting(g)
  BY <1>1 DEF Advances, EndsWell, Ends, Moves, Goes
<1>5. \A g, h \in flights' : g.key = h.key => g = h
  <2>1. CASE EndsWell(f)
    BY <1>0, <2>1 DEF EndsWell, Ends, OneTaskPerKey
  <2>2. CASE \E g \in Flight : Moves(f, g)
    BY <1>0, <2>2 DEF Moves, Goes, OneTaskPerKey
  <2> QED
    BY <1>1, <2>1, <2>2 DEF Advances
<1>6. Typed'
  <2>1. flights' \subseteq Flight /\ \A g \in flights' : Fitting(g)
    BY <1>0, <1>4 DEF Typed, TypeOK
  <2> QED
    BY <1>0, <1>1, <1>2, <1>3, <2>1 DEF Typed, TypeOK, Counted, Stays, Memory, world, others
<1>7. OneTaskPerKey' /\ Fenced' /\ SavesGoOn' /\ Quiet'
  BY <1>0, <1>1, <1>4, <1>5 DEF OneTaskPerKey, Fenced, SavesGoOn, Quiet, Stays, others
<1>8. KeysOfNow'
  <2>1. UNCHANGED <<provider, config>> /\ budget'.switches = budget.switches
    BY <1>1 DEF Stays, world, Memory
  <2> QED
    BY <1>0, <1>3, <1>4, <2>1 DEF KeysOfNow, Enabled, Typed, TypeOK
<1> QED
  BY <1>2, <1>3, <1>6, <1>7, <1>8 DEF Inv, RuntimeInv, Counted

LEMMA CallKeeps ==
    ASSUME Inv, NEW q \in Requests, Calls(q)
    PROVE  Inv'
<1>0. Typed /\ OneTaskPerKey /\ Fenced /\ SavesGoOn /\ SlotsAddUp /\ Quiet /\ Unanswered /\ KeysOfNow
  BY DEF Inv, RuntimeInv
<1>1. /\ UNCHANGED <<epoch, slots, review, reply, failed, world, others, budget>>
      /\ request' \in [Requests -> Request]
      /\ \A a \in Requests : a # q => request'[a] = request[a]
      /\ \/ request'[q].step = "answered" /\ request'[q].answer.state \notin Given
         \/ request'[q].step # "answered" /\ request'[q].answer = NoAnswer
      /\ request'[q].step = "provider" =>
           request'[q].config = config /\ Enabled(request'[q].kind)
      /\ \/ UNCHANGED flights
         \/ \E f \in Flight : Joined(f) /\ (budget.switches = MaxSwitches => IsNow(f.key))
  BY <1>0, CallSteps
<1>2. UNCHANGED <<provider, config, closing, writer, rows, contract, notes>>
  BY <1>1 DEF world, others
<1>3. Counted'
  <2>1. CASE UNCHANGED flights
    BY <1>0, <1>1, <2>1 DEF Counted, Typed, TypeOK, SlotsAddUp
  <2>2. ASSUME NEW f \in Flight, Joined(f) PROVE Counted'
    BY <1>0, <1>1, <2>2, JoinCounted DEF Joined
  <2> QED
    BY <1>1, <2>1, <2>2
<1>4. Unanswered'
  BY <1>0, <1>1 DEF Unanswered
<1> DEFINE FlightsNow ==
      /\ \A g \in flights' :
           \/ g \in flights
           \/ /\ g \in Flight /\ g.step = "slot" /\ ~g.cancelled /\ g.key.epoch = epoch /\ ~ShuttingDown
              /\ budget.switches = MaxSwitches => IsNow(g.key)
      /\ \A g, h \in flights' : g.key = h.key => g = h
<1>5. FlightsNow
  <2>1. CASE UNCHANGED flights
    BY <1>0, <2>1 DEF OneTaskPerKey
  <2>2. ASSUME NEW f \in Flight, Joined(f), budget.switches = MaxSwitches => IsNow(f.key)
        PROVE  FlightsNow
    <3>1. \A g \in flights : g.key # f.key
      <4> SUFFICES ASSUME NEW g \in flights, g.key = f.key PROVE FALSE
        OBVIOUS
      <4>1. g.cancelled /\ g.key.epoch = epoch /\ epoch \in Nat
        BY <2>2 DEF Joined, Inv, Typed, TypeOK
      <4> QED
        BY <1>0, <4>1 DEF Fenced
    <3> QED
      BY <1>0, <2>2, <3>1 DEF Joined, OneTaskPerKey
  <2> QED
    BY <1>1, <2>1, <2>2
<1>6. \A g : g.step = "slot" => Fitting(g) /\ g.step # "saving"
  BY DEF Provided, Inside, Fitting
<1>7. Typed'
  BY <1>0, <1>1, <1>2, <1>3, <1>5, <1>6 DEF Typed, TypeOK, Counted
<1>8. OneTaskPerKey' /\ Fenced' /\ SavesGoOn'
  BY <1>0, <1>1, <1>5, <1>6 DEF OneTaskPerKey, Fenced, SavesGoOn
<1>9. Quiet'
  BY <1>0, <1>2, <1>5 DEF Quiet, ShuttingDown
<1>10. KeysOfNow'
  BY <1>0, <1>1, <1>2, <1>5 DEF KeysOfNow, IsNow, Enabled
<1> QED
  BY <1>3, <1>4, <1>7, <1>8, <1>9, <1>10 DEF Inv, RuntimeInv, Counted

LEMMA InFlightType == Typed => InFlight \in SUBSET Key
BY FlightFields DEF Typed, TypeOK, InFlight

LEMMA InvalidateKeeps ==
    ASSUME Inv, WriterInvalidates \/ TerminateInvalidates
    PROVE  Inv'
<1>0. Typed /\ OneTaskPerKey /\ Fenced /\ SavesGoOn /\ SlotsAddUp /\ Quiet /\ Unanswered /\ KeysOfNow
  BY DEF Inv, RuntimeInv
<1>1. Invalidate /\ UNCHANGED <<slots, review, request, world, budget>>
  BY DEF WriterInvalidates, TerminateInvalidates
<1>2. Counted'
  BY <1>0, <1>1, InvalidateCounted
<1> DEFINE C(f) == [f EXCEPT !.cancelled = TRUE]
<1>11. \A f \in flights : /\ C(f) \in Flight /\ C(f).key = f.key /\ C(f).step = f.step
                          /\ C(f).provider = f.provider /\ C(f).cancelled /\ f.step # "saving"
  BY <1>0, <1>1 DEF Invalidate, WriteLocked, Typed, TypeOK, Flight
<1>12. flights' = {C(f) : f \in flights}
  BY <1>1 DEF Invalidate
<1> HIDE DEF C
<1>3. \A g \in flights' : g.cancelled /\ g.step # "saving" /\ g \in Flight
         /\ \E f \in flights : g.key = f.key /\ g.step = f.step /\ g.provider = f.provider
  BY <1>11, <1>12
<1>4. \A g, h \in flights' : g.key = h.key => g = h
  BY <1>0, <1>11, <1>12 DEF OneTaskPerKey
<1>5. \A f \in flights : f.key.epoch \in Nat /\ epoch \in Nat /\ f.key.epoch <= epoch
  BY <1>0, FlightFields DEF Typed, TypeOK, Fenced
<1>6. epoch' = epoch + 1 /\ reply' = None /\ failed' = [k \in Kinds |-> None]
  BY <1>1 DEF Invalidate
<1>7. Fenced'
  <2> SUFFICES ASSUME NEW g \in flights' PROVE g.cancelled /\ g.key.epoch < epoch'
    BY DEF Fenced
  <2>1. PICK f \in flights : g.key = f.key
    BY <1>3
  <2>2. f.key.epoch < epoch + 1
    BY <1>5
  <2> QED
    BY <1>3, <1>6, <2>1, <2>2
<1>8. writer' \in Writer /\ closing' \in Closings
  <2>1. InFlight \in SUBSET Key /\ writer \in Writer /\ closing \in Closings
    BY <1>0, InFlightType DEF Typed
  <2>2. CASE WriterInvalidates
    <3>1. writer' = [writer EXCEPT !.step = "gather", !.gather = InFlight] /\ closing' = closing
      BY <2>1, <2>2 DEF WriterInvalidates, Then, Writer
    <3> QED
      BY <2>1, <3>1 DEF Writer
  <2>3. CASE TerminateInvalidates
    <3>1. closing' = [step |-> "gather", gather |-> InFlight] /\ writer' = writer
      BY <2>3 DEF TerminateInvalidates, world
    <3> QED
      BY <2>1, <3>1 DEF Closings
  <2> QED
    BY <2>2, <2>3
<1>9. Typed'
  <2>1. flights' \subseteq Flight /\ \A g \in flights' : Fitting(g)
    BY <1>0, <1>3 DEF Typed, Fitting
  <2>2. epoch' \in Nat /\ writer'.kind \in {"none", "import", "reset"}
        /\ writer'.step \in {"none", "invalidate", "gather", "clear", "end"}
        /\ closing'.step \in {"up", "invalidate", "gather", "closed"}
    BY <1>0, <1>6, <1>8 DEF Typed, TypeOK, Writer, Closings
  <2> QED
    BY <1>0, <1>1, <1>2, <1>6, <1>8, <2>1, <2>2 DEF Typed, TypeOK, Counted, world
<1>10. OneTaskPerKey' /\ SavesGoOn' /\ Quiet' /\ KeysOfNow' /\ Unanswered'
  BY <1>0, <1>1, <1>3, <1>4 DEF OneTaskPerKey, SavesGoOn, Quiet, KeysOfNow, Unanswered, Enabled, world
<1> QED
  BY <1>2, <1>7, <1>9, <1>10 DEF Inv, RuntimeInv, Counted

\* The steps that leave the requests and the flights alone.
Elsewhere ==
    \/ StartImport \/ StartReset \/ Gather \/ ClearReview \/ EndImport \/ EndReset
    \/ StartTerminate \/ Terminated \/ Switch \/ \E kind \in Kinds : Cool(kind)

LEMMA ElsewhereTypes ==
    ASSUME Typed, Elsewhere
    PROVE  /\ UNCHANGED <<epoch, flights, slots, request>>
           /\ review' \in {review, None} /\ reply' \in {reply, None}
           /\ failed' \in [Kinds -> Mark \cup {None}]
           /\ rows' \in Nat /\ contract' \in Nat /\ notes' \in Nat
           /\ provider' \in Providers \cup {None} /\ config' \in Configs
           /\ writer' \in Writer /\ closing' \in Closings /\ budget' \in Budget
           /\ budget'.switches = MaxSwitches =>
                budget.switches = MaxSwitches /\ UNCHANGED <<provider, config>>
           /\ closing'.step = "closed" => closing.step \in {"gather", "closed"}
           /\ closing'.step = "gather" => closing.step = "gather"
<1>0. /\ writer \in Writer /\ closing \in Closings /\ budget \in Budget
      /\ failed \in [Kinds -> Mark \cup {None}]
      /\ rows \in Nat /\ contract \in Nat /\ notes \in Nat
      /\ provider \in Providers \cup {None} /\ config \in Configs
  BY DEF Typed, TypeOK
<1>1. CASE StartImport
  <2>1. writer' \in Writer
    BY <1>1 DEF StartImport, Writer, Then
  <2>2. budget' \in Budget /\ budget'.switches = budget.switches
    BY <1>0, <1>1, BudgetSpent DEF StartImport
  <2> QED
    BY <1>0, <1>1, <2>1, <2>2 DEF StartImport
<1>2. CASE StartReset
  <2>1. writer' \in Writer
    BY <1>2 DEF StartReset, Writer, Then
  <2>2. budget' \in Budget /\ budget'.switches = budget.switches
    BY <1>0, <1>2, BudgetSpent DEF StartReset
  <2> QED
    BY <1>0, <1>2, <2>1, <2>2 DEF StartReset, world
<1>3. CASE Gather
  <2>1. writer' \in Writer
    BY <1>0, <1>3 DEF Gather, Writer, Then
  <2> QED
    BY <1>0, <1>3, <2>1 DEF Gather, world
<1>4. CASE ClearReview
  <2>1. writer' \in Writer
    BY <1>0, <1>4 DEF ClearReview, WriterGoes, Writer, Then
  <2> QED
    BY <1>0, <1>4, <2>1 DEF ClearReview, world
<1>5. CASE EndImport \/ EndReset
  <2>1. writer' \in Writer
    BY <1>5 DEF EndImport, EndReset, NoWriter, Writer
  <2> QED
    BY <1>0, <1>5, <2>1 DEF EndImport, EndReset
<1>6. CASE StartTerminate
  <2>1. closing' \in Closings /\ closing'.step = "invalidate"
    BY <1>0, <1>6 DEF StartTerminate, Closings
  <2> QED
    BY <1>0, <1>6, <2>1 DEF StartTerminate, world
<1>7. CASE Terminated
  <2>1. closing' \in Closings /\ closing'.step = "closed" /\ closing.step = "gather"
    BY <1>7 DEF Terminated, Closings
  <2> QED
    BY <1>0, <1>7, <2>1 DEF Terminated, world
<1>8. CASE Switch
  <2>1. budget' \in Budget /\ budget'.switches < MaxSwitches
    BY <1>0, <1>8, BudgetSpent DEF Switch
  <2>2. budget'.switches # MaxSwitches
    BY <2>1, ReviewAssumption DEF Budget
  <2> QED
    BY <1>0, <1>8, <2>1, <2>2 DEF Switch, others
<1>9. CASE \E kind \in Kinds : Cool(kind)
  BY <1>0, <1>9 DEF Cool, world, others
<1> QED
  BY <1>1, <1>2, <1>3, <1>4, <1>5, <1>6, <1>7, <1>8, <1>9 DEF Elsewhere

LEMMA ElsewhereKeeps ==
    ASSUME Inv, Elsewhere
    PROVE  Inv'
<1>0. Typed /\ OneTaskPerKey /\ Fenced /\ SavesGoOn /\ SlotsAddUp /\ Quiet /\ Unanswered /\ KeysOfNow
  BY DEF Inv, RuntimeInv
<1>1. /\ UNCHANGED <<epoch, flights, slots, request>>
      /\ review' \in {review, None} /\ reply' \in {reply, None}
      /\ failed' \in [Kinds -> Mark \cup {None}]
      /\ rows' \in Nat /\ contract' \in Nat /\ notes' \in Nat
      /\ provider' \in Providers \cup {None} /\ config' \in Configs
      /\ writer' \in Writer /\ closing' \in Closings /\ budget' \in Budget
      /\ budget'.switches = MaxSwitches =>
           budget.switches = MaxSwitches /\ UNCHANGED <<provider, config>>
      /\ closing'.step = "closed" => closing.step \in {"gather", "closed"}
      /\ closing'.step = "gather" => closing.step = "gather"
  BY <1>0, ElsewhereTypes
<1>2. /\ writer'.kind \in {"none", "import", "reset"}
      /\ writer'.step \in {"none", "invalidate", "gather", "clear", "end"}
      /\ closing'.step \in {"up", "invalidate", "gather", "closed"}
  BY <1>1 DEF Writer, Closings
<1>3. Typed'
  BY <1>0, <1>1, <1>2 DEF Typed, TypeOK
<1>4. OneTaskPerKey' /\ Fenced' /\ SavesGoOn' /\ SlotsAddUp' /\ Unanswered'
  BY <1>0, <1>1 DEF OneTaskPerKey, Fenced, SavesGoOn, SlotsAddUp, Unanswered
<1>5. Quiet' /\ KeysOfNow'
  BY <1>0, <1>1 DEF Quiet, KeysOfNow, Enabled
<1> QED
  BY <1>3, <1>4, <1>5 DEF Inv, RuntimeInv

\* The kinds of steps there are.
LEMMA StepKinds ==
    ASSUME [Next]_vars
    PROVE  \/ \E q \in Requests : Calls(q)
           \/ \E f \in flights : Fly(f)
           \/ WriterInvalidates \/ TerminateInvalidates
           \/ Elsewhere
           \/ UNCHANGED vars
BY DEF Next, Calls, Write, Closing, Elsewhere

LEMMA InvKept == Inv /\ [Next]_vars => Inv'
<1> SUFFICES ASSUME Inv, [Next]_vars PROVE Inv'
  OBVIOUS
<1>1. CASE UNCHANGED vars
  BY <1>1 DEF vars, Inv, Typed, TypeOK, RuntimeInv, OneTaskPerKey, Fenced, SavesGoOn, SlotsAddUp,
         Quiet, Unanswered, KeysOfNow, Enabled
<1> QED
  BY <1>1, StepKinds, CallKeeps, FlyKeeps, InvalidateKeeps, ElsewhereKeeps

LEMMA InvBegins == Init => Inv
<1> SUFFICES ASSUME Init PROVE Inv
  OBVIOUS
<1>0. /\ Slots \in Nat \ {0} /\ MaxOps \in Nat /\ MaxResets \in Nat /\ MaxSwitches \in Nat
      /\ MaxFailures \in Nat /\ MaxEvents \in Nat
  BY ReviewAssumption
<1>1. request \in [Requests -> Request] /\ \A q \in Requests : request[q].step = "new"
                                            /\ request[q].answer = NoAnswer
  <2>1. (CHOOSE k \in Kinds : TRUE) \in Kinds
    BY ReviewAssumption
  <2>2. (CHOOSE c \in Configs : TRUE) \in Configs
    BY DEF Init
  <2> QED
    BY <2>1, <2>2, NoAnswerType DEF Init, NewRequest, Request
<1>2. review \in Mark \cup {None}
  BY DEF Init, Mark, Read, NoRead
<1>3. writer \in Writer /\ closing \in Closings
  BY DEF Init, NoWriter, Writer, Closings
<1>4. budget \in Budget
  BY <1>0 DEF Init, Budget
<1>5. IsFiniteSet(flights) /\ flights = {} /\ Cardinality({}) = 0
  BY FS_EmptySet DEF Init
<1>6. writer.kind = "none" /\ writer.step = "none" /\ closing.step = "up"
  BY DEF Init, NoWriter
<1>7. SlotsAddUp
  <2>1. {f \in flights : f.step \in Inside} = {}
    BY <1>5
  <2> QED
    BY <1>0, <1>5, <2>1 DEF SlotsAddUp, Init
<1>8. Typed
  BY <1>0, <1>1, <1>2, <1>3, <1>4, <1>5, <1>6 DEF Init, Typed, TypeOK
<1> QED
  BY <1>1, <1>5, <1>6, <1>7, <1>8 DEF Inv, RuntimeInv, OneTaskPerKey, Fenced, SavesGoOn, Quiet,
         Unanswered, KeysOfNow

LEMMA Invariant == Spec => []Inv
<1>1. Init => Inv
  BY InvBegins
<1>2. Inv /\ [Next]_vars => Inv'
  BY InvKept
<1> QED
  BY <1>1, <1>2, PTL DEF Spec

(***************************************************************************)
(* Theorems                                                                *)
(***************************************************************************)
\* Every variable keeps its type.
THEOREM ReviewTypes == Spec => []TypeOK
<1>1. Inv => TypeOK
  BY DEF Inv, Typed
<1> QED
  BY <1>1, Invariant, PTL

\* Every place of _review_slots is free or held by a flight at work, however
\* flights end and whatever cancels them.
THEOREM SlotsBalance == Spec => []SlotsAddUp
<1>1. Inv => SlotsAddUp
  BY DEF Inv, RuntimeInv
<1> QED
  BY <1>1, Invariant, PTL

\* _review_tasks never has two tasks of one key that have not ended.
THEOREM TasksHaveTheirKeys == Spec => []OneTaskPerKey
<1>1. Inv => OneTaskPerKey
  BY DEF Inv, RuntimeInv
<1> QED
  BY <1>1, Invariant, PTL

\* The save that _save_review_if_current has begun is of the current epoch: the
\* lock keeps every invalidation out until it has ended.
THEOREM SavesAreFenced == Spec => []EpochFencesSaves
<1>1. Inv => EpochFencesSaves
  BY DEF Inv, RuntimeInv, Fenced, SavesGoOn, EpochFencesSaves
<1> QED
  BY <1>1, Invariant, PTL

\* Two flights never put the same question to the model while the provider and
\* the settings stay.
THEOREM QuestionsDiffer == Spec => []OneAskPerReview
<1>1. Inv => OneAskPerReview
  <2> SUFFICES ASSUME Inv, budget.switches = MaxSwitches,
                      NEW f \in flights, NEW g \in flights, ~f.cancelled, ~g.cancelled,
                      MarkOf(f) = MarkOf(g)
               PROVE  f = g
    BY DEF OneAskPerReview
  <2>1. /\ flights \subseteq Flight /\ OneTaskPerKey
        /\ f.key.epoch = epoch /\ g.key.epoch = epoch
        /\ IsNow(f.key) /\ IsNow(g.key)
    BY DEF Inv, Typed, TypeOK, RuntimeInv, Fenced, KeysOfNow, IsNow
  <2>2. f.key.kind = g.key.kind
    BY DEF MarkOf
  <2>3. f.key \in Key /\ g.key \in Key
    BY <2>1, FlightFields
  <2>4. f.key = g.key
    BY <2>1, <2>2, <2>3 DEF Key, IsNow
  <2> QED
    BY <2>1, <2>4 DEF OneTaskPerKey
<1> QED
  BY <1>1, Invariant, PTL

\* After terminate no flight goes on.
THEOREM TerminationIsQuiet == Spec => []TerminatedIsQuiet
<1>1. Inv => TerminatedIsQuiet
  BY DEF Inv, RuntimeInv, Quiet, TerminatedIsQuiet
<1> QED
  BY <1>1, Invariant, PTL

\* A review is handed out in the epoch it was asked in; a cached review, and a
\* reply review, with the provider and the settings of that moment.
THEOREM HandedOutReviews == Spec => HandedOutIsCurrent
<1> DEFINE Right(q) ==
      LET key == request[q].key  given == request'[q].answer
      IN  request[q].step = "waiting" /\ given.state \in {"cached", "fresh"}
          => /\ key.epoch = epoch
             /\ given.state = "cached" \/ key.kind = "reply"
                => given.provider = provider /\ Enabled(key.kind) /\ ~ShuttingDown
<1>1. Inv /\ [Next]_vars => [\A q \in Requests : Right(q)]_vars
  <2> SUFFICES ASSUME Inv, [Next]_vars, NEW q \in Requests,
                      request[q].step = "waiting", request'[q].answer.state \in Given
               PROVE  Right(q)
    BY DEF Given
  <2>1. Typed /\ Unanswered /\ KeysOfNow /\ Fenced /\ SavesGoOn /\ request'[q] # request[q]
    BY NoAnswerType DEF Inv, RuntimeInv, Unanswered
  <2>2. ASSUME NEW f \in flights, Fly(f) PROVE Right(q)
    <3>1. /\ request[q].key = f.key /\ request'[q].answer.provider = f.provider
          /\ Rightly(f, request'[q].answer.state)
      BY <2>1, <2>2, FlyAdvances, EndsRequests DEF Advances, Moves
    <3>2. CASE Current(f)
      BY <3>1, <3>2 DEF Current
    <3>3. CASE f.step = "saving" /\ request'[q].answer.state = "fresh"
      <4>1. f.key.epoch = epoch /\ f.key.kind = "contract"
        BY <2>1, <3>3 DEF Fenced, SavesGoOn, Typed, Fitting
      <4> QED
        BY <3>1, <3>3, <4>1
    <3> QED
      BY <3>1, <3>2, <3>3 DEF Rightly, Given
  <2>3. ASSUME NEW a \in Requests, Calls(a) PROVE FALSE
    BY <2>1, <2>3, CallSteps, NoAnswerType
  <2>4. CASE WriterInvalidates \/ TerminateInvalidates
    BY <2>1, <2>4 DEF WriterInvalidates, TerminateInvalidates
  <2>5. CASE Elsewhere
    BY <2>1, <2>5, ElsewhereTypes
  <2>6. CASE UNCHANGED vars
    BY <2>1, <2>6 DEF vars
  <2> QED
    BY <2>2, <2>3, <2>4, <2>5, <2>6, StepKinds
<1> QED
  BY <1>1, Invariant, PTL DEF Spec, HandedOutIsCurrent
=============================================================================
