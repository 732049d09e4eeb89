--------------------------- MODULE PolicyLockProofs ---------------------------
(***************************************************************************)
(* What the lock buys. When requests wait for initialize and no coroutine  *)
(* works outside _lock (BootGate, no Viewers), the four keys behave as one *)
(* register: PolicyStore implements PolicyRegister, whatever crashes and   *)
(* cancelled operations happen in between.                                 *)
(***************************************************************************)
EXTENDS PolicyStoreProofs

(***************************************************************************)
(* The inductive invariant. At most one coroutine runs, so that everything *)
(* a coroutine remembers is still true of the keys when it uses it.        *)
(***************************************************************************)
Alone ==
    /\ \A p, q \in Procs : ~Idle(p) /\ ~Idle(q) => p = q
    /\ \A p \in Procs :
          /\ Idle(p) => frame[p] = IdleFrame
          /\ ~Idle(p) => IF p = Initializer THEN plugin = "booting"
                                            ELSE lock = p /\ plugin = "up"

\* The list is not longer than the cap, and nothing is left of what it dropped.
Blank(rows) == \A v \in Versions : Present(rows[v]) \/ rows[v] = NoRow

Capped(rows) == Trim(rows) = rows /\ Blank(rows)

Keys ==
    /\ Capped(policy)
    /\ pending # None => Capped(pending)
    /\ plugin = "up" /\ pending = None =>
          /\ OfferAgrees(published, PublishedOffer(policy))
          /\ OfferAgrees(candidate, CandidateOffer(policy))

\* How far a replay has come.
Replay(f) ==
    /\ f.phase = "recover" => pending # None
    /\ f.phase = "read" => pending = None
    /\ f.phase \in Replaying => pending = f.snap
    /\ f.phase \in {"cand", "pol", "del"} => published = PublishedOffer(f.snap)
    /\ f.phase \in {"pol", "del"} => candidate = CandidateOffer(f.snap)
    /\ f.phase = "del" => policy = f.snap

\* The rows, the revision, the samples and the version a coroutine relies on.
Appending(f) == f.call \in {"load_append", "save_append"} /\ f.batch # <<>>

Learning == {"load_versions", "analyze", "load_append", "save_append",
             "load_outdated", "save_outdated"}

Remembers(f) ==
    /\ f.call \in (Saves \ {"save_empty"}) \cup {"analyze"} /\ f.phase = "start"
          => f.rows = Register
    /\ f.call = "load_revision" => f.rows = Register
    /\ f.expected # None /\ (f.call = "load_update" \/ (f.call = "save_update" /\ f.phase = "start"))
          => f.expected.rows = Register
    /\ f.call \in Learning => f.seen = data
    /\ Appending(f) => IsNextVersion(Register, f.version)
    /\ f.call = "save_empty" /\ f.phase # "start" => Register = NoRows
    /\ f.call \in {"clear_published", "clear_candidate"}
          => pending = None /\ policy = NoRows

\* The page of the console, and the one an update was decided on.
Honest(f) == f.expected # None => f.expected.rows = f.expected.revision

Pages == PageIsConsistent /\ \A p \in Procs : Honest(frame[p])

LockInv == Alone /\ Keys /\ Pages /\ \A p \in Procs : Replay(frame[p]) /\ Remembers(frame[p])

(***************************************************************************)
(* Facts about frames                                                      *)
(***************************************************************************)
(* A frame with the control of a call replaced keeps what it remembers.    *)
SameMemory(g, f) ==
    /\ g.rows = f.rows /\ g.batch = f.batch /\ g.version = f.version
    /\ g.seen = f.seen /\ g.expected = f.expected

LEMMA ReturnFrame ==
    ASSUME TypeInv, NEW p \in Procs, NEW f \in Frame, Return(p, f)
    PROVE  /\ \A q \in Procs : q # p => frame'[q] = frame[q]
           /\ NextCall(f) = "idle" => frame'[p] = IdleFrame
           /\ NextCall(f) # "idle" =>
                /\ frame'[p].call = NextCall(f) /\ frame'[p].phase = "start"
                /\ SameMemory(frame'[p], f) /\ UNCHANGED <<lock, plugin>>
<1>1. CASE NextCall(f) = "idle"
  BY <1>1 DEF Return, Leave, TypeInv, TypeOK
<1>2. CASE NextCall(f) # "idle"
  <2> DEFINE g == [f EXCEPT !.call = NextCall(f), !.phase = "start"]
  <2>1. g.call = NextCall(f) /\ g.phase = "start" /\ SameMemory(g, f)
    BY DEF Frame, SameMemory
  <2>2. frame' = [frame EXCEPT ![p] = g] /\ UNCHANGED <<lock, plugin>>
    BY <1>2 DEF Return
  <2> HIDE DEF g
  <2> QED
    BY <1>2, <2>1, <2>2 DEF TypeInv, TypeOK
<1> QED
  BY <1>1, <1>2

LEMMA GotoFrame ==
    ASSUME TypeInv, NEW p \in Procs, NEW phase \in Phases, Goto(p, phase)
    PROVE  /\ \A q \in Procs : q # p => frame'[q] = frame[q]
           /\ frame'[p].call = frame[p].call /\ frame'[p].phase = phase
           /\ frame'[p].snap = frame[p].snap
           /\ SameMemory(frame'[p], frame[p]) /\ UNCHANGED <<lock, plugin>>
BY DEF Goto, Frame, SameMemory, TypeInv, TypeOK

(* Every step moves one coroutine that runs: its operation goes on under   *)
(* the same lock, or ends.                                                 *)
LEMMA StepMovesOne ==
    ASSUME TypeInv, NEW p \in Procs, Step(p)
    PROVE  /\ ~Idle(p)
           /\ \A q \in Procs : q # p => frame'[q] = frame[q]
           /\ \/ frame'[p] = IdleFrame
              \/ /\ frame'[p].call # "idle" /\ UNCHANGED <<lock, plugin>>
                 /\ frame'[p].expected = frame[p].expected
<1> DEFINE f == frame[p]
<1>0. f \in Frame
  BY DEF TypeInv, TypeOK
<1>1. ~Idle(p)
  BY DEF Step, Recover, GetIntent, GetNoIntent, PutPublished, PutCandidate, PutPolicy,
         DeleteIntent, ReadPolicies, CheckRevision, SendPage, PutIntent, RefuseUpdate,
         Analyze, Import, ClearSamples, ClearPublished, ClearCandidate,
         Recovering, At, Idle, Loads, Saves
<1> DEFINE Moved == /\ \A q \in Procs : q # p => frame'[q] = frame[q]
                    /\ \/ frame'[p] = IdleFrame
                       \/ /\ frame'[p].call # "idle" /\ UNCHANGED <<lock, plugin>>
                          /\ frame'[p].expected = f.expected
<1>2. ASSUME NEW g \in Frame, g.expected = f.expected, Return(p, g) PROVE Moved
  BY <1>2, ReturnFrame DEF SameMemory
<1>3. ASSUME Leave(p) PROVE Moved
  BY <1>3 DEF Leave, TypeInv, TypeOK
<1>4. ASSUME NEW ph \in Phases, Goto(p, ph) PROVE Moved
  BY <1>1, <1>4, GotoFrame DEF Idle, SameMemory
<1>5. ASSUME Recovered(p) PROVE Moved
  BY <1>0, <1>2, <1>4, <1>5 DEF Recovered, Phases
<1>6. CASE GetIntent(p)
  BY <1>1, <1>6 DEF GetIntent, Idle, Frame, TypeInv, TypeOK
<1>7. CASE GetNoIntent(p) \/ DeleteIntent(p)
  BY <1>1, <1>5, <1>7 DEF GetNoIntent, DeleteIntent
<1>8. CASE PutPublished(p) \/ PutCandidate(p) \/ PutPolicy(p)
  BY <1>1, <1>4, <1>8 DEF PutPublished, PutCandidate, PutPolicy, Phases
<1>9. CASE ReadPolicies(p)
  <2>1. /\ [f EXCEPT !.rows = Trim(policy)] \in Frame
        /\ [f EXCEPT !.rows = Trim(policy)].expected = f.expected
    BY <1>0, TrimType DEF Frame, TypeInv, TypeOK
  <2> QED
    BY <1>1, <1>2, <1>9, <2>1 DEF ReadPolicies
<1>10. CASE CheckRevision(p) \/ SendPage(p) \/ RefuseUpdate(p)
             \/ ClearSamples(p) \/ ClearPublished(p) \/ ClearCandidate(p)
  BY <1>0, <1>1, <1>2, <1>3, <1>10
     DEF CheckRevision, SendPage, RefuseUpdate, ClearSamples, ClearPublished, ClearCandidate
<1>11. CASE PutIntent(p)
  <2>1. Appended(f) \in Frame /\ Appended(f).call = f.call
    BY <1>0, <1>11, AppendedType DEF PutIntent, At, TypeInv
  <2> DEFINE g == [Appended(f) EXCEPT !.phase = "recover"]
  <2>2. g.call = f.call /\ g.expected = f.expected
    BY <1>0, <2>1 DEF Frame, Appended
  <2>3. frame' = [frame EXCEPT ![p] = g] /\ UNCHANGED <<lock, plugin>>
    BY <1>11 DEF PutIntent
  <2> HIDE DEF g
  <2> QED
    BY <1>1, <2>2, <2>3 DEF Idle, TypeInv, TypeOK
<1>12. CASE Analyze(p)
  <2>1. UNCHANGED <<lock, plugin>>
    BY <1>12 DEF Analyze
  <2>2. CASE frame' = [frame EXCEPT ![p].call = "load_offers"]
    BY <1>0, <1>1, <2>1, <2>2 DEF Frame, TypeInv, TypeOK
  <2>3. ASSUME NEW first, NEW ev,
               frame' = [frame EXCEPT ![p].call = "load_append",
                                      ![p].version = first, ![p].batch = ev]
        PROVE  Moved
    BY <1>0, <2>1, <2>3 DEF Frame, TypeInv, TypeOK
  <2> QED
    BY <1>1, <1>12, <2>2, <2>3 DEF Analyze
<1>13. CASE Import(p)
  <2>1. UNCHANGED plugin
    BY <1>13 DEF Import
  <2>2. Leave(p) \/ (frame' = [frame EXCEPT ![p].call = "load_stale"] /\ UNCHANGED lock)
    BY <1>13 DEF Import
  <2>3. CASE frame' = [frame EXCEPT ![p].call = "load_stale"] /\ UNCHANGED lock
    BY <1>0, <1>1, <2>1, <2>3 DEF Frame, TypeInv, TypeOK
  <2> QED
    BY <1>1, <1>3, <2>2, <2>3
<1> QED
  BY <1>1, <1>6, <1>7, <1>8, <1>9, <1>10, <1>11, <1>12, <1>13 DEF Step, Recover
(***************************************************************************)
(* Preservation                                                            *)
(***************************************************************************)
LEMMA IdleRemembersNothing ==
    ASSUME NEW q \in Procs, frame'[q] = IdleFrame
    PROVE  Replay(frame[q])' /\ Remembers(frame[q])'
BY DEF IdleFrame, Replay, Remembers, Replaying, Appending, Learning, Saves, Loads

LEMMA TrimNoRows == Trim(NoRows) = NoRows
<1>1. Trim(NoRows) \in RowMap /\ \A v \in Versions : Trim(NoRows)[v] = NoRows[v]
  BY NoRowsType, TrimType DEF NoRows
<1> QED
  BY <1>1, NoRowsType DEF RowMap

(* Every edit leaves absent records blank, and so does the cap.            *)
LEMMA EditsStayBlank ==
    ASSUME NEW rows \in RowMap, Blank(rows)
    PROVE  /\ \A v \in Versions, s \in Statuses :
                  Accepts(rows[v], s) => Blank(WithStatus(rows, v, s))
           /\ \A v \in Versions, row \in Row : Present(row) => Blank([rows EXCEPT ![v] = row])
           /\ Blank(MarkAll(rows))
           /\ \A d \in Fingerprints : Blank(MarkOutdated(rows, d))
           /\ Blank(Trim(rows))
<1>1. ASSUME NEW v \in Versions, NEW s \in Statuses, Accepts(rows[v], s)
      PROVE  Blank(WithStatus(rows, v, s))
  <2>1. \A w \in Versions : w # v => WithStatus(rows, v, s)[w] = rows[w]
    BY DEF WithStatus, RowMap
  <2>2. WithStatus(rows, v, s)[v].status = s
    BY DEF WithStatus, RowMap, Row
  <2>3. s # "absent"
    BY DEF Statuses
  <2> QED
    BY <2>1, <2>2, <2>3 DEF Blank, Present
<1>2. ASSUME NEW v \in Versions, NEW row \in Row, Present(row)
      PROVE  Blank([rows EXCEPT ![v] = row])
  BY <1>2 DEF Blank, RowMap
<1>3. Blank(MarkAll(rows))
  <2>1. ASSUME NEW v \in Versions PROVE Present(MarkAll(rows)[v]) \/ MarkAll(rows)[v] = NoRow
    <3>1. rows[v] \in Row
      BY DEF RowMap
    <3>2. CASE Present(rows[v])
      <4>1. MarkAll(rows)[v] = [rows[v] EXCEPT !.stale = TRUE]
        BY <3>2 DEF MarkAll
      <4> QED
        BY <3>1, <3>2, <4>1 DEF Present, Row
    <3>3. CASE ~Present(rows[v])
      BY <3>3 DEF MarkAll, Blank
    <3> QED
      BY <3>2, <3>3
  <2> QED
    BY <2>1 DEF Blank
<1>4. ASSUME NEW d \in Fingerprints PROVE Blank(MarkOutdated(rows, d))
  <2>1. ASSUME NEW v \in Versions
        PROVE  Present(MarkOutdated(rows, d)[v]) \/ MarkOutdated(rows, d)[v] = NoRow
    <3>1. rows[v] \in Row
      BY DEF RowMap
    <3>2. CASE Outdated(rows[v], d)
      <4>1. MarkOutdated(rows, d)[v] = [rows[v] EXCEPT !.stale = TRUE] /\ Present(rows[v])
        BY <3>2 DEF MarkOutdated, Outdated
      <4> QED
        BY <3>1, <4>1 DEF Present, Row
    <3>3. CASE ~Outdated(rows[v], d)
      BY <3>3 DEF MarkOutdated, Blank
    <3> QED
      BY <3>2, <3>3
  <2> QED
    BY <2>1 DEF Blank
<1>5. Blank(Trim(rows))
  BY TrimType DEF Blank
<1> QED
  BY <1>1, <1>2, <1>3, <1>4, <1>5

LEMMA NoRowsBlank == Blank(NoRows) /\ Trim(NoRows) = NoRows
BY TrimNoRows DEF Blank, NoRows

LEMMA RegisterType == TypeInv => Register \in RowMap
BY TrimType DEF TypeInv, TypeOK, Register

LEMMA AloneNext ==
    ASSUME BootGate = TRUE, Viewers = {}, TypeInv, Alone, [Next]_vars
    PROVE  Alone'
<1>0. Procs = Handlers \cup {Initializer} /\ None \notin Procs /\ Initializer \notin Handlers
  BY StoreAssumption DEF Procs
<1>1. ASSUME NEW p \in Procs, Step(p) PROVE Alone'
  <2>1. \A q \in Procs : q # p => frame[q] = IdleFrame /\ frame'[q] = IdleFrame
    BY <1>1, StepMovesOne DEF Alone
  <2>2. CASE frame'[p] = IdleFrame
    <3>1. \A q \in Procs : frame'[q] = IdleFrame
      BY <2>1, <2>2
    <3> QED
      BY <3>1, IdleFields DEF Alone, Idle
  <2>3. CASE frame'[p].call # "idle" /\ UNCHANGED <<lock, plugin>>
    BY <1>1, <2>1, <2>3, StepMovesOne, IdleFields DEF Alone, Idle
  <2> QED
    BY <1>1, <2>2, <2>3, StepMovesOne
<1>2. ASSUME NEW p \in Procs, NEW f, BeginLocked(p, f), f.call # "idle" PROVE Alone'
  <2>1. /\ frame' = [frame EXCEPT ![p] = f] /\ lock' = p /\ plugin = "up" /\ lock = None
        /\ UNCHANGED plugin /\ p \in Handlers
    BY <1>2 DEF BeginLocked, Serving
  <2>2. \A q \in Procs : Idle(q)
    BY <1>0, <2>1 DEF Alone
  <2>3. \A q \in Procs : frame'[q] = IF q = p THEN f ELSE IdleFrame
    BY <2>1, <2>2 DEF Alone, TypeInv, TypeOK
  <2> QED
    BY <1>0, <1>2, <2>1, <2>3, IdleFields DEF Alone, Idle
<1>3. ASSUME NEW p \in Procs, Begin(p) PROVE Alone'
  <2>1. CASE BeginUpdate(p)
    <3>1. PICK v \in Versions, s \in Statuses, e \in {None} \cup {page} :
            BeginLocked(p, [IdleFrame EXCEPT
                !.call = IF e = None THEN "load_update" ELSE "check_revision",
                !.version = v, !.status = s, !.expected = e])
      BY <2>1 DEF BeginUpdate
    <3> DEFINE g == [IdleFrame EXCEPT
                        !.call = IF e = None THEN "load_update" ELSE "check_revision",
                        !.version = v, !.status = s, !.expected = e]
    <3>2. g.call # "idle"
      BY DEF IdleFrame
    <3> HIDE DEF g
    <3> QED
      BY <1>2, <3>1, <3>2 DEF g
  <2>2. CASE BeginAnalysis(p)
    <3> DEFINE g == [IdleFrame EXCEPT !.call = "load_versions", !.seen = data]
    <3>1. g.call # "idle"
      BY DEF IdleFrame
    <3> HIDE DEF g
    <3> QED
      BY <1>2, <2>2, <3>1 DEF BeginAnalysis, g
  <2>3. ASSUME NEW c \in {"import", "clear_samples", "load_page"}
        PROVE  [IdleFrame EXCEPT !.call = c].call # "idle"
    BY DEF IdleFrame
  <2>4. CASE BeginIngest(p) \/ BeginReset(p) \/ BeginView(p)
    BY <1>2, <2>3, <2>4 DEF BeginIngest, BeginReset, BeginView
  <2>5. ~BeginOverview(p)
    BY DEF BeginOverview
  <2> QED
    BY <1>3, <2>1, <2>2, <2>4, <2>5 DEF Begin, Enter
<1>4. CASE StartPlugin
  <2> DEFINE g == [IdleFrame EXCEPT !.call = "load_outdated", !.seen = data]
  <2>1. /\ frame' = [frame EXCEPT ![Initializer] = g]
        /\ plugin = "down" /\ plugin' = "booting" /\ Initializer \in Procs
    BY <1>4 DEF StartPlugin, Procs
  <2>2. g.call # "idle"
    BY DEF IdleFrame
  <2> HIDE DEF g
  <2>3. \A q \in Procs : Idle(q)
    BY <2>1 DEF Alone
  <2>4. \A q \in Procs : frame'[q] = IF q = Initializer THEN g ELSE IdleFrame
    BY <2>1, <2>3 DEF Alone, TypeInv, TypeOK
  <2> QED
    BY <2>1, <2>2, <2>4, IdleFields DEF Alone, Idle
<1>5. ASSUME NEW p \in Procs, Abort(p) PROVE Alone'
  <2>1. ~Idle(p) /\ frame' = [frame EXCEPT ![p] = IdleFrame]
    BY <1>5 DEF Abort, Leave
  <2>2. \A q \in Procs : frame'[q] = IdleFrame
    BY <2>1 DEF Alone, TypeInv, TypeOK
  <2> QED
    BY <2>2, IdleFields DEF Alone, Idle
<1>6. CASE Crash
  BY <1>6, IdleFields DEF Crash, Alone, Idle
<1>7. CASE UNCHANGED vars \/ \E p \in Procs : Wait(p) \/ GiveUp(p)
  <2>1. UNCHANGED <<lock, plugin, frame>>
    BY <1>7 DEF vars, Wait, GiveUp
  <2> QED
    BY <2>1 DEF Alone, Idle
<1> QED
  BY <1>1, <1>3, <1>4, <1>5, <1>6, <1>7 DEF Next
(* A replay changes what is stored but not the register, and ends with     *)
(* three keys that describe one list.                                      *)
LEMMA RecoverLock ==
    ASSUME TypeInv, LockInv, NEW p \in Procs, Recover(p)
    PROVE  /\ Keys' /\ Replay(frame[p])' /\ Remembers(frame[p])'
           /\ Register' = Register
<1> DEFINE f == frame[p]
<1>0. /\ f \in Frame /\ Replay(f) /\ Remembers(f) /\ Keys /\ f.call # "idle"
      /\ policy \in RowMap /\ pending \in RowMap \cup {None} /\ None \notin RowMap
      /\ f.call \in Loads \cup Saves
  BY StoreAssumption DEF LockInv, TypeInv, TypeOK, Recover, GetIntent, GetNoIntent,
     PutPublished, PutCandidate, PutPolicy, DeleteIntent, Recovering, At, Loads, Saves
<1>1. CASE GetIntent(p)
  <2> DEFINE g == [f EXCEPT !.snap = pending, !.phase = "pub"]
  <2>1. /\ g.call = f.call /\ g.phase = "pub" /\ g.snap = pending /\ SameMemory(g, f)
    BY <1>0 DEF Frame, SameMemory
  <2>2. frame'[p] = g /\ UNCHANGED <<keys, data, plugin>> /\ pending # None
    BY <1>1 DEF GetIntent, TypeInv, TypeOK
  <2>3. f.call \in Loads => f.call # "save_empty" /\ f.call # "save_append" /\ f.call # "save_update"
    BY DEF Loads
  <2>4. f.call \in Saves => f.phase = "recover"
    BY <1>1 DEF GetIntent, Recovering, At, Loads, Saves
  <2> HIDE DEF g
  <2>5. Register' = Register
    BY <2>2 DEF Register, keys
  <2>6. Keys'
    BY <1>0, <2>2 DEF Keys, keys, OfferAgrees
  <2>7. Replay(frame[p])'
    BY <2>1, <2>2 DEF Replay, keys, Replaying
  <2>8. Remembers(frame[p])'
    BY <1>0, <2>1, <2>2, <2>3, <2>4, <2>5
       DEF Remembers, SameMemory, Appending, keys, Loads, Saves
  <2> QED
    BY <2>5, <2>6, <2>7, <2>8
<1>2. CASE GetNoIntent(p)
  <2>1. f.phase # "recover" /\ pending = None /\ UNCHANGED <<keys, data>>
    BY <1>0, <1>2 DEF GetNoIntent, Replay
  <2>2. f.call \in Loads /\ f.phase = "start"
    BY <1>2, <2>1 DEF GetNoIntent, Recovering, At
  <2>3. Goto(p, "read")
    BY <1>2, <2>2 DEF GetNoIntent, Recovered
  <2>4. /\ frame'[p].call = f.call /\ frame'[p].phase = "read"
        /\ SameMemory(frame'[p], f) /\ UNCHANGED plugin
    BY <2>3, GotoFrame DEF Phases
  <2>5. Register' = Register
    BY <2>1 DEF Register, keys
  <2>6. Keys'
    BY <1>0, <2>1, <2>4 DEF Keys, keys, OfferAgrees
  <2>7. Replay(frame[p])'
    BY <2>1, <2>4 DEF Replay, keys, Replaying
  <2>8. Remembers(frame[p])'
    BY <1>0, <2>1, <2>2, <2>4, <2>5
       DEF Remembers, SameMemory, Appending, keys, Loads, Saves
  <2> QED
    BY <2>5, <2>6, <2>7, <2>8
<1>3. ASSUME NEW ph \in {"cand", "pol", "del"}, Goto(p, ph), f.phase \in Replaying,
             UNCHANGED <<pending, data>>
      PROVE  /\ frame'[p].phase = ph /\ frame'[p].snap = f.snap
             /\ pending = f.snap /\ pending # None
             /\ Register' = Register /\ Remembers(frame[p])'
  <2>1. /\ frame'[p].call = f.call /\ frame'[p].phase = ph /\ frame'[p].snap = f.snap
        /\ SameMemory(frame'[p], f)
    BY <1>3, GotoFrame DEF Phases
  <2>2. pending = f.snap /\ pending # None
    BY <1>0, <1>3 DEF Replay, Frame
  <2>3. Register' = Register
    BY <1>3, <2>2 DEF Register
  <2>4. Remembers(frame[p])'
    BY <1>0, <1>3, <2>1, <2>2, <2>3 DEF Remembers, SameMemory, Appending, Replaying, Loads, Saves
  <2> QED
    BY <2>1, <2>2, <2>3, <2>4
<1>4. CASE PutPublished(p)
  <2>1. /\ Goto(p, "cand") /\ f.phase = "pub" /\ UNCHANGED <<pending, policy, data>>
        /\ published' = PublishedOffer(f.snap)
    BY <1>4 DEF PutPublished, At
  <2> QED
    BY <1>0, <1>3, <2>1 DEF Keys, Replay, Replaying
<1>5. CASE PutCandidate(p)
  <2>1. /\ Goto(p, "pol") /\ f.phase = "cand" /\ UNCHANGED <<pending, published, policy, data>>
        /\ candidate' = CandidateOffer(f.snap)
    BY <1>5 DEF PutCandidate, At
  <2> QED
    BY <1>0, <1>3, <2>1 DEF Keys, Replay, Replaying
<1>6. CASE PutPolicy(p)
  <2>1. /\ Goto(p, "del") /\ f.phase = "pol" /\ UNCHANGED <<pending, published, candidate, data>>
        /\ policy' = f.snap
    BY <1>6 DEF PutPolicy, At
  <2> QED
    BY <1>0, <1>3, <2>1 DEF Keys, Replay, Replaying
<1>7. CASE DeleteIntent(p)
  <2>1. /\ f.phase = "del" /\ pending' = None /\ Recovered(p)
        /\ UNCHANGED <<published, candidate, policy, data>>
    BY <1>7 DEF DeleteIntent, At
  <2>2. /\ pending = f.snap /\ policy = f.snap /\ pending # None
        /\ Capped(policy) /\ Trim(policy) = policy
        /\ published = PublishedOffer(policy) /\ candidate = CandidateOffer(policy)
    BY <1>0, <2>1 DEF Replay, Replaying, Keys, Capped, Frame
  <2>3. Register' = Register /\ Register = policy
    BY <2>1, <2>2 DEF Register
  <2>4. Keys'
    BY <2>1, <2>2 DEF Keys, OfferAgrees
  <2>5. CASE f.call \in Loads
    <3>1. /\ frame'[p].call = f.call /\ frame'[p].phase = "read"
          /\ SameMemory(frame'[p], f)
      BY <2>1, <2>5, GotoFrame DEF Recovered, Phases
    <3>2. Replay(frame[p])'
      BY <2>1, <3>1 DEF Replay, Replaying
    <3>3. Remembers(frame[p])'
      BY <1>0, <2>1, <2>3, <2>5, <3>1 DEF Remembers, SameMemory, Appending, Loads, Saves
    <3> QED
      BY <2>3, <2>4, <3>2, <3>3
  <2>6. CASE f.call \in Saves
    <3>1. Return(p, f)
      BY <2>1, <2>6 DEF Recovered, Loads, Saves
    <3>2. CASE NextCall(f) = "idle"
      BY <1>0, <2>3, <2>4, <3>1, <3>2, ReturnFrame, IdleRemembersNothing
    <3>3. CASE NextCall(f) # "idle"
      <4>1. /\ frame'[p].call = NextCall(f) /\ frame'[p].phase = "start"
            /\ SameMemory(frame'[p], f)
        BY <1>0, <3>1, <3>3, ReturnFrame
      <4>2. \/ NextCall(f) = "load_offers"
            \/ NextCall(f) = "load_append" /\ f.call = "save_append"
            \/ NextCall(f) = "clear_published" /\ f.call = "save_empty"
        BY <2>6, <3>3 DEF NextCall, After, Saves
      <4>3. Replay(frame[p])'
        BY <4>1 DEF Replay, Replaying
      <4>4. Remembers(frame[p])'
        BY <1>0, <2>1, <2>3, <4>1, <4>2
           DEF Remembers, SameMemory, Appending, Learning, Loads, Saves
      <4> QED
        BY <2>3, <2>4, <4>3, <4>4
    <3> QED
      BY <3>2, <3>3
  <2> QED
    BY <1>0, <2>5, <2>6
<1> QED
  BY <1>1, <1>2, <1>4, <1>5, <1>6, <1>7 DEF Recover
(* The next version of a list from which one was just appended.            *)
LEMMA AppendedVersion ==
    ASSUME NEW rows \in RowMap, NEW v \in Versions, NEW row \in Row,
           Present(row), IsNextVersion(rows, v), v + 1 \in Versions
    PROVE  IsNextVersion(Trim([rows EXCEPT ![v] = row]), v + 1)
<1> DEFINE longer == [rows EXCEPT ![v] = row]
<1>1. longer \in RowMap /\ longer[v] = row
  BY DEF RowMap
<1>2. PresentIn(longer) \subseteq PresentIn(rows) \cup {v}
  BY DEF PresentIn, RowMap
<1>3. \A w \in PresentIn(longer) : w <= v
  BY <1>2 DEF IsNextVersion, Versions, PresentIn
<1> HIDE DEF longer
<1>4. Trim(longer)[v] = row
  BY <1>1, <1>3, TrimKeepsNewest
<1>5. PresentIn(Trim(longer)) \subseteq PresentIn(longer)
  BY <1>1, TrimType
<1>6. v \in PresentIn(Trim(longer))
  BY <1>4 DEF PresentIn
<1>7. \A w \in PresentIn(Trim(longer)) : w < v + 1
  BY <1>3, <1>5 DEF Versions, PresentIn
<1>8. (v + 1) - 1 = v
  BY DEF Versions
<1>9. IsNextVersion(Trim(longer), v + 1)
  BY <1>6, <1>7, <1>8 DEF IsNextVersion
<1> QED
  BY <1>9 DEF longer

(* The other steps of an operation.                                        *)
LEMMA StepLock ==
    ASSUME TypeInv, BackedInv, LockInv, NEW p \in Procs, Step(p)
    PROVE  Keys' /\ Replay(frame[p])' /\ Remembers(frame[p])'
<1> DEFINE f == frame[p]
<1>0. /\ f \in Frame /\ BatchFits(f) /\ Replay(f) /\ Remembers(f) /\ Keys
      /\ policy \in RowMap /\ pending \in RowMap \cup {None} /\ None \notin RowMap
      /\ p = Initializer => f.call \in {"idle", "load_outdated", "save_outdated"}
  BY StoreAssumption DEF LockInv, BackedInv, BackedFrame, TypeInv, TypeOK
<1>1. CASE Recover(p)
  BY <1>1, RecoverLock
<1>2. ASSUME UNCHANGED <<keys, plugin>>
      PROVE  Keys' /\ Register' = Register
  BY <1>0, <1>2 DEF Keys, keys, OfferAgrees, Register
<1>3. CASE ReadPolicies(p)
  <2> DEFINE g == [f EXCEPT !.rows = Trim(policy)]
  <2>1. /\ f.call \in Loads \ {"check_revision", "load_revision"} /\ f.phase = "read"
        /\ Return(p, g) /\ UNCHANGED <<keys, data>>
    BY <1>3 DEF ReadPolicies, At
  <2>2. /\ g \in Frame /\ g.call = f.call /\ g.rows = Trim(policy) /\ g.batch = f.batch
        /\ g.version = f.version /\ g.seen = f.seen /\ g.expected = f.expected
    BY <1>0, TrimType DEF Frame
  <2> HIDE DEF g
  <2>3. pending = None /\ Register = Trim(policy)
    BY <1>0, <2>1 DEF Replay, Register
  <2>4. NextCall(g) = IF f.call = "load_overview" THEN "idle"
                      ELSE IF f.call = "load_update" THEN "save_update"
                      ELSE IF f.call = "load_offers" THEN "save_offers"
                      ELSE IF f.call = "load_versions" THEN "analyze"
                      ELSE IF f.call = "load_append" THEN "save_append"
                      ELSE IF f.call = "load_stale" THEN "save_stale"
                      ELSE IF f.call = "load_outdated" THEN "save_outdated"
                      ELSE "load_revision"
    BY <2>1, <2>2 DEF NextCall, After, Loads
  <2>5. CASE f.call = "load_overview"
    <3>1. frame'[p] = IdleFrame
      BY <2>1, <2>2, <2>4, <2>5, ReturnFrame
    <3>2. UNCHANGED plugin
      BY <1>0, <2>1, <2>2, <2>4, <2>5 DEF Return
    <3> QED
      BY <1>2, <2>1, <3>1, <3>2, IdleRemembersNothing
  <2>6. CASE f.call # "load_overview"
    <3>1. /\ frame'[p].call = NextCall(g) /\ frame'[p].phase = "start"
          /\ SameMemory(frame'[p], g) /\ UNCHANGED plugin
      BY <2>1, <2>2, <2>4, <2>6, ReturnFrame
    <3>2. Keys' /\ Register' = Register
      BY <1>2, <2>1, <3>1
    <3>3. Replay(frame[p])'
      BY <3>1 DEF Replay, Replaying
    <3>4. Remembers(frame[p])'
      BY <1>0, <2>1, <2>2, <2>3, <2>4, <2>6, <3>1, <3>2
         DEF Remembers, SameMemory, Appending, Learning, Loads, Saves
    <3> QED
      BY <3>2, <3>3, <3>4
  <2> QED
    BY <2>5, <2>6
<1>4. CASE CheckRevision(p)
  <2>1. f.call = "check_revision" /\ f.phase = "read" /\ UNCHANGED <<keys, data>> /\ p # Initializer
    BY <1>0, <1>4 DEF CheckRevision, At
  <2>2. CASE Leave(p) /\ UNCHANGED plugin
    <3>1. frame'[p] = IdleFrame
      BY <2>2 DEF Leave, TypeInv, TypeOK
    <3> QED
      BY <1>2, <2>1, <2>2, <3>1, IdleRemembersNothing
  <2>3. CASE f.expected.revision = Trim(policy) /\ Return(p, f)
    <3>1. NextCall(f) = "load_update"
      BY <2>1 DEF NextCall, After
    <3>2. /\ frame'[p].call = "load_update" /\ frame'[p].phase = "start"
          /\ SameMemory(frame'[p], f) /\ UNCHANGED plugin
      BY <1>0, <2>3, <3>1, ReturnFrame
    <3>3. Keys' /\ Register' = Register
      BY <1>2, <2>1, <3>2
    <3>4. f.expected # None => Register = f.expected.rows
      BY <1>0, <2>1, <2>3 DEF Replay, Register, LockInv, Pages, Honest
    <3>5. Replay(frame[p])' /\ Remembers(frame[p])'
      BY <3>2, <3>3, <3>4 DEF Replay, Replaying, Remembers, SameMemory, Appending, Learning, Loads, Saves
    <3> QED
      BY <3>3, <3>5
  <2> QED
    BY <1>4, <2>2, <2>3 DEF CheckRevision
<1>5. ASSUME Return(p, f), NextCall(f) = "idle", UNCHANGED keys, p # Initializer
      PROVE  Keys' /\ Replay(frame[p])' /\ Remembers(frame[p])'
  <2>1. frame'[p] = IdleFrame /\ UNCHANGED plugin
    BY <1>0, <1>5, ReturnFrame DEF Return
  <2> QED
    BY <1>2, <1>5, <2>1, IdleRemembersNothing
<1>6. CASE SendPage(p)
  <2>1. f.call = "load_revision" /\ UNCHANGED keys /\ p # Initializer /\ Return(p, f)
    BY <1>0, <1>6 DEF SendPage, At
  <2>2. NextCall(f) = "idle"
    BY <2>1 DEF NextCall, After
  <2> QED
    BY <1>5, <2>1, <2>2
<1>7. CASE PutIntent(p)
  <2> DEFINE g == [Appended(f) EXCEPT !.phase = "recover"]
  <2>1. /\ f.call \in Saves /\ f.phase = "start"
        /\ f.call = "save_update" => UpdateAccepted(f)
        /\ pending' = Trim(Edited(f)) /\ frame' = [frame EXCEPT ![p] = g]
        /\ UNCHANGED <<published, candidate, policy, data, plugin>>
    BY <1>7 DEF PutIntent, At
  <2>2. Edited(f) \in RowMap
    BY <1>0, <2>1, EditedType DEF BatchFits
  <2>3. pending' \in RowMap /\ Trim(pending') = pending' /\ pending' # None /\ Register' = pending'
    BY <1>0, <2>1, <2>2, TrimType, TrimTwice DEF Register
  <2>4. /\ Appended(f) \in Frame
        /\ Appended(f).batch # <<>> =>
             Appended(f).version + Len(Appended(f).batch) - 1 \in Versions
    BY <1>0, <2>1, AppendedType
  <2>5. /\ g.call = f.call /\ g.phase = "recover" /\ g.rows = f.rows /\ g.seen = f.seen
        /\ g.batch = Appended(f).batch /\ g.version = Appended(f).version
    BY <1>0, <2>4 DEF Appended, Frame
  <2>6. frame'[p] = g
    BY <2>1 DEF TypeInv, TypeOK
  <2> HIDE DEF g
  <2>7. Keys'
    <3>1. f.rows \in RowMap /\ f.version \in Versions /\ f.status \in Statuses
            /\ f.seen \in Fingerprints /\ f.batch \in Seq(Evidence)
      BY <1>0 DEF Frame
    <3>2. f.call # "save_empty" => Blank(f.rows)
      <4>1. Blank(Register)
        BY <1>0, EditsStayBlank DEF Keys, Capped, Register
      <4> QED
        BY <1>0, <2>1, <4>1 DEF Remembers
    <3>3. Blank(Edited(f))
      <4>1. CASE f.call = "save_update"
        BY <2>1, <3>1, <3>2, <4>1, EditsStayBlank DEF Edited, UpdateAccepted
      <4>2. CASE f.call = "save_append"
        <5> DEFINE row == CandidateRow(Head(f.batch), f.seen)
        <5>1. Head(f.batch) \in Evidence
          BY <1>0, <2>1, <3>1, <4>2 DEF BatchFits
        <5>2. row \in Row /\ Present(row)
          BY <3>1, <5>1 DEF CandidateRow, Row, Statuses, Present
        <5>3. Edited(f) = [f.rows EXCEPT ![f.version] = row]
          BY <4>2 DEF Edited
        <5> HIDE DEF row
        <5> QED
          BY <3>1, <3>2, <4>2, <5>2, <5>3, EditsStayBlank
      <4>3. CASE f.call \in {"save_stale", "save_outdated"}
        BY <3>1, <3>2, <4>3, EditsStayBlank DEF Edited
      <4>4. CASE f.call = "save_empty"
        BY <4>4, NoRowsBlank DEF Edited
      <4>5. CASE f.call = "save_offers"
        BY <3>2, <4>5 DEF Edited
      <4> QED
        BY <2>1, <4>1, <4>2, <4>3, <4>4, <4>5 DEF Saves
    <3>4. Blank(pending')
      BY <2>1, <2>2, <3>3, EditsStayBlank
    <3> QED
      BY <1>0, <2>1, <2>3, <3>4 DEF Keys, Capped
  <2>8. Replay(frame[p])'
    BY <2>3, <2>5, <2>6 DEF Replay, Replaying
  <2>9. Appending(g) => IsNextVersion(pending', g.version)
    <3> SUFFICES ASSUME f.call = "save_append", g.batch # <<>>
                 PROVE  IsNextVersion(pending', g.version)
      BY <2>1, <2>5 DEF Appending, Loads, Saves
    <3>1. f.batch \in Seq(Evidence) /\ f.batch # <<>> /\ g.batch = Tail(f.batch)
      BY <1>0, <2>1, <2>5 DEF BatchFits, Frame, Appended
    <3>2. Len(f.batch) > 1 /\ Head(f.batch) \in Evidence
      BY <3>1
    <3>3. g.version = f.version + 1 /\ f.version \in Versions
      BY <1>0, <2>5, <3>2 DEF Appended, Frame
    <3>4. g.version \in Versions
      BY <2>4, <2>5 DEF Frame
    <3>5. f.rows = Register /\ IsNextVersion(Register, f.version)
      BY <1>0, <2>1, <3>1 DEF Remembers, Appending, Saves
    <3> DEFINE row == CandidateRow(Head(f.batch), f.seen)
    <3>6. row \in Row /\ Present(row)
      BY <1>0, <3>2 DEF CandidateRow, Row, Frame, Statuses, Present
    <3>7. Edited(f) = [f.rows EXCEPT ![f.version] = row]
      BY DEF Edited
    <3> HIDE DEF row
    <3>8. f.rows \in RowMap
      BY <1>0 DEF Frame
    <3> QED
      BY <2>1, <3>3, <3>4, <3>5, <3>6, <3>7, <3>8, AppendedVersion
  <2>10. f.call = "save_empty" => pending' = NoRows
    BY <2>1, TrimNoRows DEF Edited
  <2>11. Remembers(frame[p])'
    BY <1>0, <2>1, <2>3, <2>5, <2>6, <2>9, <2>10
       DEF Remembers, Appending, Learning, Loads, Saves
  <2> QED
    BY <2>7, <2>8, <2>11
<1>8. CASE RefuseUpdate(p)
  <2>1. frame'[p] = IdleFrame /\ UNCHANGED <<keys, plugin>>
    BY <1>8 DEF RefuseUpdate, Leave, TypeInv, TypeOK
  <2> QED
    BY <1>2, <2>1, IdleRemembersNothing
<1>9. CASE Analyze(p)
  <2>1. f.call = "analyze" /\ f.phase = "start" /\ UNCHANGED <<keys, data, plugin>>
    BY <1>9 DEF Analyze, At
  <2>2. Keys' /\ Register' = Register /\ f.rows = Register /\ f.seen = data
    BY <1>0, <1>2, <2>1 DEF Remembers, Learning
  <2>3. CASE frame' = [frame EXCEPT ![p].call = "load_offers"]
    <3>1. frame'[p].call = "load_offers" /\ frame'[p].phase = "start"
      BY <1>0, <2>1, <2>3 DEF Frame, TypeInv, TypeOK
    <3> QED
      BY <2>2, <3>1 DEF Replay, Replaying, Remembers, Appending, Learning, Loads, Saves
  <2>4. ASSUME NEW n \in 1 .. MaxBatch, NEW first \in Versions, NEW ev \in [1 .. n -> Evidence],
               IsNextVersion(f.rows, first),
               frame' = [frame EXCEPT ![p].call = "load_append",
                                      ![p].version = first, ![p].batch = ev]
        PROVE  Keys' /\ Replay(frame[p])' /\ Remembers(frame[p])'
    <3>1. /\ frame'[p].call = "load_append" /\ frame'[p].phase = "start"
          /\ frame'[p].version = first /\ frame'[p].seen = f.seen
      BY <1>0, <2>1, <2>4 DEF Frame, TypeInv, TypeOK
    <3>2. Replay(frame[p])'
      BY <3>1 DEF Replay, Replaying
    <3>3. Remembers(frame[p])'
      BY <2>1, <2>2, <2>4, <3>1 DEF Remembers, Appending, Learning, Loads, Saves
    <3> QED
      BY <2>2, <3>2, <3>3
  <2> QED
    BY <1>9, <2>3, <2>4 DEF Analyze
<1>10. CASE Import(p)
  <2>1. f.call = "import" /\ f.phase = "start" /\ UNCHANGED <<keys, plugin>>
    BY <1>10 DEF Import, At
  <2>2. \/ Leave(p)
        \/ frame' = [frame EXCEPT ![p].call = "load_stale"]
    BY <1>10 DEF Import
  <2>3. CASE Leave(p)
    <3>1. frame'[p] = IdleFrame
      BY <2>3 DEF Leave, TypeInv, TypeOK
    <3> QED
      BY <1>2, <2>1, <3>1, IdleRemembersNothing
  <2>4. CASE frame' = [frame EXCEPT ![p].call = "load_stale"]
    <3>1. frame'[p].call = "load_stale" /\ frame'[p].phase = "start"
      BY <1>0, <2>1, <2>4 DEF Frame, TypeInv, TypeOK
    <3>2. Replay(frame[p])' /\ Remembers(frame[p])'
      BY <3>1 DEF Replay, Replaying, Remembers, Appending, Learning, Loads, Saves
    <3> QED
      BY <1>2, <2>1, <3>2
  <2> QED
    BY <2>2, <2>3, <2>4
<1>11. CASE ClearSamples(p)
  <2>1. f.call = "clear_samples" /\ UNCHANGED keys /\ Return(p, f)
    BY <1>11 DEF ClearSamples, At
  <2>2. NextCall(f) = "save_empty"
    BY <2>1 DEF NextCall, After
  <2>3. frame'[p].call = "save_empty" /\ frame'[p].phase = "start" /\ UNCHANGED plugin
    BY <1>0, <2>1, <2>2, ReturnFrame
  <2>4. Replay(frame[p])' /\ Remembers(frame[p])'
    BY <2>3 DEF Replay, Replaying, Remembers, Appending, Learning, Loads, Saves
  <2> QED
    BY <1>2, <2>1, <2>3, <2>4
<1>12. PublishedVersions(NoRows) = {} /\ CandidateVersions(NoRows) = {}
  BY DEF PublishedVersions, CandidateVersions, NoRows, NoRow, Live, LiveStatuses
<1>13. CASE ClearPublished(p)
  <2>1. /\ f.call = "clear_published" /\ published' = None /\ Return(p, f)
        /\ UNCHANGED <<pending, candidate, policy>>
    BY <1>13 DEF ClearPublished, At
  <2>2. pending = None /\ policy = NoRows
    BY <1>0, <2>1 DEF Remembers
  <2>3. NextCall(f) = "clear_candidate"
    BY <2>1 DEF NextCall, After
  <2>4. frame'[p].call = "clear_candidate" /\ frame'[p].phase = "start" /\ UNCHANGED plugin
    BY <1>0, <2>1, <2>3, ReturnFrame
  <2>5. Keys'
    BY <1>0, <1>12, <2>1, <2>2, <2>4 DEF Keys, OfferAgrees, PublishedOffer, CandidateOffer
  <2>6. Replay(frame[p])' /\ Remembers(frame[p])'
    BY <2>1, <2>2, <2>4 DEF Replay, Replaying, Remembers, Appending, Learning, Loads, Saves
  <2> QED
    BY <2>5, <2>6
<1>14. CASE ClearCandidate(p)
  <2>1. /\ f.call = "clear_candidate" /\ candidate' = None /\ Return(p, f)
        /\ UNCHANGED <<pending, published, policy>>
    BY <1>14 DEF ClearCandidate, At
  <2>2. pending = None /\ policy = NoRows
    BY <1>0, <2>1 DEF Remembers
  <2>3. NextCall(f) = "idle" /\ p # Initializer
    BY <1>0, <2>1 DEF NextCall, After
  <2>4. frame'[p] = IdleFrame /\ UNCHANGED plugin
    BY <1>0, <2>1, <2>3, ReturnFrame DEF Return
  <2>5. Keys'
    BY <1>0, <1>12, <2>1, <2>2, <2>4 DEF Keys, OfferAgrees, PublishedOffer, CandidateOffer
  <2> QED
    BY <2>4, <2>5, IdleRemembersNothing
<1> QED
  BY <1>1, <1>3, <1>4, <1>6, <1>7, <1>8, <1>9, <1>10, <1>11, <1>13, <1>14 DEF Step

(* An operation that begins remembers nothing yet but the samples.         *)
LEMMA BeginLock ==
    ASSUME TypeInv, LockInv, Viewers = {}, NEW p \in Procs, Begin(p)
    PROVE  /\ Keys' /\ Register' = Register /\ UNCHANGED data
           /\ Idle(p) /\ \A q \in Procs : q # p => frame'[q] = frame[q]
           /\ Replay(frame[p])' /\ Remembers(frame[p])'
<1>1. ASSUME NEW f, BeginLocked(p, f), f.phase = "start", f.batch = <<>>,
             f.call \in {"load_update", "check_revision", "load_versions", "import",
                         "clear_samples", "load_page"},
             f.call = "load_update" => f.expected = None,
             f.call = "load_versions" => f.seen = data
      PROVE  /\ Keys' /\ Register' = Register /\ UNCHANGED data
             /\ Idle(p) /\ \A q \in Procs : q # p => frame'[q] = frame[q]
             /\ Replay(frame[p])' /\ Remembers(frame[p])'
  <2>1. /\ frame' = [frame EXCEPT ![p] = f] /\ Idle(p)
        /\ UNCHANGED <<pending, published, candidate, policy, data, plugin>>
    BY <1>1 DEF BeginLocked, keys
  <2>2. frame'[p] = f /\ \A q \in Procs : q # p => frame'[q] = frame[q]
    BY <2>1 DEF TypeInv, TypeOK
  <2>3. Keys' /\ Register' = Register
    BY <2>1 DEF LockInv, Keys, OfferAgrees, Register
  <2>4. Replay(frame[p])' /\ Remembers(frame[p])'
    BY <1>1, <2>1, <2>2 DEF Replay, Replaying, Remembers, Appending, Learning, Loads, Saves
  <2> QED
    BY <2>1, <2>2, <2>3, <2>4
<1>2. ASSUME NEW c \in Calls
      PROVE  LET f == [IdleFrame EXCEPT !.call = c]
             IN  f.call = c /\ f.phase = "start" /\ f.batch = <<>> /\ f.expected = None
  BY DEF IdleFrame
<1>3. CASE BeginUpdate(p)
  <2>1. PICK v \in Versions, s \in Statuses, e \in {None} \cup {page} :
          BeginLocked(p, [IdleFrame EXCEPT
              !.call = IF e = None THEN "load_update" ELSE "check_revision",
              !.version = v, !.status = s, !.expected = e])
    BY <1>3 DEF BeginUpdate
  <2> DEFINE g == [IdleFrame EXCEPT
                      !.call = IF e = None THEN "load_update" ELSE "check_revision",
                      !.version = v, !.status = s, !.expected = e]
  <2>2. /\ g.call \in {"load_update", "check_revision"} /\ g.phase = "start" /\ g.batch = <<>>
        /\ g.call = "load_update" => g.expected = None
    BY DEF IdleFrame
  <2> HIDE DEF g
  <2> QED
    BY <1>1, <2>1, <2>2 DEF g
<1>4. CASE BeginAnalysis(p)
  <2> DEFINE g == [IdleFrame EXCEPT !.call = "load_versions", !.seen = data]
  <2>1. g.call = "load_versions" /\ g.phase = "start" /\ g.batch = <<>> /\ g.seen = data
    BY DEF IdleFrame
  <2> HIDE DEF g
  <2> QED
    BY <1>1, <1>4, <2>1 DEF BeginAnalysis, g
<1>5. CASE BeginIngest(p)
  BY <1>1, <1>2, <1>5 DEF BeginIngest, Calls
<1>6. CASE BeginReset(p)
  BY <1>1, <1>2, <1>6 DEF BeginReset, Calls
<1>7. CASE BeginView(p)
  BY <1>1, <1>2, <1>7 DEF BeginView, Calls, Loads
<1> QED
  BY <1>3, <1>4, <1>5, <1>6, <1>7 DEF Begin, Enter, BeginOverview

(* A page is sent with the revision its rows belong to, and an update is    *)
(* decided on such a page.                                                  *)
LEMMA PageNext ==
    ASSUME TypeInv, LockInv, Viewers = {}, [Next]_vars
    PROVE  Pages'
<1>1. ASSUME NEW p \in Procs, SendPage(p) PROVE PageIsConsistent'
  <2>1. /\ frame[p].call = "load_revision" /\ frame[p].phase = "read"
        /\ page' = [rows |-> frame[p].rows, revision |-> Trim(policy)]
    BY <1>1 DEF SendPage, At
  <2>2. frame[p].rows = Register /\ pending = None
    BY <2>1 DEF LockInv, Remembers, Replay
  <2> QED
    BY <2>1, <2>2 DEF PageIsConsistent, Register
<1>2. UNCHANGED page \/ \E p \in Procs : SendPage(p)
  BY DEF Next, StartPlugin, Crash, Begin, Enter, BeginUpdate, BeginAnalysis, BeginIngest, BeginReset,
         BeginView, BeginOverview, BeginLocked, Wait, GiveUp, Step, Recover, GetIntent, GetNoIntent,
         PutPublished, PutCandidate, PutPolicy, DeleteIntent, ReadPolicies, CheckRevision,
         PutIntent, RefuseUpdate, Analyze, Import, ClearSamples, ClearPublished,
         ClearCandidate, Abort, vars
<1>3. PageIsConsistent'
  BY <1>1, <1>2 DEF LockInv, Pages, PageIsConsistent
<1>4. ASSUME NEW q \in Procs, frame'[q] = IdleFrame \/ frame'[q].expected = frame[q].expected
      PROVE  Honest(frame[q])'
  BY <1>4 DEF LockInv, Pages, Honest, IdleFrame
<1>5. ASSUME NEW p \in Procs, Begin(p) PROVE \A q \in Procs : Honest(frame[q])'
  <2>1. ASSUME NEW f, BeginLocked(p, f), f.expected \in {None} \cup {page}
        PROVE  \A q \in Procs : Honest(frame[q])'
    <3>1. frame'[p] = f /\ \A q \in Procs : q # p => frame'[q] = frame[q]
      BY <2>1 DEF BeginLocked, TypeInv, TypeOK
    <3>2. Honest(frame[p])'
      BY <2>1, <3>1 DEF LockInv, Pages, PageIsConsistent, Honest
    <3> QED
      BY <1>4, <3>1, <3>2
  <2>2. CASE BeginUpdate(p)
    <3>1. PICK v \in Versions, s \in Statuses, e \in {None} \cup {page} :
            BeginLocked(p, [IdleFrame EXCEPT
                !.call = IF e = None THEN "load_update" ELSE "check_revision",
                !.version = v, !.status = s, !.expected = e])
      BY <2>2 DEF BeginUpdate
    <3> DEFINE g == [IdleFrame EXCEPT
                        !.call = IF e = None THEN "load_update" ELSE "check_revision",
                        !.version = v, !.status = s, !.expected = e]
    <3>2. g.expected = e
      BY DEF IdleFrame
    <3> HIDE DEF g
    <3> QED
      BY <2>1, <3>1, <3>2 DEF g
  <2>4. [IdleFrame EXCEPT !.call = "load_versions", !.seen = data].expected = None
    BY DEF IdleFrame
  <2>5. ASSUME NEW c PROVE [IdleFrame EXCEPT !.call = c].expected = None
    BY DEF IdleFrame
  <2>6. CASE BeginAnalysis(p)
    BY <2>1, <2>4, <2>6 DEF BeginAnalysis
  <2>7. CASE BeginIngest(p) \/ BeginReset(p) \/ BeginView(p)
    BY <2>1, <2>5, <2>7 DEF BeginIngest, BeginReset, BeginView
  <2> QED
    BY <1>5, <2>2, <2>6, <2>7 DEF Begin, Enter, BeginOverview
<1>6. ASSUME NEW p \in Procs, Step(p) PROVE \A q \in Procs : Honest(frame[q])'
  BY <1>4, <1>6, StepMovesOne
<1>7. ASSUME StartPlugin PROVE \A q \in Procs : Honest(frame[q])'
  <2>1. [IdleFrame EXCEPT !.call = "load_outdated", !.seen = data].expected = None
    BY DEF IdleFrame
  <2>2. /\ frame'[Initializer].expected = None
        /\ \A q \in Procs : q # Initializer => frame'[q] = frame[q]
    BY <1>7, <2>1 DEF StartPlugin, TypeInv, TypeOK, Procs
  <2>3. Honest(frame[Initializer])'
    BY <2>2 DEF Honest
  <2> QED
    BY <1>4, <2>2, <2>3
<1>8. ASSUME NEW p \in Procs, Abort(p) PROVE \A q \in Procs : Honest(frame[q])'
  BY <1>4, <1>8 DEF Abort, Leave, TypeInv, TypeOK
<1>9. ASSUME Crash PROVE \A q \in Procs : Honest(frame[q])'
  BY <1>4, <1>9 DEF Crash
<1>10. ASSUME UNCHANGED vars \/ \E p \in Procs : Wait(p) \/ GiveUp(p)
       PROVE  \A q \in Procs : Honest(frame[q])'
  <2>1. UNCHANGED frame
    BY <1>10 DEF vars, Wait, GiveUp
  <2> QED
    BY <1>4, <2>1
<1>11. \A q \in Procs : Honest(frame[q])'
  BY <1>5, <1>6, <1>7, <1>8, <1>9, <1>10 DEF Next
<1> QED
  BY <1>3, <1>11 DEF Pages

LEMMA LockInit == Init => LockInv
<1> SUFFICES ASSUME Init PROVE LockInv
  OBVIOUS
<1>1. Capped(policy)
  BY StoreAssumption DEF Init, Capped, Blank
<1>2. \A p \in Procs : frame[p] = IdleFrame /\ Idle(p)
  BY DEF Init, Idle, IdleFrame
<1>3. Alone
  BY <1>2 DEF Alone
<1>4. Keys
  BY <1>1 DEF Keys, Init
<1>5. \A p \in Procs : Replay(frame[p]) /\ Remembers(frame[p])
  BY <1>2 DEF IdleFrame, Replay, Remembers, Replaying, Appending, Learning, Saves, Loads
<1>6. Pages
  BY <1>2 DEF Pages, PageIsConsistent, Honest, IdleFrame, Init
<1> QED
  BY <1>3, <1>4, <1>5, <1>6 DEF LockInv

LEMMA LockNext ==
    ASSUME BootGate = TRUE, Viewers = {}, TypeInv, BackedInv, LockInv, [Next]_vars
    PROVE  LockInv'
<1>0. Alone' /\ Pages'
  BY AloneNext, PageNext DEF LockInv
<1>1. ASSUME NEW q \in Procs, Idle(q), frame'[q] = frame[q]
      PROVE  Replay(frame[q])' /\ Remembers(frame[q])'
  BY <1>1, IdleRemembersNothing DEF LockInv, Alone
<1>2. ASSUME NEW q \in Procs, frame'[q] = IdleFrame
      PROVE  Replay(frame[q])' /\ Remembers(frame[q])'
  BY <1>2, IdleRemembersNothing
<1>3. CASE StartPlugin
  <2> DEFINE g == [IdleFrame EXCEPT !.call = "load_outdated", !.seen = data]
  <2>1. g.call = "load_outdated" /\ g.phase = "start" /\ g.batch = <<>> /\ g.seen = data
    BY DEF IdleFrame
  <2>2. /\ frame' = [frame EXCEPT ![Initializer] = g] /\ Initializer \in Procs
        /\ plugin = "down" /\ plugin' = "booting" /\ UNCHANGED data
        /\ UNCHANGED <<pending, published, candidate, policy>>
    BY <1>3 DEF StartPlugin, Procs, keys
  <2> HIDE DEF g
  <2>3. Keys'
    BY <2>2 DEF LockInv, Keys
  <2>4. frame'[Initializer] = g /\ \A q \in Procs : q # Initializer => frame'[q] = frame[q]
    BY <2>2 DEF TypeInv, TypeOK
  <2>5. Replay(frame[Initializer])' /\ Remembers(frame[Initializer])'
    BY <2>1, <2>2, <2>4 DEF Replay, Replaying, Remembers, Appending, Learning, Loads, Saves
  <2>6. \A q \in Procs : Idle(q)
    BY <2>2 DEF LockInv, Alone
  <2> QED
    BY <1>0, <1>1, <2>3, <2>4, <2>5, <2>6 DEF LockInv
<1>4. ASSUME NEW p \in Procs, Begin(p) PROVE LockInv'
  <2>1. lock = None /\ plugin = "up"
    BY <1>4 DEF Begin, Enter, BeginUpdate, BeginAnalysis, BeginIngest, BeginReset, BeginView,
                BeginOverview, BeginLocked, Serving
  <2>2. \A q \in Procs : Idle(q)
    BY <2>1, StoreAssumption DEF LockInv, Alone
  <2> QED
    BY <1>0, <1>1, <1>4, <2>2, BeginLock DEF LockInv
<1>5. ASSUME NEW p \in Procs, Step(p) PROVE LockInv'
  <2>1. \A q \in Procs : q # p => Idle(q) /\ frame'[q] = frame[q]
    BY <1>5, StepMovesOne DEF LockInv, Alone
  <2> QED
    BY <1>0, <1>1, <1>5, <2>1, StepLock DEF LockInv
<1>6. ASSUME NEW p \in Procs, Abort(p) PROVE LockInv'
  <2>1. /\ frame' = [frame EXCEPT ![p] = IdleFrame] /\ ~Idle(p)
        /\ UNCHANGED <<pending, published, candidate, policy, plugin>>
    BY <1>6 DEF Abort, Leave, keys
  <2>2. Keys'
    BY <2>1 DEF LockInv, Keys
  <2>3. frame'[p] = IdleFrame /\ \A q \in Procs : q # p => frame'[q] = frame[q] /\ Idle(q)
    BY <2>1 DEF LockInv, Alone, TypeInv, TypeOK
  <2> QED
    BY <1>0, <1>1, <1>2, <2>2, <2>3 DEF LockInv
<1>7. CASE Crash
  <2>1. /\ plugin' = "down" /\ frame' = [p \in Procs |-> IdleFrame]
        /\ UNCHANGED <<pending, published, candidate, policy>>
    BY <1>7 DEF Crash, keys
  <2>2. Keys'
    BY <2>1 DEF LockInv, Keys
  <2> QED
    BY <1>0, <1>2, <2>1, <2>2 DEF LockInv
<1>8. CASE UNCHANGED vars \/ \E p \in Procs : Wait(p) \/ GiveUp(p)
  <2>0. UNCHANGED <<pending, published, candidate, policy, data, plugin, frame>>
    BY <1>8 DEF vars, keys, Wait, GiveUp
  <2>1. Keys' /\ \A p \in Procs : Replay(frame[p])' /\ Remembers(frame[p])'
    BY <2>0 DEF LockInv, Keys, Replay, Remembers, Register, OfferAgrees
  <2> QED
    BY <1>0, <2>1 DEF LockInv
<1> QED
  BY <1>3, <1>4, <1>5, <1>6, <1>7, <1>8 DEF Next

(***************************************************************************)
(* What the steps do to the register                                       *)
(***************************************************************************)
\* The ways a register changes, in the terms of PolicyStore.
Updates(rows, new) ==
    \E v \in Versions, s \in Statuses :
        Accepts(rows[v], s) /\ new = Trim(WithStatus(rows, v, s))

Appends(rows, new) ==
    \E v \in Versions, e \in Evidence :
        IsNextVersion(rows, v) /\ new = Trim([rows EXCEPT ![v] = CandidateRow(e, data)])

Marks(rows, new) == new = Trim(MarkAll(rows)) \/ new = Trim(MarkOutdated(rows, data))

(* A saved intent is one of the changes of the register.                   *)
LEMMA PutIntentChanges ==
    ASSUME TypeInv, LockInv, NEW p \in Procs, PutIntent(p)
    PROVE  /\ UNCHANGED data
           /\ \/ Updates(Register, Register') \/ Appends(Register, Register')
              \/ Marks(Register, Register') \/ Register' = Trim(NoRows)
              \/ Register' = Register
<1> DEFINE f == frame[p]
<1>1. /\ f \in Frame /\ BatchFits(f) /\ Remembers(f) /\ f.call \in Saves /\ f.phase = "start"
      /\ f.call = "save_update" => UpdateAccepted(f)
      /\ pending' = Trim(Edited(f)) /\ UNCHANGED data
  BY DEF PutIntent, At, LockInv, TypeInv, TypeOK
<1>2. Edited(f) \in RowMap
  BY <1>1, EditedType DEF BatchFits
<1>3. Register' = Trim(Edited(f))
  BY <1>1, <1>2, TrimType, StoreAssumption DEF Register
<1>4. f.call # "save_empty" => f.rows = Register
  BY <1>1 DEF Remembers
<1>5. f.version \in Versions /\ f.status \in Statuses /\ f.batch \in Seq(Evidence)
  BY <1>1 DEF Frame
<1>6. CASE f.call = "save_update"
  <2>1. Edited(f) = WithStatus(Register, f.version, f.status)
    BY <1>4, <1>6 DEF Edited
  <2>2. Accepts(Register[f.version], f.status)
    BY <1>1, <1>4, <1>6 DEF UpdateAccepted
  <2> QED
    BY <1>1, <1>3, <1>5, <2>1, <2>2 DEF Updates
<1>7. CASE f.call = "save_append"
  <2>1. Head(f.batch) \in Evidence /\ Appending(f) /\ f.seen = data
    BY <1>1, <1>5, <1>7 DEF BatchFits, Remembers, Appending, Learning
  <2>2. Edited(f) = [Register EXCEPT ![f.version] = CandidateRow(Head(f.batch), data)]
    BY <1>4, <1>7, <2>1 DEF Edited
  <2>3. IsNextVersion(Register, f.version)
    BY <1>1, <2>1 DEF Remembers
  <2> QED
    BY <1>1, <1>3, <1>5, <2>1, <2>2, <2>3 DEF Appends
<1>8. CASE f.call = "save_stale"
  BY <1>1, <1>3, <1>4, <1>8 DEF Edited, Marks
<1>9. CASE f.call = "save_outdated"
  BY <1>1, <1>3, <1>4, <1>9 DEF Edited, Marks, Remembers, Learning
<1>10. CASE f.call = "save_empty"
  BY <1>1, <1>3, <1>10 DEF Edited
<1>11. CASE f.call = "save_offers"
  <2>1. Trim(Register) = Register
    BY TrimTwice DEF LockInv, Keys, Capped, Register, TypeInv, TypeOK
  <2>2. Edited(f) = Register
    BY <1>4, <1>11 DEF Edited
  <2> QED
    BY <1>1, <1>3, <2>1, <2>2
<1> QED
  BY <1>1, <1>6, <1>7, <1>8, <1>9, <1>10, <1>11 DEF Saves

(* Only a saved intent changes the register.                               *)
LEMMA OthersKeepRegister ==
    ASSUME Viewers = {}, TypeInv, LockInv, [Next]_vars
    PROVE  (\E p \in Procs : PutIntent(p)) \/ Register' = Register
<1>1. ASSUME UNCHANGED <<pending, policy>> PROVE Register' = Register
  BY <1>1 DEF Register
<1>2. ASSUME NEW p \in Procs, Begin(p) PROVE Register' = Register
  BY <1>2, BeginLock
<1>3. ASSUME NEW p \in Procs, Recover(p) PROVE Register' = Register
  BY <1>3, RecoverLock
<1>4. ASSUME NEW p \in Procs, Step(p), ~Recover(p), ~PutIntent(p) PROVE Register' = Register
  BY <1>1, <1>4 DEF Step, ReadPolicies, CheckRevision, SendPage, RefuseUpdate, Analyze, Import,
                    ClearSamples, ClearPublished, ClearCandidate, keys
<1>5. ASSUME NEW p \in Procs, Abort(p) PROVE Register' = Register
  BY <1>1, <1>5 DEF Abort, keys
<1>6. CASE StartPlugin \/ Crash \/ UNCHANGED vars \/ \E p \in Procs : Wait(p) \/ GiveUp(p)
  BY <1>1, <1>6 DEF StartPlugin, Crash, Wait, GiveUp, keys, vars
<1> QED
  BY <1>2, <1>3, <1>4, <1>5, <1>6 DEF Next

(***************************************************************************)
(* Invariants                                                              *)
(***************************************************************************)
LEMMA InvariantsHold ==
    ASSUME BootGate = TRUE, Viewers = {}
    PROVE  Spec => [](TypeInv /\ BackedInv /\ LockInv)
<1>1. Init => TypeInv /\ BackedInv /\ LockInv
  BY TypeInit, BackedInit, LockInit
<1>2. TypeInv /\ BackedInv /\ LockInv /\ [Next]_vars => (TypeInv /\ BackedInv /\ LockInv)'
  BY TypeStep, BackedStep, LockNext
<1> QED
  BY <1>1, <1>2, PTL DEF Spec

(* After every finished write, recovered or not, the offers are those of   *)
(* the stored list and carry its revision.                                 *)
THEOREM KeysAgree ==
    ASSUME BootGate = TRUE, Viewers = {}
    PROVE  Spec => []ThreeKeysAgree
<1>1. LockInv => ThreeKeysAgree
  BY DEF LockInv, Keys, ThreeKeysAgree, Settled
<1> QED
  BY <1>1, InvariantsHold, PTL

(* A locked operation saves what it computed from the current list.        *)
THEOREM CurrentRows ==
    ASSUME BootGate = TRUE, Viewers = {}
    PROVE  Spec => []WorksOnCurrentRows
<1>1. LockInv => WorksOnCurrentRows
  BY DEF LockInv, Remembers, WorksOnCurrentRows, Loaded, At, Procs
<1> QED
  BY <1>1, InvariantsHold, PTL

(* The rows the console shows are those of the revision it sends back.     *)
THEOREM PagesAreConsistent ==
    ASSUME BootGate = TRUE, Viewers = {}
    PROVE  Spec => []PageIsConsistent
<1>1. LockInv => PageIsConsistent
  BY DEF LockInv, Pages
<1> QED
  BY <1>1, InvariantsHold, PTL

(***************************************************************************)
(* Freshness                                                               *)
(***************************************************************************)
FreshRows(rows, d) == \A v \in PresentIn(rows) : ~rows[v].stale => rows[v].data = d

\* The samples have changed and the records are still to be marked or erased.
Repairing(f) == \/ f.call = "load_stale"
                \/ f.call \in {"save_stale", "save_empty"} /\ f.phase = "start"

\* As long as no operation has failed half-way, fresh records are current or
\* the operation that changed the samples is about to see to it; and once
\* initialize has put its intent they are current.
FreshInv ==
    budget.aborts = MaxAborts =>
        /\ plugin = "up" => FreshRows(Register, data) \/ \E p \in Procs : Repairing(frame[p])
        /\ frame[Initializer].call = "save_outdated" /\ frame[Initializer].phase # "start"
              => FreshRows(Register, data)

(* Every save keeps fresh records current, and those of an import, a reset  *)
(* and initialize make them so.                                             *)
LEMMA SavedFresh ==
    ASSUME TypeInv, LockInv, NEW p \in Procs, PutIntent(p),
           FreshRows(Register, data) \/ frame[p].call \in {"save_stale", "save_outdated", "save_empty"}
    PROVE  FreshRows(Register', data) /\ UNCHANGED data
<1> DEFINE f == frame[p]
<1>1. /\ f \in Frame /\ BatchFits(f) /\ Remembers(f) /\ f.call \in Saves /\ f.phase = "start"
      /\ pending' = Trim(Edited(f)) /\ UNCHANGED data
  BY DEF PutIntent, At, LockInv, TypeInv, TypeOK
<1>2. Edited(f) \in RowMap
  BY <1>1, EditedType DEF BatchFits
<1>3. Register' = Trim(Edited(f))
  BY <1>1, <1>2, TrimType, StoreAssumption DEF Register
<1>4. f.call # "save_empty" => f.rows = Register
  BY <1>1 DEF Remembers
<1>5. f.rows \in RowMap /\ f.version \in Versions /\ f.status \in Statuses
  BY <1>1 DEF Frame
<1>6. SUFFICES ASSUME NEW v \in Versions, Present(Register'[v]), ~Register'[v].stale
               PROVE  Register'[v].data = data
  BY <1>1 DEF FreshRows, PresentIn
<1> DEFINE new == Edited(f)[v]
<1>7. Register'[v] = new /\ Present(new) /\ ~new.stale
  BY <1>2, <1>3, <1>6 DEF Trim, NoRow, Present
<1>8. f.rows[v] \in Row
  BY <1>5 DEF RowMap
<1>9. CASE f.call = "save_update"
  <2>1. /\ f.rows[v].data = new.data /\ f.rows[v].stale = new.stale
    BY <1>5, <1>8, <1>9 DEF Edited, WithStatus, RowMap, Row
  <2>2. Present(f.rows[v])
    <3>1. CASE v = f.version
      <4>1. Accepts(f.rows[v], f.status)
        BY <1>9, <3>1 DEF PutIntent, UpdateAccepted
      <4> QED
        BY <4>1 DEF Accepts
    <3>2. CASE v # f.version
      <4>1. new = f.rows[v]
        BY <1>5, <1>9, <3>2 DEF Edited, WithStatus, RowMap
      <4> QED
        BY <1>7, <4>1
    <3> QED
      BY <3>1, <3>2
  <2> QED
    BY <1>4, <1>7, <1>9, <2>1, <2>2 DEF FreshRows, PresentIn
<1>10. CASE f.call = "save_append"
  <2>1. f.seen = data
    BY <1>1, <1>10 DEF Remembers, Learning
  <2>2. CASE v = f.version
    <3>1. new = CandidateRow(Head(f.batch), f.seen)
      BY <1>5, <1>10, <2>2 DEF Edited, RowMap
    <3> QED
      BY <1>7, <2>1, <3>1 DEF CandidateRow
  <2>3. CASE v # f.version
    <3>1. new = f.rows[v]
      BY <1>5, <1>10, <2>3 DEF Edited, RowMap
    <3> QED
      BY <1>4, <1>7, <1>10, <3>1 DEF FreshRows, PresentIn
  <2> QED
    BY <2>2, <2>3
<1>11. CASE f.call = "save_stale"
  <2>1. new = IF Present(f.rows[v]) THEN [f.rows[v] EXCEPT !.stale = TRUE] ELSE f.rows[v]
    BY <1>11 DEF Edited, MarkAll
  <2>2. CASE Present(f.rows[v])
    BY <1>7, <1>8, <2>1, <2>2 DEF Row
  <2> QED
    BY <1>7, <2>1, <2>2
<1>12. CASE f.call = "save_outdated"
  <2>1. f.seen = data
    BY <1>1, <1>12 DEF Remembers, Learning
  <2>2. new = IF Outdated(f.rows[v], f.seen) THEN [f.rows[v] EXCEPT !.stale = TRUE] ELSE f.rows[v]
    BY <1>12 DEF Edited, MarkOutdated
  <2>3. CASE Outdated(f.rows[v], f.seen)
    BY <1>7, <1>8, <2>2, <2>3 DEF Row
  <2>4. CASE ~Outdated(f.rows[v], f.seen)
    BY <1>7, <2>1, <2>2, <2>4 DEF Outdated
  <2> QED
    BY <2>3, <2>4
<1>13. CASE f.call = "save_empty"
  BY <1>7, <1>13 DEF Edited, NoRows, NoRow, Present
<1>14. CASE f.call = "save_offers"
  BY <1>4, <1>7, <1>14 DEF Edited, FreshRows, PresentIn
<1> QED
  BY <1>1, <1>9, <1>10, <1>11, <1>12, <1>13, <1>14 DEF Saves

(* A replay on behalf of a load leaves it the same load.                    *)
LEMMA ReplayStays ==
    ASSUME TypeInv, NEW p \in Procs, Recover(p)
    PROVE  /\ frame[p].call \in Loads => frame'[p].call = frame[p].call /\ UNCHANGED plugin
           /\ frame[p].call \in Saves => frame[p].phase # "start"
           /\ frame[p].call \in Loads \cup Saves /\ UNCHANGED <<data, budget>>
<1>0. Loads \cap Saves = {} /\ frame[p] \in Frame
  BY DEF Loads, Saves, TypeInv, TypeOK
<1>1. /\ frame[p].call \in Loads \cup Saves /\ UNCHANGED <<data, budget>>
      /\ frame[p].call \in Saves => frame[p].phase # "start"
  BY <1>0 DEF Recover, GetIntent, GetNoIntent, PutPublished, PutCandidate, PutPolicy, DeleteIntent,
         Recovering, At
<1>2. ASSUME frame[p].call \in Loads
      PROVE  frame'[p].call = frame[p].call /\ UNCHANGED plugin
  <2>1. CASE GetIntent(p)
    BY <1>0, <2>1 DEF GetIntent, Frame, TypeInv, TypeOK
  <2>2. \/ GetIntent(p) \/ \E phase \in Phases : Goto(p, phase)
    BY <1>2 DEF Recover, GetNoIntent, PutPublished, PutCandidate, PutPolicy, DeleteIntent,
                Recovered, Phases
  <2> QED
    BY <2>1, <2>2, GotoFrame
<1> QED
  BY <1>1, <1>2

LEMMA FreshStep ==
    ASSUME TypeInv, BackedInv, LockInv, FreshInv, NEW p \in Procs, Step(p)
    PROVE  FreshInv'
<1> DEFINE f == frame[p]
           good == FreshRows(Register, data)
<1>0. /\ f \in Frame /\ UNCHANGED budget /\ ~Idle(p)
      /\ p = Initializer => f.call \in {"load_outdated", "save_outdated"}
      /\ Initializer \in Procs
  <2>1. UNCHANGED budget
    BY DEF Step, Recover, GetIntent, GetNoIntent, PutPublished, PutCandidate, PutPolicy, DeleteIntent,
           ReadPolicies, CheckRevision, SendPage, PutIntent, RefuseUpdate, Analyze, Import,
           ClearSamples, ClearPublished, ClearCandidate
  <2>2. ~Idle(p)
    BY StepMovesOne
  <2>3. p = Initializer => f.call \in {"idle", "load_outdated", "save_outdated"}
    BY DEF BackedInv, BackedFrame
  <2> QED
    BY <2>1, <2>2, <2>3 DEF TypeInv, TypeOK, Procs, Idle
<1>1. SUFFICES ASSUME budget.aborts = MaxAborts PROVE FreshInv'
  BY <1>0 DEF FreshInv
<1>2. /\ \A q \in Procs : q # p => Idle(q) /\ frame'[q] = frame[q]
      /\ IF p = Initializer THEN plugin = "booting" ELSE plugin = "up"
  BY <1>0, StepMovesOne DEF LockInv, Alone
<1>3. good \/ Repairing(f) \/ p = Initializer
  <2>1. \A q \in Procs : Repairing(frame[q]) => ~Idle(q)
    BY DEF Repairing, Idle
  <2> QED
    BY <1>1, <1>2, <2>1 DEF FreshInv
<1>4. ASSUME UNCHANGED <<keys, data>>, good PROVE FreshInv'
  BY <1>4 DEF FreshInv, keys, Register
<1>5. ASSUME p # Initializer, Repairing(frame'[p]), UNCHANGED plugin PROVE FreshInv'
  <2>1. frame'[Initializer].call = "idle"
    BY <1>0, <1>2, <1>5 DEF Idle
  <2> QED
    BY <1>5, <2>1 DEF FreshInv
<1>6. CASE PutIntent(p)
  <2>1. f.call \in Saves /\ f.phase = "start" /\ UNCHANGED plugin
    BY <1>6 DEF PutIntent, At
  <2>2. good \/ f.call \in {"save_stale", "save_outdated", "save_empty"}
    BY <1>0, <1>3, <2>1 DEF Repairing, Saves
  <2>3. FreshRows(Register', data) /\ UNCHANGED data
    BY <1>6, <2>2, SavedFresh
  <2> QED
    BY <2>3 DEF FreshInv
<1>7. CASE Recover(p)
  <2>1. Register' = Register /\ UNCHANGED data
    BY <1>7, RecoverLock, ReplayStays
  <2>2. CASE good
    BY <2>1, <2>2 DEF FreshInv
  <2>3. CASE ~good
    <3>1. f.call \in Loads
      <4>1. p = Initializer /\ f.call = "save_outdated" => f.phase = "start"
        BY <1>1, <2>3 DEF FreshInv
      <4>2. f.call \in Saves => f.phase # "start"
        BY <1>7, ReplayStays
      <4>3. Repairing(f) => f.call \in Loads \/ (f.phase = "start" /\ f.call \in Saves)
        BY Zenon DEF Repairing, Loads, Saves
      <4>4. p = Initializer => f.call \in Loads \/ f.call \in Saves
        BY <1>0 DEF Loads, Saves
      <4> QED
        BY <1>0, <1>3, <2>3, <4>1, <4>2, <4>3 DEF Loads, Saves
    <3>2. frame'[p].call = f.call /\ UNCHANGED plugin
      BY <1>7, <3>1, ReplayStays
    <3>3. CASE p = Initializer
      <4>1. frame'[Initializer].call = "load_outdated" /\ plugin' = "booting"
        BY <1>0, <1>2, <3>1, <3>2, <3>3 DEF Loads
      <4> QED
        BY <4>1 DEF FreshInv
    <3>4. CASE p # Initializer
      <4>1. f.call = "load_stale"
        BY <1>3, <2>3, <3>1, <3>4 DEF Repairing, Loads
      <4> QED
        BY <1>5, <3>2, <3>4, <4>1 DEF Repairing
    <3> QED
      BY <3>3, <3>4
  <2> QED
    BY <2>2, <2>3
<1>8. CASE ReadPolicies(p)
  <2> DEFINE g == [f EXCEPT !.rows = Trim(policy)]
  <2>1. /\ f.call \in Loads \ {"check_revision", "load_revision"}
        /\ Return(p, g) /\ UNCHANGED <<keys, data>>
    BY <1>8 DEF ReadPolicies, At
  <2>2. g \in Frame /\ g.call = f.call
    BY <1>0, TrimType DEF Frame, TypeInv, TypeOK
  <2> HIDE DEF g
  <2>3. ASSUME f.call = "load_stale" PROVE FreshInv'
    <3>1. NextCall(g) = "save_stale"
      BY <2>2, <2>3 DEF NextCall, After
    <3>2. frame'[p].call = "save_stale" /\ frame'[p].phase = "start" /\ UNCHANGED plugin
      BY <2>1, <2>2, <3>1, ReturnFrame
    <3> QED
      BY <1>0, <1>5, <2>3, <3>2 DEF Repairing
  <2>4. ASSUME p = Initializer PROVE FreshInv'
    <3>1. f.call = "load_outdated"
      BY <1>0, <2>1, <2>4 DEF Loads
    <3>2. NextCall(g) = "save_outdated"
      BY <2>2, <3>1 DEF NextCall, After
    <3>3. frame'[p].phase = "start" /\ UNCHANGED plugin
      BY <2>1, <2>2, <3>2, ReturnFrame
    <3> QED
      BY <1>2, <2>4, <3>3 DEF FreshInv
  <2>5. ASSUME f.call # "load_stale", p # Initializer PROVE FreshInv'
    <3>1. ~Repairing(f)
      BY <2>1, <2>5 DEF Repairing, Loads
    <3> QED
      BY <1>3, <1>4, <2>1, <2>5, <3>1
  <2> QED
    BY <2>3, <2>4, <2>5
<1>9. CASE CheckRevision(p) \/ SendPage(p) \/ RefuseUpdate(p) \/ Analyze(p)
  <2>1. /\ f.call \in {"check_revision", "load_revision", "save_update", "analyze"}
        /\ UNCHANGED <<keys, data>>
    BY <1>9 DEF CheckRevision, SendPage, RefuseUpdate, Analyze, At
  <2>2. ~Repairing(f) /\ p # Initializer
    BY <1>0, <2>1 DEF Repairing
  <2> QED
    BY <1>3, <1>4, <2>1, <2>2
<1>10. CASE Import(p)
  <2>1. f.call = "import" /\ UNCHANGED <<keys, plugin>>
    BY <1>10 DEF Import, At
  <2>2. good /\ p # Initializer
    BY <1>0, <1>3, <2>1 DEF Repairing
  <2>3. \/ UNCHANGED data
        \/ frame' = [frame EXCEPT ![p].call = "load_stale"]
    BY <1>10 DEF Import
  <2>4. CASE UNCHANGED data
    BY <1>4, <2>1, <2>2, <2>4
  <2>5. CASE frame' = [frame EXCEPT ![p].call = "load_stale"]
    <3>1. frame'[p].call = "load_stale"
      BY <1>0, <2>5 DEF Frame, TypeInv, TypeOK
    <3> QED
      BY <1>5, <2>1, <2>2, <3>1 DEF Repairing
  <2> QED
    BY <2>3, <2>4, <2>5
<1>11. CASE ClearSamples(p)
  <2>1. f.call = "clear_samples" /\ Return(p, f)
    BY <1>11 DEF ClearSamples, At
  <2>2. NextCall(f) = "save_empty"
    BY <2>1 DEF NextCall, After
  <2>3. frame'[p].call = "save_empty" /\ frame'[p].phase = "start" /\ UNCHANGED plugin
    BY <1>0, <2>1, <2>2, ReturnFrame
  <2> QED
    BY <1>0, <1>5, <2>1, <2>3 DEF Repairing
<1>12. CASE ClearPublished(p) \/ ClearCandidate(p)
  <2>1. /\ f.call \in {"clear_published", "clear_candidate"}
        /\ UNCHANGED <<pending, policy, data>>
    BY <1>12 DEF ClearPublished, ClearCandidate, At
  <2>2. good
    BY <1>0, <1>3, <2>1 DEF Repairing
  <2> QED
    BY <2>1, <2>2 DEF FreshInv, Register
<1> QED
  BY <1>6, <1>7, <1>8, <1>9, <1>10, <1>11, <1>12 DEF Step

LEMMA FreshNext ==
    ASSUME BootGate = TRUE, Viewers = {}, TypeInv, BackedInv, LockInv, FreshInv, [Next]_vars
    PROVE  FreshInv'
<1>1. ASSUME NEW p \in Procs, Begin(p) PROVE FreshInv'
  <2>1. plugin = "up" /\ lock = None /\ UNCHANGED plugin /\ Admitted(p)
    BY <1>1 DEF Begin, Enter, BeginUpdate, BeginAnalysis, BeginIngest, BeginReset, BeginView,
                BeginOverview, BeginLocked, Serving
  <2>2. budget'.aborts = budget.aborts
    BY <2>1, AdmittedTypes
  <2>3. \A q \in Procs : Idle(q)
    BY <2>1, StoreAssumption DEF LockInv, Alone
  <2>4. \A q \in Procs : ~Repairing(frame[q])
    BY <2>3 DEF Repairing, Idle
  <2>5. Register' = Register /\ UNCHANGED data
    BY <1>1, BeginLock
  <2> QED
    BY <2>1, <2>2, <2>4, <2>5 DEF FreshInv
<1>2. CASE StartPlugin
  <2> DEFINE g == [IdleFrame EXCEPT !.call = "load_outdated", !.seen = data]
  <2>1. frame' = [frame EXCEPT ![Initializer] = g] /\ plugin' = "booting"
    BY <1>2 DEF StartPlugin
  <2>2. g.call = "load_outdated"
    BY DEF IdleFrame
  <2> HIDE DEF g
  <2>3. frame'[Initializer].call = "load_outdated"
    BY <2>1, <2>2 DEF TypeInv, TypeOK, Procs
  <2> QED
    BY <2>1, <2>3 DEF FreshInv
<1>3. ASSUME NEW p \in Procs, Abort(p) PROVE FreshInv'
  <2>1. budget' = [budget EXCEPT !.aborts = budget.aborts - 1]
    BY <1>3 DEF Abort
  <2>2. /\ budget.aborts \in Int /\ budget.aborts <= MaxAborts /\ MaxAborts \in Int
        /\ budget'.aborts = budget.aborts - 1
    BY <2>1, StoreAssumption DEF TypeInv, TypeOK
  <2>3. budget'.aborts # MaxAborts
    BY <2>2
  <2> QED
    BY <2>3 DEF FreshInv
<1>4. CASE Crash
  <2>1. plugin' = "down" /\ frame'[Initializer] = IdleFrame
    BY <1>4 DEF Crash, Procs
  <2> QED
    BY <2>1, IdleFields DEF FreshInv
<1>5. ASSUME NEW p \in Procs, Wait(p) \/ GiveUp(p) PROVE FreshInv'
  <2>1. UNCHANGED <<pending, policy, data, plugin, frame>>
    BY <1>5 DEF Wait, GiveUp, keys
  <2>2. budget'.aborts = budget.aborts
    BY <1>5, QueueTypes
  <2> QED
    BY <2>1, <2>2 DEF FreshInv, Register
<1>6. CASE UNCHANGED vars
  BY <1>6 DEF vars, FreshInv, Register
<1> QED
  BY <1>1, <1>2, <1>3, <1>4, <1>5, <1>6, FreshStep DEF Next

(* Unless an operation failed half-way, a record that is not marked stale   *)
(* was trained on the samples stored now: an import marks all records, a    *)
(* reset erases them, and initialize marks what a crash left unmarked.      *)
THEOREM FreshIsCurrent ==
    ASSUME BootGate = TRUE, Viewers = {}
    PROVE  Spec => []FreshMeansCurrent
<1>1. Init => FreshInv
  BY IdleFields DEF Init, FreshInv, Procs
<1>2. TypeInv /\ BackedInv /\ LockInv /\ FreshInv /\ [Next]_vars => FreshInv'
  BY FreshNext
<1>3. FreshInv => FreshMeansCurrent
  BY DEF FreshInv, FreshMeansCurrent, FreshRows, Repairing, Idle
<1> QED
  BY <1>1, <1>2, <1>3, InvariantsHold, PTL DEF Spec

(***************************************************************************)
(* Action properties                                                       *)
(***************************************************************************)
(* A change of the register moves a record that stays along an arrow and   *)
(* never makes it fresh again.                                             *)
LEMMA ChangesAreLegal ==
    ASSUME NEW rows \in RowMap, NEW new, data \in Fingerprints,
           \/ Updates(rows, new) \/ Appends(rows, new) \/ Marks(rows, new)
           \/ new = Trim(NoRows) \/ new = rows,
           NEW v \in PresentIn(rows) \cap PresentIn(new)
    PROVE  /\ CanTransition(rows[v].status, new[v].status)
           /\ rows[v].stale => new[v].stale
<1>1. v \in Versions /\ Present(rows[v]) /\ Present(new[v]) /\ rows[v] \in Row
  BY DEF PresentIn, RowMap
<1>2. ASSUME NEW m \in RowMap, new = Trim(m) PROVE new[v] = m[v]
  BY <1>1, <1>2 DEF Trim, NoRow, Present
<1>3. CASE Updates(rows, new)
  <2>1. PICK w \in Versions, s \in Statuses :
          Accepts(rows[w], s) /\ new = Trim(WithStatus(rows, w, s))
    BY <1>3 DEF Updates
  <2>2. new[v] = WithStatus(rows, w, s)[v]
    BY <1>2, <2>1, EditTypes
  <2>3. CASE v = w
    <3>1. new[v] = [rows[v] EXCEPT !.status = s, !.moves = @ + 1]
      BY <1>1, <2>2, <2>3 DEF WithStatus, RowMap
    <3>2. new[v].status = s /\ new[v].stale = rows[v].stale
      BY <1>1, <3>1 DEF Row
    <3> QED
      BY <2>1, <2>3, <3>2 DEF Accepts
  <2>4. CASE v # w
    <3>1. new[v] = rows[v]
      BY <1>1, <2>2, <2>4 DEF WithStatus, RowMap
    <3> QED
      BY <3>1 DEF CanTransition
  <2> QED
    BY <2>3, <2>4
<1>4. CASE Appends(rows, new)
  <2>1. PICK w \in Versions, e \in Evidence :
          IsNextVersion(rows, w) /\ new = Trim([rows EXCEPT ![w] = CandidateRow(e, data)])
    BY <1>4 DEF Appends
  <2>2. CandidateRow(e, data) \in Row
    BY DEF CandidateRow, Row, Statuses
  <2>3. new[v] = [rows EXCEPT ![w] = CandidateRow(e, data)][v]
    BY <1>2, <2>1, <2>2, EditTypes
  <2>4. v # w
    BY <1>1, <2>1 DEF IsNextVersion, PresentIn, Versions
  <2>5. new[v] = rows[v]
    BY <1>1, <2>3, <2>4 DEF RowMap
  <2> QED
    BY <2>5 DEF CanTransition
<1>5. CASE Marks(rows, new)
  <2>1. new[v] = MarkAll(rows)[v] \/ new[v] = MarkOutdated(rows, data)[v]
    BY <1>2, <1>5, EditTypes DEF Marks
  <2>2. new[v].status = rows[v].status /\ (rows[v].stale => new[v].stale)
    BY <1>1, <2>1 DEF MarkAll, MarkOutdated, Row
  <2> QED
    BY <2>2 DEF CanTransition
<1>6. CASE new = Trim(NoRows)
  BY <1>1, <1>6, TrimNoRows DEF NoRows, NoRow, Present
<1>7. CASE new = rows
  BY <1>7 DEF CanTransition
<1> QED
  BY <1>3, <1>4, <1>5, <1>6, <1>7

LEMMA StepsAreLegal ==
    ASSUME Viewers = {}, TypeInv, LockInv, [Next]_vars, NEW v \in Kept
    PROVE  /\ CanTransition(Register[v].status, Register'[v].status)
           /\ Register[v].stale => Register'[v].stale
<1>1. Register \in RowMap /\ data \in Fingerprints
  BY RegisterType DEF TypeInv, TypeOK
<1>2. v \in PresentIn(Register) \cap PresentIn(Register')
  BY DEF Kept, PresentIn
<1>3. \/ Updates(Register, Register') \/ Appends(Register, Register')
      \/ Marks(Register, Register') \/ Register' = Trim(NoRows) \/ Register' = Register
  BY PutIntentChanges, OthersKeepRegister
<1> QED
  BY <1>1, <1>2, <1>3, ChangesAreLegal

(* No history of crashes, aborts and interleavings takes a record anywhere *)
(* the status table does not allow in one step.                            *)
THEOREM LegalArrows ==
    ASSUME BootGate = TRUE, Viewers = {}
    PROVE  Spec => ArrowsAreLegal
<1>1. TypeInv /\ LockInv /\ [Next]_vars
        => [\A v \in Kept : CanTransition(Register[v].status, Register'[v].status)]_vars
  BY StepsAreLegal
<1> QED
  BY <1>1, InvariantsHold, PTL DEF Spec, ArrowsAreLegal

(* A mark of staleness survives every later write and every recovery.      *)
THEOREM StaleStays ==
    ASSUME BootGate = TRUE, Viewers = {}
    PROVE  Spec => StaleIsForever
<1>1. TypeInv /\ LockInv /\ [Next]_vars
        => [\A v \in Kept : Register[v].stale => Register'[v].stale]_vars
  BY StepsAreLegal
<1> QED
  BY <1>1, InvariantsHold, PTL DEF Spec, StaleIsForever

(* An update decided on a page is saved only over the rows that page shows. *)
THEOREM NoLostUpdate ==
    ASSUME BootGate = TRUE, Viewers = {}
    PROVE  Spec => NoBlindOverwrite
<1>1. LockInv => [\A p \in Handlers :
                    At(p, {"save_update"}, "start") /\ frame'[p].phase = "recover"
                       /\ frame[p].expected # None
                    => frame[p].expected.rows = Register]_vars
  BY DEF LockInv, Remembers, At, Procs
<1> QED
  BY <1>1, InvariantsHold, PTL DEF Spec, NoBlindOverwrite

(***************************************************************************)
(* Refinement                                                              *)
(***************************************************************************)
(* An edit of a list within the cap that adds no record needs no trimming. *)
LEMMA EditIsNotTrimmed ==
    ASSUME NEW rows \in RowMap, NEW new \in RowMap, Capped(rows),
           PresentIn(new) = PresentIn(rows), Blank(new)
    PROVE  Trim(new) = new
<1>1. ASSUME NEW v \in Versions PROVE Trim(new)[v] = new[v]
  <2>1. CASE Cardinality({w \in PresentIn(rows) : w > v}) < PolicyCap
    BY <2>1 DEF Trim
  <2>2. CASE ~(Cardinality({w \in PresentIn(rows) : w > v}) < PolicyCap)
    <3>1. rows[v] = NoRow
      BY <2>2 DEF Capped, Trim
    <3>2. v \notin PresentIn(new)
      BY <3>1 DEF PresentIn, Present, NoRow
    <3>3. new[v] = NoRow
      BY <3>2 DEF Blank, PresentIn
    <3> QED
      BY <2>2, <3>3 DEF Trim
  <2> QED
    BY <2>1, <2>2
<1>2. Trim(new) \in RowMap
  BY TrimType
<1> QED
  BY <1>1, <1>2 DEF RowMap

LEMMA EditsAreNotTrimmed ==
    ASSUME NEW rows \in RowMap, Capped(rows)
    PROVE  /\ \A v \in Versions, s \in Statuses :
                  Accepts(rows[v], s) => Trim(WithStatus(rows, v, s)) = WithStatus(rows, v, s)
           /\ Trim(MarkAll(rows)) = MarkAll(rows)
           /\ \A d \in Fingerprints : Trim(MarkOutdated(rows, d)) = MarkOutdated(rows, d)
<1>1. ASSUME NEW v \in Versions, NEW s \in Statuses, Accepts(rows[v], s)
      PROVE  Trim(WithStatus(rows, v, s)) = WithStatus(rows, v, s)
  <2>1. \A w \in Versions : w # v => WithStatus(rows, v, s)[w] = rows[w]
    BY DEF WithStatus, RowMap
  <2>2. WithStatus(rows, v, s)[v].status = s
    BY DEF WithStatus, RowMap, Row
  <2>3. s # "absent" /\ Present(rows[v])
    BY <1>1 DEF Statuses, Accepts
  <2>4. PresentIn(WithStatus(rows, v, s)) = PresentIn(rows)
    BY <2>1, <2>2, <2>3 DEF PresentIn, Present
  <2> QED
    BY <1>1, <2>4, EditIsNotTrimmed, EditsStayBlank, EditTypes DEF Capped
<1>2. ASSUME NEW v \in Versions
      PROVE  /\ MarkAll(rows)[v].status = rows[v].status
             /\ \A d : MarkOutdated(rows, d)[v].status = rows[v].status
  BY DEF MarkAll, MarkOutdated, RowMap, Row
<1>3. /\ PresentIn(MarkAll(rows)) = PresentIn(rows)
      /\ \A d : PresentIn(MarkOutdated(rows, d)) = PresentIn(rows)
  BY <1>2 DEF PresentIn, Present
<1> QED
  BY <1>1, <1>3, EditIsNotTrimmed, EditsStayBlank, EditTypes DEF Capped

\* The record a full list gives up for a new one.
Oldest(rows, v) ==
    /\ v \in PresentIn(rows) /\ \A w \in PresentIn(rows) : v <= w
    /\ Cardinality(PresentIn(rows)) >= PolicyCap

(* Trimming after an append drops the oldest record of a full list and      *)
(* nothing else.                                                            *)
LEMMA AppendDropsTheOldest ==
    ASSUME NEW rows \in RowMap, Capped(rows), NEW v \in Versions,
           \A w \in PresentIn(rows) : w < v, NEW row \in Row, Present(row)
    PROVE  Trim([rows EXCEPT ![v] = row])
             = [w \in Versions |-> IF w = v THEN row
                                   ELSE IF Oldest(rows, w) THEN NoRow ELSE rows[w]]
<1> DEFINE longer == [rows EXCEPT ![v] = row]
           old == PresentIn(rows)
           Above(w) == {x \in old : x > w}
<1>1. longer \in RowMap /\ \A w \in Versions : longer[w] = IF w = v THEN row ELSE rows[w]
  BY DEF RowMap
<1>2. PresentIn(longer) = old \cup {v}
  BY <1>1 DEF PresentIn
<1>3. v \notin old /\ old \subseteq Versions /\ IsFiniteSet(old)
  <2>1. old \subseteq Versions
    BY DEF PresentIn
  <2>2. v \notin old
    BY DEF Versions
  <2>3. IsFiniteSet(old)
    BY <2>1, VersionsAreFinite, FS_Subset
  <2> QED
    BY <2>1, <2>2, <2>3
<1>4. ASSUME NEW w
      PROVE  /\ Above(w) \subseteq old /\ IsFiniteSet(Above(w))
             /\ Cardinality(Above(w)) \in Nat
  BY <1>3, FS_Subset, FS_CardinalityType
<1> HIDE DEF longer
<1>5. ASSUME NEW w \in Versions, w < v
      PROVE  /\ {x \in PresentIn(longer) : x > w} = Above(w) \cup {v}
             /\ Cardinality({x \in PresentIn(longer) : x > w}) = Cardinality(Above(w)) + 1
  <2>1. {x \in PresentIn(longer) : x > w} = Above(w) \cup {v}
    BY <1>2, <1>5
  <2>2. v \notin Above(w)
    BY <1>3
  <2> HIDE DEF Above
  <2>3. Cardinality(Above(w) \cup {v}) = Cardinality(Above(w)) + 1
    BY <1>4, <2>2, FS_AddElement
  <2> QED
    BY <2>1, <2>3
<1>6. ASSUME NEW w \in old PROVE Cardinality(Above(w)) < PolicyCap
  <2>1. Present(Trim(rows)[w])
    BY <1>6 DEF Capped, PresentIn
  <2> QED
    BY <1>3, <2>1 DEF Trim, NoRow, Present
<1>7. ASSUME NEW w \in Versions
      PROVE  Trim(longer)[w] = IF w = v THEN row ELSE IF Oldest(rows, w) THEN NoRow ELSE rows[w]
  <2>1. CASE w = v
    <3>1. \A x \in PresentIn(longer) : x <= v
      BY <1>2, <1>3 DEF Versions
    <3> QED
      BY <1>1, <2>1, <3>1, TrimKeepsNewest
  <2>2. CASE w # v /\ w \notin old
    <3>1. rows[w] = NoRow /\ longer[w] = NoRow
      BY <1>1, <2>2 DEF Capped, Blank, PresentIn
    <3>2. ~Oldest(rows, w)
      BY <2>2 DEF Oldest
    <3> QED
      BY <2>2, <3>1, <3>2 DEF Trim
  <2>3. CASE w \in old
    <3>1. w < v /\ w # v /\ longer[w] = rows[w]
      BY <1>1, <1>3, <2>3
    <3>2. Trim(longer)[w] = IF Cardinality(Above(w)) + 1 < PolicyCap THEN rows[w] ELSE NoRow
      BY <1>5, <3>1 DEF Trim
    <3>3. CASE \A x \in old : w <= x
      <4>1. old = Above(w) \cup {w} /\ w \notin Above(w)
        BY <1>3, <2>3, <3>3 DEF Versions
      <4>2. Cardinality(old) = Cardinality(Above(w)) + 1
        <5> HIDE DEF Above, old
        <5> QED
          BY <1>4, <4>1, FS_AddElement
      <4>3. Oldest(rows, w) <=> Cardinality(Above(w)) + 1 >= PolicyCap
        BY <2>3, <3>3, <4>2 DEF Oldest
      <4>4. Cardinality(Above(w)) \in Nat /\ PolicyCap \in Nat
        BY <1>4, RecordAssumption
      <4> HIDE DEF Above
      <4>5. Cardinality(Above(w)) + 1 < PolicyCap <=> ~Oldest(rows, w)
        BY <4>3, <4>4
      <4> QED
        BY <3>1, <3>2, <4>5
    <3>4. ASSUME NEW x \in old, ~(w <= x)
          PROVE  Trim(longer)[w] = rows[w] /\ ~Oldest(rows, w)
      <4>1. x < w /\ x \in Versions /\ w \in Versions
        BY <1>3, <2>3, <3>4 DEF Versions
      <4>2. Above(w) \cup {w} \subseteq Above(x) /\ w \notin Above(w)
        BY <1>3, <2>3, <4>1 DEF Versions
      <4>3. Cardinality(Above(w) \cup {w}) = Cardinality(Above(w)) + 1
        <5> HIDE DEF Above
        <5> QED
          BY <1>4, <4>2, FS_AddElement
      <4>4. Cardinality(Above(w) \cup {w}) <= Cardinality(Above(x))
        <5> HIDE DEF Above
        <5> QED
          BY <1>4, <4>2, FS_Subset
      <4>5. Cardinality(Above(w)) + 1 < PolicyCap
        <5>1. /\ Cardinality(Above(w)) \in Nat /\ Cardinality(Above(x)) \in Nat
              /\ PolicyCap \in Nat /\ Cardinality(Above(x)) < PolicyCap
          BY <1>4, <1>6, <3>4, RecordAssumption
        <5> HIDE DEF Above
        <5> QED
          BY <4>3, <4>4, <5>1
      <4>6. ~Oldest(rows, w)
        BY <3>4 DEF Oldest
      <4> QED
        BY <3>2, <4>5, <4>6
    <3> QED
      BY <3>1, <3>3, <3>4
  <2> QED
    BY <2>1, <2>2, <2>3
<1>8. Trim(longer) = [w \in Versions |-> Trim(longer)[w]]
  BY DEF Trim
<1> QED
  BY <1>7, <1>8 DEF longer

(* The operators of the instance are those of PolicyStore.                 *)
LEMMA SameOperators ==
    /\ \A v : Reg!Displaced(v) = Oldest(Register, v)
    /\ \A row, s : Reg!Accepts(row, s) = Accepts(row, s)
    /\ \A rows, v, s : Reg!WithStatus(rows, v, s) = WithStatus(rows, v, s)
    /\ \A rows, v : Reg!IsNextVersion(rows, v) = IsNextVersion(rows, v)
    /\ \A e, d : Reg!RecordedRow(e, d) = CandidateRow(e, d)
    /\ \A rows : Reg!MarkAll(rows) = MarkAll(rows)
    /\ \A rows, d : Reg!MarkOutdated(rows, d) = MarkOutdated(rows, d)
    /\ Reg!NoRow = NoRow /\ Reg!NoRows = NoRows /\ Reg!Versions = Versions
    /\ Reg!Statuses = Statuses /\ Reg!Evidence = Evidence
<1>1. /\ Reg!Versions = Versions /\ Reg!Statuses = Statuses /\ Reg!Evidence = Evidence
      /\ Reg!LiveStatuses = LiveStatuses /\ Reg!NoRow = NoRow
      /\ Reg!AllowedTransitions = AllowedTransitions
  BY DEF Reg!Versions, Versions, Reg!Statuses, Statuses, Reg!Evidence, Evidence,
         Reg!LiveStatuses, LiveStatuses, Reg!NoRow, NoRow,
         Reg!AllowedTransitions, AllowedTransitions
<1>2. \A rows : Reg!PresentIn(rows) = PresentIn(rows)
  BY <1>1 DEF Reg!PresentIn, PresentIn, Reg!Present, Present
<1>3. Reg!NoRows = NoRows
  BY <1>1 DEF Reg!NoRows, NoRows
<1>4. \A v : Reg!Displaced(v) = Oldest(Register, v)
  <2>1. Reg!PresentIn(Register) = PresentIn(Register)
    BY <1>2
  <2>2. ASSUME NEW S PROVE Reg!Cardinality(S) = Cardinality(S)
    BY DEF Reg!Cardinality, Cardinality
  <2> QED
    BY <2>1, <2>2 DEF Reg!Displaced, Oldest
<1>5. \A row, s : Reg!Accepts(row, s) = Accepts(row, s)
  <2>1. \A c, t : Reg!CanTransition(c, t) <=> CanTransition(c, t)
    BY <1>1, Zenon DEF Reg!CanTransition, CanTransition
  <2>2. ASSUME NEW row, NEW s PROVE Reg!Accepts(row, s) <=> Accepts(row, s)
    BY <1>1, <2>1, Zenon DEF Reg!Accepts, Accepts, Reg!Present, Present
  <2>3. ASSUME NEW row, NEW s PROVE Reg!Accepts(row, s) = Accepts(row, s)
    BY <2>2 DEF Reg!Accepts, Accepts
  <2> QED
    BY <2>3
<1>6. \A rows, v, s : Reg!WithStatus(rows, v, s) = WithStatus(rows, v, s)
  BY Zenon DEF Reg!WithStatus, WithStatus
<1>7. \A rows, v : Reg!IsNextVersion(rows, v) = IsNextVersion(rows, v)
  BY <1>2 DEF Reg!IsNextVersion, IsNextVersion
<1>8. \A e, d : Reg!RecordedRow(e, d) = CandidateRow(e, d)
  BY DEF Reg!RecordedRow, CandidateRow
<1>9. \A rows : Reg!MarkAll(rows) = MarkAll(rows)
  BY <1>1 DEF Reg!MarkAll, MarkAll, Reg!Present, Present
<1>10. \A rows, d : Reg!MarkOutdated(rows, d) = MarkOutdated(rows, d)
  BY <1>1 DEF Reg!MarkOutdated, MarkOutdated, Reg!Outdated, Outdated,
              Reg!Live, Live, Reg!Present, Present
<1> QED
  BY <1>1, <1>3, <1>4, <1>5, <1>6, <1>7, <1>8, <1>9, <1>10

LEMMA RefineInit == Init => Reg!Init
<1> SUFFICES ASSUME Init PROVE Reg!Init
  OBVIOUS
<1>1. Register = policy
  BY StoreAssumption DEF Init, Register
<1> QED
  BY <1>1 DEF Init, Reg!Init

LEMMA RefineStep ==
    ASSUME Viewers = {}, TypeInv, LockInv, [Next]_vars
    PROVE  [Reg!Next]_Reg!regvars
<1>1. data' \in Fingerprints
  BY TypeStep DEF TypeInv, TypeOK
<1>2. CASE Register' = Register
  BY <1>1, <1>2 DEF Reg!Next, Reg!ChangeSamples
<1>3. Register \in RowMap /\ data \in Fingerprints /\ Capped(Register)
  BY RegisterType, TrimTwice, EditsStayBlank
     DEF LockInv, Keys, Capped, Register, TypeInv, TypeOK
<1>4. ASSUME NEW p \in Procs, PutIntent(p) PROVE [Reg!Next]_Reg!regvars
  <2>1. UNCHANGED data
    BY <1>4, PutIntentChanges
  <2>2. CASE Updates(Register, Register')
    <3>1. PICK v \in Versions, s \in Statuses :
            Accepts(Register[v], s) /\ Register' = Trim(WithStatus(Register, v, s))
      BY <2>2 DEF Updates
    <3>2. Register' = WithStatus(Register, v, s)
      BY <1>3, <3>1, EditsAreNotTrimmed
    <3> QED
      BY <2>1, <3>1, <3>2, SameOperators DEF Reg!Next, Reg!Decide
  <2>3. CASE Appends(Register, Register')
    <3>1. PICK v \in Versions, e \in Evidence :
            /\ IsNextVersion(Register, v)
            /\ Register' = Trim([Register EXCEPT ![v] = CandidateRow(e, data)])
      BY <2>3 DEF Appends
    <3>2. CandidateRow(e, data) \in Row /\ Present(CandidateRow(e, data))
      BY <1>3 DEF CandidateRow, Row, Statuses, Present
    <3>3. Register' = [w \in Versions |-> IF w = v THEN CandidateRow(e, data)
                                          ELSE IF Oldest(Register, w) THEN NoRow ELSE Register[w]]
      BY <1>3, <3>1, <3>2, AppendDropsTheOldest DEF IsNextVersion
    <3> QED
      BY <2>1, <3>1, <3>3, SameOperators DEF Reg!Next, Reg!Record
  <2>4. CASE Marks(Register, Register')
    <3>1. Register' = MarkAll(Register) \/ Register' = MarkOutdated(Register, data)
      BY <1>3, <2>4, EditsAreNotTrimmed DEF Marks
    <3> QED
      BY <2>1, <3>1, SameOperators DEF Reg!Next, Reg!MarkStale, Reg!Revalidate
  <2>5. CASE Register' = Trim(NoRows)
    BY <2>1, <2>5, TrimNoRows, SameOperators DEF Reg!Next, Reg!Forget
  <2> QED
    BY <1>2, <1>4, <2>2, <2>3, <2>4, <2>5, PutIntentChanges
<1> QED
  BY <1>2, <1>4, OthersKeepRegister

(* Four keys, their many awaits and the crashes between them look like one *)
(* list of records, changed in one step by each operation.                 *)
THEOREM StoreIsARegister ==
    ASSUME BootGate = TRUE, Viewers = {}
    PROVE  Spec => ImplementsRegister
<1>1. TypeInv /\ LockInv /\ [Next]_vars => [Reg!Next]_Reg!regvars
  BY RefineStep
<1> QED
  BY <1>1, RefineInit, InvariantsHold, PTL DEF Spec, ImplementsRegister, Reg!Spec
=============================================================================
