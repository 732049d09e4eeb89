----------------------------- MODULE MCAnalysis -----------------------------
(***************************************************************************)
(* Corpora of four sessions for Analysis.  Session 4 is the newest quarter; *)
(* of the others session 1 is set aside, session 2 is the tuner's holdout   *)
(* and session 3 is what it fits on.  A profile says what lies between a    *)
(* threshold and where a search may carry it: so many turns at such a       *)
(* score, for the bot or not; the rest of a session is decided either way.  *)
(***************************************************************************)
EXTENDS Analysis, TLC

MCLeast4 == [strong |-> 5000, hover |-> 2000, commit |-> 3000]
MCMost4 == [strong |-> 9000, hover |-> 6000, commit |-> 9500]
MCDefault == [strong |-> 7000, hover |-> 4000, commit |-> 5800]
Low6 == [strong |-> 6000, hover |-> 4000, commit |-> 5800]
Tight6 == [strong |-> 6000, hover |-> 5500, commit |-> 5800]

Usual == [forward |-> TRUE, interval |-> TRUE, gate |-> TRUE, evaluation |-> TRUE, tuning |-> TRUE]
Unusual == {[Usual EXCEPT !.forward = FALSE], [Usual EXCEPT !.interval = FALSE],
            [Usual EXCEPT !.gate = FALSE], [Usual EXCEPT !.evaluation = FALSE],
            [Usual EXCEPT !.tuning = FALSE]}
Met(corpora, hosts, settings) == [samples : corpora, host : hosts, options : settings]

Message4(kind, session, msg, at, score, said, want, n) ==
    LET row == [session |-> session, msg |-> msg, at |-> at, kind |-> kind, score |-> score,
                said |-> said, expected |-> want, cands |-> {}, eligible |-> TRUE, n |-> n]
        reply(label) == IF label = "bot" THEN "reply" ELSE "silent"
    IN  {[task |-> "recipient"] @@ row,
         [task |-> "reply", said |-> reply(said), expected |-> reply(want)] @@ row}

Topics(session, at, wrong, conf) ==
    LET row == [task |-> "topic", session |-> session, at |-> at, kind |-> "topic",
                cands |-> {}, eligible |-> TRUE]
    IN  {[msg |-> 1, score |-> 9000, said |-> "a", expected |-> "a", n |-> 60 - wrong] @@ row,
         [msg |-> 2, score |-> conf, said |-> "a", expected |-> "b", n |-> wrong] @@ row}

(* A session of 1000 turns and 60 topics.  A band is <<score, wanted, n>>. *)
Session(session, at, bands, wrong, conf) ==
    LET count(want) == MapThenSumSet(LAMBDA b : IF b[2] = want THEN b[3] ELSE 0, bands)
        turn(kind, msg, score, said, want, n) ==
            Message4(kind, session, msg, at, score, said, want, n)
    IN  UNION {turn("scored", b[1], b[1], "other", b[2], b[3]) : b \in bands}
        \cup turn("scored", 9000, 9000, "bot", "bot", 500 - count("bot"))
        \cup turn("scored", 1000, 1000, "other", "other", 480 - count("other"))
        \cup turn("explicit", 1, 0, "bot", "bot", 10)
        \cup turn("early", 2, 9000, "other", "other", 4)
        \cup turn("unscored", 3, 0, "other", "bot", 4)
        \cup turn("unknown", 4, 0, "other", "other", 2)
        \cup {r \in Topics(session, at, wrong, conf) : r.n > 0}

(* first and fourth are what decides, second what is searched on, third fits. *)
Corpus(first, second, third, fourth, wrong) ==
    Session(1, 11, first, wrong, 5900) \cup Session(2, 12, second, wrong, 5900)
    \cup Session(3, 13, third, wrong, 6300) \cup Session(4, 14, fourth, wrong, 5900)

Bots(score, n) == {<<score, "bot", n>>}
Others(score, n) == {<<score + 1, "other", n>>}

(* What a search meets on its way: three bands, each with a gain or a loss, *)
(* and many mistakes that no threshold in reach would repair.               *)
Beyond == Bots(3000, 150) \cup Others(9100, 150)
Down == {a \cup b \cup c \cup rest :
            a \in {{}, Bots(6700, 5), Bots(6700, 20), Others(6700, 15)},
            b \in {{}, Bots(6400, 3), Others(6400, 3), Others(6400, 20)},
            c \in {{}, Bots(6100, 5), Others(6100, 3)},
            rest \in {{}, Beyond}}
Up == {a \cup b \cup c \cup Beyond :
            a \in {{}, Others(7100, 5), Bots(7100, 15)},
            b \in {{}, Others(7500, 3), Bots(7500, 1)},
            c \in {{}, Others(7900, 5), Bots(7900, 3)}}
Low == {a \cup b \cup Beyond : a \in {{}, Bots(5800, 5), Bots(5800, 30)}, b \in {{}, Bots(5150, 1)}}

(* What decides in the end: a clear gain, a loss, or a gain that costs a bit. *)
Finals == {{}, Bots(6700, 100), Others(6700, 100), Bots(6700, 60) \cup Others(6690, 15)}

Searches ==
    {Corpus(Bots(6700, 100), way, Bots(6100, 100), Bots(6700, 100), 0) : way \in Down}
    \cup {Corpus(Others(7100, 100), way, Others(8300, 100), Others(7100, 100), 0) : way \in Up}
Verdicts ==
    {Corpus(first, Bots(6700, 20), Bots(6100, 100), fourth, wrong) :
        first \in Finals, fourth \in Finals, wrong \in {1, 10}}
Lowered ==
    {Corpus(Bots(5800, 100), way, Bots(5100, 100), Bots(5800, 100), 0) : way \in Low}

(* Corpora that are hard to split: labels without a date, a message whose   *)
(* reply was judged again after everything else, one session, no rows.      *)
Plain == Corpus({}, Bots(6700, 20), Bots(6100, 100), {}, 1)
Odd == {{}, {r \in Plain : r.session = 1}, {r \in Plain : r.session <= 2},
        {[r EXCEPT !.at = 0] : r \in Plain},
        {[r EXCEPT !.at = IF r.session = 2 THEN 0 ELSE @] : r \in Plain},
        {[r EXCEPT !.at = IF r.session = 3 /\ r.task = "reply" /\ r.msg = 1 THEN 99 ELSE @] :
            r \in Plain},
        {[r EXCEPT !.eligible = r.task # "reply"] : r \in Plain},
        {r \in Plain : r.task # "reply"}, {r \in Plain : r.task = "topic"}}

MCSituations ==
    Met(Searches, {MCDefault}, {Usual})
    \cup Met(Verdicts, {MCDefault, Low6}, {Usual})
    \cup Met(Lowered, {Low6, Tight6}, {Usual})
    \cup Met(Odd \cup Verdicts, {MCDefault}, Unusual)
=============================================================================
