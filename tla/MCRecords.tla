------------------------------ MODULE MCRecords -----------------------------
(* Three messages in two sessions, each with the few turns, labels and later *)
(* outcomes that make the readers of core/ disagree if they can.             *)
EXTENDS Records

Nothing == [value |-> "", delivered |-> {}, reason |-> "", stage |-> ""]
Missing == [kind |-> "missing", items |-> {}]
Listing(items) == [kind |-> "list", items |-> items]
Offer(topic, score, evidence) == [topic |-> topic, score |-> score, evidence |-> evidence]
Compared(experiment, hour, base, shadow) ==
    {[policy |-> TRUE, experiment |-> experiment, hour |-> hour, base |-> {base},
      shadow |-> {shadow}]}
Label(bot, topic, reply, rule, dated) ==
    [bot |-> bot, topic |-> topic, reply |-> reply, rule |-> rule, dated |-> dated]
Blank == Label({}, "", {}, {}, TRUE)

(* A scored turn the host admitted, with a list of two candidates. *)
Plain ==
    [hasTrace |-> TRUE, version |-> 3, codes |-> {"cue"}, total |-> {5200},
     level |-> "strong", targeted |-> TRUE, mode |-> "legacy", conf |-> 6000,
     ambiguous |-> FALSE,
     outcomes |-> [trace |-> {}, trace_routing |-> {}, routing |-> {}, record |-> {}],
     lists |-> [trace |-> Listing({Offer("a", {6000}, TRUE), Offer("b", {5600}, TRUE)}),
                routing |-> Missing],
     picked |-> [trace |-> "a", routing |-> ""], predicted |-> "a",
     shadow |-> Compared("x1", 1, TRUE, FALSE), labels |-> Blank, at |-> 0]

Unscored == [Plain EXCEPT !.total = {}, !.codes = {"cue"}, !.level = "weak",
                          !.version = 2, !.lists.trace = Missing,
                          !.lists.routing = Listing({Offer("a", {}, TRUE)}), !.shadow = {}]
Mentioned == [Plain EXCEPT !.codes = {"mention"}, !.total = {}, !.level = "",
                           !.lists.trace = [kind |-> "unreadable", items |-> {}],
                           !.picked.trace = ""]
Early == [Plain EXCEPT !.codes = {"ambient_baseline"}, !.total = {5200}, !.level = "weak",
                       !.targeted = FALSE, !.version = 4, !.lists.trace = Listing({}),
                       !.picked.trace = "", !.predicted = "", !.shadow = {}]
Fragment == [Plain EXCEPT !.codes = {}, !.total = {}, !.level = "", !.targeted = FALSE,
                          !.version = 0, !.mode = "", !.ambiguous = TRUE]
Untraced == [Plain EXCEPT !.hasTrace = FALSE, !.lists.routing = Listing({Offer("b", {7000}, FALSE)})]
InPersona == [Plain EXCEPT !.mode = "persona", !.total = {5600},
                           !.lists.trace = Listing({Offer("a", {6000}, FALSE), Offer("", {}, FALSE)}),
                           !.outcomes.trace = {[Nothing EXCEPT !.value = "suppressed",
                                                                   !.stage = "persona"]}]
Held == [Plain EXCEPT !.total = {4200}, !.level = "hover", !.targeted = FALSE,
                      !.shadow = Compared("x1", 2, FALSE, TRUE),
                      !.lists.trace = Listing({Offer("b", {5600}, TRUE)}),
                      !.predicted = "", !.picked.trace = ""]

MCSessionOf == [m1 |-> 1, m2 |-> 1, m3 |-> 2]
MCTurns == [m1 |-> {Unscored, Mentioned, Early, Fragment, Untraced, InPersona, Held},
            m2 |-> {Held}, m3 |-> {Held}]
MCLabels ==
    [m1 |-> {Label({TRUE}, "b", {TRUE}, {}, TRUE), Label({}, "NEW", {TRUE}, {FALSE}, FALSE)},
     m2 |-> {Label({TRUE}, "b", {TRUE}, {}, TRUE)},
     m3 |-> {Label({TRUE}, "", {TRUE}, {}, FALSE)}]
MCEndings ==
    [m1 |-> {[Nothing EXCEPT !.value = "in_flight", !.delivered = {FALSE}],
             [Nothing EXCEPT !.reason = "asleep_ambient"],
             [Nothing EXCEPT !.delivered = {FALSE}, !.reason = "some_new_reason"],
             [Nothing EXCEPT !.delivered = {TRUE}]},
     m2 |-> {}, m3 |-> {}]

MCPolicies ==
    {[strong |-> 5000, hover |-> 4000, commit |-> 5500],
     [strong |-> 5500, hover |-> 4000, commit |-> 6500],
     [strong |-> 4000, hover |-> 3500, commit |-> 5800]}
MCLeast4 == [strong |-> 3500, hover |-> 2500, commit |-> 3000]
MCMost4 == [strong |-> 9500, hover |-> 9000, commit |-> 9500]
MCRules ==
    [min_shadow_samples |-> 2, min_disagreements |-> 2, max_overall_regression |-> 1,
     target_absolute_improvement |-> 1, relative_min_baseline_error |-> 5,
     target_relative_improvement |-> 10, min_sessions |-> 2, min_active_hours |-> 1,
     subgroup_min_support |-> 2, subgroup_max_regression |-> 5]
=============================================================================
