------------------------------ MODULE MCMatrix ------------------------------
(***************************************************************************)
(* An instance of Matrix for TLC: the first quarter of 2026, a member from *)
(* before it and one who joins on the 15th of February, one rule of every  *)
(* kind, and the dates at which a window begins or ends.                   *)
(***************************************************************************)
EXTENDS Matrix

CONSTANTS m1, m2

Day(month, day) == FirstOf[month] + day - 1

MCJoined == [m \in MemberIds |-> IF m = m1 THEN 1 ELSE Day(13, 15)]

R(category, window, value, points, threshold, gate, draws) ==
    [category |-> category, window |-> window, value |-> value, points |-> points,
     threshold |-> threshold, gate |-> gate, draws |-> draws]

MCRule ==
    [mass |-> R("spirituality", "rolling_months", 1, 20, 75, FALSE, {}),
     seminars |-> R("spirituality", "last_n_occurrences", 1, 20, 75, TRUE, {}),
     novena |-> R("spirituality", "last_n_series", 1, 20, 75, FALSE, {}),
     affiliation |-> R("financial", "mandatory", 0, 10, 100, FALSE, {"diocese"}),
     monthly |-> R("financial", "monthly", 1, 10, 60, FALSE, {"subscription"}),
     weddings |-> R("financial", "frequency", 1, 10, 60, FALSE, {"wedding"}),
     other |-> R("financial", "last_n_paid", 1, 10, 60, TRUE, {"deanery", "sick", "visit"})]

MCFloors == [diocese |-> 0, subscription |-> 0, wedding |-> 2, deanery |-> 3, sick |-> 2, visit |-> 0]

MCConfig ==
    [overall |-> 60, spirituality |-> 30, financial |-> 20, attainable |-> 20, enforce |-> TRUE,
     rescale |-> TRUE, affiliation |-> 1, gate |-> "diocese", monthly |-> 1, partial |-> FALSE]

E(item, type, date) == [item |-> item, type |-> type, date |-> date, series |-> Null]

MCNewEvents ==
    {E("mass", "other", Day(14, 1)),
     E("seminars", "other", Day(13, 28)), E("novena", "other", Day(14, 1)),
     E(Null, "wedding", Day(14, 1))}

S(start, end, weekday, ordinals) ==
    [item |-> "mass", type |-> "other", start |-> start, end |-> end, weekday |-> weekday,
     ordinals |-> ordinals]

MCRecurrences ==
    {S(Day(13, 8), Day(13, 26), 5, {}), S(Day(13, 23), Day(14, 30), 1, {5}),
     S(Day(14, 10), Day(14, 29), 7, {2, 5})}

MCNovenas == {[start |-> Day(13, 14), days |-> 2]}

MCRegisters ==
    {[m \in {m1} |-> "present"], [m \in {m1} |-> "apology"], [m \in {m2} |-> "present"],
     [m \in {m2} |-> "absent"], [m \in MemberIds |-> IF m = m1 THEN "absent" ELSE "apology"]}

P(category, amount, date, event) ==
    [category |-> category, amount |-> amount, date |-> date, event |-> event, month |-> Null,
     year |-> Null]

MCNewPayments ==
    {P("diocese", 1, Day(12, 5), Null), P("subscription", 1, Day(13, 5), Null),
     P("wedding", 2, Day(14, 2), 1), P("visit", 3, Day(14, 2), 1), P("deanery", 2, Day(13, 20), Null),
     P("deanery", 3, Day(13, 27), Null), P("sick", 2, Day(13, 20), Null)}

MCEdits == {[amount |-> 1]}

Symmetry == Permutations(PaymentIds)
=============================================================================
