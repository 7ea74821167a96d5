------------------------------- MODULE Matrix -------------------------------
(***************************************************************************)
(* The Matrix (src/src/matrix): the rules, what each of them counts of a   *)
(* member's record, the scores and the standing; and the record itself,    *)
(* which officers keep: events, attendance and contributions               *)
(* (src/src/routes/admin-events.ts, admin-contributions.ts).  Nothing is   *)
(* cached, so a standing is a function of the tables and of the date it is *)
(* asked for; Reports takes one at the end of each month.                  *)
(*                                                                         *)
(* Each handler is one transaction that writes rows of its own, so the     *)
(* hazard is not in their interleaving but in what a sequence of them does *)
(* to the denominators.                                                    *)
(***************************************************************************)
EXTENDS Calendar, TLC

CONSTANTS
    MemberIds,    \* members.id
    Joined,       \* created_at::date of each, or the date of the commissioning
    Complete,     \* members whose profile is locked
    EventIds,     \* events.id, in their order
    PaymentIds,   \* contributions.id
    Rules,        \* the active matrix_rules
    Rule,         \* the row of each
    Floors,       \* contribution_expected_amounts of each category, 0 for none
    Config,       \* matrix_config
    NovenaItem,   \* the item_key of novenas
    Subscription, \* the category monthly_subscription
    Affiliations, \* the categories diocese_affiliation and deanery_affiliation
    DateRank,     \* where the text of a date stands in the order of the ids
    NewEvents,    \* what officers may enter: bodies of POST /events,
    Recurrences,  \* of POST /events/recurring,
    Novenas,      \* of POST /events/novena,
    Registers,    \* of PUT /events/:id/attendance and of its row,
    NewPayments,  \* of POST /contributions and its bulk form,
    Edits,        \* and of PATCH /contributions/:id
    MaxRows,      \* the rows the tables may hold in a bounded instance
    Null          \* SQL NULL, no row

Windows == {"rolling_months", "last_n_occurrences", "last_n_series",
            "mandatory", "monthly", "frequency", "last_n_paid"}
AttendanceWindows == {"rolling_months", "last_n_occurrences", "last_n_series"}
Categories == DOMAIN Floors

\* window_value is 0 where it is NULL; monthly is rolling_months per month, and
\* last_n_paid is last_n_occurrences of contributions.
MatrixRule == [category : {"spirituality", "financial"}, window : Windows, value : Nat,
               points : Nat, threshold : 0..100, gate : BOOLEAN, draws : SUBSET Categories]

EventTypes == {"wedding", "other"}
Statuses == {"present", "apology", "absent"}
Event == [item : Rules \cup {Null}, type : EventTypes, date : Dates,
          series : EventIds \cup {Null}]
Contribution ==
    [member : MemberIds, event : EventIds \cup {Null}, category : Categories, amount : Nat,
     month : Months \cup {Null}, year : Nat \cup {Null}, date : Dates]

\* The fields of a contribution that an officer sets.
Field == [event |-> EventIds \cup {Null}, category |-> Categories, amount |-> Nat,
          month |-> Months \cup {Null}, year |-> Nat \cup {Null}, date |-> Dates]

\* Points, minimums and amounts are in a unit small enough to be whole numbers.
Configuration ==
    [overall : Nat, spirituality : Nat, financial : Nat, attainable : Nat, affiliation : Nat,
     monthly : Nat, enforce : BOOLEAN, rescale : BOOLEAN, partial : BOOLEAN, gate : Categories]

ASSUME MatrixAssumption ==
    /\ Joined \in [MemberIds -> Dates]
    /\ Complete \subseteq MemberIds
    /\ EventIds \subseteq Nat
    /\ IsFiniteSet(EventIds) /\ IsFiniteSet(PaymentIds) /\ IsFiniteSet(Rules)
    /\ Floors \in [Categories -> Nat]
    /\ Rule \in [Rules -> MatrixRule]
    /\ Config \in Configuration
    /\ NovenaItem \in Rules
    /\ DateRank \in Nat
    /\ Null \notin Event \cup Contribution \cup Statuses \cup Rules \cup EventIds

\* What the schemas of the requests let through; a weekly series names no ordinals.
ASSUME InputAssumption ==
    /\ \A body \in NewEvents :
          body.item \in Rules \cup {Null} /\ body.type \in EventTypes /\ body.date \in Dates
    /\ \A q \in Recurrences :
          /\ q.item \in Rules \cup {Null} /\ q.type \in EventTypes
          /\ q.start \in Dates /\ q.end \in Dates
          /\ q.weekday \in 1..7 /\ q.ordinals \subseteq 1..5
    /\ \A q \in Novenas :
          q.start \in Dates /\ q.days \in Nat /\ q.start + q.days - 1 \in Dates
    /\ \A entries \in Registers :
          DOMAIN entries \subseteq MemberIds /\ \A m \in DOMAIN entries : entries[m] \in Statuses
    /\ \A body \in NewPayments : \A f \in DOMAIN Field : body[f] \in Field[f]
    /\ \A fields \in Edits : \A f \in DOMAIN fields : f \in DOMAIN Field /\ fields[f] \in Field[f]

VARIABLES
    events,         \* events
    attendance,     \* attendance of each member at each event
    contributions   \* contributions

matrixVars == <<events, attendance, contributions>>

Held == {e \in EventIds : events[e] # Null}
Recorded == {p \in PaymentIds : contributions[p] # Null}
Marked == {row \in MemberIds \X EventIds : attendance[row[1]][row[2]] # Null}
-----------------------------------------------------------------------------
(***************************************************************************)
(* What a rule counts (src/src/matrix/windows.ts).                         *)
(***************************************************************************)
\* ORDER BY ... LIMIT n
First(n, S, Before(_, _)) == {x \in S : Cardinality({y \in S : Before(y, x)}) < n}

\* SATISFIED
Satisfied(m, e) == attendance[m][e] \in {"present", "apology"}

\* Mutant: the date the member joined is left out.
WithinTerm(m, date, asOf) == date <= asOf

\* JOINED: what was held before the member joined, or is held after the day the
\* evaluation is made for, does not count.
Within(m, date, asOf) == Joined[m] <= date /\ date <= asOf

HeldFor(r, m, asOf) ==
    {e \in Held : events[e].item = r /\ Within(m, events[e].date, asOf)}

Rolling(r, m, asOf) ==
    {e \in HeldFor(r, m, asOf) :
        events[e].date >= RollingStart(Rule[r].value, asOf)}

LastOccurrences(r, m, asOf) ==
    LET Before(e, f) == \/ events[e].date > events[f].date
                        \/ (events[e].date = events[f].date /\ e < f)
    IN First(Rule[r].value, HeldFor(r, m, asOf), Before)

\* COALESCE(novena_series_id, id)
SeriesOf(e) == IF events[e].series = Null THEN e ELSE events[e].series

LastSeries(r, m, asOf) ==
    LET days == HeldFor(r, m, asOf)
        LastDay(s) == Max({events[e].date : e \in {d \in days : SeriesOf(d) = s}})
        Before(s, t) == LastDay(s) > LastDay(t) \/ (LastDay(s) = LastDay(t) /\ s < t)
        last == First(Rule[r].value, {SeriesOf(e) : e \in days}, Before)
    IN {e \in days : SeriesOf(e) \in last}

SumOf(payments) == Total([p \in payments |-> contributions[p].amount])
Drawn(r) == {p \in Recorded : contributions[p].category \in Rule[r].draws}
Of(m, payments) == {p \in payments : contributions[p].member = m}

LeastFloor(categories) ==
    LET set == {Floors[c] : c \in categories} \ {0}
    IN IF set = {} THEN 0 ELSE Min(set)

\* contributionMandatory: one thing to count, the year of the evaluation.
AffiliationPaid(r, m, asOf) ==
    Config.affiliation <= SumOf({p \in Of(m, Drawn(r)) :
                                   /\ contributions[p].year = YearOf(asOf)
                                   /\ contributions[p].date <= asOf})

\* contributionMonthly: the months of the window from that of joining on.
MonthsCounted(r, m, asOf) ==
    {k \in Months : /\ MonthOf(asOf) - Rule[r].value < k /\ k <= MonthOf(asOf)
                    /\ MonthOf(Joined[m]) <= k}

MonthPaid(r, m, k) ==
    LET paid == SumOf({p \in Of(m, Drawn(r)) : contributions[p].month = k})
    IN IF Config.partial THEN paid > 0 ELSE paid >= Config.monthly

\* contributionFrequency: the weddings of the window.
Weddings(r, m, asOf) ==
    {e \in Held : /\ events[e].type = "wedding"
                  /\ events[e].date >= RollingStart(Rule[r].value, asOf)
                  /\ Within(m, events[e].date, asOf)}

WeddingPaid(r, m, e) ==
    LET paid == SumOf({p \in Of(m, Drawn(r)) : contributions[p].event = e})
    IN paid > 0 /\ paid >= LeastFloor(Rule[r].draws)

\* COALESCE(event_id, date): contributions of anybody toward one event, or on one
\* day, are one occurrence.
KeyOf(p) == IF contributions[p].event # Null THEN <<"event", contributions[p].event>>
            ELSE <<"date", contributions[p].date>>
Rank(key) == IF key[1] = "event" THEN 2 * key[2] ELSE 2 * DateRank + 1

Toward(r, key) == {p \in Drawn(r) : KeyOf(p) = key}
Required(r, m, key, asOf) ==
    LeastFloor({contributions[p].category :
                  p \in {q \in Toward(r, key) : Within(m, contributions[q].date, asOf)}})

\* contributionLastNOccurrences
Occurrences(r, m, asOf) ==
    LET dated == {p \in Drawn(r) : Within(m, contributions[p].date, asOf)}
        On(key) == Max({contributions[p].date : p \in {q \in dated : KeyOf(q) = key}})
        Before(k, l) == On(k) > On(l) \/ (On(k) = On(l) /\ Rank(k) < Rank(l))
    IN First(Rule[r].value, {KeyOf(p) : p \in dated}, Before)

\* Mutant: the floor itself is not enough.
PaidMoreThanAsked(r, m, key, asOf) == SumOf(Of(m, Toward(r, key))) > Required(r, m, key, asOf)

OccurrencePaid(r, m, key, asOf) ==
    LET paid == SumOf(Of(m, Toward(r, key)))
    IN paid > 0 /\ paid >= Required(r, m, key, asOf)
-----------------------------------------------------------------------------
(***************************************************************************)
(* Scores and standing (src/src/matrix/engine.ts).                         *)
(***************************************************************************)
\* evaluateRule: what the rule counts, and which of it the member has met.
Counted(r, m, asOf) ==
    CASE Rule[r].window = "rolling_months" -> Rolling(r, m, asOf)
      [] Rule[r].window = "last_n_occurrences" -> LastOccurrences(r, m, asOf)
      [] Rule[r].window = "last_n_series" -> LastSeries(r, m, asOf)
      [] Rule[r].window = "mandatory" -> {YearOf(asOf)}
      [] Rule[r].window = "monthly" -> MonthsCounted(r, m, asOf)
      [] Rule[r].window = "frequency" -> Weddings(r, m, asOf)
      [] Rule[r].window = "last_n_paid" -> Occurrences(r, m, asOf)

Met(r, m, asOf, x) ==
    CASE Rule[r].window \in AttendanceWindows -> Satisfied(m, x)
      [] Rule[r].window = "mandatory" -> AffiliationPaid(r, m, asOf)
      [] Rule[r].window = "monthly" -> MonthPaid(r, m, x)
      [] Rule[r].window = "frequency" -> WeddingPaid(r, m, x)
      [] Rule[r].window = "last_n_paid" -> OccurrencePaid(r, m, x, asOf)

Tally(r, m, asOf) ==
    LET counted == Counted(r, m, asOf)
    IN [item |-> r, total |-> Cardinality(counted),
        count |-> Cardinality({x \in counted : Met(r, m, asOf, x)})]

\* The items that apply: those with something to measure against.
Items(m, asOf) == {i \in {Tally(r, m, asOf) : r \in Rules} : i.total > 0}

\* What an item scores, in parts of a point: Parts is divisible by every total.
Parts == 12
ThresholdMet(i) == 100 * i.count >= Rule[i.item].threshold * i.total
ItemScore(i) ==
    IF Rule[i.item].gate /\ ~ThresholdMet(i) THEN 0
    ELSE (Rule[i.item].points * Parts * i.count) \div i.total

In(category) == {r \in Rules : Rule[r].category = category}
Points(rules) == Total([r \in rules |-> Rule[r].points])
Score(items) == Total([i \in items |-> ItemScore(i)])
Attainable(items) == Points({i.item : i \in items})

\* Mutant: the thresholds stay what they are for a full record.
Unscaled(items, rules, least) == Score({i \in items : i.item \in rules}) >= least * Parts

\* The minimum shrinks with what the member could attain of the points there are.
Reaches(items, rules, least) ==
    LET scored == {i \in items : i.item \in rules}
    IN IF Config.rescale /\ Points(rules) > 0
       THEN Score(scored) * Points(rules) >= least * Attainable(scored) * Parts
       ELSE Score(scored) >= least * Parts

\* evaluateGate
GatePassed(m, asOf) ==
    /\ m \in Complete
    /\ Config.affiliation <= SumOf({p \in Of(m, Recorded) :
                                      /\ contributions[p].category = Config.gate
                                      /\ contributions[p].year = YearOf(asOf)
                                      /\ contributions[p].date <= asOf})

Standing(m, asOf) ==
    LET items == Items(m, asOf)
        meetsCategories ==
            \/ ~Config.enforce
            \/ /\ Reaches(items, In("spirituality"), Config.spirituality)
               /\ Reaches(items, In("financial"), Config.financial)
    IN CASE ~GatePassed(m, asOf) -> "ineligible_gate"
         [] GatePassed(m, asOf) /\ Attainable(items) < Config.attainable ->
              "insufficient_history"
         [] OTHER -> IF Reaches(items, Rules, Config.overall) /\ meetsCategories
                     THEN "in_good_standing" ELSE "below_threshold"
-----------------------------------------------------------------------------
(***************************************************************************)
(* What officers do to the record.                                         *)
(***************************************************************************)
MatrixInit ==
    /\ events = [e \in EventIds |-> Null]
    /\ attendance = [m \in MemberIds |-> [e \in EventIds |-> Null]]
    /\ contributions = [p \in PaymentIds |-> Null]

Room(rows) == Cardinality(Held) + Cardinality(Recorded) + Cardinality(Marked) + rows <= MaxRows

\* assertScorableKey
Scorable(item) == item \in Rules => Rule[item].window \in AttendanceWindows

\* Ids are drawn at random, so that their order says nothing of the dates.
FreshIds(S, free) == {id \in [S -> free] : \A x, y \in S : id[x] = id[y] => x = y}

AddEvents(dates, item, type, inSeries) ==
    /\ Room(Cardinality(dates))
    /\ \E id \in FreshIds(dates, EventIds \ Held) :
         events' = [e \in EventIds |->
             IF \E d \in dates : id[d] = e
             THEN [item |-> item, type |-> type, date |-> CHOOSE d \in dates : id[d] = e,
                   series |-> IF inSeries THEN id[Min(dates)] ELSE Null]
             ELSE events[e]]
    /\ UNCHANGED <<attendance, contributions>>

CreateEvent(body) ==
    /\ Scorable(body.item)
    /\ AddEvents({body.date}, body.item, body.type, FALSE)

\* A weekly series names no ordinals.
RecurringDates(q) ==
    IF q.ordinals = {} THEN WeeklyDates(q.start, q.end, q.weekday)
    ELSE MonthlyOrdinalDates(q.start, q.end, q.weekday, q.ordinals)

DatesOf == [q \in Recurrences |-> RecurringDates(q)]

CreateRecurring(q) ==
    /\ Scorable(q.item)
    /\ q.start <= q.end
    /\ q.end - q.start <= 400
    /\ Cardinality(DatesOf[q]) \in 1..120
    /\ AddEvents(DatesOf[q], q.item, q.type, FALSE)

CreateNovena(q) == AddEvents(q.start..(q.start + q.days - 1), NovenaItem, "other", TRUE)

\* An event somebody was marked at, or that money was given toward, stays.  So
\* does one that sheets were printed for, which are not modelled here.
DeleteEvent(e) ==
    /\ e \in Held
    /\ \A m \in MemberIds : attendance[m][e] = Null
    /\ \A p \in Recorded : contributions[p].event # e
    /\ events' = [events EXCEPT ![e] = Null]
    /\ UNCHANGED <<attendance, contributions>>

\* The register as a whole, or the row of one member.
SaveRegister(e, entries) ==
    /\ e \in Held
    /\ Room(Cardinality({m \in DOMAIN entries : attendance[m][e] = Null}))
    /\ attendance' = [m \in MemberIds |->
           IF m \in DOMAIN entries THEN [attendance[m] EXCEPT ![e] = entries[m]]
           ELSE attendance[m]]
    /\ UNCHANGED <<events, contributions>>

Referable(event) == event \in Held \cup {Null}

\* normalise
MonthFor(body) ==
    IF body.month = Null /\ body.category = Subscription THEN MonthOf(body.date) ELSE body.month
YearFor(body) ==
    IF body.year = Null /\ body.category \in Affiliations THEN YearOf(body.date) ELSE body.year

Payment(m, body) ==
    [member |-> m, event |-> body.event, category |-> body.category, amount |-> body.amount,
     month |-> MonthFor(body), year |-> YearFor(body), date |-> body.date]

\* One member's contribution, or that of several to the same thing.
Contribute(payers, body) ==
    /\ Referable(body.event)
    /\ Room(Cardinality(payers))
    /\ \E id \in FreshIds(payers, PaymentIds \ Recorded) :
         contributions' = [p \in PaymentIds |->
             IF \E m \in payers : id[m] = p
             THEN Payment(CHOOSE m \in payers : id[m] = p, body) ELSE contributions[p]]
    /\ UNCHANGED <<events, attendance>>

\* Only the fields of the body change: nothing is normalised.
EditContribution(p, fields) ==
    /\ p \in Recorded
    /\ "event" \in DOMAIN fields => Referable(fields.event)
    /\ contributions' = [contributions EXCEPT ![p] =
           [f \in DOMAIN @ |-> IF f \in DOMAIN fields THEN fields[f] ELSE @[f]]]
    /\ UNCHANGED <<events, attendance>>

DeleteContribution(p) ==
    /\ p \in Recorded
    /\ contributions' = [contributions EXCEPT ![p] = Null]
    /\ UNCHANGED <<events, attendance>>

MatrixNext ==
    \/ \E body \in NewEvents : CreateEvent(body)
    \/ \E q \in Recurrences : CreateRecurring(q)
    \/ \E q \in Novenas : CreateNovena(q)
    \/ \E e \in EventIds : DeleteEvent(e)
    \/ \E e \in EventIds, entries \in Registers : SaveRegister(e, entries)
    \/ \E payers \in SUBSET MemberIds \ {{}}, body \in NewPayments : Contribute(payers, body)
    \/ \E p \in PaymentIds, fields \in Edits : EditContribution(p, fields)
    \/ \E p \in PaymentIds : DeleteContribution(p)

MatrixSpec == MatrixInit /\ [][MatrixNext]_matrixVars
-----------------------------------------------------------------------------
MatrixTypeOK ==
    /\ events \in [EventIds -> Event \cup {Null}]
    /\ attendance \in [MemberIds -> [EventIds -> Statuses \cup {Null}]]
    /\ contributions \in [PaymentIds -> Contribution \cup {Null}]

\* The days a standing is taken as of: the ends of the months of the last events.
Snapshots == {PeriodEnd(Horizon - 2), PeriodEnd(Horizon - 1)}
Today == PeriodEnd(Horizon - 1)

Attended(m) ==
    /\ UNCHANGED <<events, contributions>>
    /\ \A e \in EventIds : attendance'[m][e] # attendance[m][e] => attendance'[m][e] # "absent"

\* At least what any category its rule draws on asks.
Enough(payment) ==
    /\ payment.amount > 0
    /\ \A r \in Rules : payment.category \in Rule[r].draws =>
         \A c \in Rule[r].draws : payment.amount >= Floors[c]

PaidEnough(m) ==
    LET new == {p \in PaymentIds : contributions'[p] # contributions[p]}
    IN /\ UNCHANGED <<events, attendance>>
       /\ \A p \in new : contributions[p] = Null /\ Enough(contributions'[p])
       /\ \E p \in new : contributions'[p].member = m

\* Coming to a meeting, or sending an apology, and paying what is due never cost
\* a member anything today: no item counts for less of what it is measured against,
\* and good standing is not lost.  A payment is itself an occurrence, and widens the
\* denominator it is counted in.
GoodDeedsNeverHurt ==
    [][\A m \in MemberIds : Attended(m) \/ PaidEnough(m) =>
         /\ \A r \in Rules :
              LET before == Tally(r, m, Today)
                  after == Tally(r, m, Today)'
              IN after.count * before.total >= before.count * after.total
         /\ Standing(m, Today) = "in_good_standing" =>
               Standing(m, Today)' = "in_good_standing"]_matrixVars

OutsideTime(e, m, asOf) ==
    \A row \in {events[e], events'[e]} \ {Null} : ~(Joined[m] <= row.date /\ row.date <= asOf)

Touched ==
    {e \in EventIds : \/ events'[e] # events[e]
                      \/ \E m \in MemberIds : attendance'[m][e] # attendance[m][e]}

\* A member is never measured against what was held before he joined, nor as of
\* a day against what came later: recording, marking or deleting such events
\* leaves his record as of that day as it was.
OnlyItsTimeCounts ==
    [][\A m \in MemberIds, asOf \in Snapshots :
         contributions' = contributions /\ (\A e \in Touched : OutsideTime(e, m, asOf)) =>
           Items(m, asOf)' = Items(m, asOf)]_matrixVars

\* What was not held does not count against a member: whoever met all there was
\* is not below the threshold.
UnheldCostsNothing ==
    \A m \in MemberIds, asOf \in Snapshots :
        (\A i \in Items(m, asOf) : i.count = i.total) => Standing(m, asOf) # "below_threshold"

\* The windows of successive months leave no gap: an event counts at the end of
\* as many months as the window is long, unless the member was not there yet.
NoEventFallsBetween ==
    \A e \in Held, m \in MemberIds :
        LET r == events[e].item
        IN (r # Null /\ Joined[m] <= events[e].date /\ Rule[r].window = "rolling_months") =>
             \A k \in Months :
                k >= MonthOf(events[e].date) /\ k < MonthOf(events[e].date) + Rule[r].value =>
                    e \in Counted(r, m, PeriodEnd(k))

\* A recurring event is entered once for each day the calendar says it is held on.
SeriesFallOnTheirDays ==
    [][\A q \in Recurrences : events' # events /\ CreateRecurring(q) =>
         {events'[e].date : e \in {f \in EventIds : events'[f] # events[f]}}
            = {day \in q.start..q.end :
                 IsOccasion(day, q.weekday, IF q.ordinals = {} THEN 1..5
                                            ELSE q.ordinals)}]_matrixVars
-----------------------------------------------------------------------------
\* "A contribution below the amount for its category does not satisfy that
\* occurrence" (README.md:154-155).
LessDoesNotSatisfy ==
    \A m \in MemberIds, asOf \in Snapshots, r \in Rules :
        Rule[r].window = "last_n_paid" =>
            \A key \in Counted(r, m, asOf) :
                LET mine == Of(m, Toward(r, key))
                IN (\E p \in mine : mine = {p} /\ contributions[p].amount
                                                      < Floors[contributions[p].category])
                     => ~Met(r, m, asOf, key)
=============================================================================
