-------------------------------- MODULE TimeExpr --------------------------------
(***************************************************************************)
(* timeexpr.Parse (src/internal/timeexpr): what every scheduler of the      *)
(* agent reads a time with.  A request is asked at some instant and         *)
(* answered with an instant or refused.                                     *)
(*                                                                          *)
(* Instants count ticks, DayTicks a day, from the start of FirstYear, in    *)
(* one zone without shifts of its clock.  A request stands for the texts of *)
(* its form, whatever layout they are in.  The calendar is Go's (package    *)
(* time), and so are the integers: they and the instants have a width, and  *)
(* a count too long for it is cut to the largest integer, or wraps.         *)
(***************************************************************************)
EXTENDS Integers

CONSTANTS
  DayTicks,   \* instants of a day
  FirstYear, LastYear, \* bound: years the agent is asked in
  Half,       \* integers and instants are -Half..(Half - 1), 2^63 in the program
  Reach,      \* years, and so many of any other unit, that the integers have room for
  Counts      \* the counts an offset is asked with, however long

ASSUME TimeExprAssumption ==
  /\ DayTicks \in Nat \ {0} /\ Half \in Nat /\ Reach \in Nat /\ Counts \subseteq Nat
  /\ FirstYear \in Nat \ {0} /\ LastYear \in Nat /\ FirstYear <= LastYear
  /\ LastYear + Reach < Half
  /\ (372 * (LastYear - FirstYear + 2 + Reach)) * DayTicks <= Half

-----------------------------------------------------------------------------
(* Integers of the program. *)

Wrap(x) == ((x + Half) % (2 * Half)) - Half

\* strconv.Atoi, whose error is ignored: out of range it gives the largest integer.
Atoi(n) == IF n < Half THEN n ELSE Half - 1

-----------------------------------------------------------------------------
(* The calendar. *)

Leap(y) == y % 4 = 0 /\ (y % 100 # 0 \/ y % 400 = 0)
Lengths(y) == <<31, IF Leap(y) THEN 29 ELSE 28, 31, 30, 31, 30, 31, 31, 30, 31, 30, 31>>
SumTo(s, n) == LET sum[i \in 0..n] == IF i = 0 THEN 0 ELSE sum[i - 1] + s[i] IN sum[n]

\* Days before the year y, counted from the year 1.
DaysBefore(y) == 365 * (y - 1) + (y - 1) \div 4 - (y - 1) \div 100 + (y - 1) \div 400

\* time.Date: months beyond December run on into later years, days beyond the month into later
\* months.
Date(y, m, d) ==
  LET year == y + (m - 1) \div 12
      month == ((m - 1) % 12) + 1
  IN  DaysBefore(year) - DaysBefore(FirstYear) + SumTo(Lengths(year), month - 1) + d - 1

\* The date of each day.
Dates == [y : FirstYear..LastYear, m : 1..12, d : 1..31]
Calendar ==
  [day \in 0..(Date(LastYear, 12, 31)) |->
     CHOOSE c \in Dates : c.d <= Lengths(c.y)[c.m] /\ Date(c.y, c.m, c.d) = day]

AddDate(t, years, months, days) ==
  LET c == Calendar[t \div DayTicks]
      day == Date(Wrap(c.y + years), Wrap(c.m + months), Wrap(c.d + days))
  IN  Wrap(day * DayTicks + (t % DayTicks))

-----------------------------------------------------------------------------
(* Parse. *)

Units == {"day", "week", "month", "year"}

\* What can be asked at an instant, by form: an offset of the calendar, a duration (of any
\* sign; ParseDuration and the layouts keep it and a full timestamp within the integers), a
\* full timestamp, a time of the day, now, or what is none of these.
Requests(now) ==
  [form : {"offset"}, unit : Units, n : Counts]
  \cup [form : {"duration", "stamp"}, n : -Reach..Reach]
  \cup [form : {"clock"}, tick : 0..(DayTicks - 1)]
  \cup [form : {"now", "unknown"}]

Refused == [ok |-> FALSE]
At(t) == [ok |-> TRUE, at |-> t]

Offset(now, unit, n) ==
  CASE unit = "day"   -> AddDate(now, 0, 0, n)
    [] unit = "week"  -> AddDate(now, 0, 0, Wrap(7 * n))
    [] unit = "year"  -> AddDate(now, n, 0, 0)
    [] unit = "month" -> AddDate(now, 0, n, 0)

\* Mutant: the very moment counts as still ahead.
Clock_Now(now, tick) ==
  LET today == (now \div DayTicks) * DayTicks + tick
  IN  IF today >= now THEN today ELSE AddDate(today, 0, 0, 1)

\* Today if still ahead, else tomorrow.
Clock(now, tick) ==
  LET today == (now \div DayTicks) * DayTicks + tick
  IN  IF today > now THEN today ELSE AddDate(today, 0, 0, 1)

\* Mutant: a timestamp is taken as it is.
Stamp_Any(now, t) == At(t)

Stamp(now, t) == IF t < now THEN Refused ELSE At(t)

\* A timestamp is given by its distance from now.
Parse(r, now) ==
  CASE r.form = "now"      -> At(now)
    [] r.form = "offset"   -> At(Offset(now, r.unit, Atoi(r.n)))
    [] r.form = "duration" -> IF r.n < 0 THEN Refused ELSE At(now + r.n)
    [] r.form = "stamp"    -> Stamp(now, now + r.n)
    [] r.form = "clock"    -> At(Clock(now, r.tick))
    [] OTHER               -> Refused

VARIABLES now, request, answer
exchange == <<now, request, answer>>

Open == [ok |-> TRUE]
Asked ==
  /\ now \in 0..(DayTicks * (Date(LastYear, 12, 31) + 1) - 1)
  /\ request \in Requests(now)
  /\ answer = Open

Answer ==
  /\ answer = Open
  /\ answer' = Parse(request, now)
  /\ UNCHANGED <<now, request>>

AnswerSpec == Asked /\ [][Answer]_exchange

-----------------------------------------------------------------------------
(* Properties. *)

Answered == answer # Open
Given == Answered /\ answer.ok

\* An offset the integers need not have room for.
TooFar == request.form = "offset" /\ request.n > Reach

\* Only an offset the integers have no room for is answered in the past, where the ignored
\* error of Atoi and the products that wrap let it (the guarantee of Parse, "what stops a
\* reminder or errand from being scheduled into the past and firing immediately", holds for
\* every other request); and an instant that is still ahead is never refused.
NeverPast ==
  /\ Given /\ answer.at < now => TooFar
  /\ Answered /\ ~answer.ok => request.form = "unknown" \/ request.n < 0

\* The first day of each month, counted up month by month.
Months == 12 * (LastYear - FirstYear + Reach + 2)
MonthLength(k) == Lengths(FirstYear + (k - 1) \div 12)[((k - 1) % 12) + 1]
FirstDay == [k \in 1..Months |-> SumTo([i \in 1..Months |-> MonthLength(i)], k - 1)]

\* The day of the month k, n months later; where that month is too short it is as many days
\* into the next.
MonthsLater(day, n) ==
  LET k == CHOOSE i \in 1..(Months - 1) : FirstDay[i] <= day /\ day < FirstDay[i + 1]
  IN  FirstDay[k + n] + (day - FirstDay[k])

\* The answer is the instant that was meant, if the integers have room for it: the same time
\* of the day so many days or months on, across the ends of months, leap days and years, or
\* the first instant after now that shows the time asked for.
AsMeant ==
  LET day == now \div DayTicks
      onDay(d) == d * DayTicks + (now % DayTicks)
  IN
  Given =>
    /\ request.form = "offset" /\ ~TooFar =>
         answer.at = CASE request.unit = "day"   -> onDay(day + request.n)
                       [] request.unit = "week"  -> onDay(day + 7 * request.n)
                       [] request.unit = "month" -> onDay(MonthsLater(day, request.n))
                       [] request.unit = "year"  -> onDay(MonthsLater(day, 12 * request.n))
    /\ request.form = "clock" =>
         /\ answer.at % DayTicks = request.tick
         /\ answer.at \in (now + 1)..(now + DayTicks)
=============================================================================
