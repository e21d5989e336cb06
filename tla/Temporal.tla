------------------------------ MODULE Temporal ------------------------------
(***************************************************************************)
(* types/time.hpp, types/date.hpp and types/datetime.hpp: the comparisons. *)
(*                                                                         *)
(* A value is the record of the fields of MYSQL_TIME that its class uses.  *)
(***************************************************************************)
EXTENDS Naturals

CONSTANT FieldValues  \* the values of one field that are compared

ASSUME TemporalAssumption == FieldValues \subseteq Nat

TimeFields == {"hour", "minute", "second"}
DateFields == {"year", "month", "day"}

\* The classes.
Times == [hour : FieldValues, minute : FieldValues, second : FieldValues, neg : BOOLEAN]
Dates == [year : FieldValues, month : FieldValues, day : FieldValues]
Datetimes ==
  [year : FieldValues, month : FieldValues, day : FieldValues, hour : FieldValues,
   minute : FieldValues, second : FieldValues, fraction : FieldValues]

\* The comparisons of Time ignore the sign and the fraction.
TimeEqual(a, b) == \A f \in TimeFields : a[f] = b[f]

TimeLess(a, b) ==
  \/ a.hour < b.hour
  \/ /\ ~(a.hour > b.hour)
     /\ \/ a.minute < b.minute
        \/ ~(a.minute > b.minute) /\ a.second < b.second

TimeAtMost(a, b) ==
  \/ a.hour < b.hour
  \/ /\ ~(a.hour > b.hour)
     /\ \/ a.minute < b.minute
        \/ ~(a.minute > b.minute) /\ a.second <= b.second

TimeGreater(a, b) ==
  \/ a.hour > b.hour
  \/ /\ ~(a.hour < b.hour)
     /\ \/ a.minute > b.minute
        \/ ~(a.minute < b.minute) /\ a.second > b.second

TimeAtLeast(a, b) ==
  \/ a.hour > b.hour
  \/ /\ ~(a.hour < b.hour)
     /\ \/ a.minute > b.minute
        \/ ~(a.minute < b.minute) /\ a.second >= b.second

DateEqual(a, b) == \A f \in DateFields : a[f] = b[f]

\* Fault: a later month does not decide.
DateLessMonth(a, b) ==
  \/ a.year < b.year
  \/ ~(a.year > b.year) /\ (a.month < b.month \/ a.day < b.day)

DateLess(a, b) ==
  \/ a.year < b.year
  \/ /\ ~(a.year > b.year)
     /\ \/ a.month < b.month
        \/ ~(a.month > b.month) /\ a.day < b.day

DateAtMost(a, b) ==
  \/ a.year < b.year
  \/ /\ ~(a.year > b.year)
     /\ \/ a.month < b.month
        \/ ~(a.month > b.month) /\ a.day <= b.day

DateGreater(a, b) ==
  \/ a.year > b.year
  \/ /\ ~(a.year < b.year)
     /\ \/ a.month > b.month
        \/ ~(a.month < b.month) /\ a.day > b.day

DateAtLeast(a, b) ==
  \/ a.year > b.year
  \/ /\ ~(a.year < b.year)
     /\ \/ a.month > b.month
        \/ ~(a.month < b.month) /\ a.day >= b.day

\* getDate() and getTime(): the time is built without a sign.
getDate(a) == [year |-> a.year, month |-> a.month, day |-> a.day]
getTime(a) == [hour |-> a.hour, minute |-> a.minute, second |-> a.second, neg |-> FALSE]

\* Datetime(Date, Time, fraction), setDate() and setTime(): a time's sign is lost.
MakeDatetime(date, time, fraction) ==
  [year |-> date.year, month |-> date.month, day |-> date.day,
   hour |-> time.hour, minute |-> time.minute, second |-> time.second,
   fraction |-> fraction]

DatetimeEqual(a, b) ==
  /\ DateEqual(getDate(a), getDate(b))
  /\ TimeEqual(getTime(a), getTime(b))
  /\ a.fraction = b.fraction

DatetimeLess(a, b) ==
  \/ DateLess(getDate(a), getDate(b))
  \/ /\ ~DateGreater(getDate(a), getDate(b))
     /\ \/ TimeLess(getTime(a), getTime(b))
        \/ ~TimeGreater(getTime(a), getTime(b)) /\ a.fraction < b.fraction

DatetimeAtMost(a, b) ==
  \/ DateLess(getDate(a), getDate(b))
  \/ /\ ~DateGreater(getDate(a), getDate(b))
     /\ \/ TimeLess(getTime(a), getTime(b))
        \/ ~TimeGreater(getTime(a), getTime(b)) /\ a.fraction <= b.fraction

DatetimeGreater(a, b) ==
  \/ DateGreater(getDate(a), getDate(b))
  \/ /\ ~DateLess(getDate(a), getDate(b))
     /\ \/ TimeGreater(getTime(a), getTime(b))
        \/ ~TimeLess(getTime(a), getTime(b)) /\ a.fraction > b.fraction

DatetimeAtLeast(a, b) ==
  \/ DateGreater(getDate(a), getDate(b))
  \/ /\ ~DateLess(getDate(a), getDate(b))
     /\ \/ TimeGreater(getTime(a), getTime(b))
        \/ ~TimeLess(getTime(a), getTime(b)) /\ a.fraction >= b.fraction

-----------------------------------------------------------------------------
(* Properties of any two values.                                            *)

\* The hand-written comparisons of a class are one order: exactly one of <, ==
\* and > holds, <= and >= are what they should be, and > is < the other way.
OneOrder(less, equal, greater, atMost, atLeast, lessBack) ==
  /\ \/ less /\ ~equal /\ ~greater
     \/ ~less /\ equal /\ ~greater
     \/ ~less /\ ~equal /\ greater
  /\ atMost <=> less \/ equal
  /\ atLeast <=> greater \/ equal
  /\ greater <=> lessBack

TimesOrdered(a, b) ==
  OneOrder(TimeLess(a, b), TimeEqual(a, b), TimeGreater(a, b),
           TimeAtMost(a, b), TimeAtLeast(a, b), TimeLess(b, a))

DatesOrdered(a, b) ==
  OneOrder(DateLess(a, b), DateEqual(a, b), DateGreater(a, b),
           DateAtMost(a, b), DateAtLeast(a, b), DateLess(b, a))

DatetimesOrdered(a, b) ==
  OneOrder(DatetimeLess(a, b), DatetimeEqual(a, b), DatetimeGreater(a, b),
           DatetimeAtMost(a, b), DatetimeAtLeast(a, b), DatetimeLess(b, a))

\* A Datetime that is taken apart and put together again is the same one.
PutTogether(a) == DatetimeEqual(a, MakeDatetime(getDate(a), getTime(a), a.fraction))
=============================================================================
