------------------------------ MODULE Schedule ------------------------------
(***************************************************************************)
(* SpecSchedule.Next (spec.go) as a machine whose steps are the rounds of  *)
(* its loops, after the parser has made the schedule.                      *)
(*                                                                         *)
(* Times are whole seconds since the first instant of year 1 in UTC: Next  *)
(* drops what is below a second before it looks at a time.  The calendar   *)
(* is smaller than ours and otherwise like it: months of different length, *)
(* years of different length, weeks that fit neither, and time zones whose *)
(* clocks are put an hour forward and back.  time.Date, AddDate, Truncate  *)
(* and Add are modelled after src/time/time.go.                            *)
(***************************************************************************)
EXTENDS Parser

CONSTANTS
  Dates,              \* the days of the calendar in order, [year, month, day,
                      \* length of the month]
  HoursPerDay, MinutesPerHour, SecondsPerMinute, DaysPerWeek,
  YearLimit,          \* 5 in the code
  Queries             \* [text, from, zone]: what Next is asked

\* parser.go:40-84: a spec is fields or a descriptor, for a parser whose
\* options NewParser accepts.
ASSUME QueryAssumption ==
  \A q \in Queries :
    /\ q.text.descriptor \in {Absent, "@yearly", "@monthly", "@weekly", "@daily", "@hourly"}
    /\ q.text.fields \in Seq(FieldTexts)
    /\ Cardinality(Optionals(q.text.options)) <= 1

VARIABLES
  query,   \* the spec as it was written, the time and the zone given
  fields,  \* the fields of the spec, normalized
  bits,    \* the fields of the SpecSchedule
  pc,      \* "normalize", "parse", a label or loop of Next, "done" or "rejected"
  t, added, yearLimit

vars == <<query, fields, bits, pc, t, added, yearLimit>>

Hour == MinutesPerHour * SecondsPerMinute
Day  == HoursPerDay * Hour

-----------------------------------------------------------------------------
(* The calendar *)

\* Location.lookup: the offset of a zone at an instant.
Summer(z, u)   == z.spring <= u /\ u < z.fall
OffsetAt(z, u) == (z.base + (IF Summer(z, u) THEN 1 ELSE 0)) * Hour

\* The clock of a zone at an instant, in seconds since year 1 began there.
Clock(z, u) == u + OffsetAt(z, u)

\* The day of a time, counted from 0, and its date.
DayOf(z, u)  == Clock(z, u) \div Day
DateOf(z, u) == Dates[DayOf(z, u) + 1]
YearOf(z, u) == DateOf(z, u).year

\* The fields of a time, in the order of the fields of a schedule.
Fields(z, u) ==
  LET c == Clock(z, u)
      d == DateOf(z, u)
  IN  <<c % SecondsPerMinute, (c \div SecondsPerMinute) % MinutesPerHour,
        (c \div Hour) % HoursPerDay, d.day, d.month, DayOf(z, u) % DaysPerWeek>>

\* Date: the instant at which the clock shows c, if there is one.  The offset
\* is looked up as if c were UTC, and once more if that was across a change.
Date(z, c) ==
  LET offset == OffsetAt(z, c)
      utc    == c - offset
      begins == IF c >= z.fall THEN z.fall ELSE IF c >= z.spring THEN z.spring ELSE -Day
      ends   == IF c < z.spring THEN z.spring ELSE IF c < z.fall THEN z.fall ELSE -1
  IN  IF offset = 0 THEN c
      ELSE IF utc < begins THEN c - OffsetAt(z, begins - 1)
      ELSE IF ends # -1 /\ utc >= ends THEN c - OffsetAt(z, ends)
      ELSE utc

\* The first round of a loop resets the fields below its own.
MonthReset(z, u) == Date(z, (DayOf(z, u) - DateOf(z, u).day + 1) * Day)
DayReset(z, u)   == Date(z, DayOf(z, u) * Day)
HourReset(z, u)  == Date(z, (Clock(z, u) \div Hour) * Hour)
Truncated(u)     == (u \div SecondsPerMinute) * SecondsPerMinute

\* AddDate(0, 1, 0): the same day and time of the next month.
NextMonth(z, u) == Date(z, Clock(z, u) + DateOf(z, u).length * Day)

\* Mutant of NextDay: a midnight that a change of the clock skips is not noticed.
NextDayPlain(z, u) == Date(z, Clock(z, u) + Day)

\* Mutant of NextDay: the hour is subtracted whether it is 1 or 23.
NextDayBack(z, u) ==
  LET next == Date(z, Clock(z, u) + Day) IN next - Fields(z, next)[3] * Hour

\* AddDate(0, 0, 1), and back to midnight if the clock was changed.
NextDay(z, u) ==
  LET next == Date(z, Clock(z, u) + Day)
      hour == Fields(z, next)[3]
  IN  IF hour > HoursPerDay \div 2 THEN next + (HoursPerDay - hour) * Hour
      ELSE next - hour * Hour

-----------------------------------------------------------------------------
(* What is assumed of the calendar *)

\* The units of a clock, and fields that leave the top bit to the star.
ASSUME UnitsAssumption ==
  /\ {HoursPerDay, MinutesPerHour, SecondsPerMinute, DaysPerWeek} \subseteq 1..(Word - 1)
  /\ YearLimit \in Nat

\* A month is its days in order, and after it the next one begins; a year ends
\* with a month, before the month with number 1.
ASSUME DatesAssumption ==
  /\ Dates \in Seq([year : Nat, month : 1..(Word - 2), day : 1..(Word - 2), length : 1..(Word - 2)])
  /\ \A k \in 1..Len(Dates) :
       LET d == Dates[k]
       IN  /\ d.day <= d.length /\ d.day <= k /\ k + d.length - d.day <= Len(Dates)
           /\ \A day \in 1..d.length : Dates[k + day - d.day] = [d EXCEPT !.day = day]
  /\ \A k \in 2..Len(Dates) :
       /\ Dates[k - 1].day = Dates[k - 1].length => Dates[k].day = 1
       /\ Dates[k].month # 1 => Dates[k].year = Dates[k - 1].year
  /\ \A j, k \in 1..Len(Dates) : j <= k => Dates[j].year <= Dates[k].year

\* The calendar has more days than are asked for, and no clock is a day ahead.
ASSUME ZonesAssumption ==
  \A q \in Queries :
    /\ q.from \in Nat /\ q.zone.spring \in Int /\ q.zone.fall \in Int
    /\ q.zone.base \in (1 - HoursPerDay)..(HoursPerDay - 2)
    /\ DayOf(q.zone, q.from + 1) \in 0..(Len(Dates) - 2)
    /\ Dates[Len(Dates) - 1].year > YearOf(q.zone, q.from + 1) + YearLimit

\* Clocks are changed at full hours, and a summer is more than an hour longer
\* than a day.
ASSUME ChangesAssumption ==
  \A q \in Queries :
    q.zone.spring < q.zone.fall =>
      /\ q.zone.spring % Hour = 0 /\ q.zone.fall % Hour = 0
      /\ q.zone.spring + Day + Hour < q.zone.fall

\* 1:00 is in the first half of a day and the last hour in the second; a second
\* and a minute that a spec names are on the clock.
ASSUME ClockAssumption ==
  HoursPerDay > 2 /\ Bounds[1].max < SecondsPerMinute /\ Bounds[2].max < MinutesPerHour

-----------------------------------------------------------------------------
(* Next *)

Bit(i, u) == Fields(query.zone, u)[i] \in bits[i]

\* dayMatches: both days, or either if neither field was written as a star.
DayMatches(u) ==
  IF StarBit \in bits[4] \/ StarBit \in bits[6]
  THEN Bit(4, u) /\ Bit(6, u)
  ELSE Bit(4, u) \/ Bit(6, u)

Init ==
  /\ query \in Queries
  /\ fields = <<>> /\ bits = <<>> /\ pc = "normalize"
  /\ t = 0 /\ added = FALSE /\ yearLimit = 0

\* Parse, up to the fields; a descriptor is looked up instead, if the options
\* allow it.
Normalize ==
  /\ pc = "normalize" /\ pc' = "parse"
  /\ LET text == query.text
     IN  IF text.descriptor = Absent
         THEN fields' = NormalizeFields(text.fields, text.options) /\ UNCHANGED bits
         ELSE /\ bits' = IF "Descriptor" \in text.options
                         THEN ParseDescriptor(text.descriptor) ELSE Error
              /\ UNCHANGED fields
  /\ UNCHANGED <<query, t, added, yearLimit>>

\* The rest of Parse, and Next up to WRAP: the upcoming second, and the limit.
Begin ==
  /\ pc = "parse"
  /\ bits' = IF query.text.descriptor = Absent THEN ParseFields(fields) ELSE bits
  /\ pc' = IF bits' = Error THEN "rejected" ELSE "WRAP"
  /\ t' = query.from + 1
  /\ yearLimit' = YearOf(query.zone, query.from + 1) + YearLimit
  /\ UNCHANGED <<query, fields, added>>

\* Mutant of Wrap: the year after the limit is searched as well.
WrapLate ==
  /\ pc = "WRAP"
  /\ IF YearOf(query.zone, t) > yearLimit + 1
     THEN pc' = "done" /\ t' = 0
     ELSE pc' = "month" /\ UNCHANGED t
  /\ UNCHANGED <<query, fields, bits, added, yearLimit>>

\* WRAP: no time is found within the limit.
Wrap ==
  /\ pc = "WRAP"
  /\ IF YearOf(query.zone, t) > yearLimit
     THEN pc' = "done" /\ t' = 0
     ELSE pc' = "month" /\ UNCHANGED t
  /\ UNCHANGED <<query, fields, bits, added, yearLimit>>

\* Where a loop increments its field: the first loop to do so resets what is
\* below its field before.
From(reset) == IF added THEN t ELSE reset

\* A loop of Next: on to the next loop if the field matches, else on to the
\* time with the field incremented, and to WRAP if the field, the i-th, came
\* to its first value.
Loop(here, matches, next, i, first, incremented) ==
  /\ pc = here
  /\ IF matches
     THEN pc' = next /\ UNCHANGED <<t, added>>
     ELSE /\ t' = incremented
          /\ added' = TRUE
          /\ pc' = IF Fields(query.zone, t')[i] = first THEN "WRAP" ELSE here
  /\ UNCHANGED <<query, fields, bits, yearLimit>>

MonthLoop ==
  Loop("month", Bit(5, t), "day", 5, 1, NextMonth(query.zone, From(MonthReset(query.zone, t))))

DayLoop ==
  Loop("day", DayMatches(t), "hour", 4, 1, NextDay(query.zone, From(DayReset(query.zone, t))))

HourLoop ==
  Loop("hour", Bit(3, t), "minute", 3, 0, From(HourReset(query.zone, t)) + Hour)

MinuteLoop ==
  Loop("minute", Bit(2, t), "second", 2, 0, From(Truncated(t)) + SecondsPerMinute)

SecondLoop ==
  Loop("second", Bit(1, t), "done", 1, 0, From(t) + 1)

Next == Normalize \/ Begin \/ Wrap \/ MonthLoop \/ DayLoop \/ HourLoop \/ MinuteLoop \/ SecondLoop

Spec == Init /\ [][Next]_vars /\ WF_vars(Next)
-----------------------------------------------------------------------------
(* What a spec means, taken from its text and not from the bits *)

\* The values of one range of a field: every step-th from the first to the last.
Meant(e, r) ==
  LET first == IF e.low = Star THEN r.min ELSE e.low
      last  == IF e.low # Star /\ e.high # Absent THEN e.high
               ELSE IF e.low # Star /\ e.step = Absent THEN e.low
               ELSE r.max
      step  == IF e.step = Absent THEN 1 ELSE e.step
  IN  IF first >= r.min /\ first <= last /\ last <= r.max /\ step > 0
      THEN {first + k * step : k \in 0..((last - first) \div step)}
      ELSE Error

Unrestricted(field) ==
  \E n \in 1..Len(field) : field[n].low = Star /\ field[n].step \in {Absent, 1}

\* What an operator gives for each of the six fields.
EachField(Value(_)) == <<Value(1), Value(2), Value(3), Value(4), Value(5), Value(6)>>

\* The field of a spec that is at a place: fields stand in the order of the
\* places, and the one that was left out is the optional one.
Written(text, i) ==
  LET fixed    == {j \in 1..6 : Places[j] \in text.options}
      optional == {j \in {1, 6} : (IF j = 1 THEN "SecondOptional" ELSE "DowOptional") \in text.options}
      given    == IF Len(text.fields) = Cardinality(fixed \ optional)
                  THEN fixed \ optional ELSE fixed \cup optional
  IN  IF Cardinality(given) # Len(text.fields) THEN Error
      ELSE IF i \in given THEN text.fields[Cardinality({j \in given : j <= i})]
      ELSE IF i <= 3 THEN <<ZeroRange>> ELSE <<StarRange>>

\* The expressions doc.go gives for the descriptors, with their seconds.
Equivalent(descriptor) ==
  LET at(v)  == <<[low |-> v, high |-> Absent, step |-> Absent]>>
      any    == <<StarRange>>
  IN  CASE descriptor = "@yearly"  -> <<at(0), at(0), at(0), at(1), at(1), any>>
        [] descriptor = "@monthly" -> <<at(0), at(0), at(0), at(1), any, any>>
        [] descriptor = "@weekly"  -> <<at(0), at(0), at(0), any, any, at(0)>>
        [] descriptor = "@daily"   -> <<at(0), at(0), at(0), any, any, any>>
        [] descriptor = "@hourly"  -> <<at(0), at(0), any, any, any, any>>

SpecFields(text) ==
  IF text.descriptor = Absent THEN EachField(LAMBDA i : Written(text, i))
  ELSE Equivalent(text.descriptor)

Invalid(text) ==
  IF text.descriptor # Absent THEN "Descriptor" \notin text.options
  ELSE \E i \in 1..6 : \/ Written(text, i) = Error
                       \/ \E n \in 1..Len(Written(text, i)) :
                            Meant(Written(text, i)[n], Bounds[i]) = Error

\* The meaning of a valid spec: the values of its fields, and whether the day
\* of the month and that of the week restrict each other.
Meaning(text) ==
  LET spec == SpecFields(text)
  IN  [values |-> EachField(LAMBDA i : UNION {Meant(spec[i][n], Bounds[i]) : n \in 1..Len(spec[i])}),
       stars  |-> {i \in 1..6 : Unrestricted(spec[i])}]

\* The instants at which a job is to be activated.
Matches(meaning, z, u) ==
  LET f     == Fields(z, u)
      ok(i) == f[i] \in meaning.values[i]
  IN  /\ \A i \in {1, 2, 3, 5} : ok(i)
      /\ IF meaning.stars \cap {4, 6} # {} THEN ok(4) /\ ok(6) ELSE ok(4) \/ ok(6)

\* The instants Next has to look at.
Searched(q) ==
  LET last == YearOf(q.zone, q.from + 1) + YearLimit
  IN  {u \in (q.from + 1)..((Len(Dates) - 1) * Day) : YearOf(q.zone, u) <= last}

-----------------------------------------------------------------------------
\* parser.go:105-374: a spec is rejected exactly if it is not valid, and the
\* bits of a field are the values it names, with the star where it was written.
ParsedAsWritten ==
  /\ pc = "rejected" => Invalid(query.text)
  /\ pc = "WRAP" /\ ~added =>
       /\ ~Invalid(query.text)
       /\ LET meaning == Meaning(query.text)
          IN  bits = EachField(LAMBDA i : meaning.values[i]
                                          \cup (IF i \in meaning.stars THEN {StarBit} ELSE {}))

\* The instants within the limit at which a job is to be activated.
Due(q) ==
  LET meaning == Meaning(q.text) IN {u \in Searched(q) : Matches(meaning, q.zone, u)}

\* The midnight that begins day k is not on the clock, which is put from it to
\* 1:00; or it is there twice and Date gives the second, which it does east of
\* Greenwich.
Skipped(z, k)  == z.spring < z.fall /\ Clock(z, z.spring) = k * Day + Hour
Repeated(z, k) == z.spring < z.fall /\ z.base >= 0 /\ Clock(z, z.fall) = k * Day

\* The days from the first of the month of the given time to a day whose
\* midnight is one of these.
Misleading(q, day) ==
  LET from == q.from + 1
  IN  {k \in (DayOf(q.zone, from) - DateOf(q.zone, from).day + 1)..day :
         Skipped(q.zone, k) \/ Repeated(q.zone, k)}

\* The last day that is searched, or the one after it.
LastDay == Len(Dates) - 2

\* spec.go:56-57: the time found is the first one after the given time at which
\* the spec is to be activated, and none is found only if there is none within
\* the limit.
NextActivation ==
  pc = "done" =>
    LET due == Due(query)
    IN  IF due = {} THEN t = 0 ELSE t \in due /\ \A u \in due : t <= u

\* spec.go:56-175: so it is if no midnight misleads Next, from the month it
\* starts in to the time it has to find.  This is what the resets of the loops,
\* their order and the return to WRAP are for, also where the clock shows other
\* hours twice or not at all.
Exact ==
  pc = "done" =>
    LET due == Due(query)
    IN  /\ \A u \in due :
             (\A v \in due : u <= v) /\ Misleading(query, DayOf(query.zone, u)) = {} => t = u
        /\ due = {} /\ Misleading(query, LastDay) = {} => t = 0

\* spec.go:112-131: a midnight that is skipped or repeated misleads Next only
\* about its own day, unless it is skipped on the first of a month: the clock
\* shows a time the spec names, and what is found on a wrong day, too late or
\* not at all has to do with such a day.
MidnightHandled ==
  LET bad == Misleading(query, LastDay)
  IN  pc = "done" /\ bad # {} /\ (\A k \in bad : Skipped(query.zone, k) => Dates[k + 1].day # 1) =>
        LET due == Due(query)
        IN  /\ t # 0 =>
                 /\ \A i \in 1..3 : Fields(query.zone, t)[i] \in Meaning(query.text).values[i]
                 /\ t \in due \/ DayOf(query.zone, t) \in bad
            /\ \A u \in due : t = 0 \/ u < t => DayOf(query.zone, u) \in bad

\* spec.go:58-175: Next returns.
Terminates == <>(pc \in {"done", "rejected"})
=============================================================================
