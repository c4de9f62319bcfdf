---------------------------- MODULE MCSchedule ----------------------------
(***************************************************************************)
(* A calendar of two months of two or three days, weeks of three days,     *)
(* days of four hours, hours of two minutes and minutes of two seconds.    *)
(* Every second of the first year but its first day is asked for.          *)
(***************************************************************************)
EXTENDS Schedule

MCBounds == <<[min |-> 0, max |-> 1], [min |-> 0, max |-> 1], [min |-> 0, max |-> 3],
              [min |-> 1, max |-> 3], [min |-> 1, max |-> 2], [min |-> 0, max |-> 2]>>

\* Two months a year, of three and two days or of three each.
Month(year, month, length) ==
  [d \in 1..length |-> [year |-> year, month |-> month, day |-> d, length |-> length]]
MCDates == Month(1, 1, 3) \o Month(1, 2, 2) \o Month(2, 1, 3) \o Month(2, 2, 3)
           \o Month(3, 1, 3) \o Month(3, 2, 2) \o Month(4, 1, 3) \o Month(4, 2, 3) \o Month(5, 1, 3)

\* A zone whose clock is put forward at the given hour of the day after the first
\* and back at the given hour of summer of a later day.
Zone(base, spring, fall) == [base |-> base, spring |-> spring, fall |-> fall]
Changed(base, day, forth, later, back) ==
  Zone(base, (day * HoursPerDay + forth - base) * Hour, (later * HoursPerDay + back - base - 1) * Hour)

\* No changes of the clock; changes from 1:00 to 2:00 and from 2:00 to 1:00 or from
\* 1:00 to 0:00, from 0:00 to 1:00 and from 0:00 to 23:00, from 23:00 to 0:00 and
\* from 23:00 to 22:00, each east and west of Greenwich.
UTC      == Zone(0, 0, 0)
Summery  == {Changed(b, 2, 1, 4, 2) : b \in {-1, 1}} \cup {Changed(b, 2, 1, 5, 1) : b \in {-1, 0, 1}}
Midnight == {Changed(b, 2, 0, 4, 0) : b \in {-1, 1}}
Late     == {Changed(b, 2, 3, 4, 3) : b \in {-1, 0}}
MonthStart == {Changed(b, 3, 0, 6, 2) : b \in {-2, 0}}

Part(low, high, step) == [low |-> low, high |-> high, step |-> step]
Any   == <<Part(Star, Absent, Absent)>>
At(v) == <<Part(v, Absent, Absent)>>

AllFields == {"Second", "Minute", "Hour", "Dom", "Month", "Dow"}
Standard  == (AllFields \ {"Second"}) \cup {"Descriptor"}
Text(f, o) == [descriptor |-> Absent, fields |-> f, options |-> o]

\* One field of every form, the others stars.
Forms(i) ==
  LET values == 0..(MCBounds[i].max + 1)
      parts  == {Part(Star, Absent, s) : s \in {Absent, 0, 1, 2}}
                \cup {Part(l, h, s) : l \in values, h \in values \cup {Absent}, s \in {Absent, 0, 1, 2, 3}}
  IN  {<<>>} \cup {<<p>> : p \in parts} \cup {<<p, Part(1, Absent, Absent)>> : p \in parts}

OneForm ==
  UNION {{Text([j \in 1..6 |-> IF j = i THEN f ELSE Any], AllFields) : f \in Forms(i)} : i \in {1, 4, 5}}

\* Every set of options, with one field of one value among stars.
Options == {fixed \cup optional : fixed \in SUBSET AllFields,
                                  optional \in {{}, {"SecondOptional"}, {"DowOptional"}}}
OptionTexts ==
  {Text(<<>>, o) : o \in Options} \cup
  UNION {{Text([j \in 1..n |-> IF j = k THEN At(1) ELSE Any], o) : k \in 1..n, o \in Options} : n \in 1..6}

Descriptors ==
  {[descriptor |-> d, fields |-> <<>>, options |-> o] :
     d \in {"@yearly", "@monthly", "@weekly", "@daily", "@hourly"}, o \in {AllFields, Standard}}

\* Specs whose next activation is far, near, on a rare day or never.
SearchTexts ==
  {Text(<<s, m, h, dom, month, dow>>, AllFields) :
     s \in {Any, At(1)}, m \in {At(0), Any}, h \in {At(0), At(1), <<Part(2, Absent, 1)>>},
     dom \in {Any, At(3)}, month \in {Any, At(2)}, dow \in {Any, At(1)}}

Ask(texts, froms, zones) == [text : texts, from : froms, zone : zones]

MCQueries ==
  Ask(OneForm \cup OptionTexts, {17}, {UTC})
  \cup Ask(SearchTexts, 16..80 \cup {174}, {UTC})
  \cup Ask(SearchTexts \cup Descriptors, {k \in 20..72 : k % 5 = 0}, Summery \cup Midnight \cup Late \cup MonthStart)

\* Every midnight of the second month, asked for in the first, where the midnight
\* between them is skipped.
MCMonthQueries ==
  Ask({Text(<<At(0), At(0), At(0), Any, At(2), Any>>, AllFields)}, {k \in 34..48 : k % 5 = 0}, MonthStart)
=============================================================================
