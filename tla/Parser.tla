------------------------------- MODULE Parser -------------------------------
(***************************************************************************)
(* parser.go as operators: from the fields of a spec to the bit sets of a  *)
(* SpecSchedule.  A bit set is the set of the positions of its bits in a   *)
(* word of Word bits; the top bit is the star.  A field is a sequence of   *)
(* ranges, already split at its commas, hyphens and slashes:               *)
(*   [low, high, step], with Star for an asterisk or question mark and     *)
(*   Absent for a part that is not there.                                  *)
(* Names of months and weekdays are numbers, and numbers that do not parse *)
(* are errors like those out of bounds.                                    *)
(***************************************************************************)
EXTENDS Integers, Sequences, FiniteSets, FiniteSetsExt

CONSTANTS
  Word,        \* bits of a word, 64 in the code
  Bounds,      \* the bounds of the six fields, as [min, max]
  Star, Absent, Error

ASSUME ParserAssumption ==
  /\ Word \in Nat \ {0}
  /\ \A i \in 1..6 : /\ Bounds[i].min \in Nat /\ Bounds[i].max \in Nat
                     /\ Bounds[i].min <= Bounds[i].max /\ Bounds[i].max + 1 < Word
  /\ Star \notin Nat /\ Absent \notin Nat /\ Star # Absent
  /\ \A bits \in SUBSET (0..(Word - 1)) : Error # bits
  /\ Error \notin [1..6 -> SUBSET (0..(Word - 1))]

\* spec.go:22-48: days and months are counted from 1, the others from 0.
ASSUME BoundsAssumption == \A i \in 1..6 : Bounds[i].min = IF i \in {4, 5} THEN 1 ELSE 0

Positions == 0..(Word - 1)

\* A range and a field, split.
Ranges  == [low : Nat \cup {Star}, high : Nat \cup {Absent}, step : Nat \cup {Absent}]
FieldTexts == Seq(Ranges)

\* An error is not taken for a field or for the fields of a spec.
ASSUME ErrorAssumption == Error \notin FieldTexts /\ Error \notin [1..6 -> FieldTexts]

\* starBit
StarBit   == Word - 1

\* A word shifted to the left: what leaves it at the top is lost.
ShiftLeft(bits, k) == {i + k : i \in bits} \cap Positions

\* getBits: shifts if step is 1, else a loop.
GetBits(min, max, step) ==
  IF step = 1
  THEN (Positions \ ShiftLeft(Positions, max + 1)) \cap ShiftLeft(Positions, min)
  ELSE {i \in min..max : (i - min) % step = 0}

\* all: every bit within the bounds, and the star.
All(r) == GetBits(r.min, r.max, 1) \cup {StarBit}

\* The ends, the step and the star of a range, before they are checked.
StartOf(e, r) == IF e.low = Star THEN r.min ELSE e.low

EndOf(e, r) ==
  IF e.low = Star THEN r.max
  ELSE IF e.high # Absent THEN e.high
  ELSE IF e.step # Absent THEN r.max    \* "N/step" means "N-max/step"
  ELSE e.low

StepOf(e) == IF e.step = Absent THEN 1 ELSE e.step

ExtraOf(e) == IF e.low = Star /\ StepOf(e) <= 1 THEN {StarBit} ELSE {}

\* Mutant of GetRange: a range that ends above the maximum is cut off there.
GetRangeClipped(e, r) ==
  IF StartOf(e, r) < r.min \/ StartOf(e, r) > EndOf(e, r) \/ StepOf(e) = 0
  THEN Error
  ELSE (GetBits(StartOf(e, r), EndOf(e, r), StepOf(e)) \cap (r.min..r.max)) \cup ExtraOf(e)

\* getRange
GetRange(e, r) ==
  IF \/ StartOf(e, r) < r.min \/ EndOf(e, r) > r.max
     \/ StartOf(e, r) > EndOf(e, r) \/ StepOf(e) = 0
  THEN Error
  ELSE GetBits(StartOf(e, r), EndOf(e, r), StepOf(e)) \cup ExtraOf(e)

\* getField: the union of its ranges.
GetField(field, r) ==
  LET parts == {GetRange(field[i], r) : i \in 1..Len(field)}
  IN  IF Error \in parts THEN Error ELSE UNION parts

-----------------------------------------------------------------------------
(* Which field of a spec is which.  Options are a set of strings. *)

Places == <<"Second", "Minute", "Hour", "Dom", "Month", "Dow">>

StarRange   == [low |-> Star, high |-> Absent, step |-> Absent]
ZeroRange   == [low |-> 0, high |-> Absent, step |-> Absent]
Defaults    == <<<<ZeroRange>>, <<ZeroRange>>, <<ZeroRange>>,
                 <<StarRange>>, <<StarRange>>, <<StarRange>>>>

Optionals(options) == options \cap {"SecondOptional", "DowOptional"}

\* The places that are part of the options, an optional one included.
Included(options) ==
  {i \in 1..6 : \/ Places[i] \in options
                \/ i = 1 /\ "SecondOptional" \in options
                \/ i = 6 /\ "DowOptional" \in options}

\* The optional field, not provided, gets its default.
FillOptional(fields, options) ==
  IF "DowOptional" \in options THEN Append(fields, Defaults[6])
  ELSE <<Defaults[1]>> \o fields

\* normalizeFields (options have at most one optional: NewParser).
NormalizeFields(fields, options) ==
  LET places == Included(options)
      max    == Cardinality(places)
      min    == max - Cardinality(Optionals(options))
      full   == IF min < max /\ Len(fields) = min
                THEN FillOptional(fields, options) ELSE fields
  IN  IF Len(fields) < min \/ Len(fields) > max THEN Error
      ELSE [i \in 1..6 |-> IF i \in places
                           THEN full[Cardinality({j \in places : j <= i})]
                           ELSE Defaults[i]]

\* The bit sets of a descriptor: the first value of the fields up to a place,
\* everything in those after it.
First(i) == {Bounds[i].min}
AllOf(i) == All(Bounds[i])

ParseDescriptor(descriptor) ==
  CASE descriptor = "@yearly"  -> <<First(1), First(2), First(3), First(4), First(5), AllOf(6)>>
    [] descriptor = "@monthly" -> <<First(1), First(2), First(3), First(4), AllOf(5), AllOf(6)>>
    [] descriptor = "@weekly"  -> <<First(1), First(2), First(3), AllOf(4), AllOf(5), First(6)>>
    [] descriptor = "@daily"   -> <<First(1), First(2), First(3), AllOf(4), AllOf(5), AllOf(6)>>
    [] descriptor = "@hourly"  -> <<First(1), First(2), AllOf(3), AllOf(4), AllOf(5), AllOf(6)>>
    [] OTHER -> Error

\* The rest of Parse: six bit sets, or an error.
ParseFields(fields) ==
  LET bits == [i \in 1..6 |-> GetField(fields[i], Bounds[i])]
  IN  IF fields = Error THEN Error
      ELSE IF \E i \in 1..6 : bits[i] = Error THEN Error
      ELSE bits
=============================================================================
