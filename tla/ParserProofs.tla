---------------------------- MODULE ParserProofs ----------------------------
(***************************************************************************)
(* What the bits of a field are, for any bounds, any word they fit into    *)
(* and any ranges: the values the text names, although getBits shifts for  *)
(* a step of one and loops for the others.  Then what Next finds by those  *)
(* bits, for any calendar: the first time that the text means, in any zone *)
(* whose clock is changed by hours, unless a midnight that is skipped or   *)
(* repeated misleads it; and that such a midnight misleads it only about   *)
(* its own day, if it is not a skipped one on the first of a month.        *)
(***************************************************************************)
EXTENDS Schedule, FiniteSetTheorems, TLAPS

\* The bounds of a field fit into a word and leave room for the star.
Fits(r) == r.min \in Nat /\ r.max \in Nat /\ r.min <= r.max /\ r.max + 1 < Word

\* A range that is within its bounds.
Proper(e, r) ==
  /\ r.min <= StartOf(e, r) /\ StartOf(e, r) <= EndOf(e, r) /\ EndOf(e, r) <= r.max
  /\ StepOf(e) # 0

-----------------------------------------------------------------------------
(* getBits *)

\* parser.go:365-367: the shifts of getBits leave the bits from min to max.
LEMMA ShiftsLeaveRange ==
  ASSUME NEW min \in Nat, NEW max \in Nat, min <= max, max + 1 < Word
  PROVE  GetBits(min, max, 1) = min..max
  <1>1. Word \in Nat \ {0}
    BY ParserAssumption
  <1>2. ASSUME NEW k \in Nat, k < Word PROVE ShiftLeft(Positions, k) = k..(Word - 1)
    <2>1. ASSUME NEW i \in k..(Word - 1) PROVE i \in ShiftLeft(Positions, k)
      <3>1. i - k \in Positions /\ (i - k) + k = i /\ i \in Positions
        BY <1>1, <1>2, <2>1 DEF Positions
      <3> QED
        BY <3>1 DEF ShiftLeft
    <2>2. ASSUME NEW i \in ShiftLeft(Positions, k) PROVE i \in k..(Word - 1)
      BY <1>1, <1>2, <2>2 DEF ShiftLeft, Positions
    <2> QED
      BY <2>1, <2>2
  <1>3. ShiftLeft(Positions, min) = min..(Word - 1)
    BY <1>1, <1>2
  <1>4. ShiftLeft(Positions, max + 1) = (max + 1)..(Word - 1)
    BY <1>1, <1>2
  <1> QED
    BY <1>1, <1>3, <1>4 DEF GetBits, Positions

\* parser.go:369-373: the loop sets every step-th bit.
LEMMA LoopSetsSteps ==
  ASSUME NEW min \in Nat, NEW max \in Nat, min <= max, NEW step \in Nat \ {0}
  PROVE  \A i : i \in min..max /\ (i - min) % step = 0
                <=> \E k \in 0..((max - min) \div step) : i = min + k * step
  <1>1. ASSUME NEW i \in min..max, (i - min) % step = 0
        PROVE  \E k \in 0..((max - min) \div step) : i = min + k * step
    <2> DEFINE x == i - min
               n == max - min
    <2>1. x \in Nat /\ n \in Nat /\ x <= n
      BY <1>1
    <2> HIDE DEF x, n
    <2>2. x \div step \in Nat /\ x \div step <= n \div step /\ n \div step \in Nat
      BY <2>1
    <2>3. x % step = 0
      BY <1>1 DEF x
    <2>4. x = (x \div step) * step
      BY <2>1, <2>3
    <2>5. i = min + x
      BY <1>1 DEF x
    <2> DEFINE k == x \div step
    <2>6. k \in 0..(n \div step) /\ i = min + k * step
      BY <2>2, <2>4, <2>5
    <2> QED
      BY <2>6 DEF n
  <1>2. ASSUME NEW k \in 0..((max - min) \div step)
        PROVE  min + k * step \in min..max /\ ((min + k * step) - min) % step = 0
    <2> DEFINE n == max - min
    <2>1. n \in Nat /\ k \in Nat /\ k <= n \div step /\ max = min + n
      BY <1>2
    <2> HIDE DEF n
    <2>2. k * step <= n /\ k * step \in Nat
      BY <2>1
    <2>3. (k * step) % step = 0
      BY <2>1
    <2> DEFINE m == k * step
    <2>4. m \in Nat /\ m <= n /\ m % step = 0
      BY <2>2, <2>3
    <2> HIDE DEF m
    <2>5. min + m \in min..max /\ (min + m) - min = m
      BY <2>1, <2>4
    <2> QED
      BY <2>4, <2>5 DEF m
  <1> QED
    BY <1>1, <1>2

-----------------------------------------------------------------------------
(* getRange and getField *)

\* The ends and the step of a range are numbers.
LEMMA EndsAreNumbers ==
  ASSUME NEW e \in Ranges, NEW r, Fits(r)
  PROVE  StartOf(e, r) \in Nat /\ EndOf(e, r) \in Nat /\ StepOf(e) \in Nat
  BY ParserAssumption DEF Ranges, Fits, StartOf, EndOf, StepOf

\* What the text means is named by the same ends, which getRange computes in
\* another order.
LEMMA MeantByEnds ==
  ASSUME NEW e \in Ranges, NEW r, Fits(r)
  PROVE  Meant(e, r) =
           IF Proper(e, r)
           THEN {StartOf(e, r) + k * StepOf(e) : k \in 0..((EndOf(e, r) - StartOf(e, r)) \div StepOf(e))}
           ELSE Error
  <1> DEFINE first == IF e.low = Star THEN r.min ELSE e.low
             last  == IF e.low # Star /\ e.high # Absent THEN e.high
                      ELSE IF e.low # Star /\ e.step = Absent THEN e.low
                      ELSE r.max
             step  == IF e.step = Absent THEN 1 ELSE e.step
  <1>1. first = StartOf(e, r) /\ step = StepOf(e)
    BY DEF StartOf, StepOf
  <1>2. last = EndOf(e, r)
    BY DEF EndOf
  <1>3. Meant(e, r) = IF first >= r.min /\ first <= last /\ last <= r.max /\ step > 0
                      THEN {first + k * step : k \in 0..((last - first) \div step)} ELSE Error
    BY DEF Meant
  <1> HIDE DEF first, last, step
  <1>4. Proper(e, r) <=> (first >= r.min /\ first <= last /\ last <= r.max /\ step > 0)
    BY <1>1, <1>2, EndsAreNumbers DEF Proper, Fits
  <1> QED
    BY <1>1, <1>2, <1>3, <1>4

\* parser.go:269-335: getRange gives an error for a range that is not proper,
\* and else the values that the text names, and the star if it is one without
\* a step.
THEOREM RangeAsWritten ==
  ASSUME NEW e \in Ranges, NEW r, Fits(r)
  PROVE  /\ ~Proper(e, r) => GetRange(e, r) = Error /\ Meant(e, r) = Error
         /\ Proper(e, r) => /\ GetRange(e, r) = Meant(e, r) \cup ExtraOf(e)
                            /\ Meant(e, r) \subseteq r.min..r.max
  <1> DEFINE start == StartOf(e, r)
             end   == EndOf(e, r)
             step  == StepOf(e)
  <1>1. start \in Nat /\ end \in Nat /\ step \in Nat /\ Word \in Nat
    BY EndsAreNumbers, ParserAssumption
  <1>2. r.min \in Nat /\ r.max \in Nat /\ r.max + 1 < Word
    BY DEF Fits
  <1>3. GetRange(e, r) = IF Proper(e, r) THEN GetBits(start, end, step) \cup ExtraOf(e) ELSE Error
    BY <1>1, <1>2 DEF GetRange, Proper
  <1>4. ASSUME Proper(e, r)
        PROVE  GetBits(start, end, step) = Meant(e, r) /\ Meant(e, r) \subseteq r.min..r.max
    <2>1. r.min <= start /\ start <= end /\ end <= r.max /\ step # 0
      BY <1>4 DEF Proper
    <2>2. Meant(e, r) = {start + k * step : k \in 0..((end - start) \div step)}
      BY <1>4, MeantByEnds
    <2> HIDE DEF start, end, step
    <2>3. Meant(e, r) = {i \in start..end : (i - start) % step = 0}
      <3>1. \A i : i \in start..end /\ (i - start) % step = 0
                     <=> \E k \in 0..((end - start) \div step) : i = start + k * step
        <4>1. step \in Nat \ {0}
          BY <1>1, <2>1
        <4> QED
          BY ONLY <1>1, <2>1, <4>1, LoopSetsSteps
      <3>2. \A i : i \in Meant(e, r) <=> \E k \in 0..((end - start) \div step) : i = start + k * step
        BY <2>2
      <3>3. \A i : i \in Meant(e, r) <=> i \in start..end /\ (i - start) % step = 0
        BY ONLY <3>1, <3>2, Zenon
      <3> QED
        BY ONLY <3>3
    <2>4. ASSUME step # 1 PROVE GetBits(start, end, step) = Meant(e, r)
      BY <2>3, <2>4 DEF GetBits
    <2>5. ASSUME step = 1 PROVE GetBits(start, end, step) = Meant(e, r)
      <3>1. \A i \in start..end : (i - start) % step = 0
        BY <1>1, <2>5
      <3>2. Meant(e, r) = start..end
        BY <2>3, <3>1
      <3>3. GetBits(start, end, step) = start..end
        BY <1>1, <1>2, <2>1, <2>5, ShiftsLeaveRange
      <3> QED
        BY <3>2, <3>3
    <2>6. Meant(e, r) \subseteq r.min..r.max
      BY <1>1, <1>2, <2>1, <2>3
    <2> QED
      BY <2>4, <2>5, <2>6
  <1> QED
    BY <1>3, <1>4, MeantByEnds

\* parser.go:253-264: the bits of a field are the values of all its ranges,
\* with the star if one of them is a star; one bad range spoils the field.
THEOREM FieldAsWritten ==
  ASSUME NEW field \in Seq(Ranges), NEW r, Fits(r)
  PROVE  /\ (\E n \in 1..Len(field) : ~Proper(field[n], r)) => GetField(field, r) = Error
         /\ (\A n \in 1..Len(field) : Proper(field[n], r)) =>
              GetField(field, r) = (UNION {Meant(field[n], r) : n \in 1..Len(field)})
                                     \cup (IF Unrestricted(field) THEN {StarBit} ELSE {})
  <1> DEFINE parts == {GetRange(field[n], r) : n \in 1..Len(field)}
  <1>1. \A n \in 1..Len(field) : field[n] \in Ranges
    OBVIOUS
  <1>2. ASSUME NEW n \in 1..Len(field), ~Proper(field[n], r) PROVE GetField(field, r) = Error
    <2>1. GetRange(field[n], r) = Error
      BY <1>1, <1>2, RangeAsWritten
    <2> QED
      BY <2>1 DEF GetField
  <1>3. ASSUME \A n \in 1..Len(field) : Proper(field[n], r)
        PROVE  GetField(field, r) = (UNION {Meant(field[n], r) : n \in 1..Len(field)})
                                      \cup (IF Unrestricted(field) THEN {StarBit} ELSE {})
    <2>1. \A n \in 1..Len(field) : /\ GetRange(field[n], r) = Meant(field[n], r) \cup ExtraOf(field[n])
                                    /\ Meant(field[n], r) \subseteq r.min..r.max
      BY <1>1, <1>3, RangeAsWritten
    <2>2. \A n \in 1..Len(field) : ExtraOf(field[n]) \subseteq {StarBit}
      BY DEF ExtraOf
    <2>3. \A n \in 1..Len(field) : GetRange(field[n], r) \subseteq 0..(Word - 1)
      <3>1. r.min \in Nat /\ r.max \in Nat /\ r.max + 1 < Word /\ Word \in Nat \ {0}
        BY ParserAssumption DEF Fits
      <3>2. r.min..r.max \subseteq 0..(Word - 1) /\ StarBit \in 0..(Word - 1)
        BY <3>1 DEF StarBit
      <3> QED
        BY <2>1, <2>2, <3>2
    <2>4. Error \notin parts
      BY <2>3, ParserAssumption
    <2>5. GetField(field, r) = UNION parts
      BY <2>4 DEF GetField
    <2>6. UNION parts = (UNION {Meant(field[n], r) : n \in 1..Len(field)})
                          \cup (UNION {ExtraOf(field[n]) : n \in 1..Len(field)})
      <3>1. parts = {Meant(field[n], r) \cup ExtraOf(field[n]) : n \in 1..Len(field)}
        BY <2>1, Zenon
      <3> DEFINE meant == {Meant(field[n], r) : n \in 1..Len(field)}
                 extra == {ExtraOf(field[n]) : n \in 1..Len(field)}
      <3>2. ASSUME NEW x \in UNION parts PROVE x \in UNION meant \/ x \in UNION extra
        <4>1. PICK n \in 1..Len(field) : x \in Meant(field[n], r) \cup ExtraOf(field[n])
          BY ONLY <3>1, <3>2, Zenon
        <4> QED
          BY <4>1, Zenon
      <3>3. ASSUME NEW n \in 1..Len(field)
            PROVE  Meant(field[n], r) \subseteq UNION parts /\ ExtraOf(field[n]) \subseteq UNION parts
        <4>1. Meant(field[n], r) \cup ExtraOf(field[n]) \in parts
          BY <3>1, Zenon
        <4> HIDE DEF parts
        <4> QED
          BY <4>1
      <3>4. UNION meant \subseteq UNION parts
        BY <3>3, Zenon
      <3>5. UNION extra \subseteq UNION parts
        BY <3>3, Zenon
      <3> HIDE DEF parts
      <3> QED
        <4> HIDE DEF meant, extra
        <4>1. UNION parts = (UNION meant) \cup (UNION extra)
          BY <3>2, <3>4, <3>5
        <4> QED
          BY <4>1 DEF meant, extra
    <2>7. ASSUME NEW n \in 1..Len(field)
          PROVE  ExtraOf(field[n]) # {} <=> field[n].low = Star /\ field[n].step \in {Absent, 1}
      <3>1. field[n].step \in Nat \cup {Absent} /\ Proper(field[n], r)
        BY <1>1, <1>3 DEF Ranges
      <3>2. StepOf(field[n]) \in Nat \ {0} /\ (StepOf(field[n]) = 1 <=> field[n].step \in {Absent, 1})
        BY <3>1, ParserAssumption DEF StepOf, Proper
      <3> QED
        BY <3>2 DEF ExtraOf
    <2>8. (UNION {ExtraOf(field[n]) : n \in 1..Len(field)}) = IF Unrestricted(field) THEN {StarBit} ELSE {}
      <3>1. CASE Unrestricted(field)
        <4>1. PICK n \in 1..Len(field) : field[n].low = Star /\ field[n].step \in {Absent, 1}
          BY <3>1 DEF Unrestricted
        <4>2. ExtraOf(field[n]) = {StarBit}
          BY <2>2, <2>7, <4>1
        <4> QED
          BY <2>2, <3>1, <4>2
      <3>2. CASE ~Unrestricted(field)
        <4>1. \A n \in 1..Len(field) : ExtraOf(field[n]) = {}
          BY <2>7, <3>2 DEF Unrestricted
        <4> QED
          BY <3>2, <4>1
      <3> QED
        BY <3>1, <3>2
    <2> QED
      BY <2>5, <2>6, <2>8
  <1> QED
    BY <1>2, <1>3

-----------------------------------------------------------------------------
(* Which field is where *)

\* The place of a field among the fields of a spec, if those places are given.
Rank(given, i) == Cardinality({j \in given : j <= i})

LEMMA RankBounds ==
  ASSUME NEW given \in SUBSET (1..6)
  PROVE  /\ IsFiniteSet(given) /\ Cardinality(given) \in Nat
         /\ \A i \in given : Rank(given, i) \in 1..Cardinality(given)
  <1>1. IsFiniteSet(1..6)
    <2>1. 1 \in Int /\ 6 \in Int
      OBVIOUS
    <2> QED
      BY ONLY <2>1, FS_Interval
  <1>2. IsFiniteSet(given) /\ Cardinality(given) \in Nat
    BY <1>1, FS_Subset, FS_CardinalityType
  <1>3. ASSUME NEW i \in given PROVE Rank(given, i) \in 1..Cardinality(given)
    <2> DEFINE low == {j \in given : j <= i}
    <2>1. low \in SUBSET given /\ i \in low
      OBVIOUS
    <2> HIDE DEF low
    <2>2. IsFiniteSet(low) /\ Cardinality(low) <= Cardinality(given)
      BY <1>2, <2>1, FS_Subset
    <2>3. Cardinality(low) \in Nat /\ Cardinality(low) # 0
      BY <2>1, <2>2, FS_CardinalityType, FS_EmptySet
    <2> QED
      BY <1>2, <2>2, <2>3 DEF Rank, low
  <1> QED
    BY <1>2, <1>3

\* What leaving out a place does to the others.
LEMMA RankWithout ==
  ASSUME NEW given \in SUBSET (1..6), NEW k \in given, NEW i \in 1..6
  PROVE  /\ Cardinality(given \ {k}) = Cardinality(given) - 1
         /\ Rank(given \ {k}, i) = IF k <= i THEN Rank(given, i) - 1 ELSE Rank(given, i)
  <1> DEFINE low == {j \in given : j <= i}
  <1>1. IsFiniteSet(given)
    BY RankBounds
  <1>2. IsFiniteSet(low)
    BY <1>1, FS_Subset
  <1>3. {j \in given \ {k} : j <= i} = low \ {k} /\ (k \in low <=> k <= i)
    OBVIOUS
  <1> HIDE DEF low
  <1>4. Cardinality(low \ {k}) = IF k \in low THEN Cardinality(low) - 1 ELSE Cardinality(low)
    BY <1>2, FS_RemoveElement
  <1>5. Cardinality(given \ {k}) = Cardinality(given) - 1
    BY <1>1, FS_RemoveElement
  <1>6. Rank(given, i) = Cardinality(low)
    BY DEF Rank, low
  <1> QED
    BY <1>3, <1>4, <1>5, <1>6 DEF Rank

\* The places of a parser: those it always expects and the optional one.
Fixed(options)    == {j \in 1..6 : Places[j] \in options}
Optional(options) ==
  {j \in {1, 6} : (IF j = 1 THEN "SecondOptional" ELSE "DowOptional") \in options}

LEMMA OneOptional ==
  ASSUME NEW options, Cardinality(Optionals(options)) <= 1
  PROVE  /\ Included(options) = Fixed(options) \cup Optional(options)
         /\ \/ Cardinality(Optionals(options)) = 0 /\ Optional(options) = {}
            \/ /\ Cardinality(Optionals(options)) = 1 /\ Optional(options) = {1}
               /\ "DowOptional" \notin options
            \/ /\ Cardinality(Optionals(options)) = 1 /\ Optional(options) = {6}
               /\ "DowOptional" \in options
  <1> DEFINE both == {"SecondOptional", "DowOptional"}
  <1>1. IsFiniteSet(both) /\ Cardinality(both) = 2
    <2> DEFINE one == {"SecondOptional"}
    <2>1. both = one \cup {"DowOptional"} /\ "DowOptional" \notin one
      OBVIOUS
    <2>2. IsFiniteSet(one) /\ Cardinality(one) = 1
      BY FS_Singleton
    <2> HIDE DEF one, both
    <2> QED
      BY <2>1, <2>2, FS_AddElement
  <1>2. Included(options) = Fixed(options) \cup Optional(options)
    BY DEF Included, Fixed, Optional
  <1>3. CASE Optionals(options) = {}
    <2>1. Optional(options) = {}
      BY <1>3 DEF Optional, Optionals
    <2> QED
      BY <1>2, <1>3, <2>1, FS_EmptySet
  <1>4. CASE Optionals(options) = {"SecondOptional"}
    <2>1. Optional(options) = {1} /\ "DowOptional" \notin options
      BY <1>4 DEF Optional, Optionals
    <2> QED
      BY <1>2, <1>4, <2>1, FS_Singleton
  <1>5. CASE Optionals(options) = {"DowOptional"}
    <2>1. Optional(options) = {6} /\ "DowOptional" \in options
      BY <1>5 DEF Optional, Optionals
    <2> QED
      BY <1>2, <1>5, <2>1, FS_Singleton
  <1>6. Optionals(options) # both
    BY <1>1
  <1> QED
    BY <1>3, <1>4, <1>5, <1>6 DEF Optionals

\* parser.go:172-232: normalizeFields gives an error if the texts are not as
\* many as the options ask for, and else each field the text that is written
\* for it, wherever an optional field that was left out shifts it to.
LEMMA NormalizedAsWritten ==
  ASSUME NEW text, text.fields \in Seq(FieldTexts), Cardinality(Optionals(text.options)) <= 1
  PROVE  LET normal == NormalizeFields(text.fields, text.options)
         IN  \/ normal = Error /\ \A i \in 1..6 : Written(text, i) = Error
             \/ /\ normal \in [1..6 -> FieldTexts]
                /\ \A i \in 1..6 : Written(text, i) = normal[i]
  <1> DEFINE texts   == text.fields
             options  == text.options
             n        == Len(texts)
             places   == Included(options)
             fixed    == Fixed(options)
             optional == Optional(options)
             always   == fixed \ optional
             max      == Cardinality(places)
             min      == max - Cardinality(Optionals(options))
             full     == IF min < max /\ n = min THEN FillOptional(texts, options) ELSE texts
             normal   == NormalizeFields(texts, options)
             given    == IF n = Cardinality(always) THEN always ELSE fixed \cup optional
  <1>1. normal = IF n < min \/ n > max THEN Error
                 ELSE [i \in 1..6 |-> IF i \in places THEN full[Rank(places, i)] ELSE Defaults[i]]
    BY DEF NormalizeFields, Rank
  <1>2. ASSUME NEW i \in 1..6
        PROVE  Written(text, i) = IF Cardinality(given) # n THEN Error
                                  ELSE IF i \in given THEN texts[Rank(given, i)]
                                  ELSE IF i <= 3 THEN <<ZeroRange>> ELSE <<StarRange>>
    BY DEF Written, Rank, Fixed, Optional
  <1>3. /\ places = fixed \cup optional
        /\ \/ Cardinality(Optionals(options)) = 0 /\ optional = {}
           \/ /\ Cardinality(Optionals(options)) = 1 /\ optional = {1}
              /\ "DowOptional" \notin options
           \/ /\ Cardinality(Optionals(options)) = 1 /\ optional = {6}
              /\ "DowOptional" \in options
    BY OneOptional
  <1>4. /\ texts \in Seq(FieldTexts) /\ n \in Nat /\ DOMAIN texts = 1..n
        /\ \A k \in 1..n : texts[k] \in FieldTexts
    OBVIOUS
  <1>5. places \in SUBSET (1..6)
    BY DEF Included
  <1>6. max \in Nat /\ \A i \in places : Rank(places, i) \in 1..max
    BY <1>5, RankBounds
  <1>7. ASSUME NEW i \in 1..6
        PROVE  /\ Defaults[i] = (IF i <= 3 THEN <<ZeroRange>> ELSE <<StarRange>>)
               /\ Defaults[i] \in FieldTexts
    <2>1. ZeroRange \in Ranges /\ StarRange \in Ranges
      BY DEF ZeroRange, StarRange, Ranges
    <2>2. <<ZeroRange>> \in FieldTexts /\ <<StarRange>> \in FieldTexts
      BY <2>1 DEF FieldTexts
    <2>3. Defaults[i] = (IF i <= 3 THEN <<ZeroRange>> ELSE <<StarRange>>)
      BY DEF Defaults
    <2> QED
      BY <2>2, <2>3
  <1>11. \A i \in 1..6 :
           Written(text, i) = IF Cardinality(given) # n THEN Error
                              ELSE IF i \in given THEN texts[Rank(given, i)] ELSE Defaults[i]
    <2> HIDE DEF given, texts, n
    <2> QED
      BY <1>2, <1>7
  <1> DEFINE Goal == \/ normal = Error /\ \A i \in 1..6 : Written(text, i) = Error
                     \/ /\ normal \in [1..6 -> FieldTexts]
                        /\ \A i \in 1..6 : Written(text, i) = normal[i]
  <1>8. CASE given = places
    <2> SUFFICES ASSUME \/ n = max /\ full = texts /\ ~(n < min \/ n > max)
                        \/ n # max /\ (n < min \/ n > max)
                 PROVE  Goal
      <3>1. \/ n = max /\ full = texts /\ ~(n < min \/ n > max)
            \/ n # max /\ (n < min \/ n > max)
        <4>1. CASE optional = {}
          BY <1>3, <1>4, <1>6, <4>1
        <4>2. CASE optional # {}
          <5>1. PICK k \in 1..6 : optional = {k} /\ min = max - 1
            BY <1>3, <1>6, <4>2
          <5>2. k \in places /\ always = places \ {k}
            BY <1>3, <5>1
          <5>3. Cardinality(always) = max - 1
            BY <1>5, <5>2, RankWithout
          <5>4. n # min
            BY <1>6, <1>8, <5>1, <5>2, <5>3
          <5> QED
            BY <1>4, <1>6, <5>1, <5>4
        <4> QED
          BY <4>1, <4>2
      <3> QED
        BY <3>1
    <2>1. CASE n # max
      BY <1>1, <1>8, <1>11, <2>1
    <2>2. CASE n = max
      <3>1. normal = [i \in 1..6 |-> IF i \in places THEN texts[Rank(places, i)] ELSE Defaults[i]]
        BY <1>1, <2>2
      <3>2. \A i \in 1..6 : Written(text, i) = IF i \in places THEN texts[Rank(places, i)] ELSE Defaults[i]
        BY <1>8, <1>11, <2>2
      <3>3. \A i \in places : texts[Rank(places, i)] \in FieldTexts
        BY <1>4, <1>6, <2>2
      <3> HIDE DEF normal, places, texts
      <3> QED
        BY <1>7, <3>1, <3>2, <3>3
    <2> QED
      BY <2>1, <2>2
  <1>9. CASE given # places
    <2>1. PICK k \in {1, 6} : /\ optional = {k} /\ min = max - 1
                              /\ k = 6 <=> "DowOptional" \in options
      BY <1>3, <1>9
    <2>2. k \in places /\ always = places \ {k} /\ given = always /\ n = Cardinality(always)
      BY <1>3, <1>9, <2>1
    <2>3. n = max - 1 /\ Cardinality(given) = n
      BY <1>5, <2>2, RankWithout
    <2>4. ~(n < min \/ n > max) /\ full = FillOptional(texts, options)
      BY <1>4, <1>6, <2>1, <2>3
    <2>5. normal = [i \in 1..6 |-> IF i \in places THEN full[Rank(places, i)] ELSE Defaults[i]]
      BY <1>1, <2>4
    <2>6. \A i \in 1..6 : Written(text, i) = IF i \in given THEN texts[Rank(given, i)] ELSE Defaults[i]
      BY <1>11, <2>3
    <2>7. ASSUME NEW i \in 1..6
          PROVE  Rank(given, i) = IF k <= i THEN Rank(places, i) - 1 ELSE Rank(places, i)
      BY <1>5, <2>2, RankWithout
    <2>8. /\ given \in SUBSET (1..6) /\ given = places \ {k}
          /\ \A i \in given : Rank(given, i) \in 1..n
      BY <1>5, <2>2, <2>3, RankBounds
    <2>9. ASSUME NEW i \in places
          PROVE  full[Rank(places, i)] = IF i \in given THEN texts[Rank(given, i)] ELSE Defaults[i]
      <3>1. Rank(places, i) \in 1..(n + 1) /\ i \in 1..6
        BY <1>5, <1>6, <2>3
      <3>2. CASE k = 6
        <4>1. full = Append(texts, Defaults[6])
          BY <2>1, <2>4, <3>2 DEF FillOptional
        <4>2. \A j \in 1..n : full[j] = texts[j]
          BY <1>4, <4>1
        <4>3. full[n + 1] = Defaults[6]
          BY <1>4, <4>1
        <4>4. CASE i = 6
          <5>1. {j \in places : j <= i} = places
            BY <1>5, <4>4
          <5>2. Rank(places, i) = max
            BY <5>1 DEF Rank
          <5>3. max = n + 1
            BY <1>6, <2>3
          <5> QED
            BY <2>8, <3>2, <4>3, <4>4, <5>2, <5>3
        <4>5. CASE i # 6
          <5>1. i \in given /\ Rank(given, i) \in 1..n
            BY <2>8, <3>2, <4>5
          <5>2. Rank(places, i) = Rank(given, i)
            BY <1>5, <2>7, <3>1, <3>2, <4>5
          <5> QED
            BY <4>2, <5>1, <5>2
        <4> QED
          BY <4>4, <4>5
      <3>3. CASE k = 1
        <4>1. full = <<Defaults[1]>> \o texts
          <5>1. "DowOptional" \notin options
            BY <2>1, <3>3
          <5> QED
            BY <2>4, <5>1 DEF FillOptional
        <4>2. full[1] = Defaults[1] /\ \A j \in 1..n : full[j + 1] = texts[j]
          BY <1>4, <4>1
        <4>3. Rank(given, i) = Rank(places, i) - 1
          BY <2>7, <3>1, <3>3
        <4>4. CASE i = 1
          <5>1. {j \in places : j <= i} = {1}
            BY <1>5, <4>4
          <5>2. Rank(places, i) = 1
            BY <5>1, FS_Singleton DEF Rank
          <5> QED
            BY <2>8, <3>3, <4>2, <4>4, <5>2
        <4>5. CASE i # 1
          <5>1. i \in given /\ Rank(given, i) \in 1..n
            BY <2>8, <3>3, <4>5
          <5>2. Rank(places, i) = Rank(given, i) + 1
            BY <3>1, <4>3
          <5> QED
            BY <4>2, <5>1, <5>2
        <4> QED
          BY <4>4, <4>5
      <3> QED
        BY <3>2, <3>3
    <2>10. \A i \in given : texts[Rank(given, i)] \in FieldTexts
      BY <1>4, <2>8
    <2> HIDE DEF normal, places, texts, given, full
    <2>11. ASSUME NEW i \in 1..6 PROVE Written(text, i) = normal[i] /\ normal[i] \in FieldTexts
      <3>1. normal[i] = IF i \in given THEN texts[Rank(given, i)] ELSE Defaults[i]
        BY <2>5, <2>8, <2>9
      <3>2. Written(text, i) = IF i \in given THEN texts[Rank(given, i)] ELSE Defaults[i]
        BY <2>6
      <3> QED
        BY <1>7, <2>10, <3>1, <3>2
    <2>12. normal = [i \in 1..6 |-> normal[i]]
      BY ONLY <2>5
    <2>13. normal \in [1..6 -> FieldTexts]
      BY ONLY <2>11, <2>12
    <2> QED
      BY ONLY <2>11, <2>13 DEF normal, texts
  <1>10. given = places \/ given # places
    OBVIOUS
  <1> QED
    BY <1>8, <1>9, <1>10

-----------------------------------------------------------------------------
(* The bits of a spec *)

\* What Parse makes of the text of a spec.
ParsedBits(text) ==
  IF text.descriptor = Absent
  THEN ParseFields(NormalizeFields(text.fields, text.options))
  ELSE IF "Descriptor" \in text.options THEN ParseDescriptor(text.descriptor) ELSE Error

\* The six sets that the text of a spec means.
MeantBits(text) ==
  LET meaning == Meaning(text)
  IN  EachField(LAMBDA i : meaning.values[i] \cup (IF i \in meaning.stars THEN {StarBit} ELSE {}))

\* The values of a field.
ValuesOf(field, i) == UNION {Meant(field[n], Bounds[i]) : n \in 1..Len(field)}

\* The values of a field and its star.
FieldBits(field, i) ==
  (UNION {Meant(field[n], Bounds[i]) : n \in 1..Len(field)})
    \cup (IF Unrestricted(field) THEN {StarBit} ELSE {})

\* Six places and six values.
LEMMA SixPlaces ==
  ASSUME NEW f, f = [i \in 1..6 |-> f[i]]
  PROVE  f = <<f[1], f[2], f[3], f[4], f[5], f[6]>>
  <1> DEFINE six == <<f[1], f[2], f[3], f[4], f[5], f[6]>>
  <1>1. six = [i \in 1..6 |-> six[i]]
    OBVIOUS
  <1>2. ASSUME NEW i \in 1..6 PROVE six[i] = f[i]
    <2>1. i = 1 \/ i = 2 \/ i = 3 \/ i = 4 \/ i = 5 \/ i = 6
      OBVIOUS
    <2> QED
      BY <2>1
  <1> HIDE DEF six
  <1>3. f = six
    BY <1>1, <1>2
  <1> QED
    BY <1>3 DEF six

\* What is meant, place by place.
LEMMA ValuesByPlace ==
  ASSUME NEW text, NEW spec, spec = SpecFields(text), NEW i \in 1..6
  PROVE  /\ Meaning(text).values[i] = ValuesOf(spec[i], i)
         /\ i \in Meaning(text).stars <=> Unrestricted(spec[i])
  <1> DEFINE meaning  == Meaning(text)
             value(j) == UNION {Meant(spec[j][n], Bounds[j]) : n \in 1..Len(spec[j])}
  <1>1. /\ meaning.values = <<value(1), value(2), value(3), value(4), value(5), value(6)>>
        /\ meaning.stars = {j \in 1..6 : Unrestricted(spec[j])}
    BY DEF Meaning, EachField
  <1>2. i = 1 \/ i = 2 \/ i = 3 \/ i = 4 \/ i = 5 \/ i = 6
    OBVIOUS
  <1>3. meaning.values[i] = value(i)
    <2> HIDE DEF value, meaning
    <2> QED
      BY <1>1, <1>2
  <1> QED
    BY <1>1, <1>3 DEF ValuesOf

\* The bits that are meant, place by place.
LEMMA MeantByPlace ==
  ASSUME NEW text, NEW spec, spec = SpecFields(text)
  PROVE  MeantBits(text) = [i \in 1..6 |-> FieldBits(spec[i], i)]
  <1> DEFINE meaning  == Meaning(text)
             whole    == [i \in 1..6 |-> FieldBits(spec[i], i)]
  <1>1. ASSUME NEW i \in 1..6
        PROVE  meaning.values[i] \cup (IF i \in meaning.stars THEN {StarBit} ELSE {}) = whole[i]
    <2>1. /\ meaning.values[i] = ValuesOf(spec[i], i)
          /\ i \in meaning.stars <=> Unrestricted(spec[i])
      BY ValuesByPlace
    <2> HIDE DEF meaning
    <2> QED
      BY <2>1 DEF FieldBits, ValuesOf
  <1>2. whole = <<whole[1], whole[2], whole[3], whole[4], whole[5], whole[6]>>
    <2>1. whole = [i \in 1..6 |-> whole[i]]
      OBVIOUS
    <2> HIDE DEF whole
    <2> QED
      BY ONLY <2>1, SixPlaces
  <1>3. MeantBits(text) = <<whole[1], whole[2], whole[3], whole[4], whole[5], whole[6]>>
    <2> HIDE DEF whole
    <2>1. 1 \in 1..6 /\ 2 \in 1..6 /\ 3 \in 1..6 /\ 4 \in 1..6 /\ 5 \in 1..6 /\ 6 \in 1..6
      OBVIOUS
    <2> QED
      BY <1>1, <2>1, Zenon DEF MeantBits, EachField
  <1> QED
    BY <1>2, <1>3 DEF whole

-----------------------------------------------------------------------------
(* Fields *)

\* The bounds of the fields fit into a word.
LEMMA BoundsFit == \A i \in 1..6 : Fits(Bounds[i])
  BY ParserAssumption DEF Fits

\* A range is not proper exactly if it means an error.
LEMMA ErrorMeant ==
  ASSUME NEW i \in 1..6, NEW field \in FieldTexts, NEW n \in 1..Len(field)
  PROVE  Proper(field[n], Bounds[i]) <=> Meant(field[n], Bounds[i]) # Error
  <1>1. field[n] \in Ranges
    BY DEF FieldTexts
  <1>2. Fits(Bounds[i])
    BY BoundsFit
  <1>3. /\ ~Proper(field[n], Bounds[i]) => Meant(field[n], Bounds[i]) = Error
        /\ Proper(field[n], Bounds[i]) => Meant(field[n], Bounds[i]) \subseteq Bounds[i].min..Bounds[i].max
    BY <1>1, <1>2, RangeAsWritten
  <1>4. Bounds[i].min..Bounds[i].max \subseteq 0..(Word - 1)
    <2>1. Bounds[i].min \in Nat /\ Bounds[i].max \in Nat /\ Bounds[i].max + 1 < Word /\ Word \in Nat
      BY ParserAssumption
    <2> QED
      BY ONLY <2>1
  <1> QED
    BY <1>3, <1>4, ParserAssumption

\* getField, for the field at a place.
LEMMA BitsOfField ==
  ASSUME NEW i \in 1..6, NEW field \in FieldTexts
  PROVE  LET bad == \E n \in 1..Len(field) : Meant(field[n], Bounds[i]) = Error
         IN  /\ bad => GetField(field, Bounds[i]) = Error
             /\ ~bad => GetField(field, Bounds[i]) = FieldBits(field, i)
             /\ ~bad => FieldBits(field, i) \in SUBSET (0..(Word - 1))
  <1>1. field \in Seq(Ranges) /\ Fits(Bounds[i])
    BY BoundsFit DEF FieldTexts
  <1>2. /\ (\E n \in 1..Len(field) : ~Proper(field[n], Bounds[i])) => GetField(field, Bounds[i]) = Error
        /\ (\A n \in 1..Len(field) : Proper(field[n], Bounds[i])) =>
              GetField(field, Bounds[i]) = FieldBits(field, i)
    BY <1>1, FieldAsWritten DEF FieldBits
  <1>3. \A n \in 1..Len(field) : Proper(field[n], Bounds[i]) <=> Meant(field[n], Bounds[i]) # Error
    BY ErrorMeant
  <1>4. ASSUME \A n \in 1..Len(field) : Proper(field[n], Bounds[i])
        PROVE  FieldBits(field, i) \in SUBSET (0..(Word - 1))
    <2>1. \A n \in 1..Len(field) : field[n] \in Ranges
      BY <1>1
    <2>2. \A n \in 1..Len(field) : Meant(field[n], Bounds[i]) \subseteq Bounds[i].min..Bounds[i].max
      BY <1>1, <1>4, <2>1, RangeAsWritten
    <2>3. Bounds[i].min..Bounds[i].max \subseteq 0..(Word - 1) /\ StarBit \in 0..(Word - 1)
      <3>1. Bounds[i].min \in Nat /\ Bounds[i].max \in Nat /\ Bounds[i].max + 1 < Word /\ Word \in Nat
        BY ParserAssumption
      <3> QED
        BY ONLY <3>1 DEF StarBit
    <2> QED
      BY <2>2, <2>3 DEF FieldBits
  <1> QED
    BY <1>2, <1>3, <1>4

\* Parse, for a spec that is written in fields.
LEMMA FieldsParsed ==
  ASSUME NEW text, text.descriptor = Absent, text.fields \in Seq(FieldTexts),
         Cardinality(Optionals(text.options)) <= 1
  PROVE  /\ ParsedBits(text) = Error <=> Invalid(text)
         /\ ParsedBits(text) # Error => ParsedBits(text) = MeantBits(text)
  <1> DEFINE normal == NormalizeFields(text.fields, text.options)
             bad(i) == \E n \in 1..Len(normal[i]) : Meant(normal[i][n], Bounds[i]) = Error
             got    == [i \in 1..6 |-> GetField(normal[i], Bounds[i])]
  <1>1. \/ normal = Error /\ \A i \in 1..6 : Written(text, i) = Error
        \/ normal \in [1..6 -> FieldTexts] /\ \A i \in 1..6 : Written(text, i) = normal[i]
    BY NormalizedAsWritten
  <1>2. ParsedBits(text) = IF normal = Error THEN Error
                           ELSE IF \E i \in 1..6 : got[i] = Error THEN Error ELSE got
    BY DEF ParsedBits, ParseFields
  <1>3. Invalid(text) <=> \E i \in 1..6 : \/ Written(text, i) = Error
                                          \/ \E n \in 1..Len(Written(text, i)) :
                                               Meant(Written(text, i)[n], Bounds[i]) = Error
    BY DEF Invalid
  <1>4. CASE normal = Error
    <2>1. 1 \in 1..6
      OBVIOUS
    <2> QED
      BY <1>1, <1>2, <1>3, <1>4, <2>1, ErrorAssumption
  <1>5. CASE normal # Error
    <2>1. normal \in [1..6 -> FieldTexts] /\ \A i \in 1..6 : Written(text, i) = normal[i]
      BY <1>1, <1>5
    <2>2. ASSUME NEW i \in 1..6
          PROVE  /\ normal[i] \in FieldTexts /\ normal[i] # Error
                 /\ bad(i) => got[i] = Error
                 /\ ~bad(i) => got[i] = FieldBits(normal[i], i)
                 /\ ~bad(i) => got[i] \in SUBSET (0..(Word - 1))
      <3>1. normal[i] \in FieldTexts
        BY <2>1
      <3>2. got[i] = GetField(normal[i], Bounds[i])
        OBVIOUS
      <3> HIDE DEF got, normal
      <3>3. normal[i] # Error
        BY <3>1, ErrorAssumption
      <3> QED
        BY <3>1, <3>2, <3>3, BitsOfField
    <2>3. \A i \in 1..6 : got[i] = Error <=> bad(i)
      BY <2>2, ParserAssumption
    <2>4. Invalid(text) <=> \E i \in 1..6 : bad(i)
      BY <1>3, <2>1, <2>2
    <2>5. SpecFields(text) = [i \in 1..6 |-> normal[i]]
      <3>1. SpecFields(text) = <<normal[1], normal[2], normal[3], normal[4], normal[5], normal[6]>>
        BY <2>1 DEF SpecFields, EachField
      <3>2. normal = [i \in 1..6 |-> normal[i]]
        BY <2>1
      <3> HIDE DEF normal
      <3>3. normal = <<normal[1], normal[2], normal[3], normal[4], normal[5], normal[6]>>
        BY ONLY <3>2, SixPlaces
      <3> QED
        BY <3>1, <3>2, <3>3
    <2>6. MeantBits(text) = [i \in 1..6 |-> FieldBits(normal[i], i)]
      <3> DEFINE spec == [i \in 1..6 |-> normal[i]]
      <3>1. spec = SpecFields(text)
        BY <2>5
      <3>2. MeantBits(text) = [i \in 1..6 |-> FieldBits(spec[i], i)]
        <4> HIDE DEF spec
        <4> QED
          BY ONLY <3>1, MeantByPlace
      <3> QED
        BY <3>2
    <2>7. CASE \E i \in 1..6 : bad(i)
      BY <1>2, <2>3, <2>4, <2>7
    <2>8. CASE ~\E i \in 1..6 : bad(i)
      <3>1. ParsedBits(text) = got
        BY <1>2, <1>5, <2>3, <2>8
      <3>2. \A i \in 1..6 : got[i] = FieldBits(normal[i], i) /\ got[i] \in SUBSET (0..(Word - 1))
        BY <2>2, <2>8
      <3>3. got = [i \in 1..6 |-> got[i]]
        OBVIOUS
      <3> HIDE DEF got, normal
      <3>4. got = MeantBits(text)
        BY <2>6, <3>2, <3>3
      <3>5. got \in [1..6 -> SUBSET (0..(Word - 1))]
        BY <3>2, <3>3
      <3> QED
        BY <2>4, <2>8, <3>1, <3>4, <3>5, ParserAssumption
    <2> QED
      BY <2>7, <2>8
  <1> QED
    BY <1>4, <1>5

-----------------------------------------------------------------------------
(* Descriptors *)

\* A field of one range has the bits of that range.
LEMMA OneRange ==
  ASSUME NEW i \in 1..6, NEW e \in Ranges, Proper(e, Bounds[i])
  PROVE  FieldBits(<<e>>, i) = GetRange(e, Bounds[i])
  <1> DEFINE field == <<e>>
  <1>1. field \in Seq(Ranges) /\ Len(field) = 1 /\ field[1] = e
    OBVIOUS
  <1> HIDE DEF field
  <1>2. Fits(Bounds[i])
    BY BoundsFit
  <1>3. \A n \in 1..Len(field) : Proper(field[n], Bounds[i])
    BY <1>1
  <1>4. GetField(field, Bounds[i]) = FieldBits(field, i)
    BY <1>1, <1>2, <1>3, FieldAsWritten DEF FieldBits
  <1>5. {GetRange(field[n], Bounds[i]) : n \in 1..Len(field)} = {GetRange(e, Bounds[i])}
    BY <1>1
  <1>6. GetField(field, Bounds[i]) \in {Error, GetRange(e, Bounds[i])}
    BY <1>5 DEF GetField
  <1>7. GetField(field, Bounds[i]) # Error
    <2>1. field \in FieldTexts
      BY <1>1 DEF FieldTexts
    <2>2. \A n \in 1..Len(field) : Meant(field[n], Bounds[i]) # Error
      BY <1>3, <2>1, ErrorMeant
    <2>3. GetField(field, Bounds[i]) \in SUBSET (0..(Word - 1))
      BY <2>1, <2>2, BitsOfField
    <2> QED
      BY <2>3, ParserAssumption
  <1> QED
    BY <1>4, <1>6, <1>7 DEF field

\* The first value of a field as a number.
AtFirst(i) == [low |-> Bounds[i].min, high |-> Absent, step |-> Absent]

\* parser.go:384-437: "1 << seconds.min" and "all(hours)" are what the number
\* and the star in their places would be.
LEMMA DescriptorFields ==
  ASSUME NEW i \in 1..6
  PROVE  FieldBits(<<AtFirst(i)>>, i) = First(i) /\ FieldBits(<<StarRange>>, i) = AllOf(i)
  <1>1. /\ Bounds[i].min \in Nat /\ Bounds[i].max \in Nat /\ Bounds[i].min <= Bounds[i].max
        /\ Bounds[i].max + 1 < Word /\ Word \in Nat
        /\ Star \notin Nat /\ Absent \notin Nat /\ Star # Absent
    BY ParserAssumption
  <1> DEFINE min == Bounds[i].min
             max == Bounds[i].max
  <1>2. FieldBits(<<AtFirst(i)>>, i) = First(i)
    <2>1. AtFirst(i) \in Ranges
      BY <1>1 DEF AtFirst, Ranges
    <2>2. StartOf(AtFirst(i), Bounds[i]) = min /\ EndOf(AtFirst(i), Bounds[i]) = min /\ StepOf(AtFirst(i)) = 1
      BY <1>1 DEF AtFirst, StartOf, EndOf, StepOf
    <2>3. ExtraOf(AtFirst(i)) = {}
      BY <1>1 DEF AtFirst, ExtraOf
    <2>4. Proper(AtFirst(i), Bounds[i])
      BY <1>1, <2>2 DEF Proper
    <2>5. GetRange(AtFirst(i), Bounds[i]) = GetBits(min, min, 1)
      BY <1>1, <2>2, <2>3 DEF GetRange
    <2>6. GetBits(min, min, 1) = min..min
      <3>1. min \in Nat /\ min <= min /\ min + 1 < Word
        BY <1>1
      <3> HIDE DEF min
      <3> QED
        BY ONLY <3>1, ShiftsLeaveRange
    <2>7. min..min = {min}
      BY <1>1
    <2> QED
      BY <2>1, <2>4, <2>5, <2>6, <2>7, OneRange DEF First
  <1>3. FieldBits(<<StarRange>>, i) = AllOf(i)
    <2>1. StarRange \in Ranges
      BY <1>1 DEF StarRange, Ranges
    <2>2. StartOf(StarRange, Bounds[i]) = min /\ EndOf(StarRange, Bounds[i]) = max /\ StepOf(StarRange) = 1
      BY <1>1 DEF StarRange, StartOf, EndOf, StepOf
    <2>3. ExtraOf(StarRange) = {StarBit}
      BY <1>1, <2>2 DEF StarRange, ExtraOf
    <2>4. Proper(StarRange, Bounds[i])
      BY <1>1, <2>2 DEF Proper
    <2>5. GetRange(StarRange, Bounds[i]) = GetBits(min, max, 1) \cup {StarBit}
      BY <1>1, <2>2, <2>3 DEF GetRange
    <2> QED
      BY <2>1, <2>4, <2>5, OneRange DEF AllOf, All
  <1> QED
    BY <1>2, <1>3

\* parser.go:384-437, doc.go:74-83: each field of a descriptor is a first value
\* or a star, in the expression that is said to be equivalent as well.
LEMMA DescriptorPlaces ==
  ASSUME NEW d \in {"@yearly", "@monthly", "@weekly", "@daily", "@hourly"}, NEW i \in 1..6
  PROVE  \/ Equivalent(d)[i] = <<AtFirst(i)>> /\ ParseDescriptor(d)[i] = First(i)
         \/ Equivalent(d)[i] = <<StarRange>> /\ ParseDescriptor(d)[i] = AllOf(i)
  <1>1. AtFirst(i) = [low |-> IF i \in {4, 5} THEN 1 ELSE 0, high |-> Absent, step |-> Absent]
    BY BoundsAssumption DEF AtFirst
  <1>2. i = 1 \/ i = 2 \/ i = 3 \/ i = 4 \/ i = 5 \/ i = 6
    OBVIOUS
  <1>3. CASE d = "@yearly"
    BY <1>1, <1>2, <1>3 DEF ParseDescriptor, Equivalent
  <1>4. CASE d = "@monthly"
    BY <1>1, <1>2, <1>4 DEF ParseDescriptor, Equivalent
  <1>5. CASE d = "@weekly"
    BY <1>1, <1>2, <1>5 DEF ParseDescriptor, Equivalent
  <1>6. CASE d = "@daily"
    BY <1>1, <1>2, <1>6 DEF ParseDescriptor, Equivalent
  <1>7. CASE d = "@hourly"
    BY <1>1, <1>2, <1>7 DEF ParseDescriptor, Equivalent
  <1> QED
    BY <1>3, <1>4, <1>5, <1>6, <1>7

\* Parse, for a spec that is a descriptor.
LEMMA DescriptorParsed ==
  ASSUME NEW text, text.descriptor # Absent,
         text.descriptor \in {Absent, "@yearly", "@monthly", "@weekly", "@daily", "@hourly"}
  PROVE  /\ ParsedBits(text) = Error <=> Invalid(text)
         /\ ParsedBits(text) # Error => ParsedBits(text) = MeantBits(text)
  <1> DEFINE d    == text.descriptor
             six  == ParseDescriptor(d)
             spec == Equivalent(d)
  <1>1. d \in {"@yearly", "@monthly", "@weekly", "@daily", "@hourly"}
    OBVIOUS
  <1>2. six = [i \in 1..6 |-> six[i]]
    BY <1>1 DEF ParseDescriptor
  <1>3. ASSUME NEW i \in 1..6
        PROVE  \/ spec[i] = <<AtFirst(i)>> /\ six[i] = First(i)
               \/ spec[i] = <<StarRange>> /\ six[i] = AllOf(i)
    BY <1>1, DescriptorPlaces
  <1>4. \A i \in 1..6 : six[i] = FieldBits(spec[i], i)
    <2> HIDE DEF six, spec
    <2> QED
      BY <1>3, DescriptorFields
  <1>5. six = [i \in 1..6 |-> FieldBits(spec[i], i)]
    <2> HIDE DEF six, spec
    <2> QED
      BY ONLY <1>2, <1>4
  <1>6. six # Error
    <2>1. \A i \in 1..6 : six[i] \in SUBSET (0..(Word - 1))
      <3>1. ASSUME NEW i \in 1..6
            PROVE  First(i) \in SUBSET (0..(Word - 1)) /\ AllOf(i) \in SUBSET (0..(Word - 1))
        <4>1. /\ Bounds[i].min \in Nat /\ Bounds[i].max \in Nat /\ Bounds[i].min <= Bounds[i].max
              /\ Bounds[i].max + 1 < Word /\ Word \in Nat
          BY ParserAssumption
        <4>2. GetBits(Bounds[i].min, Bounds[i].max, 1) \in SUBSET (0..(Word - 1))
          BY DEF GetBits, Positions
        <4> QED
          BY <4>1, <4>2 DEF First, AllOf, All, StarBit
      <3> HIDE DEF six, spec
      <3> QED
        BY <1>3, <3>1
    <2> HIDE DEF six
    <2>2. six \in [1..6 -> SUBSET (0..(Word - 1))]
      BY <1>2, <2>1
    <2> QED
      BY <2>2, ParserAssumption
  <1>7. MeantBits(text) = six
    <2>1. spec = SpecFields(text)
      BY DEF SpecFields
    <2> HIDE DEF six, spec
    <2> QED
      BY <1>5, <2>1, MeantByPlace
  <1>8. ParsedBits(text) = IF "Descriptor" \in text.options THEN six ELSE Error
    BY DEF ParsedBits
  <1> HIDE DEF six
  <1> QED
    BY <1>6, <1>7, <1>8 DEF Invalid

\* A set with any value has one up to the given limit.
UpTo(values, limit) == values # {} => \E m \in values : m \in Nat /\ m <= limit

\* Whether a field was written as a star can be told from its bits: no value
\* is as large as the bit of the star.  A field with a star has values as well.
LEMMA StarsMeant ==
  ASSUME NEW text,
         text.descriptor \in {Absent, "@yearly", "@monthly", "@weekly", "@daily", "@hourly"},
         text.fields \in Seq(FieldTexts), Cardinality(Optionals(text.options)) <= 1,
         ~Invalid(text), NEW i \in 1..6
  PROVE  /\ StarBit \in FieldBits(SpecFields(text)[i], i) <=> Unrestricted(SpecFields(text)[i])
         /\ UpTo(FieldBits(SpecFields(text)[i], i), Bounds[i].max)
  <1> DEFINE min == Bounds[i].min
             max == Bounds[i].max
  <1>1. /\ min \in Nat /\ max \in Nat /\ min <= max /\ max + 1 < Word /\ Word \in Nat
        /\ Star \notin Nat /\ Absent \notin Nat /\ Star # Absent
    BY ParserAssumption
  <1>2. StarBit \notin min..max
    BY <1>1 DEF StarBit
  <1>3. CASE text.descriptor = Absent
    <2> DEFINE field == Written(text, i)
    <2>1. /\ field # Error
          /\ \A n \in 1..Len(field) : Meant(field[n], Bounds[i]) # Error
      BY <1>3 DEF Invalid
    <2>2. SpecFields(text)[i] = field
      <3>1. i = 1 \/ i = 2 \/ i = 3 \/ i = 4 \/ i = 5 \/ i = 6
        OBVIOUS
      <3> QED
        BY <1>3, <3>1 DEF SpecFields, EachField
    <2>3. field \in FieldTexts
      <3> DEFINE normal == NormalizeFields(text.fields, text.options)
      <3>1. \/ normal = Error /\ \A j \in 1..6 : Written(text, j) = Error
            \/ normal \in [1..6 -> FieldTexts] /\ \A j \in 1..6 : Written(text, j) = normal[j]
        BY NormalizedAsWritten
      <3> HIDE DEF normal
      <3> QED
        BY <2>1, <3>1
    <2> HIDE DEF field
    <2>4. ASSUME NEW n \in 1..Len(field) PROVE Meant(field[n], Bounds[i]) \subseteq min..max
      <3>1. Proper(field[n], Bounds[i]) /\ field[n] \in Ranges /\ Fits(Bounds[i])
        BY <2>1, <2>3, ErrorMeant, BoundsFit DEF FieldTexts
      <3> QED
        BY <3>1, RangeAsWritten
    <2>5. StarBit \in FieldBits(field, i) <=> Unrestricted(field)
      BY <1>2, <2>4 DEF FieldBits
    <2>6. Unrestricted(field) => min \in FieldBits(field, i)
      <3> SUFFICES ASSUME NEW n \in 1..Len(field), field[n].low = Star, field[n].step \in {Absent, 1}
                   PROVE  min \in FieldBits(field, i)
        BY DEF Unrestricted
      <3>1. min \in Meant(field[n], Bounds[i])
        <4> DEFINE e == field[n]
        <4>1. e \in Ranges /\ Fits(Bounds[i]) /\ Proper(e, Bounds[i])
          BY <2>1, <2>3, ErrorMeant, BoundsFit DEF FieldTexts
        <4>2. StartOf(e, Bounds[i]) = min /\ EndOf(e, Bounds[i]) = max /\ StepOf(e) = 1
          BY DEF StartOf, EndOf, StepOf
        <4> HIDE DEF e
        <4>3. Meant(e, Bounds[i]) = {min + k * 1 : k \in 0..((max - min) \div 1)}
          BY <4>1, <4>2, MeantByEnds
        <4>4. 0 \in 0..((max - min) \div 1) /\ min + 0 * 1 = min
          BY <1>1
        <4> HIDE DEF min, max
        <4>5. min \in Meant(e, Bounds[i])
          BY <4>3, <4>4
        <4> QED
          BY <4>5 DEF e
      <3> QED
        BY <3>1 DEF FieldBits
    <2>7. FieldBits(field, i) # {} => \E m \in FieldBits(field, i) : m \in min..max
      BY <1>1, <2>4, <2>6 DEF FieldBits
    <2> QED
      BY <1>1, <2>2, <2>5, <2>7 DEF UpTo
  <1>4. CASE text.descriptor # Absent
    <2> DEFINE field == Equivalent(text.descriptor)[i]
    <2>1. SpecFields(text)[i] = field
      BY <1>4 DEF SpecFields
    <2>2. field = <<AtFirst(i)>> \/ field = <<StarRange>>
      BY <1>4, DescriptorPlaces
    <2>3. CASE field = <<AtFirst(i)>>
      <3>1. FieldBits(field, i) = {min}
        BY <2>3, DescriptorFields DEF First
      <3>2. ~Unrestricted(field)
        <4> HIDE DEF field
        <4> QED
          BY <1>1, <2>3 DEF Unrestricted, AtFirst
      <3>3. StarBit # min
        BY <1>1, <1>2
      <3> QED
        BY <1>1, <2>1, <3>1, <3>2, <3>3 DEF UpTo
    <2>4. CASE field = <<StarRange>>
      <3>1. StarBit \in FieldBits(field, i)
        BY <2>4, DescriptorFields DEF AllOf, All
      <3>2. Unrestricted(field)
        <4> HIDE DEF field
        <4> QED
          BY <2>4 DEF Unrestricted, StarRange
      <3>3. min \in FieldBits(field, i)
        <4>1. GetBits(min, max, 1) = min..max
          BY <1>1, ShiftsLeaveRange
        <4>2. min \in GetBits(min, max, 1)
          BY <1>1, <4>1
        <4> QED
          BY <2>4, <4>2, DescriptorFields DEF AllOf, All
      <3> QED
        BY <1>1, <2>1, <3>1, <3>2, <3>3 DEF UpTo
    <2> QED
      BY <2>2, <2>3, <2>4
  <1> QED
    BY <1>3, <1>4

-----------------------------------------------------------------------------
(* Parse, on the way to Next *)

\* The bits are those of the text from Begin on.
BitsInv ==
  /\ query \in Queries
  /\ pc = "parse" => IF query.text.descriptor = Absent
                     THEN fields = NormalizeFields(query.text.fields, query.text.options)
                     ELSE bits = ParsedBits(query.text)
  /\ pc \notin {"normalize", "parse"} => bits = ParsedBits(query.text)
  /\ pc = "rejected" => bits = Error
  /\ pc \notin {"normalize", "parse", "rejected"} => bits # Error

\* The loops of Next leave the bits alone.
LEMMA BitsStep == BitsInv /\ [Next]_vars => BitsInv'
  <1> SUFFICES ASSUME BitsInv, [Next]_vars PROVE BitsInv'
    OBVIOUS
  <1>1. CASE Normalize
    BY <1>1 DEF BitsInv, Normalize, ParsedBits
  <1>2. CASE Begin
    BY <1>2 DEF BitsInv, Begin, ParsedBits
  <1>3. CASE Wrap
    BY <1>3 DEF BitsInv, Wrap
  <1>4. CASE MonthLoop
    BY <1>4 DEF BitsInv, MonthLoop, Loop
  <1>5. CASE DayLoop
    BY <1>5 DEF BitsInv, DayLoop, Loop
  <1>6. CASE HourLoop
    BY <1>6 DEF BitsInv, HourLoop, Loop
  <1>7. CASE MinuteLoop
    BY <1>7 DEF BitsInv, MinuteLoop, Loop
  <1>8. CASE SecondLoop
    BY <1>8 DEF BitsInv, SecondLoop, Loop
  <1>9. CASE UNCHANGED vars
    BY <1>9 DEF BitsInv, vars
  <1> QED
    BY <1>1, <1>2, <1>3, <1>4, <1>5, <1>6, <1>7, <1>8, <1>9 DEF Next

\* parser.go:105-374: for any bounds, options, fields and descriptors, a spec is
\* rejected exactly if its text is not valid, and the bits that Next works on
\* are the values the text names.
THEOREM BitsAsWritten == Spec => []ParsedAsWritten
  <1>1. Init => BitsInv
    BY DEF Init, BitsInv
  <1>2. ASSUME BitsInv PROVE ParsedAsWritten
    <2> DEFINE text == query.text
    <2>1. /\ text.descriptor \in {Absent, "@yearly", "@monthly", "@weekly", "@daily", "@hourly"}
          /\ text.fields \in Seq(FieldTexts)
          /\ Cardinality(Optionals(text.options)) <= 1
      BY <1>2, QueryAssumption DEF BitsInv
    <2>2. /\ ParsedBits(text) = Error <=> Invalid(text)
          /\ ParsedBits(text) # Error => ParsedBits(text) = MeantBits(text)
      <3> HIDE DEF text
      <3>1. CASE text.descriptor = Absent
        BY ONLY <2>1, <3>1, FieldsParsed
      <3>2. CASE text.descriptor # Absent
        BY ONLY <2>1, <3>2, DescriptorParsed
      <3> QED
        BY <3>1, <3>2
    <2>3. pc = "rejected" => Invalid(text)
      BY <1>2, <2>2 DEF BitsInv
    <2>4. pc = "WRAP" => ~Invalid(text) /\ bits = MeantBits(text)
      BY <1>2, <2>2 DEF BitsInv
    <2> QED
      BY <2>3, <2>4 DEF ParsedAsWritten, MeantBits
  <1> QED
    BY <1>1, <1>2, BitsStep, PTL DEF Spec

-----------------------------------------------------------------------------
(* Units of time *)

LEMMA Floor ==
  ASSUME NEW n \in Nat \ {0}, NEW c \in Int
  PROVE  /\ c \div n \in Int /\ (c \div n) * n <= c /\ c < (c \div n) * n + n
         /\ c % n \in 0..(n - 1) /\ c = (c \div n) * n + (c % n)
  <1>1. c \div n \in Int
    OBVIOUS
  <1>2. c % n \in 0..(n - 1)
    OBVIOUS
  <1>3. c = n * (c \div n) + (c % n)
    OBVIOUS
  <1>4. n * (c \div n) = (c \div n) * n
    BY <1>1
  <1> DEFINE p == (c \div n) * n
             r == c % n
  <1>5. p \in Int
    BY <1>1
  <1> HIDE DEF p, r
  <1>6. c = p + r /\ r \in 0..(n - 1)
    BY <1>2, <1>3, <1>4 DEF p, r
  <1>7. p <= c /\ c < p + n
    BY <1>5, <1>6
  <1> QED
    BY <1>1, <1>2, <1>6, <1>7 DEF p, r

LEMMA Quotient ==
  ASSUME NEW n \in Nat \ {0}, NEW c \in Int, NEW q \in Int, q * n <= c, c < q * n + n
  PROVE  c \div n = q /\ c % n = c - q * n
  <1> DEFINE p == c \div n
  <1>1. p \in Int /\ p * n <= c /\ c < p * n + n /\ c = p * n + (c % n)
    BY Floor
  <1> HIDE DEF p
  <1>2. CASE p < q
    <2>1. p + 1 <= q
      BY <1>1, <1>2
    <2>2. (p + 1) * n <= q * n
      BY <1>1, <2>1
    <2>3. (p + 1) * n = p * n + n
      BY <1>1
    <2> QED
      BY <1>1, <2>2, <2>3
  <1>3. CASE q < p
    <2>1. q + 1 <= p
      BY <1>1, <1>3
    <2>2. (q + 1) * n <= p * n
      BY <1>1, <2>1
    <2>3. (q + 1) * n = q * n + n
      OBVIOUS
    <2> QED
      BY <1>1, <2>2, <2>3
  <1>4. p = q
    BY <1>1, <1>2, <1>3
  <1> QED
    BY <1>1, <1>4 DEF p

\* A second belongs to the hour of its minute.
LEMMA Nested ==
  ASSUME NEW n \in Nat \ {0}, NEW k \in Nat \ {0}, NEW c \in Int
  PROVE  k * n \in Nat \ {0} /\ (c \div n) \div k = c \div (k * n)
  <1> DEFINE q == c \div n
             r == q \div k
             m == k * n
  <1>1. q \in Int /\ q * n <= c /\ c < q * n + n
    BY Floor
  <1> HIDE DEF q
  <1>2. r \in Int /\ r * k <= q /\ q < r * k + k
    BY <1>1, Floor
  <1> HIDE DEF r
  <1>3. m \in Nat \ {0}
    OBVIOUS
  <1>4. (r * k) * n <= q * n
    BY <1>1, <1>2
  <1>5. (q + 1) * n <= (r * k + k) * n
    BY <1>1, <1>2
  <1>6. (r * k) * n = r * m /\ (r * k + k) * n = r * m + m /\ (q + 1) * n = q * n + n
    BY <1>1, <1>2
  <1>7. r * m <= c /\ c < r * m + m
    <2> HIDE DEF m
    <2> DEFINE rm == r * m
               qn == q * n
    <2>1. rm \in Int /\ qn \in Int
      BY <1>1, <1>2, <1>3
    <2> HIDE DEF rm, qn
    <2>2. rm <= qn /\ qn + n <= rm + m
      BY <1>4, <1>5, <1>6 DEF rm, qn
    <2>3. qn <= c /\ c < qn + n
      BY <1>1 DEF qn
    <2>4. rm <= c /\ c < rm + m
      BY <1>3, <2>1, <2>2, <2>3
    <2> QED
      BY <2>4 DEF rm
  <1>8. c \div m = r
    <2> HIDE DEF m
    <2> QED
      BY <1>2, <1>3, <1>7, Quotient
  <1> QED
    BY <1>3, <1>8 DEF r, q

\* The next second is in the same unit or begins one.
LEMMA NextUnit ==
  ASSUME NEW n \in Nat \ {0}, NEW c \in Int
  PROVE  (c + 1) \div n = c \div n \/ (c + 1) % n = 0
  <1> DEFINE q == c \div n
  <1>1. q \in Int /\ q * n <= c /\ c < q * n + n
    BY Floor
  <1> HIDE DEF q
  <1>2. CASE c + 1 < q * n + n
    BY <1>1, <1>2, Quotient DEF q
  <1>3. CASE c + 1 = q * n + n
    <2>1. (q + 1) * n = q * n + n
      BY <1>1
    <2>2. (q + 1) * n <= c + 1 /\ c + 1 < (q + 1) * n + n
      BY <1>1, <1>3, <2>1
    <2>3. (c + 1) % n = (c + 1) - (q + 1) * n
      <3>1. c + 1 \in Int /\ q + 1 \in Int
        BY <1>1
      <3> QED
        BY <2>2, <3>1, Quotient
    <2> QED
      BY <1>1, <1>3, <2>1, <2>3
  <1> QED
    BY <1>1, <1>2, <1>3

\* Units come in order.
LEMMA UnitsInOrder ==
  ASSUME NEW n \in Nat \ {0}, NEW c \in Int, NEW d \in Int, c <= d
  PROVE  c \div n <= d \div n
  <1> DEFINE p == c \div n
             q == d \div n
  <1>1. p \in Int /\ p * n <= c /\ q \in Int /\ d < q * n + n
    BY Floor
  <1> HIDE DEF p, q
  <1>2. CASE q < p
    <2>1. (q + 1) * n <= p * n
      BY <1>1, <1>2
    <2>2. (q + 1) * n = q * n + n
      BY <1>1
    <2> QED
      BY <1>1, <2>1, <2>2
  <1>3. p <= q
    BY <1>1, <1>2
  <1> QED
    BY <1>3 DEF p, q

\* Whole units more change the number of units and not the rest.
LEMMA Shifted ==
  ASSUME NEW n \in Nat \ {0}, NEW c \in Int, NEW m \in Int
  PROVE  (c + m * n) \div n = (c \div n) + m /\ (c + m * n) % n = c % n
  <1> DEFINE q  == c \div n
             qn == q * n
             mn == m * n
             e  == c + mn
  <1>1. q \in Int /\ qn \in Int /\ mn \in Int /\ qn <= c /\ c < qn + n /\ c = qn + (c % n)
    <2>1. q \in Int /\ q * n <= c /\ c < q * n + n /\ c = q * n + (c % n)
      BY Floor
    <2> HIDE DEF q
    <2> QED
      BY <2>1
  <1>2. (q + m) * n = qn + mn /\ q + m \in Int
    <2> HIDE DEF q
    <2> QED
      BY <1>1
  <1> HIDE DEF qn, mn
  <1>3. e \in Int /\ (q + m) * n <= e /\ e < (q + m) * n + n
    BY <1>1, <1>2
  <1> HIDE DEF e, q
  <1>4. e \div n = q + m /\ e % n = e - (q + m) * n
    BY <1>2, <1>3, Quotient
  <1>5. e - (q + m) * n = c % n
    <2>1. c % n \in Int
      BY Floor
    <2> QED
      BY <1>1, <1>2, <2>1 DEF e
  <1> QED
    BY <1>4, <1>5 DEF q, e, mn

-----------------------------------------------------------------------------
(* Clocks *)

\* A zone whose offsets are less than a day, and whose clock is changed at full
\* hours after more than a day, if it is.
Orderly(z) ==
  /\ z.base \in (1 - HoursPerDay)..(HoursPerDay - 2) /\ z.spring \in Int /\ z.fall \in Int
  /\ z.spring < z.fall => z.spring % Hour = 0 /\ z.fall % Hour = 0 /\ z.spring + Day < z.fall

\* The offset in winter.
Winter(z) == z.base * Hour

LEMMA Units ==
  /\ SecondsPerMinute \in Nat \ {0} /\ MinutesPerHour \in Nat \ {0}
  /\ HoursPerDay \in Nat \ {0} /\ DaysPerWeek \in Nat \ {0}
  /\ Hour \in Nat \ {0} /\ Day \in Nat \ {0}
  <1>1. /\ SecondsPerMinute \in Nat \ {0} /\ MinutesPerHour \in Nat \ {0}
        /\ HoursPerDay \in Nat \ {0} /\ DaysPerWeek \in Nat \ {0}
    BY UnitsAssumption, ParserAssumption
  <1>2. Hour \in Nat \ {0}
    BY <1>1 DEF Hour
  <1>3. Day \in Nat \ {0}
    BY <1>1, <1>2 DEF Day
  <1> QED
    BY <1>1, <1>2, <1>3

LEMMA Offsets ==
  ASSUME NEW z, Orderly(z)
  PROVE  /\ Winter(z) \in Int /\ -Day < Winter(z) /\ Winter(z) + Hour < Day
         /\ z.base < 0 => Winter(z) < 0
         /\ \A u \in Int : /\ OffsetAt(z, u) = IF Summer(z, u) THEN Winter(z) + Hour ELSE Winter(z)
                           /\ OffsetAt(z, u) \in Int /\ -Day < OffsetAt(z, u) /\ OffsetAt(z, u) < Day
                           /\ Clock(z, u) = u + OffsetAt(z, u) /\ Clock(z, u) \in Int
  <1> DEFINE h == HoursPerDay
             w == Winter(z)
             b == z.base
  <1>1. /\ h \in Nat \ {0} /\ Hour \in Nat \ {0} /\ b \in Int
        /\ 1 - h <= b /\ b + 2 <= h
    BY Units DEF Orderly
  <1>2. w = b * Hour /\ Day = h * Hour /\ w \in Int /\ Day \in Int
    BY <1>1, Units DEF Winter, Day
  <1> HIDE DEF h, w, b
  <1>3. (1 - h) * Hour <= b * Hour /\ (b + 2) * Hour <= h * Hour
    BY <1>1
  <1>4. (1 - h) * Hour = Hour - h * Hour /\ (b + 2) * Hour = b * Hour + Hour + Hour
    BY <1>1
  <1>5. Hour - Day <= w /\ w + Hour + Hour <= Day
    BY <1>2, <1>3, <1>4
  <1>6. b < 0 => w < 0
    <2>1. ASSUME b < 0 PROVE b * Hour <= (-1) * Hour
      BY <1>1, <2>1
    <2>2. (-1) * Hour = -Hour
      BY <1>1
    <2> QED
      BY <1>1, <1>2, <2>1, <2>2
  <1>7. (b + 1) * Hour = w + Hour /\ (b + 0) * Hour = w
    BY <1>1, <1>2
  <1>8. ASSUME NEW u \in Int
        PROVE  /\ OffsetAt(z, u) = IF Summer(z, u) THEN w + Hour ELSE w
               /\ OffsetAt(z, u) \in Int /\ -Day < OffsetAt(z, u) /\ OffsetAt(z, u) < Day
               /\ Clock(z, u) = u + OffsetAt(z, u) /\ Clock(z, u) \in Int
    <2>1. OffsetAt(z, u) = IF Summer(z, u) THEN w + Hour ELSE w
      BY <1>7 DEF OffsetAt, b
    <2>2. OffsetAt(z, u) \in Int /\ -Day < OffsetAt(z, u) /\ OffsetAt(z, u) < Day
      BY <1>1, <1>2, <1>5, <2>1
    <2> QED
      BY <2>1, <2>2 DEF Clock
  <1> QED
    BY <1>1, <1>2, <1>5, <1>6, <1>8 DEF w, b

\* The beginnings of units.
AtMinute(z, u) == Clock(z, u) % SecondsPerMinute = 0
AtHour(z, u)   == Clock(z, u) % Hour = 0
AtDay(z, u)    == Clock(z, u) % Day = 0
AtMonth(z, u)  == AtDay(z, u) /\ DateOf(z, u).day = 1

\* Two times in the same minute, hour or day.
SameMinute(z, u, v) == Clock(z, u) \div SecondsPerMinute = Clock(z, v) \div SecondsPerMinute
SameHour(z, u, v)   == Clock(z, u) \div Hour = Clock(z, v) \div Hour
SameDay(z, u, v)    == DayOf(z, u) = DayOf(z, v)

\* Hours and minutes begin everywhere at once, because zones differ by hours.
LEMMA HoursOfClock ==
  ASSUME NEW z, Orderly(z), NEW u \in Int
  PROVE  /\ Clock(z, u) % Hour = u % Hour /\ Clock(z, u) % SecondsPerMinute = u % SecondsPerMinute
         /\ Clock(z, u) \div Hour = (u \div Hour) + z.base + (IF Summer(z, u) THEN 1 ELSE 0)
         /\ Clock(z, u) \div SecondsPerMinute =
              (u \div SecondsPerMinute) + (z.base + (IF Summer(z, u) THEN 1 ELSE 0)) * MinutesPerHour
  <1> DEFINE m == z.base + (IF Summer(z, u) THEN 1 ELSE 0)
             k == m * MinutesPerHour
  <1>1. m \in Int /\ k \in Int /\ z.base \in Int
    BY Units DEF Orderly
  <1>2. Clock(z, u) = u + m * Hour
    BY DEF Clock, OffsetAt
  <1> HIDE DEF m, k
  <1>3. m * Hour = k * SecondsPerMinute
    BY <1>1, Units DEF Hour, k
  <1>4. Clock(z, u) \div Hour = (u \div Hour) + m /\ Clock(z, u) % Hour = u % Hour
    BY <1>1, <1>2, Units, Shifted
  <1>5. /\ Clock(z, u) \div SecondsPerMinute = (u \div SecondsPerMinute) + k
        /\ Clock(z, u) % SecondsPerMinute = u % SecondsPerMinute
    <2>1. Clock(z, u) = u + k * SecondsPerMinute
      BY <1>2, <1>3
    <2> QED
      BY <1>1, <2>1, Units, Shifted
  <1>6. (u \div Hour) + m = (u \div Hour) + z.base + (IF Summer(z, u) THEN 1 ELSE 0)
    <2>1. u \div Hour \in Int
      BY Units, Floor
    <2> QED
      BY <1>1, <2>1 DEF m
  <1> QED
    BY <1>4, <1>5, <1>6 DEF m, k

\* A time of the same hour or minute, whichever zone counts them, is so on the
\* clock: within an hour the clock is not changed.
LEMMA HourUnchanged ==
  ASSUME NEW z, Orderly(z), NEW u \in Int, NEW v \in Int
  PROVE  /\ u \div Hour = v \div Hour => SameHour(z, u, v)
         /\ u \div SecondsPerMinute = v \div SecondsPerMinute => SameMinute(z, u, v) /\ SameHour(z, u, v)
  <1>1. ASSUME NEW x \in Int, x % Hour = 0, NEW y \in Int PROVE x <= y <=> x \div Hour <= y \div Hour
    <2> DEFINE p == x \div Hour
               q == y \div Hour
    <2>1. p \in Int /\ q \in Int /\ x = p * Hour + 0 /\ q * Hour <= y /\ y < q * Hour + Hour
      BY <1>1, Units, Floor
    <2>2. x <= y => p <= q
      BY <1>1, Units, UnitsInOrder
    <2> HIDE DEF p, q
    <2>3. ASSUME p <= q PROVE x <= y
      <3>1. p * Hour <= q * Hour /\ p * Hour \in Int /\ q * Hour \in Int
        BY <2>1, <2>3, Units
      <3> QED
        BY <2>1, <3>1
    <2> QED
      BY <2>2, <2>3 DEF p, q
  <1>2. ASSUME u \div Hour = v \div Hour PROVE SameHour(z, u, v)
    <2>1. Summer(z, u) <=> Summer(z, v)
      <3>1. CASE z.spring < z.fall
        <4>1. /\ z.spring \in Int /\ z.fall \in Int
              /\ z.spring % Hour = 0 /\ z.fall % Hour = 0
          BY <3>1 DEF Orderly
        <4>2. /\ z.spring <= u <=> z.spring <= v
              /\ z.fall <= u <=> z.fall <= v
          BY <1>1, <1>2, <4>1
        <4> QED
          BY <4>1, <4>2 DEF Summer
      <3>2. CASE ~(z.spring < z.fall)
        BY <3>2 DEF Summer, Orderly
      <3> QED
        BY <3>1, <3>2
    <2> QED
      BY <1>2, <2>1, HoursOfClock DEF SameHour
  <1>3. ASSUME u \div SecondsPerMinute = v \div SecondsPerMinute
        PROVE  SameMinute(z, u, v) /\ SameHour(z, u, v)
    <2>1. u \div Hour = v \div Hour
      <3>1. /\ (u \div SecondsPerMinute) \div MinutesPerHour = u \div Hour
            /\ (v \div SecondsPerMinute) \div MinutesPerHour = v \div Hour
        BY Units, Nested DEF Hour
      <3> QED
        BY <1>3, <3>1
    <2>2. SameHour(z, u, v)
      BY <1>2, <2>1
    <2>4. Summer(z, u) <=> Summer(z, v)
      <3> DEFINE su == IF Summer(z, u) THEN 1 ELSE 0
                 sv == IF Summer(z, v) THEN 1 ELSE 0
      <3>1. (u \div Hour) + z.base + su = (v \div Hour) + z.base + sv
        BY <2>2, HoursOfClock DEF SameHour
      <3>2. u \div Hour \in Int /\ v \div Hour \in Int /\ z.base \in Int /\ su \in Int /\ sv \in Int
        BY Units, Floor DEF Orderly
      <3> HIDE DEF su, sv
      <3>3. su = sv
        <4> DEFINE p == u \div Hour
                   q == v \div Hour
        <4>1. p \in Int /\ q \in Int /\ p = q /\ p + z.base + su = q + z.base + sv
          BY <2>1, <3>1, <3>2
        <4> HIDE DEF p, q
        <4> QED
          BY <3>2, <4>1
      <3> QED
        BY <3>3 DEF su, sv
    <2>5. SameMinute(z, u, v)
      BY <1>3, <2>4, HoursOfClock DEF SameMinute
    <2> QED
      BY <2>2, <2>5
  <1> QED
    BY <1>2, <1>3

\* An hour of the clock may come again, but no earlier one: hours, days and
\* years of the clock are in order.
LEMMA HoursInOrder ==
  ASSUME NEW z, Orderly(z), NEW u \in Int, NEW v \in Int, u <= v
  PROVE  /\ Clock(z, u) \div Hour \in Int /\ Clock(z, v) \div Hour \in Int
         /\ Clock(z, u) \div Hour <= Clock(z, v) \div Hour
  <1> DEFINE p == u \div Hour
             q == v \div Hour
             f == z.fall \div Hour
  <1>1. p \in Int /\ q \in Int /\ p <= q /\ z.base \in Int
    <2>1. z.base \in Int
      BY DEF Orderly
    <2>2. p \in Int /\ q \in Int
      BY Units, Floor
    <2>3. p <= q
      BY Units, UnitsInOrder
    <2> QED
      BY <2>1, <2>2, <2>3
  <1>2. /\ Clock(z, u) \div Hour = p + z.base + (IF Summer(z, u) THEN 1 ELSE 0)
        /\ Clock(z, v) \div Hour = q + z.base + (IF Summer(z, v) THEN 1 ELSE 0)
    BY HoursOfClock
  <1>3. CASE Summer(z, u) /\ ~Summer(z, v)
    <2>1. /\ z.spring < z.fall /\ u < z.fall /\ z.fall <= v /\ z.fall \in Int
          /\ z.fall % Hour = 0
      BY <1>3 DEF Summer, Orderly
    <2>2. f \in Int /\ z.fall = f * Hour /\ f <= q
      <3>1. f \in Int /\ z.fall = f * Hour + 0
        BY <2>1, Units, Floor
      <3>2. f <= q
        BY <2>1, Units, UnitsInOrder
      <3>3. f * Hour \in Int
        BY <3>1, Units
      <3> QED
        BY <3>1, <3>2, <3>3
    <2>3. p < f
      <3>1. p * Hour <= u
        BY Units, Floor
      <3> HIDE DEF p, f
      <3>2. ASSUME f <= p PROVE FALSE
        <4>1. f * Hour <= p * Hour /\ p * Hour \in Int
          BY <1>1, <2>2, <3>2, Units
        <4> QED
          BY <2>1, <2>2, <3>1, <4>1
      <3> QED
        BY <1>1, <2>2, <3>2
    <2> HIDE DEF p, q, f
    <2> QED
      BY <1>1, <1>2, <1>3, <2>2, <2>3
  <1>4. CASE ~(Summer(z, u) /\ ~Summer(z, v))
    <2> HIDE DEF p, q
    <2> QED
      BY <1>1, <1>2, <1>4
  <1>5. Clock(z, u) \div Hour \in Int /\ Clock(z, v) \div Hour \in Int
    <2> HIDE DEF p, q
    <2> QED
      BY <1>1, <1>2
  <1> QED
    BY <1>3, <1>4, <1>5

LEMMA UnitsOfTime ==
  ASSUME NEW z, NEW u, Clock(z, u) \in Int
  PROVE  /\ (Clock(z, u) \div SecondsPerMinute) \div MinutesPerHour = Clock(z, u) \div Hour
         /\ (Clock(z, u) \div Hour) \div HoursPerDay = DayOf(z, u)
         /\ Clock(z, u) \div SecondsPerMinute \in Int /\ Clock(z, u) \div Hour \in Int /\ DayOf(z, u) \in Int
  <1> DEFINE c == Clock(z, u)
  <1>1. c \in Int
    OBVIOUS
  <1> HIDE DEF c
  <1>2. (c \div SecondsPerMinute) \div MinutesPerHour = c \div (MinutesPerHour * SecondsPerMinute)
    BY <1>1, Units, Nested
  <1>3. (c \div Hour) \div HoursPerDay = c \div (HoursPerDay * Hour)
    BY <1>1, Units, Nested
  <1>4. c \div SecondsPerMinute \in Int /\ c \div Hour \in Int /\ c \div Day \in Int
    BY <1>1, Units, Floor
  <1> QED
    BY <1>2, <1>3, <1>4 DEF c, Hour, Day, DayOf

\* Times between two of the same hour are in that hour.
LEMMA DaysInOrder ==
  ASSUME NEW z, Orderly(z), NEW u \in Int, NEW v \in Int, u <= v
  PROVE  /\ DayOf(z, u) \in Int /\ DayOf(z, v) \in Int /\ DayOf(z, u) <= DayOf(z, v)
         /\ SameHour(z, u, v) => \A w \in u..v : SameHour(z, u, w)
  <1>1. Clock(z, u) \in Int /\ Clock(z, v) \in Int
    BY Offsets
  <1>2. /\ Clock(z, u) \div Hour \in Int /\ Clock(z, v) \div Hour \in Int
        /\ Clock(z, u) \div Hour <= Clock(z, v) \div Hour
    BY HoursInOrder
  <1>3. /\ DayOf(z, u) = (Clock(z, u) \div Hour) \div HoursPerDay
        /\ DayOf(z, v) = (Clock(z, v) \div Hour) \div HoursPerDay
        /\ DayOf(z, u) \in Int /\ DayOf(z, v) \in Int
    BY <1>1, UnitsOfTime
  <1>4. DayOf(z, u) <= DayOf(z, v)
    BY <1>2, <1>3, Units, UnitsInOrder
  <1>5. ASSUME SameHour(z, u, v), NEW w \in u..v PROVE SameHour(z, u, w)
    <2>1. w \in Int /\ u <= w /\ w <= v
      OBVIOUS
    <2>2. Clock(z, u) \div Hour <= Clock(z, w) \div Hour /\ Clock(z, w) \div Hour <= Clock(z, v) \div Hour
          /\ Clock(z, w) \div Hour \in Int
      BY <2>1, HoursInOrder
    <2> QED
      BY <1>2, <1>5, <2>2 DEF SameHour
  <1> QED
    BY <1>3, <1>4, <1>5

-----------------------------------------------------------------------------
(* Midnights and hours, as Date finds them *)

\* What begins at full hours on two clocks is an hour or more apart.
LEMMA FullHours ==
  ASSUME NEW c \in Int, c % Hour = 0, NEW d \in Int, d % Hour = 0, c < d
  PROVE  c + Hour <= d
  <1> DEFINE p == c \div Hour
             q == d \div Hour
  <1>1. p \in Int /\ q \in Int /\ c = p * Hour + 0 /\ d = q * Hour + 0
    BY Units, Floor
  <1> HIDE DEF p, q
  <1>2. p * Hour \in Int /\ q * Hour \in Int /\ Hour \in Int
    BY <1>1, Units
  <1>3. ASSUME q <= p PROVE FALSE
    <2>1. q * Hour <= p * Hour
      BY <1>1, <1>3, Units
    <2> QED
      BY <1>1, <1>2, <2>1
  <1>4. p + 1 <= q
    BY <1>1, <1>3
  <1>5. (p + 1) * Hour <= q * Hour /\ (p + 1) * Hour = p * Hour + Hour
    BY <1>1, <1>4, Units
  <1> QED
    BY <1>1, <1>2, <1>5

\* The beginning of an hour that the clock shows is found by Date, and of two the
\* second only east of Greenwich.
LEMMA DateFound ==
  ASSUME NEW z, Orderly(z), NEW c \in Nat, c % Hour = 0,
         z.spring < z.fall => c + Hour # Clock(z, z.spring)
  PROVE  /\ Date(z, c) \in Int /\ Clock(z, Date(z, c)) = c
         /\ z.spring < z.fall /\ Date(z, c) = z.fall => z.base >= 0
  <1> DEFINE w  == Winter(z)
             s  == z.spring
             f  == z.fall
             at == OffsetAt(z, c)
             utc == c - at
             begins == IF c >= f THEN f ELSE IF c >= s THEN s ELSE -Day
             ends   == IF c < s THEN s ELSE IF c < f THEN f ELSE -1
             date   == Date(z, c)
  <1>1. /\ w \in Int /\ s \in Int /\ f \in Int /\ Hour \in Nat \ {0} /\ Day \in Nat \ {0} /\ z.base \in Int
        /\ -Day < w /\ w + Hour < Day /\ (z.base < 0 => w < 0)
    BY Offsets, Units DEF Orderly
  <1>2. \A u \in Int : /\ OffsetAt(z, u) = IF s <= u /\ u < f THEN w + Hour ELSE w
                       /\ Clock(z, u) = u + OffsetAt(z, u)
    BY Offsets DEF Summer
  <1>3. date = IF at = 0 THEN c
               ELSE IF utc < begins THEN c - OffsetAt(z, begins - 1)
               ELSE IF ends # -1 /\ utc >= ends THEN c - OffsetAt(z, ends)
               ELSE utc
    BY DEF Date
  <1>4. begins \in Int /\ begins - 1 \in Int /\ ends \in Int /\ c \in Int
    BY <1>1
  <1> HIDE DEF w, s, f
  <1>5. at = IF s <= c /\ c < f THEN w + Hour ELSE w
    BY <1>2, <1>4
  <1>6. CASE f <= s
    <2>1. \A u \in Int : OffsetAt(z, u) = w
      BY <1>1, <1>2, <1>6
    <2>2. at = w /\ OffsetAt(z, begins - 1) = w /\ OffsetAt(z, ends) = w
      BY <1>4, <2>1
    <2>3. date = c - w
      <3> HIDE DEF begins, ends, at
      <3>1. date = IF w = 0 THEN c ELSE c - w
        BY <1>3, <2>2
      <3> QED
        BY <1>1, <3>1
    <2>4. date \in Int
      BY <1>1, <2>3
    <2> HIDE DEF date
    <2> QED
      BY <1>1, <1>2, <1>6, <2>1, <2>3, <2>4 DEF date, s, f
  <1>7. CASE s < f
    <2>1. s % Hour = 0 /\ f % Hour = 0 /\ s + Day < f
      BY <1>7 DEF Orderly, s, f
    <2>2. c # s + w
      <3>1. Clock(z, s) = s + (w + Hour)
        BY <1>1, <1>2, <1>7
      <3> QED
        BY <1>1, <1>7, <3>1 DEF s, f
    \* The clock is put forward, and back, at full hours of each clock.
    <2>3. (c - w) % Hour = 0 /\ (c - w) \in Int
      <3> DEFINE m == -z.base
                 e == c + m * Hour
      <3>1. m \in Int /\ e = c - w
        BY <1>1 DEF w, Winter
      <3> HIDE DEF m
      <3>2. e % Hour = 0
        BY <1>4, <3>1, Units, Shifted
      <3> HIDE DEF e
      <3>3. (c - w) % Hour = 0
        BY ONLY <3>1, <3>2
      <3> QED
        BY <1>1, <1>4, <3>3
    <2>4. c - w > s => c - w >= s + Hour
      BY <1>1, <2>1, <2>3, FullHours
    <2>5. c - w > f => c - w >= f + Hour
      BY <1>1, <2>1, <2>3, FullHours
    <2>6. c - w < s \/ c - w >= s + Hour
      BY <1>1, <2>2, <2>3, <2>4
    <2>7. date \in Int /\ Clock(z, date) = c /\ (date = f => w >= 0)
      <3>1. CASE c < s
        <4>1. at = w /\ begins = -Day /\ ends = s /\ ends # -1
          BY <1>1, <1>4, <1>5, <1>7, <3>1
        <4>2. OffsetAt(z, s) = w + Hour
          BY <1>1, <1>2, <1>7
        <4>3. date = IF w = 0 THEN c
                     ELSE IF c - w < -Day THEN c - OffsetAt(z, begins - 1)
                     ELSE IF c - w >= s THEN c - (w + Hour)
                     ELSE c - w
          BY <1>3, <4>1, <4>2
        <4> HIDE DEF at, begins, ends, date
        <4>4. ~(c - w < -Day)
          BY <1>1
        <4>5. CASE w = 0 \/ c - w < s
          <5>1. date = c - w /\ date < s
            BY <1>1, <3>1, <4>3, <4>4, <4>5
          <5>2. date \in Int /\ date # f /\ OffsetAt(z, date) = w
            BY <1>1, <1>2, <1>7, <5>1
          <5> QED
            BY <1>1, <1>2, <5>1, <5>2
        <4>6. CASE w # 0 /\ c - w >= s
          <5>1. date = c - (w + Hour) /\ date >= s /\ date < f /\ date \in Int
            BY <1>1, <2>1, <2>6, <3>1, <4>3, <4>4, <4>6
          <5>2. OffsetAt(z, date) = w + Hour
            BY <1>1, <1>2, <1>7, <5>1
          <5> QED
            BY <1>1, <1>2, <5>1, <5>2
        <4> QED
          BY <1>1, <4>5, <4>6
      <3>2. CASE s <= c /\ c < f
        <4>1. at = w + Hour /\ begins = s /\ ends = f /\ ends # -1
          BY <1>1, <1>4, <1>5, <1>7, <3>2
        <4>2. OffsetAt(z, s - 1) = w /\ OffsetAt(z, f) = w
          BY <1>1, <1>2, <1>7
        <4>3. date = IF w + Hour = 0 THEN c
                     ELSE IF c - (w + Hour) < s THEN c - w
                     ELSE IF c - (w + Hour) >= f THEN c - w
                     ELSE c - (w + Hour)
          BY <1>3, <4>1, <4>2
        <4> HIDE DEF at, begins, ends, date
        <4>4. CASE w + Hour = 0
          <5>1. date = c /\ OffsetAt(z, date) = w + Hour
            BY <1>1, <1>2, <1>4, <3>2, <4>3, <4>4
          <5> QED
            BY <1>1, <1>2, <1>4, <3>2, <4>4, <5>1
        <4>5. CASE w + Hour # 0 /\ c - (w + Hour) < s
          <5>1. date = c - w /\ date < s /\ date \in Int
            BY <1>1, <2>6, <4>3, <4>5
          <5>2. OffsetAt(z, date) = w
            BY <1>1, <1>2, <1>7, <5>1
          <5> QED
            BY <1>1, <1>2, <1>7, <5>1, <5>2
        <4>6. CASE w + Hour # 0 /\ c - (w + Hour) >= f
          <5>1. date = c - w /\ date > f /\ date \in Int
            BY <1>1, <1>7, <4>3, <4>6
          <5>2. OffsetAt(z, date) = w
            BY <1>1, <1>2, <1>7, <5>1
          <5> QED
            BY <1>1, <1>2, <1>7, <5>1, <5>2
        <4>7. CASE w + Hour # 0 /\ c - (w + Hour) >= s /\ c - (w + Hour) < f
          <5>1. date = c - (w + Hour) /\ s <= date /\ date < f /\ date \in Int
            BY <1>1, <1>4, <4>3, <4>7
          <5>2. OffsetAt(z, date) = w + Hour
            BY <1>1, <1>2, <1>7, <5>1
          <5> QED
            BY <1>1, <1>2, <1>7, <5>1, <5>2
        <4> QED
          BY <1>1, <1>4, <4>4, <4>5, <4>6, <4>7
      <3>3. CASE f <= c
        <4>1. at = w /\ begins = f /\ ends = -1
          BY <1>1, <1>4, <1>5, <1>7, <3>3
        <4>2. OffsetAt(z, f - 1) = w + Hour
          BY <1>1, <1>2, <1>7
        <4>3. date = IF w = 0 THEN c
                     ELSE IF c - w < f THEN c - (w + Hour)
                     ELSE c - w
          BY <1>3, <4>1, <4>2
        <4> HIDE DEF at, begins, ends, date
        <4>4. CASE w # 0 /\ c - w < f
          <5>1. date = c - (w + Hour) /\ s <= date /\ date < f /\ date \in Int
            BY <1>1, <1>4, <2>1, <3>3, <4>3, <4>4
          <5>2. OffsetAt(z, date) = w + Hour
            BY <1>1, <1>2, <1>7, <5>1
          <5> QED
            BY <1>1, <1>2, <1>7, <5>1, <5>2
        <4>5. CASE w = 0 \/ c - w >= f
          <5>1. date = c - w /\ f <= date /\ date \in Int
            BY <1>1, <1>4, <3>3, <4>3, <4>5
          <5>2. OffsetAt(z, date) = w
            BY <1>1, <1>2, <1>7, <5>1
          <5>3. date = f => w >= 0
            BY <1>1, <1>4, <3>3, <5>1
          <5> QED
            BY <1>1, <1>2, <1>7, <5>1, <5>2, <5>3
        <4> QED
          BY <1>1, <1>4, <4>4, <4>5
      <3> HIDE DEF date
      <3> QED
        BY <1>1, <1>4, <3>1, <3>2, <3>3
    <2> HIDE DEF date
    <2> QED
      BY <1>1, <2>7 DEF date, f
  <1> QED
    BY <1>1, <1>6, <1>7

\* What is a whole number of units is the beginning of that one.
LEMMA UnitBegins ==
  ASSUME NEW n \in Nat \ {0}, NEW q \in Int
  PROVE  q * n \in Int /\ (q * n) \div n = q /\ (q * n) % n = 0
  <1> DEFINE c == q * n
  <1>1. c \in Int
    OBVIOUS
  <1>2. q * n <= c /\ c < q * n + n
    BY <1>1
  <1> HIDE DEF c
  <1>3. c \div n = q /\ c % n = c - q * n
    BY <1>1, <1>2, Quotient
  <1>4. c - q * n = 0
    BY DEF c
  <1> QED
    BY <1>1, <1>3, <1>4 DEF c

\* Date gives the first instant of day k, and the clock shows midnight then.
DayBegins(z, k) ==
  /\ Date(z, k * Day) \in Int /\ Clock(z, Date(z, k * Day)) = k * Day
  /\ \A u \in Int : u < Date(z, k * Day) <=> DayOf(z, u) < k

\* So it is unless the midnight is skipped or repeated.
LEMMA MidnightFound ==
  ASSUME NEW z, Orderly(z), NEW k \in Nat, ~Skipped(z, k), ~Repeated(z, k)
  PROVE  DayBegins(z, k)
  <1> DEFINE c == k * Day
             m == Date(z, c)
  <1>1. c \in Nat /\ c % Hour = 0
    <2> DEFINE q == k * HoursPerDay
    <2>1. q \in Int /\ c \in Nat /\ c = q * Hour
      BY Units DEF Day
    <2> HIDE DEF q, c
    <2>2. (q * Hour) % Hour = 0
      BY <2>1, Units, UnitBegins
    <2> QED
      BY <2>1, <2>2
  <1>2. z.spring < z.fall => c + Hour # Clock(z, z.spring)
    BY DEF Skipped
  <1>3. Clock(z, z.fall) = c => ~(z.spring < z.fall /\ z.base >= 0)
    BY DEF Repeated
  <1>4. c \div Day = k
    BY Units, UnitBegins
  <1> HIDE DEF c
  <1>5. m \in Int /\ Clock(z, m) = c /\ (z.spring < z.fall /\ m = z.fall => z.base >= 0)
    BY <1>1, <1>2, DateFound
  <1> HIDE DEF m
  <1>6. DayOf(z, m) = k
    BY <1>4, <1>5 DEF DayOf
  <1>7. m - 1 \in Int /\ Clock(z, m - 1) < c
    <2> DEFINE w == Winter(z)
               p == m - 1
    <2>1. w \in Int /\ Hour \in Nat \ {0} /\ z.spring \in Int /\ z.fall \in Int
      BY Offsets, Units DEF Orderly
    <2>2. p \in Int /\ p + 1 = m
      BY <1>5
    <2>3. /\ Clock(z, p) = p + (IF Summer(z, p) THEN w + Hour ELSE w)
          /\ Clock(z, m) = m + (IF Summer(z, m) THEN w + Hour ELSE w)
      BY <1>5, <2>2, Offsets
    <2>4. ASSUME Summer(z, p), ~Summer(z, m) PROVE FALSE
      <3>1. m = z.fall /\ z.spring < z.fall
        BY <1>5, <2>1, <2>2, <2>4 DEF Summer
      <3> QED
        BY <1>3, <1>5, <3>1
    <2> HIDE DEF w, p
    <2>5. Clock(z, p) < c
      BY <1>1, <1>5, <2>1, <2>2, <2>3, <2>4
    <2> QED
      BY <2>2, <2>5 DEF p
  <1>8. DayOf(z, m - 1) < k
    <2> DEFINE p == m - 1
               d == Clock(z, p) \div Day
    <2>1. p \in Int /\ Clock(z, p) \in Int /\ Clock(z, p) < c
      BY <1>7, Offsets
    <2>2. d \in Int /\ d * Day <= Clock(z, p)
      BY <2>1, Units, Floor
    <2> HIDE DEF d, p
    <2>3. ASSUME k <= d PROVE FALSE
      <3>1. k * Day <= d * Day /\ d * Day \in Int
        BY <2>2, <2>3, Units
      <3>2. k * Day = c
        BY DEF c
      <3> QED
        BY <1>1, <2>1, <2>2, <3>1, <3>2
    <2>4. d < k
      BY <2>2, <2>3
    <2> QED
      BY <2>4 DEF DayOf, d, p
  <1>9. ASSUME NEW u \in Int PROVE u < m <=> DayOf(z, u) < k
    <2>1. CASE u < m
      <3>1. u <= m - 1
        BY <1>5, <2>1
      <3>2. DayOf(z, u) \in Int /\ DayOf(z, m - 1) \in Int /\ DayOf(z, u) <= DayOf(z, m - 1)
        BY <1>7, <3>1, DaysInOrder
      <3> QED
        BY <1>8, <2>1, <3>2
    <2>2. CASE m <= u
      <3>1. DayOf(z, u) \in Int /\ DayOf(z, m) <= DayOf(z, u)
        BY <1>5, <2>2, DaysInOrder
      <3> QED
        BY <1>5, <1>6, <2>2, <3>1
    <2> QED
      BY <1>5, <2>1, <2>2
  <1> QED
    BY <1>5, <1>9 DEF DayBegins, c, m

\* The hour of a time is found by Date, even if it is another one of the name.
LEMMA HourFound ==
  ASSUME NEW z, Orderly(z), NEW u \in Int, 0 <= Clock(z, u)
  PROVE  HourReset(z, u) \in Int /\ AtHour(z, HourReset(z, u)) /\ SameHour(z, u, HourReset(z, u))
  <1> DEFINE q == Clock(z, u) \div Hour
             c == q * Hour
  <1>1. q \in Int /\ c \in Int /\ c <= Clock(z, u) /\ Clock(z, u) < c + Hour /\ c % Hour = 0 /\ c \div Hour = q
    <2>1. Clock(z, u) \in Int
      BY Offsets
    <2>2. q \in Int /\ c <= Clock(z, u) /\ Clock(z, u) < c + Hour
      BY <2>1, Units, Floor
    <2> HIDE DEF q
    <2> QED
      BY <2>2, Units, UnitBegins
  <1>2. c \in Nat
    <2>1. 0 <= q
      <3>1. 0 \div Hour <= q
        <4>1. Clock(z, u) \in Int
          BY Offsets
        <4> QED
          BY <4>1, Units, UnitsInOrder
      <3>2. 0 \div Hour = 0
        BY Units
      <3> QED
        BY <3>1, <3>2
    <2> HIDE DEF q
    <2> QED
      BY <1>1, <2>1, Units
  <1>3. z.spring < z.fall => c + Hour # Clock(z, z.spring)
    <2> SUFFICES ASSUME z.spring < z.fall, c + Hour = Clock(z, z.spring) PROVE FALSE
      OBVIOUS
    <2> HIDE DEF c
    <2> DEFINE w == Winter(z)
    <2>1. /\ w \in Int /\ Hour \in Nat \ {0} /\ Day \in Nat \ {0} /\ z.spring \in Int /\ z.fall \in Int
          /\ z.spring + Day < z.fall /\ Hour <= Day
      <3>1. Hour <= Day
        <4>1. 1 * Hour <= HoursPerDay * Hour
          BY Units
        <4> QED
          BY <4>1, Units DEF Day
      <3> QED
        BY <3>1, Offsets, Units DEF Orderly
    <2>2. /\ Clock(z, u) = u + (IF Summer(z, u) THEN w + Hour ELSE w)
          /\ Clock(z, z.spring) = z.spring + (IF Summer(z, z.spring) THEN w + Hour ELSE w)
      BY <2>1, Offsets
    <2>3. Summer(z, z.spring) /\ (Summer(z, u) <=> z.spring <= u /\ u < z.fall)
      BY <2>1 DEF Summer
    <2> HIDE DEF w
    <2>4. c = z.spring + w
      BY <1>1, <2>1, <2>2, <2>3
    <2> QED
      BY <1>1, <2>1, <2>2, <2>3, <2>4
  <1>4. HourReset(z, u) = Date(z, c)
    BY DEF HourReset
  <1> HIDE DEF c
  <1>5. Date(z, c) \in Int /\ Clock(z, Date(z, c)) = c
    BY <1>1, <1>2, <1>3, DateFound
  <1> HIDE DEF q
  <1>6. AtHour(z, Date(z, c)) /\ SameHour(z, u, Date(z, c))
    BY <1>1, <1>5 DEF AtHour, SameHour, q
  <1> QED
    BY <1>4, <1>5, <1>6

\* Times in one unit have the fields of that unit in common.
LEMMA SameFields ==
  ASSUME NEW z, NEW u, NEW v, Clock(z, u) \in Int, Clock(z, v) \in Int
  PROVE  /\ SameMinute(z, u, v) => SameHour(z, u, v) /\ Fields(z, u)[2] = Fields(z, v)[2]
         /\ SameHour(z, u, v) => SameDay(z, u, v) /\ Fields(z, u)[3] = Fields(z, v)[3]
         /\ SameDay(z, u, v) => /\ DateOf(z, u) = DateOf(z, v)
                                /\ \A i \in {4, 5, 6} : Fields(z, u)[i] = Fields(z, v)[i]
  <1>1. ASSUME SameMinute(z, u, v) PROVE SameHour(z, u, v) /\ Fields(z, u)[2] = Fields(z, v)[2]
    BY <1>1, UnitsOfTime DEF SameMinute, SameHour, Fields
  <1>2. ASSUME SameHour(z, u, v) PROVE SameDay(z, u, v) /\ Fields(z, u)[3] = Fields(z, v)[3]
    BY <1>2, UnitsOfTime DEF SameHour, SameDay, Fields
  <1>3. ASSUME SameDay(z, u, v)
        PROVE  /\ DateOf(z, u) = DateOf(z, v)
               /\ \A i \in {4, 5, 6} : Fields(z, u)[i] = Fields(z, v)[i]
    BY <1>3 DEF SameDay, DateOf, Fields
  <1> QED
    BY <1>1, <1>2, <1>3

\* The first second of a unit is the first one of the smaller units as well,
\* whose fields are 0.
LEMMA StartsNested ==
  ASSUME NEW z, NEW u, Clock(z, u) \in Int
  PROVE  /\ AtMinute(z, u) <=> Fields(z, u)[1] = 0
         /\ AtHour(z, u) => AtMinute(z, u) /\ Fields(z, u)[2] = 0
         /\ AtDay(z, u) => AtHour(z, u) /\ Fields(z, u)[3] = 0
  <1> DEFINE c == Clock(z, u)
  <1>1. c \in Int
    OBVIOUS
  <1> HIDE DEF c
  <1>2. ASSUME NEW n \in Nat \ {0}, NEW k \in Nat \ {0}, c % (k * n) = 0
        PROVE  c % n = 0 /\ (c \div n) % k = 0
    <2> DEFINE m == k * n
               r == c \div m
               q == r * k
    <2>1. m \in Nat \ {0}
      BY Nested
    <2>2. r \in Int /\ c = r * m + 0
      <3> HIDE DEF m
      <3> QED
        BY <1>1, <1>2, <2>1, Floor DEF m
    <2>3. q \in Int /\ q * n = r * m
      BY <2>1, <2>2
    <2> HIDE DEF q, m, r
    <2>4. q * n \in Int /\ c = q * n
      BY <2>1, <2>2, <2>3
    <2>5. c \div n = q /\ c % n = c - q * n
      <3>1. q * n <= c /\ c < q * n + n
        BY <1>1, <2>4
      <3> QED
        BY <1>1, <2>3, <3>1, Quotient
    <2>6. q % k = q - r * k
      <3>1. r * k <= q /\ q < r * k + k
        BY <2>2, <2>3 DEF q
      <3> QED
        BY <2>2, <2>3, <3>1, Quotient
    <2>7. q - r * k = 0
      BY <2>3 DEF q
    <2> QED
      BY <1>1, <2>4, <2>5, <2>6, <2>7
  <1>3. AtMinute(z, u) <=> Fields(z, u)[1] = 0
    BY DEF AtMinute, Fields
  <1>4. ASSUME AtHour(z, u) PROVE AtMinute(z, u) /\ Fields(z, u)[2] = 0
    <2>1. c % (MinutesPerHour * SecondsPerMinute) = 0
      BY <1>4 DEF AtHour, Hour, c
    <2>2. c % SecondsPerMinute = 0 /\ (c \div SecondsPerMinute) % MinutesPerHour = 0
      BY <1>2, <2>1, Units
    <2> QED
      BY <2>2 DEF AtMinute, Fields, c
  <1>5. ASSUME AtDay(z, u) PROVE AtHour(z, u) /\ Fields(z, u)[3] = 0
    <2>1. c % (HoursPerDay * Hour) = 0
      BY <1>5 DEF AtDay, Day, c
    <2>2. c % Hour = 0 /\ (c \div Hour) % HoursPerDay = 0
      BY <1>2, <2>1, Units
    <2> QED
      BY <2>2 DEF AtHour, Fields, c
  <1> QED
    BY <1>3, <1>4, <1>5

-----------------------------------------------------------------------------
(* The calendar *)

\* A time of a day of the calendar.
Dated(z, u) == DayOf(z, u) + 1 \in 1..Len(Dates)

\* The day after the last one of a month.
MonthEnd(z, u) == DayOf(z, u) - DateOf(z, u).day + 1 + DateOf(z, u).length

LEMMA DateType ==
  ASSUME NEW k \in 1..Len(Dates)
  PROVE  /\ Len(Dates) \in Nat
         /\ Dates[k] \in [year : Nat, month : 1..(Word - 2), day : 1..(Word - 2), length : 1..(Word - 2)]
  <1> DEFINE R == [year : Nat, month : 1..(Word - 2), day : 1..(Word - 2), length : 1..(Word - 2)]
  <1>1. Dates \in Seq(R)
    BY Zenon, DatesAssumption
  <1> HIDE DEF R
  <1>2. Dates[k] \in R /\ Len(Dates) \in Nat
    BY <1>1
  <1> QED
    BY <1>2 DEF R

LEMMA DateFacts ==
  ASSUME NEW k \in 1..Len(Dates)
  PROVE  LET d == Dates[k]
         IN  /\ d.year \in Nat /\ d.month \in 1..(Word - 2)
             /\ d.day \in 1..(Word - 2) /\ d.length \in 1..(Word - 2)
             /\ d.day <= d.length /\ d.day <= k /\ k + d.length - d.day <= Len(Dates)
             /\ \A day \in 1..d.length : Dates[k + day - d.day] = [d EXCEPT !.day = day]
  <1>1. /\ Len(Dates) \in Nat
        /\ Dates[k] \in [year : Nat, month : 1..(Word - 2), day : 1..(Word - 2), length : 1..(Word - 2)]
    BY DateType
  <1> QED
    BY <1>1, DatesAssumption

\* The next day is in the same month or begins one, which is in the same year
\* if it is not the first.
LEMMA NextDate ==
  ASSUME NEW k \in 1..Len(Dates), k + 1 \in 1..Len(Dates)
  PROVE  /\ \/ Dates[k + 1].day = 1
            \/ Dates[k + 1].month = Dates[k].month /\ Dates[k + 1].day # 1
         /\ Dates[k + 1].month # 1 => Dates[k + 1].year = Dates[k].year
         /\ Dates[k + 1].day # 1 => Dates[k + 1].year = Dates[k].year
  <1>1. /\ Dates[k].day \in Nat /\ Dates[k].length \in Nat /\ Dates[k].day <= Dates[k].length
        /\ \A day \in 1..Dates[k].length : Dates[k + day - Dates[k].day] = [Dates[k] EXCEPT !.day = day]
        /\ Dates[k].day >= 1 /\ Len(Dates) \in Nat
    BY DateFacts
  <1>2. k + 1 \in 2..Len(Dates) /\ (k + 1) - 1 = k
    BY <1>1
  <1>3. /\ Dates[k].day = Dates[k].length => Dates[k + 1].day = 1
        /\ Dates[k + 1].month # 1 => Dates[k + 1].year = Dates[k].year
    BY <1>2, DatesAssumption
  <1>4. CASE Dates[k].day = Dates[k].length
    BY <1>3, <1>4
  <1>5. CASE Dates[k].day # Dates[k].length
    <2> DEFINE day == Dates[k].day + 1
    <2>1. day \in 1..Dates[k].length /\ k + day - Dates[k].day = k + 1
      BY <1>1, <1>5
    <2>2. Dates[k + 1] = [Dates[k] EXCEPT !.day = day]
      BY <1>1, <2>1
    <2>3. Dates[k] \in [year : Nat, month : 1..(Word - 2), day : 1..(Word - 2), length : 1..(Word - 2)]
      BY DateType
    <2>4. Dates[k + 1].month = Dates[k].month /\ Dates[k + 1].year = Dates[k].year /\ Dates[k + 1].day = day
      BY <2>2, <2>3
    <2>5. day # 1
      BY <1>1
    <2> QED
      BY <2>4, <2>5
  <1> QED
    BY <1>4, <1>5

\* From one second to the next: each unit is the same or begins, the day if its
\* midnight is where it should be.
LEMMA NextSecond ==
  ASSUME NEW z, Orderly(z), NEW u \in Int, Dated(z, u), Dated(z, u + 1),
         SameDay(z, u, u + 1) \/ DayBegins(z, DayOf(z, u) + 1)
  PROVE  /\ SameMinute(z, u, u + 1) \/ AtMinute(z, u + 1)
         /\ SameHour(z, u, u + 1) \/ AtHour(z, u + 1)
         /\ SameDay(z, u, u + 1) \/ AtDay(z, u + 1)
         /\ DateOf(z, u).month = DateOf(z, u + 1).month \/ AtMonth(z, u + 1)
         /\ DateOf(z, u + 1).day # 1 => YearOf(z, u + 1) = YearOf(z, u)
         /\ DateOf(z, u + 1).month # 1 => YearOf(z, u + 1) = YearOf(z, u)
  <1> DEFINE v == u + 1
  <1>1. v \in Int /\ u <= v
    OBVIOUS
  <1>2. SameMinute(z, u, v) \/ AtMinute(z, v)
    <2>1. (u + 1) \div SecondsPerMinute = u \div SecondsPerMinute \/ (u + 1) % SecondsPerMinute = 0
      BY Units, NextUnit
    <2> QED
      BY <1>1, <2>1, HourUnchanged, HoursOfClock DEF AtMinute
  <1>3. SameHour(z, u, v) \/ AtHour(z, v)
    <2>1. (u + 1) \div Hour = u \div Hour \/ (u + 1) % Hour = 0
      BY Units, NextUnit
    <2> QED
      BY <1>1, <2>1, HourUnchanged, HoursOfClock DEF AtHour
  <1>4. CASE SameDay(z, u, v)
    BY <1>2, <1>3, <1>4 DEF SameDay, DateOf, YearOf
  <1>5. CASE ~SameDay(z, u, v)
    <2> DEFINE d == DayOf(z, u)
               k == d + 1
               m == Date(z, k * Day)
    <2>1. d \in Int /\ DayOf(z, v) \in Int /\ d <= DayOf(z, v)
      BY <1>1, DaysInOrder
    <2>2. m \in Int /\ Clock(z, m) = k * Day /\ \A w \in Int : w < m <=> DayOf(z, w) < k
      BY <1>5 DEF DayBegins
    <2>3. k <= DayOf(z, v) /\ d < k /\ k \in Int
      BY <1>5, <2>1 DEF SameDay
    <2> HIDE DEF d, k, m
    <2>4. u < m /\ ~(v < m)
      BY <1>1, <2>1, <2>2, <2>3 DEF d
    <2>5. v = m
      BY <1>1, <2>2, <2>4
    <2>6. (k * Day) \div Day = k /\ (k * Day) % Day = 0
      BY <2>3, Units, UnitBegins
    <2>7. AtDay(z, v) /\ DayOf(z, v) = k
      BY <2>2, <2>5, <2>6 DEF AtDay, DayOf
    <2>8. k \in 1..Len(Dates) /\ k + 1 \in 1..Len(Dates) /\ DateOf(z, u) = Dates[k] /\ DateOf(z, v) = Dates[k + 1]
      BY <2>7 DEF Dated, DateOf, k, d
    <2>9. /\ \/ Dates[k + 1].day = 1
             \/ Dates[k + 1].month = Dates[k].month /\ Dates[k + 1].day # 1
          /\ Dates[k + 1].month # 1 => Dates[k + 1].year = Dates[k].year
          /\ Dates[k + 1].day # 1 => Dates[k + 1].year = Dates[k].year
      BY <2>8, NextDate
    <2> QED
      BY <1>2, <1>3, <2>7, <2>8, <2>9 DEF AtMonth, YearOf
  <1> QED
    BY <1>4, <1>5

\* Later times are in the same year or later ones.
LEMMA YearsInOrder ==
  ASSUME NEW z, Orderly(z), NEW u \in Int, NEW v \in Int, u <= v
  PROVE  /\ DayOf(z, u) <= DayOf(z, v) /\ DayOf(z, u) \in Int /\ DayOf(z, v) \in Int
         /\ Dated(z, u) /\ Dated(z, v) => /\ YearOf(z, u) <= YearOf(z, v)
                                          /\ YearOf(z, u) \in Nat /\ YearOf(z, v) \in Nat
  <1>1. DayOf(z, u) <= DayOf(z, v) /\ DayOf(z, u) \in Int /\ DayOf(z, v) \in Int
    BY DaysInOrder
  <1>2. ASSUME Dated(z, u), Dated(z, v)
        PROVE  YearOf(z, u) <= YearOf(z, v) /\ YearOf(z, u) \in Nat /\ YearOf(z, v) \in Nat
    <2> DEFINE j == DayOf(z, u) + 1
               k == DayOf(z, v) + 1
    <2>1. j \in 1..Len(Dates) /\ k \in 1..Len(Dates) /\ j <= k
      BY <1>1, <1>2 DEF Dated
    <2>2. YearOf(z, u) = Dates[j].year /\ YearOf(z, v) = Dates[k].year
      BY DEF YearOf, DateOf
    <2> HIDE DEF j, k
    <2>3. Dates[j].year <= Dates[k].year
      BY <2>1, DatesAssumption
    <2> QED
      BY <2>1, <2>2, <2>3, DateFacts
  <1> QED
    BY <1>1, <1>2

\* The rest of a month, and the day after it.
LEMMA RestOfMonth ==
  ASSUME NEW z, NEW u, DayOf(z, u) \in Int, Dated(z, u)
  PROVE  LET next == MonthEnd(z, u)
         IN  /\ next \in 1..Len(Dates) /\ DayOf(z, u) < next
             /\ \A w \in Int : DayOf(z, w) \in Int /\ DayOf(z, u) <= DayOf(z, w) /\ DayOf(z, w) < next =>
                  /\ Dated(z, w) /\ YearOf(z, w) = YearOf(z, u)
                  /\ DateOf(z, w).month = DateOf(z, u).month
             /\ next + 1 \in 1..Len(Dates) =>
                  /\ Dates[next + 1].day = 1
                  /\ Dates[next + 1].month # 1 => Dates[next + 1].year = YearOf(z, u)
  <1> DEFINE k      == DayOf(z, u) + 1
             day    == Dates[k].day
             length == Dates[k].length
             next   == MonthEnd(z, u)
  <1>1. DayOf(z, u) \in Int /\ k \in 1..Len(Dates) /\ DateOf(z, u) = Dates[k]
    BY DEF Dated, DateOf
  <1>2. next = DayOf(z, u) - day + 1 + length
    BY <1>1 DEF MonthEnd
  <1>3. /\ Len(Dates) \in Nat /\ day \in 1..length /\ length \in Nat /\ day <= k
        /\ k + length - day <= Len(Dates)
        /\ \A d \in 1..length : Dates[k + d - day] = [Dates[k] EXCEPT !.day = d]
    <2> HIDE DEF k
    <2> QED
      BY <1>1, DateFacts
  <1> HIDE DEF next
  <1>4. next \in Int /\ next = k + length - day /\ DayOf(z, u) < next /\ next \in 1..Len(Dates)
    <2> HIDE DEF day, length
    <2> QED
      BY <1>1, <1>2, <1>3
  <1>5. ASSUME NEW d \in 1..length
        PROVE  /\ Dates[k + d - day].year = Dates[k].year /\ Dates[k + d - day].month = Dates[k].month
               /\ Dates[k + d - day].length = length /\ Dates[k + d - day].day = d
    <2>1. Dates[k] \in [year : Nat, month : 1..(Word - 2), day : 1..(Word - 2), length : 1..(Word - 2)]
      BY <1>1, DateType
    <2>2. Dates[k + d - day] = [Dates[k] EXCEPT !.day = d]
      BY <1>3
    <2> QED
      BY <2>1, <2>2
  <1>6. ASSUME next + 1 \in 1..Len(Dates)
        PROVE  /\ Dates[next + 1].day = 1
               /\ Dates[next + 1].month # 1 => Dates[next + 1].year = YearOf(z, u)
    <2>1. length \in 1..length
      BY <1>3
    <2>2. /\ Dates[k + length - day].length = length /\ Dates[k + length - day].day = length
          /\ Dates[k + length - day].year = Dates[k].year
      BY <1>5, <2>1
    <2>3. next + 1 \in 2..Len(Dates) /\ (next + 1) - 1 = next
      BY <1>3, <1>4, <1>6
    <2>4. Dates[next].day = Dates[next].length /\ Dates[next].year = Dates[k].year
      BY <1>4, <2>2
    <2>5. YearOf(z, u) = Dates[k].year
      BY <1>1 DEF YearOf
    <2> HIDE DEF k, day, length
    <2>6. Dates[next + 1].month # 1 => Dates[next + 1].year = Dates[next].year
      BY <1>4, <1>6, NextDate
    <2> QED
      BY <2>3, <2>4, <2>5, <2>6, DatesAssumption
  <1>7. ASSUME NEW w \in Int, DayOf(z, w) \in Int, DayOf(z, u) <= DayOf(z, w), DayOf(z, w) < next
        PROVE  /\ Dated(z, w) /\ YearOf(z, w) = YearOf(z, u)
               /\ DateOf(z, w).month = DateOf(z, u).month
    <2> DEFINE d == DayOf(z, w) - k + 1 + day
    <2>1. d \in 1..length /\ k + d - day = DayOf(z, w) + 1 /\ DayOf(z, w) + 1 \in 1..Len(Dates)
      <3> DEFINE e    == DayOf(z, w)
                 last == Len(Dates)
      <3>1. k \in 1..last /\ last \in Nat /\ k <= e + 1 /\ e \in Int /\ e < next
        BY <1>1, <1>3, <1>7
      <3>2. day \in 1..length /\ length \in Nat /\ next = k + length - day /\ next \in 1..last
        BY <1>3, <1>4
      <3>3. d = e - k + 1 + day
        OBVIOUS
      <3> HIDE DEF k, day, length, e, last, d
      <3>4. d \in 1..length /\ k + d - day = e + 1 /\ e + 1 \in 1..last
        BY <3>1, <3>2, <3>3
      <3> QED
        BY <3>4 DEF e, last
    <2> HIDE DEF d
    <2> QED
      BY <1>1, <1>5, <2>1 DEF Dated, YearOf, DateOf
  <1> QED
    BY <1>4, <1>6, <1>7 DEF next

-----------------------------------------------------------------------------
(* The times that match *)

\* Bit and DayMatches for any bits, and the times all loops let pass.
BitIn(z, b, i, u) == Fields(z, u)[i] \in b[i]

DayIn(z, b, u) ==
  IF StarBit \in b[4] \/ StarBit \in b[6]
  THEN BitIn(z, b, 4, u) /\ BitIn(z, b, 6, u)
  ELSE BitIn(z, b, 4, u) \/ BitIn(z, b, 6, u)

Hits(z, b, u) ==
  BitIn(z, b, 1, u) /\ BitIn(z, b, 2, u) /\ BitIn(z, b, 3, u) /\ BitIn(z, b, 5, u) /\ DayIn(z, b, u)

\* Once a field was incremented, a field that does not match is at its first
\* value, and so are those below it: what the resets are for.
Aligned(z, b, u) ==
  /\ BitIn(z, b, 5, u) \/ AtMonth(z, u)
  /\ DayIn(z, b, u) \/ AtDay(z, u)
  /\ BitIn(z, b, 3, u) \/ AtHour(z, u)
  /\ BitIn(z, b, 2, u) \/ AtMinute(z, u)

\* The fields a loop finds matched.
Passed(place, z, b, u) ==
  /\ place \in {"day", "hour", "minute", "second"} => BitIn(z, b, 5, u)
  /\ place \in {"hour", "minute", "second"} => DayIn(z, b, u)
  /\ place \in {"minute", "second"} => BitIn(z, b, 3, u)
  /\ place = "second" => BitIn(z, b, 2, u)

LEMMA SixFields ==
  ASSUME NEW z, NEW u
  PROVE  /\ Fields(z, u)[4] = DateOf(z, u).day /\ Fields(z, u)[5] = DateOf(z, u).month
         /\ Fields(z, u)[6] = DayOf(z, u) % DaysPerWeek
  BY DEF Fields

\* Fields in common match alike.
LEMMA MatchAlike ==
  ASSUME NEW z, NEW b, NEW u, NEW v, Clock(z, u) \in Int, Clock(z, v) \in Int
  PROVE  /\ DateOf(z, u).month = DateOf(z, v).month => (BitIn(z, b, 5, u) <=> BitIn(z, b, 5, v))
         /\ SameDay(z, u, v) => (DayIn(z, b, u) <=> DayIn(z, b, v))
                                /\ (BitIn(z, b, 5, u) <=> BitIn(z, b, 5, v))
         /\ SameHour(z, u, v) => (BitIn(z, b, 3, u) <=> BitIn(z, b, 3, v))
         /\ SameMinute(z, u, v) => (BitIn(z, b, 2, u) <=> BitIn(z, b, 2, v))
  BY SameFields, SixFields DEF BitIn, DayIn

\* The year does not end within a month.
LEMMA YearKept ==
  ASSUME NEW z, Orderly(z), NEW u \in Int, Dated(z, u), Dated(z, u + 1),
         SameDay(z, u, u + 1) \/ DayBegins(z, DayOf(z, u) + 1), ~AtMonth(z, u + 1)
  PROVE  YearOf(z, u + 1) = YearOf(z, u)
  <1>1. ASSUME ~AtDay(z, u + 1) PROVE YearOf(z, u + 1) = YearOf(z, u)
    <2>1. SameDay(z, u, u + 1)
      BY <1>1, NextSecond
    <2> QED
      BY <2>1 DEF SameDay, YearOf, DateOf
  <1>2. DateOf(z, u + 1).day # 1 => YearOf(z, u + 1) = YearOf(z, u)
    BY NextSecond
  <1> QED
    BY <1>1, <1>2 DEF AtMonth

\* One second on, each field that matched still does or begins again.
LEMMA AlignedAfter ==
  ASSUME NEW z, Orderly(z), NEW b, NEW u \in Int, Dated(z, u), Dated(z, u + 1),
         SameDay(z, u, u + 1) \/ DayBegins(z, DayOf(z, u) + 1),
         BitIn(z, b, 5, u) \/ AtMonth(z, u + 1), DayIn(z, b, u) \/ AtDay(z, u + 1),
         BitIn(z, b, 3, u) \/ AtHour(z, u + 1), BitIn(z, b, 2, u) \/ AtMinute(z, u + 1)
  PROVE  Aligned(z, b, u + 1)
  <1>1. Clock(z, u) \in Int /\ Clock(z, u + 1) \in Int
    BY Offsets
  <1>2. BitIn(z, b, 5, u + 1) \/ AtMonth(z, u + 1)
    BY <1>1, MatchAlike, NextSecond
  <1>3. DayIn(z, b, u + 1) \/ AtDay(z, u + 1)
    BY <1>1, MatchAlike, NextSecond
  <1>4. BitIn(z, b, 3, u + 1) \/ AtHour(z, u + 1)
    BY <1>1, MatchAlike, NextSecond
  <1>5. BitIn(z, b, 2, u + 1) \/ AtMinute(z, u + 1)
    BY <1>1, MatchAlike, NextSecond
  <1> QED
    BY <1>2, <1>3, <1>4, <1>5 DEF Aligned

\* A loop that does not come to its first value finds the fields above it
\* matched.
LEMMA PassedAgain ==
  ASSUME NEW z, NEW b, NEW u, Clock(z, u) \in Int, Aligned(z, b, u)
  PROVE  /\ Fields(z, u)[4] # 1 => Passed("day", z, b, u) /\ ~AtMonth(z, u)
         /\ Fields(z, u)[3] # 0 => Passed("hour", z, b, u) /\ ~AtMonth(z, u)
         /\ Fields(z, u)[2] # 0 => Passed("minute", z, b, u) /\ ~AtMonth(z, u)
         /\ Fields(z, u)[1] # 0 => Passed("second", z, b, u) /\ ~AtMonth(z, u)
  <1>1. Fields(z, u)[4] # 1 => ~AtMonth(z, u)
    BY SixFields DEF AtMonth
  <1>2. Fields(z, u)[3] # 0 => ~AtDay(z, u)
    BY StartsNested
  <1>3. Fields(z, u)[2] # 0 => ~AtHour(z, u)
    BY StartsNested
  <1>4. Fields(z, u)[1] # 0 => ~AtMinute(z, u)
    BY StartsNested
  <1>5. /\ ~AtDay(z, u) => ~AtMonth(z, u)
        /\ ~AtHour(z, u) => ~AtDay(z, u)
        /\ ~AtMinute(z, u) => ~AtHour(z, u)
    BY StartsNested DEF AtMonth
  <1> QED
    BY <1>1, <1>2, <1>3, <1>4, <1>5 DEF Aligned, Passed

\* Times in the day of a time.
LEMMA DatedAlike ==
  ASSUME NEW z, NEW u, NEW w, SameDay(z, u, w)
  PROVE  (Dated(z, u) => Dated(z, w)) /\ YearOf(z, w) = YearOf(z, u)
  BY DEF SameDay, Dated, YearOf, DateOf

-----------------------------------------------------------------------------
(* The rounds of the loops *)

\* At u, a time g that matches or is of another year lies ahead, and Date finds
\* all midnights on the way to it.
Ahead(z, b, u, g) ==
  /\ u \in Int /\ g \in Int /\ u <= g /\ Dated(z, u) /\ Dated(z, g)
  /\ Hits(z, b, g) \/ YearOf(z, g) # YearOf(z, u)
  /\ \A k \in DayOf(z, u)..DayOf(z, g) : DayBegins(z, k)

\* What a round of the loop at a place does that takes u to v: it passes over no
\* time that matches and does not come past g; if v has not come to the first value
\* of the field, the loop goes on where it is, with the fields above still matched.
\* It may go back, to a time in the same hour, when this hour does not match.
Round(place, i, first, z, b, g, u, v) ==
  /\ v \in Int /\ v <= g
  /\ u < v \/ (SameHour(z, u, v) /\ ~BitIn(z, b, 3, u))
  /\ \A w \in u..(v - 1) : YearOf(z, w) = YearOf(z, u) /\ ~Hits(z, b, w)
  /\ Aligned(z, b, v)
  /\ Fields(z, v)[i] # first => Passed(place, z, b, v) /\ YearOf(z, v) = YearOf(z, u)

\* A midnight on the way.
LEMMA Midnight ==
  ASSUME NEW z, Orderly(z), NEW b, NEW u, NEW g, Ahead(z, b, u, g),
         NEW k \in Int, DayOf(z, u) < k, k <= DayOf(z, g), NEW v, v = Date(z, k * Day)
  PROVE  /\ v \in Int /\ u < v /\ v <= g /\ DayOf(z, v) = k /\ AtDay(z, v) /\ Dated(z, v)
         /\ AtHour(z, v) /\ AtMinute(z, v)
         /\ \A w \in u..(v - 1) : w \in Int /\ DayOf(z, w) \in Int /\ DayOf(z, u) <= DayOf(z, w) /\ DayOf(z, w) < k
  <1>1. u \in Int /\ g \in Int /\ u <= g /\ Dated(z, u) /\ Dated(z, g)
    BY DEF Ahead
  <1>2. DayOf(z, u) \in Int /\ DayOf(z, g) \in Int
    BY <1>1, DaysInOrder
  <1>3. DayBegins(z, k)
    <2>1. k \in DayOf(z, u)..DayOf(z, g)
      BY <1>2
    <2> QED
      BY <2>1 DEF Ahead
  <1>4. v \in Int /\ Clock(z, v) = k * Day /\ \A w \in Int : w < v <=> DayOf(z, w) < k
    BY <1>3 DEF DayBegins
  <1>5. DayOf(z, v) = k /\ AtDay(z, v)
    BY <1>4, Units, UnitBegins DEF DayOf, AtDay
  <1>6. Dated(z, v)
    <2>1. Len(Dates) \in Nat
      BY DatesAssumption
    <2> QED
      BY <1>1, <1>2, <1>5, <2>1 DEF Dated
  <1>7. AtHour(z, v) /\ AtMinute(z, v)
    BY <1>4, <1>5, Offsets, StartsNested
  <1>8. u < v /\ v <= g
    BY <1>1, <1>2, <1>4
  <1>9. ASSUME NEW w \in u..(v - 1)
        PROVE  w \in Int /\ DayOf(z, w) \in Int /\ DayOf(z, u) <= DayOf(z, w) /\ DayOf(z, w) < k
    <2>1. w \in Int /\ u <= w /\ w < v
      BY <1>1, <1>4
    <2> QED
      BY <1>1, <1>4, <2>1, DaysInOrder
  <1> QED
    BY <1>4, <1>5, <1>6, <1>7, <1>8, <1>9

\* The round of the loop for the months.
LEMMA MonthRound ==
  ASSUME NEW z, Orderly(z), NEW b, NEW u, NEW g, Ahead(z, b, u, g), ~BitIn(z, b, 5, u), NEW s,
         \/ s = MonthReset(z, u) /\ DayBegins(z, DayOf(z, u) - DateOf(z, u).day + 1)
         \/ s = u /\ Aligned(z, b, u)
  PROVE  Round("month", 5, 1, z, b, g, u, NextMonth(z, s))
  <1> DEFINE k      == DayOf(z, u) + 1
             first  == DayOf(z, u) - DateOf(z, u).day + 1
             length == DateOf(z, u).length
             next   == MonthEnd(z, u)
             v      == NextMonth(z, s)
  <1>1. u \in Int /\ g \in Int /\ u <= g /\ Dated(z, u) /\ Dated(z, g)
    BY DEF Ahead
  <1>2. /\ DayOf(z, u) \in Int /\ DayOf(z, g) \in Int /\ DayOf(z, u) <= DayOf(z, g) /\ Clock(z, u) \in Int
        /\ k \in 1..Len(Dates) /\ DateOf(z, u) = Dates[k]
    <2>1. DayOf(z, u) \in Int /\ DayOf(z, g) \in Int /\ DayOf(z, u) <= DayOf(z, g)
      BY <1>1, DaysInOrder
    <2>2. Clock(z, u) \in Int
      BY <1>1, Offsets
    <2> QED
      BY <1>1, <2>1, <2>2 DEF Dated, DateOf
  <1>3. /\ DateOf(z, u).day \in Int /\ length \in Nat /\ 1 \in 1..length
        /\ Dates[k + 1 - DateOf(z, u).day] = [DateOf(z, u) EXCEPT !.day = 1]
        /\ DateOf(z, u) \in [year : Nat, month : 1..(Word - 2), day : 1..(Word - 2), length : 1..(Word - 2)]
    <2> HIDE DEF k
    <2>1. /\ DateOf(z, u).day \in Nat /\ length \in Nat /\ 1 \in 1..length
          /\ \A day \in 1..length : Dates[k + day - DateOf(z, u).day] = [DateOf(z, u) EXCEPT !.day = day]
      BY <1>2, DateFacts
    <2>2. DateOf(z, u) \in [year : Nat, month : 1..(Word - 2), day : 1..(Word - 2), length : 1..(Word - 2)]
      BY <1>2, DateType
    <2>3. Dates[k + 1 - DateOf(z, u).day] = [DateOf(z, u) EXCEPT !.day = 1]
      <3> HIDE DEF length
      <3> QED
        BY ONLY <2>1, Zenon
    <2>4. DateOf(z, u).day \in Int
      BY <2>1
    <2> QED
      BY ONLY <2>1, <2>2, <2>3, <2>4, Zenon
  <1>4. first \in Int /\ first * Day \in Int /\ first = k - DateOf(z, u).day /\ next = first + length
    <2>1. first \in Int /\ first = k - DateOf(z, u).day
      <3>1. DayOf(z, u) \in Int /\ DateOf(z, u).day \in Int
        BY <1>2, <1>3
      <3> QED
        BY ONLY <3>1
    <2>2. next = first + length
      BY DEF MonthEnd
    <2> HIDE DEF first, next
    <2> QED
      BY <2>1, <2>2, Units
  <1>5. Clock(z, s) = first * Day /\ DateOf(z, s).length = length
    <2>1. CASE s = MonthReset(z, u) /\ DayBegins(z, first)
      <3> DEFINE m == first * Day
      <3>1. s = Date(z, m) /\ Clock(z, s) = m
        BY <2>1 DEF MonthReset, DayBegins
      <3>2. m \div Day = first
        <4> HIDE DEF first
        <4> QED
          BY <1>4, Units, UnitBegins
      <3> HIDE DEF m
      <3>3. DateOf(z, s) = Dates[first + 1]
        BY <3>1, <3>2 DEF DayOf, DateOf
      <3>4. first + 1 = k + 1 - DateOf(z, u).day
        <4>1. k \in Int
          BY <1>2
        <4> HIDE DEF first, k
        <4> QED
          BY <1>3, <1>4, <4>1
      <3> QED
        BY <1>3, <3>1, <3>3, <3>4 DEF m
    <2>2. CASE s = u /\ Aligned(z, b, u)
      <3>1. AtMonth(z, u)
        BY <2>2 DEF Aligned
      <3>2. first = DayOf(z, u) /\ Clock(z, u) % Day = 0
        BY <1>2, <3>1 DEF AtMonth, AtDay
      <3>3. Clock(z, u) = (Clock(z, u) \div Day) * Day + (Clock(z, u) % Day)
        BY <1>2, Units, Floor
      <3>4. Clock(z, u) = first * Day
        BY <1>4, <3>2, <3>3 DEF DayOf
      <3> QED
        BY <2>2, <3>4
    <2> QED
      BY <2>1, <2>2
  <1>6. v = Date(z, next * Day)
    <2>1. v = Date(z, first * Day + length * Day)
      BY <1>5 DEF NextMonth
    <2> HIDE DEF first, length, v, next
    <2>2. first * Day + length * Day = (first + length) * Day
      BY <1>3, <1>4, Units
    <2> QED
      BY <1>4, <2>1, <2>2
  <1>7. /\ next \in 1..Len(Dates) /\ DayOf(z, u) < next
        /\ \A w \in Int : DayOf(z, w) \in Int /\ DayOf(z, u) <= DayOf(z, w) /\ DayOf(z, w) < next =>
             /\ Dated(z, w) /\ YearOf(z, w) = YearOf(z, u)
             /\ DateOf(z, w).month = DateOf(z, u).month
        /\ next + 1 \in 1..Len(Dates) =>
             /\ Dates[next + 1].day = 1
             /\ Dates[next + 1].month # 1 => Dates[next + 1].year = YearOf(z, u)
    BY <1>1, <1>2, RestOfMonth
  <1> HIDE DEF v, next
  <1>8. next <= DayOf(z, g) /\ next \in Int
    <2>1. ASSUME DayOf(z, g) < next PROVE FALSE
      <3>1. YearOf(z, g) = YearOf(z, u) /\ DateOf(z, g).month = DateOf(z, u).month
        BY <1>1, <1>2, <1>7, <2>1
      <3>2. ~BitIn(z, b, 5, g)
        BY <3>1, SixFields DEF BitIn
      <3> QED
        BY <3>1, <3>2 DEF Ahead, Hits
    <2> QED
      BY <1>2, <1>7, <2>1
  <1>9. /\ v \in Int /\ u < v /\ v <= g /\ DayOf(z, v) = next /\ AtDay(z, v) /\ Dated(z, v)
        /\ AtHour(z, v) /\ AtMinute(z, v)
        /\ \A w \in u..(v - 1) : w \in Int /\ DayOf(z, w) \in Int /\ DayOf(z, u) <= DayOf(z, w) /\ DayOf(z, w) < next
    BY <1>6, <1>7, <1>8, Midnight
  <1>10. \A w \in u..(v - 1) : YearOf(z, w) = YearOf(z, u) /\ ~Hits(z, b, w)
    BY <1>7, <1>9, SixFields DEF BitIn, Hits
  <1>11. /\ DateOf(z, v).day = 1
         /\ DateOf(z, v).month # 1 => YearOf(z, v) = YearOf(z, u)
    <2>1. DateOf(z, v) = Dates[next + 1] /\ next + 1 \in 1..Len(Dates)
      BY <1>9 DEF DateOf, Dated
    <2> QED
      BY <1>7, <2>1 DEF YearOf
  <1>12. Aligned(z, b, v)
    BY <1>9, <1>11 DEF Aligned, AtMonth
  <1> QED
    BY <1>9, <1>10, <1>11, <1>12, SixFields DEF Round, Passed, v

\* A round that passes over times of one day comes to where the fields are
\* aligned.
LEMMA RoundInDay ==
  ASSUME NEW z, Orderly(z), NEW b, NEW u, NEW g, Ahead(z, b, u, g), NEW v \in Int, u < v,
         \A w \in u..(v - 1) : SameDay(z, u, w) /\ ~Hits(z, b, w),
         BitIn(z, b, 5, v - 1) \/ AtMonth(z, v), DayIn(z, b, v - 1) \/ AtDay(z, v),
         BitIn(z, b, 3, v - 1) \/ AtHour(z, v), BitIn(z, b, 2, v - 1) \/ AtMinute(z, v)
  PROVE  /\ Round("day", 4, 1, z, b, g, u, v) /\ Round("hour", 3, 0, z, b, g, u, v)
         /\ Round("minute", 2, 0, z, b, g, u, v) /\ Round("second", 1, 0, z, b, g, u, v)
  <1> DEFINE w == v - 1
  <1>1. u \in Int /\ g \in Int /\ u <= g /\ Dated(z, u) /\ Dated(z, g)
    BY DEF Ahead
  <1>2. \A x \in u..w : YearOf(z, x) = YearOf(z, u) /\ ~Hits(z, b, x)
    BY DatedAlike
  <1>3. v <= g
    <2>1. ASSUME g < v PROVE FALSE
      <3>1. g \in u..w
        BY <1>1, <2>1
      <3> QED
        BY <1>2, <3>1 DEF Ahead
    <2> QED
      BY <1>1, <2>1
  <1>4. w \in u..w /\ w \in Int /\ w + 1 = v /\ w <= v
    BY <1>1
  <1>5. SameDay(z, u, w) /\ Dated(z, w) /\ YearOf(z, w) = YearOf(z, u)
    BY <1>1, <1>4, DatedAlike
  <1>6. /\ DayOf(z, u) \in Int /\ DayOf(z, v) \in Int /\ DayOf(z, g) \in Int
        /\ DayOf(z, u) <= DayOf(z, v) /\ DayOf(z, v) <= DayOf(z, g)
    BY <1>1, <1>3, DaysInOrder
  <1>7. Dated(z, v)
    <2>1. Len(Dates) \in Nat
      BY DatesAssumption
    <2> QED
      BY <1>1, <1>6, <2>1 DEF Dated
  <1>8. SameDay(z, w, v) \/ DayBegins(z, DayOf(z, w) + 1)
    <2>1. CASE DayOf(z, u) = DayOf(z, v)
      BY <1>5, <2>1 DEF SameDay
    <2>2. CASE DayOf(z, u) # DayOf(z, v)
      <3>1. DayOf(z, u) + 1 \in DayOf(z, u)..DayOf(z, g)
        BY <1>6, <2>2
      <3> QED
        BY <1>5, <3>1 DEF Ahead, SameDay
    <2> QED
      BY <2>1, <2>2
  <1>9. Aligned(z, b, v) /\ (~AtMonth(z, v) => YearOf(z, v) = YearOf(z, u))
    <2>1. /\ BitIn(z, b, 5, w) \/ AtMonth(z, w + 1)
          /\ DayIn(z, b, w) \/ AtDay(z, w + 1)
          /\ BitIn(z, b, 3, w) \/ AtHour(z, w + 1)
          /\ BitIn(z, b, 2, w) \/ AtMinute(z, w + 1)
          /\ Dated(z, w + 1) /\ (SameDay(z, w, w + 1) \/ DayBegins(z, DayOf(z, w) + 1))
      BY <1>4, <1>7, <1>8
    <2> HIDE DEF w
    <2>2. Aligned(z, b, w + 1)
      BY <1>4, <1>5, <2>1, AlignedAfter
    <2>3. ~AtMonth(z, w + 1) => YearOf(z, w + 1) = YearOf(z, w)
      BY <1>4, <1>5, <2>1, YearKept
    <2> QED
      BY <1>4, <1>5, <2>2, <2>3
  <1>10. Clock(z, v) \in Int
    BY Offsets
  <1> QED
    BY <1>2, <1>3, <1>9, <1>10, PassedAgain DEF Round

\* The round of the loop for the days.
LEMMA DayRound ==
  ASSUME NEW z, Orderly(z), NEW b, NEW u, NEW g, Ahead(z, b, u, g),
         Passed("day", z, b, u), ~DayIn(z, b, u),
         NEW s, s = DayReset(z, u) \/ (s = u /\ Aligned(z, b, u))
  PROVE  Round("day", 4, 1, z, b, g, u, NextDay(z, s))
  <1> DEFINE k == DayOf(z, u)
             n == k + 1
             v == Date(z, n * Day)
  <1>1. u \in Int /\ g \in Int /\ u <= g /\ Dated(z, u) /\ Dated(z, g)
    BY DEF Ahead
  <1>2. k \in Int /\ DayOf(z, g) \in Int /\ k <= DayOf(z, g) /\ Clock(z, u) \in Int /\ Clock(z, g) \in Int
    BY <1>1, DaysInOrder, Offsets
  <1>3. Clock(z, s) = k * Day
    <2>1. CASE s = DayReset(z, u)
      <3>1. k \in k..DayOf(z, g)
        BY <1>2
      <3> QED
        BY <2>1, <3>1 DEF Ahead, DayBegins, DayReset
    <2>2. CASE s = u /\ Aligned(z, b, u)
      <3>1. Clock(z, u) % Day = 0
        BY <2>2 DEF Aligned, AtDay
      <3>2. Clock(z, u) = (Clock(z, u) \div Day) * Day + (Clock(z, u) % Day)
        BY <1>2, Units, Floor
      <3>3. k * Day \in Int
        BY <1>2, Units
      <3> QED
        BY <2>2, <3>1, <3>2, <3>3 DEF DayOf
    <2> QED
      BY <2>1, <2>2
  <1>4. n \in Int /\ k < n /\ n <= DayOf(z, g)
    <2>1. ASSUME DayOf(z, g) = k PROVE FALSE
      <3>1. SameDay(z, u, g)
        BY <2>1 DEF SameDay
      <3>2. ~DayIn(z, b, g) /\ YearOf(z, g) = YearOf(z, u)
        BY <1>2, <3>1, MatchAlike, DatedAlike
      <3> QED
        BY <3>2 DEF Ahead, Hits
    <2> QED
      BY <1>2, <2>1
  <1>5. Clock(z, s) + Day = n * Day
    <2> HIDE DEF k
    <2> QED
      BY <1>2, <1>3, Units
  <1>6. /\ v \in Int /\ u < v /\ v <= g /\ DayOf(z, v) = n /\ AtDay(z, v) /\ Dated(z, v)
        /\ AtHour(z, v) /\ AtMinute(z, v)
        /\ \A w \in u..(v - 1) : w \in Int /\ DayOf(z, w) \in Int /\ DayOf(z, u) <= DayOf(z, w) /\ DayOf(z, w) < n
    <2> HIDE DEF k, n, v
    <2>1. v = Date(z, n * Day)
      BY DEF v
    <2> QED
      BY <1>4, <2>1, Midnight DEF k
  <1>7. NextDay(z, s) = v
    <2>1. Date(z, Clock(z, s) + Day) = v
      BY <1>5
    <2> HIDE DEF v
    <2>2. Fields(z, v)[3] = 0
      BY <1>6, Offsets, StartsNested
    <2>3. ~(0 > HoursPerDay \div 2) /\ v - 0 * Hour = v
      BY <1>6, Units
    <2> QED
      BY <2>1, <2>2, <2>3 DEF NextDay
  <1> HIDE DEF v
  <1>8. \A w \in u..(v - 1) : SameDay(z, u, w) /\ Clock(z, w) \in Int
    BY <1>2, <1>6, Offsets DEF SameDay
  <1>9. \A w \in u..(v - 1) : ~DayIn(z, b, w) /\ BitIn(z, b, 5, w)
    BY <1>2, <1>8, MatchAlike DEF Passed
  <1>10. v - 1 \in u..(v - 1)
    BY <1>1, <1>6
  <1>11. Round("day", 4, 1, z, b, g, u, v)
    BY <1>6, <1>8, <1>9, <1>10, RoundInDay DEF Hits
  <1> QED
    BY <1>7, <1>11

\* The round of the loop for the hours.  Where an hour is there twice, the reset
\* may go back to the first one or on to the second.
LEMMA HourRound ==
  ASSUME NEW z, Orderly(z), NEW b, NEW u, NEW g, Ahead(z, b, u, g),
         Passed("hour", z, b, u), ~BitIn(z, b, 3, u),
         NEW s, s = HourReset(z, u) \/ (s = u /\ Aligned(z, b, u))
  PROVE  Round("hour", 3, 0, z, b, g, u, s + Hour)
  <1> DEFINE v == s + Hour
  <1>1. u \in Int /\ g \in Int /\ u <= g /\ Dated(z, u)
    BY DEF Ahead
  <1>2. Clock(z, u) \in Int /\ 0 <= Clock(z, u) /\ Hour \in Nat \ {0}
    <2> DEFINE c == Clock(z, u)
               d == c \div Day
    <2>1. c \in Int /\ Day \in Nat \ {0} /\ Hour \in Nat \ {0}
      BY <1>1, Offsets, Units
    <2>2. d \in Int /\ d * Day <= c
      BY <2>1, Floor
    <2>3. 0 <= d
      BY <1>1, <2>2 DEF Dated, DayOf
    <2> HIDE DEF c, d
    <2>4. 0 <= d * Day /\ d * Day \in Int
      BY <2>1, <2>2, <2>3
    <2>5. 0 <= c
      BY <2>1, <2>2, <2>4
    <2> QED
      BY <2>1, <2>5 DEF c
  <1>3. s \in Int /\ AtHour(z, s) /\ SameHour(z, u, s)
    <2>1. CASE s = HourReset(z, u)
      BY <1>1, <1>2, <2>1, HourFound
    <2>2. CASE s = u /\ Aligned(z, b, u)
      BY <1>1, <2>2 DEF Aligned, SameHour
    <2> QED
      BY <2>1, <2>2
  <1>4. v \in Int /\ s < v /\ v = s + Hour
    BY <1>2, <1>3
  <1>5. s % Hour = 0
    BY <1>3, HoursOfClock DEF AtHour
  <1> HIDE DEF v
  <1>6. AtHour(z, v) /\ AtMinute(z, v)
    <2>1. (s + 1 * Hour) % Hour = s % Hour
      <3>1. 1 \in Int
        OBVIOUS
      <3> QED
        BY <1>2, <1>3, <3>1, Shifted
    <2>2. v = s + 1 * Hour
      BY <1>2, <1>3, <1>4
    <2>3. AtHour(z, v)
      BY <1>4, <1>5, <2>1, <2>2, HoursOfClock DEF AtHour
    <2> QED
      BY <1>4, <2>3, Offsets, StartsNested
  <1>7. ASSUME NEW x \in Int, s <= x, x < v PROVE SameHour(z, u, x)
    <2> DEFINE p == s \div Hour
    <2>1. p \in Int /\ s = p * Hour + 0
      BY <1>2, <1>3, <1>5, Floor
    <2> HIDE DEF p
    <2>2. p * Hour <= x /\ x < p * Hour + Hour
      BY <1>2, <1>4, <1>7, <2>1
    <2>3. x \div Hour = p
      BY <1>2, <2>1, <2>2, Quotient
    <2>4. SameHour(z, s, x)
      BY <1>3, <2>3, HourUnchanged DEF p
    <2> QED
      BY <1>3, <2>4 DEF SameHour
  <1>8. ASSUME NEW x \in Int, s <= x, x <= u PROVE SameHour(z, u, x)
    <2>1. SameHour(z, s, u) /\ x \in s..u /\ s <= u
      BY <1>1, <1>3, <1>8 DEF SameHour
    <2>2. SameHour(z, s, x)
      BY <1>1, <1>3, <2>1, DaysInOrder
    <2> QED
      BY <2>1, <2>2 DEF SameHour
  <1>9. ASSUME NEW x \in Int, u <= x, x <= s PROVE SameHour(z, u, x)
    <2>1. x \in u..s /\ u <= s
      BY <1>1, <1>3, <1>9
    <2> QED
      BY <1>1, <1>3, <2>1, DaysInOrder
  <1>10. ASSUME NEW x, SameHour(z, u, x), x \in Int
         PROVE  SameDay(z, u, x) /\ ~BitIn(z, b, 3, x) /\ DayIn(z, b, x) /\ BitIn(z, b, 5, x) /\ ~Hits(z, b, x)
    <2>1. Clock(z, x) \in Int
      BY <1>10, Offsets
    <2>2. SameDay(z, u, x)
      BY <1>2, <1>10, <2>1, SameFields
    <2>3. ~BitIn(z, b, 3, x) /\ DayIn(z, b, x) /\ BitIn(z, b, 5, x)
      BY <1>2, <1>10, <2>1, <2>2, MatchAlike DEF Passed
    <2> QED
      BY <2>2, <2>3 DEF Hits
  <1>11. CASE u < v
    <2>1. ASSUME NEW w \in u..(v - 1) PROVE w \in Int /\ SameHour(z, u, w)
      <3>1. w \in Int /\ u <= w /\ w < v
        BY <1>1, <1>4
      <3> QED
        BY <1>3, <1>7, <1>9, <3>1
    <2>2. \A w \in u..(v - 1) : SameDay(z, u, w) /\ ~Hits(z, b, w)
      BY <1>10, <2>1
    <2>3. v - 1 \in u..(v - 1)
      BY <1>1, <1>4, <1>11
    <2>4. BitIn(z, b, 5, v - 1) /\ DayIn(z, b, v - 1)
      BY <1>10, <2>1, <2>3
    <2> QED
      BY <1>4, <1>6, <1>11, <2>2, <2>4, RoundInDay
  <1>12. CASE v <= u
    <2>1. SameHour(z, u, v)
      BY <1>3, <1>4, <1>8, <1>12
    <2>2. DayIn(z, b, v) /\ BitIn(z, b, 5, v) /\ SameDay(z, u, v)
      BY <1>4, <1>10, <2>1
    <2>3. v <= g /\ u..(v - 1) = {}
      BY <1>1, <1>4, <1>12
    <2>4. YearOf(z, v) = YearOf(z, u)
      BY <2>2, DatedAlike
    <2>5. Aligned(z, b, v)
      BY <1>6, <2>2 DEF Aligned
    <2>6. Round("hour", 3, 0, z, b, g, u, v)
      BY <1>4, <2>1, <2>2, <2>3, <2>4, <2>5 DEF Round, Passed
    <2> QED
      BY <1>4, <2>6
  <1> QED
    BY <1>1, <1>4, <1>11, <1>12

\* The round of the loop for the minutes.
LEMMA MinuteRound ==
  ASSUME NEW z, Orderly(z), NEW b, NEW u, NEW g, Ahead(z, b, u, g),
         Passed("minute", z, b, u), ~BitIn(z, b, 2, u),
         NEW s, s = Truncated(u) \/ (s = u /\ Aligned(z, b, u))
  PROVE  Round("minute", 2, 0, z, b, g, u, s + SecondsPerMinute)
  <1> DEFINE n == SecondsPerMinute
             p == u \div n
             v == s + n
  <1>1. u \in Int /\ n \in Nat \ {0} /\ Clock(z, u) \in Int
    BY Units, Offsets DEF Ahead
  <1>2. p \in Int /\ p * n <= u /\ u < p * n + n /\ u = p * n + (u % n)
    BY <1>1, Floor
  <1>3. s = p * n
    <2>1. CASE s = u /\ Aligned(z, b, u)
      <3>1. u % n = 0
        BY <1>1, <2>1, HoursOfClock DEF Aligned, AtMinute
      <3> HIDE DEF p
      <3>2. p * n \in Int /\ u = p * n + 0
        BY <1>1, <1>2, <3>1
      <3> QED
        BY <1>1, <2>1, <3>2
    <2> QED
      BY <2>1 DEF Truncated
  <1>4. s \in Int /\ v \in Int /\ s <= u /\ u < v /\ v = s + n
    <2> HIDE DEF p
    <2> QED
      BY <1>1, <1>2, <1>3
  <1>5. ASSUME NEW x \in Int, u <= x, x < v PROVE SameMinute(z, u, x) /\ SameHour(z, u, x)
    <2>1. p * n <= x /\ x < p * n + n
      BY <1>1, <1>3, <1>4, <1>5
    <2>2. x \div n = p
      <3> HIDE DEF p
      <3> QED
        BY <1>1, <1>2, <2>1, Quotient
    <2> QED
      BY <1>1, <2>2, HourUnchanged
  <1>6. AtMinute(z, v)
    <2>1. v = (p + 1) * n /\ p + 1 \in Int
      <3> HIDE DEF p
      <3> QED
        BY <1>1, <1>2, <1>3, <1>4
    <2>2. ((p + 1) * n) % n = 0
      <3> HIDE DEF p, n
      <3> QED
        BY <1>1, <2>1, UnitBegins
    <2>3. v % n = 0
      BY <2>1, <2>2
    <2> HIDE DEF v
    <2> QED
      BY <1>4, <2>3, HoursOfClock DEF AtMinute
  <1> HIDE DEF v, p
  <1>7. \A w \in u..(v - 1) : w \in Int /\ SameMinute(z, u, w) /\ SameHour(z, u, w)
    BY <1>1, <1>4, <1>5
  <1>8. \A w \in u..(v - 1) : Clock(z, w) \in Int /\ SameDay(z, u, w)
    BY <1>1, <1>7, Offsets, SameFields
  <1>9. \A w \in u..(v - 1) : ~BitIn(z, b, 2, w) /\ BitIn(z, b, 3, w) /\ DayIn(z, b, w) /\ BitIn(z, b, 5, w)
    BY <1>1, <1>7, <1>8, MatchAlike DEF Passed
  <1>10. v - 1 \in u..(v - 1)
    BY <1>1, <1>4
  <1>11. Round("minute", 2, 0, z, b, g, u, v)
    BY <1>4, <1>6, <1>8, <1>9, <1>10, RoundInDay DEF Hits
  <1> QED
    BY <1>11 DEF v, n

\* The round of the loop for the seconds.
LEMMA SecondRound ==
  ASSUME NEW z, Orderly(z), NEW b, NEW u, NEW g, Ahead(z, b, u, g),
         Passed("second", z, b, u), ~BitIn(z, b, 1, u)
  PROVE  Round("second", 1, 0, z, b, g, u, u + 1)
  <1> DEFINE v == u + 1
  <1>1. u \in Int
    BY DEF Ahead
  <1>2. v \in Int /\ u < v /\ v - 1 = u /\ u..(v - 1) = {u}
    BY <1>1
  <1>3. SameDay(z, u, u) /\ ~Hits(z, b, u)
    BY DEF SameDay, Hits
  <1> HIDE DEF v
  <1>4. Round("second", 1, 0, z, b, g, u, v)
    BY <1>2, <1>3, RoundInDay DEF Passed
  <1> QED
    BY <1>4 DEF v

-----------------------------------------------------------------------------
(* What the bits say and what the text means *)

\* No field of a time is as large as the bit of the star.
LEMMA FieldsBelowStar ==
  ASSUME NEW z, NEW u, Clock(z, u) \in Int, Dated(z, u), NEW i \in 1..6
  PROVE  Fields(z, u)[i] # StarBit
  <1> DEFINE d == DateOf(z, u)
  <1>1. d.day \in 1..(Word - 2) /\ d.month \in 1..(Word - 2) /\ Word \in Int
    <2> DEFINE k == DayOf(z, u) + 1
    <2>1. k \in 1..Len(Dates) /\ d = Dates[k]
      BY DEF Dated, DateOf
    <2> HIDE DEF k, d
    <2>2. Dates[k].day \in 1..(Word - 2) /\ Dates[k].month \in 1..(Word - 2)
      BY <2>1, DateFacts
    <2>3. Word \in Int
      BY ParserAssumption
    <2> QED
      BY <2>1, <2>2, <2>3
  <1>2. ASSUME NEW c \in Int, NEW n \in 1..(Word - 1) PROVE c % n # StarBit
    <2>1. n \in Nat \ {0} /\ n <= Word - 1
      BY <1>1
    <2>2. c % n \in 0..(n - 1)
      BY <2>1, Floor
    <2> QED
      BY <1>1, <2>1, <2>2 DEF StarBit
  <1>3. /\ Clock(z, u) \div SecondsPerMinute \in Int /\ Clock(z, u) \div Hour \in Int
        /\ DayOf(z, u) \in Int
    BY UnitsOfTime
  <1>4. /\ Clock(z, u) % SecondsPerMinute # StarBit
        /\ (Clock(z, u) \div SecondsPerMinute) % MinutesPerHour # StarBit
        /\ (Clock(z, u) \div Hour) % HoursPerDay # StarBit
        /\ DayOf(z, u) % DaysPerWeek # StarBit
    BY <1>2, <1>3, UnitsAssumption
  <1>5. d.day # StarBit /\ d.month # StarBit
    BY <1>1 DEF StarBit
  <1>6. i = 1 \/ i = 2 \/ i = 3 \/ i = 4 \/ i = 5 \/ i = 6
    OBVIOUS
  <1> HIDE DEF d
  <1> QED
    BY <1>4, <1>5, <1>6 DEF Fields, d

\* The bits of a valid spec are the values its text means, and the stars.
LEMMA BitsAreValues ==
  ASSUME NEW text,
         text.descriptor \in {Absent, "@yearly", "@monthly", "@weekly", "@daily", "@hourly"},
         text.fields \in Seq(FieldTexts), Cardinality(Optionals(text.options)) <= 1,
         ~Invalid(text), NEW b, b = MeantBits(text),
         NEW z, NEW u, Clock(z, u) \in Int, Dated(z, u), NEW i \in 1..6
  PROVE  /\ BitIn(z, b, i, u) <=> Fields(z, u)[i] \in Meaning(text).values[i]
         /\ StarBit \in b[i] <=> i \in Meaning(text).stars
  <1> DEFINE meaning == Meaning(text)
             spec    == SpecFields(text)
             f       == Fields(z, u)
  <1>1. b[i] = FieldBits(spec[i], i)
    <2>1. MeantBits(text) = [j \in 1..6 |-> FieldBits(spec[j], j)]
      BY MeantByPlace
    <2> QED
      BY <2>1
  <1>2. /\ meaning.values[i] = ValuesOf(spec[i], i)
        /\ i \in meaning.stars <=> Unrestricted(spec[i])
    BY ValuesByPlace
  <1>3. f[i] # StarBit
    BY FieldsBelowStar
  <1>4. StarBit \in FieldBits(spec[i], i) <=> Unrestricted(spec[i])
    BY StarsMeant
  <1> HIDE DEF meaning, spec, f
  <1>5. f[i] \in FieldBits(spec[i], i) <=> f[i] \in meaning.values[i]
    BY <1>2, <1>3 DEF FieldBits, ValuesOf
  <1> QED
    BY <1>1, <1>2, <1>4, <1>5 DEF BitIn, f, meaning

\* The bits of a valid spec match the times its text means.
LEMMA HitsAreMatches ==
  ASSUME NEW text,
         text.descriptor \in {Absent, "@yearly", "@monthly", "@weekly", "@daily", "@hourly"},
         text.fields \in Seq(FieldTexts), Cardinality(Optionals(text.options)) <= 1,
         ~Invalid(text), NEW b, b = MeantBits(text),
         NEW z, NEW u, Clock(z, u) \in Int, Dated(z, u)
  PROVE  Hits(z, b, u) <=> Matches(Meaning(text), z, u)
  <1> DEFINE meaning == Meaning(text)
             f       == Fields(z, u)
  <1>1. ASSUME NEW i \in 1..6
        PROVE  /\ BitIn(z, b, i, u) <=> f[i] \in meaning.values[i]
               /\ StarBit \in b[i] <=> i \in meaning.stars
    BY BitsAreValues
  <1>2. Matches(meaning, z, u) <=>
          /\ \A i \in {1, 2, 3, 5} : f[i] \in meaning.values[i]
          /\ IF meaning.stars \cap {4, 6} # {}
             THEN f[4] \in meaning.values[4] /\ f[6] \in meaning.values[6]
             ELSE f[4] \in meaning.values[4] \/ f[6] \in meaning.values[6]
    BY DEF Matches
  <1> HIDE DEF meaning, f
  <1>3. meaning.stars \cap {4, 6} # {} <=> 4 \in meaning.stars \/ 6 \in meaning.stars
    OBVIOUS
  <1>4. DayIn(z, b, u) <=>
          IF 4 \in meaning.stars \/ 6 \in meaning.stars
          THEN f[4] \in meaning.values[4] /\ f[6] \in meaning.values[6]
          ELSE f[4] \in meaning.values[4] \/ f[6] \in meaning.values[6]
    BY <1>1 DEF DayIn
  <1>5. \A i \in {1, 2, 3, 5} : BitIn(z, b, i, u) <=> f[i] \in meaning.values[i]
    BY <1>1
  <1> QED
    BY <1>2, <1>3, <1>4, <1>5 DEF Hits, meaning

-----------------------------------------------------------------------------
(* The times that are searched *)

\* The limit of a search, and the first day of the month it begins in.
LastYear(q) == YearOf(q.zone, q.from + 1) + YearLimit
FirstDay(q) == DayOf(q.zone, q.from + 1) - DateOf(q.zone, q.from + 1).day + 1

LEMMA QueryFacts ==
  ASSUME NEW q \in Queries
  PROVE  /\ Orderly(q.zone) /\ q.from \in Nat /\ Dated(q.zone, q.from + 1)
         /\ DayOf(q.zone, q.from + 1) \in Nat /\ DayOf(q.zone, q.from + 1) <= LastDay
         /\ FirstDay(q) \in Nat /\ FirstDay(q) <= DayOf(q.zone, q.from + 1)
         /\ LastYear(q) \in Nat /\ Dates[Len(Dates) - 1].year > LastYear(q)
         /\ Len(Dates) \in Nat /\ Len(Dates) - 1 \in 1..Len(Dates)
         /\ YearOf(q.zone, q.from + 1) <= LastYear(q)
  <1> DEFINE d == DayOf(q.zone, q.from + 1)
             k == d + 1
  <1>1. /\ q.from \in Nat /\ q.zone.spring \in Int /\ q.zone.fall \in Int
        /\ q.zone.base \in (1 - HoursPerDay)..(HoursPerDay - 2)
        /\ d \in 0..(Len(Dates) - 2)
        /\ Dates[Len(Dates) - 1].year > YearOf(q.zone, q.from + 1) + YearLimit
    BY ZonesAssumption
  <1>2. Orderly(q.zone)
    <2>1. q.zone.spring < q.zone.fall =>
            /\ q.zone.spring % Hour = 0 /\ q.zone.fall % Hour = 0
            /\ q.zone.spring + Day + Hour < q.zone.fall
      BY ChangesAssumption
    <2>2. q.zone.spring + Day + Hour < q.zone.fall => q.zone.spring + Day < q.zone.fall
      BY <1>1, Units
    <2> QED
      BY <1>1, <2>1, <2>2 DEF Orderly
  <1>3. Len(Dates) \in Nat
    BY DatesAssumption
  <1>4. k \in 1..Len(Dates) /\ Len(Dates) - 1 \in 1..Len(Dates) /\ d \in Nat /\ d <= LastDay
    <2> HIDE DEF d
    <2> QED
      BY <1>1, <1>3 DEF LastDay
  <1>5. Dated(q.zone, q.from + 1) /\ DateOf(q.zone, q.from + 1) = Dates[k]
    BY <1>4 DEF Dated, DateOf
  <1>6. Dates[k].year \in Nat /\ Dates[k].day \in Nat /\ 1 <= Dates[k].day /\ Dates[k].day <= k
    <2> HIDE DEF k
    <2>1. Dates[k].year \in Nat /\ Dates[k].day \in 1..(Word - 2) /\ Dates[k].day <= k
      BY <1>4, DateFacts
    <2>2. Word \in Int
      BY ParserAssumption
    <2> QED
      BY <2>1, <2>2
  <1>7. YearLimit \in Nat
    BY UnitsAssumption
  <1>8. LastYear(q) \in Nat /\ YearOf(q.zone, q.from + 1) <= LastYear(q)
    BY <1>5, <1>6, <1>7 DEF LastYear, YearOf
  <1>9. FirstDay(q) \in Nat /\ FirstDay(q) <= d
    <2> DEFINE day == Dates[k].day
    <2>1. FirstDay(q) = d - day + 1
      BY <1>5 DEF FirstDay
    <2>2. day \in Nat /\ 1 <= day /\ day <= d + 1
      BY <1>6
    <2> HIDE DEF day, d
    <2> QED
      BY <1>4, <2>1, <2>2
  <1>10. Dates[Len(Dates) - 1].year > LastYear(q)
    BY <1>1 DEF LastYear
  <1> QED
    BY <1>1, <1>2, <1>3, <1>4, <1>5, <1>8, <1>9, <1>10

\* Within the limit no time is beyond those searched.
LEMMA InCalendar ==
  ASSUME NEW q \in Queries,
         NEW u \in Int, q.from + 1 <= u, Dated(q.zone, u), YearOf(q.zone, u) <= LastYear(q)
  PROVE  u \in Searched(q)
  <1> DEFINE z    == q.zone
             d    == DayOf(z, u)
             last == Len(Dates)
             c    == Clock(z, u)
             o    == OffsetAt(z, u)
  <1>1. /\ Orderly(z) /\ last \in Nat /\ last - 1 \in 1..last /\ Dates[last - 1].year > LastYear(q)
        /\ LastYear(q) \in Nat /\ q.from \in Nat
    BY QueryFacts
  <1>2. c \in Int /\ o \in Int /\ -Day < o /\ c = u + o
    BY <1>1, Offsets
  <1>3. d \in Int /\ d * Day <= c /\ c < d * Day + Day /\ d + 1 \in 1..last
    BY <1>2, Units, Floor DEF DayOf, Dated
  <1>4. d + 1 < last - 1
    <2>1. ASSUME last - 1 <= d + 1 PROVE FALSE
      <3>1. Dates[last - 1].year <= Dates[d + 1].year
        BY <1>1, <1>3, <2>1, DatesAssumption
      <3>2. Dates[d + 1].year = YearOf(z, u) /\ Dates[d + 1].year \in Nat /\ Dates[last - 1].year \in Nat
        BY <1>1, <1>3, DateFacts DEF YearOf, DateOf
      <3> QED
        BY <1>1, <3>1, <3>2
    <2> QED
      BY <1>1, <1>3, <2>1
  <1>5. u <= (last - 1) * Day
    <2>1. (d + 2) * Day <= (last - 1) * Day
      <3> HIDE DEF d, last
      <3>1. d + 2 <= last - 1 /\ d + 2 \in Int /\ last - 1 \in Int
        BY <1>1, <1>3, <1>4
      <3> QED
        BY <3>1, Units
    <2>2. (d + 2) * Day = d * Day + Day + Day
      <3> HIDE DEF d
      <3> QED
        BY <1>3, Units
    <2> DEFINE m == d * Day
               e == (last - 1) * Day
    <2>3. m \in Int /\ e \in Int /\ Day \in Int
      <3> HIDE DEF d, last
      <3> QED
        BY <1>1, <1>3, Units
    <2>4. m + Day + Day <= e /\ u + o < m + Day
      BY <1>2, <1>3, <2>1, <2>2
    <2> HIDE DEF m, e, o
    <2>5. u <= e
      BY <1>2, <2>3, <2>4
    <2> QED
      BY <2>5 DEF e
  <1>6. (last - 1) * Day \in Int
    BY <1>1, Units
  <1> HIDE DEF last
  <1> QED
    BY <1>1, <1>5, <1>6 DEF Searched, LastYear, last

\* The times that are searched are in the calendar.
LEMMA SearchedDated ==
  ASSUME NEW q \in Queries, NEW u \in Searched(q)
  PROVE  u \in Int /\ q.from + 1 <= u /\ YearOf(q.zone, u) <= LastYear(q) /\ Dated(q.zone, u)
  <1> DEFINE z    == q.zone
             last == Len(Dates)
             c    == Clock(z, u)
             o    == OffsetAt(z, u)
  <1>1. /\ Orderly(z) /\ last \in Nat /\ last - 1 \in 1..last /\ q.from \in Nat
        /\ DayOf(z, q.from + 1) \in Nat
    BY QueryFacts
  <1>2. (last - 1) * Day \in Int /\ last * Day \in Int /\ (last - 1) * Day + Day = last * Day
    BY <1>1, Units
  <1>3. /\ u \in (q.from + 1)..((last - 1) * Day)
        /\ YearOf(q.zone, u) <= LastYear(q)
    BY DEF Searched, LastYear
  <1> HIDE DEF last
  <1>4. u \in Int /\ q.from + 1 <= u /\ u <= (last - 1) * Day
    BY <1>1, <1>2, <1>3
  <1>5. c \in Int /\ o \in Int /\ o < Day /\ c = u + o
    BY <1>1, <1>4, Offsets
  <1>6. c < last * Day
    <2> DEFINE e == (last - 1) * Day
               g == last * Day
    <2>1. e \in Int /\ g \in Int /\ e + Day = g /\ u <= e /\ Day \in Int
      BY <1>2, <1>4, Units
    <2> HIDE DEF e, g, o, c
    <2>2. c < g
      BY <1>4, <1>5, <2>1
    <2> QED
      BY <2>2 DEF g
  <1>7. DayOf(z, u) \in Int /\ 0 <= DayOf(z, u)
    <2>1. q.from + 1 \in Int
      BY <1>1
    <2>2. DayOf(z, q.from + 1) <= DayOf(z, u) /\ DayOf(z, u) \in Int
      BY <1>1, <1>4, <2>1, DaysInOrder
    <2> QED
      BY <1>1, <2>2
  <1>8. DayOf(z, u) < last
    <2> DEFINE d == DayOf(z, u)
    <2>1. d * Day <= c
      BY <1>5, Units, Floor DEF DayOf
    <2> HIDE DEF d, c
    <2>2. ASSUME last <= d PROVE FALSE
      <3>1. d \in Int /\ last \in Int
        BY <1>1, <1>7 DEF d
      <3>2. last * Day <= d * Day
        BY <2>2, <3>1, Units
      <3>3. d * Day \in Int
        BY <3>1, Units
      <3> QED
        BY <1>2, <1>5, <1>6, <2>1, <3>2, <3>3
    <2> QED
      BY <1>1, <1>7, <2>2 DEF d
  <1>9. Dated(z, u)
    BY <1>1, <1>7, <1>8 DEF Dated, last
  <1> QED
    BY <1>3, <1>4, <1>9

-----------------------------------------------------------------------------
(* Next *)

Loops == {"WRAP", "month", "day", "hour", "minute", "second"}

\* A time Next must not come past: it matches or is beyond the limit, and Date
\* finds all midnights from the month Next begins in to there.
Goal(q, b, g) ==
  /\ g \in Int /\ q.from + 1 <= g /\ Dated(q.zone, g)
  /\ Hits(q.zone, b, g) \/ YearOf(q.zone, g) > LastYear(q)
  /\ \A k \in FirstDay(q)..DayOf(q.zone, g) : DayBegins(q.zone, k)

\* Next is at the time u and at a label or loop: it has passed over no time
\* that matches and has not come past g.  It may be before the time it began at,
\* in an hour that does not match.
Looking(q, b, g, place, u, again) ==
  /\ u \in Int /\ u <= g /\ Dated(q.zone, u)
  /\ q.from + 1 <= u \/ (SameHour(q.zone, u, q.from + 1) /\ ~BitIn(q.zone, b, 3, u))
  /\ \A w \in (q.from + 1)..(u - 1) : ~Hits(q.zone, b, w)
  /\ IF again THEN Aligned(q.zone, b, u) ELSE u = q.from + 1
  /\ Passed(place, q.zone, b, u)
  /\ place # "WRAP" => YearOf(q.zone, u) <= LastYear(q)

\* What Next has found.
Found(q, b, g, u) ==
  IF u = 0 THEN \A w \in Searched(q) : ~Hits(q.zone, b, w)
  ELSE u \in Searched(q) /\ Hits(q.zone, b, u) /\ u <= g

NextInv ==
  /\ query \in Queries
  /\ pc \in {"normalize", "parse"} => added = FALSE
  /\ pc \in Loops =>
       /\ added \in BOOLEAN /\ yearLimit = LastYear(query)
       /\ \A g \in Int : Goal(query, bits, g) => Looking(query, bits, g, pc, t, added)
  /\ pc = "done" => \A g \in Int : Goal(query, bits, g) => Found(query, bits, g, t)

\* The goal lies ahead of every loop.
LEMMA OnTheWay ==
  ASSUME NEW q \in Queries, NEW b, NEW g, Goal(q, b, g), NEW u, NEW again,
         NEW place \in Loops \ {"WRAP"}, Looking(q, b, g, place, u, again)
  PROVE  /\ Ahead(q.zone, b, u, g) /\ Passed(place, q.zone, b, u)
         /\ again => Aligned(q.zone, b, u)
         /\ ~again => DayBegins(q.zone, DayOf(q.zone, u) - DateOf(q.zone, u).day + 1)
  <1> DEFINE z     == q.zone
             from  == q.from + 1
             first == FirstDay(q)
  <1>1. /\ Orderly(z) /\ from \in Int /\ DayOf(z, from) \in Nat /\ first \in Nat /\ first <= DayOf(z, from)
        /\ LastYear(q) \in Nat
    BY QueryFacts
  <1>2. /\ u \in Int /\ u <= g /\ Dated(z, u) /\ YearOf(z, u) <= LastYear(q)
        /\ from <= u \/ SameHour(z, u, from)
        /\ Passed(place, z, b, u) /\ (IF again THEN Aligned(z, b, u) ELSE u = from)
    BY DEF Looking, Loops
  <1>3. /\ g \in Int /\ from <= g /\ Dated(z, g) /\ (Hits(z, b, g) \/ YearOf(z, g) > LastYear(q))
        /\ \A k \in first..DayOf(z, g) : DayBegins(z, k)
    BY DEF Goal
  <1> HIDE DEF first
  <1>4. DayOf(z, from) <= DayOf(z, u) /\ DayOf(z, u) \in Int /\ DayOf(z, g) \in Int
    <2>1. DayOf(z, u) \in Int /\ DayOf(z, g) \in Int
      BY <1>1, <1>2, <1>3, DaysInOrder
    <2>2. CASE from <= u
      BY <1>1, <1>2, <2>1, <2>2, DaysInOrder
    <2>3. CASE SameHour(z, u, from)
      <3>1. Clock(z, u) \in Int /\ Clock(z, from) \in Int
        BY <1>1, <1>2, Offsets
      <3>2. SameDay(z, u, from)
        BY <2>3, <3>1, SameFields
      <3> QED
        BY <1>1, <2>1, <3>2 DEF SameDay
    <2> QED
      BY <1>2, <2>2, <2>3
  <1>5. \A k \in DayOf(z, u)..DayOf(z, g) : DayBegins(z, k)
    <2> SUFFICES ASSUME NEW k \in DayOf(z, u)..DayOf(z, g) PROVE DayBegins(z, k)
      OBVIOUS
    <2>1. k \in first..DayOf(z, g)
      BY <1>1, <1>4
    <2> QED
      BY <1>3, <2>1
  <1>6. Hits(z, b, g) \/ YearOf(z, g) # YearOf(z, u)
    <2>1. YearOf(z, u) \in Nat /\ YearOf(z, g) \in Nat
      BY <1>1, <1>2, <1>3, YearsInOrder
    <2> QED
      BY <1>1, <1>2, <1>3, <2>1
  <1>7. Ahead(z, b, u, g)
    BY <1>2, <1>3, <1>5, <1>6 DEF Ahead
  <1>8. ~again => DayBegins(z, DayOf(z, u) - DateOf(z, u).day + 1)
    <2> SUFFICES ASSUME ~again PROVE DayBegins(z, DayOf(z, u) - DateOf(z, u).day + 1)
      OBVIOUS
    <2>1. u = from
      BY <1>2
    <2>2. first = DayOf(z, u) - DateOf(z, u).day + 1
      BY <2>1 DEF first, FirstDay
    <2>3. DayOf(z, from) <= DayOf(z, g)
      BY <1>1, <1>3, DaysInOrder
    <2>4. first \in first..DayOf(z, g)
      BY <1>1, <1>4, <2>3
    <2> QED
      BY <1>3, <2>2, <2>4
  <1> QED
    BY <1>2, <1>7, <1>8

\* A round of a loop keeps what is true of the time Next is at.
LEMMA Advanced ==
  ASSUME NEW q \in Queries, NEW b, NEW g, Goal(q, b, g), NEW u, NEW v, NEW again,
         NEW place \in Loops \ {"WRAP"}, NEW i, NEW first, NEW next,
         next = IF Fields(q.zone, v)[i] = first THEN "WRAP" ELSE place,
         Looking(q, b, g, place, u, again), Round(place, i, first, q.zone, b, g, u, v)
  PROVE  Looking(q, b, g, next, v, TRUE)
  <1> DEFINE z    == q.zone
             from == q.from + 1
  <1>1. Orderly(z) /\ from \in Int
    BY QueryFacts
  <1>2. /\ u \in Int /\ u <= g /\ Dated(z, u) /\ YearOf(z, u) <= LastYear(q)
        /\ from <= u \/ (SameHour(z, u, from) /\ ~BitIn(z, b, 3, u))
        /\ \A w \in from..(u - 1) : ~Hits(z, b, w)
    BY DEF Looking, Loops
  <1>3. /\ v \in Int /\ v <= g
        /\ u < v \/ (SameHour(z, u, v) /\ ~BitIn(z, b, 3, u))
        /\ \A w \in u..(v - 1) : ~Hits(z, b, w)
        /\ Aligned(z, b, v)
        /\ Fields(z, v)[i] # first => Passed(place, z, b, v) /\ YearOf(z, v) = YearOf(z, u)
    BY DEF Round
  <1>4. g \in Int /\ Dated(z, g)
    BY DEF Goal
  <1>5. Clock(z, u) \in Int /\ Clock(z, v) \in Int /\ Clock(z, from) \in Int
    BY <1>1, <1>2, <1>3, Offsets
  <1> HIDE DEF from
  <1>6. Dated(z, v)
    <2>1. CASE u < v
      <3>1. /\ DayOf(z, u) \in Int /\ DayOf(z, v) \in Int /\ DayOf(z, g) \in Int
            /\ DayOf(z, u) <= DayOf(z, v) /\ DayOf(z, v) <= DayOf(z, g) /\ Len(Dates) \in Nat
        BY <1>1, <1>2, <1>3, <1>4, <2>1, DaysInOrder, DatesAssumption
      <3> QED
        BY <1>2, <1>4, <3>1 DEF Dated
    <2>2. CASE SameHour(z, u, v)
      BY <1>2, <1>5, <2>2, SameFields, DatedAlike
    <2> QED
      BY <1>3, <2>1, <2>2
  <1>7. ASSUME SameHour(z, u, v), ~BitIn(z, b, 3, u) PROVE ~BitIn(z, b, 3, v)
    BY <1>5, <1>7, MatchAlike
  <1>8. from <= v \/ (SameHour(z, v, from) /\ ~BitIn(z, b, 3, v))
    <2> SUFFICES ASSUME v < from PROVE SameHour(z, v, from) /\ ~BitIn(z, b, 3, v)
      BY <1>1, <1>3
    <2>1. CASE u < v
      <3>1. SameHour(z, u, from) /\ ~BitIn(z, b, 3, u) /\ u <= from /\ v \in u..from
        BY <1>1, <1>2, <1>3, <2>1
      <3>2. SameHour(z, u, v)
        BY <1>1, <1>2, <3>1, DaysInOrder
      <3> QED
        BY <1>7, <3>1, <3>2 DEF SameHour
    <2>2. CASE ~(u < v)
      <3>1. SameHour(z, u, v) /\ ~BitIn(z, b, 3, u) /\ v <= u
        BY <1>2, <1>3, <2>2
      <3>2. CASE from <= u
        <4>1. from \in v..u /\ SameHour(z, v, u)
          BY <1>1, <1>2, <1>3, <3>1, <3>2 DEF SameHour
        <4>2. SameHour(z, v, from)
          BY <1>1, <1>2, <1>3, <3>1, <4>1, DaysInOrder
        <4> QED
          BY <1>7, <3>1, <4>2
      <3>3. CASE SameHour(z, u, from)
        BY <1>7, <3>1, <3>3 DEF SameHour
      <3> QED
        BY <1>2, <3>2, <3>3
    <2> QED
      BY <2>1, <2>2
  <1>9. \A w \in from..(v - 1) : ~Hits(z, b, w)
    <2> SUFFICES ASSUME NEW w \in from..(v - 1) PROVE ~Hits(z, b, w)
      OBVIOUS
    <2>1. w \in from..(u - 1) \/ w \in u..(v - 1)
      BY <1>1, <1>2, <1>3
    <2> QED
      BY <1>2, <1>3, <2>1
  <1>10. Passed(next, z, b, v)
    <2>1. Passed("WRAP", z, b, v)
      BY DEF Passed
    <2> QED
      BY <1>3, <2>1
  <1>11. next # "WRAP" => YearOf(z, v) <= LastYear(q)
    BY <1>2, <1>3
  <1> QED
    BY <1>3, <1>6, <1>8, <1>9, <1>10, <1>11 DEF Looking, from

\* On to the next loop.
LEMMA OnToNext ==
  ASSUME NEW q, NEW b, NEW g, NEW u, NEW again, NEW place, NEW next,
         Looking(q, b, g, place, u, again), place # "WRAP", Passed(next, q.zone, b, u)
  PROVE  Looking(q, b, g, next, u, again)
  BY DEF Looking

\* Each step of Next keeps to the way to every goal.
LEMMA NextStep == NextInv /\ [Next]_vars => NextInv'
  <1> SUFFICES ASSUME NextInv, [Next]_vars PROVE NextInv'
    OBVIOUS
  <1> DEFINE q == query
             z == query.zone
  <1>1. q \in Queries /\ Orderly(z) /\ q.from \in Nat
    BY QueryFacts DEF NextInv
  <1>2. CASE Normalize
    BY <1>2 DEF NextInv, Normalize, Loops
  <1>3. CASE Begin
    <2>1. pc = "parse" /\ t' = q.from + 1 /\ added = FALSE /\ added' = added /\ query' = q
          /\ yearLimit' = LastYear(q) /\ pc' \in {"rejected", "WRAP"}
      BY <1>3 DEF NextInv, Begin, LastYear
    <2>2. ASSUME NEW g \in Int, Goal(q, bits', g) PROVE Looking(q, bits', g, "WRAP", q.from + 1, FALSE)
      <3>1. Dated(z, q.from + 1) /\ q.from + 1 <= g
        BY <1>1, <2>2, QueryFacts DEF Goal
      <3>2. (q.from + 1)..((q.from + 1) - 1) = {} /\ q.from + 1 \in Int /\ q.from + 1 <= q.from + 1
        BY <1>1
      <3> QED
        BY <3>1, <3>2 DEF Looking, Passed
    <2> QED
      BY <1>1, <2>1, <2>2 DEF NextInv, Loops
  <1>4. CASE Wrap
    <2>1. /\ pc = "WRAP" /\ yearLimit = LastYear(q) /\ added \in BOOLEAN
          /\ UNCHANGED <<query, bits, added, yearLimit>>
      BY <1>4 DEF NextInv, Wrap, Loops
    <2>2. ASSUME NEW g \in Int, Goal(q, bits, g)
          PROVE  /\ Looking(q, bits, g, "WRAP", t, added)
                 /\ t \in Int /\ Dated(z, t) /\ \A w \in (q.from + 1)..(t - 1) : ~Hits(z, bits, w)
                 /\ YearOf(z, t) \in Nat /\ LastYear(q) \in Nat
      <3>1. Looking(q, bits, g, "WRAP", t, added)
        BY <2>1, <2>2 DEF NextInv, Loops
      <3>2. t \in Int /\ Dated(z, t) /\ \A w \in (q.from + 1)..(t - 1) : ~Hits(z, bits, w)
        BY <3>1 DEF Looking
      <3>3. YearOf(z, t) \in Nat /\ LastYear(q) \in Nat
        BY <1>1, <3>2, YearsInOrder, QueryFacts
      <3> QED
        BY <3>1, <3>2, <3>3
    <2>3. CASE YearOf(z, t) > yearLimit
      <3>1. ASSUME NEW g \in Int, Goal(q, bits, g), NEW w \in Searched(q) PROVE ~Hits(z, bits, w)
        <4>1. w \in Int /\ q.from + 1 <= w /\ YearOf(z, w) <= LastYear(q) /\ Dated(z, w)
          BY <1>1, SearchedDated
        <4>2. /\ t \in Int /\ Dated(z, t) /\ \A x \in (q.from + 1)..(t - 1) : ~Hits(z, bits, x)
              /\ YearOf(z, t) \in Nat /\ LastYear(q) \in Nat
          BY <2>2, <3>1
        <4>3. ASSUME t <= w PROVE FALSE
          <5>1. YearOf(z, t) <= YearOf(z, w) /\ YearOf(z, w) \in Nat
            BY <1>1, <4>1, <4>2, <4>3, YearsInOrder
          <5> QED
            BY <2>1, <2>3, <4>1, <4>2, <5>1
        <4>4. w \in (q.from + 1)..(t - 1)
          BY <1>1, <4>1, <4>2, <4>3
        <4> QED
          BY <4>2, <4>4
      <3>2. pc' = "done" /\ t' = 0
        BY <1>4, <2>3 DEF Wrap
      <3>3. \A g \in Int : Goal(q, bits, g) => Found(q, bits, g, 0)
        BY <3>1 DEF Found
      <3> QED
        BY <1>1, <2>1, <3>2, <3>3 DEF NextInv, Loops
    <2>4. CASE ~(YearOf(z, t) > yearLimit)
      <3>1. pc' = "month" /\ t' = t
        BY <1>4, <2>4 DEF Wrap
      <3>2. ASSUME NEW g \in Int, Goal(q, bits, g) PROVE Looking(q, bits, g, "month", t, added)
        <4>1. YearOf(z, t) <= LastYear(q)
          BY <2>1, <2>2, <2>4, <3>2
        <4> QED
          BY <2>2, <3>2, <4>1 DEF Looking, Passed
      <3> QED
        BY <1>1, <2>1, <3>1, <3>2 DEF NextInv, Loops
    <2> QED
      BY <2>3, <2>4
  <1>5. ASSUME pc \in Loops \ {"WRAP"}
        PROVE  /\ yearLimit = LastYear(q) /\ added \in BOOLEAN
               /\ \A g \in Int : Goal(q, bits, g) =>
                    /\ Looking(q, bits, g, pc, t, added)
                    /\ Ahead(z, bits, t, g) /\ Passed(pc, z, bits, t)
                    /\ added => Aligned(z, bits, t)
                    /\ ~added => DayBegins(z, DayOf(z, t) - DateOf(z, t).day + 1)
    <2>1. /\ yearLimit = LastYear(q) /\ added \in BOOLEAN
          /\ \A g \in Int : Goal(q, bits, g) => Looking(q, bits, g, pc, t, added)
      BY <1>5 DEF NextInv
    <2>2. ASSUME NEW g \in Int, Goal(q, bits, g)
          PROVE  /\ Ahead(z, bits, t, g) /\ Passed(pc, z, bits, t)
                 /\ added => Aligned(z, bits, t)
                 /\ ~added => DayBegins(z, DayOf(z, t) - DateOf(z, t).day + 1)
      <3>1. Looking(q, bits, g, pc, t, added)
        BY <2>1, <2>2
      <3> HIDE DEF q
      <3>2. /\ Ahead(q.zone, bits, t, g) /\ Passed(pc, q.zone, bits, t)
            /\ added => Aligned(q.zone, bits, t)
            /\ ~added => DayBegins(q.zone, DayOf(q.zone, t) - DateOf(q.zone, t).day + 1)
        BY <1>1, <1>5, <2>2, <3>1, OnTheWay
      <3> QED
        BY <3>2 DEF q
    <2> QED
      BY <2>1, <2>2
  <1>6. ASSUME NEW next \in Loops, pc \in Loops \ {"WRAP"}, pc' = next,
               \A g \in Int : Goal(q, bits, g) => Passed(next, z, bits, t),
               UNCHANGED <<query, bits, t, added, yearLimit>>
        PROVE  NextInv'
    <2>1. ASSUME NEW g \in Int, Goal(q, bits, g) PROVE Looking(q, bits, g, next, t, added)
      BY <1>5, <1>6, <2>1, OnToNext
    <2> QED
      BY <1>1, <1>5, <1>6, <2>1 DEF NextInv, Loops
  <1>7. ASSUME NEW i, NEW first, pc \in Loops \ {"WRAP"},
               \A g \in Int : Goal(q, bits, g) => Round(pc, i, first, z, bits, g, t, t'),
               added' = TRUE, pc' = IF Fields(z, t')[i] = first THEN "WRAP" ELSE pc,
               UNCHANGED <<query, bits, yearLimit>>
        PROVE  NextInv'
    <2> DEFINE v    == t'
               next == pc'
    <2>1. ASSUME NEW g \in Int, Goal(q, bits, g) PROVE Looking(q, bits, g, next, v, TRUE)
      <3>1. next = IF Fields(z, v)[i] = first THEN "WRAP" ELSE pc
        BY <1>7
      <3>2. Looking(q, bits, g, pc, t, added) /\ Round(pc, i, first, z, bits, g, t, v)
        BY <1>5, <1>7, <2>1
      <3> HIDE DEF v, next, q
      <3> QED
        BY <1>1, <1>7, <2>1, <3>1, <3>2, Advanced DEF q
    <2>2. next \in Loops
      BY <1>7 DEF Loops
    <2> QED
      BY <1>1, <1>5, <1>7, <2>1, <2>2 DEF NextInv, Loops
  <1>8. CASE MonthLoop
    <2> DEFINE s == From(MonthReset(z, t))
    <2>1. /\ pc = "month" /\ pc \in Loops \ {"WRAP"} /\ UNCHANGED <<query, bits, yearLimit>>
          /\ IF BitIn(z, bits, 5, t) THEN pc' = "day" /\ UNCHANGED <<t, added>>
             ELSE /\ t' = NextMonth(z, s) /\ added' = TRUE
                  /\ pc' = IF Fields(z, t')[5] = 1 THEN "WRAP" ELSE pc
      BY <1>8 DEF MonthLoop, Loop, Loops, Bit, BitIn
    <2>2. CASE BitIn(z, bits, 5, t)
      <3>1. \A g \in Int : Goal(q, bits, g) => Passed("day", z, bits, t)
        BY <1>5, <2>1, <2>2 DEF Passed
      <3> QED
        BY <1>6, <2>1, <2>2, <3>1 DEF Loops
    <2>3. CASE ~BitIn(z, bits, 5, t)
      <3>1. ASSUME NEW g \in Int, Goal(q, bits, g)
            PROVE  Round("month", 5, 1, z, bits, g, t, NextMonth(z, s))
        <4>1. Ahead(z, bits, t, g) /\ Passed("month", z, bits, t)
          BY <1>5, <2>1, <3>1
        <4>2. (s = MonthReset(z, t) /\ DayBegins(z, DayOf(z, t) - DateOf(z, t).day + 1)) \/ (s = t /\ Aligned(z, bits, t))
          BY <1>5, <2>1, <3>1 DEF From
        <4> HIDE DEF s
        <4> QED
          BY <1>1, <2>3, <4>1, <4>2, MonthRound
      <3> QED
        BY <1>7, <2>1, <2>3, <3>1
    <2> QED
      BY <2>2, <2>3
  <1>9. CASE DayLoop
    <2> DEFINE s == From(DayReset(z, t))
    <2>1. /\ pc = "day" /\ pc \in Loops \ {"WRAP"} /\ UNCHANGED <<query, bits, yearLimit>>
          /\ IF DayIn(z, bits, t) THEN pc' = "hour" /\ UNCHANGED <<t, added>>
             ELSE /\ t' = NextDay(z, s) /\ added' = TRUE
                  /\ pc' = IF Fields(z, t')[4] = 1 THEN "WRAP" ELSE pc
      BY <1>9 DEF DayLoop, Loop, Loops, DayMatches, DayIn, Bit, BitIn
    <2>2. CASE DayIn(z, bits, t)
      <3>1. \A g \in Int : Goal(q, bits, g) => Passed("hour", z, bits, t)
        BY <1>5, <2>1, <2>2 DEF Passed
      <3> QED
        BY <1>6, <2>1, <2>2, <3>1 DEF Loops
    <2>3. CASE ~DayIn(z, bits, t)
      <3>1. ASSUME NEW g \in Int, Goal(q, bits, g)
            PROVE  Round("day", 4, 1, z, bits, g, t, NextDay(z, s))
        <4>1. Ahead(z, bits, t, g) /\ Passed("day", z, bits, t)
          BY <1>5, <2>1, <3>1
        <4>2. (s = DayReset(z, t)) \/ (s = t /\ Aligned(z, bits, t))
          BY <1>5, <2>1, <3>1 DEF From
        <4> HIDE DEF s
        <4> QED
          BY <1>1, <2>3, <4>1, <4>2, DayRound
      <3> QED
        BY <1>7, <2>1, <2>3, <3>1
    <2> QED
      BY <2>2, <2>3
  <1>10. CASE HourLoop
    <2> DEFINE s == From(HourReset(z, t))
    <2>1. /\ pc = "hour" /\ pc \in Loops \ {"WRAP"} /\ UNCHANGED <<query, bits, yearLimit>>
          /\ IF BitIn(z, bits, 3, t) THEN pc' = "minute" /\ UNCHANGED <<t, added>>
             ELSE /\ t' = s + Hour /\ added' = TRUE
                  /\ pc' = IF Fields(z, t')[3] = 0 THEN "WRAP" ELSE pc
      BY <1>10 DEF HourLoop, Loop, Loops, Bit, BitIn
    <2>2. CASE BitIn(z, bits, 3, t)
      <3>1. \A g \in Int : Goal(q, bits, g) => Passed("minute", z, bits, t)
        BY <1>5, <2>1, <2>2 DEF Passed
      <3> QED
        BY <1>6, <2>1, <2>2, <3>1 DEF Loops
    <2>3. CASE ~BitIn(z, bits, 3, t)
      <3>1. ASSUME NEW g \in Int, Goal(q, bits, g)
            PROVE  Round("hour", 3, 0, z, bits, g, t, s + Hour)
        <4>1. Ahead(z, bits, t, g) /\ Passed("hour", z, bits, t)
          BY <1>5, <2>1, <3>1
        <4>2. (s = HourReset(z, t)) \/ (s = t /\ Aligned(z, bits, t))
          BY <1>5, <2>1, <3>1 DEF From
        <4> HIDE DEF s
        <4> QED
          BY <1>1, <2>3, <4>1, <4>2, HourRound
      <3> QED
        BY <1>7, <2>1, <2>3, <3>1
    <2> QED
      BY <2>2, <2>3
  <1>11. CASE MinuteLoop
    <2> DEFINE s == From(Truncated(t))
    <2>1. /\ pc = "minute" /\ pc \in Loops \ {"WRAP"} /\ UNCHANGED <<query, bits, yearLimit>>
          /\ IF BitIn(z, bits, 2, t) THEN pc' = "second" /\ UNCHANGED <<t, added>>
             ELSE /\ t' = s + SecondsPerMinute /\ added' = TRUE
                  /\ pc' = IF Fields(z, t')[2] = 0 THEN "WRAP" ELSE pc
      BY <1>11 DEF MinuteLoop, Loop, Loops, Bit, BitIn
    <2>2. CASE BitIn(z, bits, 2, t)
      <3>1. \A g \in Int : Goal(q, bits, g) => Passed("second", z, bits, t)
        BY <1>5, <2>1, <2>2 DEF Passed
      <3> QED
        BY <1>6, <2>1, <2>2, <3>1 DEF Loops
    <2>3. CASE ~BitIn(z, bits, 2, t)
      <3>1. ASSUME NEW g \in Int, Goal(q, bits, g)
            PROVE  Round("minute", 2, 0, z, bits, g, t, s + SecondsPerMinute)
        <4>1. Ahead(z, bits, t, g) /\ Passed("minute", z, bits, t)
          BY <1>5, <2>1, <3>1
        <4>2. (s = Truncated(t)) \/ (s = t /\ Aligned(z, bits, t))
          BY <1>5, <2>1, <3>1 DEF From
        <4> HIDE DEF s
        <4> QED
          BY <1>1, <2>3, <4>1, <4>2, MinuteRound
      <3> QED
        BY <1>7, <2>1, <2>3, <3>1
    <2> QED
      BY <2>2, <2>3
  <1>12. CASE SecondLoop
    <2>1. /\ pc = "second" /\ pc \in Loops \ {"WRAP"} /\ UNCHANGED <<query, bits, yearLimit>>
          /\ IF BitIn(z, bits, 1, t) THEN pc' = "done" /\ UNCHANGED <<t, added>>
             ELSE /\ t' = t + 1 /\ added' = TRUE
                  /\ pc' = IF Fields(z, t')[1] = 0 THEN "WRAP" ELSE pc
      <3>1. From(t) = t
        BY DEF From
      <3> QED
        BY <1>12, <3>1 DEF SecondLoop, Loop, Loops, Bit, BitIn
    <2>2. CASE BitIn(z, bits, 1, t)
      <3>1. ASSUME NEW g \in Int, Goal(q, bits, g) PROVE Found(q, bits, g, t)
        <4>1. Looking(q, bits, g, "second", t, added) /\ Passed("second", z, bits, t)
          BY <1>5, <2>1, <3>1
        <4>2. Hits(z, bits, t)
          BY <2>2, <4>1 DEF Passed, Hits
        <4>3. t \in Int /\ q.from + 1 <= t /\ t <= g /\ Dated(z, t) /\ YearOf(z, t) <= LastYear(q)
          BY <4>1, <4>2 DEF Looking, Hits
        <4>4. t \in Searched(q) /\ t # 0
          BY <1>1, <4>3, InCalendar
        <4> QED
          BY <4>2, <4>3, <4>4 DEF Found
      <3> QED
        BY <1>1, <2>1, <2>2, <3>1 DEF NextInv, Loops
    <2>3. CASE ~BitIn(z, bits, 1, t)
      <3>1. ASSUME NEW g \in Int, Goal(q, bits, g) PROVE Round("second", 1, 0, z, bits, g, t, t + 1)
        <4>1. Ahead(z, bits, t, g) /\ Passed("second", z, bits, t)
          BY <1>5, <2>1, <3>1
        <4> QED
          BY <1>1, <2>3, <4>1, SecondRound
      <3> QED
        BY <1>7, <2>1, <2>3, <3>1
    <2> QED
      BY <2>2, <2>3
  <1>13. CASE UNCHANGED vars
    BY <1>13 DEF NextInv, vars
  <1> QED
    BY <1>2, <1>3, <1>4, <1>8, <1>9, <1>10, <1>11, <1>12, <1>13 DEF Next

\* The midnights up to a day are found if none of them misleads.
LEMMA MidnightsFound ==
  ASSUME NEW q \in Queries, NEW day \in Int, Misleading(q, day) = {}
  PROVE  \A k \in FirstDay(q)..day : DayBegins(q.zone, k)
  <1> SUFFICES ASSUME NEW k \in FirstDay(q)..day PROVE DayBegins(q.zone, k)
    OBVIOUS
  <1>1. ~Skipped(q.zone, k) /\ ~Repeated(q.zone, k)
    BY DEF Misleading, FirstDay
  <1>2. Orderly(q.zone) /\ k \in Nat
    BY QueryFacts
  <1> QED
    BY <1>1, <1>2, MidnightFound

\* The last day is beyond the limit.
LEMMA LastGoal ==
  ASSUME NEW q \in Queries, NEW b, Misleading(q, LastDay) = {}
  PROVE  Goal(q, b, Date(q.zone, LastDay * Day))
  <1> DEFINE z    == q.zone
             d    == LastDay
             from == q.from + 1
             g    == Date(z, d * Day)
  <1>1. /\ Orderly(z) /\ from \in Int /\ Dated(z, from)
        /\ DayOf(z, from) \in Nat /\ DayOf(z, from) <= d /\ FirstDay(q) \in Nat /\ FirstDay(q) <= DayOf(z, from)
        /\ LastYear(q) \in Nat /\ Dates[Len(Dates) - 1].year > LastYear(q)
        /\ Len(Dates) \in Nat /\ Len(Dates) - 1 \in 1..Len(Dates) /\ YearOf(z, from) <= LastYear(q)
    BY QueryFacts
  <1>2. d \in Int /\ d + 1 = Len(Dates) - 1
    BY <1>1 DEF LastDay
  <1> HIDE DEF d
  <1>3. \A k \in FirstDay(q)..d : DayBegins(z, k)
    BY <1>2, MidnightsFound DEF d
  <1>4. g \in Int /\ Clock(z, g) = d * Day /\ \A u \in Int : u < g <=> DayOf(z, u) < d
    <2>1. d \in FirstDay(q)..d
      BY <1>1, <1>2
    <2> QED
      BY <1>3, <2>1 DEF DayBegins
  <1>5. DayOf(z, g) = d
    BY <1>2, <1>4, Units, UnitBegins DEF DayOf
  <1>6. Dated(z, g) /\ YearOf(z, g) > LastYear(q)
    BY <1>1, <1>2, <1>5 DEF Dated, YearOf, DateOf
  <1>7. DayOf(z, from) < d
    <2>1. ASSUME DayOf(z, from) = d PROVE FALSE
      <3>1. YearOf(z, from) = YearOf(z, g) /\ YearOf(z, from) \in Nat
        BY <1>1, <1>5, <2>1, YearsInOrder DEF YearOf, DateOf
      <3> QED
        BY <1>1, <1>6, <3>1
    <2> QED
      BY <1>1, <1>2, <2>1
  <1>8. from <= g
    BY <1>1, <1>4, <1>7
  <1> HIDE DEF g
  <1>9. Goal(q, b, g)
    BY <1>3, <1>4, <1>5, <1>6, <1>8 DEF Goal
  <1> QED
    BY <1>9 DEF g, d

\* Once parsed, the text is valid and the bits are those it means.
LEMMA BitsMeant ==
  ASSUME BitsInv, pc \in Loops \cup {"done"}
  PROVE  /\ query \in Queries
         /\ query.text.descriptor \in {Absent, "@yearly", "@monthly", "@weekly", "@daily", "@hourly"}
         /\ query.text.fields \in Seq(FieldTexts)
         /\ Cardinality(Optionals(query.text.options)) <= 1
         /\ ~Invalid(query.text) /\ bits = MeantBits(query.text)
  <1> DEFINE text == query.text
  <1>1. /\ query \in Queries
        /\ text.descriptor \in {Absent, "@yearly", "@monthly", "@weekly", "@daily", "@hourly"}
        /\ text.fields \in Seq(FieldTexts)
        /\ Cardinality(Optionals(text.options)) <= 1
    BY QueryAssumption DEF BitsInv
  <1>2. bits = ParsedBits(text) /\ bits # Error
    BY DEF BitsInv, Loops
  <1>3. ~Invalid(text) /\ bits = MeantBits(text)
    <2> HIDE DEF text
    <2>1. CASE text.descriptor = Absent
      BY <1>1, <1>2, <2>1, FieldsParsed
    <2>2. CASE text.descriptor # Absent
      BY <1>1, <1>2, <2>2, DescriptorParsed
    <2> QED
      BY <2>1, <2>2
  <1> QED
    BY <1>1, <1>3

\* The times within the limit that are due are those the bits let pass.
LEMMA DueHits ==
  ASSUME BitsInv, pc = "done", NEW u \in Searched(query)
  PROVE  /\ u \in Int /\ query.from + 1 <= u /\ Dated(query.zone, u)
         /\ u \in Due(query) <=> Hits(query.zone, bits, u)
  <1> DEFINE text == query.text
             z    == query.zone
             due  == Due(query)
  <1>1. /\ query \in Queries
        /\ text.descriptor \in {Absent, "@yearly", "@monthly", "@weekly", "@daily", "@hourly"}
        /\ text.fields \in Seq(FieldTexts)
        /\ Cardinality(Optionals(text.options)) <= 1
        /\ ~Invalid(text) /\ bits = MeantBits(text)
    BY BitsMeant
  <1>2. u \in Int /\ query.from + 1 <= u /\ Dated(z, u)
    BY <1>1, SearchedDated
  <1>3. Clock(z, u) \in Int
    BY <1>1, <1>2, QueryFacts, Offsets
  <1>4. u \in due <=> Matches(Meaning(text), z, u)
    BY DEF Due
  <1> HIDE DEF text, z, due
  <1>5. Hits(z, bits, u) <=> Matches(Meaning(text), z, u)
    BY <1>1, <1>2, <1>3, HitsAreMatches
  <1> QED
    BY <1>2, <1>4, <1>5 DEF z, due

\* spec.go:56-175: for any calendar, any spec, any time and any zone whose clock is
\* changed by hours, Next finds the first time after the given one that the text
\* of the spec means, and finds none only if there is none within the limit,
\* unless a midnight that is skipped or repeated misleads it.
THEOREM FirstMatchFound == Spec => []Exact
  <1> DEFINE Inv == BitsInv /\ NextInv
  <1>1. Init => Inv
    BY DEF Init, BitsInv, NextInv, Loops
  <1>2. Inv /\ [Next]_vars => Inv'
    BY BitsStep, NextStep
  <1>3. ASSUME Inv PROVE Exact
    <2> SUFFICES ASSUME pc = "done" PROVE Exact
      BY DEF Exact
    <2> DEFINE q   == query
               z   == query.zone
               due == Due(query)
    <2>1. q \in Queries /\ Orderly(z) /\ q.from \in Nat
      BY <1>3, QueryFacts DEF NextInv
    <2>2. ASSUME NEW u \in Searched(q)
          PROVE  /\ u \in Int /\ q.from + 1 <= u /\ Dated(z, u)
                 /\ u \in due <=> Hits(z, bits, u)
      BY <1>3, DueHits
    <2>3. \A u \in due : u \in Searched(q)
      BY DEF Due
    <2>4. \A g \in Int : Goal(q, bits, g) => Found(q, bits, g, t)
      BY <1>3 DEF NextInv
    <2> HIDE DEF due
    <2>5. ASSUME NEW u \in due, \A v \in due : u <= v, Misleading(q, DayOf(z, u)) = {}
          PROVE  t = u
      <3>1. u \in Searched(q) /\ u \in Int /\ q.from + 1 <= u /\ Dated(z, u) /\ Hits(z, bits, u)
        BY <2>2, <2>3
      <3>2. DayOf(z, u) \in Int
        BY <2>1, <3>1, DaysInOrder
      <3>3. Goal(q, bits, u)
        BY <2>1, <2>5, <3>1, <3>2, MidnightsFound DEF Goal
      <3>4. Found(q, bits, u, t)
        BY <2>4, <3>1, <3>3
      <3>5. t # 0
        BY <3>1, <3>4 DEF Found
      <3>6. t \in Searched(q) /\ Hits(z, bits, t) /\ t <= u
        BY <3>4, <3>5 DEF Found
      <3>7. t \in Int /\ u <= t
        BY <2>2, <2>5, <3>6
      <3> QED
        BY <3>1, <3>6, <3>7
    <2>6. ASSUME due = {}, Misleading(q, LastDay) = {} PROVE t = 0
      <3> DEFINE g == Date(z, LastDay * Day)
      <3>1. Goal(q, bits, g)
        BY <2>1, <2>6, LastGoal
      <3> HIDE DEF g
      <3>2. Found(q, bits, g, t)
        BY <2>4, <3>1 DEF Goal
      <3>3. ASSUME t # 0 PROVE FALSE
        BY <2>2, <2>6, <3>2, <3>3 DEF Found
      <3> QED
        BY <3>3
    <2> QED
      BY <2>5, <2>6 DEF Exact, due
  <1> QED
    BY <1>1, <1>2, <1>3, PTL DEF Spec

-----------------------------------------------------------------------------
(* Midnights that are skipped or repeated *)

\* A zone whose summer is more than an hour longer than a day.
Lasting(z) == Orderly(z) /\ (z.spring < z.fall => z.spring + Day + Hour < z.fall)

LEMMA LongDays ==
  /\ Hour \in Nat \ {0} /\ Day \in Nat \ {0} /\ Hour + Hour + Hour <= Day
  /\ HoursPerDay \in Nat /\ HoursPerDay > 2
  <1>1. HoursPerDay \in Nat /\ HoursPerDay >= 3 /\ HoursPerDay > 2
    BY Units, ClockAssumption
  <1>2. 3 * Hour <= HoursPerDay * Hour
    BY <1>1, Units
  <1> QED
    BY <1>1, <1>2, Units DEF Day

\* Days are whole hours.
LEMMA DayInHours ==
  ASSUME NEW k \in Int
  PROVE  /\ k * Day \in Int /\ k * HoursPerDay \in Int /\ k * Day = (k * HoursPerDay) * Hour
         /\ (k * Day) \div Day = k /\ (k * Day) % Day = 0
         /\ (k * Day) % Hour = 0 /\ (k + 1) * Day = k * Day + Day /\ (k - 1) * Day = k * Day - Day
  <1> DEFINE h == k * HoursPerDay
  <1>1. h \in Int /\ k * Day = h * Hour
    BY Units DEF Day
  <1>2. (k + 1) * Day = k * Day + Day /\ (k - 1) * Day = k * Day - Day
    BY Units
  <1> HIDE DEF h
  <1>3. (h * Hour) % Hour = 0
    BY <1>1, Units, UnitBegins
  <1>4. k * Day \in Int /\ (k * Day) \div Day = k /\ (k * Day) % Day = 0
    BY Units, UnitBegins
  <1> QED
    BY <1>1, <1>2, <1>3, <1>4 DEF h

\* The day of a time between two midnights of the clock.
LEMMA DayBetween ==
  ASSUME NEW z, NEW u, Clock(z, u) \in Int, NEW k \in Int,
         k * Day <= Clock(z, u), Clock(z, u) < k * Day + Day
  PROVE  DayOf(z, u) = k
  BY Units, Quotient DEF DayOf

\* A day that is not opened by a skipped midnight has one for Date to find.
LEMMA MidnightShown ==
  ASSUME NEW z, Orderly(z), NEW k \in Nat, ~Skipped(z, k), NEW v, v = Date(z, k * Day)
  PROVE  /\ v \in Int /\ Clock(z, v) = k * Day /\ DayOf(z, v) = k
         /\ AtDay(z, v) /\ AtHour(z, v) /\ AtMinute(z, v)
         /\ \A u \in Int : DayOf(z, u) < k => u < v
  <1> DEFINE c == k * Day
  <1>1. c \in Nat /\ c % Hour = 0 /\ c \div Day = k /\ c % Day = 0
    <2>1. c \in Nat
      BY Units
    <2> QED
      BY <2>1, DayInHours
  <1>2. z.spring < z.fall => c + Hour # Clock(z, z.spring)
    BY DEF Skipped
  <1> HIDE DEF c
  <1>3. v \in Int /\ Clock(z, v) = c
    BY <1>1, <1>2, DateFound DEF c
  <1>4. DayOf(z, v) = k /\ AtDay(z, v)
    BY <1>1, <1>3 DEF DayOf, AtDay
  <1>5. AtHour(z, v) /\ AtMinute(z, v)
    BY <1>3, <1>4, Offsets, StartsNested
  <1>6. ASSUME NEW u \in Int, DayOf(z, u) < k, v <= u PROVE FALSE
    <2>1. DayOf(z, v) <= DayOf(z, u) /\ DayOf(z, u) \in Int
      BY <1>3, <1>6, DaysInOrder
    <2> QED
      BY <1>4, <1>6, <2>1
  <1> QED
    BY <1>3, <1>4, <1>5, <1>6 DEF c

\* The clock about a skipped midnight: the last hour of the day before, and 1:00,
\* where the day begins.
LEMMA AboutSkipped ==
  ASSUME NEW z, Lasting(z), NEW k \in Nat \ {0}, Skipped(z, k)
  PROVE  LET s == z.spring
         IN  /\ s \in Int /\ z.fall \in Int /\ s + Day + Hour < z.fall /\ Winter(z) \in Int
             /\ -Day < Winter(z) /\ Winter(z) + Hour < Day
             /\ s + Winter(z) = k * Day
             /\ Clock(z, s) = k * Day + Hour /\ Clock(z, s - Hour) = k * Day - Hour
             /\ DayOf(z, s) = k /\ DayOf(z, s - Hour) = k - 1
             /\ AtHour(z, s) /\ AtMinute(z, s) /\ AtHour(z, s - Hour) /\ AtMinute(z, s - Hour)
             /\ \A u \in Int : u < s <=> DayOf(z, u) < k
             /\ \A u \in Int : s <= u /\ u < z.fall => Clock(z, u) = u + Winter(z) + Hour
             /\ \A u \in Int : z.fall <= u => Clock(z, u) > k * Day + Day + Hour
  <1> DEFINE s == z.spring
             f == z.fall
             w == Winter(z)
             m == k * Day
  <1>1. /\ s \in Int /\ f \in Int /\ s < f /\ s + Day + Hour < f /\ Orderly(z)
        /\ w \in Int /\ -Day < w /\ w + Hour < Day /\ Clock(z, s) = m + Hour /\ s % Hour = 0
    BY Offsets DEF Lasting, Orderly, Skipped
  <1>2. \A u \in Int : /\ Clock(z, u) = u + (IF s <= u /\ u < f THEN w + Hour ELSE w)
                       /\ Clock(z, u) \in Int
    BY <1>1, Offsets DEF Summer
  <1>3. m \in Int /\ Hour \in Nat \ {0} /\ Day \in Nat \ {0} /\ Hour + Hour + Hour <= Day
        /\ (k - 1) * Day = m - Day /\ (m - Hour) % Hour = 0
    <2>1. m \in Int /\ Hour \in Nat \ {0} /\ Day \in Nat \ {0} /\ Hour + Hour + Hour <= Day
          /\ (k - 1) * Day = m - Day /\ m % Hour = 0
      BY LongDays, DayInHours
    <2> HIDE DEF m
    <2>2. (m + (-1) * Hour) % Hour = m % Hour
      <3>1. -1 \in Int
        OBVIOUS
      <3> QED
        BY <2>1, <3>1, Shifted
    <2> QED
      BY <2>1, <2>2
  <1>4. s + w = m
    <2>1. Clock(z, s) = s + (w + Hour)
      BY <1>1, <1>2
    <2> HIDE DEF m, w, s
    <2> QED
      BY <1>1, <1>3, <2>1
  <1>5. s - Hour \in Int /\ s - 1 \in Int /\ Clock(z, s - Hour) = m - Hour /\ Clock(z, s - 1) = m - 1
    <2> HIDE DEF m, w, s, f
    <2>1. s - Hour \in Int /\ s - 1 \in Int /\ s - Hour < s /\ s - 1 < s
      BY <1>1, <1>3
    <2> QED
      BY <1>1, <1>2, <1>3, <1>4, <2>1
  <1>6. DayOf(z, s) = k
    <2>1. m <= m + Hour /\ m + Hour < m + Day /\ m + Hour \in Int
      <3> HIDE DEF m
      <3> QED
        BY <1>3
    <2> QED
      BY <1>1, <2>1, DayBetween
  <1>7. DayOf(z, s - Hour) = k - 1 /\ DayOf(z, s - 1) = k - 1
    <2>1. /\ m - Day <= m - Hour /\ m - Hour < (m - Day) + Day /\ m - Hour \in Int
          /\ m - Day <= m - 1 /\ m - 1 < (m - Day) + Day /\ m - 1 \in Int /\ k - 1 \in Int
      <3> HIDE DEF m
      <3> QED
        BY <1>3
    <2> HIDE DEF m, s
    <2> QED
      BY <1>3, <1>5, <2>1, DayBetween
  <1>8. AtHour(z, s) /\ AtMinute(z, s)
    BY <1>1, <1>2, HoursOfClock, StartsNested DEF AtHour
  <1>9. AtHour(z, s - Hour) /\ AtMinute(z, s - Hour)
    <2> HIDE DEF m, s
    <2>1. AtHour(z, s - Hour)
      BY <1>3, <1>5 DEF AtHour
    <2> QED
      BY <1>2, <1>5, <2>1, StartsNested
  <1>10. ASSUME NEW u \in Int PROVE u < s <=> DayOf(z, u) < k
    <2>1. CASE u < s
      <3>1. u <= s - 1
        BY <1>1, <2>1
      <3>2. DayOf(z, u) \in Int /\ DayOf(z, u) <= DayOf(z, s - 1)
        <4> HIDE DEF s
        <4> QED
          BY <1>1, <1>5, <3>1, DaysInOrder
      <3> HIDE DEF s
      <3> QED
        BY <1>7, <2>1, <3>2
    <2>2. CASE s <= u
      <3>1. DayOf(z, u) \in Int /\ k <= DayOf(z, u)
        BY <1>1, <1>6, <2>2, DaysInOrder
      <3> QED
        BY <1>1, <2>2, <3>1
    <2> QED
      BY <1>1, <2>1, <2>2
  <1>11. ASSUME NEW u \in Int, s <= u, u < f PROVE Clock(z, u) = u + w + Hour
    <2> HIDE DEF w
    <2> QED
      BY <1>1, <1>2, <1>3, <1>11
  <1>12. ASSUME NEW u \in Int, f <= u PROVE Clock(z, u) > m + Day + Hour
    <2> HIDE DEF w, m, s, f
    <2> QED
      BY <1>1, <1>2, <1>3, <1>4, <1>12
  <1> HIDE DEF m, w
  <1> QED
    BY <1>1, <1>4, <1>5, <1>6, <1>7, <1>8, <1>9, <1>10, <1>11, <1>12 DEF m, w

\* The hour of a time.
LEMMA HourShown ==
  ASSUME NEW z, NEW u, NEW j \in Int, NEW h \in 0..(HoursPerDay - 1), Clock(z, u) = j * Day + h * Hour
  PROVE  Fields(z, u)[3] = h
  <1> DEFINE n == HoursPerDay
             q == j * n + h
  <1>1. n \in Nat \ {0} /\ Hour \in Nat \ {0} /\ h \in Int /\ q \in Int
    BY Units
  <1>2. Clock(z, u) = q * Hour
    <2>1. j * Day = (j * n) * Hour
      BY DayInHours
    <2>2. (j * n) * Hour + h * Hour = (j * n + h) * Hour
      <3> DEFINE i == j * n
      <3>1. i \in Int
        BY <1>1
      <3> HIDE DEF i
      <3> QED
        BY <1>1, <3>1
    <2> QED
      BY <2>1, <2>2
  <1> HIDE DEF q
  <1>3. Clock(z, u) \div Hour = q
    BY <1>1, <1>2, UnitBegins
  <1>4. q % n = h
    <2>1. (h + j * n) % n = h % n
      BY <1>1, Shifted
    <2>2. h % n = h /\ q = h + j * n
      BY <1>1 DEF q
    <2> QED
      BY <2>1, <2>2
  <1> QED
    BY <1>3, <1>4 DEF Fields

\* After a skipped midnight the next one is there, and a day that starts on either
\* side of the skipped one leads to it.
LEMMA PastSkipped ==
  ASSUME NEW z, Lasting(z), NEW k \in Nat \ {0}, Skipped(z, k),
         NEW v, v = z.spring + (Day - Hour)
  PROVE  /\ v \in Int /\ z.spring < v /\ Clock(z, v) = (k + 1) * Day /\ DayOf(z, v) = k + 1
         /\ AtDay(z, v) /\ AtHour(z, v) /\ AtMinute(z, v)
         /\ \A u \in Int : u < v <=> DayOf(z, u) < k + 1
         /\ NextDay(z, z.spring) = v /\ NextDay(z, z.spring - Hour) = v
  <1> DEFINE s == z.spring
             w == Winter(z)
             m == k * Day
  <1>1. /\ s \in Int /\ z.fall \in Int /\ s + Day + Hour < z.fall /\ w \in Int
        /\ s + w = m /\ Clock(z, s) = m + Hour /\ Clock(z, s - Hour) = m - Hour
        /\ DayOf(z, s) = k
        /\ \A u \in Int : u < s <=> DayOf(z, u) < k
        /\ \A u \in Int : s <= u /\ u < z.fall => Clock(z, u) = u + w + Hour
        /\ \A u \in Int : z.fall <= u => Clock(z, u) > m + Day + Hour
        /\ Orderly(z)
    BY AboutSkipped DEF Lasting
  <1>2. /\ Hour \in Nat \ {0} /\ Day \in Nat \ {0} /\ Hour + Hour + Hour <= Day
        /\ HoursPerDay \in Nat /\ HoursPerDay > 2
    BY LongDays
  <1>3. m \in Int /\ m >= 0 /\ (k + 1) * Day = m + Day /\ m % Hour = 0
    <2>1. k * Day >= 0
      BY <1>2
    <2> QED
      BY <2>1, DayInHours
  <1> HIDE DEF m, w
  <1>4. v \in Int /\ s < v /\ v < z.fall /\ Clock(z, v) = m + Day
    <2> HIDE DEF s
    <2>1. v \in Int /\ s < v /\ v < z.fall /\ v = s + (Day - Hour)
      BY <1>1, <1>2 DEF s
    <2>2. Clock(z, v) = v + w + Hour
      BY <1>1, <2>1
    <2> QED
      BY <1>1, <1>2, <1>3, <2>1, <2>2
  <1>5. DayOf(z, v) = k + 1 /\ AtDay(z, v) /\ AtHour(z, v) /\ AtMinute(z, v)
    <2>1. ((k + 1) * Day) \div Day = k + 1 /\ ((k + 1) * Day) % Day = 0
      BY DayInHours
    <2>2. DayOf(z, v) = k + 1 /\ AtDay(z, v)
      BY <1>3, <1>4, <2>1 DEF DayOf, AtDay
    <2> QED
      BY <1>1, <1>4, <2>2, Offsets, StartsNested
  <1>6. ASSUME NEW u \in Int PROVE u < v <=> DayOf(z, u) < k + 1
    <2>1. CASE v <= u
      <3>1. DayOf(z, v) <= DayOf(z, u) /\ DayOf(z, u) \in Int
        BY <1>1, <1>4, <2>1, DaysInOrder
      <3> QED
        BY <1>4, <1>5, <2>1, <3>1
    <2>2. CASE u < s
      <3>1. DayOf(z, u) < k /\ DayOf(z, u) \in Int
        BY <1>1, <2>2, DaysInOrder
      <3> QED
        BY <1>1, <1>4, <2>2, <3>1
    <2>3. CASE s <= u /\ u < v
      <3>1. Clock(z, u) = u + w + Hour
        BY <1>1, <1>4, <2>3
      <3>2. m <= Clock(z, u) /\ Clock(z, u) < m + Day /\ Clock(z, u) \in Int
        <4> HIDE DEF s
        <4>1. v = s + (Day - Hour)
          BY DEF s
        <4> QED
          BY <1>1, <1>2, <1>3, <2>3, <3>1, <4>1
      <3>3. DayOf(z, u) = k
        BY <3>2, DayBetween DEF m
      <3> QED
        BY <2>3, <3>3
    <2> QED
      BY <1>1, <1>4, <2>1, <2>2, <2>3
  <1>7. ASSUME NEW c \in Int, c % Hour = 0, m < c, c <= m + Day + Hour
        PROVE  Date(z, c) \in Int /\ Clock(z, Date(z, c)) = c /\ Date(z, c) = s + (c - m) - Hour
    <2> DEFINE x == Date(z, c)
    <2>1. c \in Nat
      BY <1>2, <1>3, <1>7
    <2>2. c + Hour # Clock(z, z.spring)
      BY <1>1, <1>2, <1>3, <1>7
    <2>3. x \in Int /\ Clock(z, x) = c
      BY <1>1, <1>7, <2>1, <2>2, DateFound
    <2> HIDE DEF x
    <2>4. x < z.fall
      <3>1. ASSUME z.fall <= x PROVE FALSE
        <4>1. Clock(z, x) > m + Day + Hour
          BY <1>1, <2>3, <3>1
        <4> QED
          BY <1>2, <1>3, <1>7, <2>3, <4>1
      <3> QED
        BY <1>1, <2>3, <3>1
    <2>5. s <= x
      <3>1. k \in Int /\ k * Day = m
        BY DEF m
      <3>2. ASSUME x < s PROVE FALSE
        <4>1. DayOf(z, x) < k
          BY <1>1, <2>3, <3>2
        <4>2. c \div Day < k
          BY <2>3, <4>1 DEF DayOf
        <4>3. m \div Day = k
          BY <3>1, DayInHours
        <4>4. m \div Day <= c \div Day
          BY <1>2, <1>3, <1>7, UnitsInOrder
        <4>5. c \div Day \in Int
          BY <1>2, <1>7, Floor
        <4> QED
          BY <4>2, <4>3, <4>4, <4>5
      <3> QED
        BY <1>1, <2>3, <3>2
    <2>6. c = x + w + Hour
      BY <1>1, <2>3, <2>4, <2>5
    <2>7. x = s + (c - m) - Hour
      <3> HIDE DEF s
      <3> QED
        BY <1>1, <1>2, <1>3, <2>3, <2>6
    <2> QED
      BY <2>3, <2>7 DEF x
  <1>8. NextDay(z, s) = v
    <2> DEFINE c == m + Day + Hour
               x == Date(z, c)
    <2>1. c \in Int /\ Clock(z, s) + Day = c /\ c = (k + 1) * Day + 1 * Hour
      BY <1>1, <1>2, <1>3
    <2>2. c % Hour = 0
      <3>1. ((k + 1) * Day) % Hour = 0 /\ (k + 1) * Day \in Int
        BY DayInHours
      <3> HIDE DEF c
      <3> QED
        BY <1>2, <2>1, <3>1, Shifted
    <2>3. x \in Int /\ Clock(z, x) = c /\ x = s + (c - m) - Hour
      BY <1>2, <1>3, <1>7, <2>1, <2>2
    <2>4. Fields(z, x)[3] = 1
      <3>1. 1 \in 0..(HoursPerDay - 1) /\ k + 1 \in Int
        BY <1>2
      <3> HIDE DEF x, c
      <3> QED
        BY <2>1, <2>3, <3>1, HourShown
    <2>5. ~(1 > HoursPerDay \div 2) /\ x - 1 * Hour = v
      <3>1. ~(1 > HoursPerDay \div 2)
        BY <1>2
      <3> HIDE DEF x, s
      <3>2. v = s + (Day - Hour)
        BY DEF s
      <3> QED
        BY <1>1, <1>2, <1>3, <2>3, <3>1, <3>2
    <2> HIDE DEF c, s, x
    <2> QED
      BY <2>1, <2>4, <2>5 DEF NextDay, x
  <1>9. NextDay(z, s - Hour) = v
    <2> DEFINE c == m + Day - Hour
               x == Date(z, c)
               h == HoursPerDay - 1
    <2>1. c \in Int /\ Clock(z, s - Hour) + Day = c /\ c = (k + 1) * Day + (-1) * Hour
      BY <1>1, <1>2, <1>3
    <2>2. c % Hour = 0
      <3>1. ((k + 1) * Day) % Hour = 0 /\ (k + 1) * Day \in Int /\ -1 \in Int
        BY DayInHours
      <3> HIDE DEF c
      <3> QED
        BY <1>2, <2>1, <3>1, Shifted
    <2>3. x \in Int /\ Clock(z, x) = c /\ x = s + (c - m) - Hour
      BY <1>2, <1>3, <1>7, <2>1, <2>2
    <2>4. Fields(z, x)[3] = h
      <3>1. h \in 0..(HoursPerDay - 1)
        BY <1>2
      <3>2. h * Hour = Day - Hour
        BY <1>2 DEF Day
      <3>3. c = k * Day + h * Hour
        BY <1>2, <1>3, <3>2 DEF m
      <3> HIDE DEF x, c, h
      <3> QED
        BY <2>3, <3>1, <3>3, HourShown
    <2>5. h > HoursPerDay \div 2 /\ x + (HoursPerDay - h) * Hour = v
      <3>1. h > HoursPerDay \div 2 /\ HoursPerDay - h = 1
        BY <1>2
      <3> HIDE DEF x, s, h
      <3>2. v = s + (Day - Hour)
        BY DEF s
      <3>3. x + 1 * Hour = v
        BY <1>1, <1>2, <1>3, <2>3, <3>2
      <3> QED
        BY <3>1, <3>3
    <2> HIDE DEF c, s, x, h
    <2> QED
      BY <2>1, <2>4, <2>5 DEF NextDay, x
  <1> QED
    BY <1>3, <1>4, <1>5, <1>6, <1>8, <1>9

\* What Date gives for a skipped midnight is the hour before it or the one after,
\* and NextDay, which looks at the hour then, gives the other one.
LEMMA ToSkipped ==
  ASSUME NEW z, Lasting(z), NEW k \in Nat \ {0}, Skipped(z, k)
  PROVE  /\ Date(z, k * Day) \in {z.spring - Hour, z.spring}
         /\ \A x : Clock(z, x) = (k - 1) * Day => NextDay(z, x) \in {z.spring - Hour, z.spring}
  <1> DEFINE s == z.spring
             w == Winter(z)
             m == k * Day
             d == Date(z, m)
             h == HoursPerDay - 1
  <1>1. /\ s \in Int /\ z.fall \in Int /\ s + Day + Hour < z.fall /\ w \in Int
        /\ -Day < w /\ w + Hour < Day
        /\ s + w = m /\ Clock(z, s) = m + Hour /\ Clock(z, s - Hour) = m - Hour
        /\ \A u \in Int : OffsetAt(z, u) = IF s <= u /\ u < z.fall THEN w + Hour ELSE w
    BY AboutSkipped, Offsets DEF Lasting, Summer
  <1>2. /\ Hour \in Nat \ {0} /\ Day \in Nat \ {0} /\ Hour + Hour + Hour <= Day
        /\ HoursPerDay \in Nat /\ HoursPerDay > 2
    BY LongDays
  <1>3. m \in Int /\ m >= 0 /\ (k - 1) * Day = m - Day
    <2>1. k * Day >= 0
      BY <1>2
    <2> QED
      BY <2>1, DayInHours
  <1> HIDE DEF m, w
  <1>4. d \in {s - Hour, s}
    <2>1. CASE w >= 0
      <3>1. s <= m /\ m < z.fall
        <4> HIDE DEF s
        <4> QED
          BY <1>1, <1>2, <1>3, <2>1
      <3>2. OffsetAt(z, m) = w + Hour /\ OffsetAt(z, s - 1) = w
        <4>1. s - 1 \in Int /\ ~(s <= s - 1)
          BY <1>1
        <4> QED
          BY <1>1, <1>3, <3>1, <4>1
      <3>3. OffsetAt(z, m) # 0 /\ m - OffsetAt(z, m) < s /\ m >= z.spring /\ ~(m >= z.fall)
        BY <1>1, <1>2, <1>3, <2>1, <3>1, <3>2
      <3>4. d = m - OffsetAt(z, s - 1)
        BY <3>3 DEF Date
      <3>5. m - w = s
        <4> HIDE DEF s
        <4> QED
          BY <1>1, <1>3
      <3> QED
        BY <3>2, <3>4, <3>5
    <2>2. CASE w < 0
      <3>1. m < s /\ 0 < s /\ m - w = s
        <4> HIDE DEF s
        <4> QED
          BY <1>1, <1>2, <1>3, <2>2
      <3>2. OffsetAt(z, m) = w /\ OffsetAt(z, s) = w + Hour
        <4>1. s < z.fall /\ ~(s <= m)
          BY <1>1, <1>2, <1>3, <3>1
        <4> QED
          BY <1>1, <1>3, <4>1
      <3>3. /\ OffsetAt(z, m) # 0 /\ m - OffsetAt(z, m) = s /\ ~(m >= z.spring) /\ ~(m >= z.fall)
            /\ ~(s < -Day) /\ s # -1 /\ m < z.spring
        BY <1>1, <1>2, <1>3, <2>2, <3>1, <3>2
      <3>4. d = m - OffsetAt(z, s)
        BY <3>3, <1>1 DEF Date
      <3>5. m - (w + Hour) = s - Hour
        <4> HIDE DEF s
        <4> QED
          BY <1>1, <1>2, <1>3
      <3> QED
        BY <3>2, <3>4, <3>5
    <2> QED
      BY <1>1, <2>1, <2>2
  <1>5. Fields(z, s)[3] = 1
    <2>1. 1 \in 0..(HoursPerDay - 1) /\ k \in Int /\ Clock(z, s) = k * Day + 1 * Hour
      BY <1>1, <1>2 DEF m
    <2> HIDE DEF s
    <2> QED
      BY <2>1, HourShown
  <1>6. Fields(z, s - Hour)[3] = h
    <2>1. h \in 0..(HoursPerDay - 1) /\ k - 1 \in Int
      BY <1>2
    <2>2. h * Hour = Day - Hour
      BY <1>2 DEF Day
    <2>3. Clock(z, s - Hour) = (k - 1) * Day + h * Hour
      BY <1>1, <1>2, <1>3, <2>2
    <2> HIDE DEF s, h
    <2> QED
      BY <2>1, <2>3, HourShown
  <1>7. ASSUME NEW x, Clock(z, x) = (k - 1) * Day PROVE NextDay(z, x) \in {s - Hour, s}
    <2>1. Clock(z, x) + Day = m
      BY <1>2, <1>3, <1>7
    <2>2. NextDay(z, x) = IF Fields(z, d)[3] > HoursPerDay \div 2
                          THEN d + (HoursPerDay - Fields(z, d)[3]) * Hour
                          ELSE d - Fields(z, d)[3] * Hour
      BY <2>1 DEF NextDay
    <2>3. h > HoursPerDay \div 2 /\ HoursPerDay - h = 1 /\ ~(1 > HoursPerDay \div 2)
      BY <1>2
    <2>4. (s - Hour) + 1 * Hour = s /\ s - 1 * Hour = s - Hour
      BY <1>1, <1>2
    <2> HIDE DEF d, h, s
    <2> QED
      BY <1>4, <1>5, <1>6, <2>2, <2>3, <2>4
  <1> HIDE DEF d
  <1> QED
    BY <1>4, <1>7 DEF d, m

\* From one second to the next: a day begins with midnight or, if that is skipped,
\* with the change of the clock.
LEMMA NextSecondAlways ==
  ASSUME NEW z, Orderly(z), NEW u \in Int
  PROVE  /\ SameMinute(z, u, u + 1) \/ AtMinute(z, u + 1)
         /\ SameHour(z, u, u + 1) \/ AtHour(z, u + 1)
         /\ \/ SameDay(z, u, u + 1)
            \/ /\ DayOf(z, u + 1) = DayOf(z, u) + 1
               /\ AtDay(z, u + 1) \/ (u + 1 = z.spring /\ Skipped(z, DayOf(z, u + 1)))
  <1> DEFINE v == u + 1
             c == Clock(z, u)
             e == Clock(z, v)
             q == DayOf(z, u)
             m == q * Day
  <1>1. v \in Int /\ u <= v /\ u < v
    OBVIOUS
  <1>2. SameMinute(z, u, v) \/ AtMinute(z, v)
    <2>1. (u + 1) \div SecondsPerMinute = u \div SecondsPerMinute \/ (u + 1) % SecondsPerMinute = 0
      BY Units, NextUnit
    <2> QED
      BY <1>1, <2>1, HourUnchanged, HoursOfClock DEF AtMinute
  <1>3. SameHour(z, u, v) \/ AtHour(z, v)
    <2>1. (u + 1) \div Hour = u \div Hour \/ (u + 1) % Hour = 0
      BY Units, NextUnit
    <2> QED
      BY <1>1, <2>1, HourUnchanged, HoursOfClock DEF AtHour
  <1>4. /\ c \in Int /\ e \in Int /\ Winter(z) \in Int
        /\ c = u + (IF Summer(z, u) THEN Winter(z) + Hour ELSE Winter(z))
        /\ e = v + (IF Summer(z, v) THEN Winter(z) + Hour ELSE Winter(z))
    BY <1>1, Offsets
  <1>5. /\ Hour \in Nat \ {0} /\ Day \in Nat \ {0} /\ Hour + Hour + Hour <= Day
    BY LongDays
  <1>6. q \in Int /\ m \in Int /\ m <= c /\ c < m + Day /\ (q + 1) * Day = m + Day /\ m % Hour = 0
        /\ (m + Day) % Hour = 0 /\ (m + Day) % Day = 0
    <2>1. q \in Int /\ m <= c /\ c < m + Day
      BY <1>4, <1>5, Floor DEF DayOf
    <2> HIDE DEF q
    <2>2. q + 1 \in Int /\ m \in Int /\ m % Hour = 0 /\ (q + 1) * Day = m + Day
      BY <2>1, DayInHours
    <2>3. ((q + 1) * Day) % Hour = 0 /\ ((q + 1) * Day) % Day = 0
      BY <2>2, DayInHours
    <2> QED
      BY <2>1, <2>2, <2>3
  <1> HIDE DEF v, m, q
  <1>7. ASSUME m <= e, e < m + Day PROVE SameDay(z, u, v)
    <2>1. DayOf(z, v) = q
      BY <1>4, <1>6, <1>7, DayBetween DEF m
    <2> QED
      BY <2>1 DEF SameDay, q
  <1>8. ASSUME m + Day <= e, e < m + Day + Day PROVE DayOf(z, v) = q + 1
    <2>1. q + 1 \in Int /\ (q + 1) * Day <= e /\ e < (q + 1) * Day + Day
      BY <1>6, <1>8
    <2> QED
      BY <1>4, <2>1, DayBetween
  <1>9. CASE e = c + 1
    <2>1. CASE e < m + Day
      <3>1. m <= e
        BY <1>4, <1>6, <1>9
      <3> QED
        BY <1>2, <1>3, <1>7, <2>1, <3>1 DEF v
    <2>2. CASE e = m + Day
      <3>1. AtDay(z, v)
        BY <1>6, <2>2 DEF AtDay
      <3>2. DayOf(z, v) = q + 1
        BY <1>5, <1>6, <1>8, <2>2
      <3> QED
        BY <1>2, <1>3, <3>1, <3>2 DEF v, q
    <2> QED
      BY <1>4, <1>5, <1>6, <1>9, <2>1, <2>2
  <1>10. CASE ~Summer(z, u) /\ Summer(z, v)
    <2>1. v = z.spring /\ z.spring < z.fall /\ v % Hour = 0
      BY <1>1, <1>10 DEF Summer, Orderly, v
    <2>2. e = (c + 1) + Hour /\ c + 1 \in Int
      <3> QED
        BY <1>1, <1>4, <1>5, <1>10 DEF v
    <2>3. e % Hour = 0
      BY <1>1, <2>1, HoursOfClock
    <2>4. (c + 1) % Hour = 0
      <3> DEFINE a == c + 1
      <3>1. (a + 1 * Hour) % Hour = a % Hour
        <4>1. 1 \in Int /\ a \in Int
          BY <2>2
        <4> HIDE DEF a
        <4> QED
          BY <1>5, <4>1, Shifted
      <3>2. a + 1 * Hour = e
        BY <1>5, <2>2
      <3> QED
        BY <2>3, <3>1, <3>2
    <2>5. CASE c + 1 = m + Day
      <3>1. DayOf(z, v) = q + 1
        BY <1>4, <1>5, <1>6, <1>8, <2>2, <2>5
      <3>2. Skipped(z, q + 1)
        BY <1>6, <2>1, <2>2, <2>5 DEF Skipped
      <3> QED
        BY <1>2, <1>3, <2>1, <3>1, <3>2 DEF v, q
    <2>6. CASE c + 1 < m + Day
      <3>1. e <= m + Day
        <4>1. m + Day \in Int
          BY <1>5, <1>6
        <4> QED
          BY <1>6, <2>2, <2>4, <2>6, <4>1, FullHours
      <3>2. CASE e < m + Day
        BY <1>2, <1>3, <1>4, <1>5, <1>6, <1>7, <2>2, <3>2 DEF v
      <3>3. CASE e = m + Day
        <4>1. AtDay(z, v)
          BY <1>6, <3>3 DEF AtDay
        <4>2. DayOf(z, v) = q + 1
          BY <1>5, <1>6, <1>8, <3>3
        <4> QED
          BY <1>2, <1>3, <4>1, <4>2 DEF v, q
      <3> QED
        BY <1>4, <1>5, <1>6, <3>1, <3>2, <3>3
    <2> QED
      BY <1>4, <1>5, <1>6, <2>5, <2>6
  <1>11. CASE Summer(z, u) /\ ~Summer(z, v)
    <2>1. e <= c
      BY <1>1, <1>4, <1>5, <1>11 DEF v
    <2>2. DayOf(z, v) <= q
      BY <1>4, <1>5, <2>1, UnitsInOrder DEF DayOf, q
    <2>3. q <= DayOf(z, v) /\ DayOf(z, v) \in Int
      BY <1>1, DaysInOrder DEF q
    <2>4. SameDay(z, u, v)
      BY <1>6, <2>2, <2>3 DEF SameDay, q
    <2> QED
      BY <1>2, <1>3, <2>4 DEF v
  <1>12. CASE Summer(z, u) <=> Summer(z, v)
    <2>1. e = c + 1
      BY <1>1, <1>4, <1>5, <1>12 DEF v
    <2> QED
      BY <1>9, <2>1
  <1> QED
    BY <1>10, <1>11, <1>12

-----------------------------------------------------------------------------
(* Next where midnights mislead it *)

\* The days whose midnights may mislead Next, and that none which is skipped is
\* the first of a month.
Bad(q)    == Misleading(q, LastDay)
Spared(q) == \A k \in Bad(q) : Skipped(q.zone, k) => Dates[k + 1].day # 1

\* The hour before a skipped midnight or the one after: where NextDay leads.
Beside(z, u) ==
  \/ u = z.spring /\ Skipped(z, DayOf(z, u))
  \/ u = z.spring - Hour /\ Skipped(z, DayOf(z, u) + 1)

\* The loop for the hours came to a day that need not match, because that day
\* does not begin with hour 0.  The loops below will find a time of that day.
Astray(place, z, b, u) ==
  /\ Skipped(z, DayOf(z, u))
  /\ \/ place = "hour" /\ AtHour(z, u)
     \/ place = "minute" /\ AtMinute(z, u) /\ \E m \in b[2] : Fields(z, u)[2] <= m /\ m \in 0..(MinutesPerHour - 1)
     \/ place = "second" /\ \E m \in b[1] : Fields(z, u)[1] <= m /\ m \in 0..(SecondsPerMinute - 1)

\* Once a field was incremented, what lies below a field that does not match is at
\* its first value, but for a skipped midnight.
Settled(place, z, b, u) ==
  /\ BitIn(z, b, 5, u) \/ AtMonth(z, u)
  /\ place \in {"WRAP", "month", "day"} => DayIn(z, b, u) \/ AtDay(z, u) \/ Beside(z, u)
  /\ BitIn(z, b, 3, u) \/ AtHour(z, u)
  /\ BitIn(z, b, 2, u) \/ AtMinute(z, u)

\* The fields that were found matched, but for the day where Next is astray.
Came(place, z, b, u) ==
  /\ place \in {"day", "hour", "minute", "second"} => BitIn(z, b, 5, u)
  /\ place \in {"hour", "minute", "second"} => DayIn(z, b, u) \/ Astray(place, z, b, u)
  /\ place \in {"minute", "second"} => BitIn(z, b, 3, u)
  /\ place = "second" => BitIn(z, b, 2, u)

\* Next is not before the given time, or it is in an hour or on a day of that time
\* which does not match.
Since(place, q, b, u) ==
  LET z == q.zone
  IN  \/ q.from + 1 <= u
      \/ SameHour(z, u, q.from + 1) /\ ~BitIn(z, b, 3, u)
      \/ SameDay(z, u, q.from + 1) /\ ~DayIn(z, b, u) /\ place \in {"WRAP", "month", "day"}

\* A time that Next has to find, or one before it.
Aim(q, b, g) == g \in Searched(q) /\ Hits(q.zone, b, g) /\ DayOf(q.zone, g) \notin Bad(q)

\* Next is at the time u and at a label or loop, and has passed no aim.
Kept(place, q, b, u, again) ==
  LET z == q.zone
  IN  /\ u \in Int /\ Dated(z, u) /\ FirstDay(q) <= DayOf(z, u)
      /\ Since(place, q, b, u)
      /\ IF again THEN Settled(place, z, b, u) ELSE u = q.from + 1
      /\ Came(place, z, b, u)
      /\ place # "WRAP" => YearOf(z, u) <= LastYear(q)
      /\ \A g : Aim(q, b, g) => u <= g

\* What Next has found.
Ended(q, b, u) ==
  /\ u # 0 =>
       /\ u \in Int /\ Dated(q.zone, u)
       /\ BitIn(q.zone, b, 1, u) /\ BitIn(q.zone, b, 2, u) /\ BitIn(q.zone, b, 3, u)
       /\ (u \in Searched(q) /\ Hits(q.zone, b, u)) \/ DayOf(q.zone, u) \in Bad(q)
  /\ \A g : Aim(q, b, g) => u # 0 /\ u <= g

KeptInv ==
  /\ pc = "second" => bits[2] # {}
  /\ pc = "done" /\ t # 0 => bits[1] # {} /\ bits[2] # {}
  /\ Spared(query) /\ bits[1] # {} /\ bits[2] # {} =>
       /\ pc \in Loops => Kept(pc, query, bits, t, added)
       /\ pc = "done" => Ended(query, bits, t)

\* A zone of a query.
LEMMA ZoneFacts ==
  ASSUME NEW q \in Queries
  PROVE  Lasting(q.zone) /\ Orderly(q.zone) /\ q.from + 1 \in Int /\ LastDay \in Int /\ FirstDay(q) \in Nat
  <1>1. /\ Orderly(q.zone) /\ q.from \in Nat /\ FirstDay(q) \in Nat /\ Len(Dates) \in Nat
    BY QueryFacts
  <1>2. q.zone.spring < q.zone.fall => q.zone.spring + Day + Hour < q.zone.fall
    BY ChangesAssumption
  <1> QED
    BY <1>1, <1>2 DEF Lasting, LastDay

\* A day whose midnight is skipped goes on with the month and the year of the day
\* before.
LEMMA SkippedDay ==
  ASSUME NEW q \in Queries, Spared(q), NEW k \in Int, FirstDay(q) <= k, k <= LastDay,
         Skipped(q.zone, k)
  PROVE  /\ k \in Nat \ {0} /\ k \in Bad(q) /\ k + 1 \in 1..Len(Dates) /\ k \in 1..Len(Dates)
         /\ Dates[k + 1].day # 1 /\ Dates[k + 1].month = Dates[k].month
         /\ Dates[k + 1].year = Dates[k].year
  <1>1. FirstDay(q) \in Nat /\ LastDay \in Int /\ Len(Dates) \in Nat /\ LastDay = Len(Dates) - 2
    BY QueryFacts, ZoneFacts DEF LastDay
  <1>2. k \in Nat /\ k + 1 \in 1..Len(Dates) /\ k <= Len(Dates)
    BY <1>1
  <1>3. k \in Bad(q)
    BY <1>1 DEF Bad, Misleading, FirstDay
  <1>4. Dates[k + 1].day # 1
    BY <1>3 DEF Spared
  <1>5. k # 0
    <2>1. ASSUME k = 0 PROVE FALSE
      <3>1. 1 \in 1..Len(Dates) /\ k + 1 = 1
        BY <1>2, <2>1
      <3>2. Dates[1].day \in 1..(Word - 2) /\ Dates[1].day <= 1
        BY <3>1, DateFacts
      <3>3. Dates[1].day = 1
        BY <3>2, ParserAssumption
      <3> QED
        BY <1>4, <3>1, <3>3
    <2> QED
      BY <2>1
  <1>6. k \in 1..Len(Dates)
    BY <1>1, <1>2, <1>5
  <1>7. Dates[k + 1].month = Dates[k].month /\ Dates[k + 1].year = Dates[k].year
    BY <1>2, <1>4, <1>6, NextDate
  <1> QED
    BY <1>2, <1>3, <1>4, <1>5, <1>6, <1>7

\* A day that is not bad begins where Date says, and a midnight that is not the
\* first instant of its day is bad.
LEMMA NotBad ==
  ASSUME NEW q \in Queries, NEW k \in Int, FirstDay(q) <= k, k <= LastDay
  PROVE  /\ k \notin Bad(q) => DayBegins(q.zone, k) /\ ~Skipped(q.zone, k)
         /\ k \in Bad(q) <=> Skipped(q.zone, k) \/ Repeated(q.zone, k)
  <1>1. Orderly(q.zone) /\ FirstDay(q) \in Nat /\ LastDay \in Int
    BY ZoneFacts
  <1>2. k \in Bad(q) <=> Skipped(q.zone, k) \/ Repeated(q.zone, k)
    BY <1>1 DEF Bad, Misleading, FirstDay
  <1> QED
    BY <1>1, <1>2, MidnightFound

\* Aims, and where they are in the calendar.
LEMMA AimFacts ==
  ASSUME NEW q \in Queries, NEW b, NEW g, Aim(q, b, g)
  PROVE  /\ g \in Int /\ q.from + 1 <= g /\ Dated(q.zone, g) /\ YearOf(q.zone, g) <= LastYear(q)
         /\ Hits(q.zone, b, g) /\ DayOf(q.zone, g) \in Int
         /\ DayBegins(q.zone, DayOf(q.zone, g))
         /\ FirstDay(q) <= DayOf(q.zone, g) /\ DayOf(q.zone, g) <= LastDay
         /\ DayOf(q.zone, g) \notin Bad(q)
  <1> DEFINE z == q.zone
             d == DayOf(z, g)
  <1>1. /\ g \in Int /\ q.from + 1 <= g /\ Dated(z, g) /\ YearOf(z, g) <= LastYear(q)
        /\ Hits(z, b, g) /\ d \notin Bad(q)
    BY SearchedDated DEF Aim
  <1>2. /\ Orderly(z) /\ q.from + 1 \in Int /\ FirstDay(q) <= DayOf(z, q.from + 1)
        /\ Len(Dates) \in Nat /\ Len(Dates) - 1 \in 1..Len(Dates)
        /\ Dates[Len(Dates) - 1].year > LastYear(q) /\ LastYear(q) \in Nat /\ FirstDay(q) \in Nat
    BY QueryFacts, ZoneFacts
  <1>3. d \in Int /\ DayOf(z, q.from + 1) \in Int /\ DayOf(z, q.from + 1) <= d
    BY <1>1, <1>2, DaysInOrder
  <1>4. d <= LastDay
    <2>1. d + 1 \in 1..Len(Dates) /\ YearOf(z, g) = Dates[d + 1].year
      BY <1>1 DEF Dated, YearOf, DateOf
    <2> HIDE DEF d
    <2>2. ASSUME Len(Dates) - 1 <= d + 1 PROVE FALSE
      <3>1. Dates[Len(Dates) - 1].year <= Dates[d + 1].year
        BY <1>2, <2>1, <2>2, DatesAssumption
      <3>2. Dates[Len(Dates) - 1].year \in Nat /\ Dates[d + 1].year \in Nat
        BY <1>2, <2>1, DateFacts
      <3> QED
        BY <1>1, <1>2, <2>1, <3>1, <3>2
    <2> QED
      BY <1>2, <1>3, <2>2 DEF LastDay
  <1>5. FirstDay(q) <= d
    BY <1>2, <1>3
  <1>6. DayBegins(z, d)
    BY <1>1, <1>3, <1>4, <1>5, NotBad
  <1> QED
    BY <1>1, <1>3, <1>4, <1>5, <1>6

\* A time that is still searched is before the last day, and so is the end of its
\* month.
LEMMA WithinLimit ==
  ASSUME NEW q \in Queries, NEW u \in Int, Dated(q.zone, u), YearOf(q.zone, u) <= LastYear(q),
         FirstDay(q) <= DayOf(q.zone, u)
  PROVE  /\ DayOf(q.zone, u) \in Nat /\ DayOf(q.zone, u) < LastDay
         /\ MonthEnd(q.zone, u) \in Int /\ MonthEnd(q.zone, u) <= LastDay
         /\ DayOf(q.zone, u) + 2 \in 1..Len(Dates)
  <1> DEFINE z    == q.zone
             d    == DayOf(z, u)
             next == MonthEnd(z, u)
             k    == d + 1
             e    == next
             last == Len(Dates)
  <1>1. /\ Orderly(z) /\ last \in Nat /\ last - 1 \in 1..last /\ Dates[last - 1].year > LastYear(q)
        /\ LastYear(q) \in Nat /\ FirstDay(q) \in Nat /\ LastDay = last - 2
    BY QueryFacts DEF LastDay
  <1>2. d \in Int /\ d + 1 \in 1..last /\ DateOf(z, u) = Dates[d + 1]
    BY <1>1, DaysInOrder DEF Dated, DateOf
  <1>3. next \in 1..last /\ d < next
    BY <1>2, RestOfMonth
  <1>4. Dates[next].year = Dates[d + 1].year
    <2> DEFINE day    == Dates[k].day
               length == Dates[k].length
    <2>1. /\ k \in 1..last /\ length \in 1..(Word - 2) /\ Word \in Int /\ day \in 1..(Word - 2)
          /\ \A x \in 1..length : Dates[k + x - day] = [Dates[k] EXCEPT !.day = x]
      <3>1. k \in 1..Len(Dates)
        BY <1>2
      <3> HIDE DEF k
      <3>2. /\ Dates[k].length \in 1..(Word - 2) /\ Dates[k].day \in 1..(Word - 2)
            /\ \A x \in 1..Dates[k].length : Dates[k + x - Dates[k].day] = [Dates[k] EXCEPT !.day = x]
        BY <3>1, DateFacts
      <3>3. Word \in Int
        BY ParserAssumption
      <3> QED
        BY <3>1, <3>2, <3>3
    <2>2. next = d - day + 1 + length
      BY <1>2 DEF MonthEnd
    <2>3. next = k + length - day /\ length \in 1..length
      <3>1. day \in Int /\ length \in Nat /\ 1 <= length
        BY <2>1
      <3>2. d \in Int /\ k = d + 1
        BY <1>2
      <3> HIDE DEF day, length, next, d, k
      <3> QED
        BY <2>2, <3>1, <3>2
    <2>4. Dates[next] = [Dates[k] EXCEPT !.day = length]
      <3> HIDE DEF next, day, length
      <3> QED
        BY <2>1, <2>3
    <2>5. Dates[k] \in [year : Nat, month : 1..(Word - 2), day : 1..(Word - 2), length : 1..(Word - 2)]
      <3> HIDE DEF k
      <3> QED
        BY <2>1, DateType
    <2> HIDE DEF next
    <2> QED
      BY <2>4, <2>5
  <1>5. Dates[d + 1].year <= LastYear(q) /\ Dates[d + 1].year \in Nat /\ Dates[last - 1].year \in Nat
    BY <1>1, <1>2, DateFacts DEF YearOf
  <1> HIDE DEF next, d, last
  <1>6. ASSUME last - 1 <= next PROVE FALSE
    <2>1. Dates[last - 1].year <= Dates[next].year
      BY <1>1, <1>3, <1>6, DatesAssumption DEF last
    <2> QED
      BY <1>1, <1>4, <1>5, <2>1
  <1>7. next < last - 1 /\ next \in Int
    BY <1>1, <1>3, <1>6
  <1>8. 0 <= d
    BY <1>1, <1>2 DEF d
  <1> QED
    BY <1>1, <1>2, <1>3, <1>7, <1>8 DEF next, d, last

\* Next is on the day of the given time or later.
LEMMA SinceDay ==
  ASSUME NEW place, NEW q \in Queries, NEW b, NEW u \in Int, Since(place, q, b, u)
  PROVE  /\ DayOf(q.zone, q.from + 1) \in Int /\ DayOf(q.zone, u) \in Int
         /\ DayOf(q.zone, q.from + 1) <= DayOf(q.zone, u)
         /\ \A v \in Int : DayOf(q.zone, u) < DayOf(q.zone, v) => q.from + 1 <= v
  <1> DEFINE z == q.zone
             f == q.from + 1
  <1>1. Orderly(z) /\ f \in Int
    BY ZoneFacts
  <1> HIDE DEF f
  <1>2. Clock(z, u) \in Int /\ Clock(z, f) \in Int
    BY <1>1, Offsets
  <1>3. DayOf(z, f) \in Int /\ DayOf(z, u) \in Int
    BY <1>1, DaysInOrder
  <1>4. f <= u \/ SameDay(z, u, f)
    BY <1>2, SameFields DEF Since, f
  <1>5. DayOf(z, f) <= DayOf(z, u)
    <2>1. CASE f <= u
      BY <1>1, <2>1, DaysInOrder
    <2>2. CASE SameDay(z, u, f)
      BY <1>3, <2>2 DEF SameDay
    <2> QED
      BY <1>4, <2>1, <2>2
  <1>6. ASSUME NEW v \in Int, DayOf(z, u) < DayOf(z, v) PROVE f <= v
    <2>1. ASSUME v < f PROVE FALSE
      <3>1. DayOf(z, v) <= DayOf(z, f) /\ DayOf(z, v) \in Int
        BY <1>1, <2>1, DaysInOrder
      <3> QED
        BY <1>3, <1>5, <1>6, <3>1
    <2> QED
      BY <1>1, <2>1
  <1> QED
    BY <1>3, <1>5, <1>6 DEF f

\* From the first midnight of a month to the first one of the next.
LEMMA MonthsOn ==
  ASSUME NEW z, NEW u, DayOf(z, u) \in Int, Dated(z, u), NEW s, NEW first,
         first = DayOf(z, u) - DateOf(z, u).day + 1
  PROVE  /\ first \in Int /\ first + 1 \in 1..Len(Dates) /\ Dates[first + 1].day = 1
         /\ Clock(z, s) = first * Day => NextMonth(z, s) = Date(z, MonthEnd(z, u) * Day)
  <1> DEFINE k      == DayOf(z, u) + 1
             day    == DateOf(z, u).day
             length == DateOf(z, u).length
             next   == MonthEnd(z, u)
  <1>1. DayOf(z, u) \in Int /\ k \in 1..Len(Dates) /\ DateOf(z, u) = Dates[k]
    BY DEF Dated, DateOf
  <1>2. /\ day \in Nat /\ 1 <= day /\ day <= k /\ length \in Nat /\ 1 \in 1..length /\ Len(Dates) \in Nat
        /\ Dates[k + 1 - day] = [DateOf(z, u) EXCEPT !.day = 1]
        /\ DateOf(z, u) \in [year : Nat, month : 1..(Word - 2), day : 1..(Word - 2), length : 1..(Word - 2)]
    <2> HIDE DEF k
    <2>1. /\ day \in 1..(Word - 2) /\ day <= k /\ length \in 1..(Word - 2) /\ Len(Dates) \in Nat
          /\ \A d \in 1..length : Dates[k + d - day] = [DateOf(z, u) EXCEPT !.day = d]
          /\ DateOf(z, u) \in [year : Nat, month : 1..(Word - 2), day : 1..(Word - 2), length : 1..(Word - 2)]
      BY <1>1, DateFacts, DateType
    <2>2. Word \in Int
      BY ParserAssumption
    <2> HIDE DEF day, length
    <2>3. day \in Nat /\ 1 <= day /\ length \in Nat /\ 1 \in 1..length
      BY <2>1, <2>2
    <2>4. Dates[k + 1 - day] = [DateOf(z, u) EXCEPT !.day = 1]
      BY ONLY <2>1, <2>3, Zenon
    <2> QED
      BY <2>1, <2>3, <2>4
  <1>3. first \in Int /\ first + 1 = k + 1 - day /\ next = first + length /\ first + 1 \in 1..Len(Dates)
    <2>1. next = DayOf(z, u) - day + 1 + length
      BY DEF MonthEnd
    <2>2. DayOf(z, u) \in Int /\ k = DayOf(z, u) + 1 /\ k <= Len(Dates)
      BY <1>1
    <2> HIDE DEF next, k, day, length
    <2> QED
      BY <1>2, <2>1, <2>2 DEF day
  <1>4. Dates[first + 1].day = 1 /\ Dates[first + 1].length = length
    <2> HIDE DEF k, day
    <2> QED
      BY <1>2, <1>3
  <1>5. ASSUME Clock(z, s) = first * Day PROVE NextMonth(z, s) = Date(z, next * Day)
    <2> DEFINE m == first * Day
    <2>1. m \div Day = first
      BY <1>3, Units, UnitBegins
    <2>2. DateOf(z, s) = Dates[first + 1]
      <3> HIDE DEF m
      <3> QED
        BY <1>5, <2>1 DEF DayOf, DateOf, m
    <2>3. NextMonth(z, s) = Date(z, first * Day + length * Day)
      BY <1>4, <1>5, <2>2 DEF NextMonth
    <2>4. first * Day + length * Day = (first + length) * Day
      <3>1. length \in Int /\ first \in Int
        BY <1>2, <1>3
      <3> HIDE DEF length
      <3> QED
        BY <3>1, Units
    <2> QED
      BY <1>3, <2>3, <2>4
  <1> QED
    BY <1>3, <1>4, <1>5

\* A midnight that is shown is at its day, and the clock of a day that begins is at
\* its number.
LEMMA ClockAtDay ==
  ASSUME NEW z, NEW u, Clock(z, u) \in Int, AtDay(z, u)
  PROVE  Clock(z, u) = DayOf(z, u) * Day
  <1> DEFINE c == Clock(z, u)
  <1>1. c \in Int /\ c % Day = 0
    BY DEF AtDay
  <1> HIDE DEF c
  <1>2. c = (c \div Day) * Day + (c % Day) /\ c \div Day \in Int
    BY <1>1, Units, Floor
  <1>3. (c \div Day) * Day \in Int
    BY <1>2, Units
  <1>4. c = (c \div Day) * Day
    <2> DEFINE m == (c \div Day) * Day
    <2> HIDE DEF m
    <2>1. c = m + 0 /\ m \in Int
      BY <1>1, <1>2, <1>3 DEF m
    <2> QED
      BY <2>1 DEF m
  <1> QED
    BY <1>4 DEF c, DayOf

\* The loop for the months.
LEMMA MonthKept ==
  ASSUME NEW q \in Queries, Spared(q), NEW b, NEW u, NEW again, Kept("month", q, b, u, again),
         ~BitIn(q.zone, b, 5, u), NEW s, again => s = u, ~again => s = MonthReset(q.zone, u),
         NEW v, v = NextMonth(q.zone, s),
         NEW next, next = IF Fields(q.zone, v)[5] = 1 THEN "WRAP" ELSE "month"
  PROVE  Kept(next, q, b, v, TRUE)
  <1> DEFINE z     == q.zone
             n     == MonthEnd(z, u)
             first == DayOf(z, u) - DateOf(z, u).day + 1
  <1>1. /\ u \in Int /\ Dated(z, u) /\ FirstDay(q) <= DayOf(z, u) /\ YearOf(z, u) <= LastYear(q)
        /\ Since("month", q, b, u)
        /\ again => AtMonth(z, u)
        /\ ~again => u = q.from + 1
        /\ \A g : Aim(q, b, g) => u <= g
    BY DEF Kept, Settled
  <1>2. /\ Orderly(z) /\ FirstDay(q) \in Nat /\ LastDay \in Int /\ Len(Dates) \in Nat
        /\ LastDay = Len(Dates) - 2
    BY ZoneFacts, QueryFacts DEF LastDay
  <1>3. DayOf(z, u) \in Nat /\ DayOf(z, u) < LastDay /\ n \in Int /\ n <= LastDay
    BY <1>1, WithinLimit
  <1>4. /\ n \in 1..Len(Dates) /\ DayOf(z, u) < n
        /\ \A w \in Int : DayOf(z, w) \in Int /\ DayOf(z, u) <= DayOf(z, w) /\ DayOf(z, w) < n =>
             DateOf(z, w).month = DateOf(z, u).month
        /\ n + 1 \in 1..Len(Dates) =>
             /\ Dates[n + 1].day = 1
             /\ Dates[n + 1].month # 1 => Dates[n + 1].year = YearOf(z, u)
    BY <1>1, <1>3, RestOfMonth
  <1> HIDE DEF n
  <1>5. n + 1 \in 1..Len(Dates) /\ n \in Nat /\ FirstDay(q) <= n
    BY <1>1, <1>2, <1>3, <1>4
  <1>6. first \in Int /\ Dates[first + 1].day = 1
    BY <1>1, <1>3, MonthsOn
  <1>7. Clock(z, s) = first * Day
    <2>1. CASE again
      <3>1. s = u /\ AtDay(z, u) /\ DateOf(z, u).day = 1 /\ Clock(z, u) \in Int
        BY <1>1, <1>2, <2>1, Offsets DEF AtMonth
      <3>2. first = DayOf(z, u)
        BY <1>3, <3>1
      <3> QED
        BY <3>1, <3>2, ClockAtDay
    <2>2. CASE ~again
      <3>1. first = FirstDay(q)
        BY <1>1, <2>2 DEF FirstDay
      <3>2. s = Date(z, first * Day)
        BY <2>2 DEF MonthReset
      <3> HIDE DEF first
      <3>3. first \in Nat /\ FirstDay(q) <= first /\ first <= LastDay
        BY <1>1, <1>2, <1>3, <3>1
      <3>4. ~Skipped(z, first)
        BY <1>6, <3>3, SkippedDay
      <3> QED
        BY <1>2, <3>2, <3>3, <3>4, MidnightShown
    <2> QED
      BY <2>1, <2>2
  <1>8. v = Date(z, n * Day)
    BY <1>1, <1>3, <1>7, MonthsOn DEF n
  <1>9. ~Skipped(z, n)
    BY <1>2, <1>3, <1>4, <1>5, SkippedDay
  <1>10. /\ v \in Int /\ DayOf(z, v) = n /\ AtDay(z, v) /\ AtHour(z, v) /\ AtMinute(z, v)
    BY <1>2, <1>5, <1>8, <1>9, MidnightShown
  <1>11. Dated(z, v) /\ DateOf(z, v) = Dates[n + 1]
    BY <1>5, <1>10 DEF Dated, DateOf
  <1>12. Settled(next, z, b, v)
    BY <1>4, <1>5, <1>10, <1>11 DEF Settled, AtMonth
  <1>13. next \in {"WRAP", "month"} /\ (next = "month" => YearOf(z, v) <= LastYear(q))
    BY <1>1, <1>4, <1>5, <1>11, SixFields DEF YearOf
  <1>14. Since(next, q, b, v)
    BY <1>1, <1>3, <1>4, <1>10, SinceDay DEF Since
  <1>15. ASSUME NEW g, Aim(q, b, g) PROVE v <= g
    <2>1. /\ g \in Int /\ u <= g /\ Hits(z, b, g) /\ DayOf(z, g) \in Int /\ DayBegins(z, DayOf(z, g))
      BY <1>1, <1>15, AimFacts
    <2>2. DayOf(z, u) <= DayOf(z, g)
      BY <1>1, <1>2, <2>1, DaysInOrder
    <2>3. ASSUME g < v PROVE FALSE
      <3>1. DayOf(z, g) <= n
        BY <1>2, <1>10, <2>1, <2>3, DaysInOrder
      <3>2. DayOf(z, g) # n
        BY <1>8, <2>1, <2>3 DEF DayBegins
      <3>3. DateOf(z, g).month = DateOf(z, u).month
        BY <1>3, <1>4, <2>1, <2>2, <3>1, <3>2
      <3> QED
        BY <2>1, <3>3, SixFields DEF BitIn, Hits
    <2> QED
      BY <1>10, <2>1, <2>3
  <1> QED
    BY <1>5, <1>10, <1>11, <1>12, <1>13, <1>14, <1>15 DEF Kept, Came

\* Where NextDay leads from the beginning of a day, or from beside a skipped
\* midnight: to the next day or beside the midnight that begins it, or over that
\* day.
LEMMA DaysOn ==
  ASSUME NEW z, Lasting(z), NEW k \in Nat, Skipped(z, k) => k # 0, NEW s,
         \/ Clock(z, s) = k * Day
         \/ Skipped(z, k) /\ s \in {z.spring - Hour, z.spring}
         \/ Skipped(z, k + 1) /\ s = z.spring - Hour,
         NEW v, v = NextDay(z, s)
  PROVE  /\ v \in Int /\ AtHour(z, v) /\ AtMinute(z, v)
         /\ \/ DayOf(z, v) = k + 1 /\ AtDay(z, v)
            \/ DayOf(z, v) \in {k, k + 1} /\ Skipped(z, k + 1) /\ Beside(z, v)
            \/ DayOf(z, v) = k + 2 /\ Skipped(z, k + 1) /\ AtDay(z, v)
         /\ \A x \in Int : x < v /\ DayBegins(z, DayOf(z, x)) =>
              DayOf(z, x) <= k \/ (DayOf(z, x) = k + 1 /\ Skipped(z, k + 1))
  <1> DEFINE n == k + 1
  <1>1. Orderly(z) /\ n \in Nat \ {0} /\ n - 1 = k /\ n + 1 = k + 2
    BY DEF Lasting
  <1> HIDE DEF n
  <1>2. ASSUME NEW x \in Int, v \in Int, x < v PROVE DayOf(z, x) \in Int /\ DayOf(z, x) <= DayOf(z, v)
    BY <1>1, <1>2, DaysInOrder
  <1>3. CASE Clock(z, s) = k * Day /\ ~Skipped(z, n)
    <2> DEFINE m == Date(z, n * Day)
    <2>1. Clock(z, s) + Day = n * Day
      BY <1>3, DayInHours DEF n
    <2>2. /\ m \in Int /\ DayOf(z, m) = n /\ AtDay(z, m) /\ AtHour(z, m) /\ AtMinute(z, m)
      BY <1>1, <1>3, MidnightShown
    <2> HIDE DEF m
    <2>3. v = m
      <3>1. Fields(z, m)[3] = 0
        BY <1>1, <2>2, Offsets, StartsNested
      <3>2. ~(0 > HoursPerDay \div 2) /\ m - 0 * Hour = m
        BY <2>2, Units
      <3> QED
        BY <2>1, <3>1, <3>2 DEF NextDay, m
    <2>4. ASSUME NEW x \in Int, x < v, DayBegins(z, DayOf(z, x)) PROVE DayOf(z, x) <= k
      <3>1. DayOf(z, x) \in Int /\ DayOf(z, x) <= n
        BY <1>2, <2>2, <2>3, <2>4
      <3>2. ASSUME DayOf(z, x) = n PROVE FALSE
        <4>1. \A w \in Int : w < m <=> DayOf(z, w) < n
          BY <2>4, <3>2 DEF DayBegins, m
        <4>2. DayOf(z, x) < n
          BY <2>3, <2>4, <4>1
        <4> QED
          BY <1>1, <3>2, <4>2
      <3> QED
        BY <3>1, <3>2 DEF n
    <2> QED
      BY <2>2, <2>3, <2>4 DEF n
  <1>4. CASE Clock(z, s) = k * Day /\ Skipped(z, n)
    <2>1. v \in {z.spring - Hour, z.spring}
      BY <1>1, <1>4, ToSkipped
    <2>2. /\ z.spring \in Int /\ DayOf(z, z.spring) = n /\ DayOf(z, z.spring - Hour) = n - 1
          /\ AtHour(z, z.spring) /\ AtMinute(z, z.spring)
          /\ AtHour(z, z.spring - Hour) /\ AtMinute(z, z.spring - Hour)
      BY <1>1, <1>4, AboutSkipped
    <2>3. v \in Int /\ AtHour(z, v) /\ AtMinute(z, v)
      BY <2>1, <2>2, Units
    <2>4. DayOf(z, v) \in {k, n} /\ Beside(z, v)
      BY <1>1, <1>4, <2>1, <2>2 DEF Beside, n
    <2>5. ASSUME NEW x \in Int, x < v PROVE DayOf(z, x) <= k \/ DayOf(z, x) = n
      <3>1. DayOf(z, x) \in Int /\ DayOf(z, x) <= DayOf(z, v)
        BY <1>2, <2>3, <2>5
      <3> QED
        BY <2>4, <3>1 DEF n
    <2> QED
      BY <1>4, <2>3, <2>4, <2>5 DEF n
  <1>5. CASE Skipped(z, k) /\ s \in {z.spring - Hour, z.spring}
    <2>1. k \in Nat \ {0}
      BY <1>5
    <2> DEFINE e == z.spring + (Day - Hour)
    <2>2. /\ e \in Int /\ DayOf(z, e) = k + 1 /\ AtDay(z, e) /\ AtHour(z, e) /\ AtMinute(z, e)
          /\ \A x \in Int : x < e <=> DayOf(z, x) < k + 1
          /\ NextDay(z, z.spring) = e /\ NextDay(z, z.spring - Hour) = e
      BY <1>5, <2>1, PastSkipped
    <2> HIDE DEF e
    <2>3. v = e
      BY <1>5, <2>2
    <2>4. ASSUME NEW x \in Int, x < v PROVE DayOf(z, x) <= k
      BY <1>2, <2>2, <2>3, <2>4
    <2> QED
      BY <2>2, <2>3, <2>4
  <1>6. CASE Skipped(z, n) /\ s = z.spring - Hour
    <2> DEFINE e == z.spring + (Day - Hour)
    <2>1. /\ e \in Int /\ DayOf(z, e) = n + 1 /\ AtDay(z, e) /\ AtHour(z, e) /\ AtMinute(z, e)
          /\ \A x \in Int : x < e <=> DayOf(z, x) < n + 1
          /\ NextDay(z, z.spring - Hour) = e
      BY <1>1, <1>6, PastSkipped
    <2> HIDE DEF e
    <2>2. v = e
      BY <1>6, <2>1
    <2>3. ASSUME NEW x \in Int, x < v PROVE DayOf(z, x) <= k \/ DayOf(z, x) = n
      BY <1>2, <2>1, <2>2, <2>3 DEF n
    <2> QED
      BY <1>1, <1>6, <2>1, <2>2, <2>3 DEF n
  <1> QED
    BY <1>3, <1>4, <1>5, <1>6 DEF n

\* The loop for the days.
LEMMA DayKept ==
  ASSUME NEW q \in Queries, Spared(q), NEW b, NEW u, NEW again, Kept("day", q, b, u, again),
         ~DayIn(q.zone, b, u), NEW s, again => s = u, ~again => s = DayReset(q.zone, u),
         NEW v, v = NextDay(q.zone, s),
         NEW next, next = IF Fields(q.zone, v)[4] = 1 THEN "WRAP" ELSE "day"
  PROVE  Kept(next, q, b, v, TRUE)
  <1> DEFINE z == q.zone
             k == DayOf(z, u)
             n == DayOf(z, v)
  <1>1. /\ u \in Int /\ Dated(z, u) /\ FirstDay(q) <= k /\ YearOf(z, u) <= LastYear(q)
        /\ Since("day", q, b, u) /\ BitIn(z, b, 5, u)
        /\ again => AtDay(z, u) \/ Beside(z, u)
        /\ \A g : Aim(q, b, g) => u <= g
    BY DEF Kept, Settled, Came
  <1>2. /\ Orderly(z) /\ Lasting(z) /\ FirstDay(q) \in Nat /\ LastDay \in Int /\ Len(Dates) \in Nat
        /\ LastDay = Len(Dates) - 2
    BY ZoneFacts, QueryFacts DEF LastDay
  <1>3. k \in Nat /\ k < LastDay /\ k + 2 \in 1..Len(Dates)
    BY <1>1, WithinLimit
  <1>4. Skipped(z, k) => k # 0
    <2> HIDE DEF k
    <2>1. k \in Int /\ FirstDay(q) <= k /\ k <= LastDay
      BY <1>1, <1>2, <1>3
    <2> QED
      BY <2>1, SkippedDay
  <1>5. Clock(z, u) \in Int
    BY <1>1, <1>2, Offsets
  <1>6. \/ Clock(z, s) = k * Day
        \/ Skipped(z, k) /\ s \in {z.spring - Hour, z.spring}
        \/ Skipped(z, k + 1) /\ s = z.spring - Hour
    <2>1. CASE again
      BY <1>1, <1>5, <2>1, ClockAtDay DEF Beside
    <2>2. CASE ~again
      <3>1. s = Date(z, k * Day)
        BY <2>2 DEF DayReset
      <3> HIDE DEF k
      <3>2. CASE Skipped(z, k)
        <4>1. k \in Nat \ {0}
          BY <1>3, <1>4, <3>2
        <4> QED
          BY <1>2, <3>1, <3>2, <4>1, ToSkipped
      <3>3. CASE ~Skipped(z, k)
        BY <1>2, <1>3, <3>1, <3>3, MidnightShown
      <3> QED
        BY <3>2, <3>3
    <2> QED
      BY <2>1, <2>2
  <1> HIDE DEF k
  <1>7. /\ v \in Int /\ AtHour(z, v) /\ AtMinute(z, v)
        /\ \/ n = k + 1 /\ AtDay(z, v)
           \/ n \in {k, k + 1} /\ Skipped(z, k + 1) /\ Beside(z, v)
           \/ n = k + 2 /\ Skipped(z, k + 1) /\ AtDay(z, v)
        /\ \A x \in Int : x < v /\ DayBegins(z, DayOf(z, x)) =>
             DayOf(z, x) <= k \/ (DayOf(z, x) = k + 1 /\ Skipped(z, k + 1))
    BY <1>2, <1>3, <1>4, <1>6, DaysOn
  <1> HIDE DEF n
  <1>8. n \in Int /\ k <= n /\ n + 1 \in 1..Len(Dates) /\ Dated(z, v) /\ DateOf(z, v) = Dates[n + 1]
        /\ DateOf(z, u) = Dates[k + 1] /\ k + 1 \in 1..Len(Dates)
    <2>1. n \in Int /\ k <= n /\ n <= k + 2
      BY <1>3, <1>7
    <2>2. n + 1 \in 1..Len(Dates) /\ k + 1 \in 1..Len(Dates)
      BY <1>2, <1>3, <2>1
    <2> QED
      BY <2>1, <2>2 DEF Dated, DateOf, n, k
  <1>9. Skipped(z, k + 1) =>
          /\ k + 1 \in Bad(q) /\ Dates[k + 2].day # 1
          /\ Dates[k + 2].month = Dates[k + 1].month /\ Dates[k + 2].year = Dates[k + 1].year
    <2>1. k + 1 \in Int /\ FirstDay(q) <= k + 1 /\ k + 1 <= LastDay /\ (k + 1) + 1 = k + 2
      BY <1>1, <1>2, <1>3 DEF k
    <2> QED
      BY <2>1, SkippedDay
  <1>10. /\ Dates[n + 1].day = 1 => n = k \/ AtDay(z, v)
         /\ Dates[n + 1].day = 1 \/ (Dates[n + 1].month = Dates[k + 1].month /\ Dates[n + 1].year = Dates[k + 1].year)
    <2>1. CASE n = k
      BY <2>1
    <2>2. CASE n = k + 1
      <3>1. n \in 1..Len(Dates) /\ n + 1 = k + 2
        BY <1>3, <1>8, <2>2
      <3>2. Dates[n + 1].day = 1 \/ (Dates[n + 1].month = Dates[n].month /\ Dates[n + 1].year = Dates[n].year)
        BY <1>8, <3>1, NextDate
      <3> QED
        BY <1>7, <1>9, <2>2, <3>1, <3>2
    <2>3. CASE n = k + 2
      <3>1. n \in 1..Len(Dates) /\ Skipped(z, k + 1) /\ AtDay(z, v)
        BY <1>3, <1>7, <1>8, <2>3
      <3>2. Dates[n + 1].day = 1 \/ (Dates[n + 1].month = Dates[n].month /\ Dates[n + 1].year = Dates[n].year)
        BY <1>8, <3>1, NextDate
      <3> QED
        BY <1>9, <2>3, <3>1, <3>2
    <2> QED
      BY <1>7, <2>1, <2>2, <2>3
  <1>11. BitIn(z, b, 5, v) \/ AtMonth(z, v)
    <2>1. CASE Dates[n + 1].month = Dates[k + 1].month
      BY <1>1, <1>8, <2>1, SixFields DEF BitIn
    <2>2. CASE Dates[n + 1].day = 1 /\ AtDay(z, v)
      BY <1>8, <2>2 DEF AtMonth
    <2> QED
      BY <1>10, <2>1, <2>2
  <1>12. Settled(next, z, b, v)
    BY <1>7, <1>11 DEF Settled
  <1>13. /\ next \in {"WRAP", "day"}
         /\ next = "day" => Dates[n + 1].day # 1
    BY <1>8, SixFields
  <1>14. Came(next, z, b, v) /\ (next # "WRAP" => YearOf(z, v) <= LastYear(q))
    <2>1. next = "day" => BitIn(z, b, 5, v)
      BY <1>8, <1>11, <1>13 DEF AtMonth
    <2>2. next = "day" => YearOf(z, v) = YearOf(z, u)
      BY <1>8, <1>10, <1>13 DEF YearOf
    <2> QED
      BY <1>1, <1>13, <2>1, <2>2 DEF Came
  <1>15. Since(next, q, b, v)
    <2>1. CASE n = k
      <3> DEFINE f == q.from + 1
      <3>1. /\ f \in Int /\ DayOf(z, f) \in Int /\ DayOf(z, f) <= k
        BY <1>1, ZoneFacts, SinceDay DEF k
      <3>2. ~DayIn(z, b, v)
        <4>1. SameDay(z, u, v)
          BY <2>1 DEF SameDay, n, k
        <4> QED
          BY <1>2, <1>5, <1>7, <4>1, Offsets, MatchAlike
      <3>3. ASSUME v < f PROVE SameDay(z, v, f)
        <4>1. n <= DayOf(z, f)
          BY <1>2, <1>7, <3>1, <3>3, DaysInOrder DEF n
        <4> QED
          BY <1>8, <2>1, <3>1, <4>1 DEF SameDay, n
      <3> HIDE DEF f
      <3>4. f <= v \/ v < f
        BY <1>7, <3>1
      <3> QED
        BY <1>13, <3>2, <3>3, <3>4 DEF Since, f
    <2>2. CASE k < n
      BY <1>1, <1>7, <2>2, SinceDay DEF Since, n, k
    <2> QED
      BY <1>3, <1>8, <2>1, <2>2
  <1>16. ASSUME NEW g, Aim(q, b, g) PROVE v <= g
    <2>1. /\ g \in Int /\ u <= g /\ Hits(z, b, g) /\ DayOf(z, g) \in Int /\ DayBegins(z, DayOf(z, g))
          /\ DayOf(z, g) \notin Bad(q)
      BY <1>1, <1>16, AimFacts
    <2>2. k <= DayOf(z, g)
      BY <1>1, <1>2, <2>1, DaysInOrder DEF k
    <2>3. ASSUME g < v PROVE FALSE
      <3>1. DayOf(z, g) <= k
        BY <1>7, <1>9, <2>1, <2>3
      <3>2. SameDay(z, u, g)
        BY <1>3, <2>1, <2>2, <3>1 DEF SameDay, k
      <3>3. ~DayIn(z, b, g)
        BY <1>2, <1>5, <2>1, <3>2, Offsets, MatchAlike
      <3> QED
        BY <2>1, <3>3 DEF Hits
    <2> QED
      BY <1>7, <2>1, <2>3
  <1>17. FirstDay(q) <= n
    BY <1>1, <1>2, <1>3, <1>8 DEF k
  <1> QED
    BY <1>7, <1>8, <1>12, <1>14, <1>15, <1>16, <1>17 DEF Kept, n

\* The loops for hours, minutes and seconds pass over times of one hour that do not
\* match, to the same day or the beginning of the next.
LEMMA InHourKept ==
  ASSUME NEW q \in Queries, Spared(q), NEW b, NEW u, NEW again,
         NEW place \in {"hour", "minute", "second"}, Kept(place, q, b, u, again),
         NEW v \in Int, u < v,
         \A x \in u..(v - 1) : SameHour(q.zone, u, x) /\ ~Hits(q.zone, b, x)
  PROVE  LET z == q.zone
         IN  /\ Dated(z, v) /\ FirstDay(q) <= DayOf(z, v) /\ Since("hour", q, b, v)
             /\ \A g : Aim(q, b, g) => v <= g
             /\ SameHour(z, u, v) \/ AtHour(z, v)
             /\ \/ /\ SameDay(z, u, v) /\ BitIn(z, b, 5, v) /\ (DayIn(z, b, v) <=> DayIn(z, b, u))
                   /\ YearOf(z, v) = YearOf(z, u)
                \/ AtDay(z, v) /\ (BitIn(z, b, 5, v) \/ AtMonth(z, v))
                \/ /\ v = z.spring /\ Skipped(z, DayOf(z, v)) /\ BitIn(z, b, 5, v)
                   /\ YearOf(z, v) = YearOf(z, u)
  <1> DEFINE z == q.zone
             w == v - 1
             k == DayOf(z, u)
             n == DayOf(z, v)
  <1>1. /\ u \in Int /\ Dated(z, u) /\ FirstDay(q) <= k /\ YearOf(z, u) <= LastYear(q)
        /\ Since(place, q, b, u) /\ BitIn(z, b, 5, u)
        /\ \A g : Aim(q, b, g) => u <= g
    BY DEF Kept, Came
  <1>2. /\ Orderly(z) /\ FirstDay(q) \in Nat /\ LastDay \in Int /\ Len(Dates) \in Nat
        /\ q.from + 1 \in Int
    BY ZoneFacts, QueryFacts
  <1>3. k \in Nat /\ k < LastDay /\ k + 2 \in 1..Len(Dates)
    BY <1>1, WithinLimit
  <1>4. w \in u..(v - 1) /\ w \in Int /\ w + 1 = v
    BY <1>1
  <1>5. Clock(z, u) \in Int /\ Clock(z, w) \in Int /\ Clock(z, v) \in Int
    BY <1>1, <1>2, <1>4, Offsets
  <1>6. SameHour(z, u, w) /\ SameDay(z, u, w)
    BY <1>4, <1>5, SameFields
  <1> HIDE DEF w
  <1>7. /\ SameHour(z, w, v) \/ AtHour(z, v)
        /\ \/ SameDay(z, w, v)
           \/ /\ n = DayOf(z, w) + 1
              /\ AtDay(z, v) \/ (v = z.spring /\ Skipped(z, n))
    BY <1>2, <1>4, NextSecondAlways
  <1>8. SameHour(z, u, v) \/ AtHour(z, v)
    BY <1>6, <1>7 DEF SameHour
  <1>9. /\ n = k \/ (n = k + 1 /\ (AtDay(z, v) \/ (v = z.spring /\ Skipped(z, n))))
    BY <1>6, <1>7 DEF SameDay
  <1> HIDE DEF k, n
  <1>10. /\ n \in Int /\ n + 1 \in 1..Len(Dates) /\ FirstDay(q) <= n /\ Dated(z, v)
         /\ DateOf(z, v) = Dates[n + 1] /\ DateOf(z, u) = Dates[k + 1] /\ k + 1 \in 1..Len(Dates)
    <2>1. n \in Int /\ n + 1 \in 1..Len(Dates) /\ FirstDay(q) <= n /\ k + 1 \in 1..Len(Dates)
      BY <1>1, <1>2, <1>3, <1>9 DEF k
    <2> QED
      BY <2>1 DEF Dated, DateOf, n, k
  <1>11. ASSUME n = k
         PROVE  /\ SameDay(z, u, v) /\ BitIn(z, b, 5, v) /\ (DayIn(z, b, v) <=> DayIn(z, b, u))
                /\ YearOf(z, v) = YearOf(z, u)
    <2>1. SameDay(z, u, v)
      BY <1>11 DEF SameDay, n, k
    <2>2. BitIn(z, b, 5, v) /\ (DayIn(z, b, v) <=> DayIn(z, b, u)) /\ YearOf(z, v) = YearOf(z, u)
      BY <1>1, <1>5, <2>1, MatchAlike, DatedAlike
    <2> QED
      BY <2>1, <2>2
  <1>12. ASSUME n = k + 1
         PROVE  \/ AtDay(z, v) /\ (BitIn(z, b, 5, v) \/ AtMonth(z, v))
                \/ /\ v = z.spring /\ Skipped(z, n) /\ BitIn(z, b, 5, v)
                   /\ YearOf(z, v) = YearOf(z, u)
    <2>1. n \in 1..Len(Dates) /\ n + 1 \in 1..Len(Dates)
      BY <1>10, <1>12
    <2>2. Dates[n + 1].day = 1 \/ (Dates[n + 1].month = Dates[n].month /\ Dates[n + 1].year = Dates[n].year)
      BY <1>10, <2>1, NextDate
    <2>3. CASE AtDay(z, v)
      BY <1>1, <1>10, <1>12, <2>2, <2>3, SixFields DEF BitIn, AtMonth
    <2>4. CASE v = z.spring /\ Skipped(z, n)
      <3>1. FirstDay(q) <= n /\ n <= LastDay
        BY <1>2, <1>3, <1>10, <1>12
      <3>2. Dates[n + 1].month = Dates[n].month /\ Dates[n + 1].year = Dates[n].year
        BY <1>10, <2>4, <3>1, SkippedDay
      <3>3. BitIn(z, b, 5, v) /\ YearOf(z, v) = YearOf(z, u)
        BY <1>1, <1>10, <1>12, <3>2, SixFields DEF BitIn, YearOf
      <3> QED
        BY <2>4, <3>3
    <2> QED
      BY <1>3, <1>9, <1>12, <2>3, <2>4
  <1>13. Since("hour", q, b, v)
    <2> DEFINE f == q.from + 1
    <2>1. f <= u \/ (SameHour(z, u, f) /\ ~BitIn(z, b, 3, u))
      BY <1>1 DEF Since
    <2> HIDE DEF f
    <2>2. f \in Int
      BY <1>2 DEF f
    <2>3. CASE f <= v
      BY <2>3 DEF Since, f
    <2>4. CASE v < f
      <3>1. SameHour(z, u, f) /\ ~BitIn(z, b, 3, u) /\ v \in u..f /\ u <= f
        BY <1>1, <2>1, <2>2, <2>4
      <3>2. SameHour(z, u, v)
        BY <1>1, <1>2, <2>2, <3>1, DaysInOrder
      <3>3. ~BitIn(z, b, 3, v) /\ SameHour(z, v, f)
        BY <1>5, <3>1, <3>2, MatchAlike DEF SameHour
      <3> QED
        BY <3>3 DEF Since, f
    <2> QED
      BY <2>2, <2>3, <2>4
  <1>14. ASSUME NEW g, Aim(q, b, g) PROVE v <= g
    <2>1. g \in Int /\ u <= g /\ Hits(z, b, g)
      BY <1>1, <1>14, AimFacts
    <2>2. ASSUME g < v PROVE FALSE
      <3>1. g \in u..(v - 1)
        BY <1>1, <2>1, <2>2
      <3> QED
        BY <2>1, <3>1
    <2> QED
      BY <2>1, <2>2
  <1> QED
    BY <1>3, <1>8, <1>9, <1>10, <1>11, <1>12, <1>13, <1>14 DEF n

\* A time of the calendar is not before its first day.
LEMMA ClockNotBefore ==
  ASSUME NEW z, NEW u, Clock(z, u) \in Int, Dated(z, u)
  PROVE  0 <= Clock(z, u)
  <1> DEFINE c == Clock(z, u)
             d == c \div Day
  <1>1. c \in Int /\ Day \in Nat \ {0}
    BY Units
  <1>2. d \in Int /\ d * Day <= c
    BY <1>1, Floor
  <1>3. 0 <= d
    BY <1>2 DEF Dated, DayOf
  <1> HIDE DEF c, d
  <1>4. 0 <= d * Day /\ d * Day \in Int
    BY <1>1, <1>2, <1>3
  <1>5. 0 <= c
    BY <1>1, <1>2, <1>4
  <1> QED
    BY <1>5 DEF c

\* A full hour with the number 0 is midnight, and a full minute with it is a full
\* hour.
LEMMA MidnightHour ==
  ASSUME NEW z, NEW u, Clock(z, u) \in Int
  PROVE  /\ AtHour(z, u) /\ Fields(z, u)[3] = 0 => AtDay(z, u)
         /\ AtMinute(z, u) /\ Fields(z, u)[2] = 0 => AtHour(z, u)
  <1>1. ASSUME NEW c \in Int, NEW n \in Nat \ {0}, NEW k \in Nat \ {0},
               c % n = 0, (c \div n) % k = 0
        PROVE  c % (k * n) = 0
    <2> DEFINE p == c \div n
               r == p \div k
               m == k * n
    <2>1. p \in Int /\ c = p * n + 0
      BY <1>1, Floor
    <2> HIDE DEF p
    <2>2. r \in Int /\ p = r * k + 0
      BY <1>1, <2>1, Floor DEF p
    <2> HIDE DEF r
    <2>3. p = r * k /\ c = p * n /\ m \in Nat \ {0}
      BY <1>1, <2>1, <2>2
    <2>4. (r * k) * n = r * (k * n)
      BY <1>1, <2>2
    <2>5. c = r * m
      BY <2>3, <2>4
    <2> HIDE DEF m
    <2>6. c % m = 0
      BY <2>2, <2>3, <2>5, UnitBegins
    <2> QED
      BY <2>6 DEF m
  <1>2. AtHour(z, u) /\ Fields(z, u)[3] = 0 => AtDay(z, u)
    BY <1>1, Units DEF AtHour, AtDay, Fields, Day
  <1>3. AtMinute(z, u) /\ Fields(z, u)[2] = 0 => AtHour(z, u)
    BY <1>1, Units DEF AtMinute, AtHour, Fields, Hour
  <1> QED
    BY <1>2, <1>3

\* The next hour.  Where an hour is there twice, the reset may go back to the first
\* one or on to the second.
LEMMA HoursOn ==
  ASSUME NEW z, Orderly(z), NEW u \in Int, Dated(z, u),
         NEW s, s = HourReset(z, u) \/ (s = u /\ AtHour(z, u)), NEW v, v = s + Hour
  PROVE  /\ v \in Int /\ AtHour(z, v) /\ AtMinute(z, v)
         /\ \A x \in Int : (u <= x /\ x < v) \/ (v <= x /\ x <= u) => SameHour(z, u, x)
  <1>1. Clock(z, u) \in Int /\ 0 <= Clock(z, u) /\ Hour \in Nat \ {0}
    BY Offsets, ClockNotBefore, Units
  <1>2. s \in Int /\ AtHour(z, s) /\ SameHour(z, u, s)
    BY <1>1, HourFound DEF SameHour
  <1>3. v \in Int /\ s < v
    BY <1>1, <1>2
  <1>4. s % Hour = 0
    BY <1>2, HoursOfClock DEF AtHour
  <1>5. AtHour(z, v) /\ AtMinute(z, v)
    <2>1. (s + 1 * Hour) % Hour = s % Hour
      <3>1. 1 \in Int
        OBVIOUS
      <3> QED
        BY <1>1, <1>2, <3>1, Shifted
    <2>2. v = s + 1 * Hour
      BY <1>1, <1>2
    <2>3. AtHour(z, v)
      BY <1>3, <1>4, <2>1, <2>2, HoursOfClock DEF AtHour
    <2> QED
      BY <1>3, <2>3, Offsets, StartsNested
  <1>6. ASSUME NEW x \in Int, s <= x, x < v PROVE SameHour(z, u, x)
    <2> DEFINE p == s \div Hour
    <2>1. p \in Int /\ s = p * Hour + 0
      BY <1>1, <1>2, <1>4, Floor
    <2> HIDE DEF p
    <2>2. p * Hour <= x /\ x < p * Hour + Hour
      BY <1>1, <1>3, <1>6, <2>1
    <2>3. x \div Hour = p
      BY <1>1, <2>1, <2>2, Quotient
    <2>4. SameHour(z, s, x)
      BY <1>2, <2>3, HourUnchanged DEF p
    <2> QED
      BY <1>2, <2>4 DEF SameHour
  <1>7. ASSUME NEW x \in Int, s <= x, x <= u PROVE SameHour(z, u, x)
    <2>1. SameHour(z, s, u) /\ x \in s..u /\ s <= u
      BY <1>2, <1>7 DEF SameHour
    <2>2. SameHour(z, s, x)
      BY <1>2, <2>1, DaysInOrder
    <2> QED
      BY <2>1, <2>2 DEF SameHour
  <1>8. ASSUME NEW x \in Int, u <= x, x <= s PROVE SameHour(z, u, x)
    <2>1. x \in u..s /\ u <= s
      BY <1>2, <1>8
    <2> QED
      BY <1>2, <2>1, DaysInOrder
  <1> QED
    BY <1>1, <1>2, <1>3, <1>5, <1>6, <1>7, <1>8

\* The loop for the hours.
LEMMA HourKept ==
  ASSUME NEW q \in Queries, Spared(q), NEW b, NEW u, NEW again, Kept("hour", q, b, u, again),
         ~BitIn(q.zone, b, 3, u), NEW s, again => s = u, ~again => s = HourReset(q.zone, u),
         NEW v, v = s + Hour,
         NEW next, next = IF Fields(q.zone, v)[3] = 0 THEN "WRAP" ELSE "hour"
  PROVE  Kept(next, q, b, v, TRUE)
  <1> DEFINE z == q.zone
  <1>1. /\ u \in Int /\ Dated(z, u) /\ FirstDay(q) <= DayOf(z, u) /\ YearOf(z, u) <= LastYear(q)
        /\ Since("hour", q, b, u) /\ BitIn(z, b, 5, u)
        /\ DayIn(z, b, u) \/ Astray("hour", z, b, u)
        /\ again => AtHour(z, u)
        /\ \A g : Aim(q, b, g) => u <= g
    BY DEF Kept, Settled, Came
  <1>2. Orderly(z) /\ q.from + 1 \in Int
    BY ZoneFacts
  <1>3. /\ v \in Int /\ AtHour(z, v) /\ AtMinute(z, v)
        /\ \A x \in Int : (u <= x /\ x < v) \/ (v <= x /\ x <= u) => SameHour(z, u, x)
    BY <1>1, <1>2, HoursOn
  <1>4. Clock(z, u) \in Int /\ Clock(z, v) \in Int
    BY <1>1, <1>2, <1>3, Offsets
  <1>5. /\ Dated(z, v) /\ FirstDay(q) <= DayOf(z, v) /\ Since("hour", q, b, v)
        /\ \A g : Aim(q, b, g) => v <= g
        /\ \/ /\ SameDay(z, u, v) /\ BitIn(z, b, 5, v) /\ (DayIn(z, b, v) <=> DayIn(z, b, u))
              /\ YearOf(z, v) = YearOf(z, u)
           \/ AtDay(z, v) /\ (BitIn(z, b, 5, v) \/ AtMonth(z, v))
           \/ /\ v = z.spring /\ Skipped(z, DayOf(z, v)) /\ BitIn(z, b, 5, v)
              /\ YearOf(z, v) = YearOf(z, u)
    <2>1. CASE u < v
      <3>1. ASSUME NEW x \in u..(v - 1) PROVE SameHour(z, u, x) /\ ~Hits(z, b, x)
        <4>1. x \in Int /\ u <= x /\ x < v
          BY <1>1, <1>3
        <4>2. SameHour(z, u, x) /\ Clock(z, x) \in Int
          BY <1>2, <1>3, <4>1, Offsets
        <4> QED
          BY <1>4, <4>2, MatchAlike DEF Hits
      <3> QED
        BY <1>3, <2>1, <3>1, InHourKept
    <2>2. CASE v <= u
      <3>1. SameHour(z, u, v) /\ SameDay(z, u, v)
        BY <1>3, <1>4, <2>2, SameFields
      <3>2. /\ Dated(z, v) /\ YearOf(z, v) = YearOf(z, u) /\ BitIn(z, b, 5, v)
            /\ DayIn(z, b, v) <=> DayIn(z, b, u)
            /\ ~BitIn(z, b, 3, v)
        BY <1>1, <1>4, <3>1, DatedAlike, MatchAlike
      <3>3. ASSUME NEW g, Aim(q, b, g) PROVE v <= g
        BY <1>1, <1>3, <2>2, <3>3, AimFacts
      <3>4. Since("hour", q, b, v)
        <4> DEFINE f == q.from + 1
        <4>1. f <= u \/ SameHour(z, u, f)
          BY <1>1 DEF Since
        <4>2. f <= v \/ SameHour(z, v, f)
          <5>1. CASE f <= u /\ v < f
            BY <1>2, <1>3, <3>1, <5>1 DEF SameHour
          <5>2. CASE SameHour(z, u, f)
            BY <3>1, <5>2 DEF SameHour
          <5> QED
            BY <1>2, <1>3, <4>1, <5>1, <5>2
        <4> QED
          BY <3>2, <4>2 DEF Since
      <3> QED
        BY <1>1, <3>1, <3>2, <3>3, <3>4 DEF SameDay
    <2> QED
      BY <1>1, <1>3, <2>1, <2>2
  <1>6. /\ next \in {"WRAP", "hour"}
        /\ next = "WRAP" => AtDay(z, v)
        /\ next = "hour" => ~AtDay(z, v)
    <2>1. AtDay(z, v) => Fields(z, v)[3] = 0
      BY <1>4, StartsNested
    <2>2. ASSUME Fields(z, v)[3] = 0 PROVE AtDay(z, v)
      BY <1>3, <1>4, <2>2, MidnightHour
    <2> QED
      BY <2>1, <2>2
  <1>7. Settled(next, z, b, v)
    BY <1>3, <1>5, <1>6 DEF Settled
  <1>8. Came(next, z, b, v)
    <2>1. ASSUME next = "hour" PROVE BitIn(z, b, 5, v) /\ (DayIn(z, b, v) \/ Astray("hour", z, b, v))
      BY <1>1, <1>3, <1>5, <1>6, <2>1 DEF Astray, SameDay
    <2> QED
      BY <1>6, <2>1 DEF Came
  <1>9. next # "WRAP" => YearOf(z, v) <= LastYear(q)
    BY <1>1, <1>5, <1>6
  <1>10. Since(next, q, b, v)
    BY <1>5 DEF Since
  <1> QED
    BY <1>3, <1>5, <1>7, <1>8, <1>9, <1>10 DEF Kept

\* A value that is below another one counts on to the next.
LEMMA NextValue ==
  ASSUME NEW n \in Nat \ {0}, NEW c \in Int, NEW m \in 0..(n - 1), c % n < m
  PROVE  (c + 1) % n = (c % n) + 1
  <1> DEFINE p == c \div n
             e == p * n
  <1>1. p \in Int /\ c = e + (c % n) /\ c % n \in 0..(n - 1) /\ e \in Int
    <2>1. p \in Int /\ c = p * n + (c % n) /\ c % n \in 0..(n - 1)
      BY Floor
    <2> HIDE DEF p
    <2> QED
      BY <2>1
  <1> HIDE DEF e, p
  <1>2. e <= c + 1 /\ c + 1 < e + n /\ c + 1 \in Int
    BY <1>1
  <1>3. (c + 1) % n = (c + 1) - e
    BY <1>1, <1>2, Quotient DEF e
  <1> QED
    BY <1>1, <1>3

\* Seconds and minutes of a time, on any clock.
LEMMA SecondsMinutes ==
  ASSUME NEW z, Orderly(z), NEW u \in Int
  PROVE  /\ Fields(z, u)[1] = u % SecondsPerMinute
         /\ Fields(z, u)[2] = (u \div SecondsPerMinute) % MinutesPerHour
  <1> DEFINE c == u \div SecondsPerMinute
             o == z.base + (IF Summer(z, u) THEN 1 ELSE 0)
  <1>1. /\ Clock(z, u) % SecondsPerMinute = u % SecondsPerMinute
        /\ Clock(z, u) \div SecondsPerMinute = c + o * MinutesPerHour
    BY HoursOfClock
  <1>2. c \in Int /\ o \in Int /\ MinutesPerHour \in Nat \ {0}
    BY Units, Floor DEF Orderly
  <1> HIDE DEF c, o
  <1>3. (c + o * MinutesPerHour) % MinutesPerHour = c % MinutesPerHour
    BY <1>2, Shifted
  <1> QED
    BY <1>1, <1>3 DEF Fields, c

\* The next minute.
LEMMA MinutesOn ==
  ASSUME NEW z, Orderly(z), NEW u \in Int,
         NEW s, s = Truncated(u) \/ (s = u /\ AtMinute(z, u)), NEW v, v = s + SecondsPerMinute
  PROVE  /\ v \in Int /\ u < v /\ AtMinute(z, v)
         /\ v \div SecondsPerMinute = (u \div SecondsPerMinute) + 1
         /\ \A x \in u..(v - 1) : x \in Int /\ SameMinute(z, u, x) /\ SameHour(z, u, x)
  <1> DEFINE n == SecondsPerMinute
             p == u \div n
  <1>1. n \in Nat \ {0}
    BY Units
  <1>2. p \in Int /\ p * n <= u /\ u < p * n + n /\ u = p * n + (u % n) /\ p * n \in Int
    <2>1. p \in Int /\ p * n <= u /\ u < p * n + n /\ u = p * n + (u % n)
      BY <1>1, Floor
    <2> HIDE DEF p
    <2> QED
      BY <1>1, <2>1
  <1>3. s = p * n
    <2>1. CASE s = u /\ AtMinute(z, u)
      <3>1. u % n = 0
        BY <2>1, HoursOfClock DEF AtMinute
      <3> DEFINE e == p * n
      <3> HIDE DEF e
      <3>2. u = e + 0 /\ e \in Int
        BY <1>2, <3>1 DEF e
      <3>3. u = e
        BY <3>2
      <3> QED
        BY <2>1, <3>3 DEF e
    <2> QED
      BY <2>1 DEF Truncated
  <1> HIDE DEF n, p
  <1>4. s \in Int /\ v \in Int /\ s <= u /\ u < v /\ v = s + n
    BY <1>1, <1>2, <1>3 DEF n
  <1>5. ASSUME NEW x \in Int, u <= x, x < v PROVE SameMinute(z, u, x) /\ SameHour(z, u, x)
    <2>1. p * n <= x /\ x < p * n + n
      BY <1>1, <1>2, <1>3, <1>4, <1>5
    <2>2. x \div n = p
      BY <1>1, <1>2, <2>1, Quotient
    <2> QED
      BY <2>2, HourUnchanged DEF p, n
  <1>6. v % n = 0 /\ v \div n = p + 1
    <2>1. v = (p + 1) * n /\ p + 1 \in Int
      BY <1>1, <1>2, <1>3, <1>4
    <2> QED
      BY <1>1, <2>1, UnitBegins
  <1>7. AtMinute(z, v)
    BY <1>4, <1>6, HoursOfClock DEF AtMinute, n
  <1>8. \A x \in u..(v - 1) : x \in Int /\ SameMinute(z, u, x) /\ SameHour(z, u, x)
    BY <1>4, <1>5
  <1> QED
    BY <1>4, <1>6, <1>7, <1>8 DEF p, n

\* The loop for the minutes.
LEMMA MinuteKept ==
  ASSUME NEW q \in Queries, Spared(q), NEW b, NEW u, NEW again, Kept("minute", q, b, u, again),
         ~BitIn(q.zone, b, 2, u), NEW s, again => s = u, ~again => s = Truncated(u),
         NEW v, v = s + SecondsPerMinute,
         NEW next, next = IF Fields(q.zone, v)[2] = 0 THEN "WRAP" ELSE "minute"
  PROVE  Kept(next, q, b, v, TRUE)
  <1> DEFINE z == q.zone
  <1>1. /\ u \in Int /\ Dated(z, u) /\ YearOf(z, u) <= LastYear(q) /\ BitIn(z, b, 3, u)
        /\ DayIn(z, b, u) \/ Astray("minute", z, b, u)
        /\ again => AtMinute(z, u)
    BY DEF Kept, Settled, Came
  <1>2. Orderly(z)
    BY ZoneFacts
  <1>3. /\ v \in Int /\ u < v /\ AtMinute(z, v)
        /\ v \div SecondsPerMinute = (u \div SecondsPerMinute) + 1
        /\ \A x \in u..(v - 1) : x \in Int /\ SameMinute(z, u, x) /\ SameHour(z, u, x)
    BY <1>1, <1>2, MinutesOn
  <1>4. Clock(z, u) \in Int /\ Clock(z, v) \in Int
    BY <1>1, <1>2, <1>3, Offsets
  <1>5. /\ Dated(z, v) /\ FirstDay(q) <= DayOf(z, v) /\ Since("hour", q, b, v)
        /\ \A g : Aim(q, b, g) => v <= g
        /\ SameHour(z, u, v) \/ AtHour(z, v)
        /\ \/ /\ SameDay(z, u, v) /\ BitIn(z, b, 5, v) /\ (DayIn(z, b, v) <=> DayIn(z, b, u))
              /\ YearOf(z, v) = YearOf(z, u)
           \/ AtDay(z, v) /\ (BitIn(z, b, 5, v) \/ AtMonth(z, v))
           \/ /\ v = z.spring /\ Skipped(z, DayOf(z, v)) /\ BitIn(z, b, 5, v)
              /\ YearOf(z, v) = YearOf(z, u)
    <2>1. ASSUME NEW x \in u..(v - 1) PROVE SameHour(z, u, x) /\ ~Hits(z, b, x)
      <3>1. SameMinute(z, u, x) /\ SameHour(z, u, x) /\ Clock(z, x) \in Int
        BY <1>2, <1>3, Offsets
      <3> QED
        BY <1>4, <3>1, MatchAlike DEF Hits
    <2> QED
      BY <1>3, <2>1, InHourKept
  <1>6. /\ next \in {"WRAP", "minute"}
        /\ next = "WRAP" => AtHour(z, v)
        /\ next = "minute" => ~AtHour(z, v) /\ ~AtDay(z, v) /\ SameHour(z, u, v)
    <2>1. /\ AtHour(z, v) => Fields(z, v)[2] = 0
          /\ AtDay(z, v) => AtHour(z, v)
      BY <1>4, StartsNested
    <2>2. Fields(z, v)[2] = 0 => AtHour(z, v)
      BY <1>3, <1>4, MidnightHour
    <2> QED
      BY <1>5, <2>1, <2>2
  <1>7. ASSUME Astray("minute", z, b, u), SameDay(z, u, v)
        PROVE  next = "minute" /\ Astray("minute", z, b, v)
    <2>1. PICK m \in b[2] : Fields(z, u)[2] <= m /\ m \in 0..(MinutesPerHour - 1)
      BY <1>7 DEF Astray
    <2> DEFINE p == u \div SecondsPerMinute
    <2>2. /\ Fields(z, u)[2] = p % MinutesPerHour /\ Fields(z, v)[2] = (p + 1) % MinutesPerHour
          /\ p \in Int /\ MinutesPerHour \in Nat \ {0} /\ p % MinutesPerHour \in Int
      <3>1. p \in Int /\ MinutesPerHour \in Nat \ {0}
        BY <1>1, Units, Floor
      <3> HIDE DEF p
      <3>2. p % MinutesPerHour \in 0..(MinutesPerHour - 1)
        BY <3>1, Floor
      <3> QED
        BY <1>1, <1>2, <1>3, <3>1, <3>2, SecondsMinutes DEF p
    <2> HIDE DEF p
    <2>3. Fields(z, u)[2] # m
      BY DEF BitIn
    <2>4. p % MinutesPerHour < m
      BY <2>1, <2>2, <2>3
    <2>5. Fields(z, v)[2] = (p % MinutesPerHour) + 1
      BY <2>1, <2>2, <2>4, NextValue
    <2>6. p % MinutesPerHour \in 0..(MinutesPerHour - 1)
      BY <2>2, Floor
    <2>7. Fields(z, v)[2] # 0 /\ Fields(z, v)[2] <= m
      BY <2>1, <2>4, <2>5, <2>6
    <2>8. Skipped(z, DayOf(z, v))
      BY <1>7 DEF Astray, SameDay
    <2>9. Astray("minute", z, b, v)
      BY <1>3, <2>1, <2>7, <2>8 DEF Astray
    <2> QED
      BY <2>7, <2>9
  <1>8. Settled(next, z, b, v)
    <2>1. BitIn(z, b, 5, v) \/ AtMonth(z, v)
      BY <1>5
    <2>2. next = "WRAP" => DayIn(z, b, v) \/ AtDay(z, v) \/ Beside(z, v)
      BY <1>1, <1>5, <1>7 DEF Beside
    <2>3. BitIn(z, b, 3, v) \/ AtHour(z, v)
      BY <1>1, <1>4, <1>5, MatchAlike
    <2> QED
      BY <1>3, <1>6, <2>1, <2>2, <2>3 DEF Settled
  <1>9. SameDay(z, u, v) \/ next = "WRAP"
    BY <1>4, <1>6, SameFields
  <1>10. Came(next, z, b, v) /\ (next # "WRAP" => YearOf(z, v) <= LastYear(q))
    <2>1. ASSUME next = "minute"
          PROVE  /\ BitIn(z, b, 5, v) /\ BitIn(z, b, 3, v) /\ (DayIn(z, b, v) \/ Astray("minute", z, b, v))
                 /\ YearOf(z, v) <= LastYear(q)
      <3>1. SameDay(z, u, v) /\ SameHour(z, u, v)
        BY <1>6, <1>9, <2>1
      <3>2. BitIn(z, b, 5, v) /\ BitIn(z, b, 3, v) /\ (DayIn(z, b, v) <=> DayIn(z, b, u))
        BY <1>1, <1>4, <1>5, <1>6, <2>1, <3>1, MatchAlike
      <3>3. YearOf(z, v) = YearOf(z, u)
        BY <3>1, DatedAlike
      <3> QED
        BY <1>1, <1>7, <3>1, <3>2, <3>3
    <2> QED
      BY <1>6, <2>1 DEF Came
  <1>11. Since(next, q, b, v)
    BY <1>5 DEF Since
  <1> QED
    BY <1>3, <1>5, <1>8, <1>10, <1>11 DEF Kept

\* The loop for the seconds.
LEMMA SecondKept ==
  ASSUME NEW q \in Queries, Spared(q), NEW b, NEW u, NEW again, Kept("second", q, b, u, again),
         ~BitIn(q.zone, b, 1, u), NEW v, v = u + 1,
         NEW next, next = IF Fields(q.zone, v)[1] = 0 THEN "WRAP" ELSE "second"
  PROVE  Kept(next, q, b, v, TRUE)
  <1> DEFINE z == q.zone
  <1>1. /\ u \in Int /\ Dated(z, u) /\ YearOf(z, u) <= LastYear(q)
        /\ BitIn(z, b, 2, u) /\ BitIn(z, b, 3, u)
        /\ DayIn(z, b, u) \/ Astray("second", z, b, u)
    BY DEF Kept, Came
  <1>2. Orderly(z)
    BY ZoneFacts
  <1>3. v \in Int /\ u < v /\ u..(v - 1) = {u}
    BY <1>1
  <1>4. Clock(z, u) \in Int /\ Clock(z, v) \in Int
    BY <1>1, <1>2, <1>3, Offsets
  <1>5. /\ Dated(z, v) /\ FirstDay(q) <= DayOf(z, v) /\ Since("hour", q, b, v)
        /\ \A g : Aim(q, b, g) => v <= g
        /\ SameHour(z, u, v) \/ AtHour(z, v)
        /\ \/ /\ SameDay(z, u, v) /\ BitIn(z, b, 5, v) /\ (DayIn(z, b, v) <=> DayIn(z, b, u))
              /\ YearOf(z, v) = YearOf(z, u)
           \/ AtDay(z, v) /\ (BitIn(z, b, 5, v) \/ AtMonth(z, v))
           \/ /\ v = z.spring /\ Skipped(z, DayOf(z, v)) /\ BitIn(z, b, 5, v)
              /\ YearOf(z, v) = YearOf(z, u)
    <2>1. \A x \in u..(v - 1) : SameHour(z, u, x) /\ ~Hits(z, b, x)
      BY <1>3 DEF SameHour, Hits
    <2> QED
      BY <1>3, <2>1, InHourKept
  <1>6. SameMinute(z, u, v) \/ AtMinute(z, v)
    BY <1>1, <1>2, NextSecondAlways
  <1>7. /\ next \in {"WRAP", "second"}
        /\ next = "WRAP" => AtMinute(z, v)
        /\ next = "second" => ~AtMinute(z, v) /\ SameMinute(z, u, v) /\ SameHour(z, u, v) /\ SameDay(z, u, v)
    <2>1. AtMinute(z, v) <=> Fields(z, v)[1] = 0
      BY <1>4, StartsNested
    <2>2. SameMinute(z, u, v) => SameHour(z, u, v)
      BY <1>4, SameFields
    <2>3. SameHour(z, u, v) => SameDay(z, u, v)
      BY <1>4, SameFields
    <2> QED
      BY <1>6, <2>1, <2>2, <2>3
  <1>8. ASSUME Astray("second", z, b, u), SameDay(z, u, v)
        PROVE  next = "second" /\ Astray("second", z, b, v)
    <2>1. PICK m \in b[1] : Fields(z, u)[1] <= m /\ m \in 0..(SecondsPerMinute - 1)
      BY <1>8 DEF Astray
    <2> DEFINE n == SecondsPerMinute
    <2>2. /\ Fields(z, u)[1] = u % n /\ Fields(z, v)[1] = (u + 1) % n
          /\ n \in Nat \ {0} /\ u % n \in 0..(n - 1)
      BY <1>1, <1>2, <1>3, Units, Floor, SecondsMinutes
    <2>3. Fields(z, u)[1] # m
      BY DEF BitIn
    <2> HIDE DEF n
    <2>4. u % n < m /\ m \in 0..(n - 1)
      BY <2>1, <2>2, <2>3 DEF n
    <2>5. Fields(z, v)[1] = (u % n) + 1
      BY <1>1, <2>2, <2>4, NextValue
    <2>6. Fields(z, v)[1] # 0 /\ Fields(z, v)[1] <= m
      BY <2>2, <2>4, <2>5
    <2>7. Skipped(z, DayOf(z, v))
      BY <1>8 DEF Astray, SameDay
    <2>8. Astray("second", z, b, v)
      BY <2>1, <2>6, <2>7 DEF Astray
    <2> QED
      BY <2>6, <2>8
  <1>9. Settled(next, z, b, v)
    <2>1. BitIn(z, b, 5, v) \/ AtMonth(z, v)
      BY <1>5
    <2>2. next = "WRAP" => DayIn(z, b, v) \/ AtDay(z, v) \/ Beside(z, v)
      BY <1>1, <1>5, <1>8 DEF Beside
    <2>3. BitIn(z, b, 3, v) \/ AtHour(z, v)
      BY <1>1, <1>4, <1>5, MatchAlike
    <2>4. BitIn(z, b, 2, v) \/ AtMinute(z, v)
      BY <1>1, <1>4, <1>6, MatchAlike
    <2> QED
      BY <1>7, <2>1, <2>2, <2>3, <2>4 DEF Settled
  <1>10. Came(next, z, b, v) /\ (next # "WRAP" => YearOf(z, v) <= LastYear(q))
    <2>1. ASSUME next = "second"
          PROVE  /\ BitIn(z, b, 5, v) /\ BitIn(z, b, 3, v) /\ BitIn(z, b, 2, v)
                 /\ DayIn(z, b, v) \/ Astray("second", z, b, v)
                 /\ YearOf(z, v) <= LastYear(q)
      <3>1. BitIn(z, b, 3, v) /\ BitIn(z, b, 2, v) /\ (DayIn(z, b, v) <=> DayIn(z, b, u))
        BY <1>1, <1>4, <1>7, <2>1, MatchAlike
      <3>2. YearOf(z, v) = YearOf(z, u)
        BY <1>7, <2>1, DatedAlike
      <3>3. BitIn(z, b, 5, u)
        BY DEF Kept, Came
      <3>4. BitIn(z, b, 5, v)
        BY <1>4, <1>7, <2>1, <3>3, MatchAlike
      <3> QED
        BY <1>1, <1>7, <1>8, <2>1, <3>1, <3>2, <3>4
    <2> QED
      BY <1>7, <2>1 DEF Came
  <1>11. Since(next, q, b, v)
    BY <1>5 DEF Since
  <1> QED
    BY <1>3, <1>5, <1>9, <1>10, <1>11 DEF Kept

\* On to the next loop, or from WRAP to the first.
LEMMA OnKept ==
  ASSUME NEW q \in Queries, NEW b, NEW u, NEW again, NEW place, Kept(place, q, b, u, again),
         \E m \in b[1] : m \in 0..(SecondsPerMinute - 1),
         \E m \in b[2] : m \in 0..(MinutesPerHour - 1)
  PROVE  /\ place = "WRAP" /\ YearOf(q.zone, u) <= LastYear(q) => Kept("month", q, b, u, again)
         /\ place = "month" /\ BitIn(q.zone, b, 5, u) => Kept("day", q, b, u, again)
         /\ place = "day" /\ DayIn(q.zone, b, u) => Kept("hour", q, b, u, again)
         /\ place = "hour" /\ BitIn(q.zone, b, 3, u) => Kept("minute", q, b, u, again)
         /\ place = "minute" /\ BitIn(q.zone, b, 2, u) => Kept("second", q, b, u, again)
  <1> DEFINE z == q.zone
  <1>1. u \in Int /\ Orderly(z) /\ Clock(z, u) \in Int
    BY ZoneFacts, Offsets DEF Kept
  <1>2. place = "WRAP" /\ YearOf(z, u) <= LastYear(q) => Kept("month", q, b, u, again)
    BY DEF Kept, Since, Settled, Came
  <1>3. place = "month" /\ BitIn(z, b, 5, u) => Kept("day", q, b, u, again)
    BY DEF Kept, Since, Settled, Came
  <1>4. place = "day" /\ DayIn(z, b, u) => Kept("hour", q, b, u, again)
    BY DEF Kept, Since, Settled, Came
  <1>5. ASSUME place = "hour", BitIn(z, b, 3, u) PROVE Kept("minute", q, b, u, again)
    <2>1. Astray("hour", z, b, u) => Astray("minute", z, b, u)
      <3> SUFFICES ASSUME Skipped(z, DayOf(z, u)), AtHour(z, u) PROVE Astray("minute", z, b, u)
        BY DEF Astray
      <3>1. AtMinute(z, u) /\ Fields(z, u)[2] = 0
        BY <1>1, StartsNested
      <3>2. \E m \in b[2] : 0 <= m /\ m \in 0..(MinutesPerHour - 1)
        BY Units
      <3> QED
        BY <3>1, <3>2 DEF Astray
    <2>2. DayIn(z, b, u) \/ Astray("minute", z, b, u)
      BY <1>5, <2>1 DEF Kept, Came
    <2>3. Came("minute", z, b, u)
      BY <1>5, <2>2 DEF Kept, Came
    <2> QED
      BY <1>5, <2>3 DEF Kept, Since, Settled
  <1>6. ASSUME place = "minute", BitIn(z, b, 2, u) PROVE Kept("second", q, b, u, again)
    <2>1. Astray("minute", z, b, u) => Astray("second", z, b, u)
      <3> SUFFICES ASSUME Skipped(z, DayOf(z, u)), AtMinute(z, u) PROVE Astray("second", z, b, u)
        BY DEF Astray
      <3>1. Fields(z, u)[1] = 0
        BY <1>1, StartsNested
      <3>2. \E m \in b[1] : 0 <= m /\ m \in 0..(SecondsPerMinute - 1)
        BY Units
      <3> QED
        BY <3>1, <3>2 DEF Astray
    <2>2. DayIn(z, b, u) \/ Astray("second", z, b, u)
      BY <1>6, <2>1 DEF Kept, Came
    <2>3. Came("second", z, b, u)
      BY <1>6, <2>2 DEF Kept, Came
    <2> QED
      BY <1>6, <2>3 DEF Kept, Since, Settled
  <1> QED
    BY <1>2, <1>3, <1>4, <1>5, <1>6

\* The end of a search, beyond the limit or in the last loop.
LEMMA EndKept ==
  ASSUME NEW q \in Queries, Spared(q), NEW b, NEW u, NEW again, NEW place, Kept(place, q, b, u, again)
  PROVE  /\ YearOf(q.zone, u) > LastYear(q) => Ended(q, b, 0)
         /\ place = "second" /\ BitIn(q.zone, b, 1, u) => Ended(q, b, u)
  <1> DEFINE z == q.zone
  <1>1. u \in Int /\ Dated(z, u) /\ \A g : Aim(q, b, g) => u <= g
    BY DEF Kept
  <1>2. Orderly(z) /\ q.from \in Nat /\ LastYear(q) \in Nat
    BY ZoneFacts, QueryFacts
  <1>3. ASSUME YearOf(z, u) > LastYear(q) PROVE Ended(q, b, 0)
    <2>1. ASSUME NEW g, Aim(q, b, g) PROVE FALSE
      <3>1. g \in Int /\ u <= g /\ Dated(z, g) /\ YearOf(z, g) <= LastYear(q)
        BY <1>1, <2>1, AimFacts
      <3>2. YearOf(z, u) <= YearOf(z, g) /\ YearOf(z, u) \in Nat /\ YearOf(z, g) \in Nat
        BY <1>1, <1>2, <3>1, YearsInOrder
      <3> QED
        BY <1>2, <1>3, <3>1, <3>2
    <2> QED
      BY <2>1 DEF Ended
  <1>4. ASSUME place = "second", BitIn(z, b, 1, u) PROVE Ended(q, b, u)
    <2>1. /\ BitIn(z, b, 2, u) /\ BitIn(z, b, 3, u) /\ BitIn(z, b, 5, u)
          /\ DayIn(z, b, u) \/ Astray("second", z, b, u)
          /\ YearOf(z, u) <= LastYear(q) /\ FirstDay(q) <= DayOf(z, u)
          /\ Since("second", q, b, u)
      BY <1>4 DEF Kept, Came
    <2>2. q.from + 1 <= u /\ u # 0
      BY <1>1, <1>2, <2>1 DEF Since
    <2>3. u \in Searched(q)
      BY <1>1, <2>1, <2>2, InCalendar
    <2>4. DayIn(z, b, u) => Hits(z, b, u)
      BY <1>4, <2>1 DEF Hits
    <2>5. ASSUME Skipped(z, DayOf(z, u)) PROVE DayOf(z, u) \in Bad(q)
      <3> DEFINE d == DayOf(z, u)
      <3>1. d \in Nat /\ d < LastDay /\ LastDay \in Int /\ FirstDay(q) <= d
        BY <1>1, <2>1, WithinLimit, ZoneFacts
      <3> HIDE DEF d
      <3>2. d \in Int /\ d <= LastDay
        BY <3>1
      <3>3. Skipped(z, d)
        BY <2>5 DEF d
      <3>4. d \in Bad(q)
        BY <3>1, <3>2, <3>3, NotBad
      <3> QED
        BY <3>4 DEF d
    <2> QED
      BY <1>1, <1>4, <2>1, <2>2, <2>3, <2>4, <2>5 DEF Ended, Astray
  <1> QED
    BY <1>3, <1>4

\* Once parsed, a field of seconds or minutes that names anything names a value the
\* clock shows.
LEMMA ClockShows ==
  ASSUME BitsInv, pc \in Loops \cup {"done"}
  PROVE  /\ bits[1] # {} => \E m \in bits[1] : m \in 0..(SecondsPerMinute - 1)
         /\ bits[2] # {} => \E m \in bits[2] : m \in 0..(MinutesPerHour - 1)
  <1> DEFINE text == query.text
  <1>1. /\ query \in Queries
        /\ text.descriptor \in {Absent, "@yearly", "@monthly", "@weekly", "@daily", "@hourly"}
        /\ text.fields \in Seq(FieldTexts)
        /\ Cardinality(Optionals(text.options)) <= 1
        /\ ~Invalid(text) /\ bits = MeantBits(text)
    BY BitsMeant
  <1>2. ASSUME NEW i \in 1..6, bits[i] # {}
        PROVE  \E m \in bits[i] : m \in Nat /\ m <= Bounds[i].max
    <2> DEFINE spec == SpecFields(text)
    <2> HIDE DEF text
    <2>1. MeantBits(text) = [j \in 1..6 |-> FieldBits(spec[j], j)]
      BY MeantByPlace
    <2>2. bits[i] = FieldBits(spec[i], i)
      <3> HIDE DEF spec
      <3> QED
        BY <1>1, <2>1
    <2> HIDE DEF spec
    <2>3. UpTo(FieldBits(spec[i], i), Bounds[i].max)
      BY <1>1, StarsMeant DEF spec
    <2> QED
      BY <1>2, <2>2, <2>3 DEF UpTo
  <1>3. /\ SecondsPerMinute \in Nat /\ Bounds[1].max \in Nat /\ Bounds[1].max < SecondsPerMinute
        /\ MinutesPerHour \in Nat /\ Bounds[2].max \in Nat /\ Bounds[2].max < MinutesPerHour
    BY BoundsFit, Units, ClockAssumption DEF Fits
  <1>4. bits[1] # {} => \E m \in bits[1] : m \in 0..(SecondsPerMinute - 1)
    BY <1>2, <1>3
  <1>5. bits[2] # {} => \E m \in bits[2] : m \in 0..(MinutesPerHour - 1)
    BY <1>2, <1>3
  <1> QED
    BY <1>4, <1>5

\* Each step of Next keeps to the way past the misleading midnights.
LEMMA KeptStep == BitsInv /\ NextInv /\ KeptInv /\ [Next]_vars => KeptInv'
  <1> SUFFICES ASSUME BitsInv, NextInv, KeptInv, [Next]_vars PROVE KeptInv'
    OBVIOUS
  <1> DEFINE q == query
             z == query.zone
             Sound == Spared(q) /\ bits[1] # {} /\ bits[2] # {}
  <1>1. q \in Queries
    BY DEF NextInv
  <1>2. CASE Normalize
    BY <1>2 DEF KeptInv, Normalize, Loops
  <1>3. CASE Begin
    <2>1. t' = q.from + 1 /\ added' = FALSE /\ query' = q /\ pc' \in {"rejected", "WRAP"}
      BY <1>3 DEF NextInv, Begin
    <2>2. Kept("WRAP", q, bits', q.from + 1, FALSE)
      <3> DEFINE b == bits'
                 u == q.from + 1
      <3>1. u \in Int /\ Dated(z, u) /\ FirstDay(q) <= DayOf(z, u)
        BY <1>1, QueryFacts
      <3>2. \A g : Aim(q, b, g) => u <= g
        BY <1>1, AimFacts
      <3>3. Since("WRAP", q, b, u) /\ Came("WRAP", z, b, u)
        BY <3>1 DEF Since, Came
      <3> HIDE DEF b, u
      <3>4. Kept("WRAP", q, b, u, FALSE)
        BY <3>1, <3>2, <3>3 DEF Kept, u
      <3> QED
        BY <3>4 DEF b, u
    <2> QED
      BY <2>1, <2>2 DEF KeptInv, Loops
  <1>4. ASSUME pc \in Loops, Sound
        PROVE  /\ Kept(pc, q, bits, t, added)
               /\ \E m \in bits[1] : m \in 0..(SecondsPerMinute - 1)
               /\ \E m \in bits[2] : m \in 0..(MinutesPerHour - 1)
    BY <1>4, ClockShows DEF KeptInv
  <1>5. ASSUME NEW next \in Loops, pc' = next, UNCHANGED <<query, bits>>,
               Sound => Kept(next, q, bits, t', added'),
               next = "second" => bits[2] # {}
        PROVE  KeptInv'
    BY <1>5 DEF KeptInv, Loops
  <1>6. CASE Wrap
    <2>1. /\ pc = "WRAP" /\ pc \in Loops /\ yearLimit = LastYear(q)
          /\ UNCHANGED <<query, bits, added>>
      BY <1>6 DEF NextInv, Wrap, Loops
    <2>2. CASE YearOf(z, t) > yearLimit
      <3>1. pc' = "done" /\ t' = 0
        BY <1>6, <2>2 DEF Wrap
      <3>2. Sound => Ended(q, bits, 0)
        BY <1>1, <1>4, <2>1, <2>2, EndKept
      <3> QED
        BY <2>1, <3>1, <3>2 DEF KeptInv, Loops
    <2>3. CASE ~(YearOf(z, t) > yearLimit)
      <3>1. pc' = "month" /\ t' = t
        BY <1>6, <2>3 DEF Wrap
      <3>2. ASSUME Sound PROVE Kept("month", q, bits, t, added)
        <4>1. Kept("WRAP", q, bits, t, added)
          BY <1>4, <2>1, <3>2
        <4>2. YearOf(z, t) \in Nat /\ LastYear(q) \in Nat
          BY <1>1, <4>1, QueryFacts, YearsInOrder DEF Kept
        <4>3. YearOf(z, t) <= LastYear(q)
          BY <2>1, <2>3, <4>2
        <4> QED
          BY <1>1, <1>4, <2>1, <3>2, <4>1, <4>3, OnKept
      <3> QED
        BY <1>5, <2>1, <3>1, <3>2 DEF Loops
    <2> QED
      BY <2>2, <2>3
  <1>7. ASSUME pc \in Loops, NEW i, NEW first, added' = TRUE,
               pc' = IF Fields(z, t')[i] = first THEN "WRAP" ELSE pc,
               UNCHANGED <<query, bits>>,
               Sound => Kept(IF Fields(z, t')[i] = first THEN "WRAP" ELSE pc, q, bits, t', TRUE)
        PROVE  KeptInv'
    <2>1. Sound => Kept(pc', q, bits, t', added')
      BY <1>7
    <2>2. pc' \in Loops /\ (pc' = "second" => pc = "second")
      BY <1>7 DEF Loops
    <2>3. pc = "second" => bits[2] # {}
      BY DEF KeptInv
    <2> QED
      BY <1>5, <1>7, <2>1, <2>2, <2>3
  <1>8. CASE MonthLoop
    <2> DEFINE s == From(MonthReset(z, t))
    <2>1. /\ pc = "month" /\ pc \in Loops /\ UNCHANGED <<query, bits>>
          /\ IF BitIn(z, bits, 5, t) THEN pc' = "day" /\ UNCHANGED <<t, added>>
             ELSE /\ t' = NextMonth(z, s) /\ added' = TRUE
                  /\ pc' = IF Fields(z, t')[5] = 1 THEN "WRAP" ELSE pc
      BY <1>8 DEF MonthLoop, Loop, Loops, Bit, BitIn
    <2>2. CASE BitIn(z, bits, 5, t)
      <3>1. Sound => Kept("day", q, bits, t, added)
        BY <1>1, <1>4, <2>1, <2>2, OnKept
      <3> QED
        BY <1>5, <2>1, <2>2, <3>1 DEF Loops
    <2>3. CASE ~BitIn(z, bits, 5, t)
      <3>1. (added => s = t) /\ (~added => s = MonthReset(z, t))
        BY DEF From
      <3>2. ASSUME Sound
            PROVE  Kept(IF Fields(z, t')[5] = 1 THEN "WRAP" ELSE "month", q, bits, t', TRUE)
        <4> DEFINE v    == t'
                   next == IF Fields(z, v)[5] = 1 THEN "WRAP" ELSE "month"
        <4>1. Kept("month", q, bits, t, added) /\ v = NextMonth(z, s)
          BY <1>4, <2>1, <2>3, <3>2
        <4> HIDE DEF s, v
        <4>2. next = IF Fields(z, v)[5] = 1 THEN "WRAP" ELSE "month"
          OBVIOUS
        <4>3. Spared(q) /\ z = q.zone
          BY <3>2
        <4> HIDE DEF next, z, q
        <4>4. Kept(next, q, bits, v, TRUE)
          BY <1>1, <2>3, <3>1, <4>1, <4>2, <4>3, MonthKept
        <4> QED
          BY <4>4 DEF next, v, z, q
      <3> QED
        BY <1>7, <2>1, <2>3, <3>2
    <2> QED
      BY <2>2, <2>3
  <1>9. CASE DayLoop
    <2> DEFINE s == From(DayReset(z, t))
    <2>1. /\ pc = "day" /\ pc \in Loops /\ UNCHANGED <<query, bits>>
          /\ IF DayIn(z, bits, t) THEN pc' = "hour" /\ UNCHANGED <<t, added>>
             ELSE /\ t' = NextDay(z, s) /\ added' = TRUE
                  /\ pc' = IF Fields(z, t')[4] = 1 THEN "WRAP" ELSE pc
      BY <1>9 DEF DayLoop, Loop, Loops, DayMatches, DayIn, Bit, BitIn
    <2>2. CASE DayIn(z, bits, t)
      <3>1. Sound => Kept("hour", q, bits, t, added)
        BY <1>1, <1>4, <2>1, <2>2, OnKept
      <3> QED
        BY <1>5, <2>1, <2>2, <3>1 DEF Loops
    <2>3. CASE ~DayIn(z, bits, t)
      <3>1. (added => s = t) /\ (~added => s = DayReset(z, t))
        BY DEF From
      <3>2. ASSUME Sound
            PROVE  Kept(IF Fields(z, t')[4] = 1 THEN "WRAP" ELSE "day", q, bits, t', TRUE)
        <4> DEFINE v    == t'
                   next == IF Fields(z, v)[4] = 1 THEN "WRAP" ELSE "day"
        <4>1. Kept("day", q, bits, t, added) /\ v = NextDay(z, s)
          BY <1>4, <2>1, <2>3, <3>2
        <4> HIDE DEF s, v
        <4>2. next = IF Fields(z, v)[4] = 1 THEN "WRAP" ELSE "day"
          OBVIOUS
        <4>3. Spared(q) /\ z = q.zone
          BY <3>2
        <4> HIDE DEF next, z, q
        <4>4. Kept(next, q, bits, v, TRUE)
          BY <1>1, <2>3, <3>1, <4>1, <4>2, <4>3, DayKept
        <4> QED
          BY <4>4 DEF next, v, z, q
      <3> QED
        BY <1>7, <2>1, <2>3, <3>2
    <2> QED
      BY <2>2, <2>3
  <1>10. CASE HourLoop
    <2> DEFINE s == From(HourReset(z, t))
    <2>1. /\ pc = "hour" /\ pc \in Loops /\ UNCHANGED <<query, bits>>
          /\ IF BitIn(z, bits, 3, t) THEN pc' = "minute" /\ UNCHANGED <<t, added>>
             ELSE /\ t' = s + Hour /\ added' = TRUE
                  /\ pc' = IF Fields(z, t')[3] = 0 THEN "WRAP" ELSE pc
      BY <1>10 DEF HourLoop, Loop, Loops, Bit, BitIn
    <2>2. CASE BitIn(z, bits, 3, t)
      <3>1. Sound => Kept("minute", q, bits, t, added)
        BY <1>1, <1>4, <2>1, <2>2, OnKept
      <3> QED
        BY <1>5, <2>1, <2>2, <3>1 DEF Loops
    <2>3. CASE ~BitIn(z, bits, 3, t)
      <3>1. (added => s = t) /\ (~added => s = HourReset(z, t))
        BY DEF From
      <3>2. ASSUME Sound
            PROVE  Kept(IF Fields(z, t')[3] = 0 THEN "WRAP" ELSE "hour", q, bits, t', TRUE)
        <4> DEFINE v    == t'
                   next == IF Fields(z, v)[3] = 0 THEN "WRAP" ELSE "hour"
        <4>1. Kept("hour", q, bits, t, added) /\ v = s + Hour
          BY <1>4, <2>1, <2>3, <3>2
        <4> HIDE DEF s, v
        <4>2. next = IF Fields(z, v)[3] = 0 THEN "WRAP" ELSE "hour"
          OBVIOUS
        <4>3. Spared(q) /\ z = q.zone
          BY <3>2
        <4> HIDE DEF next, z, q
        <4>4. Kept(next, q, bits, v, TRUE)
          BY <1>1, <2>3, <3>1, <4>1, <4>2, <4>3, HourKept
        <4> QED
          BY <4>4 DEF next, v, z, q
      <3> QED
        BY <1>7, <2>1, <2>3, <3>2
    <2> QED
      BY <2>2, <2>3
  <1>11. CASE MinuteLoop
    <2> DEFINE s == From(Truncated(t))
    <2>1. /\ pc = "minute" /\ pc \in Loops /\ UNCHANGED <<query, bits>>
          /\ IF BitIn(z, bits, 2, t) THEN pc' = "second" /\ UNCHANGED <<t, added>>
             ELSE /\ t' = s + SecondsPerMinute /\ added' = TRUE
                  /\ pc' = IF Fields(z, t')[2] = 0 THEN "WRAP" ELSE pc
      BY <1>11 DEF MinuteLoop, Loop, Loops, Bit, BitIn
    <2>2. CASE BitIn(z, bits, 2, t)
      <3>1. Sound => Kept("second", q, bits, t, added)
        BY <1>1, <1>4, <2>1, <2>2, OnKept
      <3>2. bits[2] # {}
        BY <2>2 DEF BitIn
      <3> QED
        BY <1>5, <2>1, <2>2, <3>1, <3>2 DEF Loops
    <2>3. CASE ~BitIn(z, bits, 2, t)
      <3>1. (added => s = t) /\ (~added => s = Truncated(t))
        BY DEF From
      <3>2. ASSUME Sound
            PROVE  Kept(IF Fields(z, t')[2] = 0 THEN "WRAP" ELSE "minute", q, bits, t', TRUE)
        <4> DEFINE v    == t'
                   next == IF Fields(z, v)[2] = 0 THEN "WRAP" ELSE "minute"
        <4>1. Kept("minute", q, bits, t, added) /\ v = s + SecondsPerMinute
          BY <1>4, <2>1, <2>3, <3>2
        <4> HIDE DEF s, v
        <4>2. next = IF Fields(z, v)[2] = 0 THEN "WRAP" ELSE "minute"
          OBVIOUS
        <4>3. Spared(q) /\ z = q.zone
          BY <3>2
        <4> HIDE DEF next, z, q
        <4>4. Kept(next, q, bits, v, TRUE)
          BY <1>1, <2>3, <3>1, <4>1, <4>2, <4>3, MinuteKept
        <4> QED
          BY <4>4 DEF next, v, z, q
      <3> QED
        BY <1>7, <2>1, <2>3, <3>2
    <2> QED
      BY <2>2, <2>3
  <1>12. CASE SecondLoop
    <2>1. /\ pc = "second" /\ pc \in Loops /\ UNCHANGED <<query, bits>>
          /\ IF BitIn(z, bits, 1, t) THEN pc' = "done" /\ UNCHANGED <<t, added>>
             ELSE /\ t' = t + 1 /\ added' = TRUE
                  /\ pc' = IF Fields(z, t')[1] = 0 THEN "WRAP" ELSE pc
      <3>1. From(t) = t
        BY DEF From
      <3> QED
        BY <1>12, <3>1 DEF SecondLoop, Loop, Loops, Bit, BitIn
    <2>2. CASE BitIn(z, bits, 1, t)
      <3>1. Sound => Ended(q, bits, t)
        BY <1>1, <1>4, <2>1, <2>2, EndKept
      <3>2. bits[1] # {} /\ bits[2] # {}
        BY <2>1, <2>2 DEF BitIn, KeptInv
      <3> QED
        BY <2>1, <2>2, <3>1, <3>2 DEF KeptInv, Loops
    <2>3. CASE ~BitIn(z, bits, 1, t)
      <3>1. ASSUME Sound
            PROVE  Kept(IF Fields(z, t')[1] = 0 THEN "WRAP" ELSE "second", q, bits, t', TRUE)
        <4>1. Kept("second", q, bits, t, added) /\ t' = t + 1
          BY <1>4, <2>1, <2>3, <3>1
        <4> QED
          BY <1>1, <2>3, <3>1, <4>1, SecondKept
      <3> QED
        BY <1>7, <2>1, <2>3, <3>1
    <2> QED
      BY <2>2, <2>3
  <1>13. CASE UNCHANGED vars
    BY <1>13 DEF KeptInv, vars
  <1> QED
    BY <1>2, <1>3, <1>6, <1>8, <1>9, <1>10, <1>11, <1>12, <1>13 DEF Next

\* spec.go:112-131: for any calendar, any spec, any time and any zone whose clock is
\* changed by hours, a midnight that is skipped or repeated misleads Next only about
\* its own day, unless it is skipped on the first of a month.
THEOREM MidnightsHandled == Spec => []MidnightHandled
  <1> DEFINE Inv == BitsInv /\ NextInv /\ KeptInv
  <1>1. Init => Inv
    BY DEF Init, BitsInv, NextInv, KeptInv, Loops
  <1>2. Inv /\ [Next]_vars => Inv'
    BY BitsStep, NextStep, KeptStep
  <1>3. ASSUME Inv PROVE MidnightHandled
    <2> DEFINE q    == query
               z    == query.zone
               text == query.text
               due  == Due(query)
               bad  == Bad(query)
    <2> SUFFICES ASSUME pc = "done", Spared(q)
                 PROVE  /\ t # 0 =>
                             /\ \A i \in 1..3 : Fields(z, t)[i] \in Meaning(text).values[i]
                             /\ t \in due \/ DayOf(z, t) \in bad
                        /\ \A u \in due : t = 0 \/ u < t => DayOf(z, u) \in bad
      BY DEF MidnightHandled, Spared, Bad
    <2>1. q \in Queries /\ Orderly(z)
      BY <1>3, QueryFacts DEF NextInv
    <2>2. ASSUME NEW u \in Searched(q)
          PROVE  u \in Int /\ (u \in due <=> Hits(z, bits, u))
      BY <1>3, DueHits
    <2>3. \A u \in due : u \in Searched(q)
      BY DEF Due
    <2>4. Ended(q, bits, t)
      <3>1. CASE bits[1] # {} /\ bits[2] # {}
        BY <1>3, <3>1 DEF KeptInv
      <3>2. CASE ~(bits[1] # {} /\ bits[2] # {})
        <4>1. t = 0
          BY <1>3, <3>2 DEF KeptInv
        <4>2. \A g : ~Aim(q, bits, g)
          BY <3>2 DEF Aim, Hits, BitIn
        <4> QED
          BY <4>1, <4>2 DEF Ended
      <3> QED
        BY <3>1, <3>2
    <2>5. ASSUME t # 0
          PROVE  /\ \A i \in 1..3 : Fields(z, t)[i] \in Meaning(text).values[i]
                 /\ t \in due \/ DayOf(z, t) \in bad
      <3>1. /\ t \in Int /\ Dated(z, t)
            /\ \A i \in 1..3 : BitIn(z, bits, i, t)
            /\ (t \in Searched(q) /\ Hits(z, bits, t)) \/ DayOf(z, t) \in bad
        <4>1. \A i \in 1..3 : i = 1 \/ i = 2 \/ i = 3
          OBVIOUS
        <4> QED
          BY <2>4, <2>5, <4>1 DEF Ended
      <3>2. Clock(z, t) \in Int
        BY <2>1, <3>1, Offsets
      <3>3. /\ text.descriptor \in {Absent, "@yearly", "@monthly", "@weekly", "@daily", "@hourly"}
            /\ text.fields \in Seq(FieldTexts)
            /\ Cardinality(Optionals(text.options)) <= 1
            /\ ~Invalid(text) /\ bits = MeantBits(text)
        BY <1>3, BitsMeant
      <3> HIDE DEF text, z, due, bad
      <3>4. ASSUME NEW i \in 1..3 PROVE Fields(z, t)[i] \in Meaning(text).values[i]
        <4>1. i \in 1..6 /\ BitIn(z, bits, i, t)
          BY <3>1
        <4> QED
          BY <3>1, <3>2, <3>3, <4>1, BitsAreValues
      <3> QED
        BY <2>2, <3>1, <3>4
    <2>6. ASSUME NEW u \in due, t = 0 \/ u < t PROVE DayOf(z, u) \in bad
      <3>1. u \in Searched(q) /\ Hits(z, bits, u) /\ u \in Int
        BY <2>2, <2>3
      <3>2. ASSUME DayOf(z, u) \notin bad PROVE FALSE
        <4>1. Aim(q, bits, u)
          BY <3>1, <3>2 DEF Aim
        <4>2. t # 0 /\ t <= u /\ t \in Int
          BY <2>4, <4>1 DEF Ended
        <4> QED
          BY <2>6, <3>1, <4>2
      <3> QED
        BY <3>2
    <2> QED
      BY <2>5, <2>6
  <1> QED
    BY <1>1, <1>2, <1>3, PTL DEF Spec
=============================================================================
