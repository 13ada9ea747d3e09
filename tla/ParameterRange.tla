--------------------------- MODULE ParameterRange ---------------------------
(***************************************************************************)
(* Parameter intents: domain/parameter_intents.py and the scalar rules of  *)
(* domain/models.py.  An intent lists values, or gives a decimal range     *)
(* whose values are only generated after the whole Batch has been counted. *)
(*                                                                         *)
(* A decimal is its digits and its scale, the pair that _parse_decimal     *)
(* returns.  A scalar is its type and a value.  The value of a number is   *)
(* counted in units of 10^-UnitScale, so that 1 and 1.0 are the same       *)
(* number of two types; a string stands for all strings of its size in     *)
(* bytes.                                                                  *)
(***************************************************************************)
EXTENDS Integers, Sequences

CONSTANTS MaxSafe,         \* MAX_SAFE_INTEGER
          MaxRangeValues,  \* MAX_PARAMETER_RANGE_VALUES
          UnitScale,       \* the largest scale of a decimal of the instance
          Inexact          \* decimals that no float holds, in units of 10^-UnitScale

ASSUME RangeAssumption ==
  /\ MaxSafe \in Nat
  /\ MaxRangeValues \in Nat \ {0}
  /\ UnitScale \in Nat
  /\ Inexact \subseteq Int

Base == [type |-> "base", value |-> 0]      \* None: the value of the workflow
String(bytes) == [type |-> "string", value |-> bytes]
Boolean(bit) == [type |-> "boolean", value |-> bit]
Integer(n) == [type |-> "integer", value |-> n * 10^UnitScale]
Float(units) == [type |-> "float", value |-> units]

Numeric == {"integer", "float"}

Magnitude(n) == IF n < 0 THEN -n ELSE n

IsSafe(n) == -MaxSafe <= n /\ n <= MaxSafe

(* validate_parameter_scalar *)
IsScalar(v) == v.type = "integer" => IsSafe(v.value \div 10^UnitScale)

(* parameter_value_key: numbers compare together, booleans stay distinct. *)
ValueKey(v) == [type |-> IF v.type \in Numeric THEN "number" ELSE v.type, value |-> v.value]

IsBaseFirst(values) == \A i \in DOMAIN values : values[i] = Base => i = 1 \/ values[1] = Base

(* validate_parameter_alternatives *)
AreAlternatives(values) ==
  /\ values # <<>>
  /\ \A i \in DOMAIN values : values[i] # Base => IsScalar(values[i])
  /\ \A i, j \in DOMAIN values : i # j => ValueKey(values[i]) # ValueKey(values[j])
  /\ IsBaseFirst(values)

(* _validate_parameter_value: an integer may stand for a float. *)
Accepts(type, v) ==
  v = Base \/ v.type = type \/ (type = "float" /\ v.type = "integer")

-----------------------------------------------------------------------------
(* Ranges: [start, end, step], three decimals. *)
IsDecimalRange(range) ==
  \A d \in {range.start, range.end, range.step} : d.digits \in Int /\ d.scale \in 0..UnitScale

ScaleOf(range) ==
  CHOOSE s \in {range.start.scale, range.end.scale, range.step.scale} :
    \A d \in {range.start, range.end, range.step} : d.scale <= s

Aligned(decimal, scale) == decimal.digits * 10^(scale - decimal.scale)

RangeStart(range) == Aligned(range.start, ScaleOf(range))
RangeEnd(range) == Aligned(range.end, ScaleOf(range))
RangeStep(range) == Aligned(range.step, ScaleOf(range))

IsIntegral(range) ==
  \A n \in {RangeStart(range), RangeEnd(range), RangeStep(range)} :
    n % 10^ScaleOf(range) = 0

MovesToward(first, last, step) == first = last \/ (last > first <=> step > 0)

\* Seeded fault: the start is not counted.
CountOfSteps(first, last, step) == Magnitude(last - first) \div Magnitude(step)

(* Both ends count. *)
CountOf(first, last, step) == Magnitude(last - first) \div Magnitude(step) + 1

RangeCount(range) == CountOf(RangeStart(range), RangeEnd(range), RangeStep(range))

(* _range_metadata *)
IsRange(type, range) ==
  /\ type \in Numeric
  /\ RangeStep(range) # 0
  /\ type = "integer" => IsIntegral(range)
  /\ MovesToward(RangeStart(range), RangeEnd(range), RangeStep(range))
  /\ RangeCount(range) <= MaxRangeValues

(* The value at a zero-based index of a range. *)
ValueAt(first, step, index) == first + index * step

(* One value of a range as a scalar of the parameter's type. *)
RangeScalar(type, range, index) ==
  LET scaled == ValueAt(RangeStart(range), RangeStep(range), index)
  IN  IF type = "integer" THEN Integer(scaled \div 10^ScaleOf(range))
                          ELSE Float(scaled * 10^(UnitScale - ScaleOf(range)))

(* _materialize_range *)
RangeValues(type, intent) ==
  LET numbers == [i \in 1..RangeCount(intent.range) |-> RangeScalar(type, intent.range, i - 1)]
  IN  IF intent.base THEN <<Base>> \o numbers ELSE numbers

IsExact(v) == v.type = "float" => v.value \notin Inexact

(* An intent is [key, mode, values, base, range]. *)
IsIntent(type, intent) ==
  IF intent.mode = "values"
  THEN AreAlternatives(intent.values) /\ \A i \in DOMAIN intent.values : Accepts(type, intent.values[i])
  ELSE IsRange(type, intent.range)

(* parameter_binding_counts: one axis, without generating its values. *)
IntentCount(intent) ==
  IF intent.mode = "values" THEN Len(intent.values)
  ELSE RangeCount(intent.range) + (IF intent.base THEN 1 ELSE 0)

(* materialize_parameter_bindings: one axis. *)
IntentValues(type, intent) ==
  IF intent.mode = "values" THEN intent.values ELSE RangeValues(type, intent)

(* The errors that only materialization finds. *)
IsMaterial(type, intent) ==
  intent.mode = "range" =>
    LET values == RangeValues(type, intent)
    IN  AreAlternatives(values) /\ \A i \in DOMAIN values : IsExact(values[i])
=============================================================================
