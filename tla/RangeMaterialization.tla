------------------------ MODULE RangeMaterialization ------------------------
(***************************************************************************)
(* The loop of _materialize_range (domain/parameter_intents.py): the range *)
(* is counted first, and generated, value by value, only when its count    *)
(* is within the limit.                                                    *)
(***************************************************************************)
EXTENDS ParameterRange, FiniteSets

CONSTANTS Ranges,   \* what clients send, [start, end, step]
          Types     \* types of the parameter

ASSUME MaterializationAssumption ==
  /\ Types \subseteq {"string", "integer", "float", "boolean"}
  /\ \A range \in Ranges : IsDecimalRange(range)
  /\ \A n \in 0..UnitScale : 10^n \in Nat \ {0}      \* no prover computes powers

VARIABLES range, type, base,  \* the intent and its parameter
          pc,                 \* "count", "generate", "check", "done", "refused"
          counted,            \* the count of _range_metadata
          index,              \* index of the loop
          numbers             \* numeric

vars == <<range, type, base, pc, counted, index, numbers>>

Init ==
  /\ range \in Ranges
  /\ type \in Types
  /\ base \in BOOLEAN
  /\ pc = "count"
  /\ counted = 0
  /\ index = 0
  /\ numbers = <<>>

CountRange ==
  /\ pc = "count"
  /\ IF IsRange(type, range)
     THEN pc' = "generate" /\ counted' = RangeCount(range)
     ELSE pc' = "refused" /\ UNCHANGED counted
  /\ UNCHANGED <<range, type, base, index, numbers>>

MayAppend(v) == IF type = "integer" THEN IsScalar(v) ELSE IsExact(v)

Generated(v) == Append(numbers, v)

GenerateNext ==
  /\ pc = "generate"
  /\ index < counted
  /\ LET v == RangeScalar(type, range, index)
     IN  IF MayAppend(v)
         THEN /\ numbers' = Generated(v)
              /\ index' = index + 1
              /\ UNCHANGED pc
         ELSE pc' = "refused" /\ UNCHANGED <<index, numbers>>
  /\ UNCHANGED <<range, type, base, counted>>

IsGenerated == index = counted

(* validate_parameter_alternatives on the whole tuple. *)
CheckValues ==
  /\ pc = "generate"
  /\ IsGenerated
  /\ pc' = IF AreAlternatives(IF base THEN <<Base>> \o numbers ELSE numbers)
           THEN "done" ELSE "refused"
  /\ UNCHANGED <<range, type, base, counted, index, numbers>>

Next == CountRange \/ GenerateNext \/ CheckValues

Spec == Init /\ [][Next]_vars

-----------------------------------------------------------------------------
first == RangeStart(range)
last == RangeEnd(range)
step == RangeStep(range)

Low == IF first < last THEN first ELSE last
High == IF first < last THEN last ELSE first

(* The scaled integer behind a scalar. *)
Scaled(v) ==
  IF v.type = "integer" THEN (v.value \div 10^UnitScale) * 10^ScaleOf(range)
                        ELSE v.value \div 10^(UnitScale - ScaleOf(range))

TypeOK ==
  /\ range \in Ranges
  /\ type \in Types
  /\ base \in BOOLEAN
  /\ pc \in {"count", "generate", "done", "refused"}
  /\ counted \in Nat
  /\ index \in Nat
  /\ numbers \in Seq([type : Numeric, value : Int])
  /\ Len(numbers) = index

(* Whatever the decimals, no value lies outside the range, and the next    *)
(* step after the last would.                                              *)
StaysInRange ==
  pc \in {"generate", "done"} /\ index > 0 =>
    /\ Low <= ValueAt(first, step, index - 1)
    /\ ValueAt(first, step, index - 1) <= High

EndsAtTheEnd ==
  pc \in {"generate", "done"} =>
    LET beyond == ValueAt(first, step, counted) IN beyond < Low \/ beyond > High

(* The count that budgets the Batch is the number of values that are       *)
(* generated afterwards.                                                   *)
CountIsKept ==
  pc \in {"generate", "done"} =>
    /\ counted <= MaxRangeValues
    /\ index <= counted
    /\ pc = "done" => index = counted

(* A range is every step between its ends, exactly, and an integer range   *)
(* holds safe integers only (docs/BATCH_COMPILER.md).                      *)
RangeIsCovered ==
  pc = "done" =>
    /\ {Scaled(numbers[i]) : i \in DOMAIN numbers}
         = {n \in Low..High : \E k \in 0..(High - Low) : n = first + k * step}
    /\ \A i \in DOMAIN numbers : IsScalar(numbers[i]) /\ IsExact(numbers[i])

(* A counted range is refused later only for a number that JSON does not   *)
(* carry: generated values are never duplicates.                           *)
RefusedForPrecision ==
  pc = "refused" /\ counted > 0 =>
    LET v == RangeScalar(type, range, index) IN index < counted /\ (~IsScalar(v) \/ ~IsExact(v))

(* The values of a range are the steps from its start to its end, no fewer *)
(* and no more, and as many as the Batch was counted with before one of    *)
(* them was generated; what is refused after the count is refused for one  *)
(* number (_range_metadata, _materialize_range).                           *)
RangeIsRight ==
  /\ StaysInRange
  /\ EndsAtTheEnd
  /\ CountIsKept
  /\ RangeIsCovered
  /\ RefusedForPrecision

(* What makes this inductive: the index never leaves the count of a range  *)
(* that was accepted, and what was generated are its steps.                *)
RangeInvariant ==
  /\ TypeOK
  /\ CountIsKept
  /\ pc = "count" => index = 0 /\ counted = 0
  /\ pc \in {"generate", "done"} \/ (pc = "refused" /\ counted > 0) =>
       IsRange(type, range) /\ counted = RangeCount(range)
  /\ \A i \in 1..index : numbers[i] = RangeScalar(type, range, i - 1) /\ MayAppend(numbers[i])
  /\ pc = "refused" /\ counted > 0 => index < counted /\ ~MayAppend(RangeScalar(type, range, index))
=============================================================================
