---------------------------- MODULE BatchCompiler ----------------------------
(***************************************************************************)
(* From a request to a plan and back: a request is counted with stand-ins *)
(* for its ranges (to_creation_input), materialized, counted again and     *)
(* given its random seeds (preview_random_batch), compiled into Jobs       *)
(* (compile_batch), and what a Run stores of the plan is compared with     *)
(* what its Batch snapshot compiles to (validate_batch_plan).              *)
(*                                                                         *)
(* The four stages run the same function, _compile_batch: it checks the    *)
(* structure, counts one dimension at a time against what is left of the   *)
(* budget, and expands the dimensions, the rightmost fastest.              *)
(*                                                                         *)
(* A prompt is a sequence of literal chunks of one byte, of placeholders   *)
(* and of malformed delimiters; a value is its size in bytes and whether   *)
(* it holds a placeholder itself.  Labels and other metadata are left out. *)
(***************************************************************************)
EXTENDS ParameterRange, Sums, SequencesExt, FiniteSets

CONSTANTS Requests,        \* what clients send
          Limits,          \* [jobs, text]: max_jobs and MAX_BATCH_TEXT_BYTES
          MaxPromptBytes,
          MaxSeed,         \* MAX_SAFE_INTEGER for seeds
          Edits(_)         \* what a stored plan may have become

IsList(seq) == seq \in Seq(Range(seq))
IsSized(v) == v.type = "string" => v.value \in Nat
IsBound(x) == IF x.mode = "values" THEN IsList(x.values) /\ \A v \in Range(x.values) : IsSized(v)
              ELSE IsDecimalRange(x.range)
IsSeedInput(input) ==
  /\ DOMAIN input = {"mode", "values", "count"}
  /\ IsList(input.values) /\ input.count \in Nat /\ input.mode \in {"fixed", "explicit", "random"}

\* A request as it is parsed (BatchRequest, SeedRequest).
IsRequest(r) ==
  /\ DOMAIN r = {"prompts", "variables", "slots", "images", "parameters", "intents", "sets", "seeds"}
  /\ IsList(r.prompts) /\ \A p \in Range(r.prompts) : IsList(p.text)
  /\ IsList(r.variables) /\ \A b \in Range(r.variables) : IsList(b.values)
  /\ \A b \in Range(r.variables) : \A v \in Range(b.values) : v.bytes \in Nat
  /\ IsList(r.slots)
  /\ IsList(r.images) /\ \A b \in Range(r.images) : IsList(b.values)
  /\ IsList(r.parameters)
  /\ IsList(r.intents) /\ \A x \in Range(r.intents) : IsBound(x)
  /\ IsList(r.sets)
  /\ \A set \in Range(r.sets) :
       /\ IsList(set.members) /\ IsList(set.rows)
       /\ \A row \in Range(set.rows) : IsList(row) /\ \A v \in Range(row) : IsSized(v)
  /\ IsSeedInput(r.seeds)
  /\ r.seeds.mode = "random" => r.seeds.count # 0 /\ IsInjective(r.seeds.values)

CompilerAssumption ==
  /\ Limits \subseteq [jobs : Nat, text : Nat]
  /\ MaxPromptBytes \in Nat
  /\ MaxSeed \in Nat
  /\ \A r \in Requests : IsRequest(r)

VARIABLES limits,     \* the configuration of the server
          request,    \* the client's request
          stage,      \* "preflight", "count", "compile", "store", "validate", "end"
          seeds,      \* the seed input of the current stage
          stored,     \* the Jobs that the client holds of its preview, then the Run's files
          pc,         \* "check", "axis", "expand"
          prompt,     \* index of the prompt version being counted or expanded
          axis,       \* index of the next dimension to count
          product,    \* prompt_jobs
          total,      \* expected_jobs
          position,   \* random_seed_position
          digits,     \* the configuration to expand next, one index per dimension
          jobs,       \* the Jobs expanded so far
          outcome     \* "running", "planned", "accepted", or the stage that refused

vars == <<limits, request, stage, seeds, stored, pc, prompt, axis, product, total, position, digits,
          jobs, outcome>>

given == <<limits, request>>

MaxJobs == limits.jobs
MaxTextBytes == limits.text

Literal == "lit"
Malformed == "{{"
BadKey == ""

Nth(places, n) == CHOOSE i \in places : Cardinality({j \in places : j <= i}) = n
ElementsAt(seq, places) == [n \in 1..Cardinality(places) |-> seq[Nth(places, n)]]

FirstPlaces(seq) == {i \in DOMAIN seq : \A j \in 1..(i - 1) : seq[j] # seq[i]}
FirstOccurrences(seq) == ElementsAt(seq, FirstPlaces(seq))

(* extract_placeholder_names *)
Names(text) == ElementsAt(text, {i \in FirstPlaces(text) : text[i] # Literal})

KeysAreUnique(seq, Key(_)) == \A i, j \in DOMAIN seq : Key(seq[i]) = Key(seq[j]) => i = j

KeySet(seq, Key(_)) == {Key(seq[i]) : i \in DOMAIN seq}

Named(seq, name) == CHOOSE e \in Range(seq) : e.name = name
Keyed(seq, key) == CHOOSE e \in Range(seq) : e.key = key

TypeOf(key) == Keyed(request.parameters, key).type

(* The bindings of the current stage: the preflight has Base for a range. *)
BoundValues(intent) ==
  IF stage = "preflight" /\ intent.mode = "range" THEN <<Base>>
  ELSE IntentValues(TypeOf(intent.key), intent)

LinkedSetOf(key) == {set \in Range(request.sets) : key \in Range(set.members)}

-----------------------------------------------------------------------------
(* The structural checks of _compile_batch. *)
PromptsAreValid ==
  /\ request.prompts # <<>>
  /\ KeysAreUnique(request.prompts, LAMBDA p : p.id)
  /\ \A p \in Range(request.prompts) : Malformed \notin Range(p.text)

VariablesAreValid ==
  /\ KeysAreUnique(request.variables, LAMBDA b : b.name)
  /\ \A b \in Range(request.variables) : IsInjective(b.values)

PlaceholdersAreBound ==
  \A p \in Range(request.prompts) : \A name \in Range(Names(p.text)) :
    \E b \in Range(request.variables) : b.name = name /\ b.values # <<>>

ImagesAreBound ==
  /\ IsInjective(request.slots)
  /\ KeysAreUnique(request.images, LAMBDA b : b.key)
  /\ BadKey \notin Range(request.slots) \cup KeySet(request.images, LAMBDA b : b.key)
  /\ \A b \in Range(request.images) :
       /\ b.values # <<>>
       /\ IsInjective(b.values)
       /\ Base \in Range(b.values) => b.values[1] = Base
  /\ KeySet(request.images, LAMBDA b : b.key) = Range(request.slots)

LinkedSetIsValid(set) ==
  /\ set.key # BadKey
  /\ Len(set.members) >= 2
  /\ IsInjective(set.members)
  /\ Range(set.members) \subseteq KeySet(request.parameters, LAMBDA p : p.key)
  /\ set.rows # <<>>
  /\ \A row \in Range(set.rows) :
       /\ Len(row) = Len(set.members)
       /\ \A i \in DOMAIN row : Accepts(TypeOf(set.members[i]), row[i]) /\ IsScalar(row[i])
  /\ KeysAreUnique(set.rows, LAMBDA row : [i \in DOMAIN row |-> ValueKey(row[i])])

LinkedSetsAreValid ==
  /\ KeysAreUnique(request.sets, LAMBDA set : set.key)
  /\ \A set \in Range(request.sets) : LinkedSetIsValid(set)
  /\ \A p \in Range(request.parameters) : Cardinality(LinkedSetOf(p.key)) <= 1

Independent == KeySet(request.intents, LAMBDA intent : intent.key)

(* Every parameter has an independent binding or a linked set, not both. *)
ParametersAreCovered ==
  /\ Independent \subseteq KeySet(request.parameters, LAMBDA p : p.key)
  /\ \A p \in Range(request.parameters) : p.key \in Independent <=> LinkedSetOf(p.key) = {}

BindingsAreValid ==
  /\ KeysAreUnique(request.parameters, LAMBDA p : p.key)
  /\ BadKey \notin KeySet(request.parameters, LAMBDA p : p.key)
  /\ \A intent \in Range(request.intents) :
       /\ AreAlternatives(BoundValues(intent))
       /\ \A v \in Range(BoundValues(intent)) : Accepts(TypeOf(intent.key), v)

(* _seed_values *)
SeedsAreValid ==
  /\ CASE seeds.mode = "fixed" -> Len(seeds.values) = 1
       [] seeds.mode = "explicit" -> seeds.values # <<>>
       [] seeds.mode = "random" -> seeds.values # <<>> /\ seeds.count >= 1
  /\ Range(seeds.values) \subseteq 0..MaxSeed

IsValid ==
  /\ PromptsAreValid
  /\ VariablesAreValid
  /\ PlaceholdersAreBound
  /\ ImagesAreBound
  /\ LinkedSetsAreValid
  /\ ParametersAreCovered
  /\ BindingsAreValid
  /\ SeedsAreValid

-----------------------------------------------------------------------------
(* The dimensions of one prompt version, without the seeds. *)
VariableAxes(p) ==
  [i \in DOMAIN Names(p.text) |->
     [kind |-> "variable", key |-> Names(p.text)[i],
      choices |-> Named(request.variables, Names(p.text)[i]).values]]

ImageAxes ==
  [i \in DOMAIN request.slots |->
     [kind |-> "image", key |-> request.slots[i],
      choices |-> Keyed(request.images, request.slots[i]).values]]

(* A linked set stands where its first member stands in the Profile. *)
ParameterAxes ==
  LET nameOf(key) == IF LinkedSetOf(key) = {} THEN [kind |-> "parameter", key |-> key]
                     ELSE [kind |-> "linked", key |-> (CHOOSE set \in LinkedSetOf(key) : TRUE).key]
      names == FirstOccurrences([i \in DOMAIN request.parameters |-> nameOf(request.parameters[i].key)])
  IN  [i \in DOMAIN names |->
         [kind |-> names[i].kind, key |-> names[i].key,
          choices |-> IF names[i].kind = "linked" THEN Keyed(request.sets, names[i].key).rows
                      ELSE BoundValues(Keyed(request.intents, names[i].key))]]

Axes(p) == VariableAxes(p) \o ImageAxes \o ParameterAxes

(* parameter_counts stands for the values of the independent parameters. *)
SizeOf(a) ==
  IF stage = "preflight" /\ a.kind = "parameter" THEN IntentCount(Keyed(request.intents, a.key))
  ELSE Len(a.choices)

SeedCount == IF seeds.mode = "random" THEN seeds.count ELSE Len(seeds.values)

NeedsSeeds == request.seeds.mode = "random" /\ request.seeds.values = <<>>

Repetitions == IF NeedsSeeds THEN request.seeds.count ELSE 1

Smaller(m, n) == IF m < n THEN m ELSE n

(* max_jobs of the stage: one Job of the first two is a Job per repetition. *)
JobLimit ==
  CASE stage = "preflight" -> MaxJobs \div Repetitions
    [] stage = "count" -> Smaller(MaxJobs, MaxSeed + 1) \div Repetitions
    [] stage = "compile" -> MaxJobs
    [] stage = "validate" -> Len(stored)

Count(seq, Test(_)) == Cardinality({i \in DOMAIN seq : Test(seq[i])})

LiteralBytes(p) == Count(p.text, LAMBDA t : t = Literal)
Occurrences(p, name) == Count(p.text, LAMBDA t : t = name)
Sizes(a) == [i \in DOMAIN a.choices |-> a.choices[i].bytes]

LargestPrompt(p) ==
  LiteralBytes(p) + Total([i \in DOMAIN VariableAxes(p) |->
    LET a == VariableAxes(p)[i] IN
    Occurrences(p, a.key) * (CHOOSE n \in Range(Sizes(a)) : \A m \in Range(Sizes(a)) : m <= n)])

StringBytes(v) == IF v.type = "string" THEN v.value ELSE 0

AxisBytes(a) ==
  IF a.kind = "parameter" THEN Total([i \in DOMAIN a.choices |-> StringBytes(a.choices[i])])
  ELSE Total([i \in DOMAIN a.choices |->
               Total([j \in DOMAIN a.choices[i] |-> StringBytes(a.choices[i][j])])])

(* Every name of a Job is stored once more beside the prompt. *)
Provenance == 1

(* total_text: the size of all Jobs' strings, without expanding one. *)
TextOf(p) ==
  LET variants == Product([i \in DOMAIN VariableAxes(p) |-> Len(VariableAxes(p)[i].choices)])
      copies == SeedCount * Product([i \in DOMAIN ImageAxes |-> SizeOf(ImageAxes[i])])
                          * Product([i \in DOMAIN ParameterAxes |-> SizeOf(ParameterAxes[i])])
  IN  copies * (LiteralBytes(p) * variants
                + Total([i \in DOMAIN VariableAxes(p) |->
                    LET a == VariableAxes(p)[i] IN
                    (Occurrences(p, a.key) + Provenance) * Total(Sizes(a))
                      * (variants \div Len(a.choices))]))

TextBytes ==
  Total([i \in DOMAIN request.prompts |-> TextOf(request.prompts[i])])
  + Total([i \in DOMAIN ParameterAxes |->
      AxisBytes(ParameterAxes[i]) * (total \div Len(ParameterAxes[i].choices))])

IsTooLong ==
  /\ stage # "validate"
  /\ \/ \E p \in Range(request.prompts) : LargestPrompt(p) > MaxPromptBytes
     \/ TextBytes > (IF stage = "compile" THEN MaxTextBytes ELSE MaxTextBytes \div Repetitions)

-----------------------------------------------------------------------------
TheSeeds(r) == IF r.seeds.mode = "random" /\ r.seeds.values = <<>>
               THEN [mode |-> "fixed", values |-> <<0>>, count |-> 0]      \* seed_override
               ELSE r.seeds

Init ==
  /\ limits \in Limits
  /\ request \in Requests
  /\ stage = "preflight"
  /\ seeds = TheSeeds(request)
  /\ stored = <<>>
  /\ pc = "check"
  /\ prompt = 1
  /\ axis = 0
  /\ product = 0
  /\ total = 0
  /\ position = 0
  /\ digits = <<>>
  /\ jobs = <<>>
  /\ outcome = "running"

counters == <<prompt, axis, product, total>>
expansion == <<position, digits, jobs>>

Refuse(reason) ==
  /\ pc' = "end"
  /\ outcome' = reason
  /\ UNCHANGED <<given, stage, seeds, stored, counters, expansion>>

(* _compile_batch is called for another stage. *)
Call(next) ==
  /\ stage' = next
  /\ pc' = "check"
  /\ prompt' = 1
  /\ axis' = 0
  /\ product' = 0
  /\ total' = 0
  /\ position' = 0
  /\ digits' = <<>>
  /\ UNCHANGED outcome

IntentsAreValid ==
  /\ KeysAreUnique(request.intents, LAMBDA intent : intent.key)
  /\ \A intent \in Range(request.intents) :
       /\ intent.key \in KeySet(request.parameters, LAMBDA p : p.key)
       /\ IsIntent(TypeOf(intent.key), intent)

(* materialize_parameter_bindings with max_combinations, for a stored plan. *)
CombinationsFit ==
  stage = "validate" =>
    Product([i \in DOMAIN request.intents |-> IntentCount(request.intents[i])]) <= Len(stored)

Check ==
  /\ pc = "check"
  /\ IF IntentsAreValid /\ CombinationsFit /\ IsValid
     THEN pc' = "axis" /\ UNCHANGED <<given, stage, seeds, stored, counters, expansion, outcome>>
     ELSE Refuse("invalid")

\* Seeded fault: the budget is compared before the last factor.
FitsBefore(size) == product <= JobLimit - total

(* One more dimension stays within what the earlier prompts left. *)
Fits(size) == product <= (JobLimit - total) \div size

CountSeeds ==
  /\ pc = "axis"
  /\ axis = 0
  /\ IF SeedCount > JobLimit - total
     THEN Refuse("tooMany")
     ELSE /\ product' = SeedCount
          /\ axis' = 1
          /\ UNCHANGED <<given, stage, seeds, stored, pc, prompt, total, expansion, outcome>>

CountAxis ==
  /\ pc = "axis"
  /\ axis \in DOMAIN Axes(request.prompts[prompt])
  /\ LET size == SizeOf(Axes(request.prompts[prompt])[axis])
     IN  IF Fits(size)
         THEN /\ product' = product * size
              /\ axis' = axis + 1
              /\ UNCHANGED <<given, stage, seeds, stored, pc, prompt, total, expansion, outcome>>
         ELSE Refuse("tooMany")

CountPrompt ==
  /\ pc = "axis"
  /\ axis = Len(Axes(request.prompts[prompt])) + 1
  /\ total' = total + product
  /\ IF prompt < Len(request.prompts)
     THEN prompt' = prompt + 1 /\ axis' = 0 /\ UNCHANGED pc
     ELSE pc' = "text" /\ UNCHANGED <<prompt, axis>>
  /\ UNCHANGED <<given, stage, seeds, stored, product, expansion, outcome>>

FirstDigits(p) == [i \in DOMAIN Axes(p) |-> 1]

Expand ==
  /\ pc' = "expand"
  /\ prompt' = 1
  /\ digits' = FirstDigits(request.prompts[1])
  /\ position' = 0
  /\ jobs' = <<>>
  /\ UNCHANGED <<given, stage, seeds, stored, axis, product, total, outcome>>

AreMaterial ==
  \A intent \in Range(request.intents) : IsMaterial(TypeOf(intent.key), intent)

(* The whole count is known: text budget, seed assignments, stored count. *)
Measure ==
  /\ pc = "text"
  /\ CASE seeds.mode = "random" /\ Len(seeds.values) # total -> Refuse("invalid")
       [] seeds.mode = "random" /\ Len(seeds.values) = total /\ IsTooLong -> Refuse("tooLong")
       [] seeds.mode # "random" /\ IsTooLong -> Refuse("tooLong")
       [] OTHER ->
            CASE stage = "preflight" /\ ~AreMaterial -> Refuse("invalid")
              [] stage = "preflight" /\ AreMaterial ->
                   /\ Call(IF NeedsSeeds THEN "count" ELSE "compile")
                   /\ UNCHANGED <<given, seeds, stored, jobs>>
              [] stage = "count" ->
                   /\ pc' = "draw"
                   /\ seeds' = [mode |-> "random", values |-> <<>>, count |-> Repetitions]
                   /\ UNCHANGED <<given, stage, stored, counters, expansion, outcome>>
              [] stage = "validate" /\ total # Len(stored) -> Refuse("mismatch")
              [] OTHER -> Expand

(* A seed that is already used is drawn again. *)
Drawn(seed) == IF seed \in Range(seeds.values) THEN seeds.values ELSE Append(seeds.values, seed)

(* materialize_random_seeds *)
DrawSeed ==
  /\ pc = "draw"
  /\ IF Len(seeds.values) < total * Repetitions
     THEN /\ \E seed \in 0..MaxSeed : seeds' = [seeds EXCEPT !.values = Drawn(seed)]
          /\ UNCHANGED <<given, stage, stored, pc, counters, expansion, outcome>>
     ELSE Call("compile") /\ UNCHANGED <<given, seeds, stored, jobs>>

-----------------------------------------------------------------------------
Chosen(p, choice) == [i \in DOMAIN Axes(p) |-> Axes(p)[i].choices[choice[i]]]

OfKind(p, kind) == ElementsAt([i \in DOMAIN Axes(p) |-> i], {i \in DOMAIN Axes(p) : Axes(p)[i].kind = kind})

(* The value that a choice gives a parameter, by itself or in a linked row. *)
ParameterValue(p, choice, key) ==
  LET i == CHOOSE i \in DOMAIN Axes(p) :
             \/ Axes(p)[i].kind = "parameter" /\ Axes(p)[i].key = key
             \/ Axes(p)[i].kind = "linked" /\ key \in Range(Keyed(request.sets, Axes(p)[i].key).members)
      values == Chosen(p, choice)[i]
  IN  IF Axes(p)[i].kind = "parameter" THEN values
      ELSE values[CHOOSE j \in DOMAIN values : Keyed(request.sets, Axes(p)[i].key).members[j] = key]

LiteralChunk == [bytes |-> 1, hole |-> FALSE]

Resolved(p, choice) ==
  [n \in DOMAIN p.text |->
     IF p.text[n] = Literal THEN LiteralChunk
     ELSE Chosen(p, choice)[CHOOSE i \in DOMAIN Names(p.text) : Names(p.text)[i] = p.text[n]]]

Job(p, choice, seed) ==
  [prompt |-> p.id,
   text |-> Resolved(p, choice),
   variables |-> [n \in DOMAIN OfKind(p, "variable") |-> Chosen(p, choice)[OfKind(p, "variable")[n]]],
   images |-> [n \in DOMAIN OfKind(p, "image") |-> Chosen(p, choice)[OfKind(p, "image")[n]]],
   parameters |-> [n \in DOMAIN request.parameters |->
                     ParameterValue(p, choice, request.parameters[n].key)],
   sets |-> [n \in DOMAIN OfKind(p, "linked") |-> choice[OfKind(p, "linked")[n]]],
   seed |-> seed]

(* itertools.product: the rightmost index moves first. *)
NextDigits(p, choice) ==
  LET moving == CHOOSE i \in DOMAIN choice :
                  /\ choice[i] < Len(Axes(p)[i].choices)
                  /\ \A j \in DOMAIN choice : j > i => choice[j] = Len(Axes(p)[j].choices)
  IN  [i \in DOMAIN choice |-> CASE i < moving -> choice[i]
                                 [] i = moving -> choice[i] + 1
                                 [] i > moving -> 1]

IsLast(p, choice) == \A i \in DOMAIN choice : choice[i] = Len(Axes(p)[i].choices)

\* Seeded fault: every configuration gets the first seeds.
SeedsAtStart == [i \in 1..SeedCount |-> seeds.values[i]]

(* Random assignments are consumed in order, the others are used again. *)
SeedsOfConfiguration ==
  IF seeds.mode = "random" THEN [i \in 1..SeedCount |-> seeds.values[position + i]]
  ELSE seeds.values

PositionAfter == position + (IF seeds.mode = "random" THEN SeedCount ELSE 0)

(* Equality, and for parameters of the same type as well. *)
SameJob(job, other) == job = other

(* One configuration, with all its seeds. *)
ExpandConfiguration ==
  /\ pc = "expand"
  /\ prompt <= Len(request.prompts)
  /\ LET p == request.prompts[prompt]
         new == [i \in DOMAIN SeedsOfConfiguration |-> Job(p, digits, SeedsOfConfiguration[i])]
         isHeld == \E v \in Range(Resolved(p, digits)) : v.hole
         differs == stage = "validate" /\ ~(\A i \in DOMAIN new : SameJob(new[i], stored[Len(jobs) + i]))
     IN  CASE isHeld -> Refuse("unresolved")
           [] ~isHeld /\ differs -> Refuse("mismatch")
           [] OTHER ->
                /\ jobs' = jobs \o new
                /\ position' = PositionAfter
                /\ IF IsLast(p, digits)
                   THEN /\ prompt' = prompt + 1
                        /\ digits' = IF prompt = Len(request.prompts) THEN <<>>
                                     ELSE FirstDigits(request.prompts[prompt + 1])
                   ELSE digits' = NextDigits(p, digits) /\ UNCHANGED prompt
                /\ UNCHANGED <<given, stage, seeds, stored, pc, axis, product, total, outcome>>

IsExpanded == pc = "expand" /\ prompt > Len(request.prompts)

(* The client sends the previewed seeds back to create the Run. *)
Create ==
  /\ IsExpanded
  /\ stage = "compile"
  /\ NeedsSeeds
  /\ request' = [request EXCEPT !.seeds = seeds]
  /\ UNCHANGED limits
  /\ stored' = jobs
  /\ Call("preflight")
  /\ UNCHANGED <<seeds, jobs>>

(* The plan goes to run.json and manifest.json, and comes back.  Random    *)
(* seeds are read from the stored Jobs.                                    *)
Store ==
  /\ IsExpanded
  /\ stage = "compile"
  /\ ~NeedsSeeds
  /\ stored' \in {jobs} \cup {plan \in Edits(jobs) : IsList(plan)}
  /\ seeds' = IF request.seeds.mode = "random"
              THEN [request.seeds EXCEPT !.values = [i \in DOMAIN stored' |-> stored'[i].seed]]
              ELSE request.seeds
  /\ Call("validate")
  /\ UNCHANGED <<given, jobs>>

Accept ==
  /\ IsExpanded
  /\ stage = "validate"
  /\ pc' = "end"
  /\ outcome' = "accepted"
  /\ UNCHANGED <<given, stage, seeds, stored, counters, expansion>>

Next ==
  \/ Check \/ CountSeeds \/ CountAxis \/ CountPrompt \/ Measure \/ DrawSeed
  \/ ExpandConfiguration \/ Create \/ Store \/ Accept

Spec == Init /\ [][Next]_vars

-----------------------------------------------------------------------------
(* The reference: a Job's place decides its choices, as digits of a number *)
(* whose last digit is the seed.                                           *)
Radices(p) == [i \in DOMAIN Axes(p) |-> SizeOf(Axes(p)[i])] \o <<SeedCount>>

SizeOfPrompt(p) == Product(Radices(p))

SizeOfPlan == Total([i \in DOMAIN request.prompts |-> SizeOfPrompt(request.prompts[i])])

DigitAt(p, place, i) ==
  1 + ((place \div Product(SubSeq(Radices(p), i + 1, Len(Radices(p))))) % Radices(p)[i])

JobAt(p, before, place) ==
  Job(p, [i \in DOMAIN Axes(p) |-> DigitAt(p, place, i)],
      seeds.values[IF seeds.mode = "random" THEN before + place + 1
                   ELSE DigitAt(p, place, Len(Radices(p)))])

ReferencePlan ==
  FlattenSeq([n \in DOMAIN request.prompts |->
    LET p == request.prompts[n]
        before == Total([m \in 1..(n - 1) |-> SizeOfPrompt(request.prompts[m])])
    IN  [place \in 1..SizeOfPrompt(p) |-> JobAt(p, before, place - 1)]])

BytesOf(values) == Total([i \in DOMAIN values |-> values[i].bytes])

BytesOfJob(job) ==
  BytesOf(job.text) + BytesOf(job.variables)
  + Total([i \in DOMAIN job.parameters |-> StringBytes(job.parameters[i])])

IsStructured == pc \in {"axis", "text", "draw", "expand"}

-----------------------------------------------------------------------------
Outcomes == {"running", "invalid", "tooMany", "tooLong", "unresolved", "mismatch", "accepted"}

TypeOK ==
  /\ stage \in {"preflight", "count", "compile", "validate"}
  /\ pc \in {"check", "axis", "text", "draw", "expand", "end"}
  /\ seeds.mode \in {"fixed", "explicit", "random"}
  /\ seeds.count \in Nat
  /\ prompt \in 1..(Len(request.prompts) + 1)
  /\ axis \in Nat
  /\ product \in Nat
  /\ total \in Nat
  /\ position \in 0..Len(seeds.values)
  /\ outcome \in Outcomes
  /\ outcome = "running" <=> pc # "end"

(* Past the checks no dimension is empty, so that the division by its size *)
(* is defined and a plan has at least the Job that the service prepares    *)
(* first (plan.jobs[0]).                                                   *)
DimensionsAreNonempty ==
  IsStructured /\ pc # "draw" =>
    /\ \A p \in Range(request.prompts) : \A i \in DOMAIN Axes(p) : SizeOf(Axes(p)[i]) > 0
    /\ SeedCount > 0

(* The budget is exact although the product is never formed beyond it: a   *)
(* Batch is refused for its size if and only if it has more Jobs than the  *)
(* limit (docs/BATCH_COMPILER.md, "Job Count").                            *)
BudgetIsExact ==
  /\ pc \in {"text", "expand"} => total = SizeOfPlan /\ total <= JobLimit
  /\ outcome = "tooMany" => SizeOfPlan > JobLimit

(* No intermediate count is larger than the limit. *)
CountStaysWithin ==
  pc = "axis" /\ axis > 0 => total + product <= JobLimit

(* The text budget is computed without a Job, and is the bytes that the    *)
(* expanded Jobs hold.                                                     *)
TextIsMeasured ==
  stage = "compile" /\ pc = "text" =>
    /\ TextBytes = Total([i \in DOMAIN ReferencePlan |-> BytesOfJob(ReferencePlan[i])])
    /\ IsTooLong <=> \/ TextBytes > MaxTextBytes
                     \/ \E job \in Range(ReferencePlan) : BytesOf(job.text) > MaxPromptBytes

(* Prompt, variables, images, parameters, seeds: each in the user's order, *)
(* the rightmost fastest (docs/BATCH_COMPILER.md, "Deterministic Job       *)
(* Ordering").                                                             *)
PlanIsOrdered ==
  /\ pc = "expand" => IsPrefix(jobs, ReferencePlan)
  /\ IsExpanded => jobs = ReferencePlan

(* A preview that got past the preflight is never refused for its size:    *)
(* what the stand-ins and the division by the repetitions let through,     *)
(* the materialized Batch and its repetitions do not exceed.  Only the     *)
(* seed space is found by the second count.                                *)
PreflightIsExact ==
  /\ outcome = "tooMany" =>
       \/ stage = "preflight"
       \/ stage = "count" /\ SizeOfPlan * Repetitions > MaxSeed + 1
       \/ stage = "validate"
  /\ outcome = "tooLong" => stage = "preflight"

(* No two Jobs of a Random plan have the same seed. *)
RandomSeedsDiffer ==
  seeds.mode = "random" /\ stage # "validate" => IsInjective(seeds.values)

(* A plan that was previewed is created as it was: the request that sends  *)
(* the seeds back is not refused, and compiles to the same Jobs.           *)
PreviewIsBinding ==
  stage # "validate" /\ stored # <<>> =>
    outcome = "running" /\ (IsExpanded => jobs = stored)

(* A stored plan is accepted if and only if it is what its snapshot        *)
(* compiles to; nothing but the seeds of a Random Batch, which no other    *)
(* file records, may change unnoticed.                                     *)
StoredPlanIsExact ==
  stage = "validate" /\ pc = "end" =>
    (outcome = "accepted" <=>
       Len(stored) = SizeOfPlan /\ stored = ReferencePlan /\ Range(seeds.values) \subseteq 0..MaxSeed)
=============================================================================
