--------------------------- MODULE CompilerValues ---------------------------
(* The requests that BatchCompiler is checked with: every combination of a *)
(* few prompts, variables, images, parameters and seeds, and each way one  *)
(* of them may be wrong beside the others that are not.                    *)
EXTENDS ParameterRange

Literal == "lit"

Value(n) == [bytes |-> n, hole |-> FALSE]
Nested == [bytes |-> 1, hole |-> TRUE]
Asset(n) == [type |-> "asset", value |-> n]
Whole(n) == [digits |-> n, scale |-> 0]
Tenths(n) == [digits |-> n, scale |-> 1]
Listed(key, values) == [key |-> key, mode |-> "values", values |-> values, base |-> FALSE, range |-> <<>>]
Ranged(key, base, start, end, step) ==
  [key |-> key, mode |-> "range", values |-> <<>>, base |-> base,
   range |-> [start |-> start, end |-> end, step |-> step]]

Prompt(id, text) == [id |-> id, text |-> text]
Variable(name, values) == [name |-> name, values |-> values]
Image(key, values) == [key |-> key, values |-> values]
Images(slots, images) == [slots |-> slots, images |-> images]
Parameter(key, type) == [key |-> key, type |-> type]
Parameters(parameters, intents, sets) == [parameters |-> parameters, intents |-> intents, sets |-> sets]
Linked(members, rows) == [key |-> "set", members |-> members, rows |-> rows]
Seeds(mode, values, count) == [mode |-> mode, values |-> values, count |-> count]

GoodPrompts ==
  {<<Prompt("p", <<Literal>>)>>,
   <<Prompt("p", <<Literal, "a">>), Prompt("q", <<"b", "a", "b">>)>>}
BadPrompts ==
  {<<>>, <<Prompt("p", <<"{{">>)>>, <<Prompt("p", <<>>), Prompt("p", <<"a">>)>>, <<Prompt("p", <<"c">>)>>}

GoodVariables ==
  {<<Variable("a", <<Value(1), Value(2)>>), Variable("b", <<Value(3)>>)>>,
   <<Variable("b", <<Value(0), Value(1)>>), Variable("a", <<Value(1)>>)>>}
BadVariables ==
  {<<>>, <<Variable("a", <<>>), Variable("b", <<Value(1)>>)>>,
   <<Variable("a", <<Nested>>), Variable("b", <<Value(1)>>)>>,
   <<Variable("a", <<Value(1), Value(1)>>), Variable("b", <<Value(1)>>)>>,
   <<Variable("b", <<Value(1)>>), Variable("b", <<Value(1)>>), Variable("a", <<Value(1)>>)>>}

GoodImages ==
  {Images(<<>>, <<>>),
   Images(<<"s", "t">>, <<Image("t", <<Asset(1)>>), Image("s", <<Base, Asset(1)>>)>>)}
BadImages ==
  {Images(<<"s">>, <<>>), Images(<<>>, <<Image("s", <<Base>>)>>), Images(<<"s">>, <<Image("s", <<>>)>>),
   Images(<<"s">>, <<Image("s", <<Asset(1), Base>>)>>), Images(<<"s", "s">>, <<Image("s", <<Base>>)>>)}

Pair == <<Parameter("i", "integer"), Parameter("w", "string"), Parameter("f", "float")>>
Rows == <<<<Integer(1), Float(5)>>, <<Integer(1), Integer(2)>>>>
GoodParameters ==
  {Parameters(<<>>, <<>>, <<>>),
   Parameters(<<Parameter("i", "integer")>>, <<Ranged("i", TRUE, Whole(3), Whole(1), Whole(-2))>>, <<>>),
   Parameters(Pair, <<Listed("w", <<Base, String(2)>>)>>, <<Linked(<<"i", "f">>, Rows)>>),
   Parameters(<<Parameter("w", "boolean"), Parameter("f", "float")>>,
              <<Ranged("f", FALSE, Tenths(5), Whole(1), Tenths(5)), Listed("w", <<Boolean(1)>>)>>, <<>>)}
BadParameters ==
  {Parameters(<<Parameter("i", "integer")>>, <<>>, <<>>),
   Parameters(<<>>, <<Listed("i", <<Base>>)>>, <<>>),
   Parameters(<<Parameter("f", "float")>>, <<Listed("f", <<Float(10), Integer(1)>>)>>, <<>>),
   Parameters(<<Parameter("f", "float")>>, <<Ranged("f", FALSE, Tenths(7), Tenths(7), Tenths(1))>>, <<>>),
   Parameters(<<Parameter("i", "integer")>>, <<Ranged("i", FALSE, Whole(9), Whole(11), Whole(1))>>, <<>>),
   Parameters(<<Parameter("i", "integer")>>, <<Listed("i", <<Integer(11)>>)>>, <<>>),
   Parameters(<<Parameter("w", "string")>>, <<Listed("w", <<Integer(1)>>)>>, <<>>),
   Parameters(Pair, <<Listed("w", <<Base>>), Listed("i", <<Base>>)>>, <<Linked(<<"i", "f">>, Rows)>>),
   Parameters(Pair, <<Listed("w", <<Base>>)>>, <<Linked(<<"i", "f">>, <<>>)>>),
   Parameters(Pair, <<Listed("w", <<Base>>)>>, <<Linked(<<"i", "f">>, <<<<Base>>>>)>>),
   Parameters(Pair, <<Listed("w", <<Base>>), Listed("f", <<Base>>)>>, <<Linked(<<"i">>, <<<<Base>>>>)>>)}

GoodSeeds == {Seeds("fixed", <<2>>, 0), Seeds("explicit", <<1, 0>>, 0), Seeds("random", <<>>, 2)}
BadSeeds == {Seeds("random", <<0, 1>>, 2), Seeds("explicit", <<>>, 0), Seeds("fixed", <<9>>, 0)}

Request(prompts, variables, images, parameters, seedInput) ==
  [prompts |-> prompts, variables |-> variables, slots |-> images.slots, images |-> images.images,
   parameters |-> parameters.parameters, intents |-> parameters.intents, sets |-> parameters.sets,
   seeds |-> seedInput]

Plain == CHOOSE p \in GoodPrompts : Len(p) = 2
Few == CHOOSE v \in GoodVariables : Len(v[1].values) = 2
NoImages == Images(<<>>, <<>>)
NoParameters == Parameters(<<>>, <<>>, <<>>)

GoodRequests ==
  {Request(p, v, i, w, s) : p \in GoodPrompts, v \in GoodVariables, i \in GoodImages,
                            w \in GoodParameters, s \in GoodSeeds}

SampleRequests ==
  GoodRequests
  \cup {Request(p, Few, NoImages, NoParameters, Seeds("fixed", <<2>>, 0)) : p \in BadPrompts}
  \cup {Request(Plain, v, NoImages, NoParameters, s) : v \in BadVariables, s \in GoodSeeds}
  \cup {Request(Plain, Few, i, NoParameters, Seeds("fixed", <<2>>, 0)) : i \in BadImages}
  \cup {Request(Plain, Few, NoImages, w, s) : w \in BadParameters, s \in GoodSeeds}
  \cup {Request(Plain, Few, NoImages, NoParameters, s) : s \in BadSeeds}

(* Edits of a stored plan: a Job dropped or repeated, two exchanged, one   *)
(* changed in its prompt, its seed or the type of a parameter.             *)
Retyped(v) == IF v.type = "integer" THEN Float(v.value)
              ELSE IF v.type = "boolean" THEN [v EXCEPT !.type = "integer"] ELSE v

Edits(plan, maxSeed) ==
  LET n == Len(plan)
      changed(job) == [plan EXCEPT ![n] = job]
  IN  {SubSeq(plan, 1, n - 1), Append(plan, plan[n]), [plan EXCEPT ![1] = plan[n], ![n] = plan[1]],
       changed([plan[n] EXCEPT !.seed = 3]), changed([plan[n] EXCEPT !.seed = maxSeed + 1]),
       changed([plan[n] EXCEPT !.text = <<>>]),
       changed([plan[n] EXCEPT !.parameters = [i \in DOMAIN @ |-> Retyped(@[i])]])}
=============================================================================
