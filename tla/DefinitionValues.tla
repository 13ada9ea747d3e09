-------------------------- MODULE DefinitionValues --------------------------
(* The libraries and the definitions that SavedBatchDefinition is checked  *)
(* with: four definitions, and each edit of one in one place.              *)
EXTENDS ParameterRange, SequencesExt

Blank == ""
BaseAsset == "base"

Snapshot(id, content) == [id |-> id, content |-> content, digest |-> content]
Target(id, profile, version, content) ==
    [id |-> id, profile |-> profile, version |-> version, content |-> content, digest |-> content]
Stranger(value) == [value EXCEPT !.digest = "other"]

SamplePrompts ==
    [v \in {"p1", "p2"} |-> [project |-> IF v = "p1" THEN "mine" ELSE "yours", text |-> v]]
SampleWorkflows ==
    [v \in {"w1", "w2", "x1"} |->
        [workflow |-> IF v = "x1" THEN "x" ELSE "w", project |-> "mine", content |-> v]]
SampleProfiles ==
    [p \in {"f", "g", "h"} |->
        [workflow |-> IF p = "g" THEN "x" ELSE "w", project |-> IF p = "h" THEN "yours" ELSE "mine"]]
SampleProfileVersions ==
    [v \in {"f1", "f2"} |->
        [profile |-> "f", workflow |-> "w", project |-> "mine", content |-> v,
         target |-> IF v = "f1" THEN "w1" ELSE "w2"]]
SampleSlots == [c \in {"f1", "f2"} |-> IF c = "f1" THEN <<"s", "t">> ELSE <<>>]
Parameter(key, type) == [key |-> key, type |-> type]
SampleParameters ==
    [c \in {"f1", "f2"} |->
        IF c = "f1" THEN <<Parameter("a", "integer"), Parameter("b", "string"),
                           Parameter("c", "float"), Parameter("d", "integer")>>
        ELSE <<Parameter("a", "integer")>>]

Whole(n) == [digits |-> n, scale |-> 0]
Listed(key, values) ==
    [key |-> key, mode |-> "values", values |-> values, base |-> FALSE, range |-> <<>>]
Ranged(key, base, start, end, step) ==
    [key |-> key, mode |-> "range", values |-> <<>>, base |-> base,
     range |-> [start |-> Whole(start), end |-> Whole(end), step |-> Whole(step)]]
Image(key, values) == [key |-> key, values |-> values]
Linked(key, members, cells) == [key |-> key, label |-> "label", members |-> members, rows |-> cells]

Rows == <<<<Integer(1), Float(5)>>, <<Integer(2), Integer(1)>>>>
Pair == Linked("set", <<"a", "c">>, Rows)

Plain ==
    [name |-> "name", seeds |-> [mode |-> "fixed", values |-> <<2>>, count |-> 0],
     prompts |-> <<[version |-> "p1", text |-> "p1"]>>,
     variables |-> <<[placeholder |-> "x", values |-> <<1, 2>>]>>,
     images |-> <<Image("s", <<BaseAsset, "i1">>), Image("t", <<"i2">>)>>,
     intents |-> <<Listed("b", <<Base, String(1)>>), Ranged("d", TRUE, 1, 2, 1)>>,
     sets |-> <<Pair>>,
     workflow |-> <<Snapshot("w1", "w1")>>, profile |-> <<"f">>,
     target |-> <<Target("f1", "f", "w1", "f1")>>]

Draft == [Plain EXCEPT !.images = <<>>, !.intents = <<>>, !.sets = <<>>, !.target = <<>>]

Simple == [Plain EXCEPT !.images = <<>>, !.sets = <<>>, !.workflow = <<Snapshot("w2", "w2")>>,
                        !.intents = <<Ranged("a", FALSE, 3, 1, -1)>>,
                        !.target = <<Target("f2", "f", "w2", "f2")>>]

Independent == <<Listed("a", <<Integer(1)>>), Listed("b", <<String(1)>>),
                 Listed("c", <<Base, Float(5)>>), Ranged("d", FALSE, 1, 1, 1)>>

Seeds(mode, values, count) == [mode |-> mode, values |-> values, count |-> count]

Bases == {Plain, Draft, Simple, [Plain EXCEPT !.sets = <<>>, !.intents = Independent]}

Edited(d) ==
    {[d EXCEPT !.name = Blank], [d EXCEPT !.prompts = <<>>, !.variables = <<>>],
     [d EXCEPT !.prompts = <<[version |-> "p2", text |-> "p2"]>>],
     [d EXCEPT !.prompts = <<[version |-> "p1", text |-> "p2"]>>],
     [d EXCEPT !.prompts = <<[version |-> "p3", text |-> "p1"]>>],
     [d EXCEPT !.variables = <<[placeholder |-> "x", values |-> <<1, 1>>]>>],
     [d EXCEPT !.intents = Reverse(@)], [d EXCEPT !.intents = <<>>],
     [d EXCEPT !.images = Reverse(@)], [d EXCEPT !.sets = @ \o @],
     [d EXCEPT !.images = <<Image("s", <<"i1", BaseAsset>>), Image("t", <<"i2">>)>>],
     [d EXCEPT !.images = <<Image("s", <<>>), Image("t", <<Blank>>)>>],
     [d EXCEPT !.sets = <<Linked("set", <<"a", "c">>, <<>>)>>],
     [d EXCEPT !.sets = <<Linked("set", <<"a", "b">>, Rows)>>],
     [d EXCEPT !.sets = <<Linked("set", <<"a", "c">>, <<Rows[1], Rows[1]>>)>>],
     [d EXCEPT !.intents = Append(@, Listed("a", <<Base>>))],
     [d EXCEPT !.intents = Append(@, Listed("z", <<Base>>))],
     [d EXCEPT !.workflow = <<>>], [d EXCEPT !.workflow = <<Snapshot("w9", "w1")>>],
     [d EXCEPT !.workflow = <<Snapshot("w1", "w2")>>], [d EXCEPT !.workflow = <<Snapshot("x1", "x1")>>],
     [d EXCEPT !.workflow = <<Snapshot("w2", "w2")>>], [d EXCEPT !.profile = <<"g">>],
     [d EXCEPT !.profile = <<>>], [d EXCEPT !.profile = <<"h">>],
     [d EXCEPT !.target = <<Target("f1", "f", "w2", "f1")>>],
     [d EXCEPT !.target = <<Stranger(Target("f1", "f", "w1", "f1"))>>],
     [d EXCEPT !.target = <<Target("f1", "g", "w1", "f1")>>, !.profile = <<"g">>],
     [d EXCEPT !.target = <<Target("f9", "f", "w1", "f1")>>], [d EXCEPT !.target = <<>>]}
    \cup {[d EXCEPT !.seeds = s] :
            s \in {Seeds("fixed", <<>>, 0), Seeds("explicit", <<0, 3>>, 0), Seeds("explicit", <<9>>, 0),
                   Seeds("random", <<>>, 2), Seeds("random", <<1>>, 2), Seeds("random", <<>>, 3)}}

SampleDefinitions == Bases \cup UNION {Edited(d) : d \in Bases}
=============================================================================
