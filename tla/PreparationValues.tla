------------------------- MODULE PreparationValues -------------------------
(* What WorkflowPreparation is checked with: two nodes and their inputs, a *)
(* valid Profile and its edits, and plans of up to two Jobs.               *)
EXTENDS ParameterRange

Connection == [type |-> "connection", value |-> 0]
Other == [type |-> "object", value |-> 0]

Node(input) == <<"node", input>>

Workflow ==
    [t \in {Node(i) : i \in {"text", "seed", "prefix", "image", "mask", "steps", "cfg", "link"}} |->
        CASE t[2] = "seed" -> Integer(7)
          [] t[2] = "steps" -> Integer(2)
          [] t[2] = "cfg" -> Float(5)
          [] t[2] = "link" -> Connection
          [] t[2] = "mask" -> Other
          [] OTHER -> String(1)]

SampleWorkflows ==
    {Workflow, [Workflow EXCEPT ![Node("steps")] = String(2)],
     [Workflow EXCEPT ![Node("image")] = Connection],
     [t \in DOMAIN Workflow \ {Node("mask")} |-> Workflow[t]]}

Mapping(type, input) == [type |-> type, target |-> Node(input)]
Slot(key, input) == [key |-> key, target |-> Node(input)]
Parameter(key, input, type) == [key |-> key, target |-> Node(input), type |-> type]

Profile ==
    [mappings |-> [prompt |-> Mapping("string", "text"), seed |-> Mapping("integer", "seed"),
                   output_prefix |-> Mapping("string", "prefix")],
     images |-> <<Slot("face", "image"), Slot("area", "mask")>>,
     parameters |-> <<Parameter("steps", "steps", "integer"), Parameter("cfg", "cfg", "float")>>]

SampleProfiles ==
    {Profile,
     [Profile EXCEPT !.mappings = [prompt |-> Mapping("string", "text"),
                                     seed |-> Mapping("integer", "seed")]],
     [Profile EXCEPT !.mappings.seed.type = "string"],
     [Profile EXCEPT !.mappings.seed.target = Node("link")],
     [Profile EXCEPT !.mappings.seed.target = Node("absent")],
     [Profile EXCEPT !.images[1].key = "area"],
     [Profile EXCEPT !.images[1].target = Node("text")],
     [Profile EXCEPT !.images[1].target = Node("link")],
     [Profile EXCEPT !.parameters[1].target = Node("image")],
     [Profile EXCEPT !.parameters[1].type = "boolean"],
     [Profile EXCEPT !.parameters[2].key = "steps"]}

Asset(n) == String(n)
Job == [unresolved |-> FALSE, images |-> <<Base, Base>>, parameters |-> <<Base, Base>>]
Jobs ==
    {Job, [Job EXCEPT !.images = <<Asset(1), Base>>, !.parameters = <<Integer(3), Base>>],
     [Job EXCEPT !.images = <<Base, Asset(2)>>, !.parameters = <<Base, Float(3)>>],
     [Job EXCEPT !.images = <<Asset(1), Asset(2)>>, !.parameters = <<Integer(4), Integer(1)>>],
     [Job EXCEPT !.unresolved = TRUE], [Job EXCEPT !.parameters = <<String(1), Base>>],
     [Job EXCEPT !.images = <<Base>>], [Job EXCEPT !.parameters = <<Integer(99), Base>>]}

SamplePlans == {<<>>} \cup {<<a>> : a \in Jobs} \cup {<<a, b>> : a, b \in Jobs}
=============================================================================
