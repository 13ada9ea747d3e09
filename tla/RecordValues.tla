---------------------------- MODULE RecordValues ----------------------------
(* What RunRecord is checked with: Runs that differ in which dimensions    *)
(* their Batch has, calls whose parts disagree, and the edits of one fact. *)
EXTENDS ParameterRange

Asset(n) == [type |-> "asset", value |-> n]
Stored(n) == [id |-> Asset(n), content |-> "content", name |-> "face"]
Whole(n) == [digits |-> n, scale |-> 0]
Listed(key, values) == [key |-> key, mode |-> "values", values |-> values, base |-> FALSE, range |-> <<>>]
Ranged(key, start, end) ==
  [key |-> key, mode |-> "range", values |-> <<>>, base |-> TRUE,
   range |-> [start |-> Whole(start), end |-> Whole(end), step |-> Whole(1)]]
Seeds(mode, values, count) == [mode |-> mode, values |-> values, count |-> count]
Prompt(id, text) == [id |-> id, name |-> "name", text |-> text]
Slot(key, target) == [key |-> key, label |-> "label", target |-> target]
Parameter(key, type, target) == [key |-> key, type |-> type, target |-> target]

OwningProject == [id |-> "project", key |-> "a", name |-> "Project"]
Batch == [id |-> "batch", key |-> "b", name |-> "Batch"]
Workflow == [id |-> "workflow", inputs |-> {"image", "steps", "cfg"}]
Bare == [images |-> <<>>, parameters |-> <<>>]
Profile ==
  [images |-> <<Slot("face", "image")>>,
   parameters |-> <<Parameter("steps", "integer", "steps"), Parameter("cfg", "float", "cfg")>>]

Snapshot(prompts, variables, images, parameters, seeds, profile) ==
  [format |-> 1, project |-> OwningProject, batch |-> Batch, prompts |-> prompts, variables |-> variables,
   images |-> images, parameters |-> parameters, seeds |-> seeds, workflow |-> Workflow, profile |-> profile]

Full ==
  Snapshot(<<Prompt("p", "open"), Prompt("q", "plain")>>, <<"x", "y">>, <<[key |-> "face", values |-> <<Base, Asset(1)>>]>>,
           <<Listed("cfg", <<Integer(1)>>), Listed("steps", <<Base>>)>>, Seeds("fixed", <<2>>, 0), Profile)
Drawn ==
  Snapshot(<<Prompt("p", "plain")>>, <<"x">>, <<[key |-> "face", values |-> <<Asset(1)>>]>>,
           <<Ranged("steps", 1, 2), Listed("cfg", <<Float(5)>>)>>, Seeds("random", <<>>, 2), Profile)
Small == Snapshot(<<Prompt("p", "plain")>>, <<>>, <<>>, <<>>, Seeds("explicit", <<1, 0>>, 0), Bare)

Creation(snapshot, name) ==
  [project |-> OwningProject, batch |-> Batch, name |-> name, description |-> "", snapshot |-> snapshot,
   compiled |-> snapshot, drawn |-> <<0, 1, 2, 3, 4, 5>>, workflow |-> Workflow, profile |-> snapshot.profile,
   assets |-> [id \in {Asset(1)} |-> Stored(1)], store |-> [id \in {Asset(1)} |-> Stored(1)]]

Consistent == {Creation(Full, "name"), Creation(Drawn, ""), Creation(Small, "")}

(* Calls whose parts were not made from each other. *)
SampleCreations ==
  Consistent \cup
  {[Creation(Full, "") EXCEPT !.compiled.seeds.values = <<1>>],
   [Creation(Full, "") EXCEPT !.snapshot.batch.name = "Other"],
   [Creation(Full, "") EXCEPT !.snapshot.workflow.id = "other"],
   [Creation(Full, "") EXCEPT !.compiled.variables = <<"x", "{{">>, !.snapshot.variables = <<"x", "{{">>],
   [Creation(Full, "") EXCEPT !.store[Asset(1)].content = "damaged"],
   [Creation(Full, "") EXCEPT !.assets[Asset(1)].id = Asset(2)],
   [Creation(Drawn, "") EXCEPT !.drawn[1] = -1]}

-----------------------------------------------------------------------------
OtherWorkflow == [Workflow EXCEPT !.id = "other"]
OtherHash == <<"sha256", [id |-> "none", inputs |-> {}]>>

Identities(i) ==
  {[i EXCEPT !.id = "other"], [i EXCEPT !.number = 2], [i EXCEPT !.name = "other"],
   [i EXCEPT !.description = "other"], [i EXCEPT !.key = <<1, "other">>], [i EXCEPT !.key[1] = 2],
   [i EXCEPT !.created = "yesterday"], [i EXCEPT !.project.id = "other"], [i EXCEPT !.project.key = "other"],
   [i EXCEPT !.project.name = "other"], [i EXCEPT !.batch.id = "other"], [i EXCEPT !.batch.key = "other"],
   [i EXCEPT !.batch.name = "other"]}

RunFiles(r) ==
  {[r EXCEPT !.format = 2], [r EXCEPT !.status = "running"], [r EXCEPT !.count = @ + 1],
   [r EXCEPT !.workflow = OtherHash]}
  \cup {[r EXCEPT !.identity = i] : i \in Identities(r.identity)}

Retyped(v) == IF v.type = "integer" THEN Float(v.value) ELSE IF v.type = "float" THEN String(1) ELSE Integer(7)

Jobs(j) ==
  {[j EXCEPT !.id = <<"job", 9>>], [j EXCEPT !.prefix = <<"run", <<"job", 9>>>>], [j EXCEPT !.ordinal = @ + 1],
   [j EXCEPT !.prompt = "other"], [j EXCEPT !.text = Append(@, "more")], [j EXCEPT !.text = <<"{{">>],
   [j EXCEPT !.seed = 3], [j EXCEPT !.seed = -1], [j EXCEPT !.workflow = OtherHash],
   [j EXCEPT !.variables = <<"other">>]}
  \cup (IF j.images = <<>> THEN {}
        ELSE {[j EXCEPT !.images[1].slot = "other"], [j EXCEPT !.images[1].label = "other"],
              [j EXCEPT !.images[1].asset.id = Asset(2)], [j EXCEPT !.images[1].asset.name = "other"],
              [j EXCEPT !.parameters[1].key = "other"], [j EXCEPT !.parameters[2].value = Retyped(@)],
              [j EXCEPT !.parameters[1].value = Integer(8)], [j EXCEPT !.parameters[1].value = Integer(11)]})

JobLists(s) ==
  LET n == Len(s)
  IN  {SubSeq(s, 1, n - 1), Append(s, s[n]), [s EXCEPT ![1] = s[n], ![n] = s[1]], [s EXCEPT ![1] = s[n]]}
      \cup {[s EXCEPT ![n] = j] : j \in Jobs(s[n])}

Snapshots(s) ==
  {[s EXCEPT !.format = 2], [s EXCEPT !.project.name = "other"], [s EXCEPT !.batch.id = "other"],
   [s EXCEPT !.prompts = <<>>], [s EXCEPT !.prompts[1].text = "open"], [s EXCEPT !.prompts[1].text = "plain"],
   [s EXCEPT !.variables = <<"z">>], [s EXCEPT !.images = <<>>], [s EXCEPT !.parameters = <<>>],
   [s EXCEPT !.seeds = Seeds("fixed", <<3>>, 0)], [s EXCEPT !.seeds = Seeds("explicit", <<2>>, 0)],
   [s EXCEPT !.seeds = Seeds("random", <<>>, 1)], [s EXCEPT !.seeds.count = 3],
   [s EXCEPT !.workflow = OtherWorkflow], [s EXCEPT !.profile = Bare]}

Manifests(m) ==
  {[m EXCEPT !.format = 2], [m EXCEPT !.prompts = Append(@, @[1])], [m EXCEPT !.prompts[1].name = "other"],
   [m EXCEPT !.prompts[1].text = "other"], [m EXCEPT !.slots = Append(@, Slot("area", "mask"))],
   [m EXCEPT !.parameters = Append(@, Parameter("denoise", "float", "denoise"))], [m EXCEPT !.warnings = {"other"}],
   [m EXCEPT !.workflow.path = "other"], [m EXCEPT !.workflow.sha256 = OtherHash], [m EXCEPT !.csv = "other"]}
  \cup {[m EXCEPT !.identity = i] : i \in Identities(m.identity)}
  \cup {[m EXCEPT !.snapshot = s] : s \in Snapshots(m.snapshot)}
  \cup {[m EXCEPT !.jobs = jobs] : jobs \in JobLists(m.jobs)}

Places(p) ==
  {[p EXCEPT !.linked = TRUE], [p EXCEPT !.project = "other"], [p EXCEPT !.under = "other"],
   [p EXCEPT !.batch = "other"], [p EXCEPT !.name = <<1, "other">>], [p EXCEPT !.name = <<2, "name">>]}

(* The files of the next Run of the same Batch, with the same plan. *)
Sibling(identity) == [identity EXCEPT !.id = "sibling", !.number = 2, !.key[1] = 2, !.created = "tomorrow"]
SiblingJob(j) == [j EXCEPT !.id = <<"sibling", j.ordinal>>, !.prefix = <<"sibling", <<"sibling", j.ordinal>>>>]
SiblingManifest(m) ==
  [m EXCEPT !.identity = Sibling(@), !.jobs = [n \in DOMAIN @ |-> SiblingJob(@[n])]]

Edits(t) ==
  {[t EXCEPT !.files = @ \ {f}] : f \in t.files}
  \cup {[t EXCEPT !.outputs = FALSE], [t EXCEPT !.csv = <<>>], [t EXCEPT !.workflow = OtherWorkflow],
        [t EXCEPT !.profile = [images |-> <<Slot("other", "image")>>, parameters |-> <<>>]],
        [t EXCEPT !.projectOwner.id = "other"], [t EXCEPT !.batchOwner.id = "other"],
        [t EXCEPT !.batchOwner.key = "other"], [t EXCEPT !.store = [id \in {} |-> Stored(1)]],
        [t EXCEPT !.store[Asset(1)].content = "damaged"],
        [t EXCEPT !.run.identity = Sibling(@)], [t EXCEPT !.manifest = SiblingManifest(@)],
        [t EXCEPT !.run.identity = Sibling(@), !.manifest = SiblingManifest(@)]}
  \cup {[t EXCEPT !.run = r] : r \in RunFiles(t.run)}
  \cup {[t EXCEPT !.manifest = m] : m \in Manifests(t.manifest)}
  \cup {[t EXCEPT !.place = p] : p \in Places(t.place)}
=============================================================================
