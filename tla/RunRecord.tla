----------------------------- MODULE RunRecord -----------------------------
(***************************************************************************)
(* What a Run directory says, and what its reader believes of it:          *)
(* files/runs.py.  create_run writes every fact of a Run into run.json or  *)
(* manifest.json, most of them more than once: as an identity, a hash, a   *)
(* count, a key, a prefix, and as the frozen Batch snapshot that compiles  *)
(* to the Jobs.  load_run and load_historical_run accept a directory only  *)
(* while the copies agree, with each other and with the place where the    *)
(* directory stands.  The files are edited behind the program's back.      *)
(*                                                                         *)
(* Publication itself, its reservations, crashes and syncs, is the subject *)
(* of RunPublication; how a snapshot compiles, that of BatchCompiler: here *)
(* a Batch has at most one variable and no linked set.                     *)
(***************************************************************************)
EXTENDS ParameterRange, SequencesExt, FiniteSets

CONSTANTS Creations,  \* what create_run is called with
          Edits(_),   \* what one edit makes of the directory, its place and what surrounds it
          MaxSeed     \* the largest seed

VARIABLES creation,   \* the call of create_run
          stage,      \* "asked", "staged", "published", "refused"
          tree,       \* the directory, and what surrounds it
          original,   \* the Run that create_run returned
          edited,     \* whether the directory is no longer as it was published
          answer      \* the last load: its kind, and what it returned

vars == <<creation, stage, tree, original, edited, answer>>

NoRun == <<>>
NotAsked == [how |-> "none", run |-> NoRun]

RequiredFiles == {"run.json", "manifest.json", "workflow.json", "workflow-profile.json"}
Hash(content) == <<"sha256", content>>

Column(seq, field) == [i \in DOMAIN seq |-> seq[i][field]]
Keyed(seq, key) == CHOOSE item \in Range(seq) : item.key = key
IsUnresolved(text) == "{{" \in Range(text)

-----------------------------------------------------------------------------
(* What a Batch snapshot compiles to. *)

\* itertools.product
Combinations(axes) ==
  LET Extend(whole, axis) ==
        FlattenSeq([i \in DOMAIN whole |-> [j \in DOMAIN axis |-> Append(whole[i], axis[j])]])
  IN  FoldLeft(Extend, <<<<>>>>, axes)

Uses(prompt) == prompt.text = "open"
Resolved(prompt, value) == IF Uses(prompt) THEN <<prompt.text, value>> ELSE <<prompt.text>>

VariableAxis(snapshot, prompt) == IF Uses(prompt) THEN snapshot.variables ELSE <<"unused">>
ImageAxis(snapshot, profile) ==
  Combinations([i \in DOMAIN profile.images |-> Keyed(snapshot.images, profile.images[i].key).values])
ParameterAxis(snapshot, profile) ==
  Combinations([i \in DOMAIN profile.parameters |->
    IntentValues(profile.parameters[i].type, Keyed(snapshot.parameters, profile.parameters[i].key))])

\* A random intent is as many positions; their seeds are those of the plan.
SeedAxis(intent) == IF intent.mode = "random" THEN [i \in 1..intent.count |-> 0] ELSE intent.values

Configurations(snapshot, profile) ==
  FlattenSeq([p \in DOMAIN snapshot.prompts |->
    Combinations(<<<<snapshot.prompts[p]>>, VariableAxis(snapshot, snapshot.prompts[p]),
                   ImageAxis(snapshot, profile), ParameterAxis(snapshot, profile),
                   SeedAxis(snapshot.seeds)>>)])

CompiledJob(ordinal, configuration, seed) ==
  LET prompt == configuration[1]
  IN  [ordinal |-> ordinal, prompt |-> prompt.id, text |-> Resolved(prompt, configuration[2]),
       variables |-> IF Uses(prompt) THEN <<configuration[2]>> ELSE <<>>,
       images |-> configuration[3], parameters |-> configuration[4], seed |-> seed]

\* A binding that no prompt uses is kept, with a warning.
Warnings(snapshot) ==
  IF snapshot.variables # <<>> /\ \A p \in Range(snapshot.prompts) : ~Uses(p) THEN {"unused"} ELSE {}

Compiled(snapshot, profile, drawn) ==
  LET configurations == Configurations(snapshot, profile)
      SeedOf(n) == IF snapshot.seeds.mode = "random" THEN drawn[n] ELSE configurations[n][5]
  IN  [prompts |-> snapshot.prompts, slots |-> profile.images, parameters |-> profile.parameters,
       warnings |-> Warnings(snapshot),
       jobs |-> [n \in DOMAIN configurations |-> CompiledJob(n, configurations[n], SeedOf(n))]]

-----------------------------------------------------------------------------
(* _parse_batch_snapshot and the checks of the compiler *)

SeedsAreValid(intent) ==
  /\ intent.mode = "fixed" => Len(intent.values) = 1 /\ intent.count = 0
  /\ intent.mode = "explicit" => intent.values # <<>> /\ intent.count = 0
  /\ intent.mode = "random" => intent.values = <<>> /\ intent.count >= 1
  /\ \A seed \in Range(intent.values) : seed \in 0..MaxSeed

ImagesAreBound(snapshot, profile) ==
  /\ IsInjective(Column(snapshot.images, "key"))
  /\ Range(Column(snapshot.images, "key")) = Range(Column(profile.images, "key"))
  /\ \A binding \in Range(snapshot.images) :
       binding.values # <<>> /\ IsInjective(binding.values) /\ IsBaseFirst(binding.values)

ParametersAreBound(snapshot, profile) ==
  /\ IsInjective(Column(snapshot.parameters, "key"))
  /\ Range(Column(snapshot.parameters, "key")) = Range(Column(profile.parameters, "key"))
  /\ \A p \in Range(profile.parameters) :
       LET intent == Keyed(snapshot.parameters, p.key)
       IN  IsIntent(p.type, intent) /\ IsMaterial(p.type, intent)

VariablesAreBound(snapshot) ==
  /\ IsInjective(snapshot.variables)
  /\ \A p \in Range(snapshot.prompts) : Uses(p) => snapshot.variables # <<>>

SnapshotCompiles(snapshot, profile) ==
  /\ snapshot.format = 1
  /\ snapshot.prompts # <<>> /\ IsInjective(Column(snapshot.prompts, "id"))
  /\ VariablesAreBound(snapshot)
  /\ ImagesAreBound(snapshot, profile)
  /\ ParametersAreBound(snapshot, profile)
  /\ SeedsAreValid(snapshot.seeds)

\* validate_batch_plan: random seeds are taken from the plan that is compared.
Reconstructs(snapshot, profile, plan) ==
  /\ \A job \in Range(plan.jobs) : job.seed \in 0..MaxSeed
  /\ Len(Configurations(snapshot, profile)) = Len(plan.jobs)
  /\ plan = Compiled(snapshot, profile, Column(plan.jobs, "seed"))

\* _validate_batch_snapshot_consistency
SnapshotIsConsistent(snapshot, project, batch, plan, workflow, profile) ==
  /\ snapshot.project = project
  /\ snapshot.batch = batch
  /\ snapshot.workflow = workflow /\ snapshot.profile = profile
  /\ snapshot.prompts = plan.prompts
  /\ profile.images = plan.slots /\ profile.parameters = plan.parameters
  /\ SnapshotCompiles(snapshot, profile)
  /\ Reconstructs(snapshot, profile, plan)

\* validate_workflow_profile: every target is an input of the workflow, once.
ProfileFits(workflow, profile) ==
  LET targets == Column(profile.images, "target") \o Column(profile.parameters, "target")
  IN  IsInjective(targets) /\ Range(targets) \subseteq workflow.inputs

-----------------------------------------------------------------------------
(* What create_run writes *)

Plan(c) == Compiled(c.compiled, c.profile, c.drawn)

Slug(name) == IF name = "" THEN "run" ELSE name
RunKey(c) == <<1, Slug(c.name)>>

Identity(c) ==
  [id |-> "run", number |-> 1, name |-> c.name, description |-> c.description, key |-> RunKey(c),
   created |-> "today", project |-> c.project, batch |-> c.batch]

\* _run_metadata
RunFile(c) ==
  [format |-> 1, identity |-> Identity(c), status |-> "created", count |-> Len(Plan(c).jobs),
   workflow |-> Hash(c.workflow), profile |-> Hash(c.profile)]

NoAsset == [id |-> Base, content |-> "none", name |-> "none"]
ImageInputs(c, job) ==
  [k \in DOMAIN c.profile.images |->
    [slot |-> c.profile.images[k].key, label |-> c.profile.images[k].label,
     asset |-> IF job.images[k] = Base THEN NoAsset ELSE c.assets[job.images[k]]]]

PersistedJob(c, job) ==
  [id |-> <<"job", job.ordinal>>, prefix |-> <<"run", <<"job", job.ordinal>>>>,
   ordinal |-> job.ordinal, prompt |-> job.prompt, text |-> job.text, variables |-> job.variables,
   images |-> ImageInputs(c, job),
   parameters |-> [k \in DOMAIN c.profile.parameters |->
                    [key |-> c.profile.parameters[k].key, value |-> job.parameters[k]]],
   seed |-> job.seed, workflow |-> Hash(c.workflow), profile |-> Hash(c.profile)]

\* _manifest
Manifest(c) ==
  LET plan == Plan(c)
  IN  [format |-> 1, identity |-> Identity(c), snapshot |-> c.snapshot, prompts |-> plan.prompts,
       slots |-> plan.slots, parameters |-> plan.parameters, warnings |-> plan.warnings,
       workflow |-> [path |-> "workflow.json", sha256 |-> Hash(c.workflow)],
       profile |-> [path |-> "workflow-profile.json", sha256 |-> Hash(c.profile)],
       csv |-> "manifest.csv",
       jobs |-> [n \in DOMAIN plan.jobs |-> PersistedJob(c, plan.jobs[n])]]

\* _manifest_csv_bytes: one row of each Job, with its prompt version written out.
Rows(prompts, jobs, workflow, profile) ==
  [n \in DOMAIN jobs |->
    [job |-> [f \in DOMAIN jobs[n] \ {"prefix"} |-> jobs[n][f]],
     prompt |-> CHOOSE p \in Range(prompts) : p.id = jobs[n].prompt,
     workflow |-> workflow, profile |-> profile]]

Written(c) ==
  [files |-> RequiredFiles \cup {"manifest.csv"}, outputs |-> TRUE,
   run |-> RunFile(c), manifest |-> Manifest(c), workflow |-> c.workflow, profile |-> c.profile,
   csv |-> Rows(Plan(c).prompts, Manifest(c).jobs, Hash(c.workflow), Hash(c.profile)),
   place |-> [linked |-> FALSE, project |-> c.project.key, under |-> "batches", batch |-> c.batch.key, name |-> RunKey(c)],
   projectOwner |-> [id |-> c.project.id, key |-> c.project.key],
   batchOwner |-> [id |-> c.batch.id, key |-> c.batch.key],
   store |-> c.store]

\* validate_record of the Project's asset store: the same metadata, and the content intact.
IsStored(store, asset) == asset.id \in DOMAIN store /\ store[asset.id] = asset

\* _validate_image_assets
AssetsAreValid(c) ==
  \A job \in Range(Plan(c).jobs) : \A id \in Range(job.images) \ {Base} :
    id \in DOMAIN c.assets /\ c.assets[id].id = id /\ IsStored(c.store, c.assets[id])

\* _validate_plan
PlanIsValid(plan) ==
  /\ plan.prompts # <<>> /\ IsInjective(Column(plan.prompts, "id"))
  /\ IsInjective(Column(plan.slots, "key")) /\ IsInjective(Column(plan.parameters, "key"))
  /\ \A n \in DOMAIN plan.jobs :
       /\ plan.jobs[n].ordinal = n
       /\ plan.jobs[n].prompt \in Range(Column(plan.prompts, "id"))
       /\ ~IsUnresolved(plan.jobs[n].text)

-----------------------------------------------------------------------------
(* What is read: _parse_run, _parse_job *)

PlanJob(job) ==
  [ordinal |-> job.ordinal, prompt |-> job.prompt, text |-> job.text, variables |-> job.variables,
   images |-> [k \in DOMAIN job.images |-> job.images[k].asset.id],
   parameters |-> Column(job.parameters, "value"), seed |-> job.seed]

ReadPlan(manifest) ==
  [prompts |-> manifest.prompts, slots |-> manifest.slots, parameters |-> manifest.parameters,
   warnings |-> manifest.warnings,
   jobs |-> [n \in DOMAIN manifest.jobs |-> PlanJob(manifest.jobs[n])]]

Read(t) ==
  [identity |-> t.run.identity, snapshot |-> t.manifest.snapshot, plan |-> ReadPlan(t.manifest),
   jobs |-> t.manifest.jobs, workflow |-> t.workflow, profile |-> t.profile,
   workflowHash |-> t.run.workflow, profileHash |-> t.run.profile]

FilesArePresent(t, outputs) == RequiredFiles \subseteq t.files /\ (outputs => t.outputs)

RunFileIsValid(run) ==
  /\ run.format = 1
  /\ run.identity.key[1] = run.identity.number
  /\ run.status = "created"

ManifestIsValid(manifest) ==
  /\ manifest.format = 1
  /\ manifest.workflow.path = "workflow.json"
  /\ manifest.profile.path = "workflow-profile.json"
  /\ manifest.csv = "manifest.csv"

IdentitiesAgree(t) == t.manifest.identity = t.run.identity

HashesAgree(t) ==
  /\ t.manifest.workflow.sha256 = t.run.workflow /\ Hash(t.workflow) = t.run.workflow
  /\ t.manifest.profile.sha256 = t.run.profile /\ Hash(t.profile) = t.run.profile

PromptsAreValid(manifest) ==
  manifest.prompts # <<>> /\ IsInjective(Column(manifest.prompts, "id"))

\* Seeded fault: an output prefix is believed.
PrefixIsBelieved(t, job) == ~IsUnresolved(job.text) /\ job.workflow = t.run.workflow /\ job.profile = t.run.profile

\* _parse_job
JobIsValid(t, job) ==
  /\ job.workflow = t.run.workflow /\ job.profile = t.run.profile
  /\ ~IsUnresolved(job.text)
  /\ job.prefix = <<t.run.identity.id, job.id>>

\* _parse_resolved_parameter, _parameter_value_matches
ValueMatches(type, value) == IsScalar(value) /\ Accepts(type, value)

JobFitsProfile(manifest, job) ==
  /\ Column(job.images, "slot") = Column(manifest.slots, "key")
  /\ Column(job.images, "label") = Column(manifest.slots, "label")
  /\ Column(job.parameters, "key") = Column(manifest.parameters, "key")
  /\ \A k \in DOMAIN job.parameters :
       ValueMatches(manifest.parameters[k].type, job.parameters[k].value)

JobsAreValid(t) ==
  LET jobs == t.manifest.jobs
  IN  /\ t.run.count = Len(jobs)
      /\ Column(jobs, "ordinal") = [n \in DOMAIN jobs |-> n]
      /\ IsInjective(Column(jobs, "id"))
      /\ \A job \in Range(jobs) :
           /\ JobIsValid(t, job)
           /\ JobFitsProfile(t.manifest, job)
           /\ job.prompt \in Range(Column(t.manifest.prompts, "id"))

\* project.json and batch.json, where the directory stands
OwnersAgree(t) ==
  /\ t.projectOwner.key = t.place.project /\ t.batchOwner.key = t.place.batch
  /\ t.projectOwner = [id |-> t.run.identity.project.id, key |-> t.run.identity.project.key]
  /\ t.batchOwner = [id |-> t.run.identity.batch.id, key |-> t.run.identity.batch.key]

AssetsAreStored(t) ==
  \A job \in Range(t.manifest.jobs) : \A input \in Range(job.images) :
    input.asset.id # Base => IsStored(t.store, input.asset)

\* _load_run
IsLoadable(t, assets, outputs) ==
  /\ FilesArePresent(t, outputs)
  /\ RunFileIsValid(t.run) /\ ManifestIsValid(t.manifest)
  /\ IdentitiesAgree(t)
  /\ HashesAgree(t)
  /\ PromptsAreValid(t.manifest)
  /\ JobsAreValid(t)
  /\ ProfileFits(t.workflow, t.profile)
  /\ SnapshotIsConsistent(t.manifest.snapshot, t.run.identity.project, t.run.identity.batch,
                          ReadPlan(t.manifest), t.workflow, t.profile)
  /\ OwnersAgree(t)
  /\ assets => AssetsAreStored(t)

CsvIsCanonical(t) ==
  /\ "manifest.csv" \in t.files
  /\ t.csv = Rows(t.manifest.prompts, t.manifest.jobs, t.run.workflow, t.run.profile)

\* _load_published_run: the directory stands where it says it does.
StandsInPlace(t) ==
  /\ ~t.place.linked
  /\ t.place.name = t.run.identity.key
  /\ t.place.batch = t.run.identity.batch.key
  /\ t.place.under = "batches"
  /\ t.place.project = t.run.identity.project.key

Load(t, how) ==
  IF IsLoadable(t, how = "load_run", how = "load_run") /\ StandsInPlace(t) THEN <<Read(t)>> ELSE NoRun

-----------------------------------------------------------------------------
(* One edit behind the program's back.  _parse_job refuses a Job without   *)
(* its fields, and null is the only image input that is no asset.          *)
IsJob(job) ==
  /\ job = [id |-> job.id, prefix |-> job.prefix, ordinal |-> job.ordinal, prompt |-> job.prompt, text |-> job.text,
            variables |-> job.variables, images |-> job.images, parameters |-> job.parameters,
            seed |-> job.seed, workflow |-> job.workflow, profile |-> job.profile]
  /\ \A input \in Range(job.images) :
       /\ input = [slot |-> input.slot, label |-> input.label, asset |-> input.asset]
       /\ input.asset.id = Base => input.asset = NoAsset
  /\ job.parameters =
       [k \in DOMAIN job.parameters |-> [key |-> job.parameters[k].key, value |-> job.parameters[k].value]]

\* Jobs are left out, repeated or moved, or anything of them is changed but the
\* two copies of an identity at once.
JobsAreEdited(jobs, new) ==
  \A n \in DOMAIN new :
    /\ IsJob(new[n])
    /\ \/ new[n] \in Range(jobs)
       \/ n \in DOMAIN jobs /\ (new[n].id = jobs[n].id \/ new[n].prefix = jobs[n].prefix)

ManifestIsEdited(manifest, new) ==
  \E part \in DOMAIN manifest :
    /\ new = [manifest EXCEPT ![part] = new[part]]
    /\ part = "jobs" => JobsAreEdited(manifest.jobs, new.jobs)

\* One file or one part of the manifest is changed, the directory is moved, or
\* files are exchanged with those of another Run.
IsEdit(t, new) ==
  \/ \E part \in DOMAIN t \ {"manifest"} : new = [t EXCEPT ![part] = new[part]]
  \/ /\ new = [t EXCEPT !.manifest = new.manifest]
     /\ ManifestIsEdited(t.manifest, new.manifest) \/ new.manifest.identity # t.run.identity
  \/ /\ new = [t EXCEPT !.run = new.run, !.manifest = new.manifest]
     /\ new.run.identity.key # t.place.name

IsCreatable(c) ==
  /\ PlanIsValid(Plan(c))
  /\ AssetsAreValid(c)
  /\ SnapshotIsConsistent(c.snapshot, c.project, c.batch, Plan(c), c.workflow, c.profile)

RecordAssumption ==
  \A c \in Creations : IsCreatable(c) => \A new \in Edits(Written(c)) : IsEdit(Written(c), new)

-----------------------------------------------------------------------------
Init ==
  /\ creation \in Creations
  /\ stage = "asked"
  /\ tree = <<>>
  /\ original = NoRun
  /\ edited = FALSE
  /\ answer = NotAsked

Refuse == stage' = "refused" /\ UNCHANGED <<creation, tree, original, edited, answer>>

(* The staging directory is written, unless the call is refused first. *)
Write ==
  /\ stage = "asked"
  /\ IF IsCreatable(creation)
     THEN /\ tree' = Written(creation)
          /\ stage' = "staged"
          /\ UNCHANGED <<creation, original, edited, answer>>
     ELSE Refuse

\* The staged Run is read back as the plan, snapshot, workflow and Profile of the call.
ReadsBack(t, c) ==
  /\ IsLoadable(t, TRUE, TRUE)
  /\ CsvIsCanonical(t)
  /\ ReadPlan(t.manifest) = Plan(c)
  /\ t.manifest.snapshot = c.snapshot
  /\ t.workflow = c.workflow /\ t.profile = c.profile

Publish ==
  /\ stage = "staged"
  /\ IF ReadsBack(tree, creation)
     THEN /\ stage' = "published"
          /\ original' = <<Read(tree)>>
          /\ UNCHANGED <<creation, tree, edited, answer>>
     ELSE Refuse

(* One edit, behind the program's back. *)
Edit ==
  /\ stage = "published"
  /\ ~edited
  /\ tree' \in Edits(tree)
  /\ edited' = TRUE
  /\ answer' = NotAsked
  /\ UNCHANGED <<creation, stage, original>>

LoadRun ==
  /\ stage = "published"
  /\ \E how \in {"load_run", "load_historical_run"} :
       answer' = [how |-> how, run |-> Load(tree, how)]
  /\ UNCHANGED <<creation, stage, tree, original, edited>>

Next == Write \/ Publish \/ Edit \/ LoadRun

Spec == Init /\ [][Next]_vars

-----------------------------------------------------------------------------
(* What the copies prove of a Run.  The seeds that were drawn at random,   *)
(* the file metadata of an asset while the asset store is not asked, and   *)
(* how the Batch was worded are written only once.                         *)
Proven(run, how, random) ==
  LET InputOf(input) ==
        IF how = "load_run" THEN input ELSE [slot |-> input.slot, label |-> input.label, asset |-> input.asset.id]
      JobOf(job) ==
        [job EXCEPT !.seed = IF random THEN 0 ELSE @,
                    !.images = [k \in DOMAIN @ |-> InputOf(@[k])]]
  IN  [run |-> run.identity, workflow |-> run.workflow, profile |-> run.profile,
       prompts |-> run.plan.prompts, slots |-> run.plan.slots, parameters |-> run.plan.parameters,
       warnings |-> run.plan.warnings, jobs |-> [n \in DOMAIN run.jobs |-> JobOf(run.jobs[n])]]

(* Whichever single fact of a published Run is edited, its directory moved *)
(* or exchanged with a sibling's files: a load that accepts it returns the *)
(* identity, the Jobs, the workflow and the Profile that were published    *)
(* (load_run, load_historical_run).                                        *)
AcceptedIsPublished ==
  answer.run # NoRun =>
    LET random == original[1].snapshot.seeds.mode = "random"
    IN  Proven(answer.run[1], answer.how, random) = Proven(original[1], answer.how, random)

(* A Run that create_run returned, and nobody touched, is the plan, the    *)
(* snapshot, the workflow and the Profile of the call, and loads as it was *)
(* returned from the place where it was put (create_run).                  *)
CreatedLoads ==
  stage = "published" =>
    /\ original[1].plan = Plan(creation) /\ original[1].snapshot = creation.snapshot
    /\ original[1].workflow = creation.workflow /\ original[1].profile = creation.profile
    /\ ~edited /\ answer # NotAsked => answer.run = original

(* History needs only what is frozen: the assets, the outputs and the CSV  *)
(* may be gone (load_historical_run).                                      *)
HistoryIsFrozen ==
  answer.how = "load_historical_run" /\ answer.run = NoRun =>
    \E part \in {"files", "run", "manifest", "workflow", "profile", "place", "projectOwner", "batchOwner"} :
      IF part = "files" THEN ~(RequiredFiles \subseteq tree.files)
                        ELSE tree[part] # Written(creation)[part]
=============================================================================
