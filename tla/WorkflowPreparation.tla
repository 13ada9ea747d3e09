------------------------- MODULE WorkflowPreparation -------------------------
(***************************************************************************)
(* From a frozen Run to the workflows ComfyUI is sent: comfyui/workflow.py *)
(* as BatchcraftService._compile_and_validate uses it once, for the first  *)
(* Job, before the Run is published, and as the executor uses it for every *)
(* Job afterwards; and the executor's reading of a rejection, which tells  *)
(* the user which values of the base workflow were refused.                *)
(*                                                                         *)
(* A workflow maps targets, each an input of a node, to values: a scalar   *)
(* of ParameterRange, a connection to another node, or any other JSON.     *)
(* String(n) stands for all strings one cannot tell apart here.            *)
(***************************************************************************)
EXTENDS ParameterRange, SequencesExt, FiniteSets

CONSTANTS Workflows,   \* API-format workflows that clients send
          Profiles,    \* Workflow Profiles that clients send
          Plans,       \* the Jobs a request compiles to
          MaxRejected  \* bound on the targets one rejection names

IsList(seq) == seq \in Seq(Range(seq))

PreparationAssumption ==
    /\ \A plan \in Plans : IsList(plan)
    /\ \A profile \in Profiles : IsList(profile.images) /\ IsList(profile.parameters)

VARIABLES run,       \* the frozen workflow, Profile and plan
          stage,     \* "given", "checked", "published", "uploading", "mappings", "images",
                     \* "parameters", "prepared", "reported", "refused", "failed", "done"
          ordinal,   \* the Job being prepared
          uploads,   \* what ComfyUI calls the uploaded image of each slot
          workflow,  \* the copy that is filled in
          blamed     \* the slots and the parameters a rejection is put down to

vars == <<run, stage, ordinal, uploads, workflow, blamed>>

Connection == [type |-> "connection", value |-> 0]
Other == [type |-> "object", value |-> 0]

Friendly == {"prompt", "seed", "output_prefix"}
ExpectedType(name) == IF name = "seed" THEN "integer" ELSE "string"

Keys(seq) == [i \in DOMAIN seq |-> seq[i].key]
Targets(seq) == [i \in DOMAIN seq |-> seq[i].target]
NothingBlamed == [images |-> {}, parameters |-> {}]

-----------------------------------------------------------------------------
\* validate_workflow_profile

IsLiteral(base, target) == target \in DOMAIN base /\ base[target] # Connection

\* _validate_scalar_value
IsValueOf(type, v) == v.type \notin {"connection", "object", "base"} /\ IsScalar(v) /\ Accepts(type, v)

MappingsAreValid(base, profile) ==
    /\ DOMAIN profile.mappings = Friendly
    /\ \A name \in Friendly :
        /\ profile.mappings[name].type = ExpectedType(name)
        /\ IsLiteral(base, profile.mappings[name].target)

ImagesAreValid(base, profile) ==
    /\ IsInjective(Keys(profile.images))
    /\ \A slot \in Range(profile.images) : IsLiteral(base, slot.target)

ParametersAreValid(base, profile) ==
    /\ IsInjective(Keys(profile.parameters))
    /\ \A p \in Range(profile.parameters) :
        IsLiteral(base, p.target) /\ IsValueOf(p.type, base[p.target])

TargetsAreDistinct(profile) ==
    LET mapped == {profile.mappings[name].target : name \in DOMAIN profile.mappings}
        others == Targets(profile.images) \o Targets(profile.parameters) IN
    Cardinality(mapped \cup Range(others)) = Cardinality(DOMAIN profile.mappings) + Len(others)

ProfileFits(base, profile) ==
    /\ base # <<>>
    /\ MappingsAreValid(base, profile)
    /\ ImagesAreValid(base, profile)
    /\ ParametersAreValid(base, profile)
    /\ TargetsAreDistinct(profile)

-----------------------------------------------------------------------------
\* Seeded fault: only the first Job's parameters are compared with their types.
PlanCompilesForFirst(profile, plan) ==
    /\ plan # <<>>
    /\ \A i \in DOMAIN plan :
        /\ ~plan[i].unresolved
        /\ Len(plan[i].images) = Len(profile.images)
        /\ Len(plan[i].parameters) = Len(profile.parameters)
    /\ \A k \in DOMAIN profile.parameters :
        plan[1].parameters[k] = Base \/ IsValueOf(profile.parameters[k].type, plan[1].parameters[k])

\* What the compiler makes sure of for every Job: no placeholder is left, and
\* each slot and parameter of the request's Profile has the Base workflow or
\* a value of its type.
PlanCompiles(profile, plan) ==
    /\ plan # <<>>
    /\ \A i \in DOMAIN plan :
        /\ ~plan[i].unresolved
        /\ Len(plan[i].images) = Len(profile.images)
        /\ Len(plan[i].parameters) = Len(profile.parameters)
        /\ \A k \in DOMAIN profile.parameters :
            plan[i].parameters[k] = Base \/ IsValueOf(profile.parameters[k].type, plan[i].parameters[k])

\* The values of one Job, by key; a key that is left out is the base workflow's.
Chosen(keys, values) ==
    [key \in {keys[i] : i \in {j \in DOMAIN keys : values[j] # Base}} |->
        values[CHOOSE i \in DOMAIN keys : keys[i] = key]]

Parameters(job) == Chosen(Keys(run.profile.parameters), job.parameters)

\* The checks of prepare_workflow on what it is called with.
IsPreparable(job, images) ==
    LET parameters == Parameters(job) IN
    /\ ~job.unresolved
    /\ DOMAIN images \subseteq Range(Keys(run.profile.images))
    /\ DOMAIN parameters \subseteq Range(Keys(run.profile.parameters))
    /\ \A i \in DOMAIN run.profile.parameters :
        LET p == run.profile.parameters[i] IN
        p.key \in DOMAIN parameters => IsValueOf(p.type, parameters[p.key])
    /\ ProfileFits(run.workflow, run.profile)

TheJob == run.plan[ordinal]

\* Every Job has a prompt, a seed and an output prefix of its own.
FriendlyValue(name) ==
    IF name = "seed" THEN Integer(ordinal) ELSE String(IF name = "prompt" THEN ordinal ELSE 10 + ordinal)

Uploaded(position) == String(20 + 10 * ordinal + position)

-----------------------------------------------------------------------------
\* The compiler takes slots and parameters from the Profile of the request.
Compile ==
    /\ stage = "given"
    /\ stage' = IF PlanCompiles(run.profile, run.plan) THEN "checked" ELSE "refused"
    /\ UNCHANGED <<run, ordinal, uploads, workflow, blamed>>

\* _compile_and_validate prepares the first Job with a placeholder image.
Publish ==
    LET job == run.plan[1] IN
    /\ stage = "checked"
    /\ stage' = IF IsPreparable(job, Chosen(Keys(run.profile.images), job.images))
                THEN "published" ELSE "refused"
    /\ UNCHANGED <<run, ordinal, uploads, workflow, blamed>>

\* The executor comes to its next Job.
BeginJob ==
    /\ stage \in {"published", "prepared"}
    /\ ordinal < Len(run.plan)
    /\ ordinal' = ordinal + 1
    /\ uploads' = <<>>
    /\ stage' = "uploading"
    /\ UNCHANGED <<run, workflow, blamed>>

\* The images are uploaded in the order of the slots; a Base slot has none.
UploadedImages ==
    LET keys == Keys(run.profile.images) IN
    [key \in DOMAIN Chosen(keys, TheJob.images) |-> Uploaded(CHOOSE i \in DOMAIN keys : keys[i] = key)]

UploadImages ==
    /\ stage = "uploading"
    /\ uploads' = UploadedImages
    /\ stage' = "mappings"
    /\ UNCHANGED <<run, ordinal, workflow, blamed>>

\* Seeded fault: the workflow of the former Job is filled in again.
CopiedOnce == IF workflow = <<>> THEN run.workflow ELSE workflow

Copied == run.workflow

\* The values take the place of those of the base at their targets.
Over(base, values) ==
    [t \in DOMAIN base \cup DOMAIN values |-> IF t \in DOMAIN values THEN values[t] ELSE base[t]]

FriendlyValues ==
    LET target(name) == run.profile.mappings[name].target IN
    [t \in {target(name) : name \in Friendly} |->
        FriendlyValue(CHOOSE name \in Friendly : target(name) = t)]

\* The copy, with the friendly values; or an error before anything is sent.
FillMappings ==
    /\ stage = "mappings"
    /\ IF IsPreparable(TheJob, uploads)
       THEN workflow' = Over(Copied, FriendlyValues) /\ stage' = "images"
       ELSE stage' = "failed" /\ UNCHANGED workflow
    /\ UNCHANGED <<run, ordinal, uploads, blamed>>

\* Each entry's target takes the value of its key, if there is one.
Filled(base, seq, values) ==
    LET given == {i \in DOMAIN seq : seq[i].key \in DOMAIN values} IN
    Over(base, [t \in {seq[i].target : i \in given} |->
                  values[seq[CHOOSE i \in given : seq[i].target = t].key]])

FillImages ==
    /\ stage = "images"
    /\ workflow' = Filled(workflow, run.profile.images, uploads)
    /\ stage' = "parameters"
    /\ UNCHANGED <<run, ordinal, uploads, blamed>>

FillParameters ==
    /\ stage = "parameters"
    /\ workflow' = Filled(workflow, run.profile.parameters, Parameters(TheJob))
    /\ stage' = "prepared"
    /\ UNCHANGED <<run, ordinal, uploads, blamed>>

\* _formatted_workflow_input shows scalars only.
IsShown(v) == v.type \notin {"connection", "object"}

Blamed(seq, values, targets) ==
    {i \in DOMAIN seq :
        seq[i].target \in targets /\ values[i] = Base /\ IsShown(run.workflow[seq[i].target])}

\* base_workflow_rejection_indices, for a rejection that names targets.
Reject(targets) ==
    /\ stage = "prepared"
    /\ blamed' = [images |-> Blamed(run.profile.images, TheJob.images, targets),
                  parameters |-> Blamed(run.profile.parameters, TheJob.parameters, targets)]
    /\ stage' = "reported"
    /\ UNCHANGED <<run, ordinal, uploads, workflow>>

Init ==
    /\ run \in [workflow : Workflows, profile : Profiles, plan : Plans]
    /\ stage = "given"
    /\ ordinal = 0
    /\ uploads = <<>>
    /\ workflow = <<>>
    /\ blamed = NothingBlamed

Rejections == {targets \in SUBSET DOMAIN run.workflow : Cardinality(targets) <= MaxRejected}

Next ==
    \/ Compile \/ Publish \/ BeginJob \/ UploadImages
    \/ FillMappings \/ FillImages \/ FillParameters
    \/ \E targets \in Rejections : Reject(targets)

Spec == Init /\ [][Next]_vars

-----------------------------------------------------------------------------
\* Each variable has its type; preparing adds and removes no input.
TypeOK ==
    /\ stage \in {"given", "checked", "published", "uploading", "mappings", "images",
                  "parameters", "prepared", "reported", "refused", "failed"}
    /\ ordinal \in 0 .. Len(run.plan)
    /\ DOMAIN uploads \subseteq Range(Keys(run.profile.images))
    /\ workflow # <<>> => DOMAIN workflow = DOMAIN run.workflow
    /\ blamed.images \subseteq DOMAIN run.profile.images
    /\ blamed.parameters \subseteq DOMAIN run.profile.parameters

\* A Run is published after one Job has been prepared; together with what the
\* compiler checks, that is enough for all of them: no Job of a published Run
\* fails before anything is sent.
EveryJobPrepares == stage # "failed"

\* What is submitted holds this Job's values at the targets of the Profile and
\* the base workflow's everywhere else, whatever the Jobs before it used.
SubmittedIsExact ==
    stage \in {"prepared", "reported"} =>
        LET p == run.profile
            job == TheJob
            mapped == {p.mappings[name].target : name \in Friendly}
            overridden == {p.images[i].target : i \in {j \in DOMAIN p.images : job.images[j] # Base}}
                          \cup {p.parameters[i].target :
                                  i \in {j \in DOMAIN p.parameters : job.parameters[j] # Base}} IN
        /\ \A name \in Friendly : workflow[p.mappings[name].target] = FriendlyValue(name)
        /\ \A i \in DOMAIN p.images :
            job.images[i] # Base => workflow[p.images[i].target] = Uploaded(i)
        /\ \A i \in DOMAIN p.parameters :
            job.parameters[i] # Base => workflow[p.parameters[i].target] = job.parameters[i]
        /\ \A t \in DOMAIN workflow \ (mapped \cup overridden) : workflow[t] = run.workflow[t]

\* The graph is the imported one: no connection is cut and none is made.
ConnectionsAreKept ==
    stage \in {"prepared", "reported"} =>
        \A t \in DOMAIN workflow : workflow[t] = Connection <=> run.workflow[t] = Connection

\* A prepared workflow fits its Profile again.
PreparedFitsAgain == stage = "prepared" => ProfileFits(workflow, run.profile)

\* The user is told to look at a value of the base workflow only where the
\* Job was submitted with that value.
BlamesOnlyBase ==
    stage = "reported" =>
        /\ \A i \in blamed.images :
            LET t == run.profile.images[i].target IN workflow[t] = run.workflow[t]
        /\ \A i \in blamed.parameters :
            LET t == run.profile.parameters[i].target IN workflow[t] = run.workflow[t]
=============================================================================
