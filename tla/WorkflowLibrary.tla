-------------------------- MODULE WorkflowLibrary --------------------------
(***************************************************************************)
(* The Workflows and Workflow Profiles of a Project (db/workflows.py), and *)
(* the import of the frozen Workflow and Profile of a Run into them        *)
(* (application/service.py).  Nothing is ever deleted.  A Profile version  *)
(* is made for one WorkflowVersion; the import of a Profile reads its      *)
(* target outside the transaction that creates the Profile.                *)
(***************************************************************************)
EXTENDS Integers, Sequences, FiniteSetsExt

CONSTANTS Clients,
          Workflows, Profiles,            \* logical identities
          WorkflowVersions, ProfileVersions,
          Import,                         \* the identities derived from one import request
          Names,                          \* _historical_import_names
          Contents, Mappings, Fits,       \* which Profile maps which workflow
          Frozen,                         \* the workflow and Profile of the historical Run
          None

VARIABLES workflow,         \* logical rows, by identity
          workflowVersion,  \* immutable rows but for archived
          profile,
          profileVersion,
          call              \* the import of each client

vars == <<workflow, workflowVersion, profile, profileVersion, call>>

NoParent == [of |-> None, name |-> "", archived |-> FALSE]
NoWorkflowVersion == [of |-> None, number |-> 0, content |-> None, archived |-> FALSE]
NoProfileVersion == [of |-> None, target |-> None, number |-> 0, content |-> None, archived |-> FALSE]
Idle == [next |-> "none", kind |-> "workflow", name |-> 1, target |-> None, parent |-> NoParent]

AllNames == {Names[i] : i \in DOMAIN Names}

\* Every Workflow belongs to the one Project, named here by the import's.
Project == "project"

\* Names are not empty, and there is a frozen one to begin with.
WorkflowAssumption ==
    /\ Import.workflow \in Workflows /\ Import.workflowVersion \in WorkflowVersions
    /\ Import.profile \in Profiles /\ Import.profileVersion \in ProfileVersions
    /\ Frozen.content \in Contents /\ Frozen.mapping \in Mappings
    /\ None \notin Workflows \cup Profiles \cup {Project}
    /\ Names \in Seq(STRING) \ {<<>>} /\ "" \notin AllNames

NextNumber(versions, p) ==
    Max({0} \cup {versions[v].number : v \in {w \in DOMAIN versions : versions[w].of = p}}) + 1

NameIsFree(parents, n, scope) ==
    \A p \in DOMAIN parents : ~(parents[p].of = scope /\ parents[p].name = n)

\* _check_logical_conflict, and the identity of the version.
Conflict(parents, versions, p, v, n, scope) ==
    \/ parents[p] # NoParent
    \/ ~NameIsFree(parents, n, scope)
    \/ versions[v].of # None

-----------------------------------------------------------------------------
InsertWorkflow(w, v, n, c) ==
    /\ workflow' = [workflow EXCEPT ![w] = [of |-> Project, name |-> n, archived |-> FALSE]]
    /\ workflowVersion' = [workflowVersion EXCEPT
            ![v] = [of |-> w, number |-> 1, content |-> c, archived |-> FALSE]]

CreateWorkflow(w, v, n, c) ==
    /\ {w, v} \cap {Import.workflow, Import.workflowVersion} = {}
    /\ ~Conflict(workflow, workflowVersion, w, v, n, Project)
    /\ InsertWorkflow(w, v, n, c)
    /\ UNCHANGED <<profile, profileVersion, call>>

CreateWorkflowVersion(w, v, c) ==
    /\ v # Import.workflowVersion
    /\ workflow[w] # NoParent
    /\ workflowVersion[v].of = None
    /\ workflowVersion' = [workflowVersion EXCEPT
            ![v] = [of |-> w, number |-> NextNumber(workflowVersion, w), content |-> c, archived |-> FALSE]]
    /\ UNCHANGED <<workflow, profile, profileVersion, call>>

\* _profile_target: the target is a version of the Profile's own Workflow.
Targets(v, w) == workflowVersion[v].of = w

IsActiveTarget(v, w) == ~workflow[w].archived /\ ~workflowVersion[v].archived

\* _canonical_profile validates the mappings against the target's workflow.
Accepts(m, v) == <<m, workflowVersion[v].content>> \in Fits

InsertProfile(f, u, n, v, m) ==
    /\ profile' = [profile EXCEPT
            ![f] = [of |-> workflowVersion[v].of, name |-> n, archived |-> FALSE]]
    /\ profileVersion' = [profileVersion EXCEPT
            ![u] = [of |-> f, target |-> v, number |-> 1, content |-> m, archived |-> FALSE]]

CreateProfile(f, u, n, w, v, m) ==
    /\ {f, u} \cap {Import.profile, Import.profileVersion} = {}
    /\ workflow[w] # NoParent
    /\ Targets(v, w) /\ IsActiveTarget(v, w) /\ Accepts(m, v)
    /\ ~Conflict(profile, profileVersion, f, u, n, w)
    /\ InsertProfile(f, u, n, v, m)
    /\ UNCHANGED <<workflow, workflowVersion, call>>

\* Unlike create, it does not ask whether anything is archived.
CreateProfileVersion(f, u, v, m) ==
    /\ u # Import.profileVersion
    /\ profile[f] # NoParent
    /\ profileVersion[u].of = None
    /\ Targets(v, profile[f].of) /\ Accepts(m, v)
    /\ profileVersion' = [profileVersion EXCEPT
            ![u] = [of |-> f, target |-> v, number |-> NextNumber(profileVersion, f),
                    content |-> m, archived |-> FALSE]]
    /\ UNCHANGED <<workflow, workflowVersion, profile, call>>

\* update_metadata leaves names to the UNIQUE constraints of the tables.
Renamed(parents, p, n) ==
    /\ parents[p] # NoParent
    /\ NameIsFree([parents EXCEPT ![p] = NoParent], n, parents[p].of)

UpdateWorkflow(w, n) ==
    /\ Renamed(workflow, w, n)
    /\ workflow' = [workflow EXCEPT ![w].name = n]
    /\ UNCHANGED <<workflowVersion, profile, profileVersion, call>>

UpdateProfile(f, n) ==
    /\ Renamed(profile, f, n)
    /\ profile' = [profile EXCEPT ![f].name = n]
    /\ UNCHANGED <<workflow, workflowVersion, profileVersion, call>>

\* A logical row and its versions are archived apart from one another.
ArchiveWorkflow(w) ==
    /\ workflow[w] # NoParent
    /\ workflow' = [workflow EXCEPT ![w].archived = TRUE]
    /\ UNCHANGED <<workflowVersion, profile, profileVersion, call>>

ArchiveWorkflowVersion(v) ==
    /\ workflowVersion[v].of # None
    /\ workflowVersion' = [workflowVersion EXCEPT ![v].archived = TRUE]
    /\ UNCHANGED <<workflow, profile, profileVersion, call>>

ArchiveProfile(f) ==
    /\ profile[f] # NoParent
    /\ profile' = [profile EXCEPT ![f].archived = TRUE]
    /\ UNCHANGED <<workflow, workflowVersion, profileVersion, call>>

ArchiveProfileVersion(u) ==
    /\ profileVersion[u].of # None
    /\ profileVersion' = [profileVersion EXCEPT ![u].archived = TRUE]
    /\ UNCHANGED <<workflow, workflowVersion, profile, call>>

-----------------------------------------------------------------------------
\* import_historical_workflow_copy and import_historical_workflow_profile_copy.
\* The latter asks first for its target, whose reads change nothing, as
\* versions never change: what may have changed by the time of the
\* transaction is whether it is archived.
ImportWorkflow(c) ==
    /\ call[c] = Idle
    /\ call' = [call EXCEPT ![c].next = "try"]
    /\ UNCHANGED <<workflow, workflowVersion, profile, profileVersion>>

ImportProfile(c, v) ==
    /\ call[c] = Idle
    /\ workflowVersion[v].of # None
    /\ IsActiveTarget(v, workflowVersion[v].of)
    /\ workflowVersion[v].content = Frozen.content
    /\ call' = [call EXCEPT ![c].next = "try", ![c].kind = "profile", ![c].target = v]
    /\ UNCHANGED <<workflow, workflowVersion, profile, profileVersion>>

TryWorkflow(c) ==
    LET n == Names[call[c].name]
        conflict == Conflict(workflow, workflowVersion, Import.workflow, Import.workflowVersion, n, Project)
    IN
    /\ call[c].next = "try" /\ call[c].kind = "workflow"
    /\ \/ /\ ~conflict
          /\ InsertWorkflow(Import.workflow, Import.workflowVersion, n, Frozen.content)
          /\ call' = [call EXCEPT ![c] = Idle]
       \/ /\ conflict
          /\ call' = [call EXCEPT ![c].next = "parent"]
          /\ UNCHANGED <<workflow, workflowVersion>>
    /\ UNCHANGED <<profile, profileVersion>>

\* The transaction looks at the target again before it looks for conflicts.
TryProfile(c) ==
    LET n == Names[call[c].name]
        v == call[c].target
        w == workflowVersion[v].of
        conflict == Conflict(profile, profileVersion, Import.profile, Import.profileVersion, n, w)
    IN
    /\ call[c].next = "try" /\ call[c].kind = "profile"
    /\ \/ /\ ~IsActiveTarget(v, w) \/ ~Accepts(Frozen.mapping, v)
          /\ call' = [call EXCEPT ![c] = Idle]
          /\ UNCHANGED <<profile, profileVersion>>
       \/ /\ IsActiveTarget(v, w) /\ Accepts(Frozen.mapping, v)
          /\ ~conflict
          /\ InsertProfile(Import.profile, Import.profileVersion, n, v, Frozen.mapping)
          /\ call' = [call EXCEPT ![c] = Idle]
       \/ /\ IsActiveTarget(v, w) /\ Accepts(Frozen.mapping, v)
          /\ conflict
          /\ call' = [call EXCEPT ![c].next = "parent"]
          /\ UNCHANGED <<profile, profileVersion>>
    /\ UNCHANGED <<workflow, workflowVersion>>

\* The replay reads the logical row and the version on two connections.
ReadParent(c) ==
    LET row == IF call[c].kind = "workflow" THEN workflow[Import.workflow] ELSE profile[Import.profile] IN
    /\ call[c].next = "parent"
    /\ call' = [call EXCEPT ![c].next = "version", ![c].parent = row]
    /\ UNCHANGED <<workflow, workflowVersion, profile, profileVersion>>

IsWorkflowCopy(w, v) ==
    /\ w # NoParent /\ ~w.archived
    /\ v.of = Import.workflow /\ v.number = 1 /\ ~v.archived
    /\ v.content = Frozen.content

IsProfileCopy(f, u, target) ==
    /\ f # NoParent /\ ~f.archived
    /\ f.of = workflowVersion[target].of
    /\ u.of = Import.profile /\ u.number = 1 /\ ~u.archived
    /\ u.target = target /\ u.content = Frozen.mapping

\* Neither row: the name was taken, the next one is tried, if there is one.
\* The copy: it is the answer.  Anything else: a collision.
NextName(c) ==
    IF call[c].name < Len(Names)
    THEN [call[c] EXCEPT !.next = "try", !.name = @ + 1]
    ELSE Idle

ReadVersion(c) ==
    LET p == call[c].parent
        isWorkflow == call[c].kind = "workflow"
        absent == p = NoParent /\ IF isWorkflow THEN workflowVersion[Import.workflowVersion].of = None
                                  ELSE profileVersion[Import.profileVersion].of = None
        copy == IF isWorkflow THEN IsWorkflowCopy(p, workflowVersion[Import.workflowVersion])
                ELSE IsProfileCopy(p, profileVersion[Import.profileVersion], call[c].target)
    IN
    /\ call[c].next = "version"
    /\ call' = [call EXCEPT ![c] = IF absent THEN NextName(c)
                                   ELSE [Idle EXCEPT !.next = IF copy THEN "none" ELSE "collision"]]
    /\ UNCHANGED <<workflow, workflowVersion, profile, profileVersion>>

Return(c) ==
    /\ call[c].next = "collision"
    /\ call' = [call EXCEPT ![c] = Idle]
    /\ UNCHANGED <<workflow, workflowVersion, profile, profileVersion>>

Init ==
    /\ workflow = [w \in Workflows |-> NoParent]
    /\ workflowVersion = [v \in WorkflowVersions |-> NoWorkflowVersion]
    /\ profile = [f \in Profiles |-> NoParent]
    /\ profileVersion = [u \in ProfileVersions |-> NoProfileVersion]
    /\ call = [c \in Clients |-> Idle]

Next ==
    \/ \E w \in Workflows, v \in WorkflowVersions, c \in Contents :
          CreateWorkflowVersion(w, v, c) \/ \E n \in AllNames : CreateWorkflow(w, v, n, c)
    \/ \E f \in Profiles, u \in ProfileVersions, v \in WorkflowVersions, m \in Mappings :
          \/ CreateProfileVersion(f, u, v, m)
          \/ \E n \in AllNames, w \in Workflows : CreateProfile(f, u, n, w, v, m)
    \/ \E w \in Workflows : ArchiveWorkflow(w) \/ \E n \in AllNames : UpdateWorkflow(w, n)
    \/ \E f \in Profiles : ArchiveProfile(f) \/ \E n \in AllNames : UpdateProfile(f, n)
    \/ \E v \in WorkflowVersions : ArchiveWorkflowVersion(v)
    \/ \E u \in ProfileVersions : ArchiveProfileVersion(u)
    \/ \E c \in Clients :
          \/ ImportWorkflow(c) \/ TryWorkflow(c) \/ TryProfile(c)
          \/ \E v \in WorkflowVersions : ImportProfile(c, v)
          \/ ReadParent(c) \/ ReadVersion(c) \/ Return(c)

Spec == Init /\ [][Next]_vars

-----------------------------------------------------------------------------
ParentRow(scopes) == [of : scopes \cup {None}, name : AllNames \cup {""}, archived : BOOLEAN]

TypeOK ==
    /\ workflow \in [Workflows -> ParentRow({Project})]
    /\ profile \in [Profiles -> ParentRow(Workflows)]
    /\ workflowVersion \in [WorkflowVersions -> [of : Workflows \cup {None}, number : Nat,
                                content : Contents \cup {None}, archived : BOOLEAN]]
    /\ profileVersion \in [ProfileVersions -> [of : Profiles \cup {None}, number : Nat,
                                target : WorkflowVersions \cup {None},
                                content : Mappings \cup {None}, archived : BOOLEAN]]

\* Versions of one parent are numbered without gap or double.
AreNumbered(parents, versions) ==
    \A p \in DOMAIN parents :
        LET mine == {v \in DOMAIN versions : versions[v].of = p} IN
        /\ {versions[v].number : v \in mine} = 1 .. Cardinality(mine)
        /\ mine # {} <=> parents[p] # NoParent

HaveOwnNames(parents) ==
    \A p, q \in DOMAIN parents :
        parents[p] # NoParent /\ parents[p].of = parents[q].of /\ parents[p].name = parents[q].name => p = q

\* Whatever the order of saves, archives and imports: every Profile version
\* maps the WorkflowVersion it was made for, of its own Workflow, so a Run that
\* selects both can be prepared (docs/API.md, "Workflows And Profiles").
ProfilesFitTheirTarget ==
    \A u \in ProfileVersions :
        LET row == profileVersion[u] IN
        row.of # None =>
            /\ workflowVersion[row.target].of = profile[row.of].of
            /\ <<row.content, workflowVersion[row.target].content>> \in Fits

\* What the join of list finds for a Profile and a WorkflowVersion.
\* Seeded fault: the newest version is sought among those for any target.
LatestCompatibleOfAny(f, v) ==
    {u \in ProfileVersions :
        LET row == profileVersion[u]
            candidates == {c \in ProfileVersions : profileVersion[c].of = f /\ ~profileVersion[c].archived} IN
        /\ row.of = f /\ ~row.archived /\ row.target = v
        /\ row.number = Max({0} \cup {profileVersion[c].number : c \in candidates})}

LatestCompatible(f, v) ==
    {u \in ProfileVersions :
        LET row == profileVersion[u]
            candidates == {c \in ProfileVersions : /\ profileVersion[c].of = f /\ ~profileVersion[c].archived
                                                   /\ profileVersion[c].target = v} IN
        /\ row.of = f /\ ~row.archived /\ row.target = v
        /\ row.number = Max({0} \cup {profileVersion[c].number : c \in candidates})}

\* The list shows one version of a Profile for a WorkflowVersion if any active
\* one was made for it (docs/API.md on latest_compatible_version).
CompatibleIsShown ==
    \A f \in Profiles, v \in WorkflowVersions :
        LET made == {u \in ProfileVersions : /\ profileVersion[u].of = f /\ profileVersion[u].target = v
                                             /\ ~profileVersion[u].archived} IN
        Cardinality(LatestCompatible(f, v)) = IF made = {} THEN 0 ELSE 1

\* After any sequence of creations, updates, archivings and imports that read
\* before they wrote: both families are numbered and named uniquely, a Profile
\* version fits the Workflow version it targets, and the compatible one is shown.
WorkflowsAreSound ==
    /\ AreNumbered(workflow, workflowVersion)
    /\ AreNumbered(profile, profileVersion)
    /\ HaveOwnNames(workflow) /\ HaveOwnNames(profile)
    /\ ProfilesFitTheirTarget
    /\ CompatibleIsShown
=============================================================================
