--------------------------- MODULE PromptLibrary ---------------------------
(***************************************************************************)
(* The Prompt library of a Project (db/prompts.py) and the import of a     *)
(* frozen Prompt into it (import_historical_prompt_copy of                 *)
(* application/service.py).  A write is one transaction under BEGIN        *)
(* IMMEDIATE; a restore reads its source before its transaction, and an    *)
(* import that meets a conflict looks for its own earlier copy by two      *)
(* reads on connections of their own.  Other answers change nothing.       *)
(***************************************************************************)
EXTENDS Integers, Sequences, FiniteSetsExt

CONSTANTS Clients,
          Prompts, Versions,        \* identities; a new one is never used again
          CopyPrompt, CopyVersion,  \* those derived from one import request
          Names,                    \* _historical_import_names, from the frozen name on
          Texts, CopyText,          \* what users write, and the frozen text
          MaxNumber,                \* bound on the revisions of a Prompt
          None

AllNames == {Names[i] : i \in DOMAIN Names}

\* Names are not empty, and there is a frozen one to begin with.
LibraryAssumption ==
    /\ CopyPrompt \in Prompts /\ CopyVersion \in Versions
    /\ None \notin Prompts \cup Texts \cup {CopyText}
    /\ MaxNumber \in Nat \ {0}
    /\ Names \in Seq(STRING) \ {<<>>} /\ "" \notin AllNames

VARIABLES prompt,   \* the rows of prompt by identity
          version,  \* the rows of prompt_version by identity
          issued,   \* identities given out by uuid4
          selected, \* the PromptVersions that saved Batches select
          call      \* the call of each client

vars == <<prompt, version, issued, selected, call>>

NoPrompt == [name |-> "", archived |-> FALSE]
NoVersion == [prompt |-> None, number |-> 0, name |-> "", text |-> None, archived |-> FALSE]
Idle == [next |-> "none", name |-> 1, seenPrompt |-> NoPrompt, seenVersion |-> NoVersion]

PromptExists(p) == prompt[p] # NoPrompt
VersionExists(v) == version[v] # NoVersion
VersionsOf(p) == {v \in Versions : version[v].prompt = p}
NumbersOf(p) == {version[v].number : v \in VersionsOf(p)}

\* The UNIQUE (project_id, name) of the table counts archived Prompts too.
NameIsFree(n, p) == \A q \in Prompts \ {p} : prompt[q].name # n

\* Seeded fault: only the revisions that are not archived are counted.
NextNumberActive(p) ==
    Max({0} \cup {version[v].number : v \in {w \in VersionsOf(p) : ~version[w].archived}}) + 1

NextNumber(p) == Max({0} \cup NumbersOf(p)) + 1

\* _find_prompt_conflict and the check of the version's identity.
Conflict(p, v, n) == PromptExists(p) \/ ~NameIsFree(n, p) \/ VersionExists(v)

InsertPrompt(p, v, n, t) ==
    /\ prompt' = [prompt EXCEPT ![p] = [name |-> n, archived |-> FALSE]]
    /\ version' = [version EXCEPT ![v] = [prompt |-> p, number |-> 1, name |-> n,
                                          text |-> t, archived |-> FALSE]]

InsertVersion(p, v, t) ==
    /\ PromptExists(p)
    /\ v \notin issued
    /\ NextNumber(p) <= MaxNumber
    /\ version' = [version EXCEPT ![v] = [prompt |-> p, number |-> NextNumber(p),
                                          name |-> prompt[p].name, text |-> t, archived |-> FALSE]]
    /\ issued' = issued \cup {v}
    /\ UNCHANGED <<prompt, selected>>

-----------------------------------------------------------------------------
\* A name that is taken refuses the call and changes nothing.
Create(c, p, v, n, t) ==
    /\ call[c] = Idle
    /\ {p, v} \cap issued = {}
    /\ ~Conflict(p, v, n)
    /\ InsertPrompt(p, v, n, t)
    /\ issued' = issued \cup {p, v}
    /\ UNCHANGED <<selected, call>>

\* create_version asks whether the Prompt exists, not whether it is archived.
CreateVersion(c, p, v, t) ==
    /\ call[c] = Idle
    /\ InsertVersion(p, v, t)
    /\ UNCHANGED call

\* restore_version reads the source in a statement of its own ...
ReadSource(c, v) ==
    /\ call[c] = Idle
    /\ VersionExists(v)
    /\ call' = [call EXCEPT ![c].next = "restore", ![c].seenVersion = version[v]]
    /\ UNCHANGED <<prompt, version, issued, selected>>

\* ... and then writes as create_version does, if the Prompt is still there.
Restore(c, v) ==
    LET source == call[c].seenVersion IN
    /\ call[c].next = "restore"
    /\ \/ InsertVersion(source.prompt, v, source.text)
       \/ ~PromptExists(source.prompt) /\ UNCHANGED <<prompt, version, issued, selected>>
    /\ call' = [call EXCEPT ![c] = Idle]

UpdateMetadata(c, p, n) ==
    /\ call[c] = Idle
    /\ PromptExists(p) /\ NameIsFree(n, p)
    /\ prompt' = [prompt EXCEPT ![p].name = n]
    /\ UNCHANGED <<version, issued, selected, call>>

Archive(c, p) ==
    /\ call[c] = Idle
    /\ PromptExists(p)
    /\ prompt' = [prompt EXCEPT ![p].archived = TRUE]
    /\ UNCHANGED <<version, issued, selected, call>>

ArchiveVersion(c, v) ==
    /\ call[c] = Idle
    /\ VersionExists(v)
    /\ version' = [version EXCEPT ![v].archived = TRUE]
    /\ UNCHANGED <<prompt, issued, selected, call>>

\* A Prompt goes with all its revisions unless a saved Batch selects one.
Delete(c, p) ==
    /\ call[c] = Idle
    /\ PromptExists(p)
    /\ VersionsOf(p) \cap selected = {}
    /\ prompt' = [prompt EXCEPT ![p] = NoPrompt]
    /\ version' = [v \in Versions |-> IF v \in VersionsOf(p) THEN NoVersion ELSE version[v]]
    /\ UNCHANGED <<issued, selected, call>>

\* Saved Batches select revisions and drop them again (SavedBatch has this part).
Select(v) ==
    /\ VersionExists(v)
    /\ selected' = selected \cup {v}
    /\ UNCHANGED <<prompt, version, issued, call>>

Unselect(v) ==
    /\ v \in selected
    /\ selected' = selected \ {v}
    /\ UNCHANGED <<prompt, version, issued, call>>

-----------------------------------------------------------------------------
\* import_historical_prompt_copy, always with the identities of its request.
Copy(c) ==
    /\ call[c] = Idle
    /\ call' = [call EXCEPT ![c].next = "try"]
    /\ UNCHANGED <<prompt, version, issued, selected>>

TryName(c) ==
    LET n == Names[call[c].name] IN
    /\ call[c].next = "try"
    /\ \/ /\ ~Conflict(CopyPrompt, CopyVersion, n)
          /\ InsertPrompt(CopyPrompt, CopyVersion, n, CopyText)
          /\ call' = [call EXCEPT ![c] = Idle]
       \/ /\ Conflict(CopyPrompt, CopyVersion, n)
          /\ call' = [call EXCEPT ![c].next = "prompt"]
          /\ UNCHANGED <<prompt, version>>
    /\ UNCHANGED <<issued, selected>>

ReadPrompt(c) ==
    /\ call[c].next = "prompt"
    /\ call' = [call EXCEPT ![c].seenPrompt = prompt[CopyPrompt], ![c].next = "version"]
    /\ UNCHANGED <<prompt, version, issued, selected>>

\* What _replay_historical_prompt_copy takes for the copy of its own request.
IsCopy(p, v) ==
    /\ p # NoPrompt /\ ~p.archived
    /\ v.prompt = CopyPrompt /\ v.number = 1 /\ v.text = CopyText /\ ~v.archived

IsAbsent(p, v) == p = NoPrompt /\ v = NoVersion

\* The second read and what follows from both.
ReadVersion(c) ==
    LET p == call[c].seenPrompt
        v == version[CopyVersion] IN
    /\ call[c].next = "version"
    /\ \/ /\ IsCopy(p, v)
          /\ call' = [call EXCEPT ![c] = Idle]
       \/ /\ IsAbsent(p, v)
          /\ call' = [call EXCEPT ![c] = IF call[c].name < Len(Names)
                                        THEN [Idle EXCEPT !.next = "try", !.name = call[c].name + 1]
                                        ELSE Idle]
       \/ /\ ~IsCopy(p, v) /\ ~IsAbsent(p, v)
          /\ call' = [call EXCEPT ![c] = [Idle EXCEPT !.next = "collision"]]
    /\ UNCHANGED <<prompt, version, issued, selected>>

Return(c) ==
    /\ call[c].next = "collision"
    /\ call' = [call EXCEPT ![c] = Idle]
    /\ UNCHANGED <<prompt, version, issued, selected>>

Init ==
    /\ prompt = [p \in Prompts |-> NoPrompt]
    /\ version = [v \in Versions |-> NoVersion]
    /\ issued = {CopyPrompt, CopyVersion}
    /\ selected = {}
    /\ call = [c \in Clients |-> Idle]

Next ==
    \/ \E c \in Clients :
          \/ \E p \in Prompts, v \in Versions, n \in AllNames, t \in Texts : Create(c, p, v, n, t)
          \/ \E p \in Prompts, v \in Versions, t \in Texts : CreateVersion(c, p, v, t)
          \/ \E v \in Versions : ReadSource(c, v) \/ Restore(c, v) \/ ArchiveVersion(c, v)
          \/ \E p \in Prompts, n \in AllNames : UpdateMetadata(c, p, n)
          \/ \E p \in Prompts : Archive(c, p) \/ Delete(c, p)
          \/ Copy(c) \/ TryName(c) \/ ReadPrompt(c) \/ ReadVersion(c) \/ Return(c)
    \/ \E v \in Versions : Select(v) \/ Unselect(v)

Spec == Init /\ [][Next]_vars

-----------------------------------------------------------------------------
PromptRow == [name : AllNames \cup {""}, archived : BOOLEAN]
VersionRow == [prompt : Prompts \cup {None}, number : 0 .. MaxNumber, name : AllNames \cup {""},
               text : Texts \cup {CopyText, None}, archived : BOOLEAN]

TypeOK ==
    /\ prompt \in [Prompts -> PromptRow]
    /\ version \in [Versions -> VersionRow]
    /\ issued \subseteq Prompts \cup Versions
    /\ selected \subseteq Versions
    /\ \A c \in Clients : call[c].seenPrompt \in PromptRow /\ call[c].seenVersion \in VersionRow

\* The revisions of a Prompt are numbered 1, 2, ... without a gap and without a
\* double, whatever is archived, restored, deleted or imported again
\* (docs/API.md: "Saving text creates the next monotonic version").
VersionsAreNumbered ==
    \A p \in Prompts :
        /\ \E n \in 0 .. MaxNumber : NumbersOf(p) = 1 .. n /\ (n > 0 <=> PromptExists(p))
        /\ \A v, w \in VersionsOf(p) : version[v].number = version[w].number => v = w

\* No two Prompts share a name, the archived ones included.
NamesAreUnique ==
    \A p, q \in Prompts : PromptExists(p) /\ prompt[p].name = prompt[q].name => p = q

\* A saved Batch selects revisions that exist.
SelectedExist == \A v \in selected : VersionExists(v)

\* After any sequence of creations, restorations, archivings, deletions, copies
\* and selections of several editors, also where a step used what it had read
\* before: the revisions of a Prompt are numbered 1..n, names are unique, and no
\* saved Batch selects a revision that was deleted.
LibraryIsSound == VersionsAreNumbered /\ NamesAreUnique /\ SelectedExist
=============================================================================
