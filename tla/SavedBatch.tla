----------------------------- MODULE SavedBatch -----------------------------
(***************************************************************************)
(* Saved Batches (db/saved_batches.py) as several browser editors use      *)
(* them (App.tsx): a Saved Batch is edited under an optimistic revision.   *)
(* A write is one transaction, but the detail every call answers with is   *)
(* read by several SELECTs, each with a snapshot of its own, after the     *)
(* transaction has ended.  Prompts may be deleted by other editors in the  *)
(* meantime (db/prompts.py).                                               *)
(***************************************************************************)
EXTENDS Integers

CONSTANTS Editors,       \* browser tabs
          Batches,       \* Saved Batch identities
          KeyOf,         \* the filesystem key of each identity
          Versions,      \* PromptVersions the library has at the start
          PromptOf,      \* the Prompt of each PromptVersion
          Profiles,      \* Workflow Profile versions, which are never deleted
          Forms,         \* what an editor may type
          MaxRevision,   \* bound on the revisions of one Saved Batch
          None

\* A definition: the root row names a Profile version, the child rows hold
\* the prompt selections and the parameter bindings, which are made for one
\* Profile version each.
Definition == [profile : Profiles, prompts : SUBSET Versions, params : Profiles]

ASSUME SavedBatchAssumption ==
    /\ MaxRevision \in Nat \ {0}
    /\ Forms \subseteq Definition
    /\ None \notin Batches \cup Profiles

VARIABLES row,      \* the stored Saved Batches, revision 0 when there is none
          library,  \* the PromptVersions that exist
          form,     \* what each editor shows
          link,     \* the stored Saved Batch each editor believes it edits
          pointer,  \* what a reload of the tab finds again
          call      \* the call of each editor that is under way

vars == <<row, library, form, link, pointer, call>>

Unlinked == [batch |-> None, revision |-> 0, base |-> None, from |-> "nothing"]
NoPointer == [batch |-> None, revision |-> 0]
Idle == [kind |-> "none", next |-> "none", batch |-> None, sent |-> None,
         revision |-> 0, profile |-> None, prompts |-> {}, params |-> None]

Exists(b) == row[b].revision > 0
KeyIsFree(b) == \A c \in Batches : Exists(c) => KeyOf[c] # KeyOf[b]

\* The bindings are those of the selected Profile version and every selected
\* PromptVersion exists (a selection of a deleted one is "detached").
Acceptable(d) == d.params = d.profile /\ d.prompts \subseteq library

StartOf(kind, b, sent) ==
    [kind |-> kind, next |-> "root", batch |-> b, sent |-> sent,
     revision |-> 0, profile |-> None, prompts |-> {}, params |-> None]

Begin(e, kind, b, sent) ==
    call' = [call EXCEPT ![e] = StartOf(kind, b, sent)]

-----------------------------------------------------------------------------
\* The editor types; it may do so while a call is under way.
Edit(e, d) ==
    /\ form' = [form EXCEPT ![e] = d]
    /\ UNCHANGED <<row, library, link, pointer, call>>

\* createFromCurrentSavedBatch: the identity comes from the Batch's owner
\* file; a key that is taken or a selection that fails stores nothing.
Create(e, b) ==
    /\ call[e] = Idle
    /\ ~Exists(b)
    /\ KeyIsFree(b)
    /\ Acceptable(form[e])
    /\ row' = [row EXCEPT ![b] = [revision |-> 1, archived |-> FALSE, def |-> form[e]]]
    /\ Begin(e, "create", b, form[e])
    /\ UNCHANGED <<library, form, link, pointer>>

\* Seeded fault: the transaction does not compare the revision.
UpdateBlindly(e) ==
    LET b == link[e].batch IN
    /\ call[e] = Idle
    /\ b # None
    /\ row[b].revision < MaxRevision
    /\ Acceptable(form[e])
    /\ row' = [row EXCEPT ![b].revision = @ + 1, ![b].def = form[e]]
    /\ Begin(e, "update", b, form[e])
    /\ UNCHANGED <<library, form, link, pointer>>

\* Seeded fault: a save leaves the revision as it is.
UpdateUncounted(e) ==
    LET b == link[e].batch IN
    /\ call[e] = Idle
    /\ b # None
    /\ row[b].revision = link[e].revision
    /\ row[b].revision < MaxRevision
    /\ Acceptable(form[e])
    /\ row' = [row EXCEPT ![b].def = form[e]]
    /\ Begin(e, "update", b, form[e])
    /\ UNCHANGED <<library, form, link, pointer>>

\* saveCurrentSavedBatch and the transaction of SavedBatchStore.update: it
\* does not ask whether the Saved Batch is archived.
Update(e) ==
    LET b == link[e].batch IN
    /\ call[e] = Idle
    /\ b # None
    /\ row[b].revision = link[e].revision
    /\ row[b].revision < MaxRevision
    /\ Acceptable(form[e])
    /\ row' = [row EXCEPT ![b].revision = @ + 1, ![b].def = form[e]]
    /\ Begin(e, "update", b, form[e])
    /\ UNCHANGED <<library, form, link, pointer>>

\* archiveSavedBatch: no revision is expected; only the first archive counts
\* as a change.
Archive(e) ==
    LET b == link[e].batch IN
    /\ call[e] = Idle
    /\ b # None
    /\ row[b].revision < MaxRevision
    /\ row' = IF row[b].archived THEN row
              ELSE [row EXCEPT ![b].archived = TRUE, ![b].revision = @ + 1]
    /\ Begin(e, "archive", b, None)
    /\ UNCHANGED <<library, form, link, pointer>>

\* selectSavedBatch, and the reload after a conflict.
Select(e, b) ==
    /\ call[e] = Idle
    /\ Exists(b)
    /\ Begin(e, "select", b, None)
    /\ UNCHANGED <<row, library, form, link, pointer>>

\* The tab is reloaded: the draft and the pointer survive in the session.
Reload(e) ==
    /\ link' = [link EXCEPT ![e] = Unlinked]
    /\ call' = [call EXCEPT ![e] = Idle]
    /\ UNCHANGED <<row, library, form, pointer>>

\* The recovered draft is linked again when the Saved Batch did not change.
Restore(e) ==
    /\ call[e] = Idle
    /\ link[e] = Unlinked
    /\ pointer[e].batch # None
    /\ Begin(e, "restore", pointer[e].batch, None)
    /\ UNCHANGED <<row, library, form, link, pointer>>

\* Seeded fault: the selections of archived Saved Batches are not protected.
DeletePromptOfArchived(p) ==
    LET gone == {v \in library : PromptOf[v] = p} IN
    /\ gone # {}
    /\ \A b \in Batches : Exists(b) /\ ~row[b].archived => row[b].def.prompts \cap gone = {}
    /\ library' = library \ gone
    /\ UNCHANGED <<row, form, link, pointer, call>>

\* PromptStore.delete: refused while a Saved Batch, archived or not, selects
\* one of the Prompt's versions.
DeletePrompt(p) ==
    LET gone == {v \in library : PromptOf[v] = p} IN
    /\ gone # {}
    /\ \A b \in Batches : Exists(b) => row[b].def.prompts \cap gone = {}
    /\ library' = library \ gone
    /\ UNCHANGED <<row, form, link, pointer, call>>

-----------------------------------------------------------------------------
\* The SELECTs of _get_detail, in their order.
ReadRoot(e) ==
    LET b == call[e].batch IN
    /\ call[e].next = "root"
    /\ call' = [call EXCEPT ![e].next = "prompts", ![e].revision = row[b].revision,
                            ![e].profile = row[b].def.profile]
    /\ UNCHANGED <<row, library, form, link, pointer>>

ReadPrompts(e) ==
    /\ call[e].next = "prompts"
    /\ call' = [call EXCEPT ![e].next = "params",
                            ![e].prompts = row[call[e].batch].def.prompts]
    /\ UNCHANGED <<row, library, form, link, pointer>>

\* Seeded fault: the root row is read after its children.
ReadParamsThenRoot(e) ==
    LET b == call[e].batch IN
    /\ call[e].next = "params"
    /\ call' = [call EXCEPT ![e].next = "answer", ![e].params = row[b].def.params,
                            ![e].profile = row[b].def.profile, ![e].revision = row[b].revision]
    /\ UNCHANGED <<row, library, form, link, pointer>>

ReadParams(e) ==
    /\ call[e].next = "params"
    /\ call' = [call EXCEPT ![e].next = "answer",
                            ![e].params = row[call[e].batch].def.params]
    /\ UNCHANGED <<row, library, form, link, pointer>>

\* The detail, which is an error when the bindings that were read are not
\* those of the Profile version the root named.
DetailOf(c) == [profile |-> c.profile, prompts |-> c.prompts, params |-> c.params]
Fits(c) == c.params = c.profile

LinkTo(c, base, from) ==
    [batch |-> c.batch, revision |-> c.revision, base |-> base, from |-> from]

\* loadSavedBatchDetail: editor and link both take the detail.
Load(e) ==
    LET c == call[e] IN
    /\ c.next = "answer" /\ c.kind \in {"create", "select"}
    /\ Fits(c)
    /\ form' = [form EXCEPT ![e] = DetailOf(c)]
    /\ link' = [link EXCEPT ![e] = LinkTo(c, DetailOf(c), "load")]
    /\ pointer' = [pointer EXCEPT ![e] = [batch |-> c.batch, revision |-> c.revision]]
    /\ call' = [call EXCEPT ![e] = Idle]
    /\ UNCHANGED <<row, library>>

\* The answer to a save: the revision is taken from the detail, the content
\* from what was sent.
Saved(e) ==
    LET c == call[e] IN
    /\ c.next = "answer" /\ c.kind = "update"
    /\ Fits(c)
    /\ link' = [link EXCEPT ![e] = LinkTo(c, c.sent, "save")]
    /\ pointer' = [pointer EXCEPT ![e] = [batch |-> c.batch, revision |-> c.revision]]
    /\ call' = [call EXCEPT ![e] = Idle]
    /\ UNCHANGED <<row, library, form>>

Archived(e) ==
    LET c == call[e] IN
    /\ c.next = "answer" /\ c.kind = "archive"
    /\ Fits(c)
    /\ link' = [link EXCEPT ![e] = Unlinked]
    /\ pointer' = [pointer EXCEPT ![e] = NoPointer]
    /\ call' = [call EXCEPT ![e] = Idle]
    /\ UNCHANGED <<row, library, form>>

\* A draft whose Saved Batch has another revision by now stays unlinked.
Restored(e) ==
    LET c == call[e] IN
    /\ c.next = "answer" /\ c.kind = "restore"
    /\ Fits(c)
    /\ link' = IF c.revision = pointer[e].revision
               THEN [link EXCEPT ![e] = LinkTo(c, DetailOf(c), "load")]
               ELSE link
    /\ call' = [call EXCEPT ![e] = Idle]
    /\ UNCHANGED <<row, library, form, pointer>>

\* Bindings of one revision with the root of another: the call fails, and
\* leaves the editor as it was.
Failed(e) ==
    /\ call[e].next = "answer"
    /\ ~Fits(call[e])
    /\ call' = [call EXCEPT ![e] = Idle]
    /\ UNCHANGED <<row, library, form, link, pointer>>

Init ==
    /\ row = [b \in Batches |-> [revision |-> 0, archived |-> FALSE, def |-> None]]
    /\ library = Versions
    /\ form \in [Editors -> Forms]
    /\ link = [e \in Editors |-> Unlinked]
    /\ pointer = [e \in Editors |-> NoPointer]
    /\ call = [e \in Editors |-> Idle]

Next ==
    \/ \E e \in Editors :
        \/ \E d \in Forms : Edit(e, d)
        \/ \E b \in Batches : Create(e, b) \/ Select(e, b)
        \/ Update(e) \/ Archive(e) \/ Reload(e) \/ Restore(e)
        \/ ReadRoot(e) \/ ReadPrompts(e) \/ ReadParams(e)
        \/ Load(e) \/ Saved(e) \/ Archived(e) \/ Restored(e) \/ Failed(e)
    \/ \E v \in Versions : DeletePrompt(PromptOf[v])

Spec == Init /\ [][Next]_vars

-----------------------------------------------------------------------------
\* Each variable has its type.
TypeOK ==
    /\ \A b \in Batches :
        /\ row[b].revision \in 0 .. MaxRevision
        /\ row[b].archived \in BOOLEAN
        /\ Exists(b) => row[b].def \in Definition
    /\ library \subseteq Versions
    /\ form \in [Editors -> Definition]
    /\ \A e \in Editors :
        /\ link[e].batch = None \/ (link[e].batch \in Batches /\ link[e].base \in Definition)
        /\ pointer[e].batch \in Batches \cup {None}
        /\ call[e].kind \in {"none", "create", "update", "archive", "select", "restore"}
        /\ call[e].next \in {"none", "root", "prompts", "params", "answer"}

\* What has been read of a Saved Batch is what the table holds, as long as
\* its revision is the one the root row had: only the order of the SELECTs
\* makes it so.
ReadsAgree ==
    \A e \in Editors :
        LET c == call[e] IN
        c.next \in {"prompts", "params", "answer"} /\ c.revision = row[c.batch].revision =>
            /\ c.profile = row[c.batch].def.profile
            /\ c.next \in {"params", "answer"} => c.prompts = row[c.batch].def.prompts
            /\ c.next = "answer" => c.params = row[c.batch].def.params

\* A call fails on bindings that do not fit only when another editor wrote
\* the Saved Batch while it was read: what is stored can be read.
UndisturbedReadsSucceed ==
    \A e \in Editors :
        call[e].next = "answer" /\ ~Fits(call[e]) => call[e].revision # row[call[e].batch].revision

\* No read of a Saved Batch goes wrong unnoticed, or without a reason
\* (_get_detail in saved_batches.py, outside any transaction).
ReadsAreSound == ReadsAgree /\ UndisturbedReadsSucceed

\* An editor that loaded a Saved Batch, however torn the read was, knows the
\* content of the revision it is linked to, if that still is the current one.
LoadedLinkIsTrue ==
    \A e \in Editors :
        LET l == link[e] IN
        l.from = "load" /\ l.revision = row[l.batch].revision => l.base = row[l.batch].def

\* Every stored selection names a PromptVersion that exists, whoever deletes
\* Prompts in between.
SelectionsExist == \A b \in Batches : Exists(b) => row[b].def.prompts \subseteq library

\* A save replaces only content its editor knew: what another editor saved
\* in the meantime is not overwritten silently.
OverwritesOnlyWhatWasLoaded ==
    [][\A e \in Editors : Update(e) /\ link[e].from = "load" =>
            row[link[e].batch].def = link[e].base]_vars

\* The same for the editors that are linked by a save of their own, which
\* docs/API.md (Saved Batch Persistence) promises as well.
OverwritesOnlyWhatWasKnown ==
    [][\A e \in Editors : Update(e) => row[link[e].batch].def = link[e].base]_vars
=============================================================================
