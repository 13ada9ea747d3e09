---------------------------- MODULE Browser_proofs ----------------------------
(***************************************************************************)
(* Proofs about the two clients of the browser: for any number of editors, *)
(* Saved Batches and PromptVersions, a linked editor that loaded its Saved *)
(* Batch knows what it overwrites, and stored selections exist; for any    *)
(* number of Runs, commands, lost requests and late answers, the monitor   *)
(* shows no end of the current Run that is not there, and where it rests   *)
(* on an undisturbed reading it shows the status that the Run has.         *)
(* Each client has an inductive invariant of its own, over its own         *)
(* variables: BatchInvariant and MonitorInvariant.                         *)
(***************************************************************************)
EXTENDS Browser, TLAPS

(* The editors of Saved Batches. *)

Row == [revision : 0 .. MaxRevision, archived : BOOLEAN, def : Definition \cup {None}]
Steps == {"none", "root", "prompts", "params", "answer"}
Kinds == {"none", "create", "update", "archive", "select", "restore"}
Call == [kind : Kinds, next : Steps, batch : Batches \cup {None},
         sent : Definition \cup {None}, revision : 0 .. MaxRevision,
         profile : Profiles \cup {None}, prompts : SUBSET Versions,
         params : Profiles \cup {None}]
Link == [batch : Batches \cup {None}, revision : 0 .. MaxRevision,
         base : Definition \cup {None}, from : {"nothing", "load", "save"}]
Pointer == [batch : Batches \cup {None}, revision : 0 .. MaxRevision]

Types ==
    /\ row \in [Batches -> Row]
    /\ library \in SUBSET Versions
    /\ form \in [Editors -> Definition]
    /\ link \in [Editors -> Link]
    /\ pointer \in [Editors -> Pointer]
    /\ call \in [Editors -> Call]

\* What is stored was acceptable and still is.
Stored == \A b \in Batches :
    Exists(b) => /\ row[b].def \in Definition
                 /\ Acceptable(row[b].def)

Started(c) == c.next # "none"
HasRoot(c) == c.next \in {"prompts", "params", "answer"}

\* A call is about a Saved Batch that exists, and what it has read is not
\* newer than the table.
CallIsSound(c) ==
    /\ Started(c) <=> c.kind # "none"
    /\ Started(c) => c.batch \in Batches /\ Exists(c.batch)
    /\ c.kind = "update" => c.sent \in Definition
    /\ HasRoot(c) =>
        /\ c.revision \in 1 .. row[c.batch].revision
        /\ c.profile \in Profiles
        /\ c.next = "answer" => c.params \in Profiles
        /\ c.revision = row[c.batch].revision =>
            /\ c.profile = row[c.batch].def.profile
            /\ c.next \in {"params", "answer"} => c.prompts = row[c.batch].def.prompts
            /\ c.next = "answer" => c.params = row[c.batch].def.params

LinkIsSound(l) ==
    /\ l.batch = None <=> l.from = "nothing"
    /\ l.batch # None =>
        /\ l.base \in Definition
        /\ l.revision \in 1 .. row[l.batch].revision
        /\ l.from = "load" /\ l.revision = row[l.batch].revision => l.base = row[l.batch].def

PointerIsSound(p) == p.batch # None => Exists(p.batch)

BatchInvariant ==
    /\ Types
    /\ Stored
    /\ \A e \in Editors :
        CallIsSound(call[e]) /\ LinkIsSound(link[e]) /\ PointerIsSound(pointer[e])
-----------------------------------------------------------------------------
\* How a step may change a row: at most one revision further.
Grows == \A b \in Batches : row'[b] = row[b] \/ row'[b].revision = row[b].revision + 1

\* What an editor knows stays sound while rows only grow.
LEMMA Frame ==
  ASSUME BatchInvariant, Types', Grows, NEW e \in Editors
  PROVE  /\ call'[e] = call[e] => CallIsSound(call[e])'
         /\ link'[e] = link[e] => LinkIsSound(link[e])'
         /\ pointer'[e] = pointer[e] => PointerIsSound(pointer[e])'
<1> USE SavedBatchAssumption DEF BatchInvariant, Grows, Exists, Types, Row
<1>0. /\ CallIsSound(call[e]) /\ LinkIsSound(link[e]) /\ PointerIsSound(pointer[e])
      /\ \A b \in Batches : row[b].revision \in Nat /\ row'[b].revision \in Nat
  OBVIOUS
<1>1. ASSUME call'[e] = call[e]
      PROVE  CallIsSound(call[e])'
  <2>1. CASE ~Started(call[e])
    BY <1>0, <1>1, <2>1 DEF CallIsSound, Started, HasRoot
  <2>2. CASE Started(call[e]) /\ row'[call[e].batch] = row[call[e].batch]
    BY <1>0, <1>1, <2>2 DEF CallIsSound, Started, HasRoot
  <2>3. CASE Started(call[e]) /\ row'[call[e].batch].revision = row[call[e].batch].revision + 1
    <3>1. call[e].batch \in Batches /\ call[e].revision \in Nat
      BY <1>0, <2>3 DEF CallIsSound, Call
    <3> QED
      BY <1>0, <1>1, <2>3, <3>1 DEF CallIsSound, Started, HasRoot
  <2> QED
    BY <1>0, <2>1, <2>2, <2>3 DEF CallIsSound
<1>2. ASSUME link'[e] = link[e]
      PROVE  LinkIsSound(link[e])'
  <2>1. CASE link[e].batch = None
    BY <1>0, <1>2, <2>1 DEF LinkIsSound
  <2>2. CASE link[e].batch # None
    <3>1. link[e].batch \in Batches /\ link[e].revision \in Nat
      BY <2>2 DEF Link
    <3>2. CASE row'[link[e].batch] = row[link[e].batch]
      BY <1>0, <1>2, <2>2, <3>1, <3>2 DEF LinkIsSound
    <3>3. CASE row'[link[e].batch].revision = row[link[e].batch].revision + 1
      BY <1>0, <1>2, <2>2, <3>1, <3>3 DEF LinkIsSound
    <3> QED
      BY <3>1, <3>2, <3>3
  <2> QED
    BY <2>1, <2>2
<1>3. ASSUME pointer'[e] = pointer[e]
      PROVE  PointerIsSound(pointer[e])'
  <2>1. pointer[e].batch \in Batches \cup {None}
    BY DEF Pointer
  <2> QED
    BY <1>0, <1>3, <2>1 DEF PointerIsSound
<1> QED
  BY <1>1, <1>2, <1>3

\* A step of one editor, or of none, needs to be looked at only where it acts.
LEMMA OneActor ==
  ASSUME BatchInvariant, Types', Grows, Stored', NEW e \in Editors,
         \A x \in Editors \ {e} :
            call'[x] = call[x] /\ link'[x] = link[x] /\ pointer'[x] = pointer[x],
         CallIsSound(call[e])', LinkIsSound(link[e])', PointerIsSound(pointer[e])'
  PROVE  BatchInvariant'
<1>1. ASSUME NEW x \in Editors
      PROVE  (CallIsSound(call[x]) /\ LinkIsSound(link[x]) /\ PointerIsSound(pointer[x]))'
  <2>1. CASE x = e
    BY <2>1
  <2>2. CASE x # e
    BY <2>2, Frame
  <2> QED
    BY <2>1, <2>2
<1> QED
  BY <1>1 DEF BatchInvariant

\* What a call starts with.
LEMMA StartTyped ==
  ASSUME NEW kind \in Kinds, NEW b \in Batches, NEW sent \in Definition \cup {None}
  PROVE  /\ StartOf(kind, b, sent) \in Call
         /\ StartOf(kind, b, sent).kind = kind
         /\ StartOf(kind, b, sent).next = "root"
         /\ StartOf(kind, b, sent).batch = b
         /\ StartOf(kind, b, sent).sent = sent
<1>1. 0 \in 0 .. MaxRevision
  BY SavedBatchAssumption
<1> QED
  BY <1>1 DEF StartOf, Call, Steps

LEMMA Initially == Init => BatchInvariant
<1> SUFFICES ASSUME Init
             PROVE  BatchInvariant
  OBVIOUS
<1> USE SavedBatchAssumption DEF Init
<1>1. Idle \in Call /\ Unlinked \in Link /\ NoPointer \in Pointer
  BY DEF Idle, Unlinked, NoPointer, Call, Link, Pointer, Kinds, Steps
<1>2. Types
  BY <1>1 DEF Types, Row
<1>3. Stored
  BY DEF Stored, Exists
<1>4. \A e \in Editors :
        CallIsSound(call[e]) /\ LinkIsSound(link[e]) /\ PointerIsSound(pointer[e])
  BY DEF CallIsSound, LinkIsSound, PointerIsSound, Started, HasRoot, Idle, Unlinked, NoPointer
<1> QED
  BY <1>2, <1>3, <1>4 DEF BatchInvariant

LEMMA EditKeeps ==
  ASSUME BatchInvariant, NEW e \in Editors, NEW d \in Forms, Edit(e, d)
  PROVE  BatchInvariant'
<1> USE SavedBatchAssumption DEF BatchInvariant
<1>0. CallIsSound(call[e]) /\ LinkIsSound(link[e]) /\ PointerIsSound(pointer[e])
  OBVIOUS
<1>1. Types'
  BY DEF Edit, Types
<1>2. Grows
  BY DEF Grows, Edit
<1>3. Stored'
  BY DEF Stored, Exists, Acceptable, Edit
<1>4. \A x \in Editors \ {e} :
         call'[x] = call[x] /\ link'[x] = link[x] /\ pointer'[x] = pointer[x]
  BY DEF Edit, Types
<1>5. CallIsSound(call[e])'
  <2>1. call'[e] = call[e]
    BY DEF Edit
  <2> QED
    BY <1>1, <1>2, <2>1, Frame
<1>6. LinkIsSound(link[e])'
  <2>1. link'[e] = link[e]
    BY DEF Edit
  <2> QED
    BY <1>1, <1>2, <2>1, Frame
<1>7. PointerIsSound(pointer[e])'
  <2>1. pointer'[e] = pointer[e]
    BY DEF Edit
  <2> QED
    BY <1>1, <1>2, <2>1, Frame
<1> QED
  BY <1>1, <1>2, <1>3, <1>4, <1>5, <1>6, <1>7, OneActor

LEMMA CreateKeeps ==
  ASSUME BatchInvariant, NEW e \in Editors, NEW b \in Batches, Create(e, b)
  PROVE  BatchInvariant'
<1> USE SavedBatchAssumption DEF BatchInvariant
<1>0. CallIsSound(call[e]) /\ LinkIsSound(link[e]) /\ PointerIsSound(pointer[e])
  OBVIOUS
<1>1. Types'
  <2>1. b \in Batches /\ form[e] \in Definition \cup {None}
    BY <1>0 DEF Create, Types, Link, Pointer
  <2>2. StartOf("create", b, form[e]) \in Call
    BY <2>1, StartTyped DEF Kinds
  <2>3. call' \in [Editors -> Call]
    BY <2>2 DEF Create, Begin, Types
  <2>4. row' \in [Batches -> Row]
    <3>1. row[b] \in Row
      BY <2>1 DEF Types
    <3>2. row'[b] \in Row
      BY <2>1, <3>1 DEF Create, Types, Row, Exists
    <3> QED
      BY <2>1, <3>2 DEF Create, Types
  <2> QED
    BY <2>3, <2>4 DEF Create, Types
<1>2. Grows
  BY DEF Grows, Create, Types, Row, Exists
<1>3. Stored'
  <2>1. \A x \in Batches \ {b} : row'[x] = row[x]
    BY DEF Create, Types
  <2>2. row'[b].def = form[e] /\ form[e] \in Definition /\ library' = library
    BY  DEF Create, Types, Row, Exists
  <2> QED
    BY <2>1, <2>2 DEF Stored, Exists, Acceptable, Create, Types, Definition
<1>4. \A x \in Editors \ {e} :
         call'[x] = call[x] /\ link'[x] = link[x] /\ pointer'[x] = pointer[x]
  BY DEF Create, Types, Begin
<1>5. CallIsSound(call[e])'
  <2>1. call'[e] = StartOf("create", b, form[e])
    BY DEF Create, Types, Begin
  <2>2. b \in Batches /\ Exists(b)' /\ form[e] \in Definition \cup {None}
    BY DEF Create, Types, Exists
  <2>3. /\ StartOf("create", b, form[e]).kind = "create" /\ StartOf("create", b, form[e]).next = "root"
        /\ StartOf("create", b, form[e]).batch = b
    BY <2>2, StartTyped DEF Kinds
  <2>4. Started(call[e])' /\ ~HasRoot(call[e])' /\ (call[e].kind = "create")'
    BY <2>1, <2>3 DEF Started, HasRoot
  <2>5. (call[e].batch \in Batches /\ Exists(call[e].batch))'
    BY <2>1, <2>2, <2>3 DEF Exists, Create
  <2> QED
    BY <2>4, <2>5 DEF CallIsSound
<1>6. LinkIsSound(link[e])'
  <2>1. link'[e] = link[e]
    BY DEF Create
  <2> QED
    BY <1>1, <1>2, <2>1, Frame
<1>7. PointerIsSound(pointer[e])'
  <2>1. pointer'[e] = pointer[e]
    BY DEF Create
  <2> QED
    BY <1>1, <1>2, <2>1, Frame
<1> QED
  BY <1>1, <1>2, <1>3, <1>4, <1>5, <1>6, <1>7, OneActor

LEMMA UpdateKeeps ==
  ASSUME BatchInvariant, NEW e \in Editors, Update(e)
  PROVE  BatchInvariant'
<1> USE SavedBatchAssumption DEF BatchInvariant
<1>0. CallIsSound(call[e]) /\ LinkIsSound(link[e]) /\ PointerIsSound(pointer[e])
  OBVIOUS
<1>1. Types'
  <2>1. link[e].batch \in Batches /\ form[e] \in Definition \cup {None}
    BY <1>0 DEF Update, Types, Link, Pointer
  <2>2. StartOf("update", link[e].batch, form[e]) \in Call
    BY <2>1, StartTyped DEF Kinds
  <2>3. call' \in [Editors -> Call]
    BY <2>2 DEF Update, Begin, Types
  <2>4. row' \in [Batches -> Row]
    <3>1. row[link[e].batch] \in Row
      BY <2>1 DEF Types
    <3>3. row'[link[e].batch] = [row[link[e].batch] EXCEPT !.revision = row[link[e].batch].revision + 1, !.def = form[e]]
      BY <2>1 DEF Update, Types
    <3>4. row[link[e].batch].revision + 1 \in 0 .. MaxRevision
      BY <3>1 DEF Update, Row
    <3>2. row'[link[e].batch] \in Row
      BY <3>1, <3>3, <3>4 DEF Types, Row
    <3> QED
      BY <2>1, <3>2 DEF Update, Types
  <2> QED
    BY <2>3, <2>4 DEF Update, Types
<1>2. Grows
  <2>1. link[e].batch \in Batches /\ row[link[e].batch] \in Row /\ row[link[e].batch].revision \in 1 .. MaxRevision
    BY <1>0 DEF Update, LinkIsSound, Types, Link, Row
  <2> QED
    BY <2>1 DEF Grows, Update, Types, Row
<1>3. Stored'
  <2>1. \A x \in Batches \ {link[e].batch} : row'[x] = row[x]
    BY DEF Update, Types
  <2>2. row'[link[e].batch].def = form[e] /\ form[e] \in Definition /\ library' = library
    <3>1. link[e].batch \in Batches /\ row[link[e].batch] \in Row
      BY <1>0 DEF Update, Types, Link
    <3>2. row'[link[e].batch] = [row[link[e].batch] EXCEPT !.revision = row[link[e].batch].revision + 1, !.def = form[e]]
      BY <3>1 DEF Update, Types
    <3> QED
      BY <3>1, <3>2 DEF Update, Types, Row, Exists
  <2> QED
    BY <2>1, <2>2 DEF Stored, Exists, Acceptable, Update, Types, Definition
<1>4. \A x \in Editors \ {e} :
         call'[x] = call[x] /\ link'[x] = link[x] /\ pointer'[x] = pointer[x]
  BY DEF Update, Types, Begin
<1>5. CallIsSound(call[e])'
  <2>1. link[e].batch \in Batches /\ row[link[e].batch] \in Row /\ row[link[e].batch].revision \in 1 .. MaxRevision
    BY <1>0 DEF Update, LinkIsSound, Types, Link, Row
  <2>2. call'[e] = StartOf("update", link[e].batch, form[e]) /\ form[e] \in Definition
    BY DEF Update, Types, Begin
  <2>3. row'[link[e].batch].revision > 0
    BY <2>1, <1>2 DEF Grows, Row
  <2> QED
    BY <2>1, <2>2, <2>3 DEF CallIsSound, Started, HasRoot, StartOf, Idle, Exists
<1>6. LinkIsSound(link[e])'
  <2>1. link'[e] = link[e]
    BY DEF Update
  <2> QED
    BY <1>1, <1>2, <2>1, Frame
<1>7. PointerIsSound(pointer[e])'
  <2>1. pointer'[e] = pointer[e]
    BY DEF Update
  <2> QED
    BY <1>1, <1>2, <2>1, Frame
<1> QED
  BY <1>1, <1>2, <1>3, <1>4, <1>5, <1>6, <1>7, OneActor

LEMMA ArchiveKeeps ==
  ASSUME BatchInvariant, NEW e \in Editors, Archive(e)
  PROVE  BatchInvariant'
<1> USE SavedBatchAssumption DEF BatchInvariant
<1>0. CallIsSound(call[e]) /\ LinkIsSound(link[e]) /\ PointerIsSound(pointer[e])
  OBVIOUS
<1>1. Types'
  <2>1. link[e].batch \in Batches /\ None \in Definition \cup {None}
    BY <1>0 DEF Archive, Types, Link, Pointer
  <2>2. StartOf("archive", link[e].batch, None) \in Call
    BY <2>1, StartTyped DEF Kinds
  <2>3. call' \in [Editors -> Call]
    BY <2>2 DEF Archive, Begin, Types
  <2>4. row' \in [Batches -> Row]
    <3>1. row[link[e].batch] \in Row
      BY <2>1 DEF Types
    <3>2. row'[link[e].batch] \in Row
      BY <2>1, <3>1 DEF Archive, Types, Row, Exists
    <3> QED
      BY <2>1, <3>2 DEF Archive, Types
  <2> QED
    BY <2>3, <2>4 DEF Archive, Types
<1>2. Grows
  <2>1. link[e].batch \in Batches /\ row[link[e].batch] \in Row /\ row[link[e].batch].revision \in 1 .. MaxRevision
    BY <1>0 DEF Archive, LinkIsSound, Types, Link, Row
  <2> QED
    BY <2>1 DEF Grows, Archive, Types, Row
<1>3. Stored'
  <2>1. link[e].batch \in Batches /\ row[link[e].batch] \in Row /\ row[link[e].batch].revision \in 1 .. MaxRevision
    BY <1>0 DEF Archive, LinkIsSound, Types, Link, Row
  <2>2. \A x \in Batches : row'[x].def = row[x].def
    BY <2>1 DEF Archive, Types, Row
  <2>3. \A x \in Batches : Exists(x)' => Exists(x)
    BY <2>1 DEF Archive, Types, Row, Exists
  <2> QED
    BY <2>2, <2>3 DEF Stored, Acceptable, Archive
<1>4. \A x \in Editors \ {e} :
         call'[x] = call[x] /\ link'[x] = link[x] /\ pointer'[x] = pointer[x]
  BY DEF Archive, Types, Begin
<1>5. CallIsSound(call[e])'
  <2>1. link[e].batch \in Batches /\ row[link[e].batch] \in Row /\ row[link[e].batch].revision \in 1 .. MaxRevision
    BY <1>0 DEF Archive, LinkIsSound, Types, Link, Row
  <2>2. call'[e] = StartOf("archive", link[e].batch, None)
    BY DEF Archive, Types, Begin
  <2>3. row'[link[e].batch].revision > 0
    BY <2>1, <1>2 DEF Grows, Row
  <2> QED
    BY <2>1, <2>2, <2>3 DEF CallIsSound, Started, HasRoot, StartOf, Idle, Exists
<1>6. LinkIsSound(link[e])'
  <2>1. link'[e] = link[e]
    BY DEF Archive
  <2> QED
    BY <1>1, <1>2, <2>1, Frame
<1>7. PointerIsSound(pointer[e])'
  <2>1. pointer'[e] = pointer[e]
    BY DEF Archive
  <2> QED
    BY <1>1, <1>2, <2>1, Frame
<1> QED
  BY <1>1, <1>2, <1>3, <1>4, <1>5, <1>6, <1>7, OneActor

LEMMA SelectKeeps ==
  ASSUME BatchInvariant, NEW e \in Editors, NEW b \in Batches, Select(e, b)
  PROVE  BatchInvariant'
<1> USE SavedBatchAssumption DEF BatchInvariant
<1>0. CallIsSound(call[e]) /\ LinkIsSound(link[e]) /\ PointerIsSound(pointer[e])
  OBVIOUS
<1>1. Types'
  <2>1. b \in Batches /\ None \in Definition \cup {None}
    BY <1>0 DEF Select, Types, Link, Pointer
  <2>2. StartOf("select", b, None) \in Call
    BY <2>1, StartTyped DEF Kinds
  <2>3. call' \in [Editors -> Call]
    BY <2>2 DEF Select, Begin, Types
  <2> QED
    BY <2>3 DEF Select, Types
<1>2. Grows
  BY DEF Grows, Select
<1>3. Stored'
  BY DEF Stored, Exists, Acceptable, Select
<1>4. \A x \in Editors \ {e} :
         call'[x] = call[x] /\ link'[x] = link[x] /\ pointer'[x] = pointer[x]
  BY DEF Select, Types, Begin
<1>5. CallIsSound(call[e])'
  <2>1. call'[e] = StartOf("select", b, None)
    BY DEF Select, Types, Begin
  <2>2. b \in Batches /\ Exists(b)'
    BY DEF Select, Types, Exists
  <2>3. /\ StartOf("select", b, None).kind = "select" /\ StartOf("select", b, None).next = "root"
        /\ StartOf("select", b, None).batch = b
    BY <2>2, StartTyped DEF Kinds
  <2>4. Started(call[e])' /\ ~HasRoot(call[e])' /\ (call[e].kind = "select")'
    BY <2>1, <2>3 DEF Started, HasRoot
  <2>5. (call[e].batch \in Batches /\ Exists(call[e].batch))'
    BY <2>1, <2>2, <2>3 DEF Exists, Select
  <2> QED
    BY <2>4, <2>5 DEF CallIsSound
<1>6. LinkIsSound(link[e])'
  <2>1. link'[e] = link[e]
    BY DEF Select
  <2> QED
    BY <1>1, <1>2, <2>1, Frame
<1>7. PointerIsSound(pointer[e])'
  <2>1. pointer'[e] = pointer[e]
    BY DEF Select
  <2> QED
    BY <1>1, <1>2, <2>1, Frame
<1> QED
  BY <1>1, <1>2, <1>3, <1>4, <1>5, <1>6, <1>7, OneActor

LEMMA ReloadKeeps ==
  ASSUME BatchInvariant, NEW e \in Editors, Reload(e)
  PROVE  BatchInvariant'
<1> USE SavedBatchAssumption DEF BatchInvariant
<1>0. CallIsSound(call[e]) /\ LinkIsSound(link[e]) /\ PointerIsSound(pointer[e])
  OBVIOUS
<1>1. Types'
  BY DEF Reload, Types, Link, Unlinked, Call, Kinds, Steps, Idle
<1>2. Grows
  BY DEF Grows, Reload
<1>3. Stored'
  BY DEF Stored, Exists, Acceptable, Reload
<1>4. \A x \in Editors \ {e} :
         call'[x] = call[x] /\ link'[x] = link[x] /\ pointer'[x] = pointer[x]
  BY DEF Reload, Types
<1>5. CallIsSound(call[e])'
  <2>1. call'[e] = Idle
    BY DEF Reload, Types
  <2> QED
    BY <2>1 DEF CallIsSound, Started, HasRoot, Idle
<1>6. LinkIsSound(link[e])'
  <2>1. link'[e] = Unlinked
    BY DEF Reload, Types
  <2> QED
    BY <2>1 DEF LinkIsSound, Unlinked
<1>7. PointerIsSound(pointer[e])'
  <2>1. pointer'[e] = pointer[e]
    BY DEF Reload
  <2> QED
    BY <1>1, <1>2, <2>1, Frame
<1> QED
  BY <1>1, <1>2, <1>3, <1>4, <1>5, <1>6, <1>7, OneActor

LEMMA RestoreKeeps ==
  ASSUME BatchInvariant, NEW e \in Editors, Restore(e)
  PROVE  BatchInvariant'
<1> USE SavedBatchAssumption DEF BatchInvariant
<1>0. CallIsSound(call[e]) /\ LinkIsSound(link[e]) /\ PointerIsSound(pointer[e])
  OBVIOUS
<1>1. Types'
  <2>1. pointer[e].batch \in Batches /\ None \in Definition \cup {None}
    BY <1>0 DEF Restore, Types, Link, Pointer
  <2>2. StartOf("restore", pointer[e].batch, None) \in Call
    BY <2>1, StartTyped DEF Kinds
  <2>3. call' \in [Editors -> Call]
    BY <2>2 DEF Restore, Begin, Types
  <2> QED
    BY <2>3 DEF Restore, Types
<1>2. Grows
  BY DEF Grows, Restore
<1>3. Stored'
  BY DEF Stored, Exists, Acceptable, Restore
<1>4. \A x \in Editors \ {e} :
         call'[x] = call[x] /\ link'[x] = link[x] /\ pointer'[x] = pointer[x]
  BY DEF Restore, Types, Begin
<1>5. CallIsSound(call[e])'
  <2>1. call'[e] = StartOf("restore", pointer[e].batch, None)
    BY DEF Restore, Types, Begin
  <2>2. pointer[e].batch \in Batches /\ Exists(pointer[e].batch)'
    BY <1>0 DEF Restore, Types, Pointer, PointerIsSound, Exists
  <2>3. /\ StartOf("restore", pointer[e].batch, None).kind = "restore" /\ StartOf("restore", pointer[e].batch, None).next = "root"
        /\ StartOf("restore", pointer[e].batch, None).batch = pointer[e].batch
    BY <2>2, StartTyped DEF Kinds
  <2>4. Started(call[e])' /\ ~HasRoot(call[e])' /\ (call[e].kind = "restore")'
    BY <2>1, <2>3 DEF Started, HasRoot
  <2>5. (call[e].batch \in Batches /\ Exists(call[e].batch))'
    BY <2>1, <2>2, <2>3 DEF Exists, Restore
  <2> QED
    BY <2>4, <2>5 DEF CallIsSound
<1>6. LinkIsSound(link[e])'
  <2>1. link'[e] = link[e]
    BY DEF Restore
  <2> QED
    BY <1>1, <1>2, <2>1, Frame
<1>7. PointerIsSound(pointer[e])'
  <2>1. pointer'[e] = pointer[e]
    BY DEF Restore
  <2> QED
    BY <1>1, <1>2, <2>1, Frame
<1> QED
  BY <1>1, <1>2, <1>3, <1>4, <1>5, <1>6, <1>7, OneActor

LEMMA ReadRootKeeps ==
  ASSUME BatchInvariant, NEW e \in Editors, ReadRoot(e)
  PROVE  BatchInvariant'
<1> USE SavedBatchAssumption DEF BatchInvariant
<1>0. CallIsSound(call[e]) /\ LinkIsSound(link[e]) /\ PointerIsSound(pointer[e])
  OBVIOUS
<1>1. Types'
  <2>1. call[e] \in Call /\ call[e].batch \in Batches /\ row[call[e].batch].def \in Definition
        /\ row[call[e].batch].revision \in 0 .. MaxRevision
    BY <1>0 DEF ReadRoot, Types, CallIsSound, Started, Stored, Row
  <2> QED
    BY <2>1 DEF ReadRoot, Types, Call, Kinds, Steps, Idle, Definition
<1>2. Grows
  BY DEF Grows, ReadRoot
<1>3. Stored'
  BY DEF Stored, Exists, Acceptable, ReadRoot
<1>4. \A x \in Editors \ {e} :
         call'[x] = call[x] /\ link'[x] = link[x] /\ pointer'[x] = pointer[x]
  BY DEF ReadRoot, Types
<1>5. CallIsSound(call[e])'
  <2>1. /\ call[e] \in Call /\ call[e].next = "root" /\ call[e].batch \in Batches
        /\ Exists(call[e].batch) /\ row[call[e].batch] \in Row
    BY <1>0 DEF ReadRoot, Types, CallIsSound, Started
  <2>2. call'[e] = [call[e] EXCEPT !.next = "prompts", !.revision = row[call[e].batch].revision,
                                  !.profile = row[call[e].batch].def.profile]
    BY DEF ReadRoot, Types
  <2>3. row' = row
    BY DEF ReadRoot
  <2>4. row[call[e].batch].def \in Definition /\ row[call[e].batch].revision \in 1 .. MaxRevision
    BY <2>1 DEF Stored, Exists, Row
  <2> QED
    BY <1>0, <2>1, <2>2, <2>3, <2>4 DEF CallIsSound, Started, HasRoot, Call, Definition, Exists
<1>6. LinkIsSound(link[e])'
  <2>1. link'[e] = link[e]
    BY DEF ReadRoot
  <2> QED
    BY <1>1, <1>2, <2>1, Frame
<1>7. PointerIsSound(pointer[e])'
  <2>1. pointer'[e] = pointer[e]
    BY DEF ReadRoot
  <2> QED
    BY <1>1, <1>2, <2>1, Frame
<1> QED
  BY <1>1, <1>2, <1>3, <1>4, <1>5, <1>6, <1>7, OneActor

LEMMA ReadPromptsKeeps ==
  ASSUME BatchInvariant, NEW e \in Editors, ReadPrompts(e)
  PROVE  BatchInvariant'
<1> USE SavedBatchAssumption DEF BatchInvariant
<1>0. CallIsSound(call[e]) /\ LinkIsSound(link[e]) /\ PointerIsSound(pointer[e])
  OBVIOUS
<1>1. Types'
  <2>1. call[e] \in Call /\ call[e].batch \in Batches /\ row[call[e].batch].def \in Definition
        /\ row[call[e].batch].revision \in 0 .. MaxRevision
    BY <1>0 DEF ReadPrompts, Types, CallIsSound, Started, Stored, Row
  <2> QED
    BY <2>1 DEF ReadPrompts, Types, Call, Kinds, Steps, Idle, Definition
<1>2. Grows
  BY DEF Grows, ReadPrompts
<1>3. Stored'
  BY DEF Stored, Exists, Acceptable, ReadPrompts
<1>4. \A x \in Editors \ {e} :
         call'[x] = call[x] /\ link'[x] = link[x] /\ pointer'[x] = pointer[x]
  BY DEF ReadPrompts, Types
<1>5. CallIsSound(call[e])'
  <2>1. /\ call[e] \in Call /\ call[e].next = "prompts" /\ call[e].batch \in Batches
        /\ Exists(call[e].batch) /\ row[call[e].batch] \in Row
    BY <1>0 DEF ReadPrompts, Types, CallIsSound, Started
  <2>2. call'[e] = [call[e] EXCEPT !.next = "params", !.prompts = row[call[e].batch].def.prompts]
    BY DEF ReadPrompts, Types
  <2>3. row' = row
    BY DEF ReadPrompts
  <2>4. row[call[e].batch].def \in Definition /\ row[call[e].batch].revision \in 1 .. MaxRevision
    BY <2>1 DEF Stored, Exists, Row
  <2> QED
    BY <1>0, <2>1, <2>2, <2>3, <2>4 DEF CallIsSound, Started, HasRoot, Call, Definition, Exists
<1>6. LinkIsSound(link[e])'
  <2>1. link'[e] = link[e]
    BY DEF ReadPrompts
  <2> QED
    BY <1>1, <1>2, <2>1, Frame
<1>7. PointerIsSound(pointer[e])'
  <2>1. pointer'[e] = pointer[e]
    BY DEF ReadPrompts
  <2> QED
    BY <1>1, <1>2, <2>1, Frame
<1> QED
  BY <1>1, <1>2, <1>3, <1>4, <1>5, <1>6, <1>7, OneActor

LEMMA ReadParamsKeeps ==
  ASSUME BatchInvariant, NEW e \in Editors, ReadParams(e)
  PROVE  BatchInvariant'
<1> USE SavedBatchAssumption DEF BatchInvariant
<1>0. CallIsSound(call[e]) /\ LinkIsSound(link[e]) /\ PointerIsSound(pointer[e])
  OBVIOUS
<1>1. Types'
  <2>1. call[e] \in Call /\ call[e].batch \in Batches /\ row[call[e].batch].def \in Definition
        /\ row[call[e].batch].revision \in 0 .. MaxRevision
    BY <1>0 DEF ReadParams, Types, CallIsSound, Started, Stored, Row
  <2> QED
    BY <2>1 DEF ReadParams, Types, Call, Kinds, Steps, Idle, Definition
<1>2. Grows
  BY DEF Grows, ReadParams
<1>3. Stored'
  BY DEF Stored, Exists, Acceptable, ReadParams
<1>4. \A x \in Editors \ {e} :
         call'[x] = call[x] /\ link'[x] = link[x] /\ pointer'[x] = pointer[x]
  BY DEF ReadParams, Types
<1>5. CallIsSound(call[e])'
  <2>1. /\ call[e] \in Call /\ call[e].next = "params" /\ call[e].batch \in Batches
        /\ Exists(call[e].batch) /\ row[call[e].batch] \in Row
    BY <1>0 DEF ReadParams, Types, CallIsSound, Started
  <2>2. call'[e] = [call[e] EXCEPT !.next = "answer", !.params = row[call[e].batch].def.params]
    BY DEF ReadParams, Types
  <2>3. row' = row
    BY DEF ReadParams
  <2>4. row[call[e].batch].def \in Definition /\ row[call[e].batch].revision \in 1 .. MaxRevision
    BY <2>1 DEF Stored, Exists, Row
  <2> QED
    BY <1>0, <2>1, <2>2, <2>3, <2>4 DEF CallIsSound, Started, HasRoot, Call, Definition, Exists
<1>6. LinkIsSound(link[e])'
  <2>1. link'[e] = link[e]
    BY DEF ReadParams
  <2> QED
    BY <1>1, <1>2, <2>1, Frame
<1>7. PointerIsSound(pointer[e])'
  <2>1. pointer'[e] = pointer[e]
    BY DEF ReadParams
  <2> QED
    BY <1>1, <1>2, <2>1, Frame
<1> QED
  BY <1>1, <1>2, <1>3, <1>4, <1>5, <1>6, <1>7, OneActor

LEMMA LoadKeeps ==
  ASSUME BatchInvariant, NEW e \in Editors, Load(e)
  PROVE  BatchInvariant'
<1> USE SavedBatchAssumption DEF BatchInvariant
<1>0. CallIsSound(call[e]) /\ LinkIsSound(link[e]) /\ PointerIsSound(pointer[e])
  OBVIOUS
<1>1. Types'
  <2>1. /\ call[e] \in Call /\ call[e].batch \in Batches /\ call[e].profile \in Profiles
        /\ call[e].params \in Profiles /\ call[e].sent \in Definition \cup {None}
    BY <1>0 DEF Load, Types, CallIsSound, Started, HasRoot, Call
  <2> QED
    BY <2>1 DEF Load, Types, Link, Unlinked, Pointer, NoPointer, Call, Kinds, Steps, Idle, LinkTo, DetailOf, Definition
<1>2. Grows
  BY DEF Grows, Load
<1>3. Stored'
  BY DEF Stored, Exists, Acceptable, Load
<1>4. \A x \in Editors \ {e} :
         call'[x] = call[x] /\ link'[x] = link[x] /\ pointer'[x] = pointer[x]
  BY DEF Load, Types
<1>5. CallIsSound(call[e])'
  <2>1. call'[e] = Idle
    BY DEF Load, Types
  <2> QED
    BY <2>1 DEF CallIsSound, Started, HasRoot, Idle
<1>6. LinkIsSound(link[e])'
  <2>1. /\ call[e] \in Call /\ call[e].batch \in Batches /\ Exists(call[e].batch)
        /\ call[e].profile \in Profiles /\ call[e].params \in Profiles
        /\ call[e].revision \in 1 .. row[call[e].batch].revision
    BY <1>0 DEF Load, Types, CallIsSound, Started, HasRoot
  <2>2. link'[e] = LinkTo(call[e], DetailOf(call[e]), "load") /\ row' = row
    BY DEF Load, Types
  <2>3. DetailOf(call[e]) \in Definition
    BY <1>0, <2>1 DEF Load, DetailOf, Definition, Call, CallIsSound
  <2>4. call[e].revision = row[call[e].batch].revision => DetailOf(call[e]) = row[call[e].batch].def
    <3>1. row[call[e].batch].def \in Definition
      BY <2>1 DEF Stored
    <3> QED
      BY <1>0, <2>1, <3>1 DEF Load, DetailOf, Definition, CallIsSound, HasRoot
  <2> QED
    BY SavedBatchAssumption, <2>1, <2>2, <2>3, <2>4 DEF LinkIsSound, LinkTo
<1>7. PointerIsSound(pointer[e])'
  <2>1. /\ call[e] \in Call /\ call[e].batch \in Batches /\ Exists(call[e].batch)
        /\ call[e].profile \in Profiles /\ call[e].params \in Profiles
        /\ call[e].revision \in 1 .. row[call[e].batch].revision
    BY <1>0 DEF Load, Types, CallIsSound, Started, HasRoot
  <2>2. pointer'[e] = [batch |-> call[e].batch, revision |-> call[e].revision] /\ row' = row
    BY DEF Load, Types
  <2> QED
    BY <2>1, <2>2 DEF PointerIsSound, Exists
<1> QED
  BY <1>1, <1>2, <1>3, <1>4, <1>5, <1>6, <1>7, OneActor

LEMMA SavedKeeps ==
  ASSUME BatchInvariant, NEW e \in Editors, Saved(e)
  PROVE  BatchInvariant'
<1> USE SavedBatchAssumption DEF BatchInvariant
<1>0. CallIsSound(call[e]) /\ LinkIsSound(link[e]) /\ PointerIsSound(pointer[e])
  OBVIOUS
<1>1. Types'
  <2>1. /\ call[e] \in Call /\ call[e].batch \in Batches /\ call[e].profile \in Profiles
        /\ call[e].params \in Profiles /\ call[e].sent \in Definition \cup {None}
    BY <1>0 DEF Saved, Types, CallIsSound, Started, HasRoot, Call
  <2> QED
    BY <2>1 DEF Saved, Types, Link, Unlinked, Pointer, NoPointer, Call, Kinds, Steps, Idle, LinkTo
<1>2. Grows
  BY DEF Grows, Saved
<1>3. Stored'
  BY DEF Stored, Exists, Acceptable, Saved
<1>4. \A x \in Editors \ {e} :
         call'[x] = call[x] /\ link'[x] = link[x] /\ pointer'[x] = pointer[x]
  BY DEF Saved, Types
<1>5. CallIsSound(call[e])'
  <2>1. call'[e] = Idle
    BY DEF Saved, Types
  <2> QED
    BY <2>1 DEF CallIsSound, Started, HasRoot, Idle
<1>6. LinkIsSound(link[e])'
  <2>1. /\ call[e] \in Call /\ call[e].batch \in Batches /\ Exists(call[e].batch)
        /\ call[e].profile \in Profiles /\ call[e].params \in Profiles
        /\ call[e].revision \in 1 .. row[call[e].batch].revision
    BY <1>0 DEF Saved, Types, CallIsSound, Started, HasRoot
  <2>2. link'[e] = LinkTo(call[e], call[e].sent, "save") /\ row' = row
    BY DEF Saved, Types
  <2>3. call[e].sent \in Definition
    BY <1>0, <2>1 DEF Saved, DetailOf, Definition, Call, CallIsSound
  <2> QED
    BY SavedBatchAssumption, <2>1, <2>2, <2>3 DEF LinkIsSound, LinkTo
<1>7. PointerIsSound(pointer[e])'
  <2>1. /\ call[e] \in Call /\ call[e].batch \in Batches /\ Exists(call[e].batch)
        /\ call[e].profile \in Profiles /\ call[e].params \in Profiles
        /\ call[e].revision \in 1 .. row[call[e].batch].revision
    BY <1>0 DEF Saved, Types, CallIsSound, Started, HasRoot
  <2>2. pointer'[e] = [batch |-> call[e].batch, revision |-> call[e].revision] /\ row' = row
    BY DEF Saved, Types
  <2> QED
    BY <2>1, <2>2 DEF PointerIsSound, Exists
<1> QED
  BY <1>1, <1>2, <1>3, <1>4, <1>5, <1>6, <1>7, OneActor

LEMMA ArchivedKeeps ==
  ASSUME BatchInvariant, NEW e \in Editors, Archived(e)
  PROVE  BatchInvariant'
<1> USE SavedBatchAssumption DEF BatchInvariant
<1>0. CallIsSound(call[e]) /\ LinkIsSound(link[e]) /\ PointerIsSound(pointer[e])
  OBVIOUS
<1>1. Types'
  BY DEF Archived, Types, Link, Unlinked, Pointer, NoPointer, Call, Kinds, Steps, Idle
<1>2. Grows
  BY DEF Grows, Archived
<1>3. Stored'
  BY DEF Stored, Exists, Acceptable, Archived
<1>4. \A x \in Editors \ {e} :
         call'[x] = call[x] /\ link'[x] = link[x] /\ pointer'[x] = pointer[x]
  BY DEF Archived, Types
<1>5. CallIsSound(call[e])'
  <2>1. call'[e] = Idle
    BY DEF Archived, Types
  <2> QED
    BY <2>1 DEF CallIsSound, Started, HasRoot, Idle
<1>6. LinkIsSound(link[e])'
  <2>1. link'[e] = Unlinked
    BY DEF Archived, Types
  <2> QED
    BY <2>1 DEF LinkIsSound, Unlinked
<1>7. PointerIsSound(pointer[e])'
  <2>1. pointer'[e] = NoPointer
    BY DEF Archived, Types
  <2> QED
    BY <2>1 DEF PointerIsSound, NoPointer
<1> QED
  BY <1>1, <1>2, <1>3, <1>4, <1>5, <1>6, <1>7, OneActor

LEMMA RestoredKeeps ==
  ASSUME BatchInvariant, NEW e \in Editors, Restored(e)
  PROVE  BatchInvariant'
<1> USE SavedBatchAssumption DEF BatchInvariant
<1>0. CallIsSound(call[e]) /\ LinkIsSound(link[e]) /\ PointerIsSound(pointer[e])
  OBVIOUS
<1>1. Types'
  <2>1. /\ call[e] \in Call /\ call[e].batch \in Batches /\ call[e].profile \in Profiles
        /\ call[e].params \in Profiles /\ call[e].sent \in Definition \cup {None}
    BY <1>0 DEF Restored, Types, CallIsSound, Started, HasRoot, Call
  <2> QED
    BY <2>1 DEF Restored, Types, Link, Unlinked, Call, Kinds, Steps, Idle, LinkTo, DetailOf, Definition
<1>2. Grows
  BY DEF Grows, Restored
<1>3. Stored'
  BY DEF Stored, Exists, Acceptable, Restored
<1>4. \A x \in Editors \ {e} :
         call'[x] = call[x] /\ link'[x] = link[x] /\ pointer'[x] = pointer[x]
  BY DEF Restored, Types
<1>5. CallIsSound(call[e])'
  <2>1. call'[e] = Idle
    BY DEF Restored, Types
  <2> QED
    BY <2>1 DEF CallIsSound, Started, HasRoot, Idle
<1>6. LinkIsSound(link[e])'
  <2>0. CASE call[e].revision # pointer[e].revision
    <3>1. link'[e] = link[e]
      BY <2>0 DEF Restored
    <3> QED
      BY <1>1, <1>2, <3>1, Frame
  <2>9. CASE call[e].revision = pointer[e].revision
    <3>1. /\ call[e] \in Call /\ call[e].batch \in Batches /\ Exists(call[e].batch)
          /\ call[e].profile \in Profiles /\ call[e].params \in Profiles
          /\ call[e].revision \in 1 .. row[call[e].batch].revision
      BY <1>0 DEF Restored, Types, CallIsSound, Started, HasRoot
    <3>2. link'[e] = LinkTo(call[e], DetailOf(call[e]), "load") /\ row' = row
      BY <2>9 DEF Restored, Types
    <3>3. DetailOf(call[e]) \in Definition
      BY <1>0, <3>1 DEF Restored, DetailOf, Definition, Call, CallIsSound
    <3>4. call[e].revision = row[call[e].batch].revision => DetailOf(call[e]) = row[call[e].batch].def
      <4>1. row[call[e].batch].def \in Definition
        BY <3>1 DEF Stored
      <4> QED
        BY <1>0, <3>1, <4>1 DEF Restored, DetailOf, Definition, CallIsSound, HasRoot
    <3> QED
      BY SavedBatchAssumption, <3>1, <3>2, <3>3, <3>4 DEF LinkIsSound, LinkTo
  <2> QED
    BY <2>0, <2>9
<1>7. PointerIsSound(pointer[e])'
  <2>1. pointer'[e] = pointer[e]
    BY DEF Restored
  <2> QED
    BY <1>1, <1>2, <2>1, Frame
<1> QED
  BY <1>1, <1>2, <1>3, <1>4, <1>5, <1>6, <1>7, OneActor

LEMMA FailedKeeps ==
  ASSUME BatchInvariant, NEW e \in Editors, Failed(e)
  PROVE  BatchInvariant'
<1> USE SavedBatchAssumption DEF BatchInvariant
<1>0. CallIsSound(call[e]) /\ LinkIsSound(link[e]) /\ PointerIsSound(pointer[e])
  OBVIOUS
<1>1. Types'
  BY DEF Failed, Types, Call, Kinds, Steps, Idle
<1>2. Grows
  BY DEF Grows, Failed
<1>3. Stored'
  BY DEF Stored, Exists, Acceptable, Failed
<1>4. \A x \in Editors \ {e} :
         call'[x] = call[x] /\ link'[x] = link[x] /\ pointer'[x] = pointer[x]
  BY DEF Failed, Types
<1>5. CallIsSound(call[e])'
  <2>1. call'[e] = Idle
    BY DEF Failed, Types
  <2> QED
    BY <2>1 DEF CallIsSound, Started, HasRoot, Idle
<1>6. LinkIsSound(link[e])'
  <2>1. link'[e] = link[e]
    BY DEF Failed
  <2> QED
    BY <1>1, <1>2, <2>1, Frame
<1>7. PointerIsSound(pointer[e])'
  <2>1. pointer'[e] = pointer[e]
    BY DEF Failed
  <2> QED
    BY <1>1, <1>2, <2>1, Frame
<1> QED
  BY <1>1, <1>2, <1>3, <1>4, <1>5, <1>6, <1>7, OneActor

LEMMA DeletePromptKeeps ==
  ASSUME BatchInvariant, NEW v \in Versions, DeletePrompt(PromptOf[v])
  PROVE  BatchInvariant'
<1> USE DEF BatchInvariant
<1>1. Types'
  BY DEF Types, DeletePrompt
<1>2. Grows
  BY DEF Grows, DeletePrompt
<1>3. Stored'
  BY DEF Stored, Exists, Acceptable, Definition, DeletePrompt
<1>4. \A e \in Editors :
        (CallIsSound(call[e]) /\ LinkIsSound(link[e]) /\ PointerIsSound(pointer[e]))'
  <2> TAKE e \in Editors
  <2>1. call'[e] = call[e] /\ link'[e] = link[e] /\ pointer'[e] = pointer[e]
    BY DEF DeletePrompt
  <2> QED
    BY <1>1, <1>2, <2>1, Frame
<1> QED
  BY <1>1, <1>3, <1>4

LEMMA StutterKeeps ==
  ASSUME BatchInvariant, UNCHANGED vars
  PROVE  BatchInvariant'
<1> USE DEF BatchInvariant, vars
<1>1. Types'
  BY DEF Types
<1>2. Grows
  BY DEF Grows
<1>3. Stored'
  BY DEF Stored, Exists, Acceptable
<1>4. \A e \in Editors :
        (CallIsSound(call[e]) /\ LinkIsSound(link[e]) /\ PointerIsSound(pointer[e]))'
  BY <1>1, <1>2, Frame
<1> QED
  BY <1>1, <1>3, <1>4

LEMMA Inductive == BatchInvariant /\ [Next]_vars => BatchInvariant'
<1> SUFFICES ASSUME BatchInvariant, [Next]_vars
             PROVE  BatchInvariant'
  OBVIOUS
<1>1. ASSUME NEW e \in Editors, NEW d \in Forms, Edit(e, d)
      PROVE  BatchInvariant'
  BY <1>1, EditKeeps
<1>2. ASSUME NEW e \in Editors, NEW b \in Batches, Create(e, b)
      PROVE  BatchInvariant'
  BY <1>2, CreateKeeps
<1>3. ASSUME NEW e \in Editors, NEW b \in Batches, Select(e, b)
      PROVE  BatchInvariant'
  BY <1>3, SelectKeeps
<1>4. ASSUME NEW e \in Editors, Update(e)
      PROVE  BatchInvariant'
  BY <1>4, UpdateKeeps
<1>5. ASSUME NEW e \in Editors, Archive(e)
      PROVE  BatchInvariant'
  BY <1>5, ArchiveKeeps
<1>6. ASSUME NEW e \in Editors, Reload(e)
      PROVE  BatchInvariant'
  BY <1>6, ReloadKeeps
<1>7. ASSUME NEW e \in Editors, Restore(e)
      PROVE  BatchInvariant'
  BY <1>7, RestoreKeeps
<1>8. ASSUME NEW e \in Editors, ReadRoot(e)
      PROVE  BatchInvariant'
  BY <1>8, ReadRootKeeps
<1>9. ASSUME NEW e \in Editors, ReadPrompts(e)
      PROVE  BatchInvariant'
  BY <1>9, ReadPromptsKeeps
<1>10. ASSUME NEW e \in Editors, ReadParams(e)
      PROVE  BatchInvariant'
  BY <1>10, ReadParamsKeeps
<1>11. ASSUME NEW e \in Editors, Load(e)
      PROVE  BatchInvariant'
  BY <1>11, LoadKeeps
<1>12. ASSUME NEW e \in Editors, Saved(e)
      PROVE  BatchInvariant'
  BY <1>12, SavedKeeps
<1>13. ASSUME NEW e \in Editors, Archived(e)
      PROVE  BatchInvariant'
  BY <1>13, ArchivedKeeps
<1>14. ASSUME NEW e \in Editors, Restored(e)
      PROVE  BatchInvariant'
  BY <1>14, RestoredKeeps
<1>15. ASSUME NEW e \in Editors, Failed(e)
      PROVE  BatchInvariant'
  BY <1>15, FailedKeeps
<1>16. ASSUME NEW v \in Versions, DeletePrompt(PromptOf[v])
      PROVE  BatchInvariant'
  BY <1>16, DeletePromptKeeps
<1>17. CASE UNCHANGED vars
  BY <1>17, StutterKeeps
<1> QED
  BY <1>1, <1>2, <1>3, <1>4, <1>5, <1>6, <1>7, <1>8, <1>9, <1>10, <1>11, <1>12, <1>13, <1>14, <1>15, <1>16, <1>17 DEF Next

-----------------------------------------------------------------------------
LEMMA InvariantHolds == Spec => []BatchInvariant
<1>1. Init => BatchInvariant
  BY Initially
<1>2. BatchInvariant /\ [Next]_vars => BatchInvariant'
  BY Inductive
<1> QED
  BY <1>1, <1>2, PTL DEF Spec

\* However many editors delete Prompts and save, a stored selection names a
\* PromptVersion that exists (db/prompts.py:251, the check before a save).
THEOREM SelectionsStayValid == Spec => []SelectionsExist
<1>1. BatchInvariant => SelectionsExist
  BY DEF BatchInvariant, Stored, Acceptable, SelectionsExist
<1> QED
  BY <1>1, InvariantHolds, PTL

\* The root row is read first: what follows it is of its revision, or the
\* revision is no longer the current one; and whatever is stored can be read
\* again unless it changes meanwhile (_get_detail).
THEOREM ReadsStaySound == Spec => []ReadsAreSound
<1>1. BatchInvariant => ReadsAgree
  BY DEF BatchInvariant, CallIsSound, HasRoot, ReadsAgree
<1>2. BatchInvariant => UndisturbedReadsSucceed
  <2> SUFFICES ASSUME BatchInvariant, NEW e \in Editors, call[e].next = "answer", ~Fits(call[e])
               PROVE  call[e].revision # row[call[e].batch].revision
    BY DEF UndisturbedReadsSucceed
  <2>1. CallIsSound(call[e])
    BY DEF BatchInvariant
  <2>2. Acceptable(row[call[e].batch].def)
    BY <2>1 DEF BatchInvariant, Stored, CallIsSound, Started
  <2> QED
    BY <2>1, <2>2 DEF CallIsSound, HasRoot, Acceptable, Fits
<1>3. BatchInvariant => ReadsAreSound
  BY <1>1, <1>2 DEF ReadsAreSound
<1> QED
  BY <1>3, InvariantHolds, PTL

\* An editor that loaded its Saved Batch knows the content of the revision
\* it is linked to.
THEOREM LoadedLinkStaysTrue == Spec => []LoadedLinkIsTrue
<1>1. BatchInvariant => LoadedLinkIsTrue
  BY SavedBatchAssumption DEF BatchInvariant, LinkIsSound, LoadedLinkIsTrue
<1> QED
  BY <1>1, InvariantHolds, PTL

\* No save of such an editor replaces content it has not seen (the revision
\* check of SavedBatchStore.update).
THEOREM NoLostUpdate == Spec => OverwritesOnlyWhatWasLoaded
<1>1. BatchInvariant /\ [Next]_vars =>
        [\A e \in Editors : Update(e) /\ link[e].from = "load" =>
            row[link[e].batch].def = link[e].base]_vars
  BY SavedBatchAssumption DEF BatchInvariant, LinkIsSound, Update
<1> QED
  BY <1>1, InvariantHolds, PTL DEF Spec, OverwritesOnlyWhatWasLoaded

-----------------------------------------------------------------------------
(* The monitor of the current Run. *)

Statuses == {"absent", "created", "running", "ended"}
Modes == {"none", "stop", "detach"}
Commands == {"start", "discard", "stop", "detach"}
RunRecords == [status : Statuses, active : BOOLEAN, mode : Modes, results : Nat]
Ats == {"off", "ended", "answered", "lost", "sent", "ok", "ineligible", "failed", "unread"} \union Monitor!ReadSteps
Requests ==
  [at : Ats, run : Runs \union {None}, status : Statuses, active : BOOLEAN, mode : Modes,
   results : Nat, begun : BOOLEAN, overtaken : BOOLEAN, crossed : BOOLEAN,
   kind : Commands \union {"none", "discarding"}, scope : Nat]
Responses ==
  [run : Runs \union {None}, status : Statuses, active : BOOLEAN, mode : Modes, results : Nat,
   overtaken : BOOLEAN]
Observations == [results : Nat, end : {"none", "null", "inactive", "ended"}]
Listings ==
  [at : {"idle", "sent", "answered", "lost"}, observation : Observations, behind : BOOLEAN,
   failed : BOOLEAN, results : Nat]
Notes ==
  [reconciliation : {"none", "start", "discard"}, createdPolls : Nat, stop : BOOLEAN,
   detach : BOOLEAN, stopRetry : BOOLEAN, detachRetry : BOOLEAN, unavailable : BOOLEAN,
   error : BOOLEAN]

RequestTypes ==
  /\ server \in [Runs -> RunRecords]
  /\ view \in [run : Runs \union {None}, scope : Nat]
  /\ loop \in Requests /\ loop.at \in {"off", "ended", "answered", "lost"} \union Monitor!ReadSteps
  /\ actions \subseteq Requests
  /\ hydration \in Requests
  /\ late \subseteq [kind : Commands, run : Runs]
  /\ disturbed \in BOOLEAN
  /\ polling \in BOOLEAN
ScreenTypes ==
  /\ shown \in Responses
  /\ listed \in [run : Runs \union {None}, results : Nat]
  /\ listing \in Listings
  /\ note \in Notes
  /\ failures \in Nat

\* A Run without a record has no task, and no Result comes before the first Job.
RunsAreSound ==
  \A r \in Runs :
    /\ server[r].status \in {"absent", "created"} => server[r].results = 0
    /\ server[r].status = "absent" => ~server[r].active

\* What may become of a Run: it never starts again.
Evolves(s, t) ==
  /\ s.status = "ended" => t.status = "ended" /\ t.results = s.results
  /\ s.status = "running" /\ ~s.active => t.status = "running" /\ ~t.active /\ t.results = s.results
  /\ s.status # "absent" => t.status # "absent"
  /\ s.results <= t.results

\* A reading is not newer than the server, and tells the end of a Run only
\* when the Run is over, unless it was overtaken.
ReadsTruly(q, runs) ==
  q.at # "off" =>
    /\ q.run \in Runs
    /\ runs[q.run].status # "absent"
    /\ q.at \in {"state", "again"} /\ ~q.active => ~q.begun
    /\ q.at \in {"again", "answered"} =>
         /\ q.status # "absent"
         /\ q.results <= runs[q.run].results
         /\ q.status = "ended" => runs[q.run].status = "ended" /\ q.results = runs[q.run].results
    /\ q.at = "answered" /\ q.status = "running" /\ ~q.active /\ ~q.overtaken =>
         /\ runs[q.run].status = "running" /\ ~runs[q.run].active
         /\ q.results = runs[q.run].results

\* A command belongs to a lifetime, and what it was told of a discarded Run stays true.
ActsTruly(a, runs, now) ==
  /\ a.at # "off" /\ a.kind # "none"
  /\ a.scope <= now.scope
  /\ a.scope = now.scope => a.run = now.run
  /\ a.kind = "discarding" => a.at \notin {"sent", "ok", "ineligible", "failed", "lost"}
  /\ a.at = "ok" /\ a.kind = "discard" =>
       runs[a.run].status = "ended" /\ runs[a.run].results = a.results

LoopIsTrue == ReadsTruly(loop, server) /\ (loop.at # "off" => loop.run = view.run)
HydrationReads == ReadsTruly(hydration, server)
ActionsAreTrue == \A a \in actions : ReadsTruly(a, server) /\ ActsTruly(a, server, view)

\* A command of the lifetime in view is under way.
Awaited == \E a \in actions : Monitor!IsCurrent(a)

IsIdle(s) == s.status = "created" /\ ~s.active

\* App.tsx reads an idle Run only if it is, unless the reading was overtaken or
\* crossed by a command, or the answer to one is still to come.
HydrationIsTrue ==
  hydration.at = "answered" /\ IsIdle(hydration) /\ ~hydration.overtaken =>
    \/ IsIdle(server[hydration.run])
    \/ hydration.crossed
    \/ hydration.run = view.run /\ Awaited

\* A listing l has the Results that it was asked for, with e, or will be repeated.
Lists(l, e) ==
  /\ l.at = "idle" /\ ~l.failed => l.observation.results <= e.results
  /\ l.at = "answered" /\ ~l.behind => l.observation.results <= l.results

\* Without a Run nothing is asked for; with one, what is listed is of it.
ViewIsTrue ==
  /\ view.run = None => ~polling /\ listing.at = "idle"
  /\ view.run # None =>
       /\ server[view.run].status # "absent"
       /\ listed.run = view.run
       /\ listed.results <= server[view.run].results
       /\ listing.at = "answered" => listing.results <= server[view.run].results
       /\ listing.observation.results <= server[view.run].results
       /\ Lists(listing, listed)

\* The listing was last asked for what is shown.
ObservationOf(q) == IF q.run = None THEN Monitor!NotListing.observation ELSE Monitor!Signature(q)
ShownIsTrue ==
  /\ shown.run \in {None, view.run}
  /\ shown.run = None => shown.status = "created"
  /\ shown.status # "absent"
  /\ listing.observation = ObservationOf(shown)

\* q tells how the Run s ended.
Tells(q, s) ==
  /\ s.status = q.status
  /\ q.status = "running" => ~s.active
  /\ s.results = q.results

\* The Run is shown as over, by an answer that was not overtaken.
Final(q) == Monitor!IsOver(q) /\ (q.status = "ended" \/ ~q.overtaken)
EndIsTrue == view.run # None /\ Final(shown) => Tells(shown, server[view.run])

\* The polling has stopped for a reason.
RestIsTrue ==
  view.run # None /\ ~disturbed /\ ~polling =>
    \/ note.error \/ Awaited \/ Monitor!IsOver(shown)
    \/ shown.status = "created" /\ (shown.overtaken \/ IsIdle(server[view.run]))

MonitorInvariant ==
  /\ RequestTypes /\ ScreenTypes
  /\ RunsAreSound
  /\ LoopIsTrue /\ HydrationReads /\ ActionsAreTrue
  /\ HydrationIsTrue
  /\ ViewIsTrue /\ ShownIsTrue /\ EndIsTrue /\ RestIsTrue

-----------------------------------------------------------------------------
(* Lemmas about single requests and listings. *)

LEMMA NoRunIsNone == None \notin Runs
BY BrowserAssumption DEF Monitor!MonitorAssumption

(* A request that is new is of the type of the requests. *)
LEMMA NewRequests ==
  /\ Monitor!Off \in Requests /\ Monitor!Off.at = "off"
  /\ \A r \in Runs \union {None} :
       /\ Monitor!Asking(r) \in Requests
       /\ Monitor!Asking(r).at = "sample" /\ Monitor!Asking(r).run = r
       /\ Monitor!Asking(r).kind = "none" /\ ~Monitor!Asking(r).active
<1>1. Monitor!Off \in Requests /\ Monitor!Off.at = "off"
  BY DEF Monitor!Off, Requests, Ats, Statuses, Modes, Commands, Monitor!ReadSteps
<1>2. ASSUME NEW r \in Runs \union {None}
      PROVE  /\ Monitor!Asking(r) \in Requests
             /\ Monitor!Asking(r).at = "sample" /\ Monitor!Asking(r).run = r
             /\ Monitor!Asking(r).kind = "none" /\ ~Monitor!Asking(r).active
  BY DEF Monitor!Asking, Monitor!Off, Requests, Ats, Statuses, Modes, Commands, Monitor!ReadSteps
<1> QED BY <1>1, <1>2

(* A reading of a Run that exists starts out true. *)
LEMMA AskingIsTrue ==
  ASSUME NEW runs, NEW r \in Runs, runs[r].status # "absent"
  PROVE  ReadsTruly(Monitor!Asking(r), runs)
<1>1. Monitor!Asking(r).at = "sample" /\ Monitor!Asking(r).run = r
  BY NewRequests
<1> QED BY <1>1 DEF ReadsTruly

(* What was read stays true while the Run goes on. *)
LEMMA ReadingsStayTrue ==
  ASSUME NEW q \in Requests, NEW runs, NEW then,
         ReadsTruly(q, runs),
         \A r \in Runs : runs[r].results \in Nat /\ then[r].results \in Nat,
         \A r \in Runs : Evolves(runs[r], then[r])
  PROVE  ReadsTruly(q, then)
<1> SUFFICES ASSUME q.at # "off" PROVE ReadsTruly(q, then)
  BY DEF ReadsTruly
<1>1. /\ q.run \in Runs /\ Evolves(runs[q.run], then[q.run]) /\ q.results \in Nat
      /\ runs[q.run].results \in Nat /\ then[q.run].results \in Nat
  BY DEF ReadsTruly, Requests
<1>2. q.results <= runs[q.run].results => q.results <= then[q.run].results
  BY <1>1 DEF Evolves
<1> QED BY <1>1, <1>2 DEF ReadsTruly, Evolves

(* A reading is about as much as its fields: where it is going is nothing. *)
LEMMA EndedReadings ==
  ASSUME NEW q \in Requests, NEW runs, NEW at \in Ats,
         at \notin {"state", "again", "answered"}, q.at # "off", ReadsTruly(q, runs)
  PROVE  [q EXCEPT !.at = at] \in Requests /\ ReadsTruly([q EXCEPT !.at = at], runs)
<1> DEFINE new == [q EXCEPT !.at = at]
<1>1. new \in Requests /\ new.at = at /\ new.run = q.run
  BY DEF Requests
<1> HIDE DEF new
<1>2. ReadsTruly(new, runs)
  BY <1>1 DEF ReadsTruly
<1> QED BY <1>1, <1>2 DEF new

(* A step of a reading: it stays of its Run, and what it adds is so. *)
LEMMA AdvancingReadings ==
  ASSUME RequestTypes, NEW q \in Requests, q.at \in Monitor!ReadSteps,
         ReadsTruly(q, server)
  PROVE  /\ Monitor!Advance(q) \in Requests
         /\ Monitor!Advance(q).at \in {"state", "again", "answered"}
         /\ Monitor!Advance(q).run = q.run /\ Monitor!Advance(q).kind = q.kind /\ Monitor!Advance(q).scope = q.scope
         /\ Monitor!Advance(q).crossed = q.crossed
         /\ ReadsTruly(Monitor!Advance(q), server)
         /\ Monitor!Advance(q).at = "answered" /\ ~Monitor!Advance(q).active
              /\ ~Monitor!Advance(q).overtaken =>
              Monitor!Advance(q).status = server[q.run].status /\ ~server[q.run].active
<1> DEFINE s == server[q.run]
<1>1. q.run \in Runs /\ s.status # "absent" /\ s \in RunRecords
  BY DEF ReadsTruly, RequestTypes, Monitor!ReadSteps
<1>2. CASE q.at = "sample"
  <2> DEFINE new == [q EXCEPT !.at = "state", !.active = s.active, !.begun = s.active]
  <2>1. Monitor!Advance(q) = new
    BY <1>2 DEF Monitor!Advance, Monitor!Sampled
  <2>2. /\ new \in Requests /\ new.at = "state"
        /\ new.run = q.run /\ new.kind = q.kind /\ new.scope = q.scope /\ new.crossed = q.crossed
        /\ new.active = s.active /\ new.begun = s.active
    BY <1>1 DEF Requests, RunRecords, Ats, Monitor!ReadSteps
  <2> HIDE DEF new
  <2>3. ReadsTruly(new, server)
    BY <1>1, <2>2 DEF ReadsTruly
  <2> QED BY <2>1, <2>2, <2>3
<1>3. CASE q.at = "state"
  <2> DEFINE new == [q EXCEPT !.at = "again", !.status = s.status, !.results = s.results]
  <2>1. Monitor!Advance(q) = new
    BY <1>3 DEF Monitor!Advance
  <2>2. /\ new \in Requests /\ new.at = "again"
        /\ new.run = q.run /\ new.kind = q.kind /\ new.scope = q.scope /\ new.crossed = q.crossed
        /\ new.status = s.status /\ new.results = s.results
        /\ new.active = q.active /\ new.begun = q.begun
    BY <1>1 DEF Requests, RunRecords, Ats, Monitor!ReadSteps
  <2> HIDE DEF new
  <2>3. /\ ~new.active => ~new.begun
        /\ new.results <= s.results
    BY <1>1, <1>3, <2>2 DEF ReadsTruly, RunRecords
  <2>4. ReadsTruly(new, server)
    BY <1>1, <2>2, <2>3 DEF ReadsTruly
  <2> QED BY <1>3, <2>1, <2>2, <2>4
<1>4. CASE q.at = "again"
  <2> DEFINE gone == Monitor!Overtaken(q, s)
             new == [q EXCEPT !.at = "answered", !.active = q.active \/ s.active,
                              !.mode = s.mode, !.begun = FALSE, !.overtaken = gone]
  <2>0. gone \in BOOLEAN
    BY DEF Monitor!Overtaken
  <2>1. Monitor!Advance(q) = new
    BY <1>4 DEF Monitor!Advance
  <2>2. /\ new \in Requests /\ new.at = "answered"
        /\ new.run = q.run /\ new.kind = q.kind /\ new.scope = q.scope /\ new.crossed = q.crossed
        /\ new.status = q.status /\ new.results = q.results
        /\ new.active = (q.active \/ s.active) /\ new.overtaken = gone
    BY <1>1, <2>0 DEF Requests, RunRecords, Ats, Monitor!ReadSteps
  <2> HIDE DEF new
  <2>3. ~new.active /\ ~new.overtaken => s.status = q.status /\ s.results = q.results /\ ~s.active
    BY <1>4, <2>2 DEF ReadsTruly, Monitor!Overtaken
  <2> HIDE DEF gone
  <2>4. ReadsTruly(new, server)
    BY <1>1, <1>4, <2>2, <2>3 DEF ReadsTruly
  <2> QED BY <1>4, <2>1, <2>2, <2>3, <2>4
<1> QED BY <1>2, <1>3, <1>4 DEF Monitor!ReadSteps

(* How a request may be handled: the Run goes on as a Run may, an idle Run *)
(* is left alone by all but Start and Discard, and a discarded one is over. *)
LEMMA HandledRequests ==
  ASSUME RequestTypes, RunsAreSound, NEW kind \in Commands, NEW r \in Runs,
         NEW h \in Monitor!Handled(kind, r)
  PROVE  /\ h.run \in RunRecords
         /\ h.answer \in {"ok", "ineligible", "failed"}
         /\ Evolves(server[r], h.run)
         /\ server[r].active => h.run.active
         /\ server[r].status = "absent" => h.run = server[r]
         /\ h.run.status \in {"absent", "created"} => h.run.results = 0
         /\ kind = "discard" /\ h.answer = "ok" => h.run.status = "ended"
<1> DEFINE s == server[r]
<1>1. s \in RunRecords
  BY DEF RequestTypes
<1>2. /\ s.status \in {"absent", "created"} => s.results = 0
      /\ s.status = "absent" => ~s.active
  BY DEF RunsAreSound
<1>3. CASE kind = "start"
  <2>0. Monitor!Handled("start", r) =
          IF \E q \in Runs : server[q].active THEN {[answer |-> "failed", run |-> s]}
          ELSE IF s.status # "created" \/ s.mode = "detach"
               THEN {[answer |-> "ineligible", run |-> s]}
               ELSE {[answer |-> "ok", run |-> [s EXCEPT !.active = TRUE]]}
    BY Zenon DEF Monitor!Handled
  <2>1. \/ h.run = s /\ h.answer \in {"ineligible", "failed"}
        \/ s.status = "created" /\ h.run = [s EXCEPT !.active = TRUE] /\ h.answer = "ok"
    <3>1. CASE \E q \in Runs : server[q].active
      <4>1. h \in {[answer |-> "failed", run |-> s]}
        BY <1>3, <2>0, <3>1, Zenon
      <4> QED BY <4>1
    <3>2. CASE ~(\E q \in Runs : server[q].active) /\ (s.status # "created" \/ s.mode = "detach")
      <4>1. h \in {[answer |-> "ineligible", run |-> s]}
        BY <1>3, <2>0, <3>2, Zenon
      <4> QED BY <4>1
    <3>3. CASE ~(\E q \in Runs : server[q].active) /\ ~(s.status # "created" \/ s.mode = "detach")
      <4>1. h \in {[answer |-> "ok", run |-> [s EXCEPT !.active = TRUE]]}
        BY <1>3, <2>0, <3>3, Zenon
      <4> QED BY <3>3, <4>1
    <3> QED BY <3>1, <3>2, <3>3
  <2>2. [s EXCEPT !.active = TRUE] \in RunRecords
    BY <1>1 DEF RunRecords
  <2>3. /\ [s EXCEPT !.active = TRUE].active
        /\ [s EXCEPT !.active = TRUE].status = s.status
        /\ [s EXCEPT !.active = TRUE].results = s.results
    BY <1>1 DEF RunRecords
  <2> QED BY <1>1, <1>2, <1>3, <2>1, <2>2, <2>3 DEF Evolves, RunRecords
<1>4. CASE kind = "discard"
  <2>1. \/ h.run = s /\ h.answer \in {"ok", "ineligible"} /\ (h.answer = "ok" => s.status = "ended")
        \/ s.status = "created" /\ ~s.active /\ h.run = [s EXCEPT !.status = "ended"] /\ h.answer = "ok"
    BY <1>4 DEF Monitor!Handled
  <2>2. [s EXCEPT !.status = "ended"] \in RunRecords
    BY <1>1 DEF RunRecords, Statuses
  <2>3. /\ [s EXCEPT !.status = "ended"].active = s.active
        /\ [s EXCEPT !.status = "ended"].status = "ended"
        /\ [s EXCEPT !.status = "ended"].results = s.results
    BY <1>1 DEF RunRecords
  <2> QED BY <1>1, <1>2, <1>4, <2>1, <2>2, <2>3 DEF Evolves, RunRecords
<1>5. CASE kind \in {"stop", "detach"}
  <2> DEFINE new == [s EXCEPT !.mode = IF Monitor!Outranks[s.mode] > Monitor!Outranks[kind] THEN @ ELSE kind]
  <2>1. \/ h.run = s /\ h.answer \in {"ok", "ineligible"}
        \/ s.status # "ended" /\ s.active /\ h.run = new /\ h.answer = "ok"
    BY <1>5 DEF Monitor!Handled
  <2>2. new \in RunRecords
    BY <1>1, <1>5 DEF RunRecords, Modes
  <2>3. new.status = s.status /\ new.active = s.active /\ new.results = s.results
    BY <1>1 DEF RunRecords
  <2> QED BY <1>1, <1>2, <1>5, <2>1, <2>2, <2>3 DEF Evolves, RunRecords
<1> QED BY <1>3, <1>4, <1>5 DEF Commands

(* How a listing takes an observation. *)
LEMMA ObservedListings ==
  ASSUME NEW l \in Listings, NEW q, q.results \in Nat
  PROVE  /\ Monitor!Observed(l, q) \in Listings
         /\ Monitor!Observed(l, q).observation = Monitor!Signature(q)
         /\ Monitor!Observed(l, q).results = l.results
         /\ Monitor!Observed(l, q).at \in {"idle", "answered"} => l.at = Monitor!Observed(l, q).at
         /\ Monitor!Observed(l, q).at = "idle" =>
              Monitor!Observed(l, q).failed = l.failed /\ ~l.failed /\ l.observation = Monitor!Signature(q)
         /\ Monitor!Observed(l, q).at = "answered" /\ ~Monitor!Observed(l, q).behind =>
              ~l.behind /\ l.observation = Monitor!Signature(q)
<1>1. Monitor!Signature(q) \in Observations
  BY DEF Monitor!Signature, Observations
<1> DEFINE new == [l EXCEPT !.observation = Monitor!Signature(q)]
<1>2. /\ new \in Listings /\ new.observation = Monitor!Signature(q) /\ new.at = l.at
      /\ new.results = l.results
  BY <1>1 DEF Listings
<1> HIDE DEF new
<1>3. CASE Monitor!Signature(q) # l.observation
  <2>1. Monitor!Observed(l, q) = Monitor!Needing(new)
    BY <1>3 DEF Monitor!Observed, new
  <2>2. CASE new.at = "idle"
    <3>1. /\ Monitor!Dispatched(new) \in Listings /\ Monitor!Dispatched(new).at = "sent"
          /\ Monitor!Dispatched(new).observation = new.observation
          /\ Monitor!Dispatched(new).results = new.results
      BY <1>2 DEF Monitor!Dispatched, Listings
    <3> QED BY <1>2, <2>1, <2>2, <3>1 DEF Monitor!Needing
  <2>3. CASE new.at # "idle"
    <3> DEFINE late2 == [new EXCEPT !.behind = TRUE]
    <3>1. /\ late2 \in Listings /\ late2.at = new.at /\ late2.behind
          /\ late2.observation = new.observation
          /\ late2.results = new.results
      BY <1>2 DEF Listings
    <3>2. Monitor!Needing(new) = late2
      BY <2>3 DEF Monitor!Needing
    <3> HIDE DEF late2
    <3> QED BY <1>2, <2>1, <2>3, <3>1, <3>2
  <2> QED BY <2>2, <2>3
<1>4. CASE Monitor!Signature(q) = l.observation /\ l.failed /\ l.at = "idle"
  <2>1. Monitor!Observed(l, q) = Monitor!Dispatched(l)
    BY <1>4 DEF Monitor!Observed
  <2>2. /\ Monitor!Dispatched(l) \in Listings /\ Monitor!Dispatched(l).at = "sent"
        /\ Monitor!Dispatched(l).observation = l.observation
        /\ Monitor!Dispatched(l).results = l.results
    BY DEF Monitor!Dispatched, Listings
  <2> QED BY <1>4, <2>1, <2>2
<1>5. CASE Monitor!Signature(q) = l.observation /\ ~(l.failed /\ l.at = "idle")
  BY <1>5 DEF Monitor!Observed
<1> QED BY <1>3, <1>4, <1>5

(* What was listed for an observation is enough for the next, or is repeated. *)
LEMMA ObservedLists ==
  ASSUME NEW l \in Listings, NEW e, NEW q, q.results \in Nat, Lists(l, e)
  PROVE  Lists(Monitor!Observed(l, q), e)
<1> DEFINE o == Monitor!Observed(l, q)
<1>1. /\ o.results = l.results /\ o.observation = Monitor!Signature(q)
      /\ o.at \in {"idle", "answered"} => l.at = o.at
      /\ o.at = "idle" => o.failed = l.failed /\ ~l.failed /\ l.observation = Monitor!Signature(q)
      /\ o.at = "answered" /\ ~o.behind => ~l.behind /\ l.observation = Monitor!Signature(q)
  BY ObservedListings
<1> HIDE DEF o
<1>2. Lists(o, e)
  BY <1>1 DEF Lists
<1> QED BY <1>2 DEF o

-----------------------------------------------------------------------------
(* The server. *)

\* An idle Run that is idle no more: a command of the lifetime in view did it,
\* or the Run is polled or disturbed, and a reading of it is crossed.
Accounted(r) ==
  \/ r = view.run /\ view' = view /\ Awaited'
  \/ /\ r = view.run => disturbed' \/ polling
     /\ hydration.at # "off" /\ hydration.run = r => hydration'.crossed

\* What a step makes of the server, and how it is accounted for.
ServerStep ==
  /\ server' \in [Runs -> RunRecords]
  /\ RunsAreSound'
  /\ \A r \in Runs : Evolves(server[r], server'[r])
  /\ \A r \in Runs : IsIdle(server[r]) /\ ~IsIdle(server'[r]) => Accounted(r)
  /\ disturbed' \in BOOLEAN

(* A Run that is as it was has evolved. *)
LEMMA StandingStill ==
  ASSUME RequestTypes
  PROVE  \A r \in Runs : server[r] \in RunRecords /\ Evolves(server[r], server[r])
<1> TAKE r \in Runs
<1>1. server[r] \in RunRecords /\ server[r].results \in Nat
  BY DEF RequestTypes, RunRecords
<1> QED BY <1>1 DEF Evolves

LEMMA ServerRests ==
  ASSUME MonitorInvariant, UNCHANGED server, disturbed' \in BOOLEAN
  PROVE  ServerStep
<1>1. RequestTypes /\ RunsAreSound
  BY DEF MonitorInvariant
<1>2. server' \in [Runs -> RunRecords] /\ RunsAreSound'
  BY <1>1 DEF RequestTypes, RunsAreSound
<1>3. \A r \in Runs : Evolves(server[r], server'[r])
  BY <1>1, StandingStill
<1> QED BY <1>2, <1>3 DEF ServerStep, IsIdle

(* A Run whose record becomes new, and the others as they were. *)
LEMMA OneRunGoesOn ==
  ASSUME MonitorInvariant, NEW r \in Runs, NEW new \in RunRecords,
         server' = [server EXCEPT ![r] = new],
         Evolves(server[r], new),
         new.status \in {"absent", "created"} => new.results = 0,
         new.status = "absent" => ~new.active,
         disturbed' \in BOOLEAN,
         IsIdle(server[r]) /\ ~IsIdle(new) => Accounted(r)
  PROVE  ServerStep
<1>1. RequestTypes /\ RunsAreSound
  BY DEF MonitorInvariant
<1>2. server' \in [Runs -> RunRecords]
  BY <1>1 DEF RequestTypes
<1>3. server'[r] = new /\ \A o \in Runs \ {r} : server'[o] = server[o]
  BY <1>1 DEF RequestTypes
<1>4. RunsAreSound'
  BY <1>1, <1>3 DEF RunsAreSound
<1>5. \A o \in Runs : Evolves(server[o], server'[o])
  BY <1>1, <1>3, StandingStill
<1>6. \A o \in Runs : IsIdle(server[o]) /\ ~IsIdle(server'[o]) => Accounted(o)
  BY <1>3
<1> QED BY <1>2, <1>4, <1>5, <1>6 DEF ServerStep

LEMMA RunsGoOn ==
  ASSUME MonitorInvariant, NEW r \in Runs, Monitor!RunGoesOn(r)
  PROVE  ServerStep
<1> DEFINE s == server[r]
<1>1. s \in RunRecords /\ s.active /\ disturbed \in BOOLEAN
  BY DEF MonitorInvariant, RequestTypes, Monitor!RunGoesOn
<1>2. PICK new \in {[server[r] EXCEPT !.status = "running"],
                    [server[r] EXCEPT !.status = "ended"],
                    [server[r] EXCEPT !.results = @ + 1],
                    [server[r] EXCEPT !.active = FALSE]} :
        /\ new.status = "running" => server[r].status # "ended"
        /\ new.results > server[r].results =>
             server[r].status = "running" /\ new.results <= MaxResults
        /\ server' = [server EXCEPT ![r] = new]
        /\ disturbed' = disturbed
  BY DEF Monitor!RunGoesOn
<1>3. s.status # "absent" /\ (s.status = "created" => s.results = 0) /\ s.results \in Nat
  BY <1>1 DEF MonitorInvariant, RunsAreSound, RunRecords, Statuses
<1>4. /\ new \in RunRecords
      /\ new.status # "absent"
      /\ s.status = "ended" => new.status = "ended" /\ new.results = s.results
      /\ new.status = "created" => new.results = 0
      /\ s.results <= new.results
  <2>1. CASE new = [server[r] EXCEPT !.status = "running"]
    <3>1. new \in RunRecords /\ new.status = "running" /\ new.results = s.results
      BY <1>1, <2>1 DEF RunRecords, Statuses
    <3> QED BY <1>2, <1>3, <3>1
  <2>2. CASE new = [server[r] EXCEPT !.status = "ended"]
    <3>1. new \in RunRecords /\ new.status = "ended" /\ new.results = s.results
      BY <1>1, <2>2 DEF RunRecords, Statuses
    <3> QED BY <1>3, <3>1
  <2>3. CASE new = [server[r] EXCEPT !.results = @ + 1]
    <3>1. new \in RunRecords /\ new.status = s.status /\ new.results = s.results + 1
      BY <1>1, <2>3 DEF RunRecords, Statuses
    <3> QED BY <1>2, <1>3, <3>1
  <2>4. CASE new = [server[r] EXCEPT !.active = FALSE]
    <3>1. new \in RunRecords /\ new.status = s.status /\ new.results = s.results
      BY <1>1, <2>4 DEF RunRecords, Statuses
    <3> QED BY <1>3, <3>1
  <2> QED BY <1>2, <2>1, <2>2, <2>3, <2>4
<1>5. Evolves(server[r], new)
  BY <1>1, <1>4 DEF Evolves
<1>6. disturbed' \in BOOLEAN /\ ~IsIdle(server[r])
  BY <1>1, <1>2 DEF IsIdle
<1> QED BY <1>2, <1>4, <1>5, <1>6, OneRunGoesOn

(* A command that is not awaited disturbs the Run, or crosses a reading of it. *)
LEMMA UnawaitedCommands ==
  ASSUME MonitorInvariant, NEW r \in Runs, Monitor!Unawaited(r)
  PROVE  /\ Accounted(r) /\ disturbed' \in BOOLEAN /\ (disturbed => disturbed')
         /\ \E c \in BOOLEAN : hydration' = [hydration EXCEPT !.crossed = c]
         /\ hydration.crossed => hydration'.crossed
<1> DEFINE c == hydration.crossed \/ (hydration.at # "off" /\ hydration.run = r)
<1>1. /\ hydration \in Requests /\ disturbed \in BOOLEAN
      /\ hydration.crossed \in BOOLEAN
  BY DEF MonitorInvariant, RequestTypes, Requests
<1>2. /\ disturbed' = (disturbed \/ (r = view.run /\ ~polling))
      /\ hydration' = [hydration EXCEPT !.crossed = c]
  BY DEF Monitor!Unawaited
<1>3. c \in BOOLEAN /\ hydration'.crossed = c
  BY <1>1, <1>2 DEF Requests
<1>4. Accounted(r)
  BY <1>2, <1>3 DEF Accounted
<1> QED BY <1>1, <1>2, <1>3, <1>4

\* The parts of a command that is handled.
HandledAs(a, h) == [a EXCEPT !.at = h.answer, !.results = h.run.results]
LEMMA ActionsAreHandled ==
  ASSUME MonitorInvariant, NEW a \in actions, Monitor!HandleAction(a)
  PROVE  /\ ServerStep
         /\ \E h \in Monitor!Handled(a.kind, a.run) :
              /\ HandledAs(a, h) \in Requests
              /\ actions' = (actions \ {a}) \union {HandledAs(a, h)}
              /\ HandledAs(a, h).at \in {"ok", "ineligible", "failed"}
              /\ HandledAs(a, h).run = a.run /\ HandledAs(a, h).kind = a.kind
              /\ HandledAs(a, h).scope = a.scope
              /\ a.kind = "discard" /\ HandledAs(a, h).at = "ok" =>
                   server'[a.run].status = "ended" /\ server'[a.run].results = HandledAs(a, h).results
<1>1. /\ RequestTypes /\ RunsAreSound /\ disturbed \in BOOLEAN
      /\ a \in Requests /\ a.at = "sent" /\ a.run \in Runs
      /\ a.kind \in Commands
      /\ a.scope = view.scope => a.run = view.run
  BY DEF MonitorInvariant, RequestTypes, ActionsAreTrue, ActsTruly, ReadsTruly, Monitor!HandleAction,
         Requests
<1>2. PICK h \in Monitor!Handled(a.kind, a.run) :
        /\ server' = [server EXCEPT ![a.run] = h.run]
        /\ actions' = (actions \ {a}) \union {HandledAs(a, h)}
  BY DEF Monitor!HandleAction, HandledAs
<1>3. /\ h.run \in RunRecords
      /\ h.answer \in {"ok", "ineligible", "failed"}
      /\ Evolves(server[a.run], h.run)
      /\ server[a.run].active => h.run.active
      /\ server[a.run].status = "absent" => h.run = server[a.run]
      /\ h.run.status \in {"absent", "created"} => h.run.results = 0
      /\ a.kind = "discard" /\ h.answer = "ok" => h.run.status = "ended"
  BY <1>1, HandledRequests
<1>4. /\ HandledAs(a, h) \in Requests
      /\ HandledAs(a, h).at = h.answer /\ HandledAs(a, h).results = h.run.results
      /\ HandledAs(a, h).run = a.run /\ HandledAs(a, h).kind = a.kind
      /\ HandledAs(a, h).scope = a.scope
  BY <1>1, <1>3 DEF HandledAs, Requests, Ats, RunRecords
<1>5. server'[a.run] = h.run
  BY <1>1, <1>2 DEF RequestTypes
<1>6. /\ view' = view
      /\ Monitor!IsCurrent(a) => disturbed' = disturbed
      /\ ~Monitor!IsCurrent(a) => Monitor!Unawaited(a.run)
  BY DEF Monitor!HandleAction
<1>7. disturbed' \in BOOLEAN /\ Accounted(a.run)
  <2>1. CASE Monitor!IsCurrent(a)
    <3>1. a.run = view.run /\ Awaited'
      BY <1>1, <1>2, <1>4, <1>6, <2>1 DEF Monitor!IsCurrent, Awaited
    <3> QED BY <1>1, <1>6, <2>1, <3>1 DEF Accounted
  <2>2. CASE ~Monitor!IsCurrent(a)
    BY <1>1, <1>6, <2>2, UnawaitedCommands
  <2> QED BY <2>1, <2>2
<1>8. server[a.run].status # "absent"
  BY <1>1 DEF MonitorInvariant, ActionsAreTrue, ReadsTruly
<1>9. h.run.status # "absent"
  BY <1>3, <1>8 DEF Evolves
<1>10. ServerStep
  BY <1>1, <1>2, <1>3, <1>7, <1>9, OneRunGoesOn
<1> QED BY <1>2, <1>3, <1>4, <1>5, <1>10

LEMMA LateRequestsAreHandled ==
  ASSUME MonitorInvariant, NEW l \in late, Monitor!HandleLate(l)
  PROVE  ServerStep
<1>1. /\ RequestTypes /\ RunsAreSound /\ disturbed \in BOOLEAN
      /\ l.run \in Runs /\ l.kind \in Commands
  BY DEF MonitorInvariant, RequestTypes
<1>2. PICK h \in Monitor!Handled(l.kind, l.run) : server' = [server EXCEPT ![l.run] = h.run]
  BY DEF Monitor!HandleLate
<1>3. /\ h.run \in RunRecords
      /\ Evolves(server[l.run], h.run)
      /\ server[l.run].active => h.run.active
      /\ server[l.run].status = "absent" => h.run = server[l.run]
      /\ h.run.status \in {"absent", "created"} => h.run.results = 0
  BY <1>1, HandledRequests
<1>4. disturbed' \in BOOLEAN /\ Accounted(l.run)
  BY <1>1, UnawaitedCommands DEF Monitor!HandleLate
<1>5. h.run.status = "absent" => ~h.run.active
  BY <1>1, <1>3 DEF Evolves, RunsAreSound
<1> QED BY <1>1, <1>2, <1>3, <1>4, <1>5, OneRunGoesOn

LEMMA RunsAreCreated ==
  ASSUME MonitorInvariant, NEW r \in Runs, Monitor!CreateRun(r)
  PROVE  ServerStep /\ IsIdle(server'[r])
<1>1. /\ server \in [Runs -> RunRecords] /\ disturbed \in BOOLEAN
      /\ server[r].status = "absent" /\ server[r].results = 0 /\ ~server[r].active
  BY DEF MonitorInvariant, RequestTypes, RunsAreSound, Monitor!CreateRun
<1> DEFINE new == [server[r] EXCEPT !.status = "created"]
<1>2. /\ new \in RunRecords
      /\ new.status = "created" /\ new.active = server[r].active /\ new.results = server[r].results
  BY <1>1 DEF RunRecords, Statuses
<1>3. server' = [server EXCEPT ![r] = new] /\ disturbed' = FALSE
  BY DEF Monitor!CreateRun
<1> HIDE DEF new
<1>4. Evolves(server[r], new) /\ ~IsIdle(server[r]) /\ IsIdle(new)
  BY <1>1, <1>2 DEF Evolves, IsIdle
<1>5. ServerStep
  BY <1>1, <1>2, <1>3, <1>4, OneRunGoesOn
<1> QED BY <1>1, <1>3, <1>4, <1>5

LEMMA ServerSteps ==
  ASSUME MonitorInvariant, Monitor!Next
  PROVE  ServerStep
<1> USE DEF ServerStep
<1>0. disturbed \in BOOLEAN
  BY DEF MonitorInvariant, RequestTypes
<1>1. ASSUME NEW r \in Runs, Monitor!RunGoesOn(r) \/ Monitor!CreateRun(r) PROVE ServerStep
  BY <1>1, RunsGoOn, RunsAreCreated
<1>2. ASSUME NEW kind \in {"start", "discard", "stop", "detach"}, Monitor!Click(kind) PROVE ServerStep
  BY <1>0, <1>2, ServerRests DEF Monitor!Click
<1>3. ASSUME NEW a \in actions, Monitor!HandleAction(a) PROVE ServerStep
  BY <1>3, ActionsAreHandled
<1>4. ASSUME NEW a \in actions,
             \/ Monitor!Ignored(a) \/ Monitor!Accepted(a) \/ Monitor!Ambiguous(a)
             \/ Monitor!Refused(a) \/ Monitor!Failed(a) \/ Monitor!ReadAfterRefusal(a)
      PROVE  ServerStep
  <2>1. UNCHANGED server /\ disturbed' \in {disturbed, FALSE}
    BY <1>4 DEF Monitor!Ignored, Monitor!Accepted, Monitor!Ambiguous, Monitor!Refused, Monitor!Failed, Monitor!ReadAfterRefusal, Monitor!Settle
  <2> QED BY <1>0, <2>1, ServerRests
<1>5. ASSUME NEW l \in late, Monitor!HandleLate(l) PROVE ServerStep
  BY <1>5, LateRequestsAreHandled
<1>6. CASE Monitor!Read \/ Monitor!Lose \/ Monitor!EndListing \/ Monitor!RefreshResults \/ Monitor!Render \/ Monitor!Revalidate
  BY <1>0, <1>6, ServerRests DEF Monitor!Read, Monitor!Lose, Monitor!EndListing, Monitor!RefreshResults, Monitor!Render, Monitor!Revalidate
<1>7. CASE Monitor!Polled \/ Monitor!PollFails
  <2>1. UNCHANGED server /\ disturbed' \in BOOLEAN
    BY <1>0, <1>7 DEF Monitor!Polled, Monitor!PollFails
  <2> QED BY <2>1, ServerRests
<1>8. CASE Monitor!LeaveRun
  BY <1>0, <1>8, ServerRests DEF Monitor!LeaveRun, Monitor!Enter
<1>9. CASE Monitor!Hydrate
  <2>1. UNCHANGED server /\ disturbed' \in BOOLEAN
    BY <1>9 DEF Monitor!Hydrate, Monitor!Enter
  <2> QED BY <2>1, ServerRests
<1> HIDE DEF ServerStep
<1> QED BY <1>1, <1>2, <1>3, <1>4, <1>5, <1>6, <1>7, <1>8, <1>9 DEF Monitor!Next

(* A reading that nobody touches is as true as it was. *)
LEMMA ReadingsAreKept ==
  ASSUME MonitorInvariant, ServerStep, NEW q \in Requests, ReadsTruly(q, server)
  PROVE  ReadsTruly(q, server')
<1>1. \A r \in Runs : server[r].results \in Nat /\ server'[r].results \in Nat
  BY DEF MonitorInvariant, RequestTypes, ServerStep, RunRecords
<1> QED BY <1>1, ReadingsStayTrue DEF ServerStep

-----------------------------------------------------------------------------
(* The polling effect. *)

\* What may become of the effect.
LoopMoves ==
  \/ UNCHANGED <<loop, view>>
  \/ /\ loop.at \in Monitor!ReadSteps /\ loop' = Monitor!Advance(loop)
     /\ UNCHANGED <<view, server>>
  \/ /\ loop.at # "off" /\ view' = view
     /\ \E at \in {"lost", "ended"} : loop' = [loop EXCEPT !.at = at]
  \/ /\ loop' = Monitor!Asking(view'.run) /\ view'.run \in Runs
     /\ server'[view'.run].status # "absent"
  \/ loop' = Monitor!Off

LEMMA RunInView ==
  ASSUME MonitorInvariant
  PROVE  /\ view.run # None => view.run \in Runs /\ server[view.run].status # "absent"
         /\ loop.at # "off" => view.run # None
         /\ listing.at # "idle" => view.run # None
         /\ polling => view.run # None
         /\ polling \in BOOLEAN
<1>1. loop.at # "off" => view.run # None
  BY NoRunIsNone DEF MonitorInvariant, LoopIsTrue, ReadsTruly
<1> QED BY <1>1, NoRunIsNone DEF MonitorInvariant, RequestTypes, ViewIsTrue

LEMMA LoopsMove ==
  ASSUME MonitorInvariant, Monitor!Next
  PROVE  LoopMoves
<1> USE DEF LoopMoves
<1>0. ServerStep
  BY ServerSteps
<1>1. view.run # None =>
        view.run \in Runs /\ server[view.run].status # "absent" /\ server'[view.run].status # "absent"
  BY <1>0, RunInView DEF ServerStep, Evolves
<1>2. ASSUME NEW r \in Runs, Monitor!RunGoesOn(r) PROVE LoopMoves
  BY <1>2 DEF Monitor!RunGoesOn
<1>3. ASSUME NEW r \in Runs, Monitor!CreateRun(r) PROVE LoopMoves
  <2>1. view'.run = r
    BY <1>3 DEF Monitor!CreateRun
  <2>2. server'[r].status # "absent"
    BY <1>3, RunsAreCreated DEF IsIdle
  <2> QED BY <1>3, <2>1, <2>2 DEF Monitor!CreateRun
<1>4. ASSUME NEW kind \in {"start", "discard", "stop", "detach"}, Monitor!Click(kind) PROVE LoopMoves
  BY <1>4 DEF Monitor!Click
<1>5. ASSUME NEW a \in actions,
             \/ Monitor!HandleAction(a) \/ Monitor!Ignored(a) \/ Monitor!Accepted(a) \/ Monitor!Ambiguous(a)
             \/ Monitor!Refused(a) \/ Monitor!Failed(a) \/ Monitor!ReadAfterRefusal(a)
      PROVE  LoopMoves
  BY <1>5 DEF Monitor!HandleAction, Monitor!Ignored, Monitor!Accepted, Monitor!Ambiguous, Monitor!Refused, Monitor!Failed, Monitor!ReadAfterRefusal, Monitor!Settle
<1>6. ASSUME NEW l \in late, Monitor!HandleLate(l) PROVE LoopMoves
  BY <1>6 DEF Monitor!HandleLate
<1>7. CASE Monitor!Read
  BY <1>7 DEF Monitor!Read
<1>8. CASE Monitor!Lose
  BY <1>8 DEF Monitor!Lose, Monitor!ReadSteps
<1>9. CASE Monitor!EndListing \/ Monitor!RefreshResults \/ Monitor!Revalidate
  BY <1>9 DEF Monitor!EndListing, Monitor!RefreshResults, Monitor!Revalidate
<1>10. CASE Monitor!Render
  BY <1>1, <1>10, RunInView DEF Monitor!Render
<1>11. CASE Monitor!Polled \/ Monitor!PollFails
  <2>1. view' = view /\ loop.at \in {"answered", "lost"}
    BY <1>11 DEF Monitor!Polled, Monitor!PollFails
  <2>2. loop' = [loop EXCEPT !.at = "ended"] \/ loop' = Monitor!Asking(view.run)
    BY <1>11 DEF Monitor!Polled, Monitor!PollFails
  <2> QED BY <1>1, <2>1, <2>2, RunInView
<1>12. CASE Monitor!LeaveRun
  BY <1>12 DEF Monitor!LeaveRun, Monitor!Enter
<1>13. CASE Monitor!Hydrate
  <2>1. CASE hydration.run # view.run
    <3>1. Monitor!Enter(hydration.run, Monitor!Response(hydration))
      BY <1>13, <2>1 DEF Monitor!Hydrate
    <3>2. hydration.run \in Runs /\ server[hydration.run].status # "absent"
      BY <1>13 DEF Monitor!Hydrate, MonitorInvariant, HydrationReads, ReadsTruly
    <3>3. view'.run = hydration.run /\ (loop' = Monitor!Asking(hydration.run) \/ loop' = Monitor!Off) /\ server' = server
      BY <3>1 DEF Monitor!Enter
    <3> QED BY <3>2, <3>3
  <2>2. CASE hydration.run = view.run
    BY <1>13, <2>2 DEF Monitor!Hydrate
  <2> QED BY <2>1, <2>2
<1> HIDE DEF LoopMoves
<1> QED BY <1>2, <1>3, <1>4, <1>5, <1>6, <1>7, <1>8, <1>9, <1>10, <1>11, <1>12, <1>13 DEF Monitor!Next

LoopAts == {"off", "ended", "answered", "lost"} \union Monitor!ReadSteps

LEMMA LoopStaysTrue ==
  ASSUME MonitorInvariant, Monitor!Next
  PROVE  loop' \in Requests /\ loop'.at \in LoopAts /\ LoopIsTrue'
<1>1. ServerStep /\ LoopMoves
  BY ServerSteps, LoopsMove
<1>2. /\ RequestTypes /\ loop \in Requests /\ loop.at \in LoopAts
      /\ ReadsTruly(loop, server)
      /\ loop.at # "off" => loop.run = view.run
  BY DEF MonitorInvariant, RequestTypes, LoopIsTrue, LoopAts
<1>3. CASE UNCHANGED <<loop, view>>
  <2>1. ReadsTruly(loop, server')
    BY <1>1, <1>2, ReadingsAreKept
  <2> QED BY <1>2, <1>3, <2>1 DEF LoopIsTrue
<1>4. CASE loop.at \in Monitor!ReadSteps /\ loop' = Monitor!Advance(loop) /\ UNCHANGED <<view, server>>
  <2>1. /\ Monitor!Advance(loop) \in Requests
        /\ Monitor!Advance(loop).at \in {"state", "again", "answered"}
        /\ Monitor!Advance(loop).run = loop.run
        /\ ReadsTruly(Monitor!Advance(loop), server)
    BY <1>2, <1>4, AdvancingReadings
  <2>2. loop.run = view.run
    BY <1>2, <1>4 DEF Monitor!ReadSteps
  <2> QED BY <1>4, <2>1, <2>2 DEF LoopIsTrue, LoopAts, Monitor!ReadSteps
<1>5. ASSUME loop.at # "off", view' = view, NEW at \in {"lost", "ended"},
             loop' = [loop EXCEPT !.at = at]
      PROVE  loop' \in Requests /\ loop'.at \in LoopAts /\ LoopIsTrue'
  <2>1. ReadsTruly(loop, server')
    BY <1>1, <1>2, ReadingsAreKept
  <2>2. at \in Ats /\ at \notin {"state", "again", "answered"}
    BY DEF Ats
  <2>3. loop' \in Requests /\ ReadsTruly(loop', server')
    BY <1>2, <1>5, <2>1, <2>2, EndedReadings
  <2>4. loop'.at = at /\ loop'.run = loop.run
    BY <1>2, <1>5 DEF Requests
  <2> QED BY <1>2, <1>5, <2>3, <2>4 DEF LoopIsTrue, LoopAts
<1>6. CASE loop' = Monitor!Asking(view'.run) /\ view'.run \in Runs /\ server'[view'.run].status # "absent"
  <2>1. ReadsTruly(Monitor!Asking(view'.run), server')
    BY <1>6, AskingIsTrue
  <2>2. Monitor!Asking(view'.run) \in Requests /\ Monitor!Asking(view'.run).at = "sample" /\ Monitor!Asking(view'.run).run = view'.run
    BY <1>6, NewRequests
  <2> QED BY <1>6, <2>1, <2>2 DEF LoopIsTrue, LoopAts, Monitor!ReadSteps
<1>7. CASE loop' = Monitor!Off
  BY <1>7, NewRequests DEF LoopIsTrue, LoopAts, ReadsTruly
<1> QED BY <1>1, <1>3, <1>4, <1>5, <1>6, <1>7 DEF LoopMoves

-----------------------------------------------------------------------------
(* The commands of the user. *)

(* The lifetime in view stays, or is another one, that no command is of. *)
LEMMA ViewsMove ==
  ASSUME MonitorInvariant, Monitor!Next
  PROVE  /\ view' \in [run : Runs \union {None}, scope : Nat]
         /\ \/ view' = view
            \/ view'.scope = view.scope + 1 /\ UNCHANGED actions
<1>0. view \in [run : Runs \union {None}, scope : Nat]
  BY DEF MonitorInvariant, RequestTypes
<1>1. ASSUME NEW r \in Runs, Monitor!CreateRun(r)
      PROVE  /\ view' \in [run : Runs \union {None}, scope : Nat]
             /\ view'.scope = view.scope + 1 /\ UNCHANGED actions
  BY <1>0, <1>1 DEF Monitor!CreateRun
<1>2. ASSUME NEW r \in Runs \union {None}, NEW seed, Monitor!Enter(r, seed)
      PROVE  /\ view' \in [run : Runs \union {None}, scope : Nat]
             /\ view'.scope = view.scope + 1 /\ UNCHANGED actions
  BY <1>0, <1>2 DEF Monitor!Enter
<1>3. CASE Monitor!LeaveRun
  BY <1>2, <1>3 DEF Monitor!LeaveRun
<1>4. CASE Monitor!Hydrate
  <2>1. hydration.run \in Runs
    BY <1>4 DEF Monitor!Hydrate, MonitorInvariant, HydrationReads, ReadsTruly
  <2>2. view' = view \/ Monitor!Enter(hydration.run, Monitor!Response(hydration))
    BY <1>4 DEF Monitor!Hydrate
  <2> QED BY <1>0, <1>2, <2>1, <2>2
<1>5. ASSUME NEW a \in actions,
             \/ Monitor!HandleAction(a) \/ Monitor!Ignored(a) \/ Monitor!Accepted(a) \/ Monitor!Ambiguous(a)
             \/ Monitor!Refused(a) \/ Monitor!Failed(a) \/ Monitor!ReadAfterRefusal(a)
      PROVE  view' = view
  BY <1>5 DEF Monitor!HandleAction, Monitor!Ignored, Monitor!Accepted, Monitor!Ambiguous, Monitor!Refused, Monitor!Failed, Monitor!ReadAfterRefusal, Monitor!Settle
<1>6. ASSUME \/ \E r \in Runs : Monitor!RunGoesOn(r)
             \/ \E kind \in {"start", "discard", "stop", "detach"} : Monitor!Click(kind)
             \/ \E l \in late : Monitor!HandleLate(l)
             \/ Monitor!Read \/ Monitor!Lose \/ Monitor!EndListing \/ Monitor!RefreshResults \/ Monitor!Render \/ Monitor!Polled \/ Monitor!PollFails
             \/ Monitor!Revalidate
      PROVE  view' = view
  BY <1>6 DEF Monitor!RunGoesOn, Monitor!Click, Monitor!HandleLate, Monitor!Read, Monitor!Lose, Monitor!EndListing, Monitor!RefreshResults, Monitor!Render, Monitor!Polled,
     Monitor!PollFails, Monitor!Revalidate
<1> QED BY <1>0, <1>1, <1>3, <1>4, <1>5, <1>6 DEF Monitor!Next

ActionFits(b) == b \in Requests /\ ReadsTruly(b, server') /\ ActsTruly(b, server', view')

(* A command that nobody touches is as true as it was. *)
LEMMA ActionsAreKept ==
  ASSUME MonitorInvariant, Monitor!Next, NEW a \in actions
  PROVE  ActionFits(a)
<1>1. ServerStep /\ (view' = view \/ view'.scope = view.scope + 1)
  BY ServerSteps, ViewsMove
<1>2. /\ a \in Requests /\ a.scope \in Nat /\ view.scope \in Nat
      /\ ReadsTruly(a, server) /\ ActsTruly(a, server, view)
  BY DEF MonitorInvariant, RequestTypes, ActionsAreTrue, Requests
<1>3. ReadsTruly(a, server')
  BY <1>1, <1>2, ReadingsAreKept
<1>4. a.run \in Runs
  BY <1>2 DEF ReadsTruly, ActsTruly
<1>5. Evolves(server[a.run], server'[a.run])
  BY <1>1, <1>4 DEF ServerStep
<1>6. ActsTruly(a, server', view')
  BY <1>1, <1>2, <1>5 DEF ActsTruly, Evolves
<1> QED BY <1>2, <1>3, <1>6 DEF ActionFits

\* What may become of the commands.
ActionsMove ==
  \/ UNCHANGED actions
  \/ \E a \in actions :
       \/ actions' = actions \ {a}
       \/ \E b : /\ actions' = (actions \ {a}) \union {b}
                 /\ ActionFits(b) /\ b.scope = a.scope /\ view' = view
  \/ \E b : actions' = actions \union {b} /\ ActionFits(b) /\ view' = view

(* A command that is replaced: all of it but where it is going is the same. *)
LEMMA ReplacedActions ==
  ASSUME MonitorInvariant, Monitor!Next, view' = view, NEW a \in actions, NEW b \in Requests,
         b.scope = a.scope, b.run = a.run, b.kind = a.kind,
         ReadsTruly(b, server'),
         b.at \in {"state", "again", "answered", "unread"}
  PROVE  ActionFits(b)
<1>1. ActsTruly(a, server', view')
  BY ActionsAreKept DEF ActionFits
<1>2. ActsTruly(b, server', view')
  BY <1>1 DEF ActsTruly
<1> QED BY <1>2 DEF ActionFits

LEMMA HandledActionsFit ==
  ASSUME MonitorInvariant, Monitor!Next, NEW a \in actions, Monitor!HandleAction(a)
  PROVE  ActionsMove
<1>1. PICK h \in Monitor!Handled(a.kind, a.run) :
        /\ HandledAs(a, h) \in Requests
        /\ actions' = (actions \ {a}) \union {HandledAs(a, h)}
        /\ HandledAs(a, h).at \in {"ok", "ineligible", "failed"}
        /\ HandledAs(a, h).run = a.run /\ HandledAs(a, h).kind = a.kind
        /\ HandledAs(a, h).scope = a.scope
        /\ a.kind = "discard" /\ HandledAs(a, h).at = "ok" =>
             server'[a.run].status = "ended" /\ server'[a.run].results = HandledAs(a, h).results
  BY ActionsAreHandled
<1> DEFINE b == HandledAs(a, h)
<1>2. ActionFits(a)
  BY ActionsAreKept
<1>3. view' = view /\ a.at = "sent"
  BY DEF Monitor!HandleAction
<1>4. ReadsTruly(b, server')
  BY <1>1, <1>2, <1>3 DEF ActionFits, ReadsTruly
<1>5. ActsTruly(b, server', view')
  BY <1>1, <1>2, <1>3 DEF ActionFits, ActsTruly
<1>6. ActionFits(b)
  BY <1>1, <1>4, <1>5 DEF ActionFits
<1> QED BY <1>1, <1>3, <1>6 DEF ActionsMove

LEMMA ReadActionsFit ==
  ASSUME MonitorInvariant, Monitor!Next, Monitor!Read
  PROVE  ActionsMove
<1>1. UNCHANGED actions \/ \E a \in actions : a.at \in Monitor!ReadSteps /\ actions' = (actions \ {a}) \union {Monitor!Advance(a)}
  BY DEF Monitor!Read
<1>2. ASSUME NEW a \in actions, a.at \in Monitor!ReadSteps, actions' = (actions \ {a}) \union {Monitor!Advance(a)}
      PROVE  ActionsMove
  <2>1. RequestTypes /\ a \in Requests /\ ReadsTruly(a, server)
    BY DEF MonitorInvariant, RequestTypes, ActionsAreTrue
  <2>2. /\ Monitor!Advance(a) \in Requests
        /\ Monitor!Advance(a).at \in {"state", "again", "answered"}
        /\ Monitor!Advance(a).run = a.run /\ Monitor!Advance(a).kind = a.kind /\ Monitor!Advance(a).scope = a.scope
        /\ ReadsTruly(Monitor!Advance(a), server)
    BY <1>2, <2>1, AdvancingReadings
  <2>3. UNCHANGED <<server, disturbed, view>>
    BY DEF Monitor!Read
  <2>4. ActionFits(Monitor!Advance(a))
    BY <2>2, <2>3, ReplacedActions
  <2> QED BY <1>2, <2>2, <2>3, <2>4 DEF ActionsMove
<1> QED BY <1>1, <1>2 DEF ActionsMove

LEMMA LostActionsFit ==
  ASSUME MonitorInvariant, Monitor!Next, Monitor!Lose
  PROVE  ActionsMove /\ late' \subseteq [kind : Commands, run : Runs]
<1>0. UNCHANGED <<server, disturbed, view>> /\ late \subseteq [kind : Commands, run : Runs]
  BY DEF Monitor!Lose, MonitorInvariant, RequestTypes
<1>1. \/ UNCHANGED <<actions, late>>
      \/ \E a \in actions :
           /\ a.at \in {"sent", "ok", "ineligible", "failed"} \union Monitor!ReadSteps
           /\ actions' = (actions \ {a}) \union
                           {[a EXCEPT !.at = IF a.at \in Monitor!ReadSteps THEN "unread" ELSE "lost"]}
           /\ late' = IF a.at = "sent" THEN late \union {[kind |-> a.kind, run |-> a.run]} ELSE late
  BY DEF Monitor!Lose
<1>2. ASSUME NEW a \in actions,
             a.at \in {"sent", "ok", "ineligible", "failed"} \union Monitor!ReadSteps,
             actions' = (actions \ {a}) \union
                           {[a EXCEPT !.at = IF a.at \in Monitor!ReadSteps THEN "unread" ELSE "lost"]},
             late' = IF a.at = "sent" THEN late \union {[kind |-> a.kind, run |-> a.run]} ELSE late
      PROVE  ActionsMove /\ late' \subseteq [kind : Commands, run : Runs]
  <2> DEFINE at == IF a.at \in Monitor!ReadSteps THEN "unread" ELSE "lost"
             b == [a EXCEPT !.at = at]
  <2>1. /\ a \in Requests /\ ReadsTruly(a, server) /\ ActsTruly(a, server, view)
        /\ ActionFits(a)
    BY ActionsAreKept DEF MonitorInvariant, RequestTypes, ActionsAreTrue
  <2>2. at \in Ats /\ at \notin {"state", "again", "answered"} /\ a.at # "off"
    BY <1>2 DEF Ats, Monitor!ReadSteps
  <2>3. b \in Requests /\ ReadsTruly(b, server)
    BY <2>1, <2>2, EndedReadings
  <2>4. b.at = at /\ b.run = a.run /\ b.kind = a.kind /\ b.scope = a.scope
    BY <2>1 DEF Requests
  <2>5. a.kind = "discarding" => a.at \in Monitor!ReadSteps
    BY <1>2, <2>1 DEF ActsTruly
  <2>6. ActsTruly(b, server', view')
    BY <2>1, <2>4, <2>5 DEF ActionFits, ActsTruly
  <2>7. ActionFits(b)
    BY <1>0, <2>3, <2>6 DEF ActionFits
  <2>8. ActionsMove
    BY <1>0, <1>2, <2>4, <2>7 DEF ActionsMove
  <2>9. a.at = "sent" => a.kind \in Commands /\ a.run \in Runs
    BY <2>1 DEF ActsTruly, ReadsTruly, Requests
  <2> QED BY <1>0, <1>2, <2>8, <2>9
<1> QED BY <1>0, <1>1, <1>2 DEF ActionsMove

LEMMA ClickedActionsFit ==
  ASSUME MonitorInvariant, Monitor!Next, NEW kind \in {"start", "discard", "stop", "detach"}, Monitor!Click(kind)
  PROVE  ActionsMove /\ Awaited'
<1> DEFINE b == [Monitor!Asking(view.run) EXCEPT !.at = "sent", !.kind = kind, !.scope = view.scope]
<1>1. /\ view.run \in Runs /\ server[view.run].status # "absent" /\ view.scope \in Nat
      /\ UNCHANGED <<server, disturbed, view>>
      /\ actions' = actions \union {b}
  BY RunInView DEF Monitor!Click, Monitor!MayClick, MonitorInvariant, RequestTypes
<1>2. Monitor!Asking(view.run) \in Requests /\ Monitor!Asking(view.run).run = view.run
  BY <1>1, NewRequests
<1>3. /\ b \in Requests /\ b.at = "sent" /\ b.kind = kind /\ b.scope = view.scope
      /\ b.run = view.run
  BY <1>1, <1>2 DEF Requests, Ats, Commands
<1> HIDE DEF b
<1>4. ReadsTruly(b, server')
  BY <1>1, <1>3 DEF ReadsTruly
<1>5. ActsTruly(b, server', view')
  BY <1>1, <1>3 DEF ActsTruly
<1>6. ActionFits(b)
  BY <1>3, <1>4, <1>5 DEF ActionFits
<1>7. b \in actions' /\ b.scope = view'.scope
  BY <1>1, <1>3
<1> QED BY <1>1, <1>6, <1>7 DEF ActionsMove, Awaited, Monitor!IsCurrent

LEMMA RefusedActionsFit ==
  ASSUME MonitorInvariant, Monitor!Next, NEW a \in actions, Monitor!Refused(a)
  PROVE  ActionsMove
<1> DEFINE b == [a EXCEPT !.at = "sample", !.kind = IF a.at = "ineligible" THEN @ ELSE "discarding"]
<1>1. /\ a \in Requests /\ ReadsTruly(a, server) /\ ActsTruly(a, server, view)
      /\ ActionFits(a)
  BY ActionsAreKept DEF MonitorInvariant, RequestTypes, ActionsAreTrue
<1>2. /\ b \in Requests /\ b.at = "sample" /\ b.kind # "none"
      /\ b.run = a.run /\ b.scope = a.scope
  BY <1>1 DEF Requests, Ats, Monitor!ReadSteps, ActsTruly
<1>3. UNCHANGED <<server, disturbed, view>> /\ actions' = (actions \ {a}) \union {b}
  BY DEF Monitor!Refused
<1> HIDE DEF b
<1>4. ReadsTruly(b, server')
  BY <1>1, <1>2, <1>3 DEF ReadsTruly, ActsTruly
<1>5. ActsTruly(b, server', view')
  BY <1>1, <1>2, <1>3 DEF ActsTruly
<1>6. ActionFits(b)
  BY <1>2, <1>4, <1>5 DEF ActionFits
<1> QED BY <1>2, <1>3, <1>6 DEF ActionsMove

LEMMA ActionsMoveOn ==
  ASSUME MonitorInvariant, Monitor!Next
  PROVE  ActionsMove
<1>1. ASSUME NEW r \in Runs, Monitor!RunGoesOn(r) \/ Monitor!CreateRun(r) PROVE ActionsMove
  BY <1>1 DEF Monitor!RunGoesOn, Monitor!CreateRun, ActionsMove
<1>2. ASSUME NEW kind \in {"start", "discard", "stop", "detach"}, Monitor!Click(kind) PROVE ActionsMove
  BY <1>2, ClickedActionsFit
<1>3. ASSUME NEW a \in actions, Monitor!Ignored(a) \/ Monitor!Accepted(a) \/ Monitor!Ambiguous(a) \/ Monitor!Failed(a) \/ Monitor!ReadAfterRefusal(a)
      PROVE  ActionsMove
  <2>1. actions' = actions \ {a}
    BY <1>3 DEF Monitor!Ignored, Monitor!Accepted, Monitor!Ambiguous, Monitor!Failed, Monitor!ReadAfterRefusal, Monitor!Settle
  <2> QED BY <2>1 DEF ActionsMove
<1>4. ASSUME NEW a \in actions, Monitor!HandleAction(a) \/ Monitor!Refused(a) PROVE ActionsMove
  BY <1>4, HandledActionsFit, RefusedActionsFit
<1>5. CASE Monitor!Read \/ Monitor!Lose
  BY <1>5, ReadActionsFit, LostActionsFit
<1>6. ASSUME \/ \E l \in late : Monitor!HandleLate(l)
             \/ Monitor!EndListing \/ Monitor!RefreshResults \/ Monitor!Render \/ Monitor!Polled \/ Monitor!PollFails \/ Monitor!Revalidate
             \/ Monitor!LeaveRun
      PROVE  ActionsMove
  <2>1. UNCHANGED actions
    BY <1>6 DEF Monitor!HandleLate, Monitor!EndListing, Monitor!RefreshResults, Monitor!Render, Monitor!Polled, Monitor!PollFails, Monitor!Revalidate,
       Monitor!LeaveRun, Monitor!Enter
  <2> QED BY <2>1 DEF ActionsMove
<1>7. CASE Monitor!Hydrate
  <2>1. UNCHANGED actions
    BY <1>7 DEF Monitor!Hydrate, Monitor!Enter
  <2> QED BY <2>1 DEF ActionsMove
<1> QED BY <1>1, <1>2, <1>3, <1>4, <1>5, <1>6, <1>7 DEF Monitor!Next

LEMMA ActionsStayTrue ==
  ASSUME MonitorInvariant, Monitor!Next
  PROVE  actions' \subseteq Requests /\ ActionsAreTrue'
<1>1. ActionsMove /\ \A a \in actions : ActionFits(a)
  BY ActionsMoveOn, ActionsAreKept
<1>2. \A b \in actions' : ActionFits(b)
  BY <1>1 DEF ActionsMove
<1> QED BY <1>2 DEF ActionFits, ActionsAreTrue

-----------------------------------------------------------------------------
(* The readings of App.tsx. *)

\* What may become of the reading.
HydrationMoves ==
  \/ UNCHANGED <<hydration, view>> /\ (Awaited => Awaited')
  \/ /\ hydration.at \in Monitor!ReadSteps /\ hydration' = Monitor!Advance(hydration)
     /\ UNCHANGED <<server, view, actions>>
  \/ /\ \E c \in BOOLEAN : hydration' = [hydration EXCEPT !.crossed = c]
     /\ hydration.at # "off" /\ (hydration.crossed \/ ~(Awaited => Awaited')) => hydration'.crossed
     /\ view' = view
  \/ hydration' = Monitor!Off
  \/ \E r \in Runs : hydration' = Monitor!Asking(r) /\ server'[r].status # "absent"

(* Nothing but the answer to a command, or another lifetime, ends the waiting. *)
LEMMA AwaitedStays ==
  ASSUME view' = view,
         \/ UNCHANGED actions
         \/ \E b : actions' = actions \union {b}
         \/ \E a \in actions : ~Monitor!IsCurrent(a) /\ actions' = actions \ {a}
         \/ \E a \in actions : \E b : b.scope = a.scope /\ actions' = (actions \ {a}) \union {b}
  PROVE  Awaited => Awaited'
<1> SUFFICES ASSUME NEW c \in actions, Monitor!IsCurrent(c) PROVE Awaited'
  BY DEF Awaited
<1>1. \E d \in actions' : d.scope = c.scope
  BY DEF Monitor!IsCurrent
<1> QED BY <1>1 DEF Awaited, Monitor!IsCurrent

LEMMA WaitingGoesOn ==
  ASSUME MonitorInvariant, Monitor!Next,
         \/ \E r \in Runs : Monitor!RunGoesOn(r)
         \/ \E kind \in {"start", "discard", "stop", "detach"} : Monitor!Click(kind)
         \/ \E a \in actions : Monitor!HandleAction(a) \/ Monitor!Ignored(a) \/ Monitor!Refused(a)
         \/ \E l \in late : Monitor!HandleLate(l)
         \/ Monitor!Read \/ Monitor!Lose \/ Monitor!EndListing \/ Monitor!RefreshResults \/ Monitor!Render \/ Monitor!Polled \/ Monitor!PollFails
         \/ Monitor!Revalidate
  PROVE  view' = view /\ (Awaited => Awaited')
<1> DEFINE Goal == view' = view /\ (Awaited => Awaited')
<1>0. actions \subseteq Requests
  BY DEF MonitorInvariant, RequestTypes
<1>1. ASSUME \/ \E r \in Runs : Monitor!RunGoesOn(r)
             \/ \E l \in late : Monitor!HandleLate(l)
             \/ Monitor!EndListing \/ Monitor!RefreshResults \/ Monitor!Render \/ Monitor!Polled \/ Monitor!PollFails \/ Monitor!Revalidate
      PROVE  Goal
  <2>1. UNCHANGED <<view, actions>>
    BY <1>1 DEF Monitor!RunGoesOn, Monitor!HandleLate, Monitor!EndListing, Monitor!RefreshResults, Monitor!Render, Monitor!Polled, Monitor!PollFails,
       Monitor!Revalidate
  <2> QED BY <2>1, AwaitedStays
<1>2. ASSUME NEW kind \in {"start", "discard", "stop", "detach"}, Monitor!Click(kind) PROVE Goal
  BY <1>2, ClickedActionsFit DEF Monitor!Click
<1>3. ASSUME NEW a \in actions, Monitor!HandleAction(a) PROVE Goal
  <2>1. view' = view
    BY <1>3 DEF Monitor!HandleAction
  <2>2. \E b : b.scope = a.scope /\ actions' = (actions \ {a}) \union {b}
    BY <1>3, ActionsAreHandled
  <2> QED BY <2>1, <2>2, AwaitedStays
<1>4. ASSUME NEW a \in actions, Monitor!Ignored(a) PROVE Goal
  BY <1>4, AwaitedStays DEF Monitor!Ignored
<1>5. ASSUME NEW a \in actions, Monitor!Refused(a) PROVE Goal
  <2> DEFINE b == [a EXCEPT !.at = "sample", !.kind = IF a.at = "ineligible" THEN @ ELSE "discarding"]
  <2>1. view' = view /\ actions' = (actions \ {a}) \union {b}
    BY <1>5 DEF Monitor!Refused
  <2>2. b.scope = a.scope
    BY <1>0 DEF Requests
  <2> QED BY <2>1, <2>2, AwaitedStays
<1>6. CASE Monitor!Read
  <2>1. view' = view
    BY <1>6 DEF Monitor!Read
  <2>2. ASSUME NEW a \in actions, a.at \in Monitor!ReadSteps,
               actions' = (actions \ {a}) \union {Monitor!Advance(a)}
        PROVE  Goal
    <3>1. RequestTypes /\ a \in Requests /\ ReadsTruly(a, server)
      BY DEF MonitorInvariant, RequestTypes, ActionsAreTrue
    <3>2. Monitor!Advance(a).scope = a.scope
      BY <2>2, <3>1, AdvancingReadings
    <3> QED BY <2>1, <2>2, <3>2, AwaitedStays
  <2> QED BY <1>6, <2>1, <2>2, AwaitedStays DEF Monitor!Read
<1>7. CASE Monitor!Lose
  <2>1. view' = view
    BY <1>7 DEF Monitor!Lose
  <2>2. ASSUME NEW a \in actions,
               actions' = (actions \ {a}) \union
                            {[a EXCEPT !.at = IF a.at \in Monitor!ReadSteps THEN "unread" ELSE "lost"]}
        PROVE  Goal
    <3>1. [a EXCEPT !.at = IF a.at \in Monitor!ReadSteps THEN "unread" ELSE "lost"].scope = a.scope
      BY <1>0 DEF Requests
    <3> QED BY <2>1, <2>2, <3>1, AwaitedStays
  <2> QED BY <1>7, <2>1, <2>2, AwaitedStays DEF Monitor!Lose
<1> QED BY <1>1, <1>2, <1>3, <1>4, <1>5, <1>6, <1>7

LEMMA HydrationsMove ==
  ASSUME MonitorInvariant, Monitor!Next
  PROVE  HydrationMoves
<1> USE DEF HydrationMoves
<1>1. ASSUME NEW r \in Runs, Monitor!RunGoesOn(r) PROVE HydrationMoves
  BY <1>1, WaitingGoesOn DEF Monitor!RunGoesOn
<1>2. ASSUME NEW r \in Runs, Monitor!CreateRun(r) PROVE HydrationMoves
  BY <1>2 DEF Monitor!CreateRun
<1>3. ASSUME NEW kind \in {"start", "discard", "stop", "detach"}, Monitor!Click(kind) PROVE HydrationMoves
  BY <1>3, WaitingGoesOn DEF Monitor!Click
<1>4. ASSUME NEW a \in actions, Monitor!HandleAction(a) \/ Monitor!Ignored(a) \/ Monitor!Refused(a) PROVE HydrationMoves
  <2>1. view' = view /\ (Awaited => Awaited')
    BY <1>4, WaitingGoesOn
  <2>2. CASE hydration' = hydration
    BY <2>1, <2>2
  <2>3. CASE hydration' # hydration
    <3>1. Monitor!Unawaited(a.run) /\ a.at = "sent"
      BY <1>4, <2>3 DEF Monitor!HandleAction, Monitor!Ignored, Monitor!Refused
    <3>2. a.run \in Runs
      BY <3>1 DEF MonitorInvariant, ActionsAreTrue, ReadsTruly
    <3> QED BY <2>1, <3>1, <3>2, UnawaitedCommands
  <2> QED BY <2>2, <2>3
<1>5. ASSUME NEW a \in actions, Monitor!Accepted(a) \/ Monitor!Ambiguous(a) \/ Monitor!Failed(a) \/ Monitor!ReadAfterRefusal(a)
      PROVE  HydrationMoves
  <2>1. Monitor!Settle(a)
    BY <1>5 DEF Monitor!Accepted, Monitor!Ambiguous, Monitor!Failed, Monitor!ReadAfterRefusal
  <2> DEFINE c == hydration.at # "off"
  <2>2. view' = view /\ hydration' = [hydration EXCEPT !.crossed = c] /\ c \in BOOLEAN
    BY <2>1 DEF Monitor!Settle
  <2>3. hydration'.crossed = c
    BY <2>2 DEF MonitorInvariant, RequestTypes, Requests
  <2> HIDE DEF c
  <2>4. hydration.at # "off" => hydration'.crossed
    BY <2>3 DEF c
  <2> QED BY <2>2, <2>4
<1>6. ASSUME NEW l \in late, Monitor!HandleLate(l) PROVE HydrationMoves
  <2>1. view' = view /\ (Awaited => Awaited')
    BY <1>6, WaitingGoesOn
  <2>2. Monitor!Unawaited(l.run) /\ l.run \in Runs
    BY <1>6 DEF Monitor!HandleLate, MonitorInvariant, RequestTypes
  <2> QED BY <2>1, <2>2, UnawaitedCommands
<1>7. CASE Monitor!EndListing \/ Monitor!RefreshResults \/ Monitor!Render \/ Monitor!Polled \/ Monitor!PollFails \/ Monitor!Lose
  <2>1. hydration' = hydration
    BY <1>7 DEF Monitor!EndListing, Monitor!RefreshResults, Monitor!Render, Monitor!Polled, Monitor!PollFails, Monitor!Lose
  <2> QED BY <1>7, <2>1, WaitingGoesOn
<1>8. CASE Monitor!Read
  <2>1. UNCHANGED <<server, view>>
    BY <1>8 DEF Monitor!Read
  <2>2. \/ hydration.at \in Monitor!ReadSteps /\ hydration' = Monitor!Advance(hydration) /\ UNCHANGED actions
        \/ UNCHANGED hydration
    BY <1>8 DEF Monitor!Read
  <2> QED BY <1>8, <2>1, <2>2, WaitingGoesOn
<1>9. CASE Monitor!Revalidate
  <2>1. PICK r \in Runs : /\ server[r].active \/ (r = view.run /\ \A q \in Runs : ~server[q].active)
                          /\ hydration' = Monitor!Asking(r)
    BY <1>9 DEF Monitor!Revalidate
  <2>2. server[r].status # "absent"
    BY <2>1, RunInView, NoRunIsNone DEF MonitorInvariant, RunsAreSound
  <2>3. server' = server
    BY <1>9 DEF Monitor!Revalidate
  <2> QED BY <2>1, <2>2, <2>3
<1>10. CASE Monitor!LeaveRun
  BY <1>10 DEF Monitor!LeaveRun, Monitor!Enter
<1>11. CASE Monitor!Hydrate
  BY <1>11 DEF Monitor!Hydrate, Monitor!Enter
<1> HIDE DEF HydrationMoves
<1> QED BY <1>1, <1>2, <1>3, <1>4, <1>5, <1>6, <1>7, <1>8, <1>9, <1>10, <1>11 DEF Monitor!Next

LEMMA HydrationStaysTrue ==
  ASSUME MonitorInvariant, Monitor!Next
  PROVE  hydration' \in Requests /\ HydrationReads' /\ HydrationIsTrue'
<1>1. ServerStep /\ HydrationMoves
  BY ServerSteps, HydrationsMove
<1>2. /\ RequestTypes /\ hydration \in Requests
      /\ ReadsTruly(hydration, server)
      /\ HydrationIsTrue
  BY DEF MonitorInvariant, RequestTypes, HydrationReads
<1>3. ReadsTruly(hydration, server')
  BY <1>1, <1>2, ReadingsAreKept
<1>4. hydration.at = "answered" => hydration.run \in Runs
  BY <1>2 DEF ReadsTruly
<1>5. hydration.at = "answered" /\ IsIdle(server[hydration.run]) =>
        \/ IsIdle(server'[hydration.run])
        \/ hydration'.crossed
        \/ hydration.run = view.run /\ view' = view /\ Awaited'
  BY <1>1, <1>4 DEF ServerStep, Accounted
<1>6. CASE UNCHANGED <<hydration, view>> /\ (Awaited => Awaited')
  <2>1. HydrationReads'
    BY <1>3, <1>6 DEF HydrationReads
  <2>2. HydrationIsTrue'
    BY <1>2, <1>5, <1>6 DEF HydrationIsTrue
  <2> QED BY <1>2, <1>6, <2>1, <2>2
<1>7. CASE /\ hydration.at \in Monitor!ReadSteps /\ hydration' = Monitor!Advance(hydration)
           /\ UNCHANGED <<server, view, actions>>
  <2> DEFINE h == Monitor!Advance(hydration)
  <2>1. /\ h \in Requests /\ h.run = hydration.run
        /\ ReadsTruly(h, server)
        /\ h.at = "answered" /\ ~h.active /\ ~h.overtaken =>
             h.status = server[hydration.run].status /\ ~server[hydration.run].active
    BY <1>2, <1>7, AdvancingReadings
  <2> HIDE DEF h
  <2>2. h.at = "answered" /\ IsIdle(h) /\ ~h.overtaken => IsIdle(server[h.run])
    BY <2>1 DEF IsIdle
  <2> QED BY <1>7, <2>1, <2>2 DEF HydrationReads, HydrationIsTrue, h
<1>8. ASSUME NEW c \in BOOLEAN,
             hydration' = [hydration EXCEPT !.crossed = c], view' = view,
             hydration.at # "off" /\ (hydration.crossed \/ ~(Awaited => Awaited')) => hydration'.crossed
      PROVE  hydration' \in Requests /\ HydrationReads' /\ HydrationIsTrue'
  <2>1. /\ hydration' \in Requests
        /\ hydration'.crossed = c
        /\ hydration'.at = hydration.at /\ hydration'.run = hydration.run
        /\ hydration'.status = hydration.status /\ hydration'.active = hydration.active
        /\ hydration'.results = hydration.results /\ hydration'.begun = hydration.begun
        /\ hydration'.overtaken = hydration.overtaken
    BY <1>2, <1>8 DEF Requests
  <2>2. HydrationReads'
    BY <1>3, <2>1 DEF HydrationReads, ReadsTruly
  <2>3. HydrationIsTrue'
    <3>1. SUFFICES ASSUME hydration.at = "answered", IsIdle(hydration), ~hydration.overtaken
                   PROVE  \/ IsIdle(server'[hydration.run]) \/ c
                          \/ hydration.run = view.run /\ Awaited'
      BY <1>8, <2>1 DEF HydrationIsTrue, IsIdle
    <3>2. \/ IsIdle(server[hydration.run]) \/ hydration.crossed
          \/ hydration.run = view.run /\ Awaited
      BY <1>2, <3>1 DEF HydrationIsTrue
    <3> QED BY <1>5, <1>8, <2>1, <3>1, <3>2
  <2> QED BY <2>1, <2>2, <2>3
<1>9. CASE hydration' = Monitor!Off
  BY <1>9, NewRequests DEF HydrationReads, HydrationIsTrue, ReadsTruly
<1>10. ASSUME NEW r \in Runs, hydration' = Monitor!Asking(r), server'[r].status # "absent"
       PROVE  hydration' \in Requests /\ HydrationReads' /\ HydrationIsTrue'
  <2>1. ReadsTruly(Monitor!Asking(r), server')
    BY <1>10, AskingIsTrue
  <2>2. Monitor!Asking(r) \in Requests /\ Monitor!Asking(r).at = "sample"
    BY NewRequests
  <2> QED BY <1>10, <2>1, <2>2 DEF HydrationReads, HydrationIsTrue
<1> QED BY <1>1, <1>6, <1>7, <1>8, <1>9, <1>10 DEF HydrationMoves

-----------------------------------------------------------------------------
(* The screen. *)

ScreenFits ==
  /\ ScreenTypes' /\ polling' \in BOOLEAN
  /\ ViewIsTrue' /\ ShownIsTrue' /\ EndIsTrue' /\ RestIsTrue'

(* How a Run ended does not change any more. *)
LEMMA EndsStayTold ==
  ASSUME NEW q, NEW s, NEW t, Tells(q, s), Final(q), Evolves(s, t)
  PROVE  Tells(q, t)
BY DEF Tells, Final, Monitor!IsOver, Evolves

(* The Run in view has evolved, and is still there. *)
LEMMA RunInViewGoesOn ==
  ASSUME MonitorInvariant, Monitor!Next, view' = view, view.run # None
  PROVE  /\ view.run \in Runs /\ server[view.run] \in RunRecords /\ server'[view.run] \in RunRecords
         /\ Evolves(server[view.run], server'[view.run])
         /\ server'[view.run].status # "absent"
         /\ server[view.run].results \in Nat /\ server'[view.run].results \in Nat
<1>1. ServerStep /\ view.run \in Runs /\ server[view.run].status # "absent"
  BY ServerSteps, RunInView
<1>2. server[view.run] \in RunRecords /\ server'[view.run] \in RunRecords
  BY <1>1 DEF ServerStep, MonitorInvariant, RequestTypes
<1> QED BY <1>1, <1>2 DEF ServerStep, Evolves, RunRecords

(* Only the listing changes: it is less than it was, or has the Results. *)
LEMMA ListingsFit ==
  ASSUME MonitorInvariant, Monitor!Next, UNCHANGED <<view, shown, polling, failures, note>>,
         Awaited => Awaited', disturbed => disturbed',
         listing' \in Listings, listing'.observation = listing.observation,
         listed' \in [run : Runs \union {None}, results : Nat],
         view.run = None => listing'.at = "idle",
         view.run # None =>
           /\ listed'.run = view.run
           /\ listed'.results <= server[view.run].results
           /\ listing'.at = "answered" => listing'.results <= server[view.run].results
           /\ Lists(listing', listed')
  PROVE  ScreenFits
<1>1. /\ ScreenTypes /\ ViewIsTrue /\ ShownIsTrue /\ EndIsTrue /\ RestIsTrue /\ RequestTypes
      /\ polling \in BOOLEAN /\ ServerStep
  BY ServerSteps DEF MonitorInvariant, RequestTypes
<1>2. ScreenTypes' /\ polling' \in BOOLEAN
  BY <1>1 DEF ScreenTypes
<1>3. ViewIsTrue'
  <2>1. CASE view.run = None
    BY <1>1, <2>1 DEF ViewIsTrue
  <2>2. CASE view.run # None
    <3>1. /\ server'[view.run].status # "absent"
          /\ server[view.run].results \in Nat /\ server'[view.run].results \in Nat
          /\ server[view.run].results <= server'[view.run].results
          /\ listed'.results \in Nat /\ listing'.results \in Nat
          /\ listing.observation.results \in Nat
      BY <1>1, <2>2, RunInViewGoesOn DEF Evolves, Listings, Observations, ScreenTypes
    <3>2. listed'.results <= server'[view.run].results
      BY <2>2, <3>1
    <3>3. listing'.at = "answered" => listing'.results <= server'[view.run].results
      BY <2>2, <3>1
    <3>4. listing.observation.results <= server[view.run].results
      BY <1>1, <2>2 DEF ViewIsTrue
    <3>5. listing'.observation.results <= server'[view.run].results
      BY <3>1, <3>4
    <3> QED BY <1>1, <2>2, <3>1, <3>2, <3>3, <3>5 DEF ViewIsTrue
  <2> QED BY <2>1, <2>2
<1>4. ShownIsTrue'
  BY <1>1 DEF ShownIsTrue, ObservationOf, Monitor!Signature
<1>5. EndIsTrue'
  <2>1. SUFFICES ASSUME view.run # None, Final(shown)
                 PROVE  Tells(shown, server'[view.run])
    BY DEF EndIsTrue, Final, Monitor!IsOver
  <2>2. Evolves(server[view.run], server'[view.run])
    BY <2>1, RunInViewGoesOn
  <2>3. Tells(shown, server[view.run])
    BY <1>1, <2>1 DEF EndIsTrue
  <2> QED BY <2>1, <2>2, <2>3, EndsStayTold
<1>6. RestIsTrue'
  <2>1. SUFFICES ASSUME view.run # None, ~disturbed', ~polling
                 PROVE  \/ note.error \/ Awaited' \/ Monitor!IsOver(shown)
                        \/ shown.status = "created" /\ (shown.overtaken \/ IsIdle(server'[view.run]))
    BY DEF RestIsTrue, Monitor!IsOver
  <2>2. view.run \in Runs /\ ~disturbed
    BY <2>1, RunInViewGoesOn
  <2>3. \/ note.error \/ Awaited \/ Monitor!IsOver(shown)
        \/ shown.status = "created" /\ (shown.overtaken \/ IsIdle(server[view.run]))
    BY <1>1, <2>1, <2>2 DEF RestIsTrue
  <2>4. IsIdle(server[view.run]) => Awaited' \/ IsIdle(server'[view.run])
    BY <1>1, <2>1, <2>2 DEF ServerStep, Accounted
  <2> QED BY <2>3, <2>4
<1> QED BY <1>2, <1>3, <1>4, <1>5, <1>6 DEF ScreenFits

LEMMA ScreenRests ==
  ASSUME MonitorInvariant, Monitor!Next, Awaited => Awaited', disturbed => disturbed',
         UNCHANGED <<view, shown, listed, listing, polling, failures, note>>
  PROVE  ScreenFits
<1>1. ScreenTypes /\ ViewIsTrue
  BY DEF MonitorInvariant
<1> QED BY <1>1, ListingsFit DEF ScreenTypes, ViewIsTrue

(* A command is sent: its answer is awaited. *)
LEMMA ClicksFit ==
  ASSUME MonitorInvariant, Monitor!Next, NEW kind \in {"start", "discard", "stop", "detach"}, Monitor!Click(kind)
  PROVE  ScreenFits
<1>1. Awaited' /\ UNCHANGED <<view, shown, listed, listing, polling, failures, server>>
  BY ClickedActionsFit DEF Monitor!Click
<1>2. ScreenTypes /\ ViewIsTrue /\ ShownIsTrue /\ EndIsTrue /\ polling \in BOOLEAN
  BY DEF MonitorInvariant, RequestTypes
<1>3. note' \in Notes
  <2>1. note \in Notes
    BY <1>2 DEF ScreenTypes
  <2>2. CASE kind \in {"start", "discard"}
    <3>1. note' = [note EXCEPT !.reconciliation = "none", !.unavailable = FALSE, !.error = FALSE]
      BY <2>2 DEF Monitor!Click
    <3> QED BY <2>1, <3>1 DEF Notes
  <2>3. CASE kind = "stop"
    <3>1. note' = [note EXCEPT !.stopRetry = FALSE, !.error = FALSE]
      BY <2>3 DEF Monitor!Click
    <3> QED BY <2>1, <3>1 DEF Notes
  <2>4. CASE kind = "detach"
    <3>1. note' = [note EXCEPT !.detachRetry = FALSE, !.error = FALSE]
      BY <2>4 DEF Monitor!Click
    <3> QED BY <2>1, <3>1 DEF Notes
  <2> QED BY <2>2, <2>3, <2>4
<1>4. ScreenTypes' /\ polling' \in BOOLEAN
  BY <1>1, <1>2, <1>3 DEF ScreenTypes
<1>5. ViewIsTrue' /\ ShownIsTrue' /\ EndIsTrue'
  BY <1>1, <1>2 DEF ViewIsTrue, ShownIsTrue, ObservationOf, Monitor!Signature, EndIsTrue, Final, Monitor!IsOver, Tells, Lists
<1>6. RestIsTrue'
  BY <1>1 DEF RestIsTrue
<1> QED BY <1>4, <1>5, <1>6 DEF ScreenFits

LEMMA DispatchedListings ==
  ASSUME NEW l \in Listings
  PROVE  /\ Monitor!Dispatched(l) \in Listings /\ Monitor!Dispatched(l).at = "sent"
         /\ Monitor!Dispatched(l).observation = l.observation
BY DEF Monitor!Dispatched, Listings

(* The Results are read, or the request for them is lost. *)
LEMMA ReadListingsFit ==
  ASSUME MonitorInvariant, Monitor!Next, listing.at = "sent",
         UNCHANGED <<view, shown, listed, polling, failures, note, server>>,
         Awaited => Awaited', disturbed => disturbed',
         \/ listing' = [listing EXCEPT !.at = "answered", !.results = server[view.run].results]
         \/ listing' = [listing EXCEPT !.at = "lost"]
  PROVE  ScreenFits
<1>1. ScreenTypes /\ ViewIsTrue /\ listing \in Listings
  BY DEF MonitorInvariant, ScreenTypes
<1>2. view.run # None
  BY RunInView
<1>3. server[view.run].results \in Nat
  BY <1>2, RunInViewGoesOn
<1>4. /\ listing' \in Listings /\ listing'.observation = listing.observation
      /\ listing'.at \in {"answered", "lost"}
      /\ listing'.at = "answered" => listing'.results = server[view.run].results
  BY <1>1, <1>3 DEF Listings
<1>5. Lists(listing', listed')
  <2>1. listing.observation.results <= server[view.run].results
    BY <1>1, <1>2 DEF ViewIsTrue
  <2> QED BY <1>4, <2>1 DEF Lists
<1>6. /\ listed'.run = view.run
      /\ listed'.results <= server[view.run].results
      /\ listing'.at = "answered" => listing'.results <= server[view.run].results
  BY <1>1, <1>2, <1>3, <1>4 DEF ViewIsTrue
<1>7. listed' \in [run : Runs \union {None}, results : Nat]
  BY <1>1 DEF ScreenTypes
<1> QED BY <1>2, <1>4, <1>5, <1>6, <1>7, ListingsFit

LEMMA EndedListingsFit ==
  ASSUME MonitorInvariant, Monitor!Next, Monitor!EndListing
  PROVE  ScreenFits
<1> DEFINE over == [listing EXCEPT !.at = "idle", !.failed = (listing.at = "lost")]
<1>1. /\ ScreenTypes /\ ViewIsTrue /\ listing \in Listings
      /\ listed \in [run : Runs \union {None}, results : Nat]
      /\ view \in [run : Runs \union {None}, scope : Nat]
  BY DEF MonitorInvariant, ScreenTypes, RequestTypes
<1>2. /\ listing.at \in {"answered", "lost"}
      /\ listing.at = "answered" => listed' = [run |-> view.run, results |-> listing.results]
      /\ listing.at = "lost" => listed' = listed
      /\ listing' = IF over.behind THEN Monitor!Dispatched(over) ELSE over
      /\ UNCHANGED <<server, view, shown, polling, failures, note>>
      /\ Awaited => Awaited'
      /\ disturbed' = disturbed
  BY WaitingGoesOn DEF Monitor!EndListing
<1>3. view.run # None
  BY <1>2, RunInView
<1>4. /\ over \in Listings /\ over.at = "idle" /\ over.failed = (listing.at = "lost")
      /\ over.behind = listing.behind /\ over.observation = listing.observation
  BY <1>1 DEF Listings
<1> HIDE DEF over
<1>5. /\ listing' \in Listings /\ listing'.observation = listing.observation
      /\ listing'.at = "idle" => ~listing.behind /\ listing'.failed = (listing.at = "lost")
      /\ listing'.at \in {"idle", "sent"}
  BY <1>2, <1>4, DispatchedListings
<1>6. /\ listed' \in [run : Runs \union {None}, results : Nat]
      /\ listed'.run = view.run
      /\ listed'.results <= server[view.run].results
  <2>1. CASE listing.at = "answered"
    <3>1. listing.results \in Nat /\ listing.results <= server[view.run].results
      BY <1>1, <1>3, <2>1 DEF Listings, ViewIsTrue
    <3> QED BY <1>1, <1>2, <2>1, <3>1
  <2>2. CASE listing.at = "lost"
    BY <1>1, <1>2, <1>3, <2>2 DEF ViewIsTrue
  <2> QED BY <1>2, <2>1, <2>2
<1>7. Lists(listing', listed')
  <2>0. Lists(listing, listed)
    BY <1>1, <1>3 DEF ViewIsTrue
  <2>1. listing.at = "answered" => listed'.results = listing.results
    BY <1>2
  <2>2. /\ listing'.at # "answered"
        /\ listing'.at = "idle" /\ ~listing'.failed => listing.at = "answered" /\ ~listing.behind
    BY <1>2, <1>5
  <2> QED BY <1>5, <2>0, <2>1, <2>2 DEF Lists
<1> QED BY <1>2, <1>3, <1>5, <1>6, <1>7, ListingsFit

LEMMA RefreshedListingsFit ==
  ASSUME MonitorInvariant, Monitor!Next, Monitor!RefreshResults
  PROVE  ScreenFits
<1>1. ScreenTypes /\ ViewIsTrue /\ listing \in Listings
  BY DEF MonitorInvariant, ScreenTypes
<1>2. /\ view.run # None /\ listing' = Monitor!Needing(listing)
      /\ UNCHANGED <<server, view, shown, listed, polling, failures, note>>
      /\ Awaited => Awaited'
      /\ disturbed' = disturbed
  BY WaitingGoesOn DEF Monitor!RefreshResults
<1>3. /\ listing' \in Listings /\ listing'.observation = listing.observation
      /\ listing'.at = "answered" => listing.at = "answered" /\ listing'.behind /\ listing'.results = listing.results
      /\ listing'.at # "idle"
  <2>1. CASE listing.at = "idle"
    BY <1>1, <1>2, <2>1, DispatchedListings DEF Monitor!Needing
  <2>2. CASE listing.at # "idle"
    BY <1>1, <1>2, <2>2 DEF Monitor!Needing, Listings
  <2> QED BY <2>1, <2>2
<1>4. Lists(listing', listed')
  BY <1>3 DEF Lists
<1>5. /\ listed' \in [run : Runs \union {None}, results : Nat]
      /\ listed'.run = view.run
      /\ listed'.results <= server[view.run].results
      /\ listing'.at = "answered" => listing'.results <= server[view.run].results
  BY <1>1, <1>2, <1>3 DEF ScreenTypes, ViewIsTrue
<1> QED BY <1>2, <1>3, <1>4, <1>5, ListingsFit

-----------------------------------------------------------------------------
(* What is shown is new. *)

(* A reading that has been answered tells how the Run ended. *)
LEMMA AnswersTell ==
  ASSUME NEW q, q.at = "answered", ReadsTruly(q, server)
  PROVE  /\ Final(q) => Tells(q, server[q.run])
         /\ q.status # "absent"
         /\ q.results <= server[q.run].results
BY DEF ReadsTruly, Final, Monitor!IsOver, Tells

(* The screen takes up an observation of the Run in view. *)
LEMMA ObservationsFit ==
  ASSUME MonitorInvariant, Monitor!Next, UNCHANGED <<view, listed, server>>, view.run # None,
         NEW q, q.results \in Nat, q.status # "absent",
         q.results <= server[view.run].results,
         Final(q) => Tells(q, server[view.run]),
         shown' \in Responses, shown'.run = view.run,
         shown'.status = q.status, shown'.active = q.active, shown'.results = q.results,
         shown'.overtaken = q.overtaken,
         listing' = Monitor!Observed(listing, q)
  PROVE  listing' \in Listings /\ ViewIsTrue' /\ ShownIsTrue' /\ EndIsTrue'
<1>1. ScreenTypes /\ ViewIsTrue /\ ShownIsTrue /\ EndIsTrue /\ listing \in Listings
  BY DEF MonitorInvariant, ScreenTypes
<1>2. /\ listing' \in Listings
      /\ listing'.observation = Monitor!Signature(q)
      /\ listing'.results = listing.results
      /\ listing'.at \in {"idle", "answered"} => listing.at = listing'.at
  BY <1>1, ObservedListings
<1>3. listing'.observation.results = q.results /\ Lists(listing', listed)
  <2>1. Lists(listing, listed)
    BY <1>1 DEF ViewIsTrue
  <2>2. Lists(Monitor!Observed(listing, q), listed)
    BY <1>1, <2>1, ObservedLists
  <2> QED BY <1>2, <2>2 DEF Monitor!Signature
<1>4. ViewIsTrue'
  BY <1>1, <1>2, <1>3 DEF ViewIsTrue
<1>5. Monitor!Signature(shown)' = Monitor!Signature(q) /\ Final(shown)' = Final(q)
  BY DEF Monitor!Signature, Monitor!IsOver, Final
<1>6. ShownIsTrue'
  <2>1. ObservationOf(shown)' = Monitor!Signature(q)
    BY <1>5 DEF ObservationOf
  <2> QED BY <1>2, <2>1 DEF ShownIsTrue
<1>7. EndIsTrue'
  BY <1>5 DEF EndIsTrue, Tells
<1> QED BY <1>2, <1>4, <1>6, <1>7

LEMMA ResponsesFit ==
  ASSUME NEW q \in Requests
  PROVE  /\ Monitor!Response(q) \in Responses
         /\ Monitor!Response(q).run = q.run /\ Monitor!Response(q).status = q.status
         /\ Monitor!Response(q).active = q.active /\ Monitor!Response(q).mode = q.mode
         /\ Monitor!Response(q).results = q.results /\ Monitor!Response(q).overtaken = q.overtaken
BY DEF Monitor!Response, Responses, Requests

LEMMA ReconciledNotes ==
  ASSUME NEW n \in Notes, NEW q
  PROVE  Monitor!Reconciled(n, q) \in Notes
<1> DEFINE goesOn == q.status = "running"
           stopRetry == IF n.stop THEN goesOn /\ q.mode = "none" ELSE n.stopRetry
           detachRetry == IF n.detach THEN goesOn /\ q.mode # "detach" ELSE n.detachRetry
<1>1. stopRetry \in BOOLEAN /\ detachRetry \in BOOLEAN
  BY DEF Notes
<1> DEFINE s == stopRetry /\ q.mode = "none" /\ q.status # "ended"
           d == detachRetry /\ q.mode # "detach" /\ q.status # "ended"
           e == IF n.detach THEN detachRetry ELSE IF n.stop THEN stopRetry ELSE n.error
<1>2. s \in BOOLEAN /\ d \in BOOLEAN /\ e \in BOOLEAN
  BY <1>1 DEF Notes
<1>3. Monitor!Reconciled(n, q) = [n EXCEPT !.stop = FALSE, !.detach = FALSE, !.stopRetry = s,
                                   !.detachRetry = d, !.error = e]
  BY DEF Monitor!Reconciled
<1> HIDE DEF stopRetry, detachRetry, s, d, e
<1> QED BY <1>2, <1>3 DEF Notes

LEMMA MergedResponses ==
  ASSUME NEW p, NEW q \in Responses, p.mode \in Modes
  PROVE  /\ Monitor!Merged(p, q) \in Responses
         /\ Monitor!Merged(p, q).run = q.run /\ Monitor!Merged(p, q).status = q.status
         /\ Monitor!Merged(p, q).active = q.active /\ Monitor!Merged(p, q).results = q.results
         /\ Monitor!Merged(p, q).overtaken = q.overtaken
<1>1. /\ [q EXCEPT !.mode = p.mode] \in Responses
      /\ [q EXCEPT !.mode = p.mode].run = q.run /\ [q EXCEPT !.mode = p.mode].status = q.status
      /\ [q EXCEPT !.mode = p.mode].active = q.active /\ [q EXCEPT !.mode = p.mode].results = q.results
      /\ [q EXCEPT !.mode = p.mode].overtaken = q.overtaken
  BY DEF Responses
<1> QED BY <1>1 DEF Monitor!Merged

LEMMA PollsFit ==
  ASSUME MonitorInvariant, Monitor!Next, Monitor!Polled
  PROVE  ScreenFits
<1> DEFINE n == Monitor!Reconciled(note, loop)
           waits == n.reconciliation # "none" /\ loop.status = "created"
           gone == waits /\ n.createdPolls + 1 >= Patience
<1>1. /\ ScreenTypes /\ loop \in Requests /\ polling \in BOOLEAN
      /\ ReadsTruly(loop, server)
      /\ loop.at = "answered" /\ loop.run = view.run
      /\ loop.results \in Nat /\ shown.mode \in Modes
  BY DEF MonitorInvariant, ScreenTypes, RequestTypes, LoopIsTrue, Monitor!Polled, Requests, Responses
<1>2. /\ UNCHANGED <<view, listed, server>> /\ view.run # None
      /\ shown' = Monitor!Merged(shown, Monitor!Response(loop))
      /\ failures' = 0
      /\ listing' = Monitor!Observed(listing, loop)
      /\ note' = IF gone
                 THEN [n EXCEPT !.unavailable = (n.reconciliation = "discard"), !.error = TRUE,
                                !.reconciliation = "none", !.createdPolls = @ + 1]
                 ELSE IF waits THEN [n EXCEPT !.createdPolls = @ + 1]
                 ELSE [n EXCEPT !.reconciliation = "none", !.unavailable = FALSE,
                                !.error = @ /\ (n.stopRetry \/ n.detachRetry)]
      /\ polling' = IF gone \/ Monitor!IsOver(loop) THEN FALSE ELSE polling
      /\ disturbed' = ~(polling \/ Monitor!IsOver(loop))
  BY <1>1, RunInView DEF Monitor!Polled
<1>3. /\ shown' \in Responses /\ shown'.run = view.run
      /\ shown'.status = loop.status /\ shown'.active = loop.active /\ shown'.results = loop.results
      /\ shown'.overtaken = loop.overtaken
  BY <1>1, <1>2, ResponsesFit, MergedResponses
<1>4. /\ loop.status # "absent" /\ loop.results <= server[view.run].results
      /\ Final(loop) => Tells(loop, server[view.run])
  BY <1>1, AnswersTell
<1>5. listing' \in Listings /\ ViewIsTrue' /\ ShownIsTrue' /\ EndIsTrue'
  BY <1>1, <1>2, <1>3, <1>4, ObservationsFit
<1>6. n \in Notes
  BY <1>1, ReconciledNotes DEF ScreenTypes
<1> HIDE DEF n
<1>7. note' \in Notes /\ (gone => note'.error)
  <2>1. CASE gone
    <3> DEFINE u == n.reconciliation = "discard"
               c == n.createdPolls + 1
    <3>1. note' = [n EXCEPT !.unavailable = u, !.error = TRUE, !.reconciliation = "none",
                            !.createdPolls = c]
      BY <1>2, <2>1
    <3>2. u \in BOOLEAN /\ c \in Nat
      BY <1>6 DEF Notes
    <3> HIDE DEF u, c
    <3> QED BY <1>6, <3>1, <3>2 DEF Notes
  <2>2. CASE ~gone /\ waits
    <3>1. note' = [n EXCEPT !.createdPolls = @ + 1]
      BY <1>2, <2>2
    <3> QED BY <1>6, <2>2, <3>1 DEF Notes
  <2>3. CASE ~gone /\ ~waits
    <3> DEFINE e == n.error /\ (n.stopRetry \/ n.detachRetry)
    <3>1. note' = [n EXCEPT !.reconciliation = "none", !.unavailable = FALSE, !.error = e]
      BY <1>2, <2>3
    <3>2. e \in BOOLEAN
      BY <1>6 DEF Notes
    <3> HIDE DEF e
    <3> QED BY <1>6, <2>3, <3>1, <3>2 DEF Notes
  <2> QED BY <2>1, <2>2, <2>3
<1> HIDE DEF gone
<1>8. polling' \in BOOLEAN /\ ScreenTypes'
  BY <1>1, <1>2, <1>3, <1>5, <1>7 DEF ScreenTypes
<1>9. RestIsTrue'
  <2>1. ~disturbed' /\ ~polling' => note'.error \/ Monitor!IsOver(loop)
    BY <1>2, <1>7
  <2>2. Monitor!IsOver(loop) => Monitor!IsOver(shown)'
    BY <1>3 DEF Monitor!IsOver
  <2> QED BY <2>1, <2>2 DEF RestIsTrue
<1> QED BY <1>5, <1>8, <1>9 DEF ScreenFits

(* A poll that fails says so. *)
LEMMA FailedPollsFit ==
  ASSUME MonitorInvariant, Monitor!Next, Monitor!PollFails
  PROVE  ScreenFits
<1>1. /\ ScreenTypes /\ ViewIsTrue /\ ShownIsTrue /\ EndIsTrue /\ polling \in BOOLEAN
      /\ note \in Notes /\ failures \in Nat
  BY DEF MonitorInvariant, RequestTypes, ScreenTypes
<1>2. /\ UNCHANGED <<view, shown, listed, listing, server>>
      /\ failures' = failures + 1
      /\ note' = [note EXCEPT !.error = TRUE]
      /\ polling' \in {FALSE, polling}
      /\ view.run # None
  BY RunInView DEF Monitor!PollFails
<1>3. note' \in Notes /\ note'.error
  BY <1>1, <1>2 DEF Notes
<1>4. ScreenTypes' /\ polling' \in BOOLEAN
  <2>1. failures' \in Nat
    BY <1>1, <1>2
  <2>2. polling' \in BOOLEAN
    BY <1>1, <1>2
  <2> QED BY <1>1, <1>2, <1>3, <2>1, <2>2 DEF ScreenTypes
<1>5. ViewIsTrue' /\ ShownIsTrue' /\ EndIsTrue'
  BY <1>1, <1>2 DEF ViewIsTrue, ShownIsTrue, ObservationOf, Monitor!Signature, EndIsTrue, Final,
     Monitor!IsOver, Tells, Lists
<1>6. RestIsTrue'
  BY <1>3 DEF RestIsTrue
<1> QED BY <1>4, <1>5, <1>6 DEF ScreenFits

(* The answer to a command of the lifetime in view: what it leaves alone. *)
LEMMA Settled ==
  ASSUME MonitorInvariant, NEW a \in actions, Monitor!IsCurrent(a), Monitor!Settle(a)
  PROVE  /\ a \in Requests /\ a.run = view.run /\ view.run # None
         /\ ReadsTruly(a, server) /\ ActsTruly(a, server, view)
         /\ UNCHANGED <<view, listed, failures, server>>
<1>1. a \in Requests /\ ReadsTruly(a, server) /\ ActsTruly(a, server, view)
  BY DEF MonitorInvariant, RequestTypes, ActionsAreTrue
<1>2. a.run = view.run /\ view.run # None
  BY <1>1, NoRunIsNone DEF ReadsTruly, ActsTruly, Monitor!IsCurrent
<1> QED BY <1>1, <1>2 DEF Monitor!Settle

(* The polling goes on, or an error is shown, and nothing of the Run is new. *)
LEMMA UnobservedAnswersFit ==
  ASSUME MonitorInvariant, Monitor!Next, NEW a \in actions, Monitor!IsCurrent(a), Monitor!Settle(a),
         listing' = listing, shown' \in Responses,
         shown'.run = shown.run, shown'.status = shown.status,
         shown'.active = shown.active, shown'.results = shown.results,
         shown'.overtaken = shown.overtaken,
         note' \in Notes, polling' \in BOOLEAN, polling' \/ note'.error
  PROVE  ScreenFits
<1>1. ScreenTypes /\ ViewIsTrue /\ ShownIsTrue /\ EndIsTrue
  BY DEF MonitorInvariant
<1>2. view.run # None /\ UNCHANGED <<view, listed, failures, server>>
  BY Settled
<1>3. ScreenTypes'
  BY <1>1, <1>2 DEF ScreenTypes
<1>4. ViewIsTrue'
  BY <1>1, <1>2 DEF ViewIsTrue
<1>5. Monitor!Signature(shown)' = Monitor!Signature(shown) /\ Final(shown)' = Final(shown)
  BY DEF Monitor!Signature, Monitor!IsOver, Final
<1>6. ShownIsTrue'
  <2>1. ObservationOf(shown)' = ObservationOf(shown)
    BY <1>5 DEF ObservationOf
  <2> QED BY <1>1, <1>2, <2>1 DEF ShownIsTrue
<1>7. EndIsTrue'
  BY <1>1, <1>2, <1>5 DEF EndIsTrue, Tells
<1>8. RestIsTrue'
  BY DEF RestIsTrue
<1> QED BY <1>3, <1>4, <1>6, <1>7, <1>8 DEF ScreenFits

LEMMA AcceptedCommandsFit ==
  ASSUME MonitorInvariant, Monitor!Next, NEW a \in actions, Monitor!Accepted(a)
  PROVE  ScreenFits
<1>1. /\ Monitor!IsCurrent(a) /\ Monitor!Settle(a) /\ a.at = "ok" /\ note' = note
  BY DEF Monitor!Accepted
<1>2. /\ a \in Requests /\ a.run = view.run /\ view.run # None
      /\ ReadsTruly(a, server) /\ ActsTruly(a, server, view)
      /\ UNCHANGED <<view, listed, failures, server>>
      /\ shown \in Responses /\ note \in Notes /\ listing \in Listings /\ ScreenTypes
  BY <1>1, Settled DEF MonitorInvariant, ScreenTypes
<1>3. CASE a.kind = "start"
  <2>1. polling' = TRUE /\ UNCHANGED <<shown, listing>>
    BY <1>3 DEF Monitor!Accepted
  <2> QED BY <1>1, <1>2, <2>1, UnobservedAnswersFit
<1>4. CASE a.kind = "discard"
  <2> DEFINE over == [Monitor!Response(a) EXCEPT !.status = "ended"]
  <2>1. polling' = FALSE /\ shown' = over /\ listing' = Monitor!Observed(listing, over)
    BY <1>4 DEF Monitor!Accepted
  <2>2. /\ over \in Responses /\ over.run = view.run /\ over.status = "ended"
        /\ over.results = a.results /\ over.results \in Nat /\ server[view.run].results \in Nat
    <3>1. Monitor!Response(a) \in Responses /\ Monitor!Response(a).run = a.run /\ Monitor!Response(a).results = a.results
      BY <1>2, ResponsesFit
    <3>2. server[view.run].results \in Nat
      BY <1>2, RunInViewGoesOn
    <3> QED BY <1>2, <3>1, <3>2 DEF Responses, Statuses
  <2> HIDE DEF over
  <2>3. Tells(over, server[view.run]) /\ over.results <= server[view.run].results
    BY <1>1, <1>2, <1>4, <2>2 DEF ActsTruly, Tells
  <2>4. listing' \in Listings /\ ViewIsTrue' /\ ShownIsTrue' /\ EndIsTrue'
    BY <1>2, <2>1, <2>2, <2>3, ObservationsFit
  <2>5. RestIsTrue'
    BY <2>1, <2>2 DEF RestIsTrue, Monitor!IsOver
  <2>6. ScreenTypes' /\ polling' \in BOOLEAN
    BY <1>1, <1>2, <2>1, <2>2, <2>4 DEF ScreenTypes
  <2> QED BY <2>4, <2>5, <2>6 DEF ScreenFits
<1>5. CASE a.kind \in {"stop", "detach"}
  <2>1. polling' = TRUE /\ shown' = [shown EXCEPT !.mode = a.kind] /\ listing' = listing
    BY <1>5 DEF Monitor!Accepted
  <2>2. /\ shown' \in Responses
        /\ shown'.run = shown.run /\ shown'.status = shown.status
        /\ shown'.active = shown.active /\ shown'.results = shown.results
        /\ shown'.overtaken = shown.overtaken
    BY <1>2, <1>5, <2>1 DEF Responses, Modes
  <2> QED BY <1>1, <1>2, <2>1, <2>2, UnobservedAnswersFit
<1>6. a.kind \in {"start", "discard", "stop", "detach"}
  BY <1>1, <1>2 DEF ActsTruly, Requests, Commands
<1> QED BY <1>3, <1>4, <1>5, <1>6

LEMMA AmbiguousCommandsFit ==
  ASSUME MonitorInvariant, Monitor!Next, NEW a \in actions, Monitor!Ambiguous(a)
  PROVE  ScreenFits
<1>1. /\ Monitor!IsCurrent(a) /\ Monitor!Settle(a) /\ a.at = "lost" /\ a.kind # "discard" /\ polling' = TRUE
      /\ UNCHANGED <<shown, listing>>
  BY DEF Monitor!Ambiguous
<1>2. a \in Requests /\ ActsTruly(a, server, view) /\ shown \in Responses /\ note \in Notes
  BY <1>1, Settled DEF MonitorInvariant, ScreenTypes
<1>3. a.kind \in {"start", "stop", "detach"}
  BY <1>1, <1>2 DEF ActsTruly, Requests, Commands
<1>4. note' \in Notes
  <2>1. CASE a.kind = "start"
    <3>1. note' = [note EXCEPT !.error = TRUE, !.createdPolls = 0, !.reconciliation = "start"]
      BY <2>1 DEF Monitor!Ambiguous
    <3> QED BY <1>2, <3>1 DEF Notes
  <2>2. CASE a.kind = "stop"
    <3>1. note' = [note EXCEPT !.error = TRUE, !.stop = TRUE]
      BY <2>2 DEF Monitor!Ambiguous
    <3> QED BY <1>2, <3>1 DEF Notes
  <2>3. CASE a.kind = "detach"
    <3>1. note' = [note EXCEPT !.error = TRUE, !.detach = TRUE]
      BY <2>3 DEF Monitor!Ambiguous
    <3> QED BY <1>2, <3>1 DEF Notes
  <2> QED BY <1>3, <2>1, <2>2, <2>3
<1> QED BY <1>1, <1>2, <1>4, UnobservedAnswersFit

LEMMA FailedCommandsFit ==
  ASSUME MonitorInvariant, Monitor!Next, NEW a \in actions, Monitor!Failed(a)
  PROVE  ScreenFits
<1>1. /\ Monitor!IsCurrent(a) /\ Monitor!Settle(a) /\ note' = [note EXCEPT !.error = TRUE]
      /\ UNCHANGED <<shown, polling, listing>>
      /\ polling \in BOOLEAN /\ shown \in Responses /\ note \in Notes
  BY DEF Monitor!Failed, MonitorInvariant, ScreenTypes, RequestTypes
<1>2. note' \in Notes /\ note'.error
  BY <1>1 DEF Notes
<1> QED BY <1>1, <1>2, UnobservedAnswersFit

(* The reading that follows a refusal: what it leaves to be shown. *)
LEMMA RefusalNotes ==
  ASSUME MonitorInvariant, NEW a \in actions, Monitor!ReadAfterRefusal(a)
  PROVE  /\ note' \in Notes /\ polling' \in BOOLEAN
         /\ ~polling' => note'.error \/ Monitor!IsOver(a)
<1>1. /\ Monitor!IsCurrent(a) /\ Monitor!Settle(a) /\ a.at = "answered"
  BY DEF Monitor!ReadAfterRefusal
<1>2. /\ a \in Requests /\ ActsTruly(a, server, view) /\ note \in Notes
      /\ a.active \in BOOLEAN /\ a.status \in {"created", "running", "ended"}
  BY <1>1, Settled DEF MonitorInvariant, ScreenTypes, ReadsTruly, Requests, Statuses
<1> DEFINE idle == a.status = "created" /\ ~a.active
<1>3. CASE a.kind = "start"
  <2>1. note' = [note EXCEPT !.unavailable = idle, !.error = idle] /\ polling' = a.active
    BY <1>3 DEF Monitor!ReadAfterRefusal
  <2>2. idle \in BOOLEAN
    OBVIOUS
  <2>3. ~a.active => idle \/ Monitor!IsOver(a)
    BY <1>2 DEF Monitor!IsOver
  <2> HIDE DEF idle
  <2> QED BY <1>2, <2>1, <2>2, <2>3 DEF Notes
<1>4. CASE a.kind = "discard" /\ a.status = "created"
  <2>1. /\ note' = [note EXCEPT !.createdPolls = 0, !.reconciliation = "discard", !.error = TRUE]
        /\ polling' = TRUE
    BY <1>4 DEF Monitor!ReadAfterRefusal
  <2> QED BY <1>2, <2>1 DEF Notes
<1>5. CASE a.kind = "discarding" \/ (a.kind = "discard" /\ a.status # "created")
  <2> DEFINE created == a.status = "created"
  <2>1. /\ note' = [note EXCEPT !.unavailable = FALSE, !.error = created]
        /\ polling' = a.active
    BY <1>5 DEF Monitor!ReadAfterRefusal
  <2>2. created \in BOOLEAN
    OBVIOUS
  <2>3. ~a.active => created \/ Monitor!IsOver(a)
    BY <1>2 DEF Monitor!IsOver
  <2> HIDE DEF created
  <2> QED BY <1>2, <2>1, <2>2, <2>3 DEF Notes
<1>6. CASE a.kind \in {"stop", "detach"}
  <2> DEFINE goesOn == ~Monitor!IsOver(a)
  <2>1. note' = [note EXCEPT !.error = goesOn] /\ polling' = (a.status = "running" /\ a.active)
    BY <1>6 DEF Monitor!ReadAfterRefusal
  <2>2. goesOn \in BOOLEAN /\ polling' \in BOOLEAN
    BY <2>1
  <2>3. goesOn \/ Monitor!IsOver(a)
    OBVIOUS
  <2> HIDE DEF goesOn
  <2> QED BY <1>2, <2>1, <2>2, <2>3 DEF Notes
<1>7. a.kind \in {"start", "discard", "stop", "detach", "discarding"}
  BY <1>2 DEF ActsTruly, Requests, Commands
<1> QED BY <1>3, <1>4, <1>5, <1>6, <1>7

LEMMA RefusalsFit ==
  ASSUME MonitorInvariant, Monitor!Next, NEW a \in actions, Monitor!ReadAfterRefusal(a)
  PROVE  ScreenFits
<1>1. /\ Monitor!IsCurrent(a) /\ Monitor!Settle(a) /\ a.at = "answered"
      /\ shown' = Monitor!Response(a) /\ listing' = Monitor!Observed(listing, a)
  BY DEF Monitor!ReadAfterRefusal
<1>2. /\ a \in Requests /\ a.run = view.run /\ view.run # None /\ a.results \in Nat
      /\ ReadsTruly(a, server)
      /\ UNCHANGED <<view, listed, failures, server>>
      /\ ScreenTypes
  BY <1>1, Settled DEF MonitorInvariant, Requests
<1>3. /\ shown' \in Responses /\ shown'.run = view.run
      /\ shown'.status = a.status /\ shown'.active = a.active /\ shown'.results = a.results
      /\ shown'.overtaken = a.overtaken
  BY <1>1, <1>2, ResponsesFit
<1>4. /\ a.status # "absent" /\ a.results <= server[view.run].results
      /\ Final(a) => Tells(a, server[view.run])
  BY <1>1, <1>2, AnswersTell
<1>5. listing' \in Listings /\ ViewIsTrue' /\ ShownIsTrue' /\ EndIsTrue'
  BY <1>1, <1>2, <1>3, <1>4, ObservationsFit
<1>6. /\ note' \in Notes /\ polling' \in BOOLEAN
      /\ ~polling' => note'.error \/ Monitor!IsOver(a)
  BY RefusalNotes
<1>7. ScreenTypes'
  BY <1>2, <1>3, <1>5, <1>6 DEF ScreenTypes
<1>8. Monitor!IsOver(a) => Monitor!IsOver(shown)'
  BY <1>3 DEF Monitor!IsOver
<1>9. RestIsTrue'
  BY <1>6, <1>8 DEF RestIsTrue
<1> QED BY <1>5, <1>6, <1>7, <1>9 DEF ScreenFits

-----------------------------------------------------------------------------
(* Another lifetime. *)

LEMMA FreshState ==
  /\ Monitor!Quiet \in Notes /\ Monitor!NotListing \in Listings /\ Monitor!NotListing.at = "idle"
  /\ Monitor!Unread \in Responses /\ Monitor!Unread.run = None /\ Monitor!Unread.status = "created"
  /\ ~Monitor!Unread.active /\ Monitor!Unread.results = 0
  /\ Monitor!NotListing.observation.results = 0
<1>1. Monitor!Quiet \in Notes
  BY DEF Monitor!Quiet, Notes
<1>2. /\ Monitor!NotListing \in Listings /\ Monitor!NotListing.at = "idle"
      /\ Monitor!NotListing.observation.results = 0
  BY DEF Monitor!NotListing, Listings, Observations
<1>3. /\ Monitor!Off \in Requests /\ Monitor!Off.run = None /\ Monitor!Off.status = "created" /\ ~Monitor!Off.active
      /\ Monitor!Off.results = 0
  BY NewRequests DEF Monitor!Off
<1> QED BY <1>1, <1>2, <1>3, ResponsesFit DEF Monitor!Unread

LEMMA CreatedRunsFit ==
  ASSUME MonitorInvariant, Monitor!Next, NEW r \in Runs, Monitor!CreateRun(r)
  PROVE  ScreenFits
<1>1. /\ view'.run = r /\ shown' = Monitor!Unread /\ polling' = FALSE /\ failures' = 0
      /\ listed' = [run |-> r, results |-> 0]
      /\ note' = Monitor!Quiet /\ listing' = Monitor!NotListing
  BY DEF Monitor!CreateRun
<1>2. IsIdle(server'[r]) /\ server'[r] \in RunRecords /\ r # None
  BY RunsAreCreated, NoRunIsNone DEF ServerStep
<1>3. ScreenTypes' /\ polling' \in BOOLEAN
  BY <1>1, FreshState DEF ScreenTypes
<1>4. ViewIsTrue'
  <2>1. server'[r].status # "absent" /\ 0 <= server'[r].results
    BY <1>2 DEF IsIdle, RunRecords
  <2> QED BY <1>1, <1>2, <2>1, FreshState DEF ViewIsTrue, Lists
<1>5. ShownIsTrue'
  <2>1. ObservationOf(shown)' = Monitor!NotListing.observation
    BY <1>1, FreshState DEF ObservationOf
  <2> QED BY <1>1, <2>1, FreshState DEF ShownIsTrue
<1>6. EndIsTrue'
  BY <1>1, FreshState DEF EndIsTrue, Final, Monitor!IsOver
<1>7. RestIsTrue'
  BY <1>1, <1>2, FreshState DEF RestIsTrue
<1> QED BY <1>3, <1>4, <1>5, <1>6, <1>7 DEF ScreenFits

LEMMA LeavingFits ==
  ASSUME MonitorInvariant, Monitor!Next, Monitor!LeaveRun
  PROVE  ScreenFits
<1>1. /\ view'.run = None /\ shown' = Monitor!Unread /\ polling' = Monitor!Unread.active /\ failures' = 0
      /\ listed' = listed /\ note' = Monitor!Quiet /\ listing' = Monitor!NotListing
  BY DEF Monitor!LeaveRun, Monitor!Enter
<1>2. ScreenTypes
  BY DEF MonitorInvariant
<1>3. ScreenTypes' /\ polling' = FALSE
  <2>1. polling' = FALSE
    BY <1>1 DEF Monitor!Unread, Monitor!Response, Monitor!Off
  <2> QED BY <1>1, <1>2, <2>1, FreshState DEF ScreenTypes
<1>4. ViewIsTrue' /\ EndIsTrue' /\ RestIsTrue'
  BY <1>1, <1>3, FreshState DEF ViewIsTrue, EndIsTrue, RestIsTrue
<1>5. ShownIsTrue'
  <2>1. ObservationOf(shown)' = Monitor!NotListing.observation
    BY <1>1, FreshState DEF ObservationOf
  <2> QED BY <1>1, <2>1, FreshState DEF ShownIsTrue
<1> QED BY <1>3, <1>4, <1>5 DEF ScreenFits

(* App.tsx brings another Run with the reading of it. *)
LEMMA EnteredRunsFit ==
  ASSUME MonitorInvariant, Monitor!Next, hydration.at = "answered", hydration.run # view.run,
         Monitor!Enter(hydration.run, Monitor!Response(hydration)),
         disturbed' = (hydration.crossed /\ ~hydration.active)
  PROVE  ScreenFits
<1> DEFINE r == hydration.run
           seed == Monitor!Response(hydration)
<1>1. /\ hydration \in Requests /\ ReadsTruly(hydration, server)
      /\ r \in Runs /\ r # None
      /\ server[r] \in RunRecords /\ server[r].status # "absent"
  BY NoRunIsNone DEF MonitorInvariant, RequestTypes, HydrationReads, ReadsTruly
<1>2. /\ seed \in Responses
      /\ seed.run = r /\ seed.status = hydration.status
      /\ seed.active = hydration.active /\ seed.results = hydration.results
      /\ seed.overtaken = hydration.overtaken
      /\ seed.results \in Nat /\ seed.active \in BOOLEAN
  BY <1>1, ResponsesFit DEF Responses
<1>3. /\ view'.run = r /\ shown' = seed /\ listed' = [run |-> r, results |-> 0]
      /\ polling' = seed.active /\ failures' = 0 /\ note' = Monitor!Quiet
      /\ listing' = IF seed = Monitor!Unread THEN Monitor!NotListing ELSE Monitor!Observed(Monitor!NotListing, seed)
      /\ server' = server
  BY <1>1 DEF Monitor!Enter
<1> HIDE DEF seed, r
<1>4. listing' = Monitor!Observed(Monitor!NotListing, seed)
  BY <1>1, <1>2, <1>3, FreshState
<1>5. /\ listing' \in Listings /\ listing'.observation = Monitor!Signature(seed)
      /\ listing'.at = "sent"
  <2>1. Monitor!Signature(seed).end # "none" /\ Monitor!NotListing.observation.end = "none"
    BY DEF Monitor!Signature, Monitor!NotListing
  <2>2. /\ listing' \in Listings /\ listing'.observation = Monitor!Signature(seed)
        /\ listing'.at \in {"idle", "answered"} => Monitor!NotListing.at = listing'.at
        /\ listing'.at = "idle" => Monitor!NotListing.observation = Monitor!Signature(seed)
    BY <1>2, <1>4, FreshState, ObservedListings
  <2>3. listing'.at # "lost"
    <3>1. [Monitor!NotListing EXCEPT !.observation = Monitor!Signature(seed)].at = "idle"
      BY DEF Monitor!NotListing
    <3>2. Monitor!Observed(Monitor!NotListing, seed) = Monitor!Dispatched([Monitor!NotListing EXCEPT !.observation = Monitor!Signature(seed)])
      BY <2>1, <3>1 DEF Monitor!Observed, Monitor!Needing
    <3>3. [Monitor!NotListing EXCEPT !.observation = Monitor!Signature(seed)] \in Listings
      <4>1. Monitor!Signature(seed) \in Observations
        BY <1>2 DEF Monitor!Signature, Observations
      <4> QED BY <4>1, FreshState DEF Listings
    <3> QED BY <1>4, <3>2, <3>3, DispatchedListings
  <2> QED BY <2>1, <2>2, <2>3, FreshState DEF Listings
<1>6. ScreenTypes' /\ polling' \in BOOLEAN
  BY <1>1, <1>2, <1>3, <1>5, FreshState DEF ScreenTypes, r
<1>7. ViewIsTrue'
  <2>1. 0 <= server[r].results
    BY <1>1 DEF RunRecords, r
  <2>2. listing'.observation.results <= server[r].results
    BY <1>1, <1>2, <1>5, AnswersTell DEF Monitor!Signature, r
  <2> QED BY <1>1, <1>3, <1>5, <2>1, <2>2 DEF ViewIsTrue, Lists, r
<1>8. hydration.status # "absent" /\ (Final(hydration) => Tells(hydration, server[r]))
  BY <1>1, AnswersTell DEF r
<1>9. ShownIsTrue'
  <2>1. ObservationOf(shown)' = Monitor!Signature(seed)
    BY <1>1, <1>2, <1>3 DEF ObservationOf, Monitor!Signature, r
  <2> QED BY <1>1, <1>2, <1>3, <1>5, <1>8, <2>1 DEF ShownIsTrue, r
<1>10. EndIsTrue'
  <2>1. Final(seed) => Tells(seed, server[r])
    BY <1>2, <1>8 DEF Tells, Final, Monitor!IsOver
  <2> QED BY <1>3, <2>1 DEF EndIsTrue
<1>11. RestIsTrue'
  <2>1. SUFFICES ASSUME ~disturbed', ~seed.active
                 PROVE  \/ Monitor!IsOver(seed)
                        \/ seed.status = "created" /\ (seed.overtaken \/ IsIdle(server[r]))
    BY <1>3 DEF RestIsTrue, Monitor!IsOver
  <2>2. seed.status \in {"created", "running", "ended"}
    BY <1>2, <1>8 DEF Responses, Statuses
  <2>3. ASSUME seed.status = "created", ~seed.overtaken PROVE IsIdle(server[r])
    <3>1. IsIdle(hydration) /\ ~hydration.overtaken /\ ~hydration.crossed
      BY <1>2, <2>1, <2>3 DEF IsIdle
    <3> QED BY <3>1 DEF MonitorInvariant, HydrationIsTrue, r
  <2> QED BY <2>1, <2>2, <2>3 DEF Monitor!IsOver
<1> QED BY <1>6, <1>7, <1>9, <1>10, <1>11 DEF ScreenFits

(* App.tsx brings a reading of the Run in view. *)
LEMMA RevalidatedRunsFit ==
  ASSUME MonitorInvariant, Monitor!Next, Monitor!Hydrate, hydration.run = view.run
  PROVE  ScreenFits
<1> DEFINE seed == Monitor!Response(hydration)
<1>1. /\ hydration \in Requests /\ ReadsTruly(hydration, server)
      /\ hydration.at = "answered" /\ view.run \in Runs /\ view.run # None
      /\ ScreenTypes
  BY NoRunIsNone DEF MonitorInvariant, RequestTypes, HydrationReads, ReadsTruly, Monitor!Hydrate
<1>2. /\ seed \in Responses
      /\ seed.run = view.run /\ seed.status = hydration.status
      /\ seed.active = hydration.active /\ seed.results = hydration.results
      /\ seed.overtaken = hydration.overtaken
      /\ seed.results \in Nat /\ seed.active \in BOOLEAN
  BY <1>1, ResponsesFit DEF Responses
<1>3. /\ shown' = seed /\ polling' = seed.active /\ listing' = Monitor!Observed(listing, seed)
      /\ disturbed' = (hydration.crossed /\ ~hydration.active)
      /\ UNCHANGED <<server, view, listed, failures, note, actions>>
  BY DEF Monitor!Hydrate
<1> HIDE DEF seed
<1>4. /\ hydration.status # "absent" /\ hydration.results <= server[view.run].results
      /\ Final(hydration) => Tells(hydration, server[view.run])
  BY <1>1, AnswersTell DEF Monitor!Hydrate
<1>5. Final(seed) => Tells(seed, server[view.run])
  BY <1>2, <1>4 DEF Final, Monitor!IsOver, Tells
<1>6. listing' \in Listings /\ ViewIsTrue' /\ ShownIsTrue' /\ EndIsTrue'
  BY <1>1, <1>2, <1>3, <1>4, <1>5, ObservationsFit
<1>7. ScreenTypes' /\ polling' \in BOOLEAN
  BY <1>1, <1>2, <1>3, <1>6 DEF ScreenTypes
<1>8. RestIsTrue'
  <2>1. SUFFICES ASSUME ~disturbed', ~seed.active
                 PROVE  \/ Awaited \/ Monitor!IsOver(seed)
                        \/ seed.status = "created" /\ (seed.overtaken \/ IsIdle(server[view.run]))
    BY <1>3 DEF RestIsTrue, Monitor!IsOver, Awaited, Monitor!IsCurrent
  <2>2. seed.status \in {"created", "running", "ended"}
    BY <1>2, <1>4 DEF Responses, Statuses
  <2>3. ASSUME seed.status = "created", ~seed.overtaken PROVE Awaited \/ IsIdle(server[view.run])
    <3>1. IsIdle(hydration) /\ ~hydration.overtaken /\ ~hydration.crossed
      BY <1>2, <1>3, <2>1, <2>3 DEF IsIdle
    <3> QED BY <1>1, <3>1 DEF MonitorInvariant, HydrationIsTrue, Monitor!Hydrate
  <2> QED BY <2>1, <2>2, <2>3 DEF Monitor!IsOver
<1> QED BY <1>6, <1>7, <1>8 DEF ScreenFits

LEMMA ScreenStaysTrue ==
  ASSUME MonitorInvariant, Monitor!Next
  PROVE  ScreenFits
<1>1. ASSUME NEW r \in Runs, Monitor!RunGoesOn(r) PROVE ScreenFits
  BY <1>1, WaitingGoesOn, ScreenRests DEF Monitor!RunGoesOn
<1>2. ASSUME NEW r \in Runs, Monitor!CreateRun(r) PROVE ScreenFits
  BY <1>2, CreatedRunsFit
<1>3. ASSUME NEW kind \in {"start", "discard", "stop", "detach"}, Monitor!Click(kind) PROVE ScreenFits
  BY <1>3, ClicksFit
<1>4. ASSUME NEW a \in actions, Monitor!HandleAction(a) \/ Monitor!Ignored(a) \/ Monitor!Refused(a) PROVE ScreenFits
  <2>1. UNCHANGED <<view, shown, listed, listing, polling, failures, note>>
    BY <1>4 DEF Monitor!HandleAction, Monitor!Ignored, Monitor!Refused
  <2>2. disturbed => disturbed'
    BY <1>4 DEF Monitor!HandleAction, Monitor!Unawaited, Monitor!Ignored, Monitor!Refused
  <2> QED BY <1>4, <2>1, <2>2, WaitingGoesOn, ScreenRests
<1>5. ASSUME NEW a \in actions, Monitor!Accepted(a) \/ Monitor!Ambiguous(a) \/ Monitor!Failed(a) \/ Monitor!ReadAfterRefusal(a)
      PROVE  ScreenFits
  BY <1>5, AcceptedCommandsFit, AmbiguousCommandsFit, FailedCommandsFit, RefusalsFit
<1>6. ASSUME NEW l \in late, Monitor!HandleLate(l) PROVE ScreenFits
  BY <1>6, WaitingGoesOn, ScreenRests DEF Monitor!HandleLate, Monitor!Unawaited
<1>7. CASE Monitor!Read
  <2>1. UNCHANGED <<server, view, shown, listed, polling, failures, note, disturbed>> /\ (Awaited => Awaited')
    BY <1>7, WaitingGoesOn DEF Monitor!Read
  <2>2. \/ UNCHANGED listing
        \/ /\ listing.at = "sent"
           /\ listing' = [listing EXCEPT !.at = "answered", !.results = server[view.run].results]
    BY <1>7 DEF Monitor!Read
  <2> QED BY <2>1, <2>2, ScreenRests, ReadListingsFit
<1>8. CASE Monitor!Lose
  <2>1. UNCHANGED <<server, view, shown, listed, polling, failures, note, disturbed>> /\ (Awaited => Awaited')
    BY <1>8, WaitingGoesOn DEF Monitor!Lose
  <2>2. \/ UNCHANGED listing
        \/ listing.at = "sent" /\ listing' = [listing EXCEPT !.at = "lost"]
    BY <1>8 DEF Monitor!Lose
  <2> QED BY <2>1, <2>2, ScreenRests, ReadListingsFit
<1>9. CASE Monitor!EndListing \/ Monitor!RefreshResults
  BY <1>9, EndedListingsFit, RefreshedListingsFit
<1>10. CASE Monitor!Render \/ Monitor!Revalidate
  <2>1. UNCHANGED <<view, shown, listed, listing, polling, failures, note, disturbed>>
    BY <1>10 DEF Monitor!Render, Monitor!Revalidate
  <2> QED BY <1>10, <2>1, WaitingGoesOn, ScreenRests
<1>11. CASE Monitor!Polled \/ Monitor!PollFails
  BY <1>11, PollsFit, FailedPollsFit
<1>12. CASE Monitor!LeaveRun
  BY <1>12, LeavingFits
<1>13. CASE Monitor!Hydrate
  <2>1. CASE hydration.run # view.run
    BY <1>13, <2>1, EnteredRunsFit DEF Monitor!Hydrate
  <2> QED BY <1>13, <2>1, RevalidatedRunsFit
<1> QED BY <1>1, <1>2, <1>3, <1>4, <1>5, <1>6, <1>7, <1>8, <1>9, <1>10, <1>11, <1>12, <1>13 DEF Monitor!Next

(* Requests that were given up are of Runs there are. *)
LEMMA LateRequestsStay ==
  ASSUME MonitorInvariant, Monitor!Next
  PROVE  late' \subseteq [kind : Commands, run : Runs]
<1>0. late \subseteq [kind : Commands, run : Runs]
  BY DEF MonitorInvariant, RequestTypes
<1>1. CASE Monitor!Lose
  BY <1>1, LostActionsFit
<1>2. ASSUME NEW l \in late, Monitor!HandleLate(l) PROVE late' \subseteq [kind : Commands, run : Runs]
  BY <1>0, <1>2 DEF Monitor!HandleLate
<1>3. ASSUME NEW a \in actions,
             \/ Monitor!HandleAction(a) \/ Monitor!Ignored(a) \/ Monitor!Accepted(a) \/ Monitor!Ambiguous(a)
             \/ Monitor!Refused(a) \/ Monitor!Failed(a) \/ Monitor!ReadAfterRefusal(a)
      PROVE  late' = late
  BY <1>3 DEF Monitor!HandleAction, Monitor!Ignored, Monitor!Accepted, Monitor!Ambiguous, Monitor!Refused, Monitor!Failed, Monitor!ReadAfterRefusal, Monitor!Settle
<1>4. ASSUME \/ \E r \in Runs : Monitor!RunGoesOn(r) \/ Monitor!CreateRun(r)
             \/ \E kind \in {"start", "discard", "stop", "detach"} : Monitor!Click(kind)
             \/ Monitor!Read \/ Monitor!EndListing \/ Monitor!RefreshResults \/ Monitor!Render \/ Monitor!Polled \/ Monitor!PollFails
             \/ Monitor!LeaveRun \/ Monitor!Revalidate
      PROVE  late' = late
  BY <1>4 DEF Monitor!RunGoesOn, Monitor!CreateRun, Monitor!Click, Monitor!Read, Monitor!EndListing, Monitor!RefreshResults, Monitor!Render, Monitor!Polled,
     Monitor!PollFails, Monitor!LeaveRun, Monitor!Enter, Monitor!Revalidate
<1>5. CASE Monitor!Hydrate
  BY <1>0, <1>5 DEF Monitor!Hydrate, Monitor!Enter
<1> QED BY <1>0, <1>1, <1>2, <1>3, <1>4, <1>5 DEF Monitor!Next

-----------------------------------------------------------------------------
(* The invariant. *)

LEMMA MonitorStartsTrue ==
  ASSUME Monitor!Init
  PROVE  MonitorInvariant
<1>1. /\ view = [run |-> None, scope |-> 0] /\ shown = Monitor!Unread
      /\ listed = [run |-> None, results |-> 0] /\ polling = FALSE /\ loop = Monitor!Off
      /\ failures = 0 /\ note = Monitor!Quiet /\ listing = Monitor!NotListing /\ actions = {} /\ hydration = Monitor!Off
      /\ late = {} /\ disturbed = FALSE
      /\ server = [r \in Runs |-> [status |-> "absent", active |-> FALSE, mode |-> "none", results |-> 0]]
  BY DEF Monitor!Init
<1>2. [status |-> "absent", active |-> FALSE, mode |-> "none", results |-> 0] \in RunRecords
  BY DEF RunRecords, Statuses, Modes
<1>3. RunsAreSound
  BY <1>1 DEF RunsAreSound
<1>4. RequestTypes
  BY <1>1, <1>2, NewRequests DEF RequestTypes
<1>5. ScreenTypes
  BY <1>1, FreshState DEF ScreenTypes
<1>6. LoopIsTrue /\ HydrationReads /\ HydrationIsTrue
  BY <1>1, NewRequests DEF LoopIsTrue, HydrationReads, HydrationIsTrue, ReadsTruly
<1>7. ActionsAreTrue
  BY <1>1 DEF ActionsAreTrue
<1>8. ViewIsTrue /\ EndIsTrue /\ RestIsTrue
  BY <1>1, FreshState DEF ViewIsTrue, EndIsTrue, RestIsTrue
<1>9. ShownIsTrue
  BY <1>1, FreshState DEF ShownIsTrue, ObservationOf
<1> QED BY <1>3, <1>4, <1>5, <1>6, <1>7, <1>8, <1>9 DEF MonitorInvariant

LEMMA MonitorGoesOn ==
  ASSUME MonitorInvariant, [Monitor!Next]_Monitor!vars
  PROVE  MonitorInvariant'
<1>1. CASE UNCHANGED Monitor!vars
  <2>1. UNCHANGED <<server, view, shown, listed, polling, loop, failures, note, listing, actions,
                    hydration, late, disturbed>>
    BY <1>1 DEF Monitor!vars
  <2> QED
    BY <2>1 DEF MonitorInvariant, RequestTypes, ScreenTypes, RunsAreSound, LoopIsTrue, HydrationReads,
       ActionsAreTrue, HydrationIsTrue, ViewIsTrue, ShownIsTrue, EndIsTrue, RestIsTrue, Final,
       Awaited, Monitor!IsCurrent, ObservationOf, Monitor!Signature, Monitor!IsOver, Tells, Lists
<1>2. CASE Monitor!Next
  <2>1. ServerStep /\ ScreenFits
    BY <1>2, ServerSteps, ScreenStaysTrue
  <2>2. loop' \in Requests /\ loop'.at \in LoopAts /\ LoopIsTrue'
    BY <1>2, LoopStaysTrue
  <2>3. hydration' \in Requests /\ HydrationReads' /\ HydrationIsTrue'
    BY <1>2, HydrationStaysTrue
  <2>4. actions' \subseteq Requests /\ ActionsAreTrue'
    BY <1>2, ActionsStayTrue
  <2>5. /\ view' \in [run : Runs \union {None}, scope : Nat]
        /\ late' \subseteq [kind : Commands, run : Runs]
    BY <1>2, ViewsMove, LateRequestsStay
  <2>6. RequestTypes' /\ RunsAreSound'
    BY <2>1, <2>2, <2>3, <2>4, <2>5 DEF RequestTypes, ServerStep, ScreenFits, LoopAts
  <2> QED BY <2>1, <2>2, <2>3, <2>4, <2>6 DEF MonitorInvariant, ScreenFits
<1> QED BY <1>1, <1>2

LEMMA TrueMonitor ==
  ASSUME MonitorInvariant
  PROVE  MonitorIsTrue /\ RestsOnTruth
<1>1. /\ RequestTypes /\ ScreenTypes /\ RunsAreSound /\ ViewIsTrue /\ ShownIsTrue /\ EndIsTrue
      /\ RestIsTrue
  BY DEF MonitorInvariant
<1>2. Monitor!TypeOK
  BY <1>1 DEF Monitor!TypeOK, RequestTypes, ScreenTypes, Responses, Listings
<1>3. Monitor!ShownIsOwn
  BY <1>1 DEF Monitor!ShownIsOwn, ShownIsTrue, ViewIsTrue
<1>4. Monitor!EndsAreTrue
  <2>1. SUFFICES ASSUME view.run # None, Final(shown)
                 PROVE  /\ server[view.run].status = shown.status
                        /\ shown.status = "running" => ~server[view.run].active
                        /\ listing.at = "idle" /\ ~listing.failed =>
                             listed.results = server[view.run].results
    BY DEF Monitor!EndsAreTrue, Final
  <2>2. Tells(shown, server[view.run])
    BY <1>1, <2>1 DEF EndIsTrue
  <2>3. ASSUME listing.at = "idle", ~listing.failed
        PROVE  listed.results = server[view.run].results
    <3>1. shown.run = view.run
      BY <1>1, <2>1 DEF ShownIsTrue, Final, Monitor!IsOver
    <3>2. listing.observation.results = server[view.run].results
      BY <1>1, <2>1, <2>2, <3>1 DEF ShownIsTrue, ObservationOf, Monitor!Signature, Tells
    <3>3. listing.observation.results <= listed.results /\ listed.results <= server[view.run].results
      BY <1>1, <2>1, <2>3 DEF ViewIsTrue, Lists
    <3>4. listed.results \in Nat /\ server[view.run].results \in Nat
      BY <1>1, <2>1, RunInView DEF ScreenTypes, RequestTypes, RunRecords
    <3> QED BY <3>2, <3>3, <3>4
  <2> QED BY <2>2, <2>3 DEF Tells
<1>5. Monitor!RestsOnTruth
  <2>1. SUFFICES ASSUME Monitor!AtRest, ~disturbed, ~shown.overtaken
                 PROVE  /\ shown.status = server[view.run].status
                        /\ shown.status # "ended" => ~server[view.run].active
    BY DEF Monitor!RestsOnTruth
  <2>2. view.run # None /\ ~polling /\ ~Awaited /\ ~note.error
    BY <2>1 DEF Monitor!AtRest, Awaited
  <2>3. CASE Monitor!IsOver(shown)
    BY <1>1, <2>1, <2>2, <2>3 DEF EndIsTrue, Final, Tells, Monitor!IsOver
  <2>4. CASE ~Monitor!IsOver(shown)
    BY <1>1, <2>1, <2>2, <2>4 DEF RestIsTrue, IsIdle
  <2> QED BY <2>3, <2>4
<1> QED BY <1>2, <1>3, <1>4, <1>5 DEF MonitorIsTrue, Monitor!MonitorIsTrue, RestsOnTruth

LEMMA MonitorHolds == Monitor!Spec => []MonitorInvariant
<1>1. Monitor!Init => MonitorInvariant
  BY MonitorStartsTrue
<1>2. MonitorInvariant /\ [Monitor!Next]_Monitor!vars => MonitorInvariant'
  BY MonitorGoesOn
<1> QED BY <1>1, <1>2, PTL DEF Monitor!Spec

\* Whatever is lost, answers late, is crossed by a command or comes after the
\* polling was told to stop: what is shown and listed is of the current Run;
\* a Run that is shown as ended has ended, one shown as left by its task has
\* no task, and the Results of either are all listed unless a listing is
\* under way or failed.  Only an answer of GET execution that a whole Run
\* overtook may show as left by its task a Run that has ended
\* (useRunExecution.ts, App.tsx, GET /api/runs/{run_id}/execution).
THEOREM MonitorStaysTrue == Monitor!Spec => []MonitorIsTrue
<1>1. MonitorInvariant => MonitorIsTrue
  BY TrueMonitor
<1> QED BY <1>1, MonitorHolds, PTL

\* A monitor that has stopped asking, and shows no error, shows the status of
\* the Run, and no task is left that it does not know of.  Until the next
\* reading this is not promised after an answer that a whole Run overtook, a
\* reading of App.tsx that a command crossed, an answer of the polling that
\* comes after it was told to stop, and a command that was given up or left
\* behind and is handled late (useRunExecution.ts, App.tsx,
\* GET /api/runs/{run_id}/execution).
THEOREM RestStaysTrue == Monitor!Spec => []RestsOnTruth
<1>1. MonitorInvariant => RestsOnTruth
  BY TrueMonitor
<1> QED BY <1>1, MonitorHolds, PTL

-----------------------------------------------------------------------------
(* The composition that TLC checks. *)

\* A behaviour of the composition is one of each client.
LEMMA ClientsBehave == BrowserSpec => Spec /\ Monitor!Spec
<1>1. BrowserInit => Init /\ Monitor!Init
  BY DEF BrowserInit
<1>2. [BrowserNext]_<<which, monitoring, vars>> => [Next]_vars
  BY DEF BrowserNext, EditorsNext, MonitorNext
<1>3. [BrowserNext]_<<which, monitoring, vars>> => [Monitor!Next]_Monitor!vars
  BY DEF BrowserNext, EditorsNext, MonitorNext, monitoring, Monitor!vars
<1> QED BY <1>1, <1>2, <1>3, PTL DEF BrowserSpec, Spec, Monitor!Spec

\* The two clients as TLC checks them, from the assumptions on their constants
\* that TLC evaluates: each is sound in every behaviour.
THEOREM BrowserIsTrue ==
  BrowserSpec => /\ []SelectionsExist /\ []ReadsAreSound /\ []LoadedLinkIsTrue
                 /\ []MonitorIsTrue /\ []RestsOnTruth
                 /\ OverwritesOnlyWhatWasLoaded
BY ClientsBehave, SelectionsStayValid, ReadsStaySound, LoadedLinkStaysTrue, MonitorStaysTrue,
   RestStaysTrue, NoLostUpdate, PTL
=============================================================================
