---------------------------- MODULE GlobalLibrary ----------------------------
(***************************************************************************)
(* The library of Workflows that all Projects share (db/global_workflows.  *)
(* py): authoring, copies to and from a Project, and the import of the     *)
(* Workflow of a Run.  Each command carries a request id, and is sent      *)
(* again whenever its answer did not arrive; a receipt, written in the     *)
(* transaction of the command, answers it then.  Authoring and copies keep *)
(* their receipts apart.  An import looks for its receipt, reads the Run   *)
(* and then opens its transaction, which looks for the receipt again.      *)
(***************************************************************************)
EXTENDS Integers, FiniteSetsExt

CONSTANTS Clients,
          RequestIds,
          Names, Contents,      \* Contents: of Workflows
          Mappings, Fits,       \* Mappings: of Profiles; Fits: the pairs that are valid
          Frozen,               \* [content, mapping] of the Run
          MaxReceipts,          \* bound on the commands that are carried out
          None

VARIABLES family,    \* Workflows and Profiles by identity
          version,   \* their versions by identity
          authored,  \* authoring receipts by request id
          copied,    \* copy receipts by request id
          there,     \* the Run can be read
          import,    \* the import each client is in
          answered   \* all successful answers so far, with their commands

vars == <<family, version, authored, copied, there, import, answered>>

Quiet == [step |-> "none"]
Nobody == 0                                     \* no such identity

(* The rows of a table with one more, or a receipt more. *)
Insert(rows, x, row) == [y \in DOMAIN rows \cup {x} |-> IF y = x THEN row ELSE rows[y]]

NextId == Cardinality(DOMAIN family) + Cardinality(DOMAIN version) + 1

VersionsOf(f) == {v \in DOMAIN version : version[v].owner = f}

NextNumber(f) == Max({0} \cup {version[v].number : v \in VersionsOf(f)}) + 1

(* UNIQUE (name) of Workflows and UNIQUE (workflow_id, name) of Profiles,  *)
(* archived or not.  The Project has the same constraints of its own.      *)
NameIsFree(scope, parent, n) ==
  \A f \in DOMAIN family :
    family[f].scope = scope /\ family[f].parent = parent => family[f].name # n

Family(scope, parent, n) == [scope |-> scope, parent |-> parent, name |-> n, archived |-> FALSE]

Version(f, number, content, target) ==
  [owner |-> f, number |-> number, content |-> content, target |-> target, archived |-> FALSE]

FamilyIsActive(f) == f \in DOMAIN family /\ ~family[f].archived

\* Seeded fault: a request id is enough to be answered from its receipt.
AnswersAny(receipts, r, command) == r \in DOMAIN receipts

(* The receipt of another command refuses the request id. *)
Answers(receipts, r, command) == r \in DOMAIN receipts /\ receipts[r].command = command

Answered(table, r, command, response) ==
  answered' = answered \cup {[table |-> table, id |-> r, command |-> command, response |-> response]}

MayCommit == Cardinality(DOMAIN authored) + Cardinality(DOMAIN copied) < MaxReceipts

Author(r, command, response) ==
  /\ MayCommit
  /\ authored' = Insert(authored, r, [command |-> command, response |-> response])
  /\ Answered("authoring", r, command, response)
  /\ UNCHANGED <<copied, there, import>>

-----------------------------------------------------------------------------
(* _author: the receipt is looked for first, in the same transaction. *)
Replay(r, command) ==
  /\ Answers(authored, r, command)
  /\ Answered("authoring", r, command, authored[r].response)
  /\ UNCHANGED <<family, version, authored, copied, there, import>>

CreateWorkflow(r, n, t) ==
  LET f == NextId
      row == Family("global", Nobody, n)
  IN  /\ r \notin DOMAIN authored
      /\ NameIsFree("global", Nobody, n)
      /\ family' = Insert(family, f, row)
      /\ version' = Insert(version, f + 1, Version(f, 1, t, Nobody))
      /\ Author(r, <<"workflow", n, t>>, [made |-> {f, f + 1}, row |-> row])

AppendWorkflow(r, f, t) ==
  /\ r \notin DOMAIN authored
  /\ FamilyIsActive(f)
  /\ family[f].scope = "global" /\ family[f].parent = Nobody
  /\ version' = Insert(version, NextId, Version(f, NextNumber(f), t, Nobody))
  /\ Author(r, <<"version", f, t>>, [made |-> {NextId}, row |-> family[f]])
  /\ UNCHANGED family

(* The Workflow, its version and the Profile are active, and fit. *)
MayTarget(w, v, m) ==
  /\ FamilyIsActive(w)
  /\ family[w].scope = "global"
  /\ v \in VersionsOf(w)
  /\ ~version[v].archived
  /\ <<m, version[v].content>> \in Fits

CreateProfile(r, w, v, n, m) ==
  LET f == NextId
      row == Family("global", w, n)
  IN  /\ r \notin DOMAIN authored
      /\ MayTarget(w, v, m)
      /\ NameIsFree("global", w, n)
      /\ family' = Insert(family, f, row)
      /\ version' = Insert(version, f + 1, Version(f, 1, m, v))
      /\ Author(r, <<"profile", w, v, n, m>>, [made |-> {f, f + 1}, row |-> row])

AppendProfile(r, f, v, m) ==
  /\ r \notin DOMAIN authored
  /\ FamilyIsActive(f)
  /\ family[f].parent # Nobody
  /\ MayTarget(family[f].parent, v, m)
  /\ version' = Insert(version, NextId, Version(f, NextNumber(f), m, v))
  /\ Author(r, <<"profile_version", f, v, m>>, [made |-> {NextId}, row |-> family[f]])
  /\ UNCHANGED family

UpdateMetadata(r, f, n) ==
  LET row == [family[f] EXCEPT !.name = n]
  IN  /\ r \notin DOMAIN authored
      /\ family[f].scope = "global"
      /\ family[f].name = n \/ NameIsFree("global", family[f].parent, n)
      /\ family' = [family EXCEPT ![f] = row]
      /\ Author(r, <<"metadata", f, n>>, [made |-> {}, row |-> row])
      /\ UNCHANGED version

(* One endpoint for families and versions, and to take them back. *)
SetArchived(r, x, archived) ==
  /\ r \notin DOMAIN authored
  /\ \/ /\ x \in DOMAIN family
        /\ family[x].scope = "global"
        /\ family' = [family EXCEPT ![x].archived = archived]
        /\ Author(r, <<"archive", x, archived>>, [made |-> {}, row |-> family'[x]])
        /\ UNCHANGED version
     \/ /\ x \in DOMAIN version
        /\ family[version[x].owner].scope = "global"
        /\ version' = [version EXCEPT ![x].archived = archived]
        /\ Author(r, <<"archive", x, archived>>, [made |-> {}, row |-> version'[x]])
        /\ UNCHANGED family

-----------------------------------------------------------------------------
(* _write_copy: one Workflow with its first version, the chosen Profiles,  *)
(* and the receipt.                                                        *)
WriteCopy(r, command, scope, n, content, mappings) ==
  LET f == NextId
      row == Family(scope, Nobody, n)
      families == Insert(family, f, row)
      versions == Insert(version, f + 1, Version(f, 1, content, Nobody))
      profiled == mappings # {}
      made == f .. (IF profiled THEN f + 3 ELSE f + 1)
      response == [made |-> made, row |-> row]
  IN  /\ MayCommit
      /\ NameIsFree(scope, Nobody, n)
      /\ family' = IF profiled THEN Insert(families, f + 2, Family(scope, f, n)) ELSE families
      /\ version' = IF profiled
                    THEN Insert(versions, f + 3, Version(f + 2, 1, CHOOSE m \in mappings : TRUE, f + 1))
                    ELSE versions
      /\ copied' = Insert(copied, r, [command |-> command, response |-> response])
      /\ Answered("copy", r, command, response)

ReplayCopy(r, command) ==
  /\ Answers(copied, r, command)
  /\ Answered("copy", r, command, copied[r].response)
  /\ UNCHANGED <<family, version, authored, copied, there, import>>

Other(scope) == IF scope = "global" THEN "project" ELSE "global"

(* copy: an exact version, with at most one Profile version that targets it. *)
Copy(r, v, profiles, n) ==
  LET scope == family[version[v].owner].scope
  IN  /\ r \notin DOMAIN copied
      /\ version[v].target = Nobody
      /\ \A p \in profiles : version[p].target = v
      /\ WriteCopy(r, <<"copy", v, profiles, n>>, Other(scope), n, version[v].content,
                   {version[p].content : p \in profiles})
      /\ UNCHANGED <<authored, there, import>>

Imported(n, expected) == <<"import", n, expected>>

(* import_historical_setup of the service: historical_import_receipt ... *)
LookUp(c, r, n, expected) ==
  /\ import[c] = Quiet
  /\ r \notin DOMAIN copied
  /\ import' = [import EXCEPT ![c] = [step |-> "load", id |-> r, name |-> n, expected |-> expected]]
  /\ UNCHANGED <<family, version, authored, copied, there, answered>>

(* ... get_historical_setup, which fails for a Run that is not there ... *)
Load(c) ==
  /\ import[c].step = "load"
  /\ import' = [import EXCEPT ![c] = IF there THEN [import[c] EXCEPT !.step = "write"] ELSE Quiet]
  /\ UNCHANGED <<family, version, authored, copied, there, answered>>

(* ... and the transaction. *)
WriteImport(c) ==
  LET i == import[c]
      command == Imported(i.name, i.expected)
  IN  /\ i.step = "write"
      /\ import' = [import EXCEPT ![c] = Quiet]
      /\ \/ /\ i.id \notin DOMAIN copied
            /\ i.expected \in {None, Frozen.content}
            /\ <<Frozen.mapping, Frozen.content>> \in Fits
            /\ WriteCopy(i.id, command, "global", i.name, Frozen.content, {Frozen.mapping})
         \/ /\ Answers(copied, i.id, command)
            /\ Answered("copy", i.id, command, copied[i.id].response)
            /\ UNCHANGED <<family, version, copied>>
         \/ /\ IF i.id \in DOMAIN copied THEN ~Answers(copied, i.id, command)
               ELSE \/ i.expected \notin {None, Frozen.content}
                    \/ <<Frozen.mapping, Frozen.content>> \notin Fits
                    \/ ~NameIsFree("global", Nobody, i.name)
            /\ UNCHANGED <<family, version, copied, answered>>
      /\ UNCHANGED <<authored, there>>

(* The directory of the Run is moved away, or back. *)
MoveRun ==
  /\ there' = ~there
  /\ UNCHANGED <<family, version, authored, copied, import, answered>>

Init ==
  /\ family = <<>>
  /\ version = <<>>
  /\ authored = <<>>
  /\ copied = <<>>
  /\ there = TRUE
  /\ import = [c \in Clients |-> Quiet]
  /\ answered = {}

(* What is sent again, or under an id that another command has used. *)
Commands(receipts) == {receipts[r].command : r \in DOMAIN receipts}

Next ==
  \/ \E r \in RequestIds :
       \/ \E n \in Names, t \in Contents : CreateWorkflow(r, n, t)
       \/ \E f \in DOMAIN family, t \in Contents : AppendWorkflow(r, f, t)
       \/ \E w \in DOMAIN family, v \in DOMAIN version, n \in Names, m \in Mappings :
            CreateProfile(r, w, v, n, m)
       \/ \E f \in DOMAIN family, v \in DOMAIN version, m \in Mappings : AppendProfile(r, f, v, m)
       \/ \E f \in DOMAIN family, n \in Names : UpdateMetadata(r, f, n)
       \/ \E x \in DOMAIN family \cup DOMAIN version, archived \in BOOLEAN : SetArchived(r, x, archived)
       \/ \E command \in Commands(authored) : Replay(r, command)
       \/ \E v \in DOMAIN version, n \in Names :
            \E profiles \in {{}} \cup {{p} : p \in DOMAIN version} : Copy(r, v, profiles, n)
       \/ \E command \in Commands(copied) : ReplayCopy(r, command)
  \/ \E c \in Clients :
       \/ \E r \in RequestIds, n \in Names, expected \in Contents \cup {None} : LookUp(c, r, n, expected)
       \/ Load(c) \/ WriteImport(c)
  \/ MoveRun

Spec == Init /\ [][Next]_vars

-----------------------------------------------------------------------------
TypeOK ==
  /\ \A f \in DOMAIN family : family[f].name \in Names /\ family[f].parent \in DOMAIN family \cup {Nobody}
  /\ \A v \in DOMAIN version : version[v].owner \in DOMAIN family /\ version[v].number \in Nat
  /\ DOMAIN authored \cup DOMAIN copied \subseteq RequestIds
  /\ \A c \in Clients : import[c].step \in {"none", "load", "write"}

(* However often a command is sent, and whoever else uses its request id:  *)
(* all answers under the id are to one command, and the same answer.       *)
AnswersAgree ==
  \A a, b \in answered : a.table = b.table /\ a.id = b.id => a = b

(* Nothing is made twice, and nothing without a receipt: every identity of *)
(* the two libraries is in exactly one answer.                             *)
MadeOnce ==
  LET makers(x) == {a \in answered : x \in a.response.made}
  IN  \A x \in DOMAIN family \cup DOMAIN version : Cardinality(makers(x)) = 1

(* Versions are numbered without a gap, and Profile versions target the    *)
(* Workflow their Profile belongs to, in the same library.                 *)
VersionsAreSound ==
  /\ \A f \in DOMAIN family : {version[v].number : v \in VersionsOf(f)} = 1 .. Cardinality(VersionsOf(f))
  /\ \A v \in DOMAIN version :
       version[v].target # Nobody =>
         /\ version[version[v].target].owner = family[version[v].owner].parent
         /\ <<version[v].content, version[version[v].target].content>> \in Fits
  /\ \A f, g \in DOMAIN family :
       family[f].scope = family[g].scope /\ family[f].parent = family[g].parent
         /\ family[f].name = family[g].name => f = g

\* A command repeated under its key, also after a failure, after the row it made
\* was edited or after another command, answers with what the first one made and
\* makes nothing; and the library stays well formed under every command.
CommandsAreIdempotent == TypeOK /\ AnswersAgree /\ MadeOnce /\ VersionsAreSound
=============================================================================
