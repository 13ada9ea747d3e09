------------------------ MODULE SavedBatchDefinition ------------------------
(***************************************************************************)
(* What a Saved Batch may hold (db/saved_batches.py): a definition is put  *)
(* into the Profile's order, checked by itself, counted against the Job    *)
(* budget, checked against the libraries of its Project, and written into  *)
(* child tables with a position for every row.  Reading takes the rows     *)
(* back and validates them a second time, with checks of its own.          *)
(*                                                                         *)
(* A snapshot of a workflow or a Profile is its identity, its content and  *)
(* the digest that came with it.  Whatever the checks of a string cannot   *)
(* tell apart is one value; "" is a blank one.                             *)
(***************************************************************************)
EXTENDS ParameterRange, SequencesExt, FiniteSets

CONSTANTS Definitions,             \* what clients send
          Budgets,                 \* max_jobs, which a restart may change
          Project,                 \* the Project of the Saved Batch
          PromptLibrary,           \* [version -> [project, text]]
          WorkflowLibrary,         \* [version -> [workflow, project, content]]
          ProfileLibrary,          \* [profile -> [workflow, project]]
          ProfileVersionLibrary,   \* [version -> [profile, workflow, project, target, content]]
          SlotsOf, ParametersOf,   \* what the content of a Profile version declares
          MaxSeed, MaxRandomSeeds

IsList(seq) == seq \in Seq(Range(seq))

\* What every request has, whatever it asks for: the fields of its parts, and
\* an intent lists values or gives a range.
IsImage(b) == b = [key |-> b.key, values |-> b.values] /\ IsList(b.values)

IsBound(x) ==
    /\ x = [key |-> x.key, mode |-> x.mode, values |-> x.values, base |-> x.base, range |-> x.range]
    /\ IsList(x.values)
    /\ IF x.mode = "values" THEN ~x.base /\ x.range = <<>>
       ELSE x.values = <<>> /\ x.range # <<>> /\ IsDecimalRange(x.range)

IsLinked(set) ==
    /\ set = [key |-> set.key, label |-> set.label, members |-> set.members, rows |-> set.rows]
    /\ IsList(set.members)
    /\ IsList(set.rows) /\ \A row \in Range(set.rows) : IsList(row)

IsRequest(d) ==
    /\ DOMAIN d = {"name", "seeds", "prompts", "variables", "images", "intents", "sets",
                   "workflow", "profile", "target"}
    /\ IsList(d.prompts) /\ IsList(d.variables)
    /\ IsList(d.images) /\ \A b \in Range(d.images) : IsImage(b)
    /\ IsList(d.intents) /\ \A x \in Range(d.intents) : IsBound(x)
    /\ IsList(d.sets) /\ \A set \in Range(d.sets) : IsLinked(set)
    /\ d.target # <<>> => IsList(ParametersOf[d.target[1].content])

DefinitionAssumption ==
    /\ Budgets \subseteq Nat
    /\ MaxSeed \in Nat
    /\ MaxRandomSeeds \in Nat
    /\ \A d \in Definitions : IsRequest(d)

VARIABLES definition,  \* the definition of the call under way
          stage,       \* "idle", "given", "ordered", "valid", "budgeted"
          budget,      \* max_jobs of the running server
          rows,        \* the child tables, {} before the first save
          accepted     \* the definition of the last commit, if there was one

vars == <<definition, stage, budget, rows, accepted>>

Blank == ""

\* Between two calls.
NoDefinition == [name |-> Blank]

BaseAsset == "base"

\* A selection that may be missing is a sequence of at most one element.
Selected(choice) == choice # <<>>

Keys(seq) == [i \in DOMAIN seq |-> seq[i].key]
Members(d) == UNION {Range(set.members) : set \in Range(d.sets)}
ProfileParameters(d) == ParametersOf[d.target[1].content]
ProfileKeys(d) == Keys(ProfileParameters(d))
TypeOfKey(parameters, key) == (CHOOSE p \in Range(parameters) : p.key = key).type

\* The member of a set of positions that has n of them up to itself.
Nth(positions, n) == CHOOSE i \in positions : Cardinality({j \in positions : j <= i}) = n

\* The Profile's parameters that no linked set holds, in its order.
IndependentKeys(d) ==
    LET keys == ProfileKeys(d)
        free == {i \in DOMAIN keys : keys[i] \notin Members(d)} IN
    [n \in 1 .. Cardinality(free) |-> keys[Nth(free, n)]]

Stored == Selected(accepted)
Accepted == accepted[1]

Product(ns) ==
    LET upTo[n \in 0 .. Len(ns)] == IF n = 0 THEN 1 ELSE upTo[n - 1] * ns[n] IN
    upTo[Len(ns)]

-----------------------------------------------------------------------------
\* _normalize_parameter_bindings: only a complete set of bindings is ordered.
InProfileOrder(d) ==
    LET keys == IndependentKeys(d) IN
    IF Selected(d.target) /\ IsInjective(Keys(d.intents)) /\ Range(Keys(d.intents)) = Range(keys)
    THEN [d EXCEPT !.intents =
            [i \in DOMAIN keys |-> CHOOSE x \in Range(d.intents) : x.key = keys[i]]]
    ELSE d

SeedsAreValid(seeds) ==
    /\ \A v \in Range(seeds.values) : v \in 0 .. MaxSeed
    /\ seeds.mode = "fixed" => Len(seeds.values) = 1
    /\ seeds.mode = "explicit" => seeds.values # <<>>
    /\ IF seeds.mode = "random"
       THEN seeds.values = <<>> /\ seeds.count \in 1 .. MaxRandomSeeds
       ELSE seeds.count = 0

BaseComesFirst(values) ==
    \A i \in DOMAIN values : values[i] = BaseAsset => values[1] = BaseAsset

ImageIsValid(image) ==
    /\ image.values # <<>>
    /\ IsInjective(image.values)
    /\ Blank \notin Range(image.values)
    /\ BaseComesFirst(image.values)

SetIsValid(set) ==
    /\ set.label # Blank
    /\ Len(set.members) >= 2
    /\ IsInjective(set.members)
    /\ set.rows # <<>>
    /\ \A row \in Range(set.rows) : Len(row) = Len(set.members)

SetsAreDisjoint(sets) ==
    \A i, j \in DOMAIN sets :
        i # j => sets[i].key # sets[j].key /\ Range(sets[i].members) \cap Range(sets[j].members) = {}

\* _validate_definition
IsDefinition(d) ==
    /\ d.name # Blank
    /\ SeedsAreValid(d.seeds)
    /\ \A b \in Range(d.variables) : IsInjective(b.values)
    /\ \A b \in Range(d.images) : ImageIsValid(b)
    /\ IsInjective(Keys(d.images)) /\ Blank \notin Range(Keys(d.images))
    /\ \A x \in Range(d.intents) : x.mode = "values" => AreAlternatives(x.values)
    /\ IsInjective(Keys(d.intents)) /\ Blank \notin Range(Keys(d.intents))
    /\ \A set \in Range(d.sets) : SetIsValid(set)
    /\ SetsAreDisjoint(d.sets)
    /\ Selected(d.target) => d.profile = <<d.target[1].profile>>

IntentIsKnown(parameters, x) ==
    /\ x.key \in Range(Keys(parameters))
    /\ IsIntent(TypeOfKey(parameters, x.key), x)

RowCounts(d) == [i \in DOMAIN d.sets |-> Len(d.sets[i].rows)]
IntentCounts(d) == [i \in DOMAIN d.intents |-> IntentCount(d.intents[i])]

\* check_materialization_budget, before the database is opened.
FitsBudget(d) ==
    Selected(d.target) =>
        /\ \A x \in Range(d.intents) : IntentIsKnown(ProfileParameters(d), x)
        /\ Product(IntentCounts(d) \o RowCounts(d)) <= budget

-----------------------------------------------------------------------------
\* _validate_library_selections, in the transaction.
PromptsAreKnown(d) ==
    \A s \in Range(d.prompts) :
        /\ s.version \in DOMAIN PromptLibrary
        /\ PromptLibrary[s.version] = [project |-> Project, text |-> s.text]

\* _require_snapshot_match
Matches(snapshot, stored) == snapshot.digest = snapshot.content /\ snapshot.content = stored.content

WorkflowIsKnown(d) ==
    Selected(d.workflow) =>
        /\ d.workflow[1].id \in DOMAIN WorkflowLibrary
        /\ WorkflowLibrary[d.workflow[1].id].project = Project
        /\ Matches(d.workflow[1], WorkflowLibrary[d.workflow[1].id])

ProfileIsKnown(d) ==
    Selected(d.profile) =>
        /\ d.profile[1] \in DOMAIN ProfileLibrary
        /\ ProfileLibrary[d.profile[1]].project = Project

TargetIsKnown(d) ==
    LET t == d.target[1]
        stored == ProfileVersionLibrary[t.id]
        workflow == WorkflowLibrary[d.workflow[1].id].workflow IN
    /\ t.id \in DOMAIN ProfileVersionLibrary
    /\ stored.profile = d.profile[1] /\ stored.project = Project
    /\ stored.target = t.version
    /\ Selected(d.workflow) /\ stored.target = d.workflow[1].id
    /\ ProfileLibrary[d.profile[1]].workflow = workflow /\ stored.workflow = workflow
    /\ Matches(t, stored)

BindsInOrder(d) ==
    /\ Keys(d.images) = SlotsOf[d.target[1].content]
    /\ Keys(d.intents) = IndependentKeys(d)

\* The structural part of count_batch, for parameters alone.
CellsAreAccepted(parameters, set) ==
    /\ Range(set.members) \subseteq Range(Keys(parameters))
    /\ \A row \in Range(set.rows) : \A i \in DOMAIN row :
        IsScalar(row[i]) /\ Accepts(TypeOfKey(parameters, set.members[i]), row[i])
    /\ IsInjective([r \in DOMAIN set.rows |->
                     [i \in DOMAIN set.rows[r] |-> ValueKey(set.rows[r][i])]])

CoversParameters(parameters, intents, sets) ==
    \A key \in Range(Keys(parameters)) :
        key \in Range(Keys(intents)) <=> \A set \in Range(sets) : key \notin Range(set.members)

Countable(parameters, intents, sets) ==
    /\ \A x \in Range(intents) :
        IntentIsKnown(parameters, x) /\ IsMaterial(TypeOfKey(parameters, x.key), x)
    /\ \A set \in Range(sets) : CellsAreAccepted(parameters, set)
    /\ CoversParameters(parameters, intents, sets)

AtLeastOne(n) == IF n < 1 THEN 1 ELSE n

\* The bounds of materialization and of the count.
CountFits(d) ==
    /\ Product(IntentCounts(d)) <= budget \div AtLeastOne(Product(RowCounts(d)))
    /\ Product(IntentCounts(d) \o RowCounts(d)) <= budget

WithoutTarget(d) ==
    /\ Selected(d.profile) /\ Selected(d.workflow) =>
        ProfileLibrary[d.profile[1]].workflow = WorkflowLibrary[d.workflow[1].id].workflow
    /\ d.images = <<>> /\ d.intents = <<>> /\ d.sets = <<>>

SelectionsAreKnown(d) ==
    /\ PromptsAreKnown(d) /\ WorkflowIsKnown(d) /\ ProfileIsKnown(d)
    /\ IF Selected(d.target)
       THEN /\ TargetIsKnown(d)
            /\ BindsInOrder(d)
            /\ Countable(ProfileParameters(d), d.intents, d.sets)
       ELSE WithoutTarget(d)

-----------------------------------------------------------------------------
\* The child tables: every row carries its position, counted from one.
NoRows == [prompts |-> {}, variables |-> {}, images |-> {}, imageValues |-> {},
           intents |-> {}, intentValues |-> {}, sets |-> {}, members |-> {},
           setRows |-> {}, cells |-> {}]

Positions(seq) == {[position |-> i, value |-> seq[i]] : i \in DOMAIN seq}
Nested(seqs) ==
    UNION {{[parent |-> i, position |-> j, value |-> seqs[i][j]] : j \in DOMAIN seqs[i]} : i \in DOMAIN seqs}

Versions(seq) == [i \in DOMAIN seq |-> seq[i].version]
Values(seq) == [i \in DOMAIN seq |-> seq[i].values]
Emptied(seq) == [i \in DOMAIN seq |-> [seq[i] EXCEPT !.values = <<>>]]
Names(seq) == [i \in DOMAIN seq |-> [key |-> seq[i].key, label |-> seq[i].label]]
MembersOf(seq) == [i \in DOMAIN seq |-> seq[i].members]
Widths(seq) == [i \in DOMAIN seq |-> [r \in DOMAIN seq[i].rows |-> Len(seq[i].rows[r])]]

\* _replace_children: what one definition is written as.
RowsOf(d) ==
    [prompts |-> Positions(Versions(d.prompts)),
     variables |-> Positions(d.variables),
     images |-> Positions(Keys(d.images)),
     imageValues |-> Nested(Values(d.images)),
     intents |-> Positions(Emptied(d.intents)),
     intentValues |-> Nested(Values(d.intents)),
     sets |-> Positions(Names(d.sets)),
     members |-> Nested(MembersOf(d.sets)),
     setRows |-> Nested(Widths(d.sets)),
     cells |-> UNION {{[set |-> i, row |-> r, member |-> m, value |-> d.sets[i].rows[r][m]] :
                         r \in DOMAIN d.sets[i].rows, m \in DOMAIN d.sets[i].members} :
                       i \in DOMAIN d.sets}]

\* Seeded fault: the rows of the linked sets are not deleted before the new
\* ones are inserted.
ReplacedButSets(d) ==
    LET new == RowsOf(d) IN
    [new EXCEPT !.sets = @ \cup rows.sets, !.members = @ \cup rows.members,
                !.setRows = @ \cup rows.setRows, !.cells = @ \cup rows.cells]

Replaced(d) == RowsOf(d)

\* The rows in the order of their positions, which must be contiguous.
InOrder(table) == [i \in 1 .. Cardinality(table) |-> (CHOOSE r \in table : r.position = i).value]
Contiguous(table) == {r.position : r \in table} = 1 .. Cardinality(table)
Of(table, i) == {r \in table : r.parent = i}

\* _prompt_selections, _image_bindings_from_rows, _parameter_bindings_from_rows
\* and _linked_parameter_sets_from_rows.
ReadImages == LET keys == InOrder(rows.images) IN
    [i \in DOMAIN keys |-> [key |-> keys[i], values |-> InOrder(Of(rows.imageValues, i))]]

ReadIntents == LET intents == InOrder(rows.intents) IN
    [i \in DOMAIN intents |-> [intents[i] EXCEPT !.values = InOrder(Of(rows.intentValues, i))]]

CellOf(i, r, m) == (CHOOSE c \in rows.cells : c.set = i /\ c.row = r /\ c.member = m).value

ReadSets == LET sets == InOrder(rows.sets) IN
    [i \in DOMAIN sets |->
        LET members == InOrder(Of(rows.members, i)) IN
        [key |-> sets[i].key, label |-> sets[i].label, members |-> members,
         rows |-> [r \in 1 .. Cardinality(Of(rows.setRows, i)) |->
                     [m \in DOMAIN members |-> CellOf(i, r, m)]]]]

\* The checks of the readers on the rows themselves.
TablesAreWhole ==
    /\ Contiguous(rows.images) /\ Contiguous(rows.intents) /\ Contiguous(rows.sets)
    /\ \A r \in rows.images : Contiguous(Of(rows.imageValues, r.position))
    /\ \A r \in rows.intents : Contiguous(Of(rows.intentValues, r.position))
    /\ \A r \in rows.sets :
        LET members == Of(rows.members, r.position)
            setRows == Of(rows.setRows, r.position)
            cells == {c \in rows.cells : c.set = r.position} IN
        /\ Contiguous(members) /\ Cardinality(members) >= 2
        /\ Contiguous(setRows) /\ setRows # {}
        /\ \A x \in setRows :
            {c.member : c \in {c \in cells : c.row = x.position}} = {m.position : m \in members}

IntentIsWhole(x) ==
    IF x.mode = "values" THEN ~x.base /\ x.range = <<>> /\ AreAlternatives(x.values)
    ELSE x.range # <<>> /\ x.values = <<>>

\* _validate_persisted_parameter_bindings counts without a budget, so that a
\* lower one makes no stored Saved Batch unreadable.
ParametersStillFit(intents, sets) ==
    IF Selected(Accepted.target)
    THEN LET parameters == ProfileParameters(Accepted) IN
         /\ Countable(parameters, intents, sets)
         /\ \A i, j \in DOMAIN sets :
                i # j => Range(sets[i].members) \cap Range(sets[j].members) = {}
    ELSE intents = <<>> /\ sets = <<>>

\* _get_detail succeeds.
IsReadable ==
    /\ TablesAreWhole
    /\ \A b \in Range(ReadImages) : ImageIsValid(b)
    /\ \A x \in Range(ReadIntents) : IntentIsWhole(x)
    /\ \A r \in rows.variables : IsInjective(r.value.values)
    /\ ParametersStillFit(ReadIntents, ReadSets)

-----------------------------------------------------------------------------
Return == stage' = "idle" /\ definition' = NoDefinition

Refuse == Return /\ UNCHANGED <<budget, rows, accepted>>

Give(d) ==
    /\ stage = "idle"
    /\ definition' = d
    /\ stage' = "given"
    /\ UNCHANGED <<budget, rows, accepted>>

Normalize ==
    /\ stage = "given"
    /\ definition' = InProfileOrder(definition)
    /\ stage' = "ordered"
    /\ UNCHANGED <<budget, rows, accepted>>

ValidateDefinition ==
    /\ stage = "ordered"
    /\ IF IsDefinition(definition)
       THEN stage' = "valid" /\ UNCHANGED <<definition, budget, rows, accepted>>
       ELSE Refuse

CheckBudget ==
    /\ stage = "valid"
    /\ IF FitsBudget(definition)
       THEN stage' = "budgeted" /\ UNCHANGED <<definition, budget, rows, accepted>>
       ELSE Refuse

\* The transaction of create and update.
Commit ==
    /\ stage = "budgeted"
    /\ SelectionsAreKnown(definition)
    /\ Selected(definition.target) => CountFits(definition)
    /\ rows' = Replaced(definition)
    /\ accepted' = <<definition>>
    /\ Return
    /\ UNCHANGED budget

RefuseSelections ==
    /\ stage = "budgeted"
    /\ \/ ~SelectionsAreKnown(definition)
       \/ Selected(definition.target) /\ ~CountFits(definition)
    /\ Refuse

\* The server is started again with another budget.
Restart(max) ==
    /\ stage = "idle"
    /\ budget' = max
    /\ UNCHANGED <<definition, stage, rows, accepted>>

Init ==
    /\ definition = NoDefinition
    /\ stage = "idle"
    /\ budget \in Budgets
    /\ rows = NoRows
    /\ accepted = <<>>

Next ==
    \/ \E d \in Definitions : Give(d)
    \/ Normalize \/ ValidateDefinition \/ CheckBudget \/ Commit \/ RefuseSelections
    \/ \E max \in Budgets : Restart(max)

Spec == Init /\ [][Next]_vars

-----------------------------------------------------------------------------
\* Each variable has its type, and the tables have only the positions of
\* the rows they belong to.
TypeOK ==
    /\ stage \in {"idle", "given", "ordered", "valid", "budgeted"}
    /\ budget \in Budgets
    /\ {r.parent : r \in rows.imageValues} \subseteq {r.position : r \in rows.images}
    /\ {r.parent : r \in rows.members} = {r.position : r \in rows.sets}
    /\ {c.set : c \in rows.cells} = {r.position : r \in rows.sets}

\* What was accepted can be read back at any later time, under any budget:
\* the checks before a write are at least as strict as those of a read.
StoredIsReadable == Stored => IsReadable

\* Reading returns what was accepted, whatever the tables held before.
StoredIsWhatWasAccepted ==
    Stored =>
        /\ InOrder(rows.prompts) = Versions(Accepted.prompts)
        /\ InOrder(rows.variables) = Accepted.variables
        /\ ReadImages = Accepted.images
        /\ ReadIntents = Accepted.intents
        /\ ReadSets = Accepted.sets

\* Every parameter of the selected Profile version is bound exactly once, the
\* independent ones in the Profile's order however they were sent.
BoundOnceInOrder ==
    Stored /\ Selected(Accepted.target) =>
        LET keys == ProfileKeys(Accepted)
            place(key) == {i \in DOMAIN ReadIntents : ReadIntents[i].key = key}
            sets(key) == {i \in DOMAIN ReadSets : key \in Range(ReadSets[i].members)} IN
        /\ \A key \in Range(keys) : Cardinality(place(key)) + Cardinality(sets(key)) = 1
        /\ \A i, j \in DOMAIN keys : \A m \in place(keys[i]), n \in place(keys[j]) :
              i < j => m < n

\* Workflow, Profile and Profile version of a stored Saved Batch belong
\* together and are what the libraries of its Project hold.
SelectionsBelongTogether ==
    Stored /\ Selected(Accepted.target) =>
        LET t == Accepted.target[1]
            w == Accepted.workflow[1] IN
        /\ ProfileVersionLibrary[t.id].target = w.id
        /\ ProfileVersionLibrary[t.id].profile = Accepted.profile[1]
        /\ ProfileLibrary[Accepted.profile[1]].workflow = WorkflowLibrary[w.id].workflow
        /\ WorkflowLibrary[w.id].content = w.content
        /\ WorkflowLibrary[w.id].project = Project

\* The count before the transaction lets through only what the two counts
\* inside it let through: no write is refused for its size late.
BudgetsAgree ==
    stage = "budgeted" /\ Selected(definition.target) => CountFits(definition)
=============================================================================
