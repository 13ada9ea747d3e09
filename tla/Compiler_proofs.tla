--------------------------- MODULE Compiler_proofs ---------------------------
(***************************************************************************)
(* Proofs about the number of Jobs of a Batch and about their order: that  *)
(* the compiler refuses exactly the plans over the limit, that no two Jobs *)
(* of a Random plan share their seed, that the Jobs are those of the       *)
(* documented order, that a preview is created as it was seen, and that a  *)
(* stored plan is accepted if and only if it is what its snapshot compiles *)
(* to; for all requests, limits and draws of the shapes that               *)
(* CompilerAssumption names.  The bytes of their texts are the subject of  *)
(* PlanTexts_proofs.                                                       *)
(*                                                                         *)
(* A number of Jobs is a product of sizes for each prompt version and a    *)
(* sum over the versions, and so are the bytes of their texts.  The sizes  *)
(* are the request's, whichever stage counts them (SizesAgree), and every  *)
(* stage multiplies the same numbers by its own seeds.  A count that stays *)
(* within what the budget leaves, one dimension at a time, is therefore    *)
(* the whole count, and one that does not is less than the whole:          *)
(* CompilerInvariant says which part of a plan was counted (CountIsPartial,*)
(* CountIsWhole) and what the stages before have left of the budget        *)
(* (StagesAgree).                                                          *)
(*                                                                         *)
(* A plan is a function of the request and the seeds (PlanOf): the number  *)
(* of a configuration among those of its prompt, written in the sizes of   *)
(* the dimensions, is its choices (IsPlan).  PlanInvariant says that what  *)
(* the odometer has expanded so far is that plan up to its configuration   *)
(* (ExpansionIsPartial), what a stage takes for checked and its caller has *)
(* checked (SeedsAreKnown, RequestIsChecked, TextsAreResolved), and what   *)
(* the Jobs that the client holds were compiled from (PreviewIsKept,       *)
(* StoredIsJudged).                                                        *)
(***************************************************************************)
EXTENDS Planning_proofs

(* The compiler's sums and products are those of Sums. *)
LEMMA CompilerSums ==
  ASSUME NEW ns
  PROVE  Compiler!Total(ns) = Total(ns) /\ Compiler!Product(ns) = Product(ns)
BY DEF Compiler!Total, Total, Compiler!Product, Product

LEMMA CompilerSumsAre ==
  ASSUME NEW ns, Len(ns) \in Nat
  PROVE  IsSum(Sums(ns), ns) /\ Compiler!Total(ns) = Sums(ns)[Len(ns)]
BY CompilerSums, SumsAre

LEMMA CompilerProductsAre ==
  ASSUME NEW ns, Len(ns) \in Nat
  PROVE  IsRun(Products(ns), ns) /\ Compiler!Product(ns) = Products(ns)[Len(ns)]
BY CompilerSums, ProductsAre

\* The sums of naturals are naturals, and they do not fall.
LEMMA SumsAreNaturals ==
  ASSUME NEW ns \in Seq(Nat)
  PROVE  /\ \A n \in 0 .. Len(ns) : Sums(ns)[n] \in Nat
         /\ \A n \in 0 .. Len(ns) : Sums(ns)[n] <= Compiler!Total(ns)
         /\ Compiler!Total(ns) \in Nat
<1> DEFINE p == Sums(ns)
           S == {n \in Nat : p[n] \in Nat}
           T == {n \in Nat : p[Len(ns) - n] <= p[Len(ns)]}
<1>1. Len(ns) \in Nat /\ \A n \in 1 .. Len(ns) : ns[n] \in Nat
  OBVIOUS
<1>2. IsSum(p, ns) /\ Compiler!Total(ns) = p[Len(ns)]
  BY <1>1, CompilerSumsAre
<1> HIDE DEF p
<1>3. ASSUME NEW k \in 1 .. Len(ns) PROVE p[k] = p[k - 1] + ns[k]
  BY <1>2 DEF IsSum
<1>4. 0 .. Len(ns) \subseteq S
  <2>1. 0 \in S
    BY <1>2 DEF IsSum
  <2>2. ASSUME NEW k \in 0 .. Len(ns), k \in S, k < Len(ns) PROVE k + 1 \in S
    <3>1. k + 1 \in 1 .. Len(ns) /\ (k + 1) - 1 = k /\ k + 1 \in Nat
      BY <1>1, <2>2
    <3>2. p[k + 1] = p[k] + ns[k + 1] /\ ns[k + 1] \in Nat
      BY <1>1, <1>3, <3>1
    <3>3. QED
      BY <2>2, <3>1, <3>2
  <2> HIDE DEF S
  <2>3. QED
    BY <1>1, <2>1, <2>2, UpToBound
<1>5. \A n \in 0 .. Len(ns) : p[n] \in Nat
  BY <1>4
<1>6. 0 .. Len(ns) \subseteq T
  <2>1. 0 \in T
    BY <1>1, <1>5
  <2>2. ASSUME NEW k \in 0 .. Len(ns), k \in T, k < Len(ns) PROVE k + 1 \in T
    <3> DEFINE m == Len(ns) - k
    <3>1. m \in 1 .. Len(ns) /\ m - 1 \in 0 .. Len(ns) /\ Len(ns) - (k + 1) = m - 1 /\ k + 1 \in Nat
      BY <1>1, <2>2
    <3>2. p[m] = p[m - 1] + ns[m] /\ ns[m] \in Nat
      BY <1>1, <1>3, <3>1
    <3>3. p[m - 1] \in Nat /\ p[m] <= p[Len(ns)] /\ p[Len(ns)] \in Nat
      BY <1>1, <1>5, <2>2, <3>1
    <3>4. p[m - 1] <= p[Len(ns)]
      BY <3>2, <3>3
    <3>5. QED
      BY <3>1, <3>4
  <2> HIDE DEF T
  <2>3. QED
    BY <1>1, <2>1, <2>2, UpToBound
<1>7. ASSUME NEW n \in 0 .. Len(ns) PROVE p[n] <= p[Len(ns)]
  <2>1. Len(ns) - n \in 0 .. Len(ns) /\ Len(ns) - (Len(ns) - n) = n
    BY <1>1
  <2>2. QED
    BY <1>6, <2>1
<1>8. QED
  BY <1>1, <1>2, <1>5, <1>7 DEF p

\* The products of positive numbers are positive, and do not fall.
LEMMA ProductsArePositive ==
  ASSUME NEW ns \in Seq(Nat \ {0})
  PROVE  /\ \A n \in 0 .. Len(ns) : Products(ns)[n] \in Nat \ {0}
         /\ \A n \in 0 .. Len(ns) : Products(ns)[n] <= Compiler!Product(ns)
         /\ Compiler!Product(ns) \in Nat \ {0}
<1> DEFINE p == Products(ns)
           T == {n \in Nat : p[Len(ns) - n] <= p[Len(ns)]}
<1>1. Len(ns) \in Nat /\ \A n \in 1 .. Len(ns) : ns[n] \in Nat \ {0}
  OBVIOUS
<1>2. IsRun(p, ns) /\ Compiler!Product(ns) = p[Len(ns)]
  BY <1>1, CompilerProductsAre
<1> HIDE DEF p
<1>3. ASSUME NEW k \in 1 .. Len(ns) PROVE p[k] = p[k - 1] * ns[k]
  BY <1>2 DEF IsRun
<1>5. \A n \in 0 .. Len(ns) : p[n] \in Nat \ {0}
  BY <1>2, RunOfPositives
<1>6. 0 .. Len(ns) \subseteq T
  <2>1. 0 \in T
    BY <1>1, <1>5
  <2>2. ASSUME NEW k \in 0 .. Len(ns), k \in T, k < Len(ns) PROVE k + 1 \in T
    <3> DEFINE m == Len(ns) - k
    <3>1. m \in 1 .. Len(ns) /\ m - 1 \in 0 .. Len(ns) /\ Len(ns) - (k + 1) = m - 1 /\ k + 1 \in Nat
      BY <1>1, <2>2
    <3>2. p[m] = p[m - 1] * ns[m] /\ ns[m] \in Nat \ {0}
      BY <1>1, <1>3, <3>1
    <3>3. p[m - 1] \in Nat /\ p[m] <= p[Len(ns)] /\ p[Len(ns)] \in Nat /\ p[m] \in Nat
      BY <1>1, <1>5, <2>2, <3>1
    <3>4. \A a \in Nat, b \in Nat \ {0} : a <= a * b
      OBVIOUS
    <3>5. p[m - 1] <= p[m]
      BY <3>2, <3>3, <3>4
    <3>6. p[m - 1] <= p[Len(ns)]
      BY <3>3, <3>5
    <3>7. QED
      BY <3>1, <3>6
  <2> HIDE DEF T
  <2>3. QED
    BY <1>1, <2>1, <2>2, UpToBound
<1>7. ASSUME NEW n \in 0 .. Len(ns) PROVE p[n] <= p[Len(ns)]
  <2>1. Len(ns) - n \in 0 .. Len(ns) /\ Len(ns) - (Len(ns) - n) = n
    BY <1>1
  <2>2. QED
    BY <1>6, <2>1
<1>8. QED
  BY <1>1, <1>2, <1>5, <1>7 DEF p

\* A factor into all members of a sum comes out of it.
LEMMA SumOfMultiples ==
  ASSUME NEW ns \in Seq(Nat), NEW c \in Nat, NEW ms, ms = [n \in DOMAIN ns |-> ns[n] * c]
  PROVE  ms \in Seq(Nat) /\ Compiler!Total(ms) = Compiler!Total(ns) * c
<1> DEFINE p == Sums(ns)
           q == Sums(ms)
           S == {n \in Nat : q[n] = p[n] * c}
<1>1. Len(ns) \in Nat /\ (\A n \in 1 .. Len(ns) : ns[n] \in Nat) /\ DOMAIN ns = 1 .. Len(ns)
  OBVIOUS
<1>2. ms \in [1 .. Len(ns) -> Nat]
  BY <1>1
<1>3. ms \in Seq(Nat) /\ Len(ms) = Len(ns) /\ \A n \in 1 .. Len(ns) : ms[n] = ns[n] * c
  BY <1>1, <1>2
<1>4. IsSum(p, ns) /\ Compiler!Total(ns) = p[Len(ns)]
  BY <1>1, CompilerSumsAre
<1>5. IsSum(q, ms) /\ Compiler!Total(ms) = q[Len(ns)]
  BY <1>1, <1>3, CompilerSumsAre
<1>6. \A n \in 0 .. Len(ns) : p[n] \in Nat
  BY SumsAreNaturals
<1> HIDE DEF p, q
<1>7. 0 .. Len(ns) \subseteq S
  <2>1. 0 \in S
    BY <1>4, <1>5 DEF IsSum
  <2>2. ASSUME NEW k \in 0 .. Len(ns), k \in S, k < Len(ns) PROVE k + 1 \in S
    <3>1. k + 1 \in 1 .. Len(ns) /\ (k + 1) - 1 = k /\ k + 1 \in Nat
      BY <1>1, <2>2
    <3>2. p[k + 1] = p[k] + ns[k + 1] /\ q[k + 1] = q[k] + ms[k + 1]
      BY <1>3, <1>4, <1>5, <3>1 DEF IsSum
    <3>3. ms[k + 1] = ns[k + 1] * c /\ ns[k + 1] \in Nat /\ p[k] \in Nat /\ q[k] = p[k] * c
      BY <1>1, <1>3, <1>6, <2>2, <3>1
    <3>4. \A a, b \in Nat : a * c + b * c = (a + b) * c
      OBVIOUS
    <3>5. QED
      BY <3>1, <3>2, <3>3, <3>4, SMTT(20)
  <2> HIDE DEF S
  <2>3. QED
    BY <1>1, <2>1, <2>2, UpToBound
<1>8. q[Len(ns)] = p[Len(ns)] * c
  BY <1>1, <1>7
<1>9. QED
  BY <1>3, <1>4, <1>5, <1>8

LEMMA CompilerNames ==
  /\ \A S : Compiler!Cardinality(S) = Cardinality(S)
  /\ \A f : Compiler!IsInjective(f) <=> IsInjective(f)
  /\ \A f : Compiler!Range(f) = {f[x] : x \in DOMAIN f}
BY DEF Compiler!Cardinality, Cardinality, Compiler!IsInjective, IsInjective, Compiler!Range

LEMMA CompilerLists ==
  ASSUME NEW s, Compiler!IsList(s)
  PROVE  /\ Len(s) \in Nat /\ DOMAIN s = 1 .. Len(s)
         /\ s \in Seq(Compiler!Range(s))
         /\ \A i \in DOMAIN s : s[i] \in Compiler!Range(s)
         /\ \A v \in Compiler!Range(s) : \E i \in DOMAIN s : s[i] = v
BY DEF Compiler!IsList, Compiler!Range

LEMMA ListsAreSequences ==
  ASSUME NEW n \in Nat, NEW s, s = [i \in 1 .. n |-> s[i]]
  PROVE  Compiler!IsList(s) /\ Len(s) = n /\ DOMAIN s = 1 .. n
<1>1. \A i \in 1 .. n : s[i] \in Compiler!Range(s)
  BY DEF Compiler!Range
<1>2. s \in [1 .. n -> Compiler!Range(s)]
  BY <1>1
<1>3. s \in Seq(Compiler!Range(s)) /\ Len(s) = n
  BY <1>2
<1>4. QED
  BY <1>3 DEF Compiler!IsList

\* A member of a finite set of places for each number up to their count.
LEMMA EveryRankIsTaken ==
  ASSUME NEW S \in SUBSET Int, IsFiniteSet(S), NEW n \in 1 .. Cardinality(S)
  PROVE  Compiler!Nth(S, n) \in S /\ Cardinality({j \in S : j <= Compiler!Nth(S, n)}) = n
<1> DEFINE rank(i) == Cardinality({j \in S : j <= i})
           T == {rank(i) : i \in S}
           r == [i \in S |-> rank(i)]
<1>1. \A i \in S : rank(i) \in 1 .. Cardinality(S)
  BY RankOfMember
<1>2. \A i, j \in S : i # j => rank(i) # rank(j)
  <2> SUFFICES ASSUME NEW i \in S, NEW j \in S, i # j PROVE rank(i) # rank(j)
    OBVIOUS
  <2>1. i < j \/ j < i
    OBVIOUS
  <2>2. rank(i) \in 1 .. Cardinality(S) /\ rank(j) \in 1 .. Cardinality(S)
    BY <1>1
  <2>3. Cardinality(S) \in Nat
    BY FS_CardinalityType
  <2>4. (i < j => rank(i) < rank(j)) /\ (j < i => rank(j) < rank(i))
    BY RankOfMember
  <2> HIDE DEF rank
  <2>5. QED
    BY <2>1, <2>2, <2>3, <2>4
<1> HIDE DEF rank
<1>3. r \in Bijection(S, T)
  <2>1. r \in Injection(S, T)
    BY <1>2 DEF Injection, IsInjective
  <2>2. r \in Surjection(S, T)
    BY DEF Surjection
  <2>3. QED
    BY <2>1, <2>2 DEF Bijection
<1>4. IsFiniteSet(T) /\ Cardinality(T) = Cardinality(S)
  <2>1. \E f : f \in Bijection(S, T)
    BY <1>3
  <2> HIDE DEF T, r
  <2>2. QED
    BY <2>1, FS_Bijection DEF ExistsBijection
<1>5. Cardinality(S) \in Nat
  BY FS_CardinalityType
<1>6. IsFiniteSet(1 .. Cardinality(S)) /\ Cardinality(1 .. Cardinality(S)) = Cardinality(S)
  BY <1>5, FS_Interval
<1>7. T \in SUBSET (1 .. Cardinality(S))
  BY <1>1
<1>8. T = 1 .. Cardinality(S)
  <2> HIDE DEF T
  <2>1. QED
    BY <1>4, <1>6, <1>7, FS_Subset
<1>9. \E i \in S : rank(i) = n
  BY <1>8
<1>10. Compiler!Nth(S, n) = CHOOSE i \in S : rank(i) = n
  BY CompilerNames DEF Compiler!Nth, rank
<1>11. Compiler!Nth(S, n) \in S /\ rank(Compiler!Nth(S, n)) = n
  BY <1>9, <1>10
<1>12. QED
  BY <1>11 DEF rank

\* What is picked from a list at some of its places is a list of its elements.
LEMMA PickedElements ==
  ASSUME NEW s, Compiler!IsList(s), NEW S \in SUBSET (DOMAIN s)
  PROVE  /\ Compiler!IsList(Compiler!ElementsAt(s, S))
         /\ \A n \in DOMAIN Compiler!ElementsAt(s, S) : \E i \in S : Compiler!ElementsAt(s, S)[n] = s[i]
<1>1. DOMAIN s = 1 .. Len(s) /\ Len(s) \in Nat
  BY CompilerLists
<1>2. IsFiniteSet(1 .. Len(s))
  <2>1. 1 \in Int /\ Len(s) \in Int
    BY <1>1
  <2>2. QED
    BY <2>1, FS_Interval
<1>3. IsFiniteSet(S) /\ S \in SUBSET Int
  <2>1. S \in SUBSET (1 .. Len(s)) /\ S \in SUBSET Int
    BY <1>1
  <2>2. QED
    BY <1>2, <2>1, FS_Subset
<1>4. Cardinality(S) \in Nat
  BY <1>3, FS_CardinalityType
<1> DEFINE e == Compiler!ElementsAt(s, S)
<1>5. e = [n \in 1 .. Cardinality(S) |-> s[Compiler!Nth(S, n)]]
  BY CompilerNames DEF Compiler!ElementsAt
<1>6. \A n \in 1 .. Cardinality(S) : Compiler!Nth(S, n) \in S
  BY <1>3, EveryRankIsTaken
<1> HIDE DEF e
<1>7. e = [n \in 1 .. Cardinality(S) |-> e[n]] /\ DOMAIN e = 1 .. Cardinality(S)
  BY <1>5
<1>8. Compiler!IsList(e)
  BY <1>4, <1>7, ListsAreSequences
<1>9. \A n \in DOMAIN e : \E i \in S : e[n] = s[i]
  BY <1>5, <1>6
<1>10. QED
  BY <1>8, <1>9 DEF e

\* The sizes of the dimensions by the request alone, whatever stage counts them.
NameOf(r, key) ==
    LET sets == {set \in Compiler!Range(r.sets) : key \in Compiler!Range(set.members)} IN
    IF sets = {} THEN [kind |-> "parameter", key |-> key]
    ELSE [kind |-> "linked", key |-> (CHOOSE set \in sets : TRUE).key]
ParameterNames(r) == Compiler!FirstOccurrences([i \in DOMAIN r.parameters |-> NameOf(r, r.parameters[i].key)])
ParameterSize(r, name) ==
    IF name.kind = "linked" THEN Len(Compiler!Keyed(r.sets, name.key).rows)
    ELSE Compiler!IntentCount(Compiler!Keyed(r.intents, name.key))
VariableSizes(r, p) ==
    [i \in DOMAIN Compiler!Names(p.text) |-> Len(Compiler!Named(r.variables, Compiler!Names(p.text)[i]).values)]
ImageSizes(r) == [i \in DOMAIN r.slots |-> Len(Compiler!Keyed(r.images, r.slots[i]).values)]
ParameterSizes(r) == [i \in DOMAIN ParameterNames(r) |-> ParameterSize(r, ParameterNames(r)[i])]
AxisSizes(r, p) == VariableSizes(r, p) \o ImageSizes(r) \o ParameterSizes(r)

Positive == Nat \ {0}

\* What the checks of a stage establish for the counting.
IsCountable(r) ==
    /\ r.prompts # <<>>
    /\ \A x \in Compiler!Range(r.intents) : x.mode # "values" => Compiler!RangeCount(x.range) \in Nat
    /\ \A i \in DOMAIN ParameterNames(r) :
         IF ParameterNames(r)[i].kind = "linked"
         THEN Compiler!Keyed(r.sets, ParameterNames(r)[i].key) \in Compiler!Range(r.sets)
         ELSE Compiler!Keyed(r.intents, ParameterNames(r)[i].key) \in Compiler!Range(r.intents)
    /\ \A p \in Compiler!Range(r.prompts) :
         /\ VariableSizes(r, p) \in Seq(Positive)
         /\ \A i \in DOMAIN Compiler!Names(p.text) :
              Compiler!Named(r.variables, Compiler!Names(p.text)[i]) \in Compiler!Range(r.variables)
    /\ ImageSizes(r) \in Seq(Positive)
    /\ ParameterSizes(r) \in Seq(Positive)

LEMMA NamesAreLists ==
  ASSUME NEW s, Compiler!IsList(s)
  PROVE  /\ Compiler!IsList(Compiler!Names(s))
         /\ \A n \in DOMAIN Compiler!Names(s) : \E i \in DOMAIN s : Compiler!Names(s)[n] = s[i]
         /\ Compiler!IsList(Compiler!FirstOccurrences(s))
         /\ \A n \in DOMAIN Compiler!FirstOccurrences(s) : \E i \in DOMAIN s : Compiler!FirstOccurrences(s)[n] = s[i]
<1> DEFINE F == Compiler!FirstPlaces(s)
           G == {i \in Compiler!FirstPlaces(s) : s[i] # Compiler!Literal}
<1>1. F \in SUBSET (DOMAIN s) /\ G \in SUBSET (DOMAIN s)
  BY DEF Compiler!FirstPlaces
<1>2. Compiler!Names(s) = Compiler!ElementsAt(s, G) /\ Compiler!FirstOccurrences(s) = Compiler!ElementsAt(s, F)
  BY DEF Compiler!Names, Compiler!FirstOccurrences
<1> HIDE DEF F, G
<1>3. /\ Compiler!IsList(Compiler!ElementsAt(s, F)) /\ Compiler!IsList(Compiler!ElementsAt(s, G))
      /\ \A n \in DOMAIN Compiler!ElementsAt(s, F) : \E i \in F : Compiler!ElementsAt(s, F)[n] = s[i]
      /\ \A n \in DOMAIN Compiler!ElementsAt(s, G) : \E i \in G : Compiler!ElementsAt(s, G)[n] = s[i]
  BY <1>1, PickedElements
<1>4. QED
  BY <1>1, <1>2, <1>3

LEMMA ParameterNamesAreList ==
  ASSUME NEW r, Compiler!IsRequest(r)
  PROVE  /\ Compiler!IsList(ParameterNames(r))
         /\ \A n \in DOMAIN ParameterNames(r) : \E i \in DOMAIN r.parameters : ParameterNames(r)[n] = NameOf(r, r.parameters[i].key)
<1> DEFINE s == [i \in DOMAIN r.parameters |-> NameOf(r, r.parameters[i].key)]
<1>1. DOMAIN r.parameters = 1 .. Len(r.parameters) /\ Len(r.parameters) \in Nat
  BY CompilerLists DEF Compiler!IsRequest
<1>2. s = [i \in 1 .. Len(r.parameters) |-> s[i]]
  BY <1>1
<1>3. Compiler!IsList(s)
  <2> HIDE DEF s
  <2>1. QED
    BY <1>1, <1>2, ListsAreSequences
<1>4. ParameterNames(r) = Compiler!FirstOccurrences(s)
  BY DEF ParameterNames
<1>5. \A i \in DOMAIN s : i \in DOMAIN r.parameters /\ s[i] = NameOf(r, r.parameters[i].key)
  OBVIOUS
<1> HIDE DEF s
<1>6. QED
  BY <1>3, <1>4, <1>5, NamesAreLists

LEMMA ParameterAxesAre ==
  /\ DOMAIN Compiler!ParameterAxes = DOMAIN ParameterNames(request)
  /\ \A i \in DOMAIN ParameterNames(request) :
       LET name == ParameterNames(request)[i]
           a == Compiler!ParameterAxes[i]
       IN  /\ a.kind = name.kind /\ a.key = name.key
           /\ a.choices = IF name.kind = "linked" THEN Compiler!Keyed(request.sets, name.key).rows
                          ELSE Compiler!BoundValues(Compiler!Keyed(request.intents, name.key))
<1> DEFINE names == ParameterNames(request)
<1>1. \A key : NameOf(request, key) =
        IF Compiler!LinkedSetOf(key) = {} THEN [kind |-> "parameter", key |-> key]
        ELSE [kind |-> "linked", key |-> (CHOOSE set \in Compiler!LinkedSetOf(key) : TRUE).key]
  BY DEF NameOf, Compiler!LinkedSetOf
<1>2. names = Compiler!FirstOccurrences([i \in DOMAIN request.parameters |->
        IF Compiler!LinkedSetOf(request.parameters[i].key) = {} THEN [kind |-> "parameter", key |-> request.parameters[i].key]
        ELSE [kind |-> "linked", key |-> (CHOOSE set \in Compiler!LinkedSetOf(request.parameters[i].key) : TRUE).key]])
  BY <1>1 DEF ParameterNames
<1>3. Compiler!ParameterAxes =
        [i \in DOMAIN names |->
           [kind |-> names[i].kind, key |-> names[i].key,
            choices |-> IF names[i].kind = "linked" THEN Compiler!Keyed(request.sets, names[i].key).rows
                        ELSE Compiler!BoundValues(Compiler!Keyed(request.intents, names[i].key))]]
  BY <1>2 DEF Compiler!ParameterAxes
<1> HIDE DEF names
<1>4. QED
  BY <1>3 DEF names

\* A range has as many values as were counted.
LEMMA ValuesAreCounted ==
  ASSUME NEW x, x.mode # "values" => Compiler!RangeCount(x.range) \in Nat, NEW t
  PROVE  Len(Compiler!IntentValues(t, x)) = Compiler!IntentCount(x)
<1>1. CASE x.mode = "values"
  BY <1>1 DEF Compiler!IntentValues, Compiler!IntentCount
<1>2. CASE x.mode # "values"
  <2> DEFINE n == Compiler!RangeCount(x.range)
             scalars == [i \in 1 .. n |-> Compiler!RangeScalar(t, x.range, i - 1)]
  <2>1. n \in Nat
    BY <1>2
  <2>2. Compiler!IntentValues(t, x) = IF x.base THEN <<Compiler!Base>> \o scalars ELSE scalars
    BY <1>2 DEF Compiler!IntentValues, Compiler!RangeValues
  <2>3. Compiler!IntentCount(x) = n + (IF x.base THEN 1 ELSE 0)
    BY <1>2 DEF Compiler!IntentCount
  <2>4. scalars = [i \in 1 .. n |-> scalars[i]]
    OBVIOUS
  <2> HIDE DEF n, scalars
  <2>5. Compiler!IsList(scalars) /\ Len(scalars) = n
    BY <2>1, <2>4, ListsAreSequences
  <2>6. scalars \in Seq(Compiler!Range(scalars) \cup {Compiler!Base}) /\ <<Compiler!Base>> \in Seq(Compiler!Range(scalars) \cup {Compiler!Base})
    BY <2>5 DEF Compiler!IsList
  <2>7. Len(<<Compiler!Base>> \o scalars) = 1 + n
    BY <2>5, <2>6, ConcatProperties
  <2>8. QED
    BY <2>1, <2>2, <2>3, <2>5, <2>7
<1>3. QED
  BY <1>1, <1>2

LEMMA SequencesAreLists ==
  ASSUME NEW S, NEW s \in Seq(S)
  PROVE  Compiler!IsList(s)
<1>1. s \in [1 .. Len(s) -> S] /\ Len(s) \in Nat
  BY LenProperties
<1>2. s = [i \in 1 .. Len(s) |-> s[i]]
  BY <1>1
<1>3. QED
  BY <1>1, <1>2, ListsAreSequences

AreJoined(j, s, t, u) ==
    /\ Compiler!IsList(j) /\ DOMAIN j = 1 .. Len(j)
    /\ Len(j) = Len(s) + Len(t) + Len(u)
    /\ \A i \in 1 .. Len(s) : j[i] = s[i]
    /\ \A i \in 1 .. Len(t) : j[Len(s) + i] = t[i]
    /\ \A i \in 1 .. Len(u) : j[Len(s) + Len(t) + i] = u[i]

LEMMA JoinedParts ==
  ASSUME NEW s, NEW t, NEW u, Compiler!IsList(s), Compiler!IsList(t), Compiler!IsList(u),
         NEW j, j = s \o t \o u
  PROVE  AreJoined(j, s, t, u)
<1> DEFINE S == Compiler!Range(s) \cup Compiler!Range(t) \cup Compiler!Range(u)
           h == s \o t
<1>1. s \in Seq(S) /\ t \in Seq(S) /\ u \in Seq(S)
  BY DEF Compiler!IsList
<1> HIDE DEF S
<1>2. /\ h \in Seq(S) /\ Len(h) = Len(s) + Len(t)
      /\ \A i \in 1 .. Len(s) : h[i] = s[i]
      /\ \A i \in 1 .. Len(t) : h[Len(s) + i] = t[i]
  BY <1>1
<1>3. Len(s) \in Nat /\ Len(t) \in Nat /\ Len(u) \in Nat
  BY <1>1
<1>41. h \in Seq(S) /\ u \in Seq(S) /\ j = h \o u
  BY <1>1, <1>2
<1> HIDE DEF h
<1>4. /\ j \in Seq(S) /\ Len(j) = Len(h) + Len(u)
      /\ \A i \in 1 .. Len(h) : j[i] = h[i]
      /\ \A i \in 1 .. Len(u) : j[Len(h) + i] = u[i]
  BY ONLY <1>41, ConcatProperties
<1>5. (\A i \in 1 .. Len(s) : i \in 1 .. Len(h)) /\ \A i \in 1 .. Len(t) : Len(s) + i \in 1 .. Len(h)
  BY <1>2, <1>3
<1>6. Len(j) \in Nat /\ DOMAIN j = 1 .. Len(j)
  BY <1>4
<1>8. Compiler!IsList(j)
  BY <1>4, SequencesAreLists
<1>9. \A i \in 1 .. Len(u) : j[Len(s) + Len(t) + i] = u[i]
  BY <1>2, <1>4
<1>10. QED
  BY <1>2, <1>4, <1>5, <1>6, <1>8, <1>9 DEF AreJoined

\* A place of a joined sequence is one of a part.
LEMMA PartOfPlace ==
  ASSUME NEW l \in Nat, NEW m \in Nat, NEW n \in Nat, NEW i \in 1 .. (l + m + n)
  PROVE  \/ i \in 1 .. l
         \/ \E k \in 1 .. m : i = l + k
         \/ \E k \in 1 .. n : i = l + m + k
<1>1. CASE i <= l
  BY <1>1
<1>2. CASE l < i /\ i <= l + m
  <2>1. i - l \in 1 .. m /\ i = l + (i - l)
    BY <1>2
  <2>2. QED
    BY <2>1
<1>3. CASE l + m < i
  <2>1. i - (l + m) \in 1 .. n /\ i = l + m + (i - (l + m))
    BY <1>3
  <2>2. QED
    BY <2>1
<1>4. QED
  BY <1>1, <1>2, <1>3

\* Every stage counts the same dimensions.
LEMMA ParameterSizesAgree ==
  ASSUME Compiler!IsRequest(request), IsCountable(request)
  PROVE  LET r == request
             n == Len(ParameterNames(r))
         IN  /\ DOMAIN ParameterNames(r) = 1 .. n /\ n \in Nat
             /\ Compiler!ParameterAxes = [i \in 1 .. n |-> Compiler!ParameterAxes[i]]
             /\ ParameterSizes(r) = [i \in 1 .. n |-> ParameterSizes(r)[i]]
             /\ \A i \in 1 .. n : Compiler!SizeOf(Compiler!ParameterAxes[i]) = ParameterSizes(r)[i]
<1> DEFINE r == request
           names == ParameterNames(r)
           n == Len(names)
<1>4. DOMAIN names = 1 .. n /\ n \in Nat
  BY ParameterNamesAreList, CompilerLists
<1>7. /\ Compiler!ParameterAxes = [i \in 1 .. n |-> Compiler!ParameterAxes[i]]
      /\ ParameterSizes(r) = [i \in 1 .. n |-> ParameterSizes(r)[i]]
  <2>a. DOMAIN Compiler!ParameterAxes = 1 .. n
    <3>1. DOMAIN Compiler!ParameterAxes = DOMAIN names
      BY ParameterAxesAre
    <3> HIDE DEF names
    <3>2. QED
      BY ONLY <1>4, <3>1
  <2>b. DOMAIN ParameterSizes(r) = DOMAIN names
    BY ONLY DEF ParameterSizes
  <2>c. DOMAIN ParameterSizes(r) = 1 .. n
    <3> HIDE DEF names
    <3>1. QED
      BY ONLY <1>4, <2>b
  <2>2. Compiler!ParameterAxes = [i \in DOMAIN Compiler!ParameterAxes |-> Compiler!ParameterAxes[i]]
    BY DEF Compiler!ParameterAxes
  <2>3. ParameterSizes(r) = [i \in DOMAIN ParameterSizes(r) |-> ParameterSizes(r)[i]]
    BY DEF ParameterSizes
  <2>4. QED
    BY <2>a, <2>c, <2>2, <2>3
<1>8. ASSUME NEW i \in 1 .. n PROVE Compiler!SizeOf(Compiler!ParameterAxes[i]) = ParameterSizes(r)[i]
  <2> DEFINE a == Compiler!ParameterAxes[i]
             x == Compiler!Keyed(r.intents, names[i].key)
  <2>1. /\ a.kind = names[i].kind /\ a.key = names[i].key
        /\ a.choices = IF names[i].kind = "linked" THEN Compiler!Keyed(r.sets, names[i].key).rows ELSE Compiler!BoundValues(x)
    BY <1>4, ParameterAxesAre
  <2>2. ParameterSizes(r)[i] = IF names[i].kind = "linked" THEN Len(Compiler!Keyed(r.sets, names[i].key).rows) ELSE Compiler!IntentCount(x)
    BY <1>4 DEF ParameterSizes, ParameterSize
  <2>3. names[i].kind \in {"linked", "parameter"}
    <3>1. PICK k : names[i] = NameOf(r, r.parameters[k].key)
      BY <1>4, ParameterNamesAreList
    <3>2. QED
      BY <3>1 DEF NameOf
  <2>4. CASE names[i].kind = "linked"
    BY <2>1, <2>2, <2>4 DEF Compiler!SizeOf
  <2>5. CASE names[i].kind = "parameter" /\ stage = "preflight"
    BY <2>1, <2>2, <2>5 DEF Compiler!SizeOf
  <2>6. CASE names[i].kind = "parameter" /\ stage # "preflight"
    <3>1. x \in Compiler!Range(r.intents)
      BY <1>4, <2>6 DEF IsCountable
    <3>2. Len(Compiler!IntentValues(Compiler!TypeOf(x.key), x)) = Compiler!IntentCount(x)
      BY <3>1, ValuesAreCounted DEF IsCountable
    <3>3. Compiler!BoundValues(x) = Compiler!IntentValues(Compiler!TypeOf(x.key), x)
      BY <2>6 DEF Compiler!BoundValues
    <3>4. QED
      BY <2>1, <2>2, <2>6, <3>2, <3>3 DEF Compiler!SizeOf
  <2>7. QED
    BY <2>3, <2>4, <2>5, <2>6
<1>9. QED
  BY <1>4, <1>7, <1>8

LEMMA SizesAgree ==
  ASSUME Compiler!IsRequest(request), IsCountable(request), NEW p \in Compiler!Range(request.prompts)
  PROVE  /\ Compiler!IsList(Compiler!Axes(p)) /\ AxisSizes(request, p) \in Seq(Positive)
         /\ Len(Compiler!Axes(p)) = Len(AxisSizes(request, p))
         /\ DOMAIN Compiler!Axes(p) = 1 .. Len(AxisSizes(request, p)) /\ Len(AxisSizes(request, p)) \in Nat
         /\ \A i \in 1 .. Len(AxisSizes(request, p)) : Compiler!SizeOf(Compiler!Axes(p)[i]) = AxisSizes(request, p)[i]
<1> DEFINE r == request
           v == Compiler!VariableAxes(p)
           w == VariableSizes(r, p)
           names == ParameterNames(r)
<1>1. Compiler!IsList(p.text) /\ Compiler!IsList(r.slots)
  BY DEF Compiler!IsRequest
<1>2. Compiler!IsList(Compiler!Names(p.text))
  BY <1>1, NamesAreLists
<1> DEFINE l == Len(Compiler!Names(p.text))
           m == Len(r.slots)
           n == Len(names)
<1>3. DOMAIN Compiler!Names(p.text) = 1 .. l /\ l \in Nat /\ DOMAIN r.slots = 1 .. m /\ m \in Nat
  BY <1>1, <1>2, CompilerLists
<1>4. DOMAIN names = 1 .. n /\ n \in Nat
  BY ParameterNamesAreList, CompilerLists
<1>5. /\ v = [i \in 1 .. l |-> v[i]] /\ w = [i \in 1 .. l |-> w[i]]
      /\ \A i \in 1 .. l : v[i].kind = "variable" /\ Len(v[i].choices) = w[i]
  BY <1>3 DEF Compiler!VariableAxes, VariableSizes
<1>6. /\ Compiler!ImageAxes = [i \in 1 .. m |-> Compiler!ImageAxes[i]]
      /\ ImageSizes(r) = [i \in 1 .. m |-> ImageSizes(r)[i]]
      /\ \A i \in 1 .. m : Compiler!ImageAxes[i].kind = "image" /\ Len(Compiler!ImageAxes[i].choices) = ImageSizes(r)[i]
  BY <1>3 DEF Compiler!ImageAxes, ImageSizes
<1>7. /\ Compiler!ParameterAxes = [i \in 1 .. n |-> Compiler!ParameterAxes[i]]
      /\ ParameterSizes(r) = [i \in 1 .. n |-> ParameterSizes(r)[i]]
      /\ \A i \in 1 .. n : Compiler!SizeOf(Compiler!ParameterAxes[i]) = ParameterSizes(r)[i]
  BY ParameterSizesAgree
<1> HIDE DEF l, m, n, r, v, w, names
<1>9. /\ Compiler!IsList(v) /\ Len(v) = l /\ Compiler!IsList(w) /\ Len(w) = l
      /\ Compiler!IsList(Compiler!ImageAxes) /\ Len(Compiler!ImageAxes) = m /\ Compiler!IsList(ImageSizes(r)) /\ Len(ImageSizes(r)) = m
      /\ Compiler!IsList(Compiler!ParameterAxes) /\ Len(Compiler!ParameterAxes) = n
      /\ Compiler!IsList(ParameterSizes(r)) /\ Len(ParameterSizes(r)) = n
  BY <1>3, <1>4, <1>5, <1>6, <1>7, ListsAreSequences
<1> DEFINE axes == v \o Compiler!ImageAxes \o Compiler!ParameterAxes
           sizes == w \o ImageSizes(r) \o ParameterSizes(r)
<1>91. axes = v \o Compiler!ImageAxes \o Compiler!ParameterAxes /\ sizes = w \o ImageSizes(r) \o ParameterSizes(r)
  OBVIOUS
<1>92. Compiler!Axes(p) = axes /\ AxisSizes(request, p) = sizes
  BY DEF Compiler!Axes, AxisSizes, v, w, r
<1>12. sizes \in Seq(Positive)
  <2>1. w \in Seq(Positive) /\ ImageSizes(r) \in Seq(Positive) /\ ParameterSizes(r) \in Seq(Positive)
    BY DEF IsCountable, w, r
  <2>2. QED
    BY <2>1
<1> HIDE DEF axes, sizes
<1>93. /\ AreJoined(axes, v, Compiler!ImageAxes, Compiler!ParameterAxes)
       /\ AreJoined(sizes, w, ImageSizes(r), ParameterSizes(r))
  BY ONLY <1>9, <1>91, JoinedParts, Zenon
<1>10. /\ Compiler!IsList(axes) /\ DOMAIN axes = 1 .. Len(axes) /\ Len(axes) = l + m + n
       /\ \A i \in 1 .. l : axes[i] = v[i]
       /\ \A i \in 1 .. m : axes[l + i] = Compiler!ImageAxes[i]
       /\ \A i \in 1 .. n : axes[l + m + i] = Compiler!ParameterAxes[i]
  BY <1>9, <1>93 DEF AreJoined
<1>11. /\ Len(sizes) = l + m + n
       /\ \A i \in 1 .. l : sizes[i] = w[i]
       /\ \A i \in 1 .. m : sizes[l + i] = ImageSizes(r)[i]
       /\ \A i \in 1 .. n : sizes[l + m + i] = ParameterSizes(r)[i]
  BY <1>9, <1>93 DEF AreJoined
<1>14. ASSUME NEW i \in 1 .. (l + m + n) PROVE Compiler!SizeOf(axes[i]) = sizes[i]
  <2>1. CASE i \in 1 .. l
    BY <1>5, <1>10, <1>11, <2>1 DEF Compiler!SizeOf
  <2>2. ASSUME NEW k \in 1 .. m, i = l + k PROVE Compiler!SizeOf(axes[i]) = sizes[i]
    BY <1>6, <1>10, <1>11, <2>2 DEF Compiler!SizeOf
  <2>3. ASSUME NEW k \in 1 .. n, i = l + m + k PROVE Compiler!SizeOf(axes[i]) = sizes[i]
    BY <1>7, <1>10, <1>11, <2>3
  <2>4. QED
    BY <1>3, <1>4, <2>1, <2>2, <2>3, PartOfPlace
<1>15. l + m + n \in Nat
  BY <1>3, <1>4
<1>16. QED
  BY <1>10, <1>11, <1>12, <1>92, <1>14, <1>15

-----------------------------------------------------------------------------
LEMMA CompilerRanges ==
  ASSUME NEW r, Compiler!IsDecimalRange(r), NEW t, Compiler!IsRange(t, r)
  PROVE  Compiler!RangeCount(r) \in Nat /\ Compiler!RangeCount(r) # 0
<1>1. IsDecimalRange(r)
  BY DEF Compiler!IsDecimalRange, IsDecimalRange
<1>2. ScaleOf(r) = Compiler!ScaleOf(r)
  BY DEF ScaleOf, Compiler!ScaleOf
<1>3. /\ RangeStart(r) = Compiler!RangeStart(r)
      /\ RangeEnd(r) = Compiler!RangeEnd(r)
      /\ RangeStep(r) = Compiler!RangeStep(r)
  BY <1>2 DEF RangeStart, RangeEnd, RangeStep, Aligned,
     Compiler!RangeStart, Compiler!RangeEnd, Compiler!RangeStep, Compiler!Aligned
<1>4. Compiler!RangeStep(r) # 0
  BY DEF Compiler!IsRange
<1> DEFINE d == Compiler!Magnitude(Compiler!RangeEnd(r) - Compiler!RangeStart(r))
           s == Compiler!Magnitude(Compiler!RangeStep(r))
<1>5. d \in Nat /\ s \in Nat \ {0}
  BY <1>1, <1>3, <1>4, AlignedIntegers DEF Compiler!Magnitude
<1>6. d \div s \in Nat
  BY <1>5, QuotientBounds
<1>7. Compiler!RangeCount(r) = (d \div s) + 1
  BY DEF Compiler!RangeCount, Compiler!CountOf
<1>8. QED
  BY <1>6, <1>7

LEMMA FoundByKey ==
  ASSUME NEW s, NEW x \in Compiler!Range(s)
  PROVE  Compiler!Keyed(s, x.key) \in Compiler!Range(s) /\ Compiler!Keyed(s, x.key).key = x.key
BY DEF Compiler!Keyed

LEMMA LengthIsPositive ==
  ASSUME NEW s, Compiler!IsList(s), s # <<>>
  PROVE  Len(s) \in Positive
<1>1. s \in Seq(Compiler!Range(s))
  BY DEF Compiler!IsList
<1>2. QED
  BY <1>1 DEF Positive

LEMMA PositiveList ==
  ASSUME NEW n \in Nat, NEW s, s = [i \in 1 .. n |-> s[i]], \A i \in 1 .. n : s[i] \in Positive
  PROVE  s \in Seq(Positive)
<1>1. s \in [1 .. n -> Positive]
  OBVIOUS
<1>2. QED
  BY <1>1

SeedsPer(sd) == IF sd.mode = "random" THEN sd.count ELSE Len(sd.values)

LEMMA IntentsAreCounted ==
  ASSUME Compiler!IsRequest(request), Compiler!IntentsAreValid, NEW x \in Compiler!Range(request.intents)
  PROVE  /\ x.mode # "values" => Compiler!RangeCount(x.range) \in Nat
         /\ Compiler!IntentCount(x) \in Positive
<1>1. Compiler!IsIntent(Compiler!TypeOf(x.key), x) /\ Compiler!IsBound(x)
  BY DEF Compiler!IntentsAreValid, Compiler!IsRequest
<1>2. CASE x.mode = "values"
  <2>1. Compiler!IsList(x.values) /\ x.values # <<>>
    BY <1>1, <1>2 DEF Compiler!IsBound, Compiler!IsIntent, Compiler!AreAlternatives
  <2>2. QED
    BY <1>2, <2>1, LengthIsPositive DEF Compiler!IntentCount
<1>3. CASE x.mode # "values"
  <2>1. Compiler!IsDecimalRange(x.range) /\ Compiler!IsRange(Compiler!TypeOf(x.key), x.range)
    BY <1>1, <1>3 DEF Compiler!IsBound, Compiler!IsIntent
  <2>2. Compiler!RangeCount(x.range) \in Nat /\ Compiler!RangeCount(x.range) # 0
    BY <2>1, CompilerRanges
  <2>3. QED
    BY <1>3, <2>2 DEF Compiler!IntentCount, Positive
<1>4. QED
  BY <1>2, <1>3

LEMMA ChecksMakeCountable ==
  ASSUME Compiler!IsRequest(request), Compiler!IntentsAreValid, Compiler!IsValid,
         Compiler!IsSeedInput(seeds)
  PROVE  IsCountable(request) /\ SeedsPer(seeds) \in Positive /\ seeds.values # <<>>
<1> DEFINE r == request
           names == ParameterNames(r)
<1>1. r.prompts # <<>>
  BY DEF Compiler!IsValid, Compiler!PromptsAreValid
<1>2. \A x \in Compiler!Range(r.intents) : x.mode # "values" => Compiler!RangeCount(x.range) \in Nat
  BY IntentsAreCounted
<1>3. DOMAIN names = 1 .. Len(names) /\ Len(names) \in Nat
  BY ParameterNamesAreList, CompilerLists
<1>4. ASSUME NEW i \in DOMAIN names
      PROVE  /\ IF names[i].kind = "linked"
                THEN Compiler!Keyed(r.sets, names[i].key) \in Compiler!Range(r.sets)
                ELSE Compiler!Keyed(r.intents, names[i].key) \in Compiler!Range(r.intents)
             /\ ParameterSize(r, names[i]) \in Positive
  <2>1. PICK k \in DOMAIN r.parameters : names[i] = NameOf(r, r.parameters[k].key)
    BY ParameterNamesAreList
  <2> DEFINE key == r.parameters[k].key
             sets == {set \in Compiler!Range(r.sets) : key \in Compiler!Range(set.members)}
  <2>2. CASE sets = {}
    <3>1. names[i] = [kind |-> "parameter", key |-> key]
      BY <2>1, <2>2 DEF NameOf
    <3>2. r.parameters[k] \in Compiler!Range(r.parameters) /\ Compiler!LinkedSetOf(key) = {}
      BY <2>2 DEF Compiler!Range, Compiler!LinkedSetOf
    <3>3. key \in Compiler!Independent
      BY <3>2 DEF Compiler!IsValid, Compiler!ParametersAreCovered
    <3>4. PICK x \in Compiler!Range(r.intents) : x.key = key
      BY <3>3 DEF Compiler!Independent, Compiler!KeySet, Compiler!Range
    <3>5. Compiler!Keyed(r.intents, key) \in Compiler!Range(r.intents)
      BY <3>4, FoundByKey
    <3>6. Compiler!IntentCount(Compiler!Keyed(r.intents, key)) \in Positive
      BY <3>5, IntentsAreCounted
    <3>7. QED
      BY <3>1, <3>5, <3>6 DEF ParameterSize
  <2>3. CASE sets # {}
    <3> DEFINE set == CHOOSE set \in sets : TRUE
    <3>1. set \in Compiler!Range(r.sets) /\ names[i] = [kind |-> "linked", key |-> set.key]
      BY <2>1, <2>3 DEF NameOf
    <3> HIDE DEF set
    <3>2. Compiler!Keyed(r.sets, set.key) \in Compiler!Range(r.sets)
      BY <3>1, FoundByKey
    <3>3. Compiler!Keyed(r.sets, set.key).rows # <<>> /\ Compiler!IsList(Compiler!Keyed(r.sets, set.key).rows)
      BY <3>2 DEF Compiler!IsValid, Compiler!LinkedSetsAreValid, Compiler!LinkedSetIsValid, Compiler!IsRequest
    <3>4. QED
      BY <3>1, <3>2, <3>3, LengthIsPositive DEF ParameterSize
  <2>4. QED
    BY <2>2, <2>3
<1>5. ParameterSizes(r) \in Seq(Positive)
  <2>1. ParameterSizes(r) = [i \in 1 .. Len(names) |-> ParameterSizes(r)[i]]
    BY <1>3 DEF ParameterSizes
  <2>2. \A i \in 1 .. Len(names) : ParameterSizes(r)[i] \in Positive
    BY <1>3, <1>4 DEF ParameterSizes
  <2>3. QED
    BY <1>3, <2>1, <2>2, PositiveList
<1>6. ImageSizes(r) \in Seq(Positive)
  <2>1. DOMAIN r.slots = 1 .. Len(r.slots) /\ Len(r.slots) \in Nat
    BY CompilerLists DEF Compiler!IsRequest
  <2>2. ASSUME NEW i \in 1 .. Len(r.slots) PROVE ImageSizes(r)[i] \in Positive
    <3>1. r.slots[i] \in Compiler!Range(r.slots)
      BY <2>1 DEF Compiler!Range
    <3>2. PICK x \in Compiler!Range(r.images) : x.key = r.slots[i]
      BY <3>1 DEF Compiler!IsValid, Compiler!ImagesAreBound, Compiler!KeySet, Compiler!Range
    <3>3. Compiler!Keyed(r.images, r.slots[i]) \in Compiler!Range(r.images)
      BY <3>2, FoundByKey
    <3>4. Compiler!Keyed(r.images, r.slots[i]).values # <<>> /\ Compiler!IsList(Compiler!Keyed(r.images, r.slots[i]).values)
      BY <3>3 DEF Compiler!IsValid, Compiler!ImagesAreBound, Compiler!IsRequest
    <3>5. QED
      BY <2>1, <3>4, LengthIsPositive DEF ImageSizes
  <2>3. ImageSizes(r) = [i \in 1 .. Len(r.slots) |-> ImageSizes(r)[i]]
    BY <2>1 DEF ImageSizes
  <2>4. QED
    BY <2>1, <2>2, <2>3, PositiveList
<1>7. ASSUME NEW p \in Compiler!Range(r.prompts)
      PROVE  /\ VariableSizes(r, p) \in Seq(Positive)
             /\ \A i \in DOMAIN Compiler!Names(p.text) :
                  Compiler!Named(r.variables, Compiler!Names(p.text)[i]) \in Compiler!Range(r.variables)
  <2> DEFINE n == Len(Compiler!Names(p.text))
  <2>1. Compiler!IsList(Compiler!Names(p.text))
    BY NamesAreLists DEF Compiler!IsRequest
  <2>2. DOMAIN Compiler!Names(p.text) = 1 .. n /\ n \in Nat
    BY <2>1, CompilerLists
  <2>3. ASSUME NEW i \in 1 .. n
        PROVE  /\ VariableSizes(r, p)[i] \in Positive
               /\ Compiler!Named(r.variables, Compiler!Names(p.text)[i]) \in Compiler!Range(r.variables)
    <3> DEFINE name == Compiler!Names(p.text)[i]
               b == Compiler!Named(r.variables, name)
    <3>1. name \in Compiler!Range(Compiler!Names(p.text))
      BY <2>2 DEF Compiler!Range
    <3>2. PICK x \in Compiler!Range(r.variables) : x.name = name /\ x.values # <<>>
      BY <3>1 DEF Compiler!IsValid, Compiler!PlaceholdersAreBound
    <3>3. b \in Compiler!Range(r.variables) /\ b.name = name
      BY <3>2 DEF Compiler!Named
    <3> HIDE DEF b, name
    <3>4. PICK j, k \in DOMAIN r.variables : x = r.variables[j] /\ b = r.variables[k]
      BY <3>2, <3>3 DEF Compiler!Range
    <3>5. j = k
      BY <3>2, <3>3, <3>4 DEF Compiler!IsValid, Compiler!VariablesAreValid, Compiler!KeysAreUnique
    <3>6. b.values # <<>> /\ Compiler!IsList(b.values)
      BY <3>2, <3>3, <3>4, <3>5 DEF Compiler!IsRequest
    <3>7. QED
      BY <2>2, <3>3, <3>6, LengthIsPositive DEF VariableSizes, b, name
  <2>4. VariableSizes(r, p) = [i \in 1 .. n |-> VariableSizes(r, p)[i]]
    BY <2>2 DEF VariableSizes
  <2>5. QED
    BY <2>2, <2>3, <2>4, PositiveList
<1>8. SeedsPer(seeds) \in Positive /\ seeds.values # <<>>
  <2>1. CASE seeds.mode = "random"
    BY <2>1 DEF Compiler!IsValid, Compiler!SeedsAreValid, SeedsPer, Positive, Compiler!IsSeedInput
  <2>2. CASE seeds.mode # "random"
    <3>1. seeds.values # <<>>
      <4>1. seeds.mode = "fixed" => Len(seeds.values) = 1
        BY DEF Compiler!IsValid, Compiler!SeedsAreValid
      <4>2. seeds.mode = "explicit" => seeds.values # <<>>
        BY DEF Compiler!IsValid, Compiler!SeedsAreValid
      <4>3. seeds.mode \in {"fixed", "explicit"}
        BY <2>2 DEF Compiler!IsSeedInput
      <4>4. Len(<<>>) # 1
        OBVIOUS
      <4>5. QED
        BY <4>1, <4>2, <4>3, <4>4
    <3>2. QED
      BY <2>2, <3>1, LengthIsPositive DEF SeedsPer, Compiler!IsSeedInput
  <2>3. QED
    BY <2>1, <2>2
<1>9. QED
  BY <1>1, <1>2, <1>4, <1>5, <1>6, <1>7, <1>8 DEF IsCountable


-----------------------------------------------------------------------------
\* How many Jobs a request has: the same number at every stage, for each seed.
Weights(r) == [n \in DOMAIN r.prompts |-> Compiler!Product(AxisSizes(r, r.prompts[n]))]
PlanSize(r) == Compiler!Total(Weights(r))

LEMMA ProductOfAppended ==
  ASSUME NEW ns \in Seq(Positive), NEW c \in Positive
  PROVE  Compiler!Product(ns \o <<c>>) = Compiler!Product(ns) * c
<1> DEFINE ms == ns \o <<c>>
           p == Products(ns)
           q == Products(ms)
           S == {n \in Nat : q[n] = p[n]}
<1>1. Len(ns) \in Nat
  OBVIOUS
<1>2. ms \in Seq(Positive) /\ Len(ms) = Len(ns) + 1 /\ ms[Len(ns) + 1] = c /\ \A n \in 1 .. Len(ns) : ms[n] = ns[n]
  <2>1. <<c>> \in Seq(Positive) /\ Len(<<c>>) = 1 /\ <<c>>[1] = c
    OBVIOUS
  <2>2. /\ ms \in Seq(Positive) /\ Len(ms) = Len(ns) + Len(<<c>>)
        /\ \A i \in 1 .. Len(ns) : ms[i] = ns[i]
        /\ \A i \in 1 .. Len(<<c>>) : ms[Len(ns) + i] = <<c>>[i]
    BY ONLY ns \in Seq(Positive), <<c>> \in Seq(Positive), ConcatProperties
  <2>3. QED
    BY <2>1, <2>2
<1>3. IsRun(p, ns) /\ Compiler!Product(ns) = p[Len(ns)]
  BY <1>1, CompilerProductsAre
<1> HIDE DEF ms
<1>4. IsRun(q, ms) /\ Compiler!Product(ms) = q[Len(ms)]
  BY <1>1, <1>2, CompilerProductsAre
<1> HIDE DEF p, q
<1>5. 0 .. Len(ns) \subseteq S
  <2>1. 0 \in S
    BY <1>3, <1>4 DEF IsRun
  <2>2. ASSUME NEW k \in 0 .. Len(ns), k \in S, k < Len(ns) PROVE k + 1 \in S
    <3>1. k + 1 \in 1 .. Len(ns) /\ k + 1 \in 1 .. Len(ms) /\ (k + 1) - 1 = k /\ k + 1 \in Nat
      BY <1>1, <1>2, <2>2
    <3>2. p[k + 1] = p[k] * ns[k + 1] /\ q[k + 1] = q[k] * ms[k + 1]
      BY <1>3, <1>4, <3>1 DEF IsRun
    <3>3. q[k] = p[k] /\ ms[k + 1] = ns[k + 1]
      BY <1>2, <2>2, <3>1
    <3>4. QED
      BY <3>1, <3>2, <3>3
  <2> HIDE DEF S
  <2>3. QED
    BY <1>1, <2>1, <2>2, UpToBound
<1>6. q[Len(ns)] = p[Len(ns)]
  BY <1>1, <1>5
<1>7. Len(ns) + 1 \in 1 .. Len(ms) /\ (Len(ns) + 1) - 1 = Len(ns)
  BY <1>1, <1>2
<1>8. q[Len(ms)] = q[Len(ns)] * c
  BY <1>2, <1>4, <1>7 DEF IsRun
<1>9. QED
  BY <1>3, <1>4, <1>6, <1>8 DEF ms

LEMMA WeightsArePositive ==
  ASSUME NEW r, Compiler!IsRequest(r), IsCountable(r)
  PROVE  /\ Weights(r) \in Seq(Positive) /\ Weights(r) \in Seq(Nat)
         /\ DOMAIN Weights(r) = DOMAIN r.prompts /\ Len(Weights(r)) = Len(r.prompts)
         /\ DOMAIN r.prompts = 1 .. Len(r.prompts) /\ Len(r.prompts) \in Positive
         /\ \A n \in DOMAIN r.prompts :
              /\ r.prompts[n] \in Compiler!Range(r.prompts)
              /\ AxisSizes(r, r.prompts[n]) \in Seq(Positive)
              /\ Weights(r)[n] = Compiler!Product(AxisSizes(r, r.prompts[n]))
<1> DEFINE w == Weights(r)
<1>1. DOMAIN r.prompts = 1 .. Len(r.prompts) /\ Len(r.prompts) \in Nat
  BY CompilerLists DEF Compiler!IsRequest
<1>2. Len(r.prompts) \in Positive
  BY LengthIsPositive DEF IsCountable, Compiler!IsRequest
<1>3. ASSUME NEW n \in DOMAIN r.prompts
      PROVE  r.prompts[n] \in Compiler!Range(r.prompts) /\ AxisSizes(r, r.prompts[n]) \in Seq(Positive) /\ w[n] \in Positive
  <2>1. r.prompts[n] \in Compiler!Range(r.prompts)
    BY DEF Compiler!Range
  <2>2. /\ VariableSizes(r, r.prompts[n]) \in Seq(Positive)
        /\ ImageSizes(r) \in Seq(Positive)
        /\ ParameterSizes(r) \in Seq(Positive)
    BY <2>1 DEF IsCountable
  <2>3. AxisSizes(r, r.prompts[n]) \in Seq(Positive)
    BY <2>2, ConcatProperties DEF AxisSizes
  <2>4. Compiler!Product(AxisSizes(r, r.prompts[n])) \in Positive
    BY <2>3, ProductsArePositive DEF Positive
  <2>5. QED
    BY <2>1, <2>3, <2>4 DEF Weights
<1>4. w = [n \in 1 .. Len(r.prompts) |-> w[n]]
  BY <1>1 DEF Weights
<1>5. w \in Seq(Positive) /\ Len(w) = Len(r.prompts) /\ DOMAIN w = 1 .. Len(r.prompts)
  <2>1. \A n \in 1 .. Len(r.prompts) : w[n] \in Positive
    BY <1>1, <1>3
  <2> HIDE DEF w
  <2>2. w \in [1 .. Len(r.prompts) -> Positive]
    BY <1>4, <2>1
  <2>3. QED
    BY <1>1, <2>2
<1>6. w \in Seq(Nat)
  BY <1>1, <1>5 DEF Positive
<1>7. QED
  BY <1>1, <1>2, <1>3, <1>5, <1>6 DEF Weights

\* The number of Jobs is the number of configurations times the seeds of each.
LEMMA SizeOfPlanIs ==
  ASSUME Compiler!IsRequest(request), IsCountable(request), SeedsPer(seeds) \in Positive
  PROVE  /\ Compiler!SizeOfPlan = PlanSize(request) * SeedsPer(seeds)
         /\ PlanSize(request) \in Nat
<1> DEFINE w == Weights(request)
           sizes == [n \in DOMAIN request.prompts |-> Compiler!SizeOfPrompt(request.prompts[n])]
<1>1. w \in Seq(Nat) /\ DOMAIN w = DOMAIN request.prompts
  BY WeightsArePositive
<1>2. ASSUME NEW n \in DOMAIN request.prompts PROVE Compiler!SizeOfPrompt(request.prompts[n]) = w[n] * SeedsPer(seeds)
  <2> DEFINE p == request.prompts[n]
             s == AxisSizes(request, p)
  <2>1. p \in Compiler!Range(request.prompts) /\ s \in Seq(Positive) /\ w[n] = Compiler!Product(s)
    BY WeightsArePositive
  <2>2. /\ DOMAIN Compiler!Axes(p) = 1 .. Len(s)
        /\ \A i \in 1 .. Len(s) : Compiler!SizeOf(Compiler!Axes(p)[i]) = s[i]
    BY <2>1, SizesAgree
  <2>3. [i \in DOMAIN Compiler!Axes(p) |-> Compiler!SizeOf(Compiler!Axes(p)[i])] = s
    <3> HIDE DEF p, s
    <3>1. s = [i \in 1 .. Len(s) |-> s[i]]
      BY <2>1
    <3>2. QED
      BY <2>2, <3>1
  <2>4. Compiler!Radices(p) = s \o <<SeedsPer(seeds)>>
    BY <2>3 DEF Compiler!Radices, Compiler!SeedCount, SeedsPer
  <2> HIDE DEF p, s
  <2>5. Compiler!Product(Compiler!Radices(p)) = Compiler!Product(s) * SeedsPer(seeds)
    BY <2>1, <2>4, ProductOfAppended
  <2>6. Compiler!SizeOfPrompt(p) = w[n] * SeedsPer(seeds)
    BY <2>1, <2>5 DEF Compiler!SizeOfPrompt
  <2>7. QED
    BY <2>6 DEF p
<1>3. sizes = [n \in DOMAIN w |-> w[n] * SeedsPer(seeds)]
  <2> HIDE DEF w
  <2>1. QED
    BY <1>1, <1>2
<1>4. Compiler!Total(sizes) = Compiler!Total(w) * SeedsPer(seeds)
  <2> HIDE DEF sizes, w
  <2>1. SeedsPer(seeds) \in Nat
    BY DEF Positive
  <2>2. QED
    BY <1>1, <1>3, <2>1, SumOfMultiples
<1>5. Compiler!Total(w) \in Nat
  BY <1>1, SumsAreNaturals
<1>6. QED
  BY <1>4, <1>5 DEF Compiler!SizeOfPlan, PlanSize

-----------------------------------------------------------------------------
\* How many bytes the texts of all Jobs hold, for each seed.
VariableAxesOf(r, p) ==
    [i \in DOMAIN Compiler!Names(p.text) |->
       [kind |-> "variable", key |-> Compiler!Names(p.text)[i],
        choices |-> Compiler!Named(r.variables, Compiler!Names(p.text)[i]).values]]
Variants(r, p) == Compiler!Product(VariableSizes(r, p))
VariableText(r, p, a) ==
    (Compiler!Occurrences(p, a.key) + Compiler!Provenance) * Compiler!Total(Compiler!Sizes(a))
      * (Variants(r, p) \div Len(a.choices))
VariableTexts(r, p) == [i \in DOMAIN VariableAxesOf(r, p) |-> VariableText(r, p, VariableAxesOf(r, p)[i])]
VariantText(r, p) == Compiler!LiteralBytes(p) * Variants(r, p) + Compiler!Total(VariableTexts(r, p))
PromptText(r, p) == Compiler!Product(ImageSizes(r)) * Compiler!Product(ParameterSizes(r)) * VariantText(r, p)
PromptTexts(r) == [n \in DOMAIN r.prompts |-> PromptText(r, r.prompts[n])]

LEMMA CountsAreNatural ==
  ASSUME NEW p, Compiler!IsList(p.text), NEW name
  PROVE  Compiler!LiteralBytes(p) \in Nat /\ Compiler!Occurrences(p, name) \in Nat
<1>1. DOMAIN p.text = 1 .. Len(p.text) /\ Len(p.text) \in Nat
  BY CompilerLists
<1>2. ASSUME NEW S \in SUBSET (1 .. Len(p.text)) PROVE Cardinality(S) \in Nat
  <2>1. IsFiniteSet(1 .. Len(p.text))
    BY <1>1, FS_Interval
  <2>2. IsFiniteSet(S)
    BY <2>1, FS_Subset
  <2>3. QED
    BY <2>2, FS_CardinalityType
<1>3. /\ Compiler!LiteralBytes(p) = Cardinality({i \in 1 .. Len(p.text) : p.text[i] = Compiler!Literal})
      /\ Compiler!Occurrences(p, name) = Cardinality({i \in 1 .. Len(p.text) : p.text[i] = name})
  BY <1>1, CompilerNames DEF Compiler!LiteralBytes, Compiler!Occurrences, Compiler!Count
<1>4. QED
  BY <1>2, <1>3

LEMMA NaturalList ==
  ASSUME NEW n \in Nat, NEW s, s = [i \in 1 .. n |-> s[i]], \A i \in 1 .. n : s[i] \in Nat
  PROVE  s \in Seq(Nat) /\ Compiler!Total(s) \in Nat
<1>1. s \in [1 .. n -> Nat]
  OBVIOUS
<1>2. s \in Seq(Nat)
  BY <1>1
<1>3. QED
  BY <1>2, SumsAreNaturals

LEMMA QuotientIsNatural ==
  ASSUME NEW a \in Nat, NEW b \in Positive
  PROVE  a \div b \in Nat
BY QuotientBounds DEF Positive

LEMMA VariantTextIsNatural ==
  ASSUME NEW r, Compiler!IsRequest(r), IsCountable(r), NEW p \in Compiler!Range(r.prompts)
  PROVE  VariantText(r, p) \in Nat
<1> DEFINE v == VariableAxesOf(r, p)
           n == Len(Compiler!Names(p.text))
<1>1. Compiler!IsList(p.text)
  BY DEF Compiler!IsRequest
<1>2. DOMAIN Compiler!Names(p.text) = 1 .. n /\ n \in Nat
  BY <1>1, NamesAreLists, CompilerLists
<1>3. Variants(r, p) \in Nat
  <2>1. VariableSizes(r, p) \in Seq(Nat \ {0})
    BY DEF IsCountable, Positive
  <2>2. QED
    BY <2>1, ProductsArePositive DEF Variants
<1>4. DOMAIN v = 1 .. n
  BY <1>2 DEF VariableAxesOf
<1>5. ASSUME NEW i \in 1 .. n PROVE VariableText(r, p, v[i]) \in Nat
  <2> DEFINE b == Compiler!Named(r.variables, Compiler!Names(p.text)[i])
             sizes == Compiler!Sizes(v[i])
  <2>1. b \in Compiler!Range(r.variables) /\ v[i].choices = b.values
    BY <1>2 DEF IsCountable, VariableAxesOf
  <2> HIDE DEF v, b
  <2>2. Compiler!IsList(v[i].choices) /\ \A c \in Compiler!Range(v[i].choices) : c.bytes \in Nat
    BY <2>1 DEF Compiler!IsRequest
  <2>3. DOMAIN v[i].choices = 1 .. Len(v[i].choices) /\ Len(v[i].choices) \in Nat
    BY <2>2, CompilerLists
  <2>4. sizes = [k \in 1 .. Len(v[i].choices) |-> sizes[k]] /\ \A k \in 1 .. Len(v[i].choices) : sizes[k] \in Nat
    BY <2>2, <2>3, CompilerLists DEF Compiler!Sizes
  <2>5. Compiler!Total(sizes) \in Nat
    <3> HIDE DEF sizes
    <3>1. QED
      BY <2>3, <2>4, NaturalList
  <2>6. Len(v[i].choices) \in Positive
    <3>1. VariableSizes(r, p) \in Seq(Positive)
      BY DEF IsCountable
    <3>2. Len(VariableSizes(r, p)) = n /\ VariableSizes(r, p)[i] = Len(v[i].choices)
      BY <1>2, <2>1 DEF VariableSizes, b
    <3>3. QED
      BY <3>1, <3>2
  <2>7. Variants(r, p) \div Len(v[i].choices) \in Nat
    BY <1>3, <2>6, QuotientIsNatural
  <2>8. Compiler!Occurrences(p, v[i].key) + Compiler!Provenance \in Nat
    BY <1>1, CountsAreNatural DEF Compiler!Provenance
  <2>9. \A a, c, d \in Nat : a * c * d \in Nat
    OBVIOUS
  <2>10. QED
    BY <2>5, <2>7, <2>8, <2>9 DEF VariableText
<1>6. Compiler!Total(VariableTexts(r, p)) \in Nat
  <2> DEFINE t == VariableTexts(r, p)
  <2>1. t = [i \in 1 .. n |-> t[i]] /\ \A i \in 1 .. n : t[i] \in Nat
    BY <1>4, <1>5 DEF VariableTexts
  <2> HIDE DEF t
  <2>2. QED
    BY <1>2, <2>1, NaturalList DEF t
<1>7. Compiler!LiteralBytes(p) \in Nat
  BY <1>1, CountsAreNatural
<1>8. \A a, b, c \in Nat : a * b + c \in Nat
  OBVIOUS
<1>9. QED
  BY <1>3, <1>6, <1>7, <1>8 DEF VariantText

LEMMA PromptTextIsNatural ==
  ASSUME NEW r, Compiler!IsRequest(r), IsCountable(r), NEW p \in Compiler!Range(r.prompts)
  PROVE  /\ Compiler!Product(ImageSizes(r)) \in Nat /\ Compiler!Product(ParameterSizes(r)) \in Nat
         /\ VariantText(r, p) \in Nat /\ PromptText(r, p) \in Nat
<1>1. Compiler!Product(ImageSizes(r)) \in Nat /\ Compiler!Product(ParameterSizes(r)) \in Nat
  <2>1. ImageSizes(r) \in Seq(Nat \ {0}) /\ ParameterSizes(r) \in Seq(Nat \ {0})
    BY DEF IsCountable, Positive
  <2>2. QED
    BY <2>1, ProductsArePositive
<1>2. VariantText(r, p) \in Nat
  BY VariantTextIsNatural
<1>3. \A a, b, c \in Nat : a * b * c \in Nat
  OBVIOUS
<1>4. QED
  BY <1>1, <1>2, <1>3 DEF PromptText

LEMMA TextOfPromptIs ==
  ASSUME Compiler!IsRequest(request), IsCountable(request), SeedsPer(seeds) \in Positive,
         NEW p \in Compiler!Range(request.prompts)
  PROVE  Compiler!TextOf(p) = PromptText(request, p) * SeedsPer(seeds) /\ PromptText(request, p) \in Nat
<1> DEFINE r == request
           images == Compiler!Product(ImageSizes(r))
           parameters == Compiler!Product(ParameterSizes(r))
<1>1. Compiler!VariableAxes(p) = VariableAxesOf(r, p)
  BY DEF Compiler!VariableAxes, VariableAxesOf
<1>2. [i \in DOMAIN Compiler!VariableAxes(p) |-> Len(Compiler!VariableAxes(p)[i].choices)] = VariableSizes(r, p)
  BY DEF Compiler!VariableAxes, VariableSizes
<1>3. [i \in DOMAIN Compiler!ImageAxes |-> Compiler!SizeOf(Compiler!ImageAxes[i])] = ImageSizes(r)
  BY DEF Compiler!ImageAxes, Compiler!SizeOf, ImageSizes
<1>4. [i \in DOMAIN Compiler!ParameterAxes |-> Compiler!SizeOf(Compiler!ParameterAxes[i])] = ParameterSizes(r)
  <2> DEFINE n == Len(ParameterNames(r))
  <2>1. /\ Compiler!ParameterAxes = [i \in 1 .. n |-> Compiler!ParameterAxes[i]]
        /\ ParameterSizes(r) = [i \in 1 .. n |-> ParameterSizes(r)[i]]
        /\ \A i \in 1 .. n : Compiler!SizeOf(Compiler!ParameterAxes[i]) = ParameterSizes(r)[i]
    BY ParameterSizesAgree
  <2> HIDE DEF n, r
  <2>2. DOMAIN Compiler!ParameterAxes = 1 .. n
    BY <2>1
  <2>3. QED
    BY <2>1, <2>2
<1>5. images \in Nat /\ parameters \in Nat /\ VariantText(r, p) \in Nat
  BY PromptTextIsNatural
<1>7. [i \in DOMAIN Compiler!VariableAxes(p) |->
         LET a == Compiler!VariableAxes(p)[i] IN
         (Compiler!Occurrences(p, a.key) + Compiler!Provenance) * Compiler!Total(Compiler!Sizes(a))
           * (Variants(r, p) \div Len(a.choices))] = VariableTexts(r, p)
  BY <1>1 DEF VariableTexts, VariableText
<1>8. Compiler!TextOf(p) = (SeedsPer(seeds) * images * parameters) * VariantText(r, p)
  BY <1>2, <1>3, <1>4, <1>7 DEF Compiler!TextOf, VariantText, Variants, Compiler!SeedCount, SeedsPer
<1> HIDE DEF images, parameters
<1>9. PromptText(r, p) = images * parameters * VariantText(r, p)
  BY DEF PromptText, images, parameters
<1>10. SeedsPer(seeds) \in Nat
  BY DEF Positive
<1>11. \A a, b, c, d \in Nat : (a * b * c) * d = (b * c * d) * a /\ b * c * d \in Nat
  OBVIOUS
<1>12. QED
  BY <1>5, <1>8, <1>9, <1>10, <1>11

\* A factor of every member of a sum divides the sum.
LEMMA FactorOfProduct ==
  ASSUME NEW ns \in Seq(Positive), NEW i \in 1 .. Len(ns)
  PROVE  \E k \in Nat : Compiler!Product(ns) = k * ns[i]
<1> DEFINE p == Products(ns)
           S == {n \in Nat : n >= i => \E k \in Nat : p[n] = k * ns[i]}
<1>1. Len(ns) \in Nat /\ i \in Nat /\ i # 0 /\ \A n \in 1 .. Len(ns) : ns[n] \in Nat
  BY DEF Positive
<1>2. IsRun(p, ns) /\ Compiler!Product(ns) = p[Len(ns)]
  BY <1>1, CompilerProductsAre
<1>3. \A n \in 0 .. Len(ns) : p[n] \in Nat
  BY ProductsArePositive DEF Positive
<1> HIDE DEF p
<1>4. 0 .. Len(ns) \subseteq S
  <2>1. 0 \in S
    BY <1>1
  <2>2. ASSUME NEW n \in 0 .. Len(ns), n \in S, n < Len(ns) PROVE n + 1 \in S
    <3>1. n + 1 \in 1 .. Len(ns) /\ (n + 1) - 1 = n /\ n + 1 \in Nat
      BY <1>1, <2>2
    <3>2. p[n + 1] = p[n] * ns[n + 1]
      BY <1>2, <3>1 DEF IsRun
    <3>3. CASE n + 1 = i
      <4>1. p[n + 1] = p[n] * ns[i] /\ p[n] \in Nat
        BY <1>3, <2>2, <3>2, <3>3
      <4>2. QED
        BY <3>1, <4>1
    <3>4. CASE n >= i
      <4>1. PICK k \in Nat : p[n] = k * ns[i]
        BY <2>2, <3>4
      <4>2. ns[n + 1] \in Nat /\ ns[i] \in Nat
        BY <1>1, <3>1
      <4>3. \A a, b, c \in Nat : (a * b) * c = (a * c) * b /\ a * c \in Nat
        OBVIOUS
      <4>4. p[n + 1] = (k * ns[n + 1]) * ns[i] /\ k * ns[n + 1] \in Nat
        BY <3>2, <4>1, <4>2, <4>3
      <4>5. QED
        BY <3>1, <4>4
    <3>5. CASE n + 1 < i
      <4>1. ~(n + 1 >= i)
        BY <1>1, <3>5, <3>1
      <4>2. QED
        BY <3>1, <4>1
    <3>6. n + 1 = i \/ n >= i \/ n + 1 < i
      BY <1>1, <2>2
    <3>7. QED
      BY <3>3, <3>4, <3>5, <3>6
  <2> HIDE DEF S
  <2>3. QED
    BY <1>1, <2>1, <2>2, UpToBound
<1> DEFINE size == Len(ns)
<1>5. size \in S /\ size >= i
  <2>1. size \in Nat /\ i \in 1 .. size
    BY <1>1
  <2> HIDE DEF S, size
  <2>2. size \in 0 .. size /\ size >= i
    BY <2>1
  <2>3. size \in S
    BY <1>4, <2>2 DEF size
  <2>4. QED
    BY <2>2, <2>3
<1>6. QED
  BY <1>2, <1>5

LEMMA FactorOfSum ==
  ASSUME NEW ns \in Seq(Nat), NEW c \in Nat, \A n \in 1 .. Len(ns) : \E k \in Nat : ns[n] = k * c
  PROVE  \E k \in Nat : Compiler!Total(ns) = k * c
<1> DEFINE ks == [n \in 1 .. Len(ns) |-> CHOOSE k \in Nat : ns[n] = k * c]
<1>1. Len(ns) \in Nat /\ DOMAIN ns = 1 .. Len(ns) /\ ns = [n \in 1 .. Len(ns) |-> ns[n]]
  OBVIOUS
<1>2. \A n \in 1 .. Len(ns) : ks[n] \in Nat /\ ns[n] = ks[n] * c
  OBVIOUS
<1>3. DOMAIN ks = 1 .. Len(ns) /\ ks = [n \in 1 .. Len(ns) |-> ks[n]]
  OBVIOUS
<1> HIDE DEF ks
<1>4. ks \in Seq(Nat) /\ Compiler!Total(ks) \in Nat
  BY <1>1, <1>2, <1>3, NaturalList
<1>5. ns = [n \in DOMAIN ks |-> ks[n] * c]
  BY <1>1, <1>2, <1>3
<1>6. Compiler!Total(ns) = Compiler!Total(ks) * c
  BY <1>4, <1>5, SumOfMultiples
<1>7. QED
  BY <1>4, <1>6

LEMMA QuotientOfMultiple ==
  ASSUME NEW k \in Nat, NEW c \in Positive
  PROVE  (k * c) \div c = k
<1> DEFINE q == (k * c) \div c
<1>1. c \in Nat \ {0}
  BY DEF Positive
<1>2. k * c \in Nat /\ k * c <= k * c
  BY <1>1
<1>3. k <= q
  BY <1>1, <1>2, QuotientIsGreatest
<1>4. q \in Nat /\ q * c <= k * c
  BY <1>1, <1>2, QuotientBounds
<1> HIDE DEF q
<1>5. q <= k
  <2>1. \A a, b \in Nat, d \in Nat \ {0} : a > b => a * d >= b * d + d
    <3>1. SUFFICES ASSUME NEW a \in Nat, NEW b \in Nat, NEW d \in Nat \ {0}, a > b PROVE a * d >= b * d + d
      OBVIOUS
    <3>2. PICK e \in Nat : a = b + 1 + e
      <4>1. a - (b + 1) \in Nat /\ a = b + 1 + (a - (b + 1))
        BY <3>1
      <4>2. QED
        BY <4>1
    <3>3. (b + 1 + e) * d = b * d + d + e * d /\ e * d \in Nat /\ b * d \in Nat
      OBVIOUS
    <3>4. QED
      BY <3>2, <3>3
  <2>2. q > k => q * c >= k * c + c
    BY <1>1, <1>4, <2>1
  <2>3. q * c \in Nat
    BY <1>1, <1>4
  <2>4. QED
    BY <1>1, <1>2, <1>4, <2>2, <2>3
<1>6. QED
  BY <1>3, <1>4, <1>5 DEF q

LEMMA SizesDivideThePlan ==
  ASSUME NEW r, Compiler!IsRequest(r), IsCountable(r), NEW i \in 1 .. Len(ParameterSizes(r))
  PROVE  \E k \in Nat : PlanSize(r) = k * ParameterSizes(r)[i]
<1> DEFINE c == ParameterSizes(r)[i]
<1>1. c \in Nat
  <2>1. ParameterSizes(r) \in Seq(Positive)
    BY DEF IsCountable
  <2>2. QED
    BY <2>1 DEF Positive
<1>2. ASSUME NEW n \in 1 .. Len(Weights(r)) PROVE \E k \in Nat : Weights(r)[n] = k * c
  <2> DEFINE p == r.prompts[n]
             s == AxisSizes(r, p)
             h == VariableSizes(r, p) \o ImageSizes(r)
  <2>1. p \in Compiler!Range(r.prompts) /\ s \in Seq(Positive) /\ Weights(r)[n] = Compiler!Product(s)
    BY WeightsArePositive
  <2>2. VariableSizes(r, p) \in Seq(Positive) /\ ImageSizes(r) \in Seq(Positive) /\ ParameterSizes(r) \in Seq(Positive)
    BY <2>1 DEF IsCountable
  <2>3. h \in Seq(Positive)
    BY ONLY <2>2, ConcatProperties
  <2>4. s = h \o ParameterSizes(r)
    BY DEF AxisSizes
  <2> HIDE DEF h, s
  <2>5. Len(s) = Len(h) + Len(ParameterSizes(r)) /\ \A j \in 1 .. Len(ParameterSizes(r)) : s[Len(h) + j] = ParameterSizes(r)[j]
    BY ONLY <2>2, <2>3, <2>4, ConcatProperties
  <2>6. Len(h) \in Nat /\ Len(ParameterSizes(r)) \in Nat
    BY <2>2, <2>3
  <2>7. Len(h) + i \in 1 .. Len(s) /\ s[Len(h) + i] = c
    BY <2>5, <2>6
  <2>8. QED
    BY <2>1, <2>7, FactorOfProduct
<1>3. Weights(r) \in Seq(Nat)
  BY WeightsArePositive
<1> HIDE DEF c
<1>4. \E k \in Nat : Compiler!Total(Weights(r)) = k * c
  BY <1>1, <1>2, <1>3, FactorOfSum
<1>5. QED
  BY <1>4 DEF PlanSize, c

ParameterText(r, name) ==
    IF name.kind = "linked"
    THEN LET table == Compiler!Keyed(r.sets, name.key).rows IN
         Compiler!Total([i \in DOMAIN table |->
           Compiler!Total([j \in DOMAIN table[i] |-> Compiler!StringBytes(table[i][j])])])
    ELSE LET x == Compiler!Keyed(r.intents, name.key) IN
         IF x.mode = "values" THEN Compiler!Total([i \in DOMAIN x.values |-> Compiler!StringBytes(x.values[i])])
         ELSE 0
ParameterTexts(r) ==
    [i \in DOMAIN ParameterNames(r) |->
       ParameterText(r, ParameterNames(r)[i]) * (PlanSize(r) \div ParameterSizes(r)[i])]
TextPerSeed(r) == Compiler!Total(PromptTexts(r)) + Compiler!Total(ParameterTexts(r))

BytesOfValues(s) == [i \in DOMAIN s |-> Compiler!StringBytes(s[i])]

LEMMA StringsAreCounted ==
  ASSUME NEW s, Compiler!IsList(s)
  PROVE  /\ (\A v \in Compiler!Range(s) : Compiler!IsSized(v)) => Compiler!Total(BytesOfValues(s)) \in Nat
         /\ (\A v \in Compiler!Range(s) : v.type # "string") => Compiler!Total(BytesOfValues(s)) = 0
<1> DEFINE b == BytesOfValues(s)
<1>1. DOMAIN s = 1 .. Len(s) /\ Len(s) \in Nat /\ \A i \in 1 .. Len(s) : s[i] \in Compiler!Range(s)
  BY CompilerLists
<1>2. b = [i \in 1 .. Len(s) |-> b[i]] /\ \A i \in 1 .. Len(s) : b[i] = Compiler!StringBytes(s[i])
  BY <1>1 DEF BytesOfValues
<1> HIDE DEF b
<1>3. ASSUME \A v \in Compiler!Range(s) : Compiler!IsSized(v) PROVE Compiler!Total(b) \in Nat
  <2>1. \A i \in 1 .. Len(s) : b[i] \in Nat
    BY <1>1, <1>2, <1>3 DEF Compiler!StringBytes, Compiler!IsSized
  <2>2. QED
    BY <1>1, <1>2, <2>1, NaturalList
<1>4. ASSUME \A v \in Compiler!Range(s) : v.type # "string" PROVE Compiler!Total(b) = 0
  <2>1. \A i \in 1 .. Len(s) : b[i] = 0
    BY <1>1, <1>2, <1>4 DEF Compiler!StringBytes
  <2>2. b \in Seq(Nat) /\ Compiler!Total(b) \in Nat
    BY <1>1, <1>2, <2>1, NaturalList
  <2>3. DOMAIN b = 1 .. Len(s)
    BY <1>2
  <2>4. b = [i \in DOMAIN b |-> b[i] * 0]
    BY <1>2, <2>1, <2>3
  <2>5. Compiler!Total(b) = Compiler!Total(b) * 0
    BY <2>2, <2>4, SumOfMultiples
  <2>6. QED
    BY <2>2, <2>5
<1>5. QED
  BY <1>3, <1>4 DEF b

LEMMA RangesHoldNoText ==
  ASSUME NEW x, x.mode # "values", Compiler!RangeCount(x.range) \in Nat, NEW t
  PROVE  Compiler!IsList(Compiler!IntentValues(t, x)) /\ \A v \in Compiler!Range(Compiler!IntentValues(t, x)) : v.type # "string"
<1> DEFINE n == Compiler!RangeCount(x.range)
           scalars == [i \in 1 .. n |-> Compiler!RangeScalar(t, x.range, i - 1)]
           T == {v \in Compiler!Range(scalars) \cup {Compiler!Base} : v.type # "string"}
<1>1. Compiler!IntentValues(t, x) = IF x.base THEN <<Compiler!Base>> \o scalars ELSE scalars
  BY DEF Compiler!IntentValues, Compiler!RangeValues
<1>2. \A i \in 1 .. n : scalars[i].type # "string"
  BY DEF Compiler!RangeScalar, Compiler!Integer, Compiler!Float
<1>3. \A i \in 1 .. n : scalars[i] \in Compiler!Range(scalars)
  BY DEF Compiler!Range
<1>4. Compiler!Base \in T
  BY DEF Compiler!Base
<1>5. scalars = [i \in 1 .. n |-> scalars[i]] /\ \A i \in 1 .. n : scalars[i] \in T
  BY <1>2, <1>3
<1> HIDE DEF scalars, T, n
<1>6. n \in Nat
  BY DEF n
<1>7. scalars \in Seq(T)
  <2>1. scalars \in [1 .. n -> T]
    BY <1>5
  <2>2. QED
    BY <1>6, <2>1
<1>8. <<Compiler!Base>> \in Seq(T)
  BY <1>4
<1>9. <<Compiler!Base>> \o scalars \in Seq(T)
  BY ONLY <1>7, <1>8, ConcatProperties
<1>10. Compiler!IntentValues(t, x) \in Seq(T)
  BY <1>1, <1>7, <1>9
<1>11. \A v \in Compiler!Range(Compiler!IntentValues(t, x)) : v \in T
  BY <1>10 DEF Compiler!Range
<1>12. QED
  BY <1>10, <1>11, SequencesAreLists DEF T

LEMMA ParameterTextIs ==
  ASSUME Compiler!IsRequest(request), IsCountable(request), NEW i \in 1 .. Len(ParameterNames(request))
  PROVE  LET a == Compiler!ParameterAxes[i]
             text == ParameterText(request, ParameterNames(request)[i])
         IN  /\ Compiler!AxisBytes(a) = text /\ text \in Nat
             /\ Len(a.choices) \in Positive
             /\ text # 0 => Len(a.choices) = ParameterSizes(request)[i]
<1> DEFINE r == request
           name == ParameterNames(r)[i]
           a == Compiler!ParameterAxes[i]
           x == Compiler!Keyed(r.intents, name.key)
           set == Compiler!Keyed(r.sets, name.key)
           text == ParameterText(r, name)
<1>1. i \in DOMAIN ParameterNames(r)
  BY ParameterSizesAgree
<1>2. /\ a.kind = name.kind
      /\ a.choices = IF name.kind = "linked" THEN set.rows ELSE Compiler!BoundValues(x)
  BY <1>1, ParameterAxesAre
<1>3. ParameterSizes(r)[i] = IF name.kind = "linked" THEN Len(set.rows) ELSE Compiler!IntentCount(x)
  BY <1>1 DEF ParameterSizes, ParameterSize
<1>4. ParameterSizes(r)[i] \in Positive
  <2>1. ParameterSizes(r) \in Seq(Positive) /\ DOMAIN ParameterSizes(r) = DOMAIN ParameterNames(r)
    BY DEF IsCountable, ParameterSizes
  <2>2. QED
    BY <1>1, <2>1
<1>5. name.kind \in {"linked", "parameter"}
  <2>1. PICK k : name = NameOf(r, r.parameters[k].key)
    BY <1>1, ParameterNamesAreList
  <2>2. QED
    BY <2>1 DEF NameOf
<1>6. CASE name.kind = "linked"
  <2>1. set \in Compiler!Range(r.sets)
    BY <1>1, <1>6 DEF IsCountable
  <2> HIDE DEF set
  <2>2. /\ Compiler!IsList(set.rows)
        /\ \A row \in Compiler!Range(set.rows) : Compiler!IsList(row) /\ \A v \in Compiler!Range(row) : Compiler!IsSized(v)
    BY <2>1 DEF Compiler!IsRequest
  <2> DEFINE table == set.rows
             sums == [k \in DOMAIN table |-> Compiler!Total(BytesOfValues(table[k]))]
  <2>3. DOMAIN table = 1 .. Len(table) /\ Len(table) \in Nat /\ \A k \in 1 .. Len(table) : table[k] \in Compiler!Range(table)
    BY <2>2, CompilerLists
  <2>4. \A k \in 1 .. Len(table) : Compiler!Total(BytesOfValues(table[k])) \in Nat
    BY <2>2, <2>3, StringsAreCounted
  <2>5. sums = [k \in 1 .. Len(table) |-> sums[k]] /\ \A k \in 1 .. Len(table) : sums[k] \in Nat
    BY <2>3, <2>4
  <2>6. text = Compiler!Total(sums)
    BY <1>6 DEF ParameterText, BytesOfValues, set
  <2>7. Compiler!AxisBytes(a) = Compiler!Total(sums)
    BY <1>2, <1>6 DEF Compiler!AxisBytes, BytesOfValues
  <2>8. Compiler!Total(sums) \in Nat
    <3> HIDE DEF sums
    <3>1. QED
      BY <2>3, <2>5, NaturalList
  <2> HIDE DEF sums, text, a
  <2>9. QED
    BY <1>2, <1>3, <1>4, <1>6, <2>6, <2>7, <2>8 DEF text, a
<1>7. CASE name.kind = "parameter"
  <2>1. x \in Compiler!Range(r.intents)
    BY <1>1, <1>7 DEF IsCountable
  <2>2. /\ x.mode # "values" => Compiler!RangeCount(x.range) \in Nat
        /\ Compiler!IsBound(x)
    BY <2>1 DEF IsCountable, Compiler!IsRequest
  <2>3. a.choices = Compiler!BoundValues(x) /\ ParameterSizes(r)[i] = Compiler!IntentCount(x)
    BY <1>2, <1>3, <1>7
  <2>4. Compiler!AxisBytes(a) = Compiler!Total(BytesOfValues(a.choices))
    BY <1>2, <1>7 DEF Compiler!AxisBytes, BytesOfValues
  <2>5. text = IF x.mode = "values" THEN Compiler!Total(BytesOfValues(x.values)) ELSE 0
    BY <1>7 DEF ParameterText, BytesOfValues
  <2> HIDE DEF x, text, a
  <2>6. Len(Compiler!IntentValues(Compiler!TypeOf(x.key), x)) = Compiler!IntentCount(x)
    BY <2>2, ValuesAreCounted
  <2>7. CASE x.mode = "values"
    <3>1. a.choices = x.values /\ Compiler!IntentCount(x) = Len(x.values)
      BY <2>3, <2>7 DEF Compiler!BoundValues, Compiler!IntentValues, Compiler!IntentCount
    <3>2. Compiler!IsList(x.values) /\ \A v \in Compiler!Range(x.values) : Compiler!IsSized(v)
      BY <2>2, <2>7 DEF Compiler!IsBound
    <3>3. Compiler!Total(BytesOfValues(x.values)) \in Nat
      BY <3>2, StringsAreCounted
    <3>4. Compiler!AxisBytes(a) = text /\ text \in Nat
      BY <2>4, <2>5, <2>7, <3>1, <3>3
    <3>5. Len(a.choices) \in Positive /\ Len(a.choices) = ParameterSizes(r)[i]
      BY <1>4, <2>3, <3>1
    <3>6. QED
      BY <3>4, <3>5 DEF a, text
  <2>8. CASE x.mode # "values" /\ a.choices = Compiler!IntentValues(Compiler!TypeOf(x.key), x)
    <3>1. Compiler!IsList(a.choices) /\ \A v \in Compiler!Range(a.choices) : v.type # "string"
      BY <2>2, <2>8, RangesHoldNoText
    <3>2. Compiler!Total(BytesOfValues(a.choices)) = 0
      BY <3>1, StringsAreCounted
    <3>3. Len(a.choices) \in Positive
      BY <1>4, <2>3, <2>6, <2>8
    <3>4. QED
      BY <2>4, <2>5, <2>8, <3>2, <3>3 DEF a, text
  <2>9. CASE x.mode # "values" /\ a.choices = <<Compiler!Base>>
    <3>1. <<Compiler!Base>> \in Seq({Compiler!Base}) /\ Len(<<Compiler!Base>>) = 1
      OBVIOUS
    <3>2. Compiler!IsList(a.choices) /\ \A v \in Compiler!Range(a.choices) : v = Compiler!Base
      <4>1. Compiler!IsList(<<Compiler!Base>>)
        BY <3>1, SequencesAreLists
      <4>2. \A v \in Compiler!Range(<<Compiler!Base>>) : v = Compiler!Base
        BY DEF Compiler!Range
      <4>3. QED
        BY <2>9, <4>1, <4>2
    <3>3. Compiler!Base.type # "string"
      BY DEF Compiler!Base
    <3>4. Compiler!Total(BytesOfValues(a.choices)) = 0
      BY <3>2, <3>3, StringsAreCounted
    <3>5. Len(a.choices) \in Positive
      BY <2>9, <3>1 DEF Positive
    <3>6. QED
      BY <2>4, <2>5, <2>9, <3>4, <3>5 DEF a, text
  <2>10. QED
    BY <2>3, <2>7, <2>8, <2>9 DEF Compiler!BoundValues
<1>8. QED
  BY <1>5, <1>6, <1>7

LEMMA TextIsNatural ==
  ASSUME Compiler!IsRequest(request), IsCountable(request)
  PROVE  /\ PromptTexts(request) \in Seq(Nat) /\ Compiler!Total(PromptTexts(request)) \in Nat
         /\ ParameterTexts(request) \in Seq(Nat) /\ Compiler!Total(ParameterTexts(request)) \in Nat
         /\ TextPerSeed(request) \in Nat /\ PlanSize(request) \in Nat
<1> DEFINE r == request
           m == Len(r.prompts)
           n == Len(ParameterNames(r))
           t == PromptTexts(r)
           u == ParameterTexts(r)
<1>1. DOMAIN r.prompts = 1 .. m /\ m \in Nat /\ \A k \in 1 .. m : r.prompts[k] \in Compiler!Range(r.prompts)
  BY WeightsArePositive DEF Positive
<1>2. t = [k \in 1 .. m |-> t[k]] /\ \A k \in 1 .. m : t[k] \in Nat
  BY <1>1, PromptTextIsNatural DEF PromptTexts
<1>3. PlanSize(r) \in Nat
  BY WeightsArePositive, SumsAreNaturals DEF PlanSize
<1>4. DOMAIN ParameterNames(r) = 1 .. n /\ n \in Nat
  BY ParameterSizesAgree
<1>5. ParameterSizes(r) \in Seq(Positive) /\ Len(ParameterSizes(r)) = n
  BY <1>4 DEF IsCountable, ParameterSizes
<1>6. ASSUME NEW i \in 1 .. n PROVE u[i] \in Nat
  <2>1. ParameterText(r, ParameterNames(r)[i]) \in Nat
    BY ParameterTextIs
  <2>2. PlanSize(r) \div ParameterSizes(r)[i] \in Nat
    <3>1. ParameterSizes(r)[i] \in Positive
      BY <1>5
    <3> HIDE DEF r
    <3>2. QED
      BY <1>3, <3>1, QuotientIsNatural
  <2>3. u[i] = ParameterText(r, ParameterNames(r)[i]) * (PlanSize(r) \div ParameterSizes(r)[i])
    BY <1>4 DEF ParameterTexts
  <2> HIDE DEF u, r
  <2>4. QED
    BY <2>1, <2>2, <2>3
<1>7. u = [i \in 1 .. n |-> u[i]]
  BY <1>4 DEF ParameterTexts
<1> HIDE DEF t, u
<1>8. t \in Seq(Nat) /\ Compiler!Total(t) \in Nat /\ u \in Seq(Nat) /\ Compiler!Total(u) \in Nat
  BY <1>1, <1>2, <1>4, <1>6, <1>7, NaturalList
<1>9. QED
  BY <1>3, <1>8 DEF t, u, TextPerSeed

\* The text that is measured is that of one seed times the seeds of each configuration.
LEMMA TextBytesAre ==
  ASSUME Compiler!IsRequest(request), IsCountable(request), SeedsPer(seeds) \in Positive,
         total = PlanSize(request) * SeedsPer(seeds)
  PROVE  Compiler!TextBytes = TextPerSeed(request) * SeedsPer(seeds) /\ TextPerSeed(request) \in Nat
<1> DEFINE r == request
           c == SeedsPer(seeds)
           n == Len(ParameterNames(r))
           t == PromptTexts(r)
           u == ParameterTexts(r)
           parts == [i \in DOMAIN Compiler!ParameterAxes |->
                       Compiler!AxisBytes(Compiler!ParameterAxes[i]) * (total \div Len(Compiler!ParameterAxes[i].choices))]
<1>1. c \in Nat /\ PlanSize(r) \in Nat /\ t \in Seq(Nat) /\ u \in Seq(Nat)
      /\ Compiler!Total(t) \in Nat /\ Compiler!Total(u) \in Nat
  BY TextIsNatural DEF Positive
<1>2. [k \in DOMAIN r.prompts |-> Compiler!TextOf(r.prompts[k])] = [k \in DOMAIN t |-> t[k] * c]
  <2> DEFINE m == Len(r.prompts)
  <2>1. DOMAIN r.prompts = 1 .. m /\ m \in Nat /\ \A k \in 1 .. m : r.prompts[k] \in Compiler!Range(r.prompts)
    BY WeightsArePositive DEF Positive
  <2>2. \A k \in 1 .. m : Compiler!TextOf(r.prompts[k]) = PromptText(r, r.prompts[k]) * c /\ PromptText(r, r.prompts[k]) \in Nat
    BY <2>1, TextOfPromptIs
  <2>3. t = [k \in 1 .. m |-> t[k]] /\ \A k \in 1 .. m : t[k] = PromptText(r, r.prompts[k])
    BY <2>1 DEF PromptTexts
  <2> HIDE DEF t, m, c
  <2>5. DOMAIN t = 1 .. m
    BY <2>3
  <2>6. [k \in DOMAIN r.prompts |-> Compiler!TextOf(r.prompts[k])] = [k \in DOMAIN t |-> t[k] * c]
    BY <2>1, <2>2, <2>3, <2>5
  <2>7. QED
    BY <2>6
<1>3. /\ DOMAIN ParameterNames(r) = 1 .. n /\ n \in Nat
      /\ DOMAIN Compiler!ParameterAxes = 1 .. n /\ DOMAIN ParameterSizes(r) = 1 .. n
  BY ParameterSizesAgree
<1>4. ParameterSizes(r) \in Seq(Positive) /\ Len(ParameterSizes(r)) = n
  BY <1>3 DEF IsCountable
<1>5. ASSUME NEW i \in 1 .. n PROVE parts[i] = u[i] * c
  <2> DEFINE a == Compiler!ParameterAxes[i]
             text == ParameterText(r, ParameterNames(r)[i])
             size == ParameterSizes(r)[i]
  <2>1. /\ Compiler!AxisBytes(a) = text /\ text \in Nat
        /\ Len(a.choices) \in Positive
        /\ text # 0 => Len(a.choices) = size
    BY ParameterTextIs
  <2>2. u[i] = text * (PlanSize(r) \div size) /\ parts[i] = text * (total \div Len(a.choices))
    BY <1>3, <2>1 DEF ParameterTexts
  <2>3. size \in Positive /\ i \in 1 .. Len(ParameterSizes(r))
    BY <1>4
  <2>4. PICK k \in Nat : PlanSize(r) = k * size
    BY <2>3, SizesDivideThePlan
  <2> HIDE DEF a, text, size, u, parts, c
  <2>5. PlanSize(r) \div size = k
    BY <2>3, <2>4, QuotientOfMultiple
  <2>6. CASE text = 0
    <3>1. total \in Nat
      BY <1>1 DEF c
    <3>2. total \div Len(a.choices) \in Nat
      BY <2>1, <3>1, QuotientIsNatural
    <3>3. \A d \in Nat : 0 * d = 0
      OBVIOUS
    <3>4. QED
      BY <1>1, <2>2, <2>4, <2>5, <2>6, <3>2, <3>3
  <2>7. CASE text # 0
    <3>1. size \in Nat
      BY <2>3 DEF Positive
    <3>2. \A d, e, f \in Nat : (d * e) * f = (d * f) * e /\ d * f \in Nat
      OBVIOUS
    <3>3. total = (k * c) * size /\ k * c \in Nat
      BY <1>1, <2>4, <3>1, <3>2 DEF c
    <3>4. total \div size = k * c
      BY <2>3, <3>3, QuotientOfMultiple
    <3>5. \A d, e, f \in Nat : d * (e * f) = (d * e) * f /\ d * e \in Nat
      OBVIOUS
    <3>6. QED
      BY <1>1, <2>1, <2>2, <2>5, <2>7, <3>4, <3>5, SMTT(20)
  <2>8. QED
    BY <2>6, <2>7
<1>6. u = [i \in 1 .. n |-> u[i]] /\ DOMAIN parts = 1 .. n /\ parts = [i \in 1 .. n |-> parts[i]]
  BY <1>3 DEF ParameterTexts
<1> HIDE DEF u, parts, t
<1>8. parts = [i \in DOMAIN u |-> u[i] * c]
  <2>1. DOMAIN u = 1 .. n
    BY <1>6
  <2>2. QED
    BY <1>5, <1>6, <2>1
<1>9. Compiler!Total(parts) = Compiler!Total(u) * c
  BY <1>1, <1>8, SumOfMultiples
<1>10. Compiler!Total([k \in DOMAIN r.prompts |-> Compiler!TextOf(r.prompts[k])]) = Compiler!Total(t) * c
  BY <1>1, <1>2, SumOfMultiples
<1>11. Compiler!TextBytes = Compiler!Total(t) * c + Compiler!Total(u) * c
  BY <1>9, <1>10 DEF Compiler!TextBytes, parts
<1>12. TextPerSeed(r) = Compiler!Total(t) + Compiler!Total(u)
  BY DEF TextPerSeed, t, u
<1>13. \A d, e, f \in Nat : d * f + e * f = (d + e) * f /\ d + e \in Nat
  OBVIOUS
<1> HIDE DEF c, n, r
<1>14. QED
  BY <1>1, <1>11, <1>12, <1>13 DEF c, r

-----------------------------------------------------------------------------
\* The budget of a stage, and what the stages before have left of it.
Needs(r) == r.seeds.mode = "random" /\ r.seeds.values = <<>>
Reps(r) == IF Needs(r) THEN r.seeds.count ELSE 1
Room(l, r, s, n) ==
    IF s = "preflight" THEN l.jobs \div Reps(r)
    ELSE IF s = "count" THEN Compiler!Smaller(l.jobs, CompilerMaxSeed + 1) \div Reps(r)
    ELSE IF s = "compile" THEN l.jobs
    ELSE n
LargestText(r, p) ==
    Compiler!LiteralBytes(p) + Compiler!Total([i \in DOMAIN VariableAxesOf(r, p) |->
      LET a == VariableAxesOf(r, p)[i] IN
      Compiler!Occurrences(p, a.key)
        * (CHOOSE n \in Compiler!Range(Compiler!Sizes(a)) : \A m \in Compiler!Range(Compiler!Sizes(a)) : m <= n)])
HasLargePrompt(r) == \E p \in Compiler!Range(r.prompts) : LargestText(r, p) > MaxPromptBytes

CompilerStages == {"preflight", "count", "compile", "validate"}
CompilerWorks == {"check", "axis", "text", "draw", "expand", "end"}

CompilerShape ==
    /\ limits \in Limits
    /\ Compiler!IsRequest(request)
    /\ Compiler!IsSeedInput(seeds)
    /\ Compiler!IsList(stored)
    /\ Compiler!IsList(jobs)
    /\ stage \in CompilerStages
    /\ work \in CompilerWorks
    /\ outcome # "running" => work = "end"
    /\ work = "check" => prompt = 1 /\ axis = 0 /\ total = 0
StagesAreCountable ==
    /\ work \in {"axis", "text", "draw", "expand"} \/ stage \in {"count", "compile"} \/ outcome = "tooMany" =>
         IsCountable(request)
    /\ work \in {"axis", "text", "expand"} \/ outcome = "tooMany" =>
         SeedsPer(seeds) \in Positive /\ seeds.values # <<>>
CountIsPartial ==
    work = "axis" =>
      /\ prompt \in 1 .. Len(request.prompts)
      /\ axis \in Nat
      /\ total = Sums(Weights(request))[prompt - 1] * SeedsPer(seeds)
      /\ total <= Room(limits, request, stage, Len(stored))
      /\ axis > 0 =>
           /\ axis - 1 <= Len(AxisSizes(request, request.prompts[prompt]))
           /\ product = Products(AxisSizes(request, request.prompts[prompt]))[axis - 1] * SeedsPer(seeds)
           /\ total + product <= Room(limits, request, stage, Len(stored))
CountIsWhole ==
    /\ work \in {"text", "expand"} =>
         total = PlanSize(request) * SeedsPer(seeds) /\ total <= Room(limits, request, stage, Len(stored))
    /\ outcome = "tooMany" => PlanSize(request) * SeedsPer(seeds) > Room(limits, request, stage, Len(stored))
    /\ outcome = "tooLong" => stage = "preflight"
StagesAgree ==
    /\ stage \in {"preflight", "count"} /\ work # "draw" /\ Needs(request) => SeedsPer(seeds) = 1
    /\ work = "draw" => stage = "count" /\ seeds.mode = "random" /\ seeds.count = Reps(request)
    /\ stage = "count" =>
         /\ Needs(request)
         /\ PlanSize(request) <= limits.jobs \div Reps(request)
         /\ TextPerSeed(request) <= limits.text \div Reps(request)
    /\ stage = "compile" =>
         /\ PlanSize(request) * SeedsPer(seeds) <= limits.jobs
         /\ TextPerSeed(request) * SeedsPer(seeds) <= limits.text
    /\ stage \in {"count", "compile"} => ~HasLargePrompt(request)
SeedsDiffer == stage # "validate" /\ seeds.mode = "random" => Compiler!IsInjective(seeds.values)

CompilerInvariant ==
    CompilerShape /\ StagesAreCountable /\ CountIsPartial /\ CountIsWhole /\ StagesAgree /\ SeedsDiffer

LEMMA CompilerIsAssumed ==
  /\ Limits \subseteq [jobs : Nat, text : Nat]
  /\ MaxPromptBytes \in Nat /\ CompilerMaxSeed \in Nat
  /\ \A r \in Requests : Compiler!IsRequest(r)
BY PlanningAssumption DEF Compiler!CompilerAssumption

LEMMA RoomIs ==
  ASSUME CompilerShape
  PROVE  /\ Compiler!JobLimit = Room(limits, request, stage, Len(stored))
         /\ Room(limits, request, stage, Len(stored)) \in Nat
         /\ Reps(request) \in Positive
         /\ Compiler!Repetitions = Reps(request) /\ Compiler!SeedCount = SeedsPer(seeds)
         /\ Compiler!NeedsSeeds <=> Needs(request)
         /\ limits.jobs \in Nat /\ limits.text \in Nat
<1>1. limits.jobs \in Nat /\ limits.text \in Nat /\ Len(stored) \in Nat
  BY CompilerIsAssumed, CompilerLists DEF CompilerShape
<1>2. Reps(request) \in Positive
  BY DEF Reps, Needs, Positive, CompilerShape, Compiler!IsRequest, Compiler!IsSeedInput
<1>3. Compiler!Repetitions = Reps(request) /\ Compiler!SeedCount = SeedsPer(seeds) /\ (Compiler!NeedsSeeds <=> Needs(request))
  BY DEF Compiler!Repetitions, Reps, Compiler!SeedCount, SeedsPer, Compiler!NeedsSeeds, Needs
<1>4. Compiler!Smaller(limits.jobs, CompilerMaxSeed + 1) \in Nat
  BY <1>1, CompilerIsAssumed DEF Compiler!Smaller
<1>5. limits.jobs \div Reps(request) \in Nat /\ Compiler!Smaller(limits.jobs, CompilerMaxSeed + 1) \div Reps(request) \in Nat
  BY <1>1, <1>2, <1>4, QuotientIsNatural
<1>6. Compiler!JobLimit = Room(limits, request, stage, Len(stored))
  BY <1>3 DEF Compiler!JobLimit, Compiler!MaxJobs, Room, CompilerShape, CompilerStages
<1>7. QED
  BY <1>1, <1>2, <1>3, <1>5, <1>6 DEF Room

\* What a prompt has come to is never more than the whole.
IsPart(r, n, k, c, sizes) ==
    LET before == Sums(Weights(r))[n - 1] IN
    /\ before \in Nat /\ before * c \in Nat /\ Products(sizes)[k] * c \in Nat
    /\ before * c + Products(sizes)[k] * c <= PlanSize(r) * c
    /\ PlanSize(r) * c \in Nat
    /\ Products(sizes)[0] = 1
    /\ k > 0 => /\ Products(sizes)[k] = Products(sizes)[k - 1] * sizes[k]
                /\ sizes[k] \in Positive /\ Products(sizes)[k - 1] \in Positive
    /\ before + Products(sizes)[Len(sizes)] = Sums(Weights(r))[n]
    /\ Products(sizes)[Len(sizes)] \in Positive
    /\ Sums(Weights(r))[Len(r.prompts)] = PlanSize(r)

LEMMA PartOfPlan ==
  ASSUME NEW r, Compiler!IsRequest(r), IsCountable(r), NEW n \in 1 .. Len(r.prompts),
         NEW s, s = AxisSizes(r, r.prompts[n]), NEW k \in 0 .. Len(s), NEW c \in Positive
  PROVE  IsPart(r, n, k, c, s)
<1> DEFINE w == Weights(r)
<1>1. w \in Seq(Nat) /\ Len(w) = Len(r.prompts) /\ Len(r.prompts) \in Nat /\ s \in Seq(Positive) /\ w[n] = Compiler!Product(s)
  BY WeightsArePositive DEF Positive
<1>2. IsSum(Sums(w), w) /\ Compiler!Total(w) = Sums(w)[Len(w)]
  BY <1>1, CompilerSumsAre
<1>3. Sums(w)[n - 1] \in Nat /\ Sums(w)[n] \in Nat /\ Sums(w)[n] <= PlanSize(r) /\ PlanSize(r) \in Nat
  BY <1>1, SumsAreNaturals DEF PlanSize
<1>4. Sums(w)[n] = Sums(w)[n - 1] + w[n]
  BY <1>1, <1>2 DEF IsSum
<1>5. Len(s) \in Nat
  BY <1>1
<1>6. IsRun(Products(s), s) /\ Compiler!Product(s) = Products(s)[Len(s)]
  BY <1>5, CompilerProductsAre
<1>7. (\A m \in 0 .. Len(s) : Products(s)[m] \in Positive /\ Products(s)[m] <= w[n]) /\ w[n] \in Positive
  BY <1>1, ProductsArePositive DEF Positive
<1>8. /\ Products(s)[0] = 1
      /\ k > 0 => Products(s)[k] = Products(s)[k - 1] * s[k] /\ s[k] \in Positive /\ Products(s)[k - 1] \in Positive
  <2>1. k > 0 => k \in 1 .. Len(s) /\ k - 1 \in 0 .. Len(s)
    BY <1>5
  <2>2. QED
    BY <1>1, <1>6, <1>7, <2>1 DEF IsRun
<1> HIDE DEF w
<1>9. k \in 0 .. Len(s) /\ Len(s) \in 0 .. Len(s)
  BY <1>5
<1>10. Sums(w)[n - 1] + Products(s)[k] <= PlanSize(r)
  BY <1>3, <1>4, <1>7, <1>9 DEF Positive
<1>11. c \in Nat /\ Products(s)[k] \in Nat
  BY <1>7, <1>9 DEF Positive
<1>12. (Sums(w)[n - 1] + Products(s)[k]) * c <= PlanSize(r) * c
  BY <1>3, <1>10, <1>11, StepsAreMonotone
<1>13. \A a, b \in Nat : (a + b) * c = a * c + b * c /\ a * c \in Nat /\ b * c \in Nat
  BY <1>11
<1>14. Sums(w)[n - 1] * c + Products(s)[k] * c <= PlanSize(r) * c /\ Sums(w)[n - 1] * c \in Nat /\ Products(s)[k] * c \in Nat
  BY <1>3, <1>11, <1>12, <1>13
<1>15. Sums(w)[0] = 0 /\ Sums(w)[Len(r.prompts)] = PlanSize(r)
  BY <1>1, <1>2 DEF IsSum, PlanSize, w
<1>16. PlanSize(r) * c \in Nat
  BY <1>3, <1>11
<1>17. QED
  BY <1>1, <1>3, <1>4, <1>6, <1>7, <1>8, <1>9, <1>14, <1>15, <1>16 DEF w, IsPart

LEMMA TextIsJudged ==
  ASSUME CompilerShape, IsCountable(request), SeedsPer(seeds) \in Positive,
         total = PlanSize(request) * SeedsPer(seeds), stage # "validate"
  PROVE  Compiler!IsTooLong <=>
           \/ HasLargePrompt(request)
           \/ TextPerSeed(request) * SeedsPer(seeds) >
                (IF stage = "compile" THEN limits.text ELSE limits.text \div Reps(request))
<1>1. Compiler!TextBytes = TextPerSeed(request) * SeedsPer(seeds) /\ Compiler!Repetitions = Reps(request)
  BY TextBytesAre, RoomIs DEF CompilerShape
<1>2. \A p : Compiler!VariableAxes(p) = VariableAxesOf(request, p)
  BY DEF Compiler!VariableAxes, VariableAxesOf
<1>3. \A p : Compiler!LargestPrompt(p) = LargestText(request, p)
  BY <1>2 DEF Compiler!LargestPrompt, LargestText
<1>4. QED
  BY <1>1, <1>3 DEF Compiler!IsTooLong, Compiler!MaxTextBytes, HasLargePrompt

LEMMA CompilerStarts == Compiler!Init => CompilerInvariant
<1> SUFFICES ASSUME Compiler!Init PROVE CompilerInvariant
  OBVIOUS
<1>1. /\ limits \in Limits /\ Compiler!IsRequest(request) /\ stage = "preflight" /\ work = "check" /\ outcome = "running"
      /\ stored = <<>> /\ jobs = <<>> /\ prompt = 1 /\ axis = 0 /\ total = 0
      /\ seeds = Compiler!TheSeeds(request)
  BY CompilerIsAssumed DEF Compiler!Init
<1>2. Compiler!IsList(<<>>) /\ Compiler!IsList(<<0>>) /\ Len(<<0>>) = 1
  <2>1. <<>> \in Seq({0}) /\ <<0>> \in Seq({0}) /\ Len(<<0>>) = 1
    OBVIOUS
  <2>2. QED
    BY <2>1, SequencesAreLists
<1>3. Compiler!IsSeedInput(seeds)
  BY <1>1, <1>2 DEF Compiler!TheSeeds, Compiler!IsSeedInput, Compiler!IsRequest
<1>4. Needs(request) => SeedsPer(seeds) = 1
  BY <1>1, <1>2 DEF Compiler!TheSeeds, Needs, SeedsPer
<1>5. seeds.mode = "random" => Compiler!IsInjective(seeds.values)
  BY <1>1 DEF Compiler!TheSeeds, Compiler!IsRequest
<1>6. CompilerShape
  BY <1>1, <1>2, <1>3 DEF CompilerShape, CompilerStages, CompilerWorks
<1>7. StagesAreCountable /\ CountIsPartial /\ CountIsWhole
  BY <1>1 DEF StagesAreCountable, CountIsPartial, CountIsWhole
<1>8. StagesAgree /\ SeedsDiffer
  BY <1>1, <1>4, <1>5 DEF StagesAgree, SeedsDiffer
<1>9. QED
  BY <1>6, <1>7, <1>8 DEF CompilerInvariant

LEMMA RefusalsAreKept ==
  ASSUME CompilerInvariant, NEW reason \in {"invalid", "tooMany", "tooLong", "unresolved", "mismatch"}, Compiler!Refuse(reason),
         work # "draw",
         reason = "tooMany" =>
           /\ IsCountable(request) /\ SeedsPer(seeds) \in Positive /\ seeds.values # <<>>
           /\ PlanSize(request) * SeedsPer(seeds) > Room(limits, request, stage, Len(stored)),
         reason = "tooLong" => stage = "preflight"
  PROVE  CompilerInvariant'
<1> USE DEF Compiler!Refuse, Compiler!given, Compiler!counters, Compiler!expansion
<1>1. CompilerShape'
  BY DEF CompilerInvariant, CompilerShape, CompilerWorks
<1>2. StagesAreCountable'
  BY DEF CompilerInvariant, StagesAreCountable
<1>3. CountIsPartial' /\ CountIsWhole'
  BY DEF CompilerInvariant, CountIsPartial, CountIsWhole
<1>4. StagesAgree' /\ SeedsDiffer'
  BY DEF CompilerInvariant, StagesAgree, SeedsDiffer
<1>5. QED
  BY <1>1, <1>2, <1>3, <1>4 DEF CompilerInvariant

LEMMA CheckKeeps ==
  ASSUME CompilerInvariant, Compiler!Check
  PROVE  CompilerInvariant'
<1> USE DEF Compiler!given, Compiler!counters, Compiler!expansion
<1>1. CASE ~(Compiler!IntentsAreValid /\ Compiler!CombinationsFit /\ Compiler!IsValid)
  <2>1. Compiler!Refuse("invalid") /\ work # "draw"
    BY <1>1 DEF Compiler!Check
  <2>2. QED
    BY <2>1, RefusalsAreKept
<1>2. CASE Compiler!IntentsAreValid /\ Compiler!CombinationsFit /\ Compiler!IsValid
  <2>1. /\ work = "check" /\ work' = "axis"
        /\ UNCHANGED <<limits, request, stage, seeds, stored, prompt, axis, product, total, position, digits, jobs, outcome>>
    BY <1>2 DEF Compiler!Check
  <2>2. IsCountable(request) /\ SeedsPer(seeds) \in Positive /\ seeds.values # <<>>
    BY <1>2, ChecksMakeCountable DEF CompilerInvariant, CompilerShape
  <2>3. prompt = 1 /\ axis = 0 /\ total = 0
    BY <2>1 DEF CompilerInvariant, CompilerShape
  <2>4. Len(request.prompts) \in Positive
    BY <2>2, WeightsArePositive DEF CompilerInvariant, CompilerShape
  <2>5. 1 \in 1 .. Len(request.prompts)
    BY <2>4 DEF Positive
  <2>6. Sums(Weights(request))[0] = 0
    <3>1. Len(Weights(request)) \in Nat
      BY <2>2, WeightsArePositive DEF CompilerInvariant, CompilerShape, Positive
    <3>2. QED
      BY <3>1, CompilerSumsAre DEF IsSum
  <2>7. Sums(Weights(request))[prompt - 1] * SeedsPer(seeds) = 0
    BY <2>2, <2>3, <2>6 DEF Positive
  <2>8. Room(limits, request, stage, Len(stored)) \in Nat
    BY RoomIs DEF CompilerInvariant
  <2>9. CompilerShape'
    BY <2>1 DEF CompilerInvariant, CompilerShape, CompilerWorks
  <2>10. StagesAreCountable'
    BY <2>1, <2>2 DEF CompilerInvariant, StagesAreCountable
  <2>11. CountIsPartial'
    BY <2>1, <2>3, <2>5, <2>7, <2>8 DEF CountIsPartial
  <2>12. CountIsWhole' /\ SeedsDiffer'
    BY <2>1 DEF CompilerInvariant, CountIsWhole, SeedsDiffer
  <2>13. StagesAgree'
    BY <2>1 DEF CompilerInvariant, StagesAgree
  <2>14. QED
    BY <2>9, <2>10, <2>11, <2>12, <2>13 DEF CompilerInvariant
<1>3. QED
  BY <1>1, <1>2

\* What is known while the dimensions of a prompt are counted.
LEMMA CountingKnows ==
  ASSUME CompilerInvariant, work = "axis", NEW s, s = AxisSizes(request, request.prompts[prompt]),
         NEW k \in 0 .. Len(s)
  PROVE  /\ prompt \in 1 .. Len(request.prompts) /\ Len(request.prompts) \in Nat
         /\ IsCountable(request) /\ SeedsPer(seeds) \in Positive /\ seeds.values # <<>>
         /\ total \in Nat /\ s \in Seq(Positive)
         /\ Products(s)[k] * SeedsPer(seeds) \in Nat
         /\ total + Products(s)[k] * SeedsPer(seeds) <= PlanSize(request) * SeedsPer(seeds)
         /\ PlanSize(request) * SeedsPer(seeds) \in Nat
         /\ Products(s)[0] = 1
         /\ k > 0 => Products(s)[k] = Products(s)[k - 1] * s[k] /\ s[k] \in Positive /\ Products(s)[k - 1] \in Positive
         /\ Sums(Weights(request))[prompt - 1] + Products(s)[Len(s)] = Sums(Weights(request))[prompt]
         /\ Sums(Weights(request))[prompt - 1] \in Nat /\ Products(s)[Len(s)] \in Positive
         /\ Sums(Weights(request))[Len(request.prompts)] = PlanSize(request)
<1>1. /\ Compiler!IsRequest(request) /\ IsCountable(request) /\ SeedsPer(seeds) \in Positive /\ seeds.values # <<>>
      /\ prompt \in 1 .. Len(request.prompts)
      /\ total = Sums(Weights(request))[prompt - 1] * SeedsPer(seeds)
  BY DEF CompilerInvariant, CompilerShape, StagesAreCountable, CountIsPartial
<1>2. DOMAIN request.prompts = 1 .. Len(request.prompts) /\ Len(request.prompts) \in Nat /\ s \in Seq(Positive)
  BY <1>1, WeightsArePositive DEF Positive
<1>3. IsPart(request, prompt, k, SeedsPer(seeds), s)
  BY ONLY <1>1, s = AxisSizes(request, request.prompts[prompt]), k \in 0 .. Len(s), PartOfPlan, Zenon
<1>4. QED
  BY <1>1, <1>2, <1>3 DEF IsPart

LEMMA CountSeedsKeeps ==
  ASSUME CompilerInvariant, Compiler!CountSeeds
  PROVE  CompilerInvariant'
<1> DEFINE room == Room(limits, request, stage, Len(stored))
           c == SeedsPer(seeds)
           s == AxisSizes(request, request.prompts[prompt])
<1> USE DEF Compiler!given, Compiler!counters, Compiler!expansion
<1>1. work = "axis" /\ axis = 0
  BY DEF Compiler!CountSeeds
<1>2. Compiler!JobLimit = room /\ Compiler!SeedCount = c /\ room \in Nat
  BY RoomIs DEF CompilerInvariant
<1>3. prompt \in 1 .. Len(request.prompts) /\ IsCountable(request) /\ total <= room /\ c \in Positive /\ seeds.values # <<>>
  BY <1>1 DEF CompilerInvariant, CountIsPartial, StagesAreCountable
<1>4. s \in Seq(Positive)
  BY <1>3, WeightsArePositive DEF CompilerInvariant, CompilerShape
<1>5. 0 \in 0 .. Len(s)
  BY <1>4
<1>6. /\ total \in Nat /\ Products(s)[0] = 1
      /\ total + Products(s)[0] * c <= PlanSize(request) * c /\ PlanSize(request) * c \in Nat
  BY <1>1, <1>5, CountingKnows
<1>7. c \in Nat /\ Products(s)[0] * c = c
  BY <1>3, <1>6 DEF Positive
<1>8. CASE Compiler!SeedCount > Compiler!JobLimit - total
  <2>1. Compiler!Refuse("tooMany")
    BY <1>8 DEF Compiler!CountSeeds
  <2>2. PlanSize(request) * c > room
    BY <1>2, <1>6, <1>7, <1>8
  <2>3. QED
    BY <1>1, <1>3, <2>1, <2>2, RefusalsAreKept
<1>9. CASE ~(Compiler!SeedCount > Compiler!JobLimit - total)
  <2>1. /\ product' = Compiler!SeedCount /\ axis' = 1
        /\ UNCHANGED <<limits, request, stage, seeds, stored, work, prompt, total, position, digits, jobs, outcome>>
    BY <1>9 DEF Compiler!CountSeeds
  <2>2. total + c <= room
    BY <1>2, <1>6, <1>7, <1>9
  <2>3. CompilerShape' /\ StagesAreCountable'
    BY <1>1, <2>1 DEF CompilerInvariant, CompilerShape, StagesAreCountable
  <2>4. CountIsPartial'
    <3>1. axis' \in Nat /\ axis' - 1 = 0 /\ axis' - 1 <= Len(s) /\ product' = Products(s)[axis' - 1] * c
      BY <1>2, <1>4, <1>7, <2>1
    <3>2. total + product' <= room
      BY <1>2, <2>1, <2>2
    <3>3. QED
      BY <1>1, <2>1, <3>1, <3>2 DEF CompilerInvariant, CountIsPartial
  <2>5. CountIsWhole' /\ StagesAgree' /\ SeedsDiffer'
    BY <1>1, <2>1 DEF CompilerInvariant, CountIsWhole, StagesAgree, SeedsDiffer
  <2>6. QED
    BY <2>3, <2>4, <2>5 DEF CompilerInvariant
<1>10. QED
  BY <1>8, <1>9

LEMMA CountAxisKeeps ==
  ASSUME CompilerInvariant, Compiler!CountAxis
  PROVE  CompilerInvariant'
<1> DEFINE room == Room(limits, request, stage, Len(stored))
           c == SeedsPer(seeds)
           s == AxisSizes(request, request.prompts[prompt])
           p == request.prompts[prompt]
<1> USE DEF Compiler!given, Compiler!counters, Compiler!expansion
<1>1. work = "axis" /\ axis \in DOMAIN Compiler!Axes(p)
  BY DEF Compiler!CountAxis
<1>2. Compiler!JobLimit = room /\ room \in Nat
  BY RoomIs DEF CompilerInvariant
<1>3. prompt \in 1 .. Len(request.prompts) /\ IsCountable(request) /\ total <= room /\ c \in Positive /\ seeds.values # <<>>
  BY <1>1 DEF CompilerInvariant, CountIsPartial, StagesAreCountable
<1>4. s \in Seq(Positive) /\ p \in Compiler!Range(request.prompts)
  BY <1>3, WeightsArePositive DEF CompilerInvariant, CompilerShape
<1>5. DOMAIN Compiler!Axes(p) = 1 .. Len(s) /\ \A i \in 1 .. Len(s) : Compiler!SizeOf(Compiler!Axes(p)[i]) = s[i]
  BY <1>3, <1>4, SizesAgree DEF CompilerInvariant, CompilerShape
<1> DEFINE size == s[axis]
<1>6. axis \in 1 .. Len(s) /\ axis \in 0 .. Len(s) /\ axis > 0 /\ Compiler!SizeOf(Compiler!Axes(p)[axis]) = size /\ Len(s) \in Nat
  BY <1>1, <1>4, <1>5
<1>7. product = Products(s)[axis - 1] * c /\ total + product <= room
  BY <1>1, <1>6 DEF CompilerInvariant, CountIsPartial
<1>8. /\ total \in Nat /\ Products(s)[axis] * c \in Nat
      /\ total + Products(s)[axis] * c <= PlanSize(request) * c /\ PlanSize(request) * c \in Nat
      /\ Products(s)[axis] = Products(s)[axis - 1] * size /\ size \in Positive /\ Products(s)[axis - 1] \in Positive
  BY <1>1, <1>6, CountingKnows
<1>9. product \in Nat /\ product * size = Products(s)[axis] * c
  <2> DEFINE before == Products(s)[axis - 1]
  <2>1. c \in Nat /\ size \in Nat /\ before \in Nat
    BY <1>3, <1>8 DEF Positive
  <2>2. \A a, b, d \in Nat : a * b \in Nat /\ (a * b) * d = (a * d) * b
    OBVIOUS
  <2>3. product = before * c /\ Products(s)[axis] = before * size
    BY <1>7, <1>8
  <2> HIDE DEF before, c, size
  <2>4. before * c \in Nat /\ (before * c) * size = (before * size) * c
    BY ONLY <2>1, <2>2
  <2>5. product \in Nat /\ product * size = (before * size) * c
    BY <2>3, <2>4
  <2>6. QED
    BY <2>3, <2>5
<1>10. Compiler!Fits(size) <=> product * size <= room - total
  <2>1. size \in Nat \ {0} /\ room - total \in Nat
    BY <1>2, <1>3, <1>8 DEF Positive
  <2>2. product * size <= room - total => product <= (room - total) \div size
    BY <1>9, <2>1, QuotientIsGreatest
  <2>3. ASSUME product <= (room - total) \div size PROVE product * size <= room - total
    <3> DEFINE q == (room - total) \div size
    <3>1. q \in Nat /\ q * size <= room - total
      BY <2>1, QuotientBounds
    <3> HIDE DEF q, size, room
    <3>2. product * size <= q * size
      BY <1>9, <2>1, <2>3, <3>1, StepsAreMonotone DEF q
    <3>3. product * size \in Nat /\ q * size \in Nat
      BY <1>9, <2>1, <3>1
    <3>4. QED
      BY <2>1, <3>1, <3>2, <3>3
  <2>4. QED
    BY <1>2, <2>2, <2>3 DEF Compiler!Fits
<1>11. CASE ~Compiler!Fits(size)
  <2>1. Compiler!Refuse("tooMany")
    BY <1>6, <1>11 DEF Compiler!CountAxis
  <2>2. PlanSize(request) * c > room
    BY <1>2, <1>8, <1>9, <1>10, <1>11
  <2>3. QED
    BY <1>1, <1>3, <2>1, <2>2, RefusalsAreKept
<1>12. CASE Compiler!Fits(size)
  <2>1. /\ product' = product * size /\ axis' = axis + 1
        /\ UNCHANGED <<limits, request, stage, seeds, stored, work, prompt, total, position, digits, jobs, outcome>>
    BY <1>6, <1>12 DEF Compiler!CountAxis
  <2>2. CompilerShape' /\ StagesAreCountable'
    BY <1>1, <2>1 DEF CompilerInvariant, CompilerShape, StagesAreCountable
  <2>3. CountIsPartial'
    <3>1. axis' \in Nat /\ axis' - 1 = axis /\ axis' - 1 <= Len(s) /\ product' = Products(s)[axis' - 1] * c
      BY <1>6, <1>9, <2>1
    <3>2. total + product' <= room
      BY <1>2, <1>8, <1>9, <1>10, <1>12, <2>1
    <3>3. QED
      BY <1>1, <2>1, <3>1, <3>2 DEF CompilerInvariant, CountIsPartial
  <2>4. CountIsWhole' /\ StagesAgree' /\ SeedsDiffer'
    BY <1>1, <2>1 DEF CompilerInvariant, CountIsWhole, StagesAgree, SeedsDiffer
  <2>5. QED
    BY <2>2, <2>3, <2>4 DEF CompilerInvariant
<1>13. QED
  BY <1>11, <1>12

LEMMA CountPromptKeeps ==
  ASSUME CompilerInvariant, Compiler!CountPrompt
  PROVE  CompilerInvariant'
<1> DEFINE room == Room(limits, request, stage, Len(stored))
           c == SeedsPer(seeds)
           s == AxisSizes(request, request.prompts[prompt])
           p == request.prompts[prompt]
<1> USE DEF Compiler!given, Compiler!counters, Compiler!expansion
<1>1. work = "axis" /\ axis = Len(Compiler!Axes(p)) + 1
  BY DEF Compiler!CountPrompt
<1>2. prompt \in 1 .. Len(request.prompts) /\ IsCountable(request) /\ c \in Positive /\ seeds.values # <<>>
  BY <1>1 DEF CompilerInvariant, CountIsPartial, StagesAreCountable
<1>3. s \in Seq(Positive) /\ p \in Compiler!Range(request.prompts)
  BY <1>2, WeightsArePositive DEF CompilerInvariant, CompilerShape
<1>4. Len(Compiler!Axes(p)) = Len(s) /\ Len(s) \in Nat /\ Len(s) \in 0 .. Len(s)
  BY <1>2, <1>3, SizesAgree DEF CompilerInvariant, CompilerShape
<1>5. axis > 0 /\ axis - 1 = Len(s)
  BY <1>1, <1>4
<1>6. /\ product = Products(s)[Len(s)] * c /\ total + product <= room
      /\ total = Sums(Weights(request))[prompt - 1] * c
  BY <1>1, <1>5 DEF CompilerInvariant, CountIsPartial
<1>7. /\ Sums(Weights(request))[prompt - 1] + Products(s)[Len(s)] = Sums(Weights(request))[prompt]
      /\ Sums(Weights(request))[prompt - 1] \in Nat /\ Products(s)[Len(s)] \in Positive
      /\ Sums(Weights(request))[Len(request.prompts)] = PlanSize(request)
      /\ Len(request.prompts) \in Nat
  BY <1>1, <1>4, CountingKnows
<1>8. total + product = Sums(Weights(request))[prompt] * c
  <2> DEFINE a == Sums(Weights(request))[prompt - 1]
             b == Products(s)[Len(s)]
             e == Sums(Weights(request))[prompt]
  <2>1. /\ a \in Nat /\ b \in Nat /\ c \in Nat
        /\ a + b = e /\ total = a * c /\ product = b * c
    BY <1>2, <1>6, <1>7 DEF Positive
  <2> HIDE DEF a, b, c, e
  <2>2. a * c + b * c = (a + b) * c
    BY ONLY <2>1
  <2>3. total + product = e * c
    BY ONLY <2>1, <2>2
  <2>4. QED
    BY ONLY <2>3 DEF c, e
<1>9. total' = total + product /\ UNCHANGED <<limits, request, stage, seeds, stored, product, position, digits, jobs, outcome>>
  BY DEF Compiler!CountPrompt
<1>10. CASE prompt < Len(request.prompts)
  <2>1. prompt' = prompt + 1 /\ axis' = 0 /\ work' = work
    BY <1>10 DEF Compiler!CountPrompt
  <2>2. CompilerShape' /\ StagesAreCountable'
    BY <1>1, <1>9, <2>1 DEF CompilerInvariant, CompilerShape, StagesAreCountable
  <2>3. CountIsPartial'
    <3>1. prompt' \in 1 .. Len(request.prompts) /\ prompt' - 1 = prompt
      BY <1>2, <1>7, <1>10, <2>1
    <3>2. total' = Sums(Weights(request))[prompt' - 1] * c /\ total' <= room
      BY <1>6, <1>8, <1>9, <3>1
    <3>3. QED
      BY <1>9, <2>1, <3>1, <3>2 DEF CountIsPartial
  <2>4. CountIsWhole' /\ StagesAgree' /\ SeedsDiffer'
    BY <1>1, <1>9, <2>1 DEF CompilerInvariant, CountIsWhole, StagesAgree, SeedsDiffer
  <2>5. QED
    BY <2>2, <2>3, <2>4 DEF CompilerInvariant
<1>11. CASE ~(prompt < Len(request.prompts))
  <2>1. work' = "text" /\ prompt' = prompt /\ axis' = axis
    BY <1>11 DEF Compiler!CountPrompt
  <2>2. prompt = Len(request.prompts)
    BY <1>2, <1>7, <1>11
  <2>3. total' = PlanSize(request) * c /\ total' <= room
    BY <1>6, <1>7, <1>8, <1>9, <2>2
  <2>4. CompilerShape' /\ StagesAreCountable' /\ CountIsPartial'
    BY <1>1, <1>9, <2>1 DEF CompilerInvariant, CompilerShape, CompilerWorks, StagesAreCountable, CountIsPartial
  <2>5. CountIsWhole'
    BY <1>9, <2>1, <2>3 DEF CompilerInvariant, CountIsWhole
  <2>6. StagesAgree' /\ SeedsDiffer'
    BY <1>1, <1>9, <2>1 DEF CompilerInvariant, StagesAgree, SeedsDiffer
  <2>7. QED
    BY <2>4, <2>5, <2>6 DEF CompilerInvariant
<1>12. QED
  BY <1>10, <1>11

LEMMA OneIsNeutral ==
  ASSUME NEW n \in Nat
  PROVE  n \div 1 = n /\ n * 1 = n
<1>1. 1 \in Positive /\ n * 1 = n
  BY DEF Positive
<1>2. (n * 1) \div 1 = n
  BY <1>1, QuotientOfMultiple
<1>3. QED
  BY <1>1, <1>2

LEMMA JoinedLists ==
  ASSUME NEW s, NEW t, Compiler!IsList(s), Compiler!IsList(t)
  PROVE  Compiler!IsList(s \o t)
<1> DEFINE S == Compiler!Range(s) \cup Compiler!Range(t)
<1>1. s \in Seq(S) /\ t \in Seq(S)
  BY DEF Compiler!IsList
<1> HIDE DEF S
<1>2. s \o t \in Seq(S)
  BY ONLY <1>1, ConcatProperties
<1>3. QED
  BY <1>2, SequencesAreLists

\* Calling _compile_batch again, for a stage that agrees with those before.
LEMMA CallsAreKept ==
  ASSUME CompilerInvariant, work # "end", NEW next \in CompilerStages, Compiler!Call(next),
         limits' = limits, Compiler!IsRequest(request'), Compiler!IsSeedInput(seeds'),
         Compiler!IsList(stored'), Compiler!IsList(jobs'),
         next \in {"count", "compile"} => IsCountable(request'),
         StagesAgree', SeedsDiffer'
  PROVE  CompilerInvariant'
<1>1. outcome = "running"
  BY DEF CompilerInvariant, CompilerShape
<1>2. /\ stage' = next /\ work' = "check" /\ prompt' = 1 /\ axis' = 0 /\ total' = 0 /\ outcome' = outcome
  BY DEF Compiler!Call
<1>3. CompilerShape'
  BY <1>1, <1>2 DEF CompilerInvariant, CompilerShape, CompilerWorks
<1>4. StagesAreCountable' /\ CountIsPartial' /\ CountIsWhole'
  BY <1>1, <1>2 DEF StagesAreCountable, CountIsPartial, CountIsWhole
<1>5. QED
  BY <1>3, <1>4 DEF CompilerInvariant

LEMMA MeasureKeeps ==
  ASSUME CompilerInvariant, Compiler!Measure
  PROVE  CompilerInvariant'
<1> DEFINE room == Room(limits, request, stage, Len(stored))
           c == SeedsPer(seeds)
           text == TextPerSeed(request) * c
<1> USE DEF Compiler!given, Compiler!counters, Compiler!expansion
<1>1. work = "text"
  BY DEF Compiler!Measure
<1>2. /\ IsCountable(request) /\ c \in Positive /\ seeds.values # <<>>
      /\ total = PlanSize(request) * c /\ total <= room /\ outcome = "running"
  BY <1>1 DEF CompilerInvariant, CompilerShape, CountIsWhole, StagesAreCountable
<1>3. /\ stage \in CompilerStages /\ Compiler!IsRequest(request) /\ Compiler!IsSeedInput(seeds)
      /\ Compiler!IsList(stored) /\ Compiler!IsList(jobs)
  BY DEF CompilerInvariant, CompilerShape
<1>4. /\ limits.jobs \in Nat /\ limits.text \in Nat /\ Reps(request) \in Positive
      /\ Compiler!Repetitions = Reps(request) /\ (Compiler!NeedsSeeds <=> Needs(request))
  BY RoomIs DEF CompilerInvariant
<1>5. PlanSize(request) \in Nat /\ TextPerSeed(request) \in Nat
  BY <1>2, <1>3, SizeOfPlanIs, TextBytesAre
<1>6. stage # "validate" =>
        (Compiler!IsTooLong <=> \/ HasLargePrompt(request)
                                \/ text > (IF stage = "compile" THEN limits.text ELSE limits.text \div Reps(request)))
  BY <1>2, TextIsJudged DEF CompilerInvariant
<1>7. stage \in {"preflight", "count"} /\ Needs(request) => c = 1 /\ text = TextPerSeed(request) /\ total = PlanSize(request)
  <2>1. stage \in {"preflight", "count"} /\ Needs(request) => c = 1
    BY <1>1 DEF CompilerInvariant, StagesAgree
  <2> HIDE DEF c
  <2>2. QED
    BY <1>2, <1>5, <2>1, OneIsNeutral
<1>8. text \in Nat /\ limits.text \div Reps(request) \in Nat
  <2>1. limits.text \div Reps(request) \in Nat
    BY <1>4, QuotientIsNatural
  <2>2. QED
    BY <1>2, <1>5, <2>1 DEF Positive
<1>9. Compiler!IsTooLong => stage = "preflight"
  <2>1. stage = "compile" => ~Compiler!IsTooLong
    <3>1. stage = "compile" => text <= limits.text /\ ~HasLargePrompt(request)
      BY DEF CompilerInvariant, StagesAgree
    <3> HIDE DEF text
    <3>2. QED
      BY <1>4, <1>6, <1>8, <3>1
  <2>2. stage = "count" => ~Compiler!IsTooLong
    <3>1. stage = "count" => Needs(request) /\ TextPerSeed(request) <= limits.text \div Reps(request) /\ ~HasLargePrompt(request)
      BY DEF CompilerInvariant, StagesAgree
    <3> HIDE DEF text
    <3>2. QED
      BY <1>6, <1>7, <1>8, <3>1
  <2>3. stage = "validate" => ~Compiler!IsTooLong
    BY DEF Compiler!IsTooLong
  <2>4. QED
    BY <1>3, <2>1, <2>2, <2>3 DEF CompilerStages
<1>10. ASSUME NEW reason \in {"invalid", "mismatch"}, Compiler!Refuse(reason) PROVE CompilerInvariant'
  BY <1>1, <1>10, RefusalsAreKept
<1>11. ASSUME Compiler!Refuse("tooLong"), Compiler!IsTooLong PROVE CompilerInvariant'
  BY <1>1, <1>9, <1>11, RefusalsAreKept
<1>12. ASSUME ~Compiler!IsTooLong, stage = "preflight", Compiler!Call("count"), Compiler!NeedsSeeds,
              UNCHANGED <<limits, request, seeds, stored, jobs>>
       PROVE  CompilerInvariant'
  <2>1. stage' = "count" /\ work' = "check"
    BY <1>12 DEF Compiler!Call
  <2>2. PlanSize(request) <= limits.jobs \div Reps(request)
    BY <1>2, <1>4, <1>7, <1>12 DEF Room
  <2>3. TextPerSeed(request) <= limits.text \div Reps(request) /\ ~HasLargePrompt(request)
    <3> HIDE DEF text
    <3>1. QED
      BY <1>4, <1>6, <1>7, <1>8, <1>12
  <2>4. StagesAgree'
    BY <1>1, <1>4, <1>12, <2>1, <2>2, <2>3 DEF CompilerInvariant, StagesAgree
  <2>5. SeedsDiffer'
    BY <1>12, <2>1 DEF CompilerInvariant, SeedsDiffer
  <2>6. QED
    BY <1>1, <1>2, <1>3, <1>12, <2>4, <2>5, CallsAreKept DEF CompilerStages
<1>13. ASSUME ~Compiler!IsTooLong, stage = "preflight", Compiler!Call("compile"), ~Compiler!NeedsSeeds,
              UNCHANGED <<limits, request, seeds, stored, jobs>>
       PROVE  CompilerInvariant'
  <2>1. stage' = "compile" /\ work' = "check"
    BY <1>13 DEF Compiler!Call
  <2>2. Reps(request) = 1
    BY <1>4, <1>13 DEF Reps
  <2>3. room = limits.jobs /\ limits.text \div Reps(request) = limits.text
    BY <1>4, <1>13, <2>2, OneIsNeutral DEF Room
  <2>4. PlanSize(request) * c <= limits.jobs
    BY <1>2, <2>3
  <2>5. text <= limits.text /\ ~HasLargePrompt(request)
    <3> HIDE DEF text
    <3>1. QED
      BY <1>4, <1>6, <1>8, <1>13, <2>3
  <2>6. StagesAgree'
    BY <1>13, <2>1, <2>4, <2>5 DEF StagesAgree
  <2>7. SeedsDiffer'
    BY <1>13, <2>1 DEF CompilerInvariant, SeedsDiffer
  <2>8. QED
    BY <1>1, <1>2, <1>3, <1>13, <2>6, <2>7, CallsAreKept DEF CompilerStages
<1>14. ASSUME stage = "count", work' = "draw",
              seeds' = [mode |-> "random", values |-> <<>>, count |-> Compiler!Repetitions],
              UNCHANGED <<limits, request, stage, stored, prompt, axis, product, total, position, digits, jobs, outcome>>
       PROVE  CompilerInvariant'
  <2>1. Compiler!IsList(<<>>) /\ Compiler!IsInjective(<<>>)
    <3>1. <<>> \in Seq({0}) /\ DOMAIN <<>> = {}
      OBVIOUS
    <3>2. QED
      BY <3>1, SequencesAreLists DEF Compiler!IsInjective
  <2>2. Compiler!IsSeedInput(seeds')
    BY <1>4, <1>14, <2>1 DEF Compiler!IsSeedInput, Positive
  <2>3. CompilerShape'
    BY <1>2, <1>14, <2>2 DEF CompilerInvariant, CompilerShape, CompilerWorks
  <2>4. StagesAreCountable' /\ CountIsPartial' /\ CountIsWhole'
    BY <1>2, <1>14 DEF StagesAreCountable, CountIsPartial, CountIsWhole
  <2>5. StagesAgree'
    BY <1>4, <1>14 DEF CompilerInvariant, StagesAgree
  <2>6. SeedsDiffer'
    BY <1>14, <2>1 DEF SeedsDiffer
  <2>7. QED
    BY <2>3, <2>4, <2>5, <2>6 DEF CompilerInvariant
<1>15. ASSUME Compiler!Expand PROVE CompilerInvariant'
  <2>1. /\ work' = "expand" /\ jobs' = <<>>
        /\ UNCHANGED <<limits, request, stage, seeds, stored, axis, product, total, outcome>>
    BY <1>15 DEF Compiler!Expand
  <2>2. Compiler!IsList(<<>>)
    <3>1. <<>> \in Seq({0})
      OBVIOUS
    <3>2. QED
      BY <3>1, SequencesAreLists
  <2>3. CompilerShape'
    BY <1>2, <2>1, <2>2 DEF CompilerInvariant, CompilerShape, CompilerWorks
  <2>4. StagesAreCountable' /\ CountIsPartial' /\ CountIsWhole'
    BY <1>2, <2>1 DEF StagesAreCountable, CountIsPartial, CountIsWhole
  <2>5. StagesAgree' /\ SeedsDiffer'
    BY <1>1, <2>1 DEF CompilerInvariant, StagesAgree, SeedsDiffer
  <2>6. QED
    BY <2>3, <2>4, <2>5 DEF CompilerInvariant
<1>16. \/ \E reason \in {"invalid", "mismatch"} : Compiler!Refuse(reason)
       \/ Compiler!Refuse("tooLong") /\ Compiler!IsTooLong
       \/ /\ ~Compiler!IsTooLong /\ stage = "preflight" /\ Compiler!Call("count") /\ Compiler!NeedsSeeds
          /\ UNCHANGED <<limits, request, seeds, stored, jobs>>
       \/ /\ ~Compiler!IsTooLong /\ stage = "preflight" /\ Compiler!Call("compile") /\ ~Compiler!NeedsSeeds
          /\ UNCHANGED <<limits, request, seeds, stored, jobs>>
       \/ /\ stage = "count" /\ work' = "draw"
          /\ seeds' = [mode |-> "random", values |-> <<>>, count |-> Compiler!Repetitions]
          /\ UNCHANGED <<limits, request, stage, stored, prompt, axis, product, total, position, digits, jobs, outcome>>
       \/ Compiler!Expand
  BY DEF Compiler!Measure
<1>17. QED
  BY <1>10, <1>11, <1>12, <1>13, <1>14, <1>15, <1>16

LEMMA DrawSeedKeeps ==
  ASSUME CompilerInvariant, Compiler!DrawSeed
  PROVE  CompilerInvariant'
<1> USE DEF Compiler!given, Compiler!counters, Compiler!expansion
<1>1. work = "draw"
  BY DEF Compiler!DrawSeed
<1>2. /\ stage = "count" /\ seeds.mode = "random" /\ seeds.count = Reps(request) /\ Needs(request)
      /\ PlanSize(request) <= limits.jobs \div Reps(request)
      /\ TextPerSeed(request) <= limits.text \div Reps(request)
      /\ ~HasLargePrompt(request) /\ IsCountable(request)
  BY <1>1 DEF CompilerInvariant, StagesAgree, StagesAreCountable
<1>3. /\ Compiler!IsRequest(request) /\ Compiler!IsSeedInput(seeds) /\ Compiler!IsList(stored) /\ Compiler!IsList(jobs)
      /\ outcome = "running"
  BY <1>1 DEF CompilerInvariant, CompilerShape
<1>4. CASE Len(seeds.values) < total * Compiler!Repetitions
  <2>1. PICK seed \in 0 .. CompilerMaxSeed : seeds' = [seeds EXCEPT !.values = Compiler!Drawn(seed)]
    BY <1>4 DEF Compiler!DrawSeed
  <2>2. UNCHANGED <<limits, request, stage, stored, work, prompt, axis, product, total, position, digits, jobs, outcome>>
    BY <1>4 DEF Compiler!DrawSeed
  <2>3. DOMAIN seeds = {"mode", "values", "count"} /\ Compiler!IsList(seeds.values)
    BY <1>3 DEF Compiler!IsSeedInput
  <2>4. Compiler!IsInjective(seeds.values)
    BY <1>2 DEF CompilerInvariant, SeedsDiffer
  <2>5. Compiler!IsList(Compiler!Drawn(seed)) /\ Compiler!IsInjective(Compiler!Drawn(seed))
    <3> DEFINE v == seeds.values
    <3>1. CASE seed \in Compiler!Range(v)
      BY <2>3, <2>4, <3>1 DEF Compiler!Drawn
    <3>2. CASE seed \notin Compiler!Range(v)
      <4>1. v \in Seq(Compiler!Range(v) \cup {seed}) /\ DOMAIN v = 1 .. Len(v) /\ Len(v) \in Nat
            /\ \A i \in 1 .. Len(v) : v[i] \in Compiler!Range(v)
        BY <2>3, CompilerLists DEF Compiler!IsList
      <4>2. Compiler!Drawn(seed) = Append(v, seed)
        BY <3>2 DEF Compiler!Drawn
      <4> HIDE DEF v
      <4>3. /\ Append(v, seed) \in Seq(Compiler!Range(v) \cup {seed})
            /\ DOMAIN Append(v, seed) = 1 .. Len(v) + 1
            /\ Append(v, seed)[Len(v) + 1] = seed
            /\ \A i \in 1 .. Len(v) : Append(v, seed)[i] = v[i]
        BY <4>1
      <4>4. \A i, j \in 1 .. Len(v) : v[i] = v[j] => i = j
        BY <2>4, <4>1 DEF Compiler!IsInjective, v
      <4>5. \A i \in 1 .. Len(v) : v[i] # seed
        BY <3>2, <4>1 DEF v
      <4>6. \A i \in 1 .. Len(v) + 1 : i \in 1 .. Len(v) \/ i = Len(v) + 1
        BY <4>1
      <4>7. Compiler!IsInjective(Append(v, seed))
        BY <4>3, <4>4, <4>5, <4>6 DEF Compiler!IsInjective
      <4>8. QED
        BY <4>2, <4>3, <4>7, SequencesAreLists
    <3>3. QED
      BY <3>1, <3>2
  <2>6. /\ DOMAIN seeds' = DOMAIN seeds /\ seeds'.mode = seeds.mode /\ seeds'.count = seeds.count
        /\ seeds'.values = Compiler!Drawn(seed)
    BY <2>1, <2>3
  <2>7. Compiler!IsSeedInput(seeds')
    BY <1>3, <2>3, <2>5, <2>6 DEF Compiler!IsSeedInput
  <2>8. CompilerShape'
    BY <2>2, <2>7 DEF CompilerInvariant, CompilerShape
  <2>9. StagesAreCountable' /\ CountIsPartial' /\ CountIsWhole'
    BY <1>1, <1>2, <1>3, <2>2 DEF StagesAreCountable, CountIsPartial, CountIsWhole
  <2>10. StagesAgree'
    BY <1>1, <1>2, <2>2, <2>6 DEF StagesAgree
  <2>11. SeedsDiffer'
    BY <2>5, <2>6 DEF SeedsDiffer
  <2>12. QED
    BY <2>8, <2>9, <2>10, <2>11 DEF CompilerInvariant
<1>5. CASE ~(Len(seeds.values) < total * Compiler!Repetitions)
  <2>1. Compiler!Call("compile") /\ UNCHANGED <<limits, request, seeds, stored, jobs>>
    BY <1>5 DEF Compiler!DrawSeed
  <2>2. stage' = "compile" /\ work' = "check"
    BY <2>1 DEF Compiler!Call
  <2>3. SeedsPer(seeds) = Reps(request) /\ limits.jobs \in Nat /\ limits.text \in Nat /\ Reps(request) \in Positive
    BY <1>2, RoomIs DEF CompilerInvariant, SeedsPer
  <2>4. PlanSize(request) \in Nat /\ TextPerSeed(request) \in Nat
    <3>1. PlanSize(request) \in Nat
      BY <1>2, <1>3, <2>3, SizeOfPlanIs
    <3>2. TextPerSeed(request) \in Nat
      BY <1>2, <1>3, TextIsNatural
    <3>3. QED
      BY <3>1, <3>2
  <2>5. ASSUME NEW a \in Nat, NEW b \in Nat, a <= b \div Reps(request) PROVE a * Reps(request) <= b
    <3>1. Reps(request) \in Nat \ {0}
      BY <2>3 DEF Positive
    <3>2. b \div Reps(request) \in Nat /\ (b \div Reps(request)) * Reps(request) <= b
      BY <3>1, QuotientBounds
    <3>3. a * Reps(request) <= (b \div Reps(request)) * Reps(request)
      BY <2>5, <3>1, <3>2, StepsAreMonotone
    <3>4. a * Reps(request) \in Nat /\ (b \div Reps(request)) * Reps(request) \in Nat
      BY <3>1, <3>2
    <3>5. QED
      BY <3>2, <3>3, <3>4
  <2>6. PlanSize(request) * SeedsPer(seeds) <= limits.jobs /\ TextPerSeed(request) * SeedsPer(seeds) <= limits.text
    BY <1>2, <2>3, <2>4, <2>5
  <2>7. StagesAgree'
    BY <1>2, <2>1, <2>2, <2>6 DEF StagesAgree
  <2>8. SeedsDiffer'
    BY <1>2, <2>1, <2>2 DEF CompilerInvariant, SeedsDiffer
  <2>9. QED
    BY <1>1, <1>2, <1>3, <2>1, <2>7, <2>8, CallsAreKept DEF CompilerStages
<1>6. QED
  BY <1>4, <1>5

LEMMA ExpandConfigurationKeeps ==
  ASSUME CompilerInvariant, Compiler!ExpandConfiguration
  PROVE  CompilerInvariant'
<1> DEFINE p == request.prompts[prompt]
           new == [i \in DOMAIN Compiler!SeedsOfConfiguration |-> Compiler!Job(p, digits, Compiler!SeedsOfConfiguration[i])]
<1> USE DEF Compiler!given, Compiler!counters, Compiler!expansion
<1>1. work = "expand"
  BY DEF Compiler!ExpandConfiguration
<1>2. /\ Compiler!IsRequest(request) /\ Compiler!IsSeedInput(seeds) /\ Compiler!IsList(stored) /\ Compiler!IsList(jobs)
      /\ outcome = "running"
  BY <1>1 DEF CompilerInvariant, CompilerShape
<1>3. ASSUME NEW reason \in {"unresolved", "mismatch"}, Compiler!Refuse(reason) PROVE CompilerInvariant'
  BY <1>1, <1>3, RefusalsAreKept
<1>4. ASSUME jobs' = jobs \o new, UNCHANGED <<limits, request, stage, seeds, stored, work, axis, product, total, outcome>>
      PROVE  CompilerInvariant'
  <2>1. \E n \in Nat : DOMAIN Compiler!SeedsOfConfiguration = 1 .. n
    <3>1. CASE seeds.mode = "random"
      BY <1>2, <3>1 DEF Compiler!SeedsOfConfiguration, Compiler!SeedCount, Compiler!IsSeedInput
    <3>2. CASE seeds.mode # "random"
      BY <1>2, <3>2, CompilerLists DEF Compiler!SeedsOfConfiguration, Compiler!IsSeedInput
    <3>3. QED
      BY <3>1, <3>2
  <2>2. PICK n \in Nat : new = [i \in 1 .. n |-> new[i]]
    BY <2>1
  <2> HIDE DEF new
  <2>3. Compiler!IsList(new)
    BY <2>2, ListsAreSequences
  <2>4. Compiler!IsList(jobs')
    BY <1>2, <1>4, <2>3, JoinedLists
  <2>5. CompilerShape'
    BY <1>1, <1>4, <2>4 DEF CompilerInvariant, CompilerShape
  <2>6. StagesAreCountable' /\ CountIsPartial' /\ CountIsWhole'
    BY <1>1, <1>4 DEF CompilerInvariant, StagesAreCountable, CountIsPartial, CountIsWhole
  <2>7. StagesAgree' /\ SeedsDiffer'
    BY <1>1, <1>4 DEF CompilerInvariant, StagesAgree, SeedsDiffer
  <2>8. QED
    BY <2>5, <2>6, <2>7 DEF CompilerInvariant
<1>5. \/ \E reason \in {"unresolved", "mismatch"} : Compiler!Refuse(reason)
      \/ jobs' = jobs \o new /\ UNCHANGED <<limits, request, stage, seeds, stored, work, axis, product, total, outcome>>
  BY DEF Compiler!ExpandConfiguration
<1>6. QED
  BY <1>3, <1>4, <1>5

LEMMA CreateKeeps ==
  ASSUME CompilerInvariant, Compiler!Create
  PROVE  CompilerInvariant'
<1>1. /\ work = "expand" /\ stage = "compile" /\ Compiler!Call("preflight")
      /\ request' = [request EXCEPT !.seeds = seeds]
      /\ limits' = limits /\ stored' = jobs /\ seeds' = seeds /\ jobs' = jobs
  BY DEF Compiler!Create, Compiler!IsExpanded
<1>2. /\ Compiler!IsRequest(request) /\ Compiler!IsSeedInput(seeds) /\ Compiler!IsList(jobs)
      /\ SeedsPer(seeds) \in Positive /\ seeds.values # <<>>
      /\ seeds.mode = "random" => Compiler!IsInjective(seeds.values)
  BY <1>1 DEF CompilerInvariant, CompilerShape, StagesAreCountable, SeedsDiffer
<1>3. seeds.mode = "random" => seeds.count # 0
  BY <1>2 DEF SeedsPer, Positive
<1>4. /\ DOMAIN request = {"prompts", "variables", "slots", "images", "parameters", "intents", "sets", "seeds"}
      /\ DOMAIN request' = DOMAIN request /\ request'.seeds = seeds
      /\ request'.prompts = request.prompts /\ request'.variables = request.variables /\ request'.slots = request.slots
      /\ request'.images = request.images /\ request'.parameters = request.parameters
      /\ request'.intents = request.intents /\ request'.sets = request.sets
  <2>1. DOMAIN request = {"prompts", "variables", "slots", "images", "parameters", "intents", "sets", "seeds"}
    BY <1>2 DEF Compiler!IsRequest
  <2>2. QED
    BY <1>1, <2>1
<1>5. Compiler!IsRequest(request')
  BY <1>2, <1>3, <1>4 DEF Compiler!IsRequest
<1>6. stage' = "preflight" /\ work' = "check"
  BY <1>1 DEF Compiler!Call
<1>7. StagesAgree'
  BY <1>2, <1>4, <1>6 DEF StagesAgree, Needs
<1>8. SeedsDiffer'
  BY <1>1, <1>2 DEF SeedsDiffer
<1>9. QED
  BY <1>1, <1>2, <1>5, <1>7, <1>8, CallsAreKept DEF CompilerStages

LEMMA StoreKeeps ==
  ASSUME CompilerInvariant, Compiler!Store
  PROVE  CompilerInvariant'
<1>1. /\ work = "expand" /\ stage = "compile" /\ Compiler!Call("validate")
      /\ limits' = limits /\ request' = request /\ jobs' = jobs
      /\ stored' \in {jobs} \cup {plan \in JobEdits(jobs) : Compiler!IsList(plan)}
      /\ seeds' = IF request.seeds.mode = "random"
                  THEN [request.seeds EXCEPT !.values = [i \in DOMAIN stored' |-> stored'[i].seed]]
                  ELSE request.seeds
  BY DEF Compiler!Store, Compiler!IsExpanded, Compiler!given
<1>2. Compiler!IsRequest(request) /\ Compiler!IsSeedInput(request.seeds) /\ Compiler!IsList(jobs)
  BY DEF CompilerInvariant, CompilerShape, Compiler!IsRequest
<1>3. Compiler!IsList(stored')
  BY <1>1, <1>2
<1>4. Compiler!IsSeedInput(seeds')
  <2> DEFINE list == [i \in DOMAIN stored' |-> stored'[i].seed]
  <2>1. DOMAIN stored' = 1 .. Len(stored') /\ Len(stored') \in Nat
    BY <1>3, CompilerLists
  <2>2. list = [i \in 1 .. Len(stored') |-> list[i]]
    BY <2>1
  <2>3. seeds' = IF request.seeds.mode = "random" THEN [request.seeds EXCEPT !.values = list] ELSE request.seeds
    BY <1>1
  <2> HIDE DEF list
  <2>4. Compiler!IsList(list)
    BY <2>1, <2>2, ListsAreSequences
  <2>5. DOMAIN request.seeds = {"mode", "values", "count"}
    BY <1>2 DEF Compiler!IsSeedInput
  <2>6. /\ DOMAIN seeds' = DOMAIN request.seeds /\ seeds'.mode = request.seeds.mode /\ seeds'.count = request.seeds.count
        /\ Compiler!IsList(seeds'.values)
    BY <1>2, <2>3, <2>4, <2>5 DEF Compiler!IsSeedInput
  <2>7. QED
    BY <1>2, <2>5, <2>6 DEF Compiler!IsSeedInput
<1>5. stage' = "validate" /\ work' = "check"
  BY <1>1 DEF Compiler!Call
<1>6. StagesAgree' /\ SeedsDiffer'
  BY <1>5 DEF StagesAgree, SeedsDiffer
<1>7. QED
  BY <1>1, <1>2, <1>3, <1>4, <1>6, CallsAreKept DEF CompilerStages

LEMMA AcceptKeeps ==
  ASSUME CompilerInvariant, Compiler!Accept
  PROVE  CompilerInvariant'
<1>1. /\ work = "expand" /\ work' = "end" /\ outcome' = "accepted"
      /\ UNCHANGED <<limits, request, stage, seeds, stored, prompt, axis, product, total, position, digits, jobs>>
  BY DEF Compiler!Accept, Compiler!IsExpanded, Compiler!given, Compiler!counters, Compiler!expansion
<1>2. CompilerShape'
  BY <1>1 DEF CompilerInvariant, CompilerShape, CompilerWorks
<1>3. StagesAreCountable' /\ CountIsPartial' /\ CountIsWhole'
  BY <1>1 DEF CompilerInvariant, StagesAreCountable, CountIsPartial, CountIsWhole
<1>4. StagesAgree' /\ SeedsDiffer'
  BY <1>1 DEF CompilerInvariant, StagesAgree, SeedsDiffer
<1>5. QED
  BY <1>2, <1>3, <1>4 DEF CompilerInvariant

LEMMA CompilerGoesOn == CompilerInvariant /\ [Compiler!Next]_Compiler!vars => CompilerInvariant'
<1> SUFFICES ASSUME CompilerInvariant, [Compiler!Next]_Compiler!vars PROVE CompilerInvariant'
  OBVIOUS
<1>1. CASE Compiler!Next
  BY <1>1, CheckKeeps, CountSeedsKeeps, CountAxisKeeps, CountPromptKeeps, MeasureKeeps, DrawSeedKeeps,
     ExpandConfigurationKeeps, CreateKeeps, StoreKeeps, AcceptKeeps DEF Compiler!Next
<1>2. CASE UNCHANGED Compiler!vars
  <2> USE <1>2 DEF Compiler!vars
  <2>1. CompilerShape' /\ StagesAreCountable' /\ CountIsPartial'
    BY DEF CompilerInvariant, CompilerShape, StagesAreCountable, CountIsPartial
  <2>2. CountIsWhole' /\ StagesAgree' /\ SeedsDiffer'
    BY DEF CompilerInvariant, CountIsWhole, StagesAgree, SeedsDiffer
  <2>3. QED
    BY <2>1, <2>2 DEF CompilerInvariant
<1>3. QED
  BY <1>1, <1>2

-----------------------------------------------------------------------------
LEMMA BudgetFollows == CompilerInvariant => BudgetIsExact
<1> SUFFICES ASSUME CompilerInvariant PROVE BudgetIsExact
  OBVIOUS
<1> DEFINE room == Room(limits, request, stage, Len(stored))
           c == SeedsPer(seeds)
<1>1. /\ Compiler!JobLimit = room /\ room \in Nat /\ Compiler!SeedCount = c
      /\ Reps(request) \in Positive /\ Compiler!Repetitions = Reps(request) /\ limits.jobs \in Nat
      /\ Compiler!IsRequest(request) /\ stage \in CompilerStages
  BY RoomIs DEF CompilerInvariant, CompilerShape
<1>2. work \in {"axis", "text", "expand"} \/ outcome = "tooMany" =>
        /\ IsCountable(request) /\ c \in Positive
        /\ Compiler!SizeOfPlan = PlanSize(request) * c /\ PlanSize(request) \in Nat
  BY <1>1, SizeOfPlanIs DEF CompilerInvariant, StagesAreCountable
<1>3. Compiler!DimensionsAreNonempty
  <2> SUFFICES ASSUME Compiler!IsStructured, work # "draw"
               PROVE  /\ \A p \in Compiler!Range(request.prompts) : \A i \in DOMAIN Compiler!Axes(p) :
                           Compiler!SizeOf(Compiler!Axes(p)[i]) > 0
                      /\ Compiler!SeedCount > 0
    BY DEF Compiler!DimensionsAreNonempty
  <2>1. IsCountable(request) /\ c \in Positive
    BY <1>2 DEF Compiler!IsStructured
  <2>2. ASSUME NEW p \in Compiler!Range(request.prompts), NEW i \in DOMAIN Compiler!Axes(p)
        PROVE  Compiler!SizeOf(Compiler!Axes(p)[i]) > 0
    <3> DEFINE s == AxisSizes(request, p)
    <3>1. /\ s \in Seq(Positive) /\ i \in 1 .. Len(s)
          /\ Compiler!SizeOf(Compiler!Axes(p)[i]) = s[i]
      BY <1>1, <2>1, SizesAgree
    <3> HIDE DEF s
    <3>2. s[i] \in Positive
      BY <3>1
    <3>3. QED
      BY <3>1, <3>2 DEF Positive
  <2>3. QED
    BY <1>1, <2>1, <2>2 DEF Positive
<1>4. Compiler!BudgetIsExact
  BY <1>1, <1>2 DEF Compiler!BudgetIsExact, CompilerInvariant, CountIsWhole
<1>5. Compiler!CountStaysWithin
  BY <1>1 DEF Compiler!CountStaysWithin, CompilerInvariant, CountIsPartial
<1>6. Compiler!PreflightIsExact
  <2>1. outcome = "tooLong" => stage = "preflight"
    BY DEF CompilerInvariant, CountIsWhole
  <2>2. ASSUME outcome = "tooMany", stage = "count"
        PROVE  Compiler!SizeOfPlan * Compiler!Repetitions > CompilerMaxSeed + 1
    <3> DEFINE n == PlanSize(request)
    <3>1. /\ n * c > room /\ Needs(request) /\ n <= limits.jobs \div Reps(request) /\ c = 1
      BY <2>2 DEF CompilerInvariant, CompilerShape, CountIsWhole, StagesAgree
    <3>2. n \in Nat /\ Compiler!SizeOfPlan = n
      BY <1>2, <2>2, <3>1, OneIsNeutral
    <3>3. room = Compiler!Smaller(limits.jobs, CompilerMaxSeed + 1) \div Reps(request)
      BY <2>2 DEF Room
    <3>4. n > (CompilerMaxSeed + 1) \div Reps(request)
      <4>1. n > room
        BY <3>1, <3>2, OneIsNeutral
      <4>2. room # limits.jobs \div Reps(request)
        <5>1. limits.jobs \div Reps(request) \in Nat
          BY <1>1, QuotientIsNatural
        <5> HIDE DEF n, room
        <5>2. QED
          BY <1>1, <3>1, <3>2, <4>1, <5>1
      <4>3. Compiler!Smaller(limits.jobs, CompilerMaxSeed + 1) = CompilerMaxSeed + 1
        BY <3>3, <4>2 DEF Compiler!Smaller
      <4>4. QED
        BY <3>3, <4>1, <4>3
    <3>5. Reps(request) \in Nat \ {0} /\ CompilerMaxSeed + 1 \in Nat
      BY <1>1, CompilerIsAssumed DEF Positive
    <3> HIDE DEF n
    <3>6. n * Reps(request) <= CompilerMaxSeed + 1 => n <= (CompilerMaxSeed + 1) \div Reps(request)
      BY <3>2, <3>5, QuotientIsGreatest
    <3>7. (CompilerMaxSeed + 1) \div Reps(request) \in Nat /\ n * Reps(request) \in Nat
      BY <3>2, <3>5, QuotientBounds
    <3>8. n * Reps(request) > CompilerMaxSeed + 1
      BY <3>2, <3>4, <3>5, <3>6, <3>7
    <3>9. QED
      BY <1>1, <3>2, <3>8
  <2>3. ASSUME outcome = "tooMany" PROVE stage # "compile"
    <3>1. PlanSize(request) * c > room
      BY <2>3 DEF CompilerInvariant, CountIsWhole
    <3>2. stage = "compile" => room = limits.jobs /\ PlanSize(request) * c <= limits.jobs
      BY DEF Room, CompilerInvariant, StagesAgree
    <3>3. PlanSize(request) * c \in Nat
      BY <1>2, <2>3 DEF Positive
    <3> HIDE DEF room, c
    <3>4. QED
      BY <1>1, <3>1, <3>2, <3>3
  <2>4. QED
    BY <1>1, <2>1, <2>2, <2>3 DEF Compiler!PreflightIsExact, CompilerStages
<1>7. QED
  BY <1>3, <1>4, <1>5, <1>6 DEF BudgetIsExact

\* For every request, budget and seed: a Batch is refused for its size exactly
\* when it has more Jobs than the limit, although no number beyond the limit is
\* formed; and what the preflight let through, neither the seeds nor the values
\* of its ranges bring over the budget again (_compile_batch).
THEOREM BudgetStaysExact == PlanningSpec => []BudgetIsExact
<1>1. PlanningInit => Compiler!Init
  BY DEF PlanningInit
<1>2. [PlanningNext]_<<which, ranging, compiling, defining, submitting, reading>> => [Compiler!Next]_Compiler!vars
  BY DEF PlanningNext, RangeNext, CompilerNext, DefinitionNext, PreparationNext, RecordNext, compiling, Compiler!vars
<1>3. Compiler!Init => CompilerInvariant
  BY CompilerStarts
<1>4. CompilerInvariant /\ [Compiler!Next]_Compiler!vars => CompilerInvariant'
  BY CompilerGoesOn
<1>5. CompilerInvariant => BudgetIsExact
  BY BudgetFollows
<1>6. QED
  BY <1>1, <1>2, <1>3, <1>4, <1>5, PTL DEF PlanningSpec

\* No two Jobs of a Random plan have the same seed, at whatever stage it is
\* and whatever was drawn (materialize_random_seeds, SeedRequest).
THEOREM SeedsStayDistinct == PlanningSpec => [](which = "compiler" => Compiler!RandomSeedsDiffer)
<1>1. PlanningInit => Compiler!Init
  BY DEF PlanningInit
<1>2. [PlanningNext]_<<which, ranging, compiling, defining, submitting, reading>> => [Compiler!Next]_Compiler!vars
  BY DEF PlanningNext, RangeNext, CompilerNext, DefinitionNext, PreparationNext, RecordNext, compiling, Compiler!vars
<1>3. Compiler!Init => CompilerInvariant
  BY CompilerStarts
<1>4. CompilerInvariant /\ [Compiler!Next]_Compiler!vars => CompilerInvariant'
  BY CompilerGoesOn
<1>5. CompilerInvariant => (which = "compiler" => Compiler!RandomSeedsDiffer)
  BY DEF CompilerInvariant, SeedsDiffer, Compiler!RandomSeedsDiffer
<1>6. QED
  BY <1>1, <1>2, <1>3, <1>4, <1>5, PTL DEF PlanningSpec
-----------------------------------------------------------------------------
(* The dimensions and the Jobs of a plan by the request alone. *)
ImageAxesOf(r) ==
    [i \in DOMAIN r.slots |->
       [kind |-> "image", key |-> r.slots[i], choices |-> Compiler!Keyed(r.images, r.slots[i]).values]]
MaterialValues(r, x) == Compiler!IntentValues(Compiler!Keyed(r.parameters, x.key).type, x)
ParameterAxesOf(r) ==
    [i \in DOMAIN ParameterNames(r) |->
       [kind |-> ParameterNames(r)[i].kind, key |-> ParameterNames(r)[i].key,
        choices |-> IF ParameterNames(r)[i].kind = "linked" THEN Compiler!Keyed(r.sets, ParameterNames(r)[i].key).rows
                    ELSE MaterialValues(r, Compiler!Keyed(r.intents, ParameterNames(r)[i].key))]]
AxesOf(r, p) == VariableAxesOf(r, p) \o ImageAxesOf(r) \o ParameterAxesOf(r)

PlacesOf(axes, kind) == Compiler!ElementsAt([i \in DOMAIN axes |-> i], {i \in DOMAIN axes : axes[i].kind = kind})
ChosenOf(axes, choice) == [i \in DOMAIN axes |-> axes[i].choices[choice[i]]]
ParameterOf(sets, axes, choice, key) ==
    LET i == CHOOSE i \in DOMAIN axes :
               \/ axes[i].kind = "parameter" /\ axes[i].key = key
               \/ axes[i].kind = "linked" /\ key \in Compiler!Range(Compiler!Keyed(sets, axes[i].key).members)
        values == ChosenOf(axes, choice)[i]
    IN  IF axes[i].kind = "parameter" THEN values
        ELSE values[CHOOSE j \in DOMAIN values : Compiler!Keyed(sets, axes[i].key).members[j] = key]
ResolvedOf(axes, p, choice) ==
    [n \in DOMAIN p.text |->
       IF p.text[n] = Compiler!Literal THEN Compiler!LiteralChunk
       ELSE ChosenOf(axes, choice)[CHOOSE i \in DOMAIN Compiler!Names(p.text) : Compiler!Names(p.text)[i] = p.text[n]]]
JobWith(r, axes, p, choice, seed) ==
    [prompt |-> p.id,
     text |-> ResolvedOf(axes, p, choice),
     variables |-> [n \in DOMAIN PlacesOf(axes, "variable") |-> ChosenOf(axes, choice)[PlacesOf(axes, "variable")[n]]],
     images |-> [n \in DOMAIN PlacesOf(axes, "image") |-> ChosenOf(axes, choice)[PlacesOf(axes, "image")[n]]],
     parameters |-> [n \in DOMAIN r.parameters |-> ParameterOf(r.sets, axes, choice, r.parameters[n].key)],
     sets |-> [n \in DOMAIN PlacesOf(axes, "linked") |-> choice[PlacesOf(axes, "linked")[n]]],
     seed |-> seed]
JobOf(r, p, choice, seed) == JobWith(r, AxesOf(r, p), p, choice, seed)
TextOfJob(r, p, choice) == ResolvedOf(AxesOf(r, p), p, choice)

LEMMA AxesAre ==
  ASSUME stage # "preflight", NEW p
  PROVE  Compiler!Axes(p) = AxesOf(request, p)
<1> DEFINE names == ParameterNames(request)
<1>1. \A key : NameOf(request, key) =
        IF Compiler!LinkedSetOf(key) = {} THEN [kind |-> "parameter", key |-> key]
        ELSE [kind |-> "linked", key |-> (CHOOSE set \in Compiler!LinkedSetOf(key) : TRUE).key]
  BY DEF NameOf, Compiler!LinkedSetOf
<1>2. names = Compiler!FirstOccurrences([i \in DOMAIN request.parameters |->
        IF Compiler!LinkedSetOf(request.parameters[i].key) = {} THEN [kind |-> "parameter", key |-> request.parameters[i].key]
        ELSE [kind |-> "linked", key |-> (CHOOSE set \in Compiler!LinkedSetOf(request.parameters[i].key) : TRUE).key]])
  BY <1>1 DEF ParameterNames
<1>3. \A x : Compiler!BoundValues(x) = MaterialValues(request, x)
  BY DEF Compiler!BoundValues, MaterialValues, Compiler!TypeOf
<1>4. Compiler!ParameterAxes =
        [i \in DOMAIN names |->
           [kind |-> names[i].kind, key |-> names[i].key,
            choices |-> IF names[i].kind = "linked" THEN Compiler!Keyed(request.sets, names[i].key).rows
                        ELSE Compiler!BoundValues(Compiler!Keyed(request.intents, names[i].key))]]
  BY <1>2 DEF Compiler!ParameterAxes
<1> HIDE DEF names
<1>5. Compiler!ParameterAxes =
        [i \in DOMAIN names |->
           [kind |-> names[i].kind, key |-> names[i].key,
            choices |-> IF names[i].kind = "linked" THEN Compiler!Keyed(request.sets, names[i].key).rows
                        ELSE MaterialValues(request, Compiler!Keyed(request.intents, names[i].key))]]
  BY <1>3, <1>4
<1>6. Compiler!ParameterAxes = ParameterAxesOf(request)
  BY <1>5 DEF ParameterAxesOf, names
<1>7. Compiler!VariableAxes(p) = VariableAxesOf(request, p)
  BY DEF Compiler!VariableAxes, VariableAxesOf
<1>8. Compiler!ImageAxes = ImageAxesOf(request)
  BY DEF Compiler!ImageAxes, ImageAxesOf
<1>9. QED
  BY <1>6, <1>7, <1>8 DEF Compiler!Axes, AxesOf

LEMMA JobsAre ==
  ASSUME stage # "preflight", NEW p, NEW choice, NEW seed
  PROVE  /\ Compiler!Job(p, choice, seed) = JobOf(request, p, choice, seed)
         /\ Compiler!Resolved(p, choice) = TextOfJob(request, p, choice)
<1> DEFINE axes == Compiler!Axes(p)
<1>1. Compiler!Chosen(p, choice) = ChosenOf(axes, choice)
  BY DEF Compiler!Chosen, ChosenOf
<1>2. Compiler!Resolved(p, choice) = ResolvedOf(axes, p, choice)
  BY <1>1 DEF Compiler!Resolved, ResolvedOf
<1>3. \A kind : Compiler!OfKind(p, kind) = PlacesOf(axes, kind)
  BY DEF Compiler!OfKind, PlacesOf
<1>4. \A key : Compiler!ParameterValue(p, choice, key) = ParameterOf(request.sets, axes, choice, key)
  BY DEF Compiler!ParameterValue, ParameterOf, Compiler!Chosen, ChosenOf
<1>5. Compiler!Job(p, choice, seed) = JobWith(request, axes, p, choice, seed)
  BY <1>1, <1>2, <1>3, <1>4 DEF Compiler!Job, JobWith
<1>6. axes = AxesOf(request, p)
  BY AxesAre
<1>7. QED
  BY <1>2, <1>5, <1>6 DEF JobOf, TextOfJob

(* The plan by the request and its seeds: a configuration's number among *)
(* those of its prompt gives its choices, the rightmost fastest.          *)
RadicesOf(r, p, c) == AxisSizes(r, p) \o <<c>>
DigitsOf(R, place, l) == [i \in 1 .. l |-> Digit(R, place, i)]
ConfigurationAt(r, p, k) == DigitsOf(AxisSizes(r, p), k, Len(AxisSizes(r, p)))
BlockOf(r, sd, n) ==
    LET p == r.prompts[n]
        R == RadicesOf(r, p, SeedsPer(sd))
        before == Sums(Weights(r))[n - 1] * SeedsPer(sd)
    IN  [x \in 1 .. Weights(r)[n] * SeedsPer(sd) |->
           JobOf(r, p, DigitsOf(R, x - 1, Len(AxisSizes(r, p))),
                 sd.values[IF sd.mode = "random" THEN before + (x - 1) + 1 ELSE Digit(R, x - 1, Len(R))])]
PlanOf(r, sd) == Flat([n \in DOMAIN r.prompts |-> BlockOf(r, sd, n)])

LEMMA RadicesAre ==
  ASSUME Compiler!IsRequest(request), IsCountable(request), SeedsPer(seeds) \in Positive,
         NEW n \in DOMAIN request.prompts, NEW p, p = request.prompts[n]
  PROVE  /\ Compiler!Radices(p) = RadicesOf(request, p, SeedsPer(seeds))
         /\ Compiler!SizeOfPrompt(p) = Weights(request)[n] * SeedsPer(seeds)
         /\ DOMAIN Compiler!Axes(p) = 1 .. Len(AxisSizes(request, p))
<1> DEFINE s == AxisSizes(request, p)
<1>1. p \in Compiler!Range(request.prompts) /\ s \in Seq(Positive) /\ Weights(request)[n] = Compiler!Product(s)
  BY WeightsArePositive
<1>2. /\ DOMAIN Compiler!Axes(p) = 1 .. Len(s)
      /\ \A i \in 1 .. Len(s) : Compiler!SizeOf(Compiler!Axes(p)[i]) = s[i]
  BY <1>1, SizesAgree
<1>3. [i \in DOMAIN Compiler!Axes(p) |-> Compiler!SizeOf(Compiler!Axes(p)[i])] = s
  <2> HIDE DEF s
  <2>1. s = [i \in 1 .. Len(s) |-> s[i]]
    BY <1>1
  <2>2. QED
    BY <1>2, <2>1
<1>4. Compiler!Radices(p) = s \o <<SeedsPer(seeds)>>
  BY <1>3 DEF Compiler!Radices, Compiler!SeedCount, SeedsPer
<1> HIDE DEF s
<1>5. Compiler!Product(Compiler!Radices(p)) = Compiler!Product(s) * SeedsPer(seeds)
  BY <1>1, <1>4, ProductOfAppended
<1>6. Compiler!SizeOfPrompt(p) = Weights(request)[n] * SeedsPer(seeds)
  BY <1>1, <1>5 DEF Compiler!SizeOfPrompt
<1>7. QED
  BY <1>2, <1>4, <1>6 DEF RadicesOf, s

\* The configurations before a prompt, with their seeds.
LEMMA JobsBefore ==
  ASSUME NEW w \in Seq(Nat), NEW c \in Nat, NEW n \in 1 .. Len(w), NEW h, h = [m \in 1 .. (n - 1) |-> w[m] * c]
  PROVE  Total(h) = Sums(w)[n - 1] * c
<1> DEFINE g == [m \in 1 .. (n - 1) |-> w[m]]
<1>1. w \in [1 .. Len(w) -> Int] /\ Len(w) \in Nat /\ n - 1 \in Nat
  OBVIOUS
<1>2. \A m \in 1 .. (n - 1) : m \in 1 .. Len(w) /\ w[m] \in Nat
  BY <1>1
<1>3. g \in [1 .. (n - 1) -> Int] /\ (\A m \in 1 .. (n - 1) : g[m] = w[m])
  BY <1>2
<1>4. h \in [1 .. (n - 1) -> Int]
  <2>1. \A a, b \in Nat : a * b \in Int
    OBVIOUS
  <2>2. QED
    BY <1>2, <2>1
<1>5. \A m \in 1 .. (n - 1) : h[m] = c * g[m]
  <2>1. \A m \in 1 .. (n - 1) : h[m] = w[m] * c /\ g[m] = w[m]
    OBVIOUS
  <2>2. \A a, b \in Nat : a * b = b * a
    OBVIOUS
  <2> HIDE DEF g
  <2>3. QED
    BY <1>2, <2>1, <2>2
<1> HIDE DEF g
<1>6. Total(h) = c * Total(g)
  BY ONLY <1>1, <1>3, <1>4, <1>5, c \in Int, TotalOfMultiples
<1>7. \A m \in 1 .. (n - 1) : g[m] = w[0 + m]
  BY <1>3
<1>8. IsSlice(g, w, Len(w), 0, n - 1)
  BY <1>1, <1>3, <1>7 DEF IsSlice
<1>9. Sums(w)[0 + (n - 1)] = Sums(w)[0] + Total(g)
  BY ONLY <1>1, <1>8, 0 \in Nat, TotalOfPart
<1>10. Sums(w)[0] = 0 /\ Sums(w)[n - 1] \in Int
  BY <1>1, SumsOf
<1>11. Total(g) = Sums(w)[n - 1] /\ Total(g) \in Int
  <2>1. Total(g) \in Int
    BY ONLY <1>1, <1>3, TotalIsInteger
  <2>2. QED
    BY <1>1, <1>9, <1>10, <2>1
<1>12. QED
  BY <1>6, <1>11

LEMMA ReferenceIs ==
  ASSUME Compiler!IsRequest(request), IsCountable(request), SeedsPer(seeds) \in Positive, stage # "preflight"
  PROVE  Compiler!ReferencePlan = PlanOf(request, seeds)
<1> DEFINE r == request
           c == SeedsPer(seeds)
           w == Weights(r)
           before(n) == Compiler!Total([m \in 1 .. (n - 1) |-> Compiler!SizeOfPrompt(r.prompts[m])])
           block(n) == [place \in 1 .. Compiler!SizeOfPrompt(r.prompts[n]) |-> Compiler!JobAt(r.prompts[n], before(n), place - 1)]
<1>1. /\ w \in Seq(Nat) /\ DOMAIN r.prompts = 1 .. Len(r.prompts) /\ Len(w) = Len(r.prompts) /\ Len(r.prompts) \in Nat
      /\ c \in Nat
  BY WeightsArePositive DEF Positive
<1>2. ASSUME NEW n \in DOMAIN r.prompts PROVE block(n) = BlockOf(r, seeds, n)
  <2> DEFINE p == r.prompts[n]
             R == RadicesOf(r, p, c)
             l == Len(AxisSizes(r, p))
             b == Sums(w)[n - 1] * c
  <2>1. Compiler!Radices(p) = R /\ Compiler!SizeOfPrompt(p) = w[n] * c /\ DOMAIN Compiler!Axes(p) = 1 .. l
    BY RadicesAre
  <2>2. before(n) = b
    <3> DEFINE h == [m \in 1 .. (n - 1) |-> Compiler!SizeOfPrompt(r.prompts[m])]
    <3>1. \A m \in 1 .. (n - 1) : m \in DOMAIN r.prompts
      BY <1>1
    <3>2. \A m \in 1 .. (n - 1) : Compiler!SizeOfPrompt(r.prompts[m]) = w[m] * c
      BY <3>1, RadicesAre
    <3> HIDE DEF w, c
    <3>3. h = [m \in 1 .. (n - 1) |-> w[m] * c]
      BY <3>2
    <3> HIDE DEF h
    <3>4. n \in 1 .. Len(w)
      BY <1>1
    <3>5. Total(h) = b
      BY <1>1, <3>3, <3>4, JobsBefore
    <3>6. QED
      BY <3>5, CompilerSums DEF h
  <2>3. \A place, i : Compiler!DigitAt(p, place, i) = Digit(R, place, i)
    <3>1. \A place, i : Compiler!DigitAt(p, place, i) =
            1 + ((place \div Product(SubSeq(Compiler!Radices(p), i + 1, Len(Compiler!Radices(p))))) % Compiler!Radices(p)[i])
      BY CompilerSums DEF Compiler!DigitAt
    <3> HIDE DEF R, p
    <3>2. QED
      BY <2>1, <3>1 DEF Digit, Weight
  <2>4. \A place : Compiler!JobAt(p, before(n), place) =
          JobOf(r, p, DigitsOf(R, place, l), seeds.values[IF seeds.mode = "random" THEN b + place + 1 ELSE Digit(R, place, Len(R))])
    <3> TAKE place
    <3> DEFINE choice == [i \in DOMAIN Compiler!Axes(p) |-> Compiler!DigitAt(p, place, i)]
               seed == seeds.values[IF seeds.mode = "random" THEN before(n) + place + 1 ELSE Compiler!DigitAt(p, place, Len(Compiler!Radices(p)))]
    <3>1. Compiler!JobAt(p, before(n), place) = Compiler!Job(p, choice, seed)
      BY DEF Compiler!JobAt
    <3> HIDE DEF p, b, before, R, l, r
    <3>2. choice = DigitsOf(R, place, l)
      BY <2>1, <2>3 DEF DigitsOf
    <3>3. seed = seeds.values[IF seeds.mode = "random" THEN b + place + 1 ELSE Digit(R, place, Len(R))]
      BY <2>1, <2>2, <2>3
    <3> HIDE DEF choice, seed
    <3>4. QED
      BY <3>1, <3>2, <3>3, JobsAre DEF r
  <2>5. block(n) = [place \in 1 .. w[n] * c |-> Compiler!JobAt(p, before(n), place - 1)]
    BY <2>1
  <2>6. block(n) = [x \in 1 .. w[n] * c |->
           JobOf(r, p, DigitsOf(R, x - 1, l), seeds.values[IF seeds.mode = "random" THEN b + (x - 1) + 1 ELSE Digit(R, x - 1, Len(R))])]
    <3> HIDE DEF block, p, R, l, b, before, w, c
    <3>1. QED
      BY <2>4, <2>5
  <2>7. QED
    BY <2>6 DEF BlockOf
<1>3. Compiler!ReferencePlan = Compiler!FlattenSeq([n \in DOMAIN r.prompts |-> block(n)])
  BY DEF Compiler!ReferencePlan
<1>4. [n \in DOMAIN r.prompts |-> block(n)] = [n \in DOMAIN r.prompts |-> BlockOf(r, seeds, n)]
  <2> HIDE DEF block
  <2>1. QED
    BY <1>2
<1>5. \A s : Compiler!FlattenSeq(s) = Flat(s)
  BY DEF Compiler!FlattenSeq, Flat
<1> HIDE DEF block
<1>6. QED
  BY <1>3, <1>4, <1>5 DEF PlanOf

\* How many Jobs stand before a configuration.
PlaceOf(r, n, k, c) == (Sums(Weights(r))[n - 1] + k) * c
SeedAt(sd, at, j) == sd.values[IF sd.mode = "random" THEN at + j ELSE j]

(* A plan is its configurations in order, each with its seeds. *)
IsPlan(plan, r, sd) ==
    /\ Compiler!IsList(plan) /\ Len(plan) = PlanSize(r) * SeedsPer(sd)
    /\ \A n \in 1 .. Len(r.prompts) : \A k \in 0 .. (Weights(r)[n] - 1) : \A j \in 1 .. SeedsPer(sd) :
         plan[PlaceOf(r, n, k, SeedsPer(sd)) + j] =
           JobOf(r, r.prompts[n], ConfigurationAt(r, r.prompts[n], k), SeedAt(sd, PlaceOf(r, n, k, SeedsPer(sd)), j))

LEMMA RadicesAreCopies ==
  ASSUME NEW s \in Seq(Positive), NEW c \in Positive, NEW R, R = s \o <<c>>
  PROVE  Copies(R, s, c) /\ Len(R) = Len(s) + 1
<1>1. <<c>> \in Seq(Positive) /\ Len(<<c>>) = 1 /\ <<c>>[1] = c /\ Len(s) \in Nat
  OBVIOUS
<1>2. /\ R \in Seq(Positive) /\ Len(R) = Len(s) + Len(<<c>>)
      /\ \A i \in 1 .. Len(s) : R[i] = s[i]
      /\ \A i \in 1 .. Len(<<c>>) : R[Len(s) + i] = <<c>>[i]
  BY ONLY s \in Seq(Positive), <<c>> \in Seq(Positive), R = s \o <<c>>, ConcatProperties
<1>3. QED
  BY <1>1, <1>2 DEF Copies, Positive

IsCopyAt(place, k, y, c) == k \in Nat /\ y \in 0 .. (c - 1) /\ place = k * c + y
HasDigits(R, place, s, k, y) ==
    place \in Nat /\ (\A i \in 1 .. Len(s) : Digit(R, place, i) = Digit(s, k, i)) /\ Digit(R, place, Len(s) + 1) = 1 + y

LEMMA CopiesHaveDigits ==
  ASSUME NEW R, NEW s, NEW c, Copies(R, s, c), NEW place, NEW k, NEW y, IsCopyAt(place, k, y, c)
  PROVE  HasDigits(R, place, s, k, y)
<1>1. k \in Nat /\ y \in 0 .. (c - 1) /\ place = k * c + y
  BY DEF IsCopyAt
<1>2. /\ place \in Nat
      /\ \A i \in 1 .. Len(s) : Digit(R, place, i) = Digit(s, k, i)
      /\ Digit(R, place, Len(s) + 1) = 1 + y
  BY <1>1, DigitsOfCopy
<1>3. QED
  BY <1>2 DEF HasDigits

\* A configuration's Jobs in the block of its prompt.
LEMMA BlockIs ==
  ASSUME NEW r, Compiler!IsRequest(r), IsCountable(r), NEW sd, SeedsPer(sd) \in Positive,
         NEW n \in 1 .. Len(r.prompts), NEW k \in 0 .. (Weights(r)[n] - 1), NEW j \in 1 .. SeedsPer(sd)
  PROVE  /\ k * SeedsPer(sd) + j \in 1 .. (Weights(r)[n] * SeedsPer(sd))
         /\ BlockOf(r, sd, n)[k * SeedsPer(sd) + j] =
              JobOf(r, r.prompts[n], ConfigurationAt(r, r.prompts[n], k), SeedAt(sd, PlaceOf(r, n, k, SeedsPer(sd)), j))
         /\ Sums(Weights(r))[n - 1] * SeedsPer(sd) + (k * SeedsPer(sd) + j) = PlaceOf(r, n, k, SeedsPer(sd)) + j
<1> DEFINE c == SeedsPer(sd)
           p == r.prompts[n]
           s == AxisSizes(r, p)
           W == Weights(r)[n]
           B == Sums(Weights(r))[n - 1]
           R == RadicesOf(r, p, c)
<1>1. s \in Seq(Positive) /\ W \in Positive /\ Weights(r) \in Seq(Nat) /\ Len(Weights(r)) = Len(r.prompts) /\ Len(r.prompts) \in Nat
  <2>1. n \in DOMAIN r.prompts /\ Weights(r) \in Seq(Positive) /\ Len(Weights(r)) = Len(r.prompts)
    BY WeightsArePositive
  <2>2. QED
    BY <2>1, WeightsArePositive DEF Positive
<1>2. B \in Nat
  <2>1. n - 1 \in 0 .. Len(Weights(r))
    BY <1>1
  <2>2. QED
    BY <1>1, <2>1, SumsAreNaturals
<1>3. c \in Positive /\ c \in Nat /\ W \in Nat /\ k \in Nat /\ k < W /\ j \in Nat /\ 1 <= j /\ j <= c
  BY <1>1 DEF Positive
<1>4. R = s \o <<c>>
  BY DEF RadicesOf
<1>5. BlockOf(r, sd, n) = [x \in 1 .. W * c |->
           JobOf(r, p, DigitsOf(R, x - 1, Len(s)),
                 sd.values[IF sd.mode = "random" THEN B * c + (x - 1) + 1 ELSE Digit(R, x - 1, Len(R))])]
  BY DEF BlockOf
<1>6. PlaceOf(r, n, k, c) = (B + k) * c /\ ConfigurationAt(r, p, k) = DigitsOf(s, k, Len(s))
  BY DEF PlaceOf, ConfigurationAt
<1> DEFINE x == k * c + j
           y == j - 1
<1> HIDE DEF c, p, s, W, B, R
<1>7. Copies(R, s, c) /\ Len(R) = Len(s) + 1 /\ Len(s) \in Nat
  <2>1. Copies(R, s, c) /\ Len(R) = Len(s) + 1
    BY ONLY <1>1, <1>3, <1>4, RadicesAreCopies, Zenon
  <2>2. Len(s) \in Nat
    BY <1>1
  <2>3. QED
    BY <2>1, <2>2
<1>8. y \in 0 .. (c - 1) /\ x - 1 = k * c + y /\ k * c \in Nat
  BY <1>3
<1>9. x - 1 \in Nat /\ (\A i \in 1 .. Len(s) : Digit(R, x - 1, i) = Digit(s, k, i)) /\ Digit(R, x - 1, Len(s) + 1) = 1 + y
  <2> DEFINE z == x - 1
  <2>1. z = k * c + y /\ z = x - 1
    BY <1>8
  <2> HIDE DEF x, y, z
  <2>2. z \in Nat /\ (\A i \in 1 .. Len(s) : Digit(R, z, i) = Digit(s, k, i)) /\ Digit(R, z, Len(s) + 1) = 1 + y
    <3>1. IsCopyAt(z, k, y, c)
      BY <1>3, <1>8, <2>1 DEF IsCopyAt
    <3>2. QED
      BY <1>7, <3>1, CopiesHaveDigits DEF HasDigits
  <2>3. QED
    BY <2>1, <2>2
<1>10. DigitsOf(R, x - 1, Len(s)) = DigitsOf(s, k, Len(s))
  BY <1>9 DEF DigitsOf
<1>11. x \in 1 .. (W * c)
  <2>1. (k + 1) * c <= W * c /\ (k + 1) * c = k * c + c /\ W * c \in Nat
    <3>1. (k + 1) * c <= W * c
      <4>1. k + 1 \in Nat /\ k + 1 <= W
        BY <1>3
      <4>2. QED
        BY <1>3, <4>1, StepsAreMonotone
    <3>2. QED
      BY <1>3, <3>1
  <2>2. QED
    BY <1>3, <1>8, <2>1
<1>12. B * c + x = (B + k) * c + j /\ B * c \in Nat
  BY <1>2, <1>3
<1>13. B * c + (x - 1) + 1 = (B + k) * c + j
  BY <1>8, <1>12, <1>3
<1>14. Digit(R, x - 1, Len(R)) = j
  BY <1>3, <1>7, <1>9
<1>15. BlockOf(r, sd, n)[x] = JobOf(r, p, DigitsOf(s, k, Len(s)), SeedAt(sd, (B + k) * c, j))
  <2> HIDE DEF x, y
  <2>1. BlockOf(r, sd, n)[x] = JobOf(r, p, DigitsOf(R, x - 1, Len(s)),
                 sd.values[IF sd.mode = "random" THEN B * c + (x - 1) + 1 ELSE Digit(R, x - 1, Len(R))])
    BY <1>5, <1>11
  <2>2. QED
    BY <1>10, <1>13, <1>14, <2>1 DEF SeedAt
<1>16. QED
  BY <1>6, <1>11, <1>12, <1>15 DEF c, p, s, W, B

LEMMA PlanIs ==
  ASSUME NEW r, Compiler!IsRequest(r), IsCountable(r), NEW sd, SeedsPer(sd) \in Positive
  PROVE  IsPlan(PlanOf(r, sd), r, sd)
<1> DEFINE c == SeedsPer(sd)
           W == Weights(r)
           N == Len(r.prompts)
           blocks == [n \in DOMAIN r.prompts |-> BlockOf(r, sd, n)]
           w == [n \in 1 .. N |-> W[n] * c]
           S == UNION {Compiler!Range(BlockOf(r, sd, n)) : n \in 1 .. N}
<1>1. /\ W \in Seq(Nat) /\ DOMAIN r.prompts = 1 .. N /\ Len(W) = N /\ N \in Positive /\ N \in Nat /\ c \in Nat
      /\ DOMAIN W = 1 .. N /\ PlanSize(r) = Compiler!Total(W)
  BY WeightsArePositive DEF Positive, PlanSize
<1>2. \A n \in 1 .. N : W[n] \in Nat /\ W[n] * c \in Nat
  <2> HIDE DEF W, c
  <2>1. \A a \in Nat : a * c \in Nat
    BY <1>1
  <2>2. QED
    BY <1>1, <2>1
<1>3. ASSUME NEW n \in 1 .. N PROVE BlockOf(r, sd, n) \in Seq(S) /\ Len(BlockOf(r, sd, n)) = w[n]
  <2> DEFINE b == BlockOf(r, sd, n)
  <2>1. b = [x \in 1 .. W[n] * c |-> b[x]]
    BY DEF BlockOf
  <2>2. w[n] = W[n] * c
    OBVIOUS
  <2>3. \A x \in DOMAIN b : b[x] \in S
    BY DEF Compiler!Range
  <2> HIDE DEF b, S, w, W, c
  <2>4. w[n] \in Nat /\ b \in [1 .. w[n] -> S]
    BY <1>2, <2>1, <2>2, <2>3
  <2>5. b \in Seq(S) /\ Len(b) = w[n]
    BY <2>4, FunctionIsList
  <2>6. QED
    BY <2>5 DEF b
<1>4. w \in [1 .. N -> Nat]
  <2> HIDE DEF W, c
  <2>1. QED
    BY <1>2
<1>5. AreLists(blocks, N, w, S)
  <2>1. blocks = [n \in 1 .. N |-> BlockOf(r, sd, n)]
    BY <1>1
  <2> HIDE DEF S, w, blocks
  <2>2. Len(blocks) = N /\ \A n \in 1 .. N : blocks[n] = BlockOf(r, sd, n)
    BY <1>1, <2>1
  <2>3. QED
    BY <1>1, <1>3, <1>4, <2>2 DEF AreLists, Positive
<1>6. w = [n \in DOMAIN W |-> W[n] * c]
  BY <1>1
<1> DEFINE P == PlanOf(r, sd)
<1>7. P = Flat(blocks) /\ (\A n \in 1 .. N : blocks[n] = BlockOf(r, sd, n))
  BY <1>1 DEF PlanOf
<1>8. \A n \in 1 .. N : Sums(w)[n - 1] = Sums(W)[n - 1] * c
  <2> SUFFICES ASSUME NEW n \in 1 .. N PROVE Sums(w)[n - 1] = Sums(W)[n - 1] * c
    OBVIOUS
  <2> DEFINE h == [m \in 1 .. (n - 1) |-> W[m] * c]
  <2>1. n \in 1 .. Len(W)
    BY <1>1
  <2> HIDE DEF W, c
  <2>2. Total(h) = Sums(W)[n - 1] * c
    BY <1>1, <2>1, JobsBefore
  <2>3. \A m \in 1 .. (n - 1) : m \in 1 .. N /\ h[m] = w[0 + m] /\ h[m] \in Int
    BY <1>1, <1>2
  <2>4. h \in [1 .. (n - 1) -> Int]
    BY <2>3
  <2>5. w \in [1 .. N -> Int] /\ 0 + (n - 1) <= N /\ n - 1 \in Nat
    BY <1>1, <1>4
  <2> HIDE DEF w, h
  <2>6. IsSlice(h, w, N, 0, n - 1)
    BY <2>3, <2>4, <2>5 DEF IsSlice
  <2>7. Sums(w)[0 + (n - 1)] = Sums(w)[0] + Total(h)
    BY ONLY <1>1, <2>5, <2>6, 0 \in Nat, TotalOfPart
  <2>81. Sums(w)[0] = 0 /\ \A k \in 0 .. N : Sums(w)[k] \in Int
    BY ONLY <1>1, <2>5, SumsOf
  <2>8. Sums(w)[0] = 0 /\ Sums(w)[n - 1] \in Int
    BY <2>5, <2>81
  <2>9. Total(h) \in Int
    BY ONLY <2>4, <2>5, TotalIsInteger
  <2>10. QED
    BY <2>2, <2>5, <2>7, <2>8, <2>9
<1> HIDE DEF w, blocks, S, P
<1>9. P \in Seq(S) /\ Len(P) = Total(w) /\ \A n \in 1 .. N : \A x \in 1 .. w[n] : P[Sums(w)[n - 1] + x] = blocks[n][x]
  BY <1>5, <1>7, FlatIs
<1>10. Total(w) = PlanSize(r) * c
  <2> HIDE DEF W, c
  <2>1. Compiler!Total(w) = Compiler!Total(W) * c
    BY <1>1, <1>6, SumOfMultiples
  <2>2. QED
    BY <1>1, <2>1, CompilerSums
<1>11. Compiler!IsList(P)
  BY <1>9, SequencesAreLists
<1>12. ASSUME NEW n \in 1 .. N, NEW k \in 0 .. (W[n] - 1), NEW j \in 1 .. c
       PROVE  P[PlaceOf(r, n, k, c) + j] =
                JobOf(r, r.prompts[n], ConfigurationAt(r, r.prompts[n], k), SeedAt(sd, PlaceOf(r, n, k, c), j))
  <2> DEFINE x == k * c + j
  <2>1. /\ x \in 1 .. (W[n] * c)
        /\ BlockOf(r, sd, n)[x] = JobOf(r, r.prompts[n], ConfigurationAt(r, r.prompts[n], k), SeedAt(sd, PlaceOf(r, n, k, c), j))
        /\ Sums(W)[n - 1] * c + x = PlaceOf(r, n, k, c) + j
    BY BlockIs
  <2>2. w[n] = W[n] * c
    BY DEF w
  <2> HIDE DEF x, W, c, N
  <2>3. P[Sums(w)[n - 1] + x] = blocks[n][x]
    BY <1>9, <2>1, <2>2
  <2>4. QED
    BY <1>7, <1>8, <2>1, <2>3
<1>13. QED
  BY <1>9, <1>10, <1>11, <1>12 DEF IsPlan, P

(* Requests that differ in nothing but their seeds have the same dimensions. *)
SameParts(r, q) ==
    /\ r.prompts = q.prompts /\ r.variables = q.variables /\ r.slots = q.slots /\ r.images = q.images
    /\ r.parameters = q.parameters /\ r.intents = q.intents /\ r.sets = q.sets

LEMMA DimensionsAgree ==
  ASSUME NEW r, NEW q, SameParts(r, q)
  PROVE  /\ ParameterNames(r) = ParameterNames(q)
         /\ \A p : AxisSizes(r, p) = AxisSizes(q, p) /\ AxesOf(r, p) = AxesOf(q, p) /\ VariableAxesOf(r, p) = VariableAxesOf(q, p)
         /\ ParameterSizes(r) = ParameterSizes(q) /\ ImageSizes(r) = ImageSizes(q)
         /\ \A p : VariableSizes(r, p) = VariableSizes(q, p)
         /\ Weights(r) = Weights(q) /\ PlanSize(r) = PlanSize(q)
<1> USE DEF SameParts
<1>1. \A key : NameOf(r, key) = NameOf(q, key)
  BY DEF NameOf
<1>2. ParameterNames(r) = ParameterNames(q)
  BY <1>1 DEF ParameterNames
<1>3. \A name : ParameterSize(r, name) = ParameterSize(q, name)
  BY DEF ParameterSize
<1>4. ParameterSizes(r) = ParameterSizes(q)
  BY <1>2, <1>3 DEF ParameterSizes
<1>5. ImageSizes(r) = ImageSizes(q)
  BY DEF ImageSizes
<1>6. \A p : VariableSizes(r, p) = VariableSizes(q, p)
  BY DEF VariableSizes
<1>7. \A p : AxisSizes(r, p) = AxisSizes(q, p)
  BY <1>4, <1>5, <1>6 DEF AxisSizes
<1>8. \A p : VariableAxesOf(r, p) = VariableAxesOf(q, p)
  BY DEF VariableAxesOf
<1>9. ImageAxesOf(r) = ImageAxesOf(q)
  BY DEF ImageAxesOf
<1>10. \A x : MaterialValues(r, x) = MaterialValues(q, x)
  BY DEF MaterialValues
<1>11. ParameterAxesOf(r) = ParameterAxesOf(q)
  BY <1>2, <1>10 DEF ParameterAxesOf
<1>12. \A p : AxesOf(r, p) = AxesOf(q, p)
  BY <1>8, <1>9, <1>11 DEF AxesOf
<1>13. Weights(r) = Weights(q)
  BY <1>7 DEF Weights
<1>14. QED
  BY <1>2, <1>4, <1>5, <1>6, <1>7, <1>8, <1>12, <1>13 DEF PlanSize

LEMMA PlansAgree ==
  ASSUME NEW r, NEW q, SameParts(r, q), NEW sd
  PROVE  /\ PlanOf(r, sd) = PlanOf(q, sd)
         /\ \A p, choice : TextOfJob(r, p, choice) = TextOfJob(q, p, choice) /\ ConfigurationAt(r, p, choice) = ConfigurationAt(q, p, choice)
         /\ TextPerSeed(r) = TextPerSeed(q)
         /\ HasLargePrompt(r) <=> HasLargePrompt(q)
         /\ IsCountable(r) <=> IsCountable(q)
<1>1. /\ ParameterNames(r) = ParameterNames(q)
      /\ \A p : AxisSizes(r, p) = AxisSizes(q, p) /\ AxesOf(r, p) = AxesOf(q, p) /\ VariableAxesOf(r, p) = VariableAxesOf(q, p)
      /\ ParameterSizes(r) = ParameterSizes(q) /\ ImageSizes(r) = ImageSizes(q)
      /\ \A p : VariableSizes(r, p) = VariableSizes(q, p)
      /\ Weights(r) = Weights(q) /\ PlanSize(r) = PlanSize(q)
  BY DimensionsAgree
<1>2. \A axes, p, choice, seed : JobWith(r, axes, p, choice, seed) = JobWith(q, axes, p, choice, seed)
  BY DEF JobWith, SameParts
<1>3. \A p, choice, seed : JobOf(r, p, choice, seed) = JobOf(q, p, choice, seed)
  BY <1>1, <1>2 DEF JobOf
<1>4. \A p, c : RadicesOf(r, p, c) = RadicesOf(q, p, c)
  BY <1>1 DEF RadicesOf
<1>5. \A n : BlockOf(r, sd, n) = BlockOf(q, sd, n)
  BY <1>1, <1>3, <1>4 DEF BlockOf, SameParts
<1>6. PlanOf(r, sd) = PlanOf(q, sd)
  BY <1>5 DEF PlanOf, SameParts
<1>7. \A p, choice : TextOfJob(r, p, choice) = TextOfJob(q, p, choice) /\ ConfigurationAt(r, p, choice) = ConfigurationAt(q, p, choice)
  BY <1>1 DEF TextOfJob, ConfigurationAt
<1>8. TextPerSeed(r) = TextPerSeed(q)
  <2>1. \A p : Variants(r, p) = Variants(q, p)
    BY <1>1 DEF Variants
  <2>2. \A p, a : VariableText(r, p, a) = VariableText(q, p, a)
    BY <2>1 DEF VariableText
  <2>3. \A p : VariableTexts(r, p) = VariableTexts(q, p)
    BY <1>1, <2>2 DEF VariableTexts
  <2>4. \A p : PromptText(r, p) = PromptText(q, p)
    BY <1>1, <2>1, <2>3 DEF PromptText, VariantText
  <2>5. PromptTexts(r) = PromptTexts(q)
    BY <2>4 DEF PromptTexts, SameParts
  <2>6. \A name : ParameterText(r, name) = ParameterText(q, name)
    BY DEF ParameterText, SameParts
  <2>7. ParameterTexts(r) = ParameterTexts(q)
    BY <1>1, <2>6 DEF ParameterTexts
  <2>8. QED
    BY <2>5, <2>7 DEF TextPerSeed
<1>9. HasLargePrompt(r) <=> HasLargePrompt(q)
  <2>1. \A p : LargestText(r, p) = LargestText(q, p)
    BY <1>1 DEF LargestText
  <2>2. QED
    BY <2>1 DEF HasLargePrompt, SameParts
<1>10. IsCountable(r) <=> IsCountable(q)
  BY <1>1 DEF IsCountable, SameParts
<1>11. QED
  BY <1>6, <1>7, <1>8, <1>9, <1>10

-----------------------------------------------------------------------------
(* What the checks of a stage say of a request, apart from its seeds. *)
Sound ==
    /\ Compiler!IntentsAreValid /\ Compiler!PromptsAreValid /\ Compiler!VariablesAreValid
    /\ Compiler!PlaceholdersAreBound /\ Compiler!ImagesAreBound /\ Compiler!LinkedSetsAreValid
    /\ Compiler!ParametersAreCovered
ValuesAt(s, x) ==
    IF s = "preflight" /\ x.mode = "range" THEN <<Compiler!Base>>
    ELSE Compiler!IntentValues(Compiler!TypeOf(x.key), x)
BindingsHold(s) ==
    /\ Compiler!KeysAreUnique(request.parameters, LAMBDA p : p.key)
    /\ Compiler!BadKey \notin Compiler!KeySet(request.parameters, LAMBDA p : p.key)
    /\ \A intent \in Compiler!Range(request.intents) :
         /\ Compiler!AreAlternatives(ValuesAt(s, intent))
         /\ \A v \in Compiler!Range(ValuesAt(s, intent)) : Compiler!Accepts(Compiler!TypeOf(intent.key), v)

LEMMA ChecksAre ==
  ASSUME stage \in CompilerStages
  PROVE  /\ Compiler!IntentsAreValid /\ Compiler!IsValid <=>
              /\ Sound /\ Compiler!SeedsAreValid
              /\ stage = "preflight" => BindingsHold("preflight")
              /\ stage # "preflight" => BindingsHold("compile")
<1>1. stage = "preflight" => \A x : Compiler!BoundValues(x) = ValuesAt("preflight", x)
  BY DEF Compiler!BoundValues, ValuesAt
<1>2. stage # "preflight" => \A x : Compiler!BoundValues(x) = ValuesAt("compile", x)
  BY DEF Compiler!BoundValues, ValuesAt
<1>3. stage = "preflight" => (Compiler!BindingsAreValid <=> BindingsHold("preflight"))
  BY <1>1 DEF Compiler!BindingsAreValid, BindingsHold
<1>4. stage # "preflight" => (Compiler!BindingsAreValid <=> BindingsHold("compile"))
  BY <1>2 DEF Compiler!BindingsAreValid, BindingsHold
<1>5. QED
  BY <1>3, <1>4 DEF Compiler!IsValid, Sound

\* They say the same of a request that differs in nothing but its seeds.
LEMMA SoundnessIsKept ==
  ASSUME SameParts(request, request')
  PROVE  /\ Sound <=> Sound'
         /\ BindingsHold("preflight") <=> BindingsHold("preflight")'
         /\ BindingsHold("compile") <=> BindingsHold("compile")'
         /\ Compiler!AreMaterial <=> Compiler!AreMaterial'
<1> USE DEF SameParts, Compiler!KeysAreUnique, Compiler!KeySet
<1>1. \A key : Compiler!TypeOf(key) = Compiler!TypeOf(key)'
  BY DEF Compiler!TypeOf
<1>2. \A key : Compiler!LinkedSetOf(key) = Compiler!LinkedSetOf(key)'
  BY DEF Compiler!LinkedSetOf
<1>3. Compiler!IntentsAreValid <=> Compiler!IntentsAreValid'
  BY <1>1 DEF Compiler!IntentsAreValid
<1>4. Compiler!PromptsAreValid <=> Compiler!PromptsAreValid'
  BY DEF Compiler!PromptsAreValid
<1>5. Compiler!VariablesAreValid <=> Compiler!VariablesAreValid'
  BY DEF Compiler!VariablesAreValid
<1>6. Compiler!PlaceholdersAreBound <=> Compiler!PlaceholdersAreBound'
  BY DEF Compiler!PlaceholdersAreBound
<1>7. Compiler!ImagesAreBound <=> Compiler!ImagesAreBound'
  BY DEF Compiler!ImagesAreBound
<1>8. Compiler!LinkedSetsAreValid <=> Compiler!LinkedSetsAreValid'
  <2>1. \A set : Compiler!LinkedSetIsValid(set) <=> Compiler!LinkedSetIsValid(set)'
    BY <1>1 DEF Compiler!LinkedSetIsValid
  <2>2. QED
    BY <1>2, <2>1 DEF Compiler!LinkedSetsAreValid
<1>9. Compiler!ParametersAreCovered <=> Compiler!ParametersAreCovered'
  <2>1. Compiler!Independent = Compiler!Independent'
    BY DEF Compiler!Independent
  <2>2. QED
    BY <1>2, <2>1 DEF Compiler!ParametersAreCovered
<1>10. \A s, x : ValuesAt(s, x) = ValuesAt(s, x)'
  BY <1>1 DEF ValuesAt
<1>11. \A s : BindingsHold(s) <=> BindingsHold(s)'
  BY <1>1, <1>10 DEF BindingsHold
<1>12. Compiler!AreMaterial <=> Compiler!AreMaterial'
  BY <1>1 DEF Compiler!AreMaterial
<1>13. QED
  BY <1>3, <1>4, <1>5, <1>6, <1>7, <1>8, <1>9, <1>11, <1>12 DEF Sound

-----------------------------------------------------------------------------
(* The odometer of a prompt is at its next configuration. *)
LEMMA ChoicesAreCounted ==
  ASSUME Compiler!IsRequest(request), IsCountable(request), stage # "preflight",
         NEW p \in Compiler!Range(request.prompts), NEW s, s = AxisSizes(request, p)
  PROVE  /\ DOMAIN Compiler!Axes(p) = 1 .. Len(s) /\ IsDimensions(s) /\ Len(s) \in Nat
         /\ \A i \in 1 .. Len(s) : Len(Compiler!Axes(p)[i].choices) = s[i]
<1>1. /\ AxisSizes(request, p) \in Seq(Positive)
      /\ DOMAIN Compiler!Axes(p) = 1 .. Len(AxisSizes(request, p)) /\ Len(AxisSizes(request, p)) \in Nat
      /\ \A i \in 1 .. Len(AxisSizes(request, p)) : Compiler!SizeOf(Compiler!Axes(p)[i]) = AxisSizes(request, p)[i]
  BY SizesAgree
<1>2. \A a : Compiler!SizeOf(a) = Len(a.choices)
  BY DEF Compiler!SizeOf
<1>3. QED
  BY <1>1, <1>2 DEF IsDimensions, Positive

LEMMA FirstConfiguration ==
  ASSUME Compiler!IsRequest(request), IsCountable(request), stage # "preflight",
         NEW p \in Compiler!Range(request.prompts)
  PROVE  Compiler!FirstDigits(p) = ConfigurationAt(request, p, 0)
<1> DEFINE s == AxisSizes(request, p)
<1>1. DOMAIN Compiler!Axes(p) = 1 .. Len(s) /\ IsDimensions(s)
  BY ChoicesAreCounted
<1>2. ConfigurationAt(request, p, 0) = [i \in 1 .. Len(s) |-> Digit(s, 0, i)]
  BY DEF ConfigurationAt, DigitsOf
<1> HIDE DEF s
<1>3. \A i \in 1 .. Len(s) : Digit(s, 0, i) = 1
  BY <1>1, FirstDigit
<1>4. QED
  BY <1>1, <1>2, <1>3 DEF Compiler!FirstDigits

LEMMA LastConfiguration ==
  ASSUME Compiler!IsRequest(request), IsCountable(request), stage # "preflight",
         NEW p \in Compiler!Range(request.prompts), NEW W, W = Product(AxisSizes(request, p)),
         NEW k \in 0 .. (W - 1), NEW choice, choice = ConfigurationAt(request, p, k)
  PROVE  Compiler!IsLast(p, choice) <=> k + 1 = W
<1> DEFINE s == AxisSizes(request, p)
<1>1. /\ DOMAIN Compiler!Axes(p) = 1 .. Len(s) /\ IsDimensions(s)
      /\ \A i \in 1 .. Len(s) : Len(Compiler!Axes(p)[i].choices) = s[i]
  BY ChoicesAreCounted
<1>2. choice = [i \in 1 .. Len(s) |-> Digit(s, k, i)] /\ W = Product(s)
  BY DEF ConfigurationAt, DigitsOf
<1> HIDE DEF s
<1>3. Product(s) \in Nat
  BY <1>1, ProductsOf DEF IsDimensions
<1>4. k \in Nat /\ k < Product(s)
  BY <1>2, <1>3
<1>5. (\A i \in 1 .. Len(s) : Digit(s, k, i) = s[i]) <=> k + 1 = Product(s)
  BY ONLY <1>1, <1>4, LastDigits
<1>6. Compiler!IsLast(p, choice) <=> \A i \in 1 .. Len(s) : Digit(s, k, i) = s[i]
  BY <1>1, <1>2 DEF Compiler!IsLast
<1>7. QED
  BY <1>2, <1>5, <1>6

LEMMA NextConfiguration ==
  ASSUME Compiler!IsRequest(request), IsCountable(request), stage # "preflight",
         NEW p \in Compiler!Range(request.prompts), NEW W, W = Product(AxisSizes(request, p)),
         NEW k \in Nat, k + 1 < W, NEW choice, choice = ConfigurationAt(request, p, k)
  PROVE  Compiler!NextDigits(p, choice) = ConfigurationAt(request, p, k + 1)
<1> DEFINE s == AxisSizes(request, p)
<1>1. /\ DOMAIN Compiler!Axes(p) = 1 .. Len(s) /\ IsDimensions(s) /\ Len(s) \in Nat
      /\ \A i \in 1 .. Len(s) : Len(Compiler!Axes(p)[i].choices) = s[i]
  BY ChoicesAreCounted
<1>2. /\ choice = [i \in 1 .. Len(s) |-> Digit(s, k, i)] /\ W = Product(s)
      /\ ConfigurationAt(request, p, k + 1) = [i \in 1 .. Len(s) |-> Digit(s, k + 1, i)]
  BY DEF ConfigurationAt, DigitsOf
<1> HIDE DEF s
<1>3. PICK m \in 1 .. Len(s) : MovesAt(s, k, m)
  BY <1>1, <1>2, NextDigits
<1>4. \A i \in 1 .. Len(s) : Digit(s, k, i) \in Nat /\ s[i] \in Nat
  <2>1. \A i \in 1 .. Len(s) : Digit(s, k, i) \in 1 .. s[i] /\ s[i] \in Nat \ {0}
    BY ONLY k \in Nat, <1>1, DigitIsChoice, Zenon
  <2>2. QED
    BY <2>1
<1>5. /\ Digit(s, k, m) < s[m] /\ Digit(s, k + 1, m) = Digit(s, k, m) + 1
      /\ \A j \in 1 .. Len(s) : m < j => Digit(s, k, j) = s[j] /\ Digit(s, k + 1, j) = 1
      /\ \A j \in 1 .. Len(s) : j < m => Digit(s, k + 1, j) = Digit(s, k, j)
  BY <1>3 DEF MovesAt
<1> DEFINE moves(i) == /\ choice[i] < Len(Compiler!Axes(p)[i].choices)
                       /\ \A j \in DOMAIN choice : j > i => choice[j] = Len(Compiler!Axes(p)[j].choices)
           moving == CHOOSE i \in DOMAIN choice : moves(i)
<1>6. DOMAIN choice = 1 .. Len(s) /\ \A i \in 1 .. Len(s) : choice[i] = Digit(s, k, i)
  BY <1>2
<1>7. \A i \in 1 .. Len(s) : moves(i) <=>
        /\ Digit(s, k, i) < s[i]
        /\ \A j \in 1 .. Len(s) : j > i => Digit(s, k, j) = s[j]
  BY <1>1, <1>6
<1> HIDE DEF moves
<1>8. moves(m)
  BY <1>1, <1>3, <1>5, <1>7
<1>9. ASSUME NEW i \in 1 .. Len(s), moves(i) PROVE i = m
  <2>1. ~(i < m)
    <3> SUFFICES ASSUME i < m PROVE FALSE
      OBVIOUS
    <3>1. Digit(s, k, m) = s[m]
      BY <1>3, <1>7, <1>9
    <3>2. QED
      BY <1>3, <1>4, <1>5, <3>1
  <2>2. ~(m < i)
    <3> SUFFICES ASSUME m < i PROVE FALSE
      OBVIOUS
    <3>1. Digit(s, k, i) = s[i] /\ Digit(s, k, i) < s[i]
      BY <1>5, <1>7, <1>9
    <3>2. QED
      BY <1>4, <3>1
  <2>3. QED
    BY <2>1, <2>2
<1>10. moving = m
  BY <1>3, <1>6, <1>8, <1>9
<1>11. Compiler!NextDigits(p, choice) =
         [i \in DOMAIN choice |-> CASE i < moving -> choice[i] [] i = moving -> choice[i] + 1 [] i > moving -> 1]
  BY DEF Compiler!NextDigits, moves
<1> HIDE DEF moving
<1>12. ASSUME NEW i \in 1 .. Len(s)
       PROVE  (CASE i < m -> choice[i] [] i = m -> choice[i] + 1 [] i > m -> 1) = Digit(s, k + 1, i)
  <2>1. CASE i < m
    BY <1>5, <1>6, <2>1
  <2>2. CASE i = m
    BY <1>5, <1>6, <2>2
  <2>3. CASE i > m
    BY <1>5, <1>6, <2>3
  <2>4. QED
    BY <2>1, <2>2, <2>3
<1>13. QED
  BY <1>2, <1>6, <1>10, <1>11, <1>12

-----------------------------------------------------------------------------
(* What is expanded so far is the plan up to the next configuration. *)
IsResolved(job) == \A v \in Compiler!Range(job.text) : ~v.hole
NoHoles(r) ==
    \A n \in 1 .. Len(r.prompts) : \A k \in 0 .. (Weights(r)[n] - 1) :
      \A v \in Compiler!Range(TextOfJob(r, r.prompts[n], ConfigurationAt(r, r.prompts[n], k))) : ~v.hole

IsAt(r, n, k, c, choice, l) ==
    k \in 0 .. (Weights(r)[n] - 1) /\ choice = ConfigurationAt(r, r.prompts[n], k) /\ l = PlaceOf(r, n, k, c)

\* The places of a plan, configuration after configuration.
LEMMA PlacesAre ==
  ASSUME NEW r, Compiler!IsRequest(r), IsCountable(r), NEW c \in Positive, NEW n \in 1 .. Len(r.prompts),
         NEW k \in 0 .. (Weights(r)[n] - 1)
  PROVE  /\ PlaceOf(r, n, k, c) \in Nat /\ c \in Nat /\ PlanSize(r) * c \in Nat
         /\ PlaceOf(r, n, k, c) + c <= PlanSize(r) * c
         /\ k + 1 < Weights(r)[n] => PlaceOf(r, n, k, c) + c = PlaceOf(r, n, k + 1, c)
         /\ k + 1 = Weights(r)[n] /\ n < Len(r.prompts) => PlaceOf(r, n, k, c) + c = PlaceOf(r, n + 1, 0, c)
         /\ k + 1 = Weights(r)[n] /\ n = Len(r.prompts) => PlaceOf(r, n, k, c) + c = PlanSize(r) * c
         /\ Weights(r)[n] \in Positive /\ k \in Nat
<1> DEFINE W == Weights(r)
           B == Sums(W)[n - 1]
           U == Sums(W)[n]
           N == Len(r.prompts)
<1>1. W \in Seq(Nat) /\ W \in Seq(Positive) /\ Len(W) = N /\ N \in Nat /\ PlanSize(r) = Compiler!Total(W)
  BY WeightsArePositive DEF Positive, PlanSize
<1>2. /\ B \in Nat /\ U \in Nat /\ U <= PlanSize(r) /\ PlanSize(r) \in Nat
  <2>1. n - 1 \in 0 .. Len(W) /\ n \in 0 .. Len(W)
    BY <1>1
  <2>2. QED
    BY <1>1, <2>1, SumsAreNaturals
<1>3. U = B + W[n] /\ Sums(W)[N] = PlanSize(r)
  <2>1. IsSum(Sums(W), W) /\ Compiler!Total(W) = Sums(W)[Len(W)] /\ n \in 1 .. Len(W)
    BY <1>1, CompilerSumsAre
  <2>2. QED
    BY <1>1, <2>1 DEF IsSum
<1>4. W[n] \in Positive /\ W[n] \in Nat /\ c \in Nat /\ k \in Nat /\ k + 1 <= W[n]
  <2>1. W[n] \in Positive
    BY <1>1
  <2>2. QED
    BY <2>1 DEF Positive
<1>5. /\ PlaceOf(r, n, k, c) = (B + k) * c /\ PlaceOf(r, n, k + 1, c) = (B + (k + 1)) * c
      /\ PlaceOf(r, n + 1, 0, c) = (U + 0) * c
  <2>1. (n + 1) - 1 = n
    OBVIOUS
  <2>2. QED
    BY <2>1 DEF PlaceOf
<1>6. n = N => U = PlanSize(r)
  BY <1>3
<1> HIDE DEF W, B, U, N
<1> DEFINE T == PlanSize(r)
           w == W[n]
<1>7. T \in Nat /\ w \in Nat /\ U <= T /\ U = B + w /\ k + 1 <= w
  BY <1>2, <1>3, <1>4
<1> HIDE DEF T, w
<1>8. (B + k) * c \in Nat /\ (B + k) * c + c = (B + (k + 1)) * c /\ (U + 0) * c = U * c /\ T * c \in Nat
  BY <1>2, <1>4, <1>7
<1>9. (B + (k + 1)) * c <= T * c
  <2>1. B + (k + 1) \in Nat /\ B + (k + 1) <= T
    BY <1>2, <1>4, <1>7
  <2>2. QED
    BY <1>4, <1>7, <2>1, StepsAreMonotone
<1>10. k + 1 = w => B + (k + 1) = U
  BY <1>7
<1>11. QED
  BY <1>4, <1>5, <1>6, <1>8, <1>9, <1>10 DEF T, w, W, N

LEMMA PlanStarts ==
  ASSUME NEW r, Compiler!IsRequest(r), IsCountable(r), NEW c \in Positive
  PROVE  1 \in 1 .. Len(r.prompts) /\ 0 \in 0 .. (Weights(r)[1] - 1) /\ PlaceOf(r, 1, 0, c) = 0
<1>1. /\ Weights(r) \in Seq(Positive) /\ Len(Weights(r)) = Len(r.prompts) /\ Len(r.prompts) \in Nat /\ Len(r.prompts) \in Positive
  BY WeightsArePositive DEF Positive
<1>2. 1 \in 1 .. Len(r.prompts)
  BY <1>1 DEF Positive
<1>3. Weights(r)[1] \in Positive
  BY <1>1, <1>2
<1>4. Sums(Weights(r))[0] = 0
  BY <1>1, CompilerSumsAre DEF IsSum
<1>5. PlaceOf(r, 1, 0, c) = (0 + 0) * c
  BY <1>4 DEF PlaceOf
<1>6. (0 + 0) * c = 0
  BY DEF Positive
<1>7. QED
  BY <1>2, <1>3, <1>5, <1>6 DEF Positive

\* One configuration is expanded to what the plan has at its places.
LEMMA ConfigurationExpands ==
  ASSUME Compiler!IsRequest(request), IsCountable(request), Compiler!IsSeedInput(seeds), SeedsPer(seeds) \in Positive,
         stage # "preflight", prompt \in 1 .. Len(request.prompts),
         NEW k, IsAt(request, prompt, k, SeedsPer(seeds), digits, Len(jobs)),
         seeds.mode = "random" => position = Len(jobs),
         NEW new, new = [i \in DOMAIN Compiler!SeedsOfConfiguration |->
                           Compiler!Job(request.prompts[prompt], digits, Compiler!SeedsOfConfiguration[i])]
  PROVE  /\ Compiler!IsList(new) /\ Len(new) = SeedsPer(seeds) /\ DOMAIN new = 1 .. SeedsPer(seeds)
         /\ \A i \in 1 .. SeedsPer(seeds) : new[i] = PlanOf(request, seeds)[Len(jobs) + i]
         /\ \A i \in 1 .. SeedsPer(seeds) : new[i].text = Compiler!Resolved(request.prompts[prompt], digits)
         /\ Compiler!Resolved(request.prompts[prompt], digits) =
              TextOfJob(request, request.prompts[prompt], ConfigurationAt(request, request.prompts[prompt], k))
<1> DEFINE c == SeedsPer(seeds)
           p == request.prompts[prompt]
           sds == Compiler!SeedsOfConfiguration
           P == PlanOf(request, seeds)
<1>1. k \in 0 .. (Weights(request)[prompt] - 1) /\ digits = ConfigurationAt(request, p, k) /\ Len(jobs) = PlaceOf(request, prompt, k, c)
  BY DEF IsAt
<1>2. DOMAIN sds = 1 .. c /\ \A i \in 1 .. c : sds[i] = SeedAt(seeds, Len(jobs), i)
  <2>1. CASE seeds.mode = "random"
    BY <2>1 DEF Compiler!SeedsOfConfiguration, Compiler!SeedCount, SeedsPer, SeedAt
  <2>2. CASE seeds.mode # "random"
    BY <2>2, CompilerLists DEF Compiler!SeedsOfConfiguration, SeedsPer, SeedAt, Compiler!IsSeedInput
  <2>3. QED
    BY <2>1, <2>2
<1>3. c \in Nat
  BY DEF Positive
<1> HIDE DEF sds, c, p
<1>4. DOMAIN new = 1 .. c /\ new = [i \in 1 .. c |-> new[i]] /\ \A i \in 1 .. c : new[i] = Compiler!Job(p, digits, SeedAt(seeds, Len(jobs), i))
  BY <1>2 DEF sds, p
<1>5. Compiler!IsList(new) /\ Len(new) = c
  BY <1>3, <1>4, ListsAreSequences
<1>6. IsPlan(P, request, seeds)
  BY PlanIs
<1>7. \A i \in 1 .. c : P[Len(jobs) + i] = JobOf(request, p, digits, SeedAt(seeds, Len(jobs), i))
  BY <1>1, <1>6 DEF IsPlan, c, p
<1>8. /\ \A seed : Compiler!Job(p, digits, seed) = JobOf(request, p, digits, seed)
      /\ Compiler!Resolved(p, digits) = TextOfJob(request, p, digits)
  BY JobsAre
<1>9. \A seed : Compiler!Job(p, digits, seed).text = Compiler!Resolved(p, digits)
  BY DEF Compiler!Job
<1>10. QED
  BY <1>1, <1>4, <1>5, <1>7, <1>8, <1>9 DEF c, p

AgreesUpTo(js, plan) == Len(js) <= Len(plan) /\ \A i \in 1 .. Len(js) : js[i] = plan[i]

SeedsAreKnown ==
    /\ work \in {"axis", "text", "expand"} => Compiler!SeedsAreValid
    /\ stage # "validate" /\ ~Needs(request) => seeds = request.seeds
    /\ stage = "compile" /\ Needs(request) => seeds.mode = "random"
    /\ stage = "validate" =>
         /\ IsCountable(request) /\ SeedsPer(seeds) \in Positive
         /\ seeds.mode = "random" => Len(seeds.values) = Len(stored)
         /\ seeds.mode # "random" => Compiler!SeedsAreValid
RequestIsChecked ==
    /\ work \in {"axis", "text", "draw", "expand"} \/ stage \in {"count", "compile", "validate"} \/ stored # <<>> => Sound
    /\ work \in {"axis", "text", "draw", "expand"} =>
         /\ stage = "preflight" => BindingsHold("preflight")
         /\ stage # "preflight" => BindingsHold("compile")
    /\ stage \in {"count", "compile", "validate"} \/ stored # <<>> => BindingsHold("preflight") /\ Compiler!AreMaterial
    /\ stage = "validate" \/ stored # <<>> => BindingsHold("compile")
PreviewIsKept ==
    stored # <<>> /\ stage # "validate" =>
      /\ outcome = "running" /\ stage \in {"preflight", "compile"} /\ ~Needs(request)
      /\ seeds.mode = "random" /\ seeds.values # <<>>
      /\ IsCountable(request) /\ SeedsPer(seeds) \in Positive /\ Compiler!SeedsAreValid
      /\ Len(seeds.values) = PlanSize(request) * SeedsPer(seeds)
      /\ PlanSize(request) * SeedsPer(seeds) <= limits.jobs
      /\ TextPerSeed(request) * SeedsPer(seeds) <= limits.text /\ ~HasLargePrompt(request)
      /\ stored = PlanOf(request, seeds)
TextsAreResolved == stage = "validate" \/ stored # <<>> => NoHoles(request)
ExpansionIsPartial ==
    work = "expand" =>
      /\ stage \in {"compile", "validate"}
      /\ prompt \in 1 .. (Len(request.prompts) + 1)
      /\ prompt <= Len(request.prompts) => \E k : IsAt(request, prompt, k, SeedsPer(seeds), digits, Len(jobs))
      /\ prompt > Len(request.prompts) => Len(jobs) = PlanSize(request) * SeedsPer(seeds)
      /\ seeds.mode = "random" => position = Len(jobs) /\ Len(seeds.values) = PlanSize(request) * SeedsPer(seeds)
      /\ AgreesUpTo(jobs, PlanOf(request, seeds))
      /\ \A i \in 1 .. Len(jobs) : IsResolved(jobs[i])
      /\ stage = "validate" => total = Len(stored) /\ \A i \in 1 .. Len(jobs) : jobs[i] = stored[i]
StoredIsJudged ==
    stage = "validate" /\ work = "end" =>
      (outcome = "accepted" <=>
         /\ Len(stored) = PlanSize(request) * SeedsPer(seeds) /\ stored = PlanOf(request, seeds)
         /\ Compiler!Range(seeds.values) \subseteq 0 .. CompilerMaxSeed)

PlanInvariant ==
    SeedsAreKnown /\ RequestIsChecked /\ PreviewIsKept /\ TextsAreResolved /\ ExpansionIsPartial /\ StoredIsJudged

\* A list and what follows it.
IsAppended(j, s, t) ==
    /\ Compiler!IsList(j) /\ Len(j) = Len(s) + Len(t) /\ Len(s) \in Nat /\ Len(t) \in Nat
    /\ \A i \in 1 .. Len(s) : j[i] = s[i]
    /\ \A i \in 1 .. Len(t) : j[Len(s) + i] = t[i]
    /\ \A i \in 1 .. Len(j) : i \in 1 .. Len(s) \/ \E m \in 1 .. Len(t) : i = Len(s) + m

LEMMA AppendedList ==
  ASSUME NEW s, NEW t, Compiler!IsList(s), Compiler!IsList(t), NEW j, j = s \o t
  PROVE  IsAppended(j, s, t)
<1> DEFINE S == Compiler!Range(s) \cup Compiler!Range(t)
<1>1. s \in Seq(S) /\ t \in Seq(S)
  BY DEF Compiler!IsList
<1> HIDE DEF S
<1>2. /\ j \in Seq(S) /\ Len(j) = Len(s) + Len(t)
      /\ \A i \in 1 .. Len(s) : j[i] = s[i]
      /\ \A i \in 1 .. Len(t) : j[Len(s) + i] = t[i]
  BY ONLY <1>1, j = s \o t, ConcatProperties
<1>3. Len(s) \in Nat /\ Len(t) \in Nat
  BY <1>1
<1>4. ASSUME NEW i \in 1 .. Len(j), i \notin 1 .. Len(s) PROVE \E m \in 1 .. Len(t) : i = Len(s) + m
  <2>1. i - Len(s) \in 1 .. Len(t) /\ i = Len(s) + (i - Len(s))
    BY <1>2, <1>3, <1>4
  <2>2. QED
    BY <2>1
<1>5. QED
  BY <1>2, <1>3, <1>4, SequencesAreLists DEF IsAppended

LEMMA UnchangedIsKept ==
  ASSUME request' = request
  PROVE  /\ Sound <=> Sound'
         /\ BindingsHold("preflight") <=> BindingsHold("preflight")'
         /\ BindingsHold("compile") <=> BindingsHold("compile")'
         /\ Compiler!AreMaterial <=> Compiler!AreMaterial'
<1>1. SameParts(request, request')
  BY DEF SameParts
<1>2. QED
  BY <1>1, SoundnessIsKept

\* What no step but a call of another stage changes.
LEMMA SeedsAreKept ==
  ASSUME seeds' = seeds
  PROVE  Compiler!SeedsAreValid <=> Compiler!SeedsAreValid'
BY DEF Compiler!SeedsAreValid

\* The configuration and its seeds are appended; the odometer moves on.
LEMMA ExpansionGoesOn ==
  ASSUME CompilerInvariant, PlanInvariant, Compiler!ExpandConfiguration, work' # "end",
         outcome' = outcome
  PROVE  ExpansionIsPartial'
<1> DEFINE r == request
           p == r.prompts[prompt]
           new == [i \in DOMAIN Compiler!SeedsOfConfiguration |-> Compiler!Job(p, digits, Compiler!SeedsOfConfiguration[i])]
           c == SeedsPer(seeds)
           P == PlanOf(r, seeds)
           N == Len(r.prompts)
<1> USE DEF Compiler!given, Compiler!counters, Compiler!expansion
<1>1. work = "expand" /\ prompt <= Len(request.prompts)
  BY DEF Compiler!ExpandConfiguration
<1>2. /\ Compiler!IsRequest(request) /\ Compiler!IsSeedInput(seeds) /\ Compiler!IsList(stored) /\ Compiler!IsList(jobs)
      /\ IsCountable(request) /\ SeedsPer(seeds) \in Positive /\ outcome = "running"
      /\ total = PlanSize(request) * SeedsPer(seeds)
  BY <1>1 DEF CompilerInvariant, CompilerShape, StagesAreCountable, CountIsWhole
<1>3. /\ stage \in {"compile", "validate"} /\ stage # "preflight" /\ prompt \in 1 .. (N + 1)
      /\ \E k : IsAt(r, prompt, k, c, digits, Len(jobs))
      /\ seeds.mode = "random" => position = Len(jobs) /\ Len(seeds.values) = PlanSize(r) * c
      /\ AgreesUpTo(jobs, P)
      /\ \A i \in 1 .. Len(jobs) : IsResolved(jobs[i])
      /\ stage = "validate" => total = Len(stored) /\ \A i \in 1 .. Len(jobs) : jobs[i] = stored[i]
  BY <1>1 DEF PlanInvariant, ExpansionIsPartial
<1>4. N \in Nat /\ prompt \in 1 .. N /\ DOMAIN r.prompts = 1 .. N /\ p \in Compiler!Range(r.prompts)
  <2>1. N \in Nat /\ DOMAIN r.prompts = 1 .. N
    BY <1>2, CompilerLists DEF Compiler!IsRequest
  <2>2. prompt \in 1 .. N
    BY <1>1, <1>3, <2>1
  <2>3. QED
    BY <2>1, <2>2 DEF Compiler!Range
<1>5. PICK k : IsAt(r, prompt, k, c, digits, Len(jobs))
  BY <1>3
<1>6. k \in 0 .. (Weights(r)[prompt] - 1) /\ digits = ConfigurationAt(r, p, k) /\ Len(jobs) = PlaceOf(r, prompt, k, c)
  BY <1>5 DEF IsAt
<1>7. /\ work' = "expand"
      /\ ~(\E v \in Compiler!Range(Compiler!Resolved(p, digits)) : v.hole)
      /\ stage = "validate" => \A i \in DOMAIN new : new[i] = stored[Len(jobs) + i]
      /\ jobs' = jobs \o new /\ position' = Compiler!PositionAfter
      /\ IF Compiler!IsLast(p, digits)
         THEN /\ prompt' = prompt + 1
              /\ digits' = IF prompt = N THEN <<>> ELSE Compiler!FirstDigits(r.prompts[prompt + 1])
         ELSE digits' = Compiler!NextDigits(p, digits) /\ prompt' = prompt
      /\ UNCHANGED <<limits, request, stage, seeds, stored, axis, product, total, outcome>>
  BY <1>1 DEF Compiler!ExpandConfiguration, Compiler!Refuse, Compiler!SameJob
<1>8. /\ Compiler!IsList(new) /\ Len(new) = c /\ DOMAIN new = 1 .. c
      /\ \A i \in 1 .. c : new[i] = P[Len(jobs) + i]
      /\ \A i \in 1 .. c : new[i].text = Compiler!Resolved(p, digits)
  BY <1>2, <1>3, <1>4, <1>5, ConfigurationExpands
<1> HIDE DEF new, P
<1>9. /\ Compiler!IsList(jobs') /\ Len(jobs') = Len(jobs) + c /\ Len(jobs) \in Nat
      /\ \A i \in 1 .. Len(jobs) : jobs'[i] = jobs[i]
      /\ \A i \in 1 .. c : jobs'[Len(jobs) + i] = new[i]
      /\ \A i \in 1 .. Len(jobs') : i \in 1 .. Len(jobs) \/ \E m \in 1 .. c : i = Len(jobs) + m
  <2>1. IsAppended(jobs', jobs, new)
    BY <1>2, <1>7, <1>8, AppendedList
  <2>2. QED
    BY <1>8, <2>1 DEF IsAppended
<1>10. /\ c \in Nat /\ PlanSize(r) * c \in Nat
       /\ PlaceOf(r, prompt, k, c) + c <= PlanSize(r) * c
       /\ k + 1 < Weights(r)[prompt] => PlaceOf(r, prompt, k, c) + c = PlaceOf(r, prompt, k + 1, c)
       /\ k + 1 = Weights(r)[prompt] /\ prompt < N => PlaceOf(r, prompt, k, c) + c = PlaceOf(r, prompt + 1, 0, c)
       /\ k + 1 = Weights(r)[prompt] /\ prompt = N => PlaceOf(r, prompt, k, c) + c = PlanSize(r) * c
       /\ Weights(r)[prompt] \in Positive /\ k \in Nat
  BY <1>2, <1>4, <1>6, PlacesAre
<1>11. Compiler!IsLast(p, digits) <=> k + 1 = Weights(r)[prompt]
  <2> DEFINE W == Product(AxisSizes(r, p))
  <2>1. Weights(r)[prompt] = W
    BY <1>4, CompilerSums DEF Weights
  <2> HIDE DEF W
  <2>2. W = Product(AxisSizes(r, p)) /\ k \in 0 .. (W - 1)
    BY <1>6, <2>1 DEF W
  <2>3. QED
    BY <1>2, <1>3, <1>4, <1>6, <2>1, <2>2, LastConfiguration
<1>12. ~Compiler!IsLast(p, digits) => Compiler!NextDigits(p, digits) = ConfigurationAt(r, p, k + 1) /\ k + 1 < Weights(r)[prompt]
  <2> SUFFICES ASSUME ~Compiler!IsLast(p, digits)
               PROVE  Compiler!NextDigits(p, digits) = ConfigurationAt(r, p, k + 1) /\ k + 1 < Weights(r)[prompt]
    OBVIOUS
  <2> DEFINE W == Product(AxisSizes(r, p))
  <2>1. Weights(r)[prompt] = W
    BY <1>4, CompilerSums DEF Weights
  <2>2. k + 1 < Weights(r)[prompt]
    BY <1>6, <1>10, <1>11 DEF Positive
  <2> HIDE DEF W
  <2>3. W = Product(AxisSizes(r, p)) /\ k + 1 < W
    BY <2>1, <2>2 DEF W
  <2>4. QED
    BY <1>2, <1>3, <1>4, <1>6, <1>10, <2>2, <2>3, NextConfiguration
<1>13. AgreesUpTo(jobs', P)
  <2>1. Len(P) = PlanSize(r) * c
    BY <1>2, PlanIs DEF IsPlan, P
  <2>2. Len(jobs') <= Len(P)
    BY <1>6, <1>9, <1>10, <2>1
  <2>3. \A i \in 1 .. Len(jobs') : jobs'[i] = P[i]
    <3> SUFFICES ASSUME NEW i \in 1 .. Len(jobs') PROVE jobs'[i] = P[i]
      OBVIOUS
    <3>1. CASE i \in 1 .. Len(jobs)
      BY <1>3, <1>9, <3>1 DEF AgreesUpTo
    <3>2. ASSUME NEW m \in 1 .. c, i = Len(jobs) + m PROVE jobs'[i] = P[i]
      BY <1>8, <1>9, <3>2
    <3>3. QED
      BY <1>9, <3>1, <3>2
  <2>4. QED
    BY <2>2, <2>3 DEF AgreesUpTo
<1>14. \A i \in 1 .. Len(jobs') : IsResolved(jobs'[i])
  <2>1. \A i \in 1 .. c : IsResolved(new[i])
    BY <1>7, <1>8 DEF IsResolved
  <2>2. QED
    BY <1>3, <1>9, <2>1
<1>15. stage = "validate" => total' = Len(stored') /\ \A i \in 1 .. Len(jobs') : jobs'[i] = stored'[i]
  <2> SUFFICES ASSUME stage = "validate", NEW i \in 1 .. Len(jobs') PROVE total' = Len(stored') /\ jobs'[i] = stored'[i]
    BY <1>3, <1>7
  <2>1. total' = Len(stored') /\ stored' = stored
    BY <1>3, <1>7
  <2>2. CASE i \in 1 .. Len(jobs)
    BY <1>3, <1>9, <2>1, <2>2
  <2>3. ASSUME NEW m \in 1 .. c, i = Len(jobs) + m PROVE jobs'[i] = stored[i]
    <3>1. new[m] = stored[Len(jobs) + m]
      BY <1>7, <1>8
    <3>2. QED
      BY <1>9, <2>3, <3>1
  <2>4. QED
    BY <1>9, <2>1, <2>2, <2>3
<1>16. seeds.mode = "random" => position' = Len(jobs')
  BY <1>3, <1>7, <1>9 DEF Compiler!PositionAfter, Compiler!SeedCount, SeedsPer
<1>17. CASE ~Compiler!IsLast(p, digits)
  <2>1. prompt' = prompt /\ digits' = ConfigurationAt(r, p, k + 1) /\ k + 1 < Weights(r)[prompt]
    BY <1>7, <1>12, <1>17
  <2>2. IsAt(r, prompt, k + 1, c, digits', Len(jobs'))
    BY <1>6, <1>9, <1>10, <2>1 DEF IsAt, Positive
  <2>3. QED
    BY <1>1, <1>3, <1>4, <1>7, <1>13, <1>14, <1>15, <1>16, <2>1, <2>2 DEF ExpansionIsPartial, P
<1>18. CASE Compiler!IsLast(p, digits) /\ prompt < N
  <2>1. prompt' = prompt + 1 /\ digits' = Compiler!FirstDigits(r.prompts[prompt + 1]) /\ prompt + 1 \in 1 .. N
    BY <1>4, <1>7, <1>18
  <2>2. r.prompts[prompt + 1] \in Compiler!Range(r.prompts)
    BY <1>4, <2>1 DEF Compiler!Range
  <2>3. digits' = ConfigurationAt(r, r.prompts[prompt + 1], 0)
    BY <1>2, <1>3, <2>1, <2>2, FirstConfiguration
  <2>4. 0 \in 0 .. (Weights(r)[prompt + 1] - 1)
    <3>1. Weights(r) \in Seq(Positive) /\ Len(Weights(r)) = N
      BY <1>2, WeightsArePositive
    <3>2. Weights(r)[prompt + 1] \in Positive
      BY <2>1, <3>1
    <3>3. QED
      BY <3>2 DEF Positive
  <2>5. IsAt(r, prompt + 1, 0, c, digits', Len(jobs'))
    BY <1>6, <1>9, <1>10, <1>11, <1>18, <2>3, <2>4 DEF IsAt
  <2>6. prompt' \in 1 .. (N + 1) /\ prompt' <= N
    BY <1>4, <2>1
  <2>7. QED
    BY <1>3, <1>7, <1>13, <1>14, <1>15, <1>16, <2>1, <2>5, <2>6 DEF ExpansionIsPartial, P
<1>19. CASE Compiler!IsLast(p, digits) /\ prompt = N
  <2>1. prompt' = N + 1 /\ prompt' \in 1 .. (N + 1) /\ prompt' > N
    BY <1>4, <1>7, <1>19
  <2>2. Len(jobs') = PlanSize(r) * c
    BY <1>6, <1>9, <1>10, <1>11, <1>19
  <2>3. QED
    BY <1>3, <1>4, <1>7, <1>13, <1>14, <1>15, <1>16, <2>1, <2>2 DEF ExpansionIsPartial, P
<1>20. QED
  BY <1>4, <1>17, <1>18, <1>19
-----------------------------------------------------------------------------
(* Every key of a list keeps its place among the first occurrences. *)
LEMMA PlacesHaveRanks ==
  ASSUME NEW S \in SUBSET Int, IsFiniteSet(S), NEW i \in S
  PROVE  \E n \in 1 .. Cardinality(S) : Compiler!Nth(S, n) = i
<1> DEFINE rank(m) == Cardinality({j \in S : j <= m})
<1>1. \A m \in S : rank(m) \in 1 .. Cardinality(S)
  BY RankOfMember
<1>2. \A m, n \in S : m < n => rank(m) < rank(n)
  BY RankOfMember
<1>3. Cardinality(S) \in Nat
  BY FS_CardinalityType
<1> HIDE DEF rank
<1>4. \A m \in S : rank(m) = rank(i) => m = i
  <2> SUFFICES ASSUME NEW m \in S, rank(m) = rank(i), m # i PROVE FALSE
    OBVIOUS
  <2>1. m < i \/ i < m
    OBVIOUS
  <2>2. QED
    BY <1>1, <1>2, <1>3, <2>1
<1>5. Compiler!Nth(S, rank(i)) = CHOOSE m \in S : rank(m) = rank(i)
  BY CompilerNames DEF Compiler!Nth, rank
<1>6. Compiler!Nth(S, rank(i)) = i
  BY <1>4, <1>5
<1>7. QED
  BY <1>1, <1>6

LEMMA EveryValueOccursFirst ==
  ASSUME NEW s, Compiler!IsList(s), NEW k \in DOMAIN s
  PROVE  \E i \in Compiler!FirstPlaces(s) : s[i] = s[k]
<1>1. DOMAIN s = 1 .. Len(s) /\ Len(s) \in Nat
  BY CompilerLists
<1> SUFFICES ASSUME \A i \in Compiler!FirstPlaces(s) : s[i] # s[k] PROVE FALSE
  OBVIOUS
<1> DEFINE T == {n \in Nat : \A j \in 1 .. n : j \in DOMAIN s => s[j] # s[k]}
<1>2. 0 \in T
  OBVIOUS
<1>3. ASSUME NEW n \in 0 .. Len(s), n \in T, n < Len(s) PROVE n + 1 \in T
  <2>1. n + 1 \in DOMAIN s /\ n \in Nat
    BY <1>1, <1>3
  <2>2. s[n + 1] # s[k]
    <3> SUFFICES ASSUME s[n + 1] = s[k] PROVE FALSE
      OBVIOUS
    <3>1. \A j \in 1 .. ((n + 1) - 1) : s[j] # s[n + 1]
      BY <1>1, <1>3
    <3>2. n + 1 \in Compiler!FirstPlaces(s)
      BY <2>1, <3>1 DEF Compiler!FirstPlaces
    <3>3. QED
      BY <3>2
  <2>3. \A j \in 1 .. (n + 1) : j \in 1 .. n \/ j = n + 1
    BY <2>1
  <2>4. \A j \in 1 .. n : j \in DOMAIN s => s[j] # s[k]
    BY <1>3
  <2>5. QED
    BY <2>1, <2>2, <2>3, <2>4
<1> HIDE DEF T
<1>4. 0 .. Len(s) \subseteq T
  BY <1>1, <1>2, <1>3, UpToBound
<1>5. Len(s) \in T
  BY <1>1, <1>4
<1>6. QED
  BY <1>1, <1>5 DEF T

LEMMA EveryValueIsListed ==
  ASSUME NEW s, Compiler!IsList(s), NEW k \in DOMAIN s
  PROVE  \E n \in DOMAIN Compiler!FirstOccurrences(s) : Compiler!FirstOccurrences(s)[n] = s[k]
<1> DEFINE F == Compiler!FirstPlaces(s)
<1>1. PICK i \in F : s[i] = s[k]
  BY EveryValueOccursFirst
<1>2. DOMAIN s = 1 .. Len(s) /\ Len(s) \in Nat
  BY CompilerLists
<1>3. F \in SUBSET (1 .. Len(s)) /\ F \in SUBSET Int
  BY <1>2 DEF Compiler!FirstPlaces
<1>4. IsFiniteSet(1 .. Len(s))
  <2>1. 1 \in Int /\ Len(s) \in Int
    BY <1>2
  <2>2. QED
    BY <2>1, FS_Interval
<1> HIDE DEF F
<1>5. IsFiniteSet(F)
  BY <1>3, <1>4, FS_Subset
<1>6. PICK n \in 1 .. Cardinality(F) : Compiler!Nth(F, n) = i
  BY <1>1, <1>3, <1>5, PlacesHaveRanks
<1>7. Compiler!FirstOccurrences(s) = [m \in 1 .. Cardinality(F) |-> s[Compiler!Nth(F, m)]]
  BY CompilerNames DEF Compiler!FirstOccurrences, Compiler!ElementsAt, F
<1>8. QED
  BY <1>1, <1>6, <1>7

-----------------------------------------------------------------------------
(* Every intent is a dimension of every prompt version. *)
\* The dimension of an intent.
IsDimensionOf(r, n, i) ==
    /\ n \in DOMAIN ParameterNames(r)
    /\ ParameterNames(r)[n].key = r.intents[i].key
    /\ ParameterSizes(r)[n] = Compiler!IntentCount(r.intents[i])

LEMMA IntentsAreDimensions ==
  ASSUME Compiler!IsRequest(request), Sound, NEW i \in DOMAIN request.intents
  PROVE  \E n : IsDimensionOf(request, n, i)
<1> DEFINE r == request
           x == r.intents[i]
           s == [j \in DOMAIN r.parameters |-> NameOf(r, r.parameters[j].key)]
<1>1. /\ Compiler!IsList(r.parameters) /\ Compiler!IsList(r.intents)
      /\ Compiler!IntentsAreValid /\ Compiler!ParametersAreCovered
  BY DEF Compiler!IsRequest, Sound
<1>2. DOMAIN r.parameters = 1 .. Len(r.parameters) /\ Len(r.parameters) \in Nat
  BY <1>1, CompilerLists
<1>3. x.key \in Compiler!Independent
  BY DEF Compiler!Independent, Compiler!KeySet
<1>4. PICK j \in DOMAIN r.parameters : r.parameters[j].key = x.key
  BY <1>1, <1>3 DEF Compiler!ParametersAreCovered, Compiler!KeySet
<1>5. Compiler!LinkedSetOf(x.key) = {}
  <2>1. r.parameters[j] \in Compiler!Range(r.parameters)
    BY DEF Compiler!Range
  <2>2. \A p \in Compiler!Range(r.parameters) : p.key \in Compiler!Independent <=> Compiler!LinkedSetOf(p.key) = {}
    BY <1>1 DEF Compiler!ParametersAreCovered
  <2>3. QED
    BY <1>3, <1>4, <2>1, <2>2
<1>6. NameOf(r, x.key) = [kind |-> "parameter", key |-> x.key]
  BY <1>5 DEF NameOf, Compiler!LinkedSetOf
<1>7. Compiler!IsList(s) /\ DOMAIN s = DOMAIN r.parameters
  <2>1. DOMAIN s = DOMAIN r.parameters /\ s = [k \in 1 .. Len(r.parameters) |-> s[k]]
    BY <1>2
  <2> HIDE DEF s
  <2>2. QED
    BY <1>2, <2>1, ListsAreSequences
<1>8. s[j] = [kind |-> "parameter", key |-> x.key]
  BY <1>4, <1>6
<1>9. PICK n \in DOMAIN Compiler!FirstOccurrences(s) : Compiler!FirstOccurrences(s)[n] = s[j]
  <2> HIDE DEF s
  <2>1. QED
    BY <1>4, <1>7, EveryValueIsListed
<1>10. n \in DOMAIN ParameterNames(r) /\ ParameterNames(r)[n] = [kind |-> "parameter", key |-> x.key]
  BY <1>8, <1>9 DEF ParameterNames
<1>11. Compiler!Keyed(r.intents, x.key) = x
  <2>1. x \in Compiler!Range(r.intents)
    BY DEF Compiler!Range
  <2>2. Compiler!Keyed(r.intents, x.key) \in Compiler!Range(r.intents) /\ Compiler!Keyed(r.intents, x.key).key = x.key
    BY <2>1, FoundByKey
  <2>3. PICK k \in DOMAIN r.intents : r.intents[k] = Compiler!Keyed(r.intents, x.key)
    BY <1>1, <2>2, CompilerLists
  <2>4. \A a, b \in DOMAIN r.intents : r.intents[a].key = r.intents[b].key => a = b
    BY <1>1 DEF Compiler!IntentsAreValid, Compiler!KeysAreUnique, Compiler!KeySet
  <2>5. k = i
    BY <2>2, <2>3, <2>4
  <2>6. QED
    BY <2>3, <2>5
<1>12. ParameterSizes(r)[n] = Compiler!IntentCount(x)
  <2>1. ParameterSizes(r)[n] = ParameterSize(r, ParameterNames(r)[n])
    BY <1>10 DEF ParameterSizes
  <2>2. QED
    BY <1>10, <1>11, <2>1 DEF ParameterSize
<1>13. QED
  BY <1>10, <1>12 DEF IsDimensionOf

LEMMA CombinationsAreFew ==
  ASSUME Compiler!IsRequest(request), Sound, IsCountable(request), NEW c \in Positive,
         NEW ms, ms = [i \in DOMAIN request.intents |-> Compiler!IntentCount(request.intents[i])]
  PROVE  Compiler!Product(ms) <= PlanSize(request) * c
<1> DEFINE r == request
           p == r.prompts[1]
           ns == AxisSizes(r, p)
           before == Len(VariableSizes(r, p)) + Len(ImageSizes(r))
           at(i) == CHOOSE n : IsDimensionOf(r, n, i)
           g == [i \in 1 .. Len(ms) |-> before + at(i)]
<1>1. /\ Compiler!IsList(r.intents) /\ Compiler!IntentsAreValid
      /\ DOMAIN r.intents = 1 .. Len(r.intents) /\ Len(r.intents) \in Nat
  BY CompilerLists DEF Compiler!IsRequest, Sound
<1>2. /\ 1 \in DOMAIN r.prompts /\ p \in Compiler!Range(r.prompts) /\ ns \in Seq(Positive)
      /\ Weights(r)[1] = Compiler!Product(ns) /\ Weights(r) \in Seq(Nat) /\ Len(Weights(r)) = Len(r.prompts)
      /\ DOMAIN r.prompts = 1 .. Len(r.prompts) /\ Len(r.prompts) \in Positive
  BY WeightsArePositive DEF Positive
<1>3. /\ VariableSizes(r, p) \in Seq(Positive) /\ ImageSizes(r) \in Seq(Positive) /\ ParameterSizes(r) \in Seq(Positive)
  BY <1>2 DEF IsCountable
<1>4. AreJoined(ns, VariableSizes(r, p), ImageSizes(r), ParameterSizes(r))
  BY <1>3, SequencesAreLists, JoinedParts DEF AxisSizes
<1>5. before \in Nat /\ Len(ParameterSizes(r)) \in Nat
  BY <1>3
<1>6. /\ Len(ns) = before + Len(ParameterSizes(r))
      /\ \A n \in 1 .. Len(ParameterSizes(r)) : ns[before + n] = ParameterSizes(r)[n]
  BY <1>4 DEF AreJoined
<1>7. DOMAIN ParameterNames(r) = 1 .. Len(ParameterSizes(r))
  BY <1>3 DEF ParameterSizes
<1> HIDE DEF p, ns, before
<1>8. ms \in Seq(Positive) /\ Len(ms) = Len(r.intents) /\ DOMAIN ms = 1 .. Len(ms)
  <2>1. \A i \in 1 .. Len(r.intents) : r.intents[i] \in Compiler!Range(r.intents)
    BY <1>1 DEF Compiler!Range
  <2>2. \A i \in 1 .. Len(r.intents) : Compiler!IntentCount(r.intents[i]) \in Positive
    BY <1>1, <2>1, IntentsAreCounted
  <2>3. ms \in [1 .. Len(r.intents) -> Positive]
    BY <1>1, <2>2
  <2>4. QED
    BY <1>1, <2>3, FunctionIsList
<1>9. \A i \in 1 .. Len(ms) : IsDimensionOf(r, at(i), i)
  BY <1>1, <1>8, IntentsAreDimensions
<1> HIDE DEF at
<1>10. \A i \in 1 .. Len(ms) : at(i) \in 1 .. Len(ParameterSizes(r)) /\ ParameterSizes(r)[at(i)] = ms[i]
  BY <1>1, <1>7, <1>8, <1>9 DEF IsDimensionOf
<1>11. g \in [1 .. Len(ms) -> 1 .. Len(ns)]
  <2>1. \A n \in 1 .. Len(ParameterSizes(r)) : before + n \in 1 .. Len(ns)
    BY <1>5, <1>6
  <2>2. \A i \in 1 .. Len(ms) : at(i) \in 1 .. Len(ParameterSizes(r))
    BY <1>10
  <2>3. \A i \in 1 .. Len(ms) : before + at(i) \in 1 .. Len(ns)
    BY <2>1, <2>2
  <2>4. QED
    BY <2>3
<1>12. \A i, j \in 1 .. Len(ms) : g[i] = g[j] => i = j
  <2> SUFFICES ASSUME NEW i \in 1 .. Len(ms), NEW j \in 1 .. Len(ms), g[i] = g[j] PROVE i = j
    OBVIOUS
  <2>1. at(i) = at(j)
    BY <1>5, <1>10, SMTT(20)
  <2>2. r.intents[i].key = r.intents[j].key
    BY <1>9, <2>1 DEF IsDimensionOf
  <2>3. \A a, b \in DOMAIN r.intents : r.intents[a].key = r.intents[b].key => a = b
    BY <1>1 DEF Compiler!IntentsAreValid, Compiler!KeysAreUnique, Compiler!KeySet
  <2>4. QED
    BY <1>1, <1>8, <2>2, <2>3
<1>13. \A i \in 1 .. Len(ms) : ms[i] = ns[g[i]]
  BY <1>6, <1>10
<1>14. PicksFactors(ms, ns, g)
  BY <1>2, <1>8, <1>11, <1>12, <1>13 DEF PicksFactors, Positive
<1> HIDE DEF g
<1>15. Compiler!Product(ms) <= Weights(r)[1]
  BY <1>2, <1>14, ProductOfPicked, CompilerSums
<1>16. Weights(r)[1] <= PlanSize(r) /\ Weights(r)[1] \in Nat /\ PlanSize(r) \in Nat
  <2> DEFINE w == Weights(r)
  <2>1. w \in Seq(Nat) /\ 1 \in 1 .. Len(w) /\ w[1] \in Nat /\ Len(w) \in Nat
    BY <1>2
  <2>2. IsSum(Sums(w), w)
    BY <2>1, CompilerSumsAre
  <2>3. Sums(w)[1] = Sums(w)[0] + w[1] /\ Sums(w)[0] = 0
    BY <2>1, <2>2 DEF IsSum
  <2>4. 1 \in 0 .. Len(w)
    BY <2>1
  <2>5. Sums(w)[1] <= Compiler!Total(w) /\ Compiler!Total(w) \in Nat
    BY <2>1, <2>4, SumsAreNaturals
  <2>6. QED
    BY <2>1, <2>3, <2>5 DEF PlanSize
<1>17. PlanSize(r) <= PlanSize(r) * c /\ PlanSize(r) * c \in Nat
  <2>1. \A a \in Nat, b \in Nat \ {0} : a <= a * b /\ a * b \in Nat
    OBVIOUS
  <2>2. QED
    BY <1>16, <2>1 DEF Positive
<1>18. Compiler!Product(ms) \in Nat
  BY <1>8, ProductsArePositive DEF Positive
<1>19. QED
  BY <1>15, <1>16, <1>17, <1>18

\* The stored plan of a Batch that has as many Jobs is not refused for its combinations.
LEMMA CombinationsFitPlan ==
  ASSUME Compiler!IsRequest(request), Sound, IsCountable(request), SeedsPer(seeds) \in Positive,
         Len(stored) = PlanSize(request) * SeedsPer(seeds)
  PROVE  Compiler!CombinationsFit
BY CombinationsAreFew DEF Compiler!CombinationsFit

-----------------------------------------------------------------------------
(* Every step keeps what is known of the plan. *)
LEMMA PlanIsInhabited ==
  ASSUME NEW r, Compiler!IsRequest(r), IsCountable(r), NEW c \in Positive
  PROVE  PlanSize(r) * c \in Positive
<1>1. 1 \in 1 .. Len(r.prompts) /\ 0 \in 0 .. (Weights(r)[1] - 1)
  BY PlanStarts
<1>2. PlaceOf(r, 1, 0, c) \in Nat /\ PlanSize(r) * c \in Nat /\ PlaceOf(r, 1, 0, c) + c <= PlanSize(r) * c
  BY <1>1, PlacesAre
<1> DEFINE size == PlanSize(r) * c
<1> HIDE DEF size
<1>3. size \in Nat /\ PlaceOf(r, 1, 0, c) + c <= size
  BY <1>2 DEF size
<1>4. size \in Positive
  BY <1>2, <1>3 DEF Positive
<1>5. QED
  BY <1>4 DEF size

LEMMA PlanBegins == Compiler!Init => PlanInvariant
<1> SUFFICES ASSUME Compiler!Init PROVE PlanInvariant
  OBVIOUS
<1>1. /\ stage = "preflight" /\ work = "check" /\ stored = <<>>
      /\ seeds = Compiler!TheSeeds(request)
  BY DEF Compiler!Init
<1>2. ~Needs(request) => seeds = request.seeds
  BY <1>1 DEF Compiler!TheSeeds, Needs
<1>3. QED
  BY <1>1, <1>2 DEF PlanInvariant, SeedsAreKnown, RequestIsChecked, PreviewIsKept, TextsAreResolved,
     ExpansionIsPartial, StoredIsJudged

LEMMA PlanStutters ==
  ASSUME PlanInvariant, UNCHANGED Compiler!vars
  PROVE  PlanInvariant'
<1>1. /\ limits' = limits /\ request' = request /\ stage' = stage /\ seeds' = seeds /\ stored' = stored
      /\ work' = work /\ prompt' = prompt /\ total' = total /\ position' = position /\ digits' = digits
      /\ jobs' = jobs /\ outcome' = outcome
  BY DEF Compiler!vars
<1>2. /\ Sound <=> Sound'
      /\ BindingsHold("preflight") <=> BindingsHold("preflight")'
      /\ BindingsHold("compile") <=> BindingsHold("compile")'
      /\ Compiler!AreMaterial <=> Compiler!AreMaterial'
  BY <1>1, UnchangedIsKept
<1>3. Compiler!SeedsAreValid <=> Compiler!SeedsAreValid'
  BY <1>1, SeedsAreKept
<1>4. SeedsAreKnown'
  BY <1>1, <1>3 DEF PlanInvariant, SeedsAreKnown
<1>5. RequestIsChecked'
  BY <1>1, <1>2 DEF PlanInvariant, RequestIsChecked
<1>6. PreviewIsKept'
  BY <1>1, <1>3 DEF PlanInvariant, PreviewIsKept
<1>7. TextsAreResolved' /\ ExpansionIsPartial' /\ StoredIsJudged'
  BY <1>1 DEF PlanInvariant, TextsAreResolved, ExpansionIsPartial, StoredIsJudged
<1>8. QED
  BY <1>4, <1>5, <1>6, <1>7 DEF PlanInvariant

\* What a stored plan is accepted for.
IsTrue ==
    /\ Len(stored) = PlanSize(request) * SeedsPer(seeds) /\ stored = PlanOf(request, seeds)
    /\ Compiler!Range(seeds.values) \subseteq 0 .. CompilerMaxSeed

LEMMA RefusalsKeepPlan ==
  ASSUME PlanInvariant, NEW reason, reason # "accepted", Compiler!Refuse(reason),
         stage # "validate" => stored = <<>>, stage = "validate" => ~IsTrue
  PROVE  PlanInvariant'
<1>1. /\ limits' = limits /\ request' = request /\ stage' = stage /\ seeds' = seeds /\ stored' = stored
      /\ work' = "end" /\ outcome' = reason
  BY DEF Compiler!Refuse, Compiler!given
<1>2. /\ Sound <=> Sound'
      /\ BindingsHold("preflight") <=> BindingsHold("preflight")'
      /\ BindingsHold("compile") <=> BindingsHold("compile")'
      /\ Compiler!AreMaterial <=> Compiler!AreMaterial'
  BY <1>1, UnchangedIsKept
<1>3. Compiler!SeedsAreValid <=> Compiler!SeedsAreValid'
  BY <1>1, SeedsAreKept
<1>4. SeedsAreKnown'
  BY <1>1, <1>3 DEF PlanInvariant, SeedsAreKnown
<1>5. RequestIsChecked'
  BY <1>1, <1>2 DEF PlanInvariant, RequestIsChecked
<1>6. PreviewIsKept' /\ ExpansionIsPartial'
  BY <1>1 DEF PreviewIsKept, ExpansionIsPartial
<1>7. TextsAreResolved'
  BY <1>1 DEF PlanInvariant, TextsAreResolved
<1>8. StoredIsJudged'
  BY <1>1 DEF StoredIsJudged, IsTrue
<1>9. QED
  BY <1>4, <1>5, <1>6, <1>7, <1>8 DEF PlanInvariant

LEMMA CountingKeepsPlan ==
  ASSUME PlanInvariant, UNCHANGED <<limits, request, stage, seeds, stored, outcome>>, work' \in {"axis", "text"},
         Sound, Compiler!SeedsAreValid,
         stage = "preflight" => BindingsHold("preflight"), stage # "preflight" => BindingsHold("compile")
  PROVE  PlanInvariant'
<1>2. /\ Sound <=> Sound'
      /\ BindingsHold("preflight") <=> BindingsHold("preflight")'
      /\ BindingsHold("compile") <=> BindingsHold("compile")'
      /\ Compiler!AreMaterial <=> Compiler!AreMaterial'
  BY UnchangedIsKept
<1>3. Compiler!SeedsAreValid <=> Compiler!SeedsAreValid'
  BY SeedsAreKept
<1>4. SeedsAreKnown'
  BY <1>3 DEF PlanInvariant, SeedsAreKnown
<1>5. RequestIsChecked'
  BY <1>2 DEF PlanInvariant, RequestIsChecked
<1>6. PreviewIsKept'
  BY <1>3 DEF PlanInvariant, PreviewIsKept
<1>7. TextsAreResolved' /\ ExpansionIsPartial' /\ StoredIsJudged'
  BY DEF PlanInvariant, TextsAreResolved, ExpansionIsPartial, StoredIsJudged
<1>8. QED
  BY <1>4, <1>5, <1>6, <1>7 DEF PlanInvariant

\* What is known of a preview that the client has sent back.
LEMMA PreviewIsKnown ==
  ASSUME PlanInvariant, stage # "validate", stored # <<>>
  PROVE  /\ stage \in {"preflight", "compile"} /\ ~Needs(request) /\ Reps(request) = 1
         /\ seeds.mode = "random" /\ Compiler!SeedsAreValid
         /\ Len(seeds.values) = PlanSize(request) * SeedsPer(seeds)
         /\ PlanSize(request) * SeedsPer(seeds) <= limits.jobs
         /\ TextPerSeed(request) * SeedsPer(seeds) <= limits.text /\ ~HasLargePrompt(request)
         /\ Sound /\ BindingsHold("preflight") /\ BindingsHold("compile") /\ Compiler!AreMaterial /\ NoHoles(request)
<1>1. PreviewIsKept /\ RequestIsChecked /\ TextsAreResolved
  BY DEF PlanInvariant
<1>2. Reps(request) = 1
  BY <1>1 DEF PreviewIsKept, Reps
<1>3. QED
  BY <1>1, <1>2 DEF PreviewIsKept, RequestIsChecked, TextsAreResolved

LEMMA CheckKeepsPlan ==
  ASSUME CompilerInvariant, PlanInvariant, Compiler!Check
  PROVE  PlanInvariant'
<1> USE DEF Compiler!given, Compiler!counters, Compiler!expansion
<1>1. /\ Compiler!IsRequest(request) /\ Compiler!IsSeedInput(seeds) /\ stage \in CompilerStages
  BY DEF CompilerInvariant, CompilerShape
<1>2. Compiler!IntentsAreValid /\ Compiler!IsValid <=>
        /\ Sound /\ Compiler!SeedsAreValid
        /\ stage = "preflight" => BindingsHold("preflight")
        /\ stage # "preflight" => BindingsHold("compile")
  BY <1>1, ChecksAre
<1>3. CASE Compiler!IntentsAreValid /\ Compiler!CombinationsFit /\ Compiler!IsValid
  <2>1. UNCHANGED <<limits, request, stage, seeds, stored, outcome>> /\ work' = "axis"
    BY <1>3 DEF Compiler!Check
  <2>2. QED
    BY <1>2, <1>3, <2>1, CountingKeepsPlan
<1>4. CASE ~(Compiler!IntentsAreValid /\ Compiler!CombinationsFit /\ Compiler!IsValid)
  <2>1. Compiler!Refuse("invalid")
    BY <1>4 DEF Compiler!Check
  <2>2. ASSUME stage # "validate", stored # <<>> PROVE FALSE
    <3>1. Compiler!IntentsAreValid /\ Compiler!IsValid
      BY <1>2, <2>2, PreviewIsKnown
    <3>2. Compiler!CombinationsFit
      BY <2>2 DEF Compiler!CombinationsFit
    <3>3. QED
      BY <1>4, <3>1, <3>2
  <2>3. ASSUME stage = "validate", IsTrue PROVE FALSE
    <3>1. Sound /\ BindingsHold("compile")
      BY <2>3 DEF PlanInvariant, RequestIsChecked
    <3>2. /\ IsCountable(request) /\ SeedsPer(seeds) \in Positive
          /\ seeds.mode = "random" => Len(seeds.values) = Len(stored)
          /\ seeds.mode # "random" => Compiler!SeedsAreValid
      BY <2>3 DEF PlanInvariant, SeedsAreKnown
    <3>3. /\ Len(stored) = PlanSize(request) * SeedsPer(seeds)
          /\ Compiler!Range(seeds.values) \subseteq 0 .. CompilerMaxSeed
      BY <2>3 DEF IsTrue
    <3>4. Compiler!CombinationsFit
      BY <1>1, <3>1, <3>2, <3>3, CombinationsFitPlan
    <3>5. Len(stored) \in Positive
      BY <1>1, <3>2, <3>3, PlanIsInhabited
    <3>6. CASE seeds.mode = "random"
      <4>1. Len(seeds.values) # 0
        BY <3>2, <3>5, <3>6 DEF Positive
      <4>2. seeds.values # <<>>
        BY <4>1
      <4>3. seeds.count \in Nat /\ seeds.count >= 1
        BY <3>2, <3>6 DEF SeedsPer, Positive
      <4>4. Compiler!SeedsAreValid
        BY <3>3, <3>6, <4>2, <4>3 DEF Compiler!SeedsAreValid
      <4>5. QED
        BY <1>2, <1>4, <2>3, <3>1, <3>4, <4>4
    <3>7. CASE seeds.mode # "random"
      BY <1>2, <1>4, <2>3, <3>1, <3>2, <3>4, <3>7
    <3>8. QED
      BY <3>6, <3>7
  <2>4. QED
    BY <2>1, <2>2, <2>3, RefusalsKeepPlan
<1>5. QED
  BY <1>3, <1>4

\* Neither a preview nor an exact plan has too many Jobs.
LEMMA TooManyKeepsPlan ==
  ASSUME CompilerInvariant, CompilerInvariant', PlanInvariant, work = "axis", Compiler!Refuse("tooMany")
  PROVE  PlanInvariant'
<1> DEFINE size == PlanSize(request) * SeedsPer(seeds)
<1>1. /\ UNCHANGED <<limits, request, stage, seeds, stored>> /\ outcome' = "tooMany"
  BY DEF Compiler!Refuse, Compiler!given
<1>2. size > Room(limits, request, stage, Len(stored))
  BY <1>1 DEF CompilerInvariant, CountIsWhole
<1>3. limits.jobs \in Nat
  BY RoomIs DEF CompilerInvariant
<1>4. /\ Compiler!IsRequest(request) /\ IsCountable(request) /\ SeedsPer(seeds) \in Positive /\ Compiler!IsList(stored)
  BY DEF CompilerInvariant, CompilerShape, StagesAreCountable
<1>5. size \in Nat /\ Len(stored) \in Nat
  BY <1>4, PlanIsInhabited, CompilerLists DEF Positive
<1>6. ASSUME stage # "validate", stored # <<>> PROVE FALSE
  <2>1. stage \in {"preflight", "compile"} /\ Reps(request) = 1 /\ size <= limits.jobs
    BY <1>6, PreviewIsKnown
  <2>2. Room(limits, request, stage, Len(stored)) = limits.jobs
    BY <1>3, <2>1, OneIsNeutral DEF Room
  <2> HIDE DEF size
  <2>3. QED
    BY <1>2, <1>3, <1>5, <2>1, <2>2
<1>7. ASSUME stage = "validate", IsTrue PROVE FALSE
  <2>1. Room(limits, request, stage, Len(stored)) = Len(stored) /\ Len(stored) = size
    BY <1>7 DEF Room, IsTrue
  <2> HIDE DEF size
  <2>2. QED
    BY <1>2, <1>5, <2>1
<1>8. QED
  BY <1>6, <1>7, RefusalsKeepPlan

LEMMA CountingIsChecked ==
  ASSUME PlanInvariant, work \in {"axis", "text", "expand"}
  PROVE  /\ Sound /\ Compiler!SeedsAreValid
         /\ stage = "preflight" => BindingsHold("preflight")
         /\ stage # "preflight" => BindingsHold("compile")
BY DEF PlanInvariant, SeedsAreKnown, RequestIsChecked

LEMMA CountSeedsKeepsPlan ==
  ASSUME CompilerInvariant, CompilerInvariant', PlanInvariant, Compiler!CountSeeds
  PROVE  PlanInvariant'
<1>1. work = "axis"
  BY DEF Compiler!CountSeeds
<1>2. CASE Compiler!SeedCount > Compiler!JobLimit - total
  BY <1>1, <1>2, TooManyKeepsPlan DEF Compiler!CountSeeds
<1>3. CASE ~(Compiler!SeedCount > Compiler!JobLimit - total)
  <2>1. UNCHANGED <<limits, request, stage, seeds, stored, outcome>> /\ work' = "axis"
    BY <1>1, <1>3 DEF Compiler!CountSeeds, Compiler!given
  <2>2. QED
    BY <1>1, <2>1, CountingIsChecked, CountingKeepsPlan
<1>4. QED
  BY <1>2, <1>3

LEMMA CountAxisKeepsPlan ==
  ASSUME CompilerInvariant, CompilerInvariant', PlanInvariant, Compiler!CountAxis
  PROVE  PlanInvariant'
<1> DEFINE size == Compiler!SizeOf(Compiler!Axes(request.prompts[prompt])[axis])
<1>1. work = "axis"
  BY DEF Compiler!CountAxis
<1>2. CASE ~Compiler!Fits(size)
  BY <1>1, <1>2, TooManyKeepsPlan DEF Compiler!CountAxis
<1>3. CASE Compiler!Fits(size)
  <2>1. UNCHANGED <<limits, request, stage, seeds, stored, outcome>> /\ work' = "axis"
    BY <1>1, <1>3 DEF Compiler!CountAxis, Compiler!given
  <2>2. QED
    BY <1>1, <2>1, CountingIsChecked, CountingKeepsPlan
<1>4. QED
  BY <1>2, <1>3

LEMMA CountPromptKeepsPlan ==
  ASSUME PlanInvariant, Compiler!CountPrompt
  PROVE  PlanInvariant'
<1>1. work = "axis" /\ UNCHANGED <<limits, request, stage, seeds, stored, outcome>> /\ work' \in {"axis", "text"}
  BY DEF Compiler!CountPrompt, Compiler!given
<1>2. QED
  BY <1>1, CountingIsChecked, CountingKeepsPlan

\* The steps of a stage that has been counted.
LEMMA CallsKeepPlan ==
  ASSUME PlanInvariant, NEW next \in {"count", "compile"}, Compiler!Call(next), limits' = limits, request' = request, stored' = stored,
         seeds' = seeds,
         Sound, BindingsHold("preflight"), Compiler!AreMaterial,
         next = "count" => Needs(request) /\ stored = <<>>,
         next = "compile" /\ Needs(request) => seeds.mode = "random",
         stage # "validate"
  PROVE  PlanInvariant'
<1>1. stage' = next /\ work' = "check" /\ outcome' = outcome
  BY DEF Compiler!Call
<1>2. /\ Sound <=> Sound'
      /\ BindingsHold("preflight") <=> BindingsHold("preflight")'
      /\ BindingsHold("compile") <=> BindingsHold("compile")'
      /\ Compiler!AreMaterial <=> Compiler!AreMaterial'
  BY UnchangedIsKept
<1>3. Compiler!SeedsAreValid <=> Compiler!SeedsAreValid'
  BY SeedsAreKept
<1>4. SeedsAreKnown'
  BY <1>1, <1>3 DEF PlanInvariant, SeedsAreKnown
<1>5. RequestIsChecked'
  BY <1>1, <1>2 DEF PlanInvariant, RequestIsChecked
<1>6. PreviewIsKept'
  BY <1>1, <1>3, PreviewIsKnown DEF PlanInvariant, PreviewIsKept
<1>7. TextsAreResolved' /\ ExpansionIsPartial' /\ StoredIsJudged'
  BY <1>1 DEF PlanInvariant, TextsAreResolved, ExpansionIsPartial, StoredIsJudged
<1>8. QED
  BY <1>4, <1>5, <1>6, <1>7 DEF PlanInvariant

\* What Measure finds.
LEMMA MeasureRefusesLength ==
  ASSUME CompilerInvariant, PlanInvariant, work = "text", seeds.mode = "random", Len(seeds.values) # total,
         Compiler!Refuse("invalid")
  PROVE  PlanInvariant'
<1>1. total = PlanSize(request) * SeedsPer(seeds)
  BY DEF CompilerInvariant, CountIsWhole
<1>2. ASSUME stage # "validate", stored # <<>> PROVE FALSE
  BY <1>1, <1>2, PreviewIsKnown
<1>3. ASSUME stage = "validate", IsTrue PROVE FALSE
  BY <1>1, <1>3 DEF PlanInvariant, SeedsAreKnown, IsTrue
<1>4. QED
  BY <1>2, <1>3, RefusalsKeepPlan

LEMMA MeasureRefusesText ==
  ASSUME CompilerInvariant, PlanInvariant, work = "text", Compiler!IsTooLong, Compiler!Refuse("tooLong")
  PROVE  PlanInvariant'
<1>1. /\ CompilerShape /\ IsCountable(request) /\ SeedsPer(seeds) \in Positive
      /\ total = PlanSize(request) * SeedsPer(seeds) /\ limits.text \in Nat
  BY RoomIs DEF CompilerInvariant, CountIsWhole, StagesAreCountable
<1>2. stage # "validate"
  BY DEF Compiler!IsTooLong
<1>3. ASSUME stored # <<>> PROVE FALSE
  <2> DEFINE size == TextPerSeed(request) * SeedsPer(seeds)
  <2>1. Reps(request) = 1 /\ ~HasLargePrompt(request) /\ size <= limits.text
    BY <1>2, <1>3, PreviewIsKnown
  <2>2. \/ HasLargePrompt(request)
        \/ size > (IF stage = "compile" THEN limits.text ELSE limits.text \div Reps(request))
    BY <1>1, <1>2, TextIsJudged
  <2>3. limits.text \div Reps(request) = limits.text
    BY <1>1, <2>1, OneIsNeutral
  <2>4. size \in Nat
    <3>1. TextPerSeed(request) \in Nat /\ SeedsPer(seeds) \in Nat
      BY <1>1, TextIsNatural DEF CompilerShape, Positive
    <3>2. \A a, b \in Nat : a * b \in Nat
      OBVIOUS
    <3>3. QED
      BY <3>1, <3>2
  <2> HIDE DEF size
  <2>5. QED
    BY <1>1, <2>1, <2>2, <2>3, <2>4
<1>4. QED
  BY <1>2, <1>3, RefusalsKeepPlan

LEMMA MeasureRefusesValues ==
  ASSUME PlanInvariant, stage = "preflight", ~Compiler!AreMaterial, Compiler!Refuse("invalid")
  PROVE  PlanInvariant'
<1>1. stage # "validate" => stored = <<>>
  BY PreviewIsKnown
<1>2. QED
  BY <1>1, RefusalsKeepPlan

LEMMA MeasureRefusesCount ==
  ASSUME CompilerInvariant, PlanInvariant, work = "text", stage = "validate", total # Len(stored), Compiler!Refuse("mismatch")
  PROVE  PlanInvariant'
<1>1. total = PlanSize(request) * SeedsPer(seeds)
  BY DEF CompilerInvariant, CountIsWhole
<1>2. ~IsTrue
  BY <1>1 DEF IsTrue
<1>3. QED
  BY <1>2, RefusalsKeepPlan

LEMMA MeasureCalls ==
  ASSUME PlanInvariant, work = "text", stage = "preflight", Compiler!AreMaterial,
         Compiler!Call(IF Compiler!NeedsSeeds THEN "count" ELSE "compile"), UNCHANGED <<limits, request, seeds, stored>>
  PROVE  PlanInvariant'
<1>1. Compiler!NeedsSeeds <=> Needs(request)
  BY DEF Compiler!NeedsSeeds, Needs
<1>2. Sound /\ BindingsHold("preflight")
  BY CountingIsChecked
<1>3. Needs(request) => stored = <<>>
  BY PreviewIsKnown
<1>4. CASE Needs(request)
  BY <1>1, <1>2, <1>3, <1>4, CallsKeepPlan
<1>5. CASE ~Needs(request)
  BY <1>1, <1>2, <1>5, CallsKeepPlan
<1>6. QED
  BY <1>4, <1>5

LEMMA MeasureDraws ==
  ASSUME CompilerInvariant, PlanInvariant, work = "text", stage = "count", work' = "draw",
         UNCHANGED <<limits, request, stage, stored, outcome>>
  PROVE  PlanInvariant'
<1>1. Needs(request)
  BY DEF CompilerInvariant, StagesAgree
<1>2. /\ Sound <=> Sound'
      /\ BindingsHold("preflight") <=> BindingsHold("preflight")'
      /\ BindingsHold("compile") <=> BindingsHold("compile")'
      /\ Compiler!AreMaterial <=> Compiler!AreMaterial'
  BY UnchangedIsKept
<1>3. SeedsAreKnown'
  BY <1>1 DEF SeedsAreKnown
<1>4. RequestIsChecked'
  BY <1>2 DEF PlanInvariant, RequestIsChecked
<1>5. PreviewIsKept'
  BY PreviewIsKnown DEF PreviewIsKept
<1>6. TextsAreResolved' /\ ExpansionIsPartial' /\ StoredIsJudged'
  BY DEF PlanInvariant, TextsAreResolved, ExpansionIsPartial, StoredIsJudged
<1>7. QED
  BY <1>3, <1>4, <1>5, <1>6 DEF PlanInvariant

LEMMA MeasureExpands ==
  ASSUME CompilerInvariant, PlanInvariant, work = "text", Compiler!Expand, stage \in {"compile", "validate"},
         seeds.mode = "random" => Len(seeds.values) = total, stage = "validate" => total = Len(stored)
  PROVE  PlanInvariant'
<1> DEFINE r == request
           c == SeedsPer(seeds)
           P == PlanOf(r, seeds)
<1>1. /\ Compiler!IsRequest(r) /\ IsCountable(r) /\ c \in Positive
      /\ total = PlanSize(r) * c
  BY DEF CompilerInvariant, CompilerShape, CountIsWhole, StagesAreCountable
<1>2. /\ work' = "expand" /\ prompt' = 1 /\ digits' = Compiler!FirstDigits(r.prompts[1]) /\ position' = 0 /\ jobs' = <<>>
      /\ UNCHANGED <<limits, request, stage, seeds, stored, total, outcome>>
  BY DEF Compiler!Expand, Compiler!given
<1>3. /\ Sound <=> Sound'
      /\ BindingsHold("preflight") <=> BindingsHold("preflight")'
      /\ BindingsHold("compile") <=> BindingsHold("compile")'
      /\ Compiler!AreMaterial <=> Compiler!AreMaterial'
  BY <1>2, UnchangedIsKept
<1>4. Compiler!SeedsAreValid <=> Compiler!SeedsAreValid'
  BY <1>2, SeedsAreKept
<1>5. SeedsAreKnown'
  BY <1>2, <1>4 DEF PlanInvariant, SeedsAreKnown
<1>6. RequestIsChecked'
  BY <1>2, <1>3 DEF PlanInvariant, RequestIsChecked
<1>7. PreviewIsKept'
  BY <1>2, <1>4 DEF PlanInvariant, PreviewIsKept
<1>8. TextsAreResolved' /\ StoredIsJudged'
  BY <1>2 DEF PlanInvariant, TextsAreResolved, StoredIsJudged
<1>9. ExpansionIsPartial'
  <2>1. 1 \in 1 .. Len(r.prompts) /\ 0 \in 0 .. (Weights(r)[1] - 1) /\ PlaceOf(r, 1, 0, c) = 0
    BY <1>1, PlanStarts
  <2>2. DOMAIN r.prompts = 1 .. Len(r.prompts) /\ Len(r.prompts) \in Nat
    BY <1>1, CompilerLists DEF Compiler!IsRequest
  <2>3. r.prompts[1] \in Compiler!Range(r.prompts)
    BY <2>1, <2>2 DEF Compiler!Range
  <2>4. Len(jobs') = 0
    BY <1>2
  <2>5. digits' = ConfigurationAt(r, r.prompts[1], 0)
    BY <1>1, <1>2, <2>3, FirstConfiguration
  <2>6. IsAt(r, 1, 0, c, digits', Len(jobs'))
    BY <2>1, <2>4, <2>5 DEF IsAt
  <2>7. Len(P) = PlanSize(r) * c /\ PlanSize(r) * c \in Positive
    BY <1>1, PlanIs, PlanIsInhabited DEF IsPlan
  <2> HIDE DEF P
  <2>8. AgreesUpTo(jobs', P)
    BY <2>4, <2>7 DEF AgreesUpTo, Positive
  <2>9. 1 \in 1 .. (Len(r.prompts) + 1) /\ ~(1 > Len(r.prompts))
    BY <2>1, <2>2
  <2>10. QED
    BY <1>1, <1>2, <2>4, <2>6, <2>8, <2>9 DEF ExpansionIsPartial, P
<1>10. QED
  BY <1>5, <1>6, <1>7, <1>8, <1>9 DEF PlanInvariant

LEMMA MeasureKeepsPlan ==
  ASSUME CompilerInvariant, PlanInvariant, Compiler!Measure
  PROVE  PlanInvariant'
<1> USE DEF Compiler!given, Compiler!counters, Compiler!expansion
<1>1. work = "text" /\ stage \in CompilerStages
  BY DEF Compiler!Measure, CompilerInvariant, CompilerShape
<1>2. CASE seeds.mode = "random" /\ Len(seeds.values) # total
  <2>1. Compiler!Refuse("invalid")
    BY <1>2 DEF Compiler!Measure
  <2>2. QED
    BY <1>1, <1>2, <2>1, MeasureRefusesLength
<1>3. CASE ~(seeds.mode = "random" /\ Len(seeds.values) # total) /\ Compiler!IsTooLong
  <2>1. Compiler!Refuse("tooLong")
    BY <1>3 DEF Compiler!Measure
  <2>2. QED
    BY <1>1, <1>3, <2>1, MeasureRefusesText
<1>4. CASE ~(seeds.mode = "random" /\ Len(seeds.values) # total) /\ ~Compiler!IsTooLong
  <2>1. CASE stage = "preflight" /\ ~Compiler!AreMaterial
    <3>1. Compiler!Refuse("invalid")
      BY <1>4, <2>1 DEF Compiler!Measure
    <3>2. QED
      BY <2>1, <3>1, MeasureRefusesValues
  <2>2. CASE stage = "preflight" /\ Compiler!AreMaterial
    <3>1. Compiler!Call(IF Compiler!NeedsSeeds THEN "count" ELSE "compile") /\ UNCHANGED <<limits, request, seeds, stored>>
      BY <1>4, <2>2 DEF Compiler!Measure
    <3>2. QED
      BY <1>1, <2>2, <3>1, MeasureCalls
  <2>3. CASE stage = "count"
    <3>1. work' = "draw" /\ UNCHANGED <<limits, request, stage, stored, outcome>>
      BY <1>4, <2>3 DEF Compiler!Measure
    <3>2. QED
      BY <1>1, <2>3, <3>1, MeasureDraws
  <2>4. CASE stage = "validate" /\ total # Len(stored)
    <3>1. Compiler!Refuse("mismatch")
      BY <1>4, <2>4 DEF Compiler!Measure
    <3>2. QED
      BY <1>1, <2>4, <3>1, MeasureRefusesCount
  <2>5. CASE stage = "compile" \/ (stage = "validate" /\ total = Len(stored))
    <3>1. Compiler!Expand
      BY <1>4, <2>5 DEF Compiler!Measure
    <3>2. QED
      BY <1>1, <1>4, <2>5, <3>1, MeasureExpands
  <2>6. QED
    BY <1>1, <2>1, <2>2, <2>3, <2>4, <2>5 DEF CompilerStages
<1>5. QED
  BY <1>2, <1>3, <1>4

LEMMA DrawSeedKeepsPlan ==
  ASSUME CompilerInvariant, PlanInvariant, Compiler!DrawSeed
  PROVE  PlanInvariant'
<1>1. work = "draw" /\ stage = "count" /\ seeds.mode = "random" /\ Needs(request)
  BY DEF Compiler!DrawSeed, CompilerInvariant, StagesAgree
<1>2. CASE Len(seeds.values) < total * Compiler!Repetitions
  <2>1. /\ work' = work /\ UNCHANGED <<limits, request, stage, stored, outcome>>
    BY <1>2 DEF Compiler!DrawSeed, Compiler!given
  <2>2. /\ Sound <=> Sound'
        /\ BindingsHold("preflight") <=> BindingsHold("preflight")'
        /\ BindingsHold("compile") <=> BindingsHold("compile")'
        /\ Compiler!AreMaterial <=> Compiler!AreMaterial'
    BY <2>1, UnchangedIsKept
  <2>3. SeedsAreKnown'
    BY <1>1, <2>1 DEF SeedsAreKnown
  <2>4. RequestIsChecked'
    BY <2>1, <2>2 DEF PlanInvariant, RequestIsChecked
  <2>5. PreviewIsKept'
    BY <1>1, <2>1, PreviewIsKnown DEF PreviewIsKept
  <2>6. TextsAreResolved' /\ ExpansionIsPartial' /\ StoredIsJudged'
    BY <1>1, <2>1 DEF PlanInvariant, TextsAreResolved, ExpansionIsPartial, StoredIsJudged
  <2>7. QED
    BY <2>3, <2>4, <2>5, <2>6 DEF PlanInvariant
<1>3. CASE ~(Len(seeds.values) < total * Compiler!Repetitions)
  <2>1. Compiler!Call("compile") /\ UNCHANGED <<limits, request, seeds, stored>>
    BY <1>3 DEF Compiler!DrawSeed, Compiler!given
  <2>2. Sound /\ BindingsHold("preflight") /\ Compiler!AreMaterial
    BY <1>1 DEF PlanInvariant, RequestIsChecked
  <2>3. QED
    BY <1>1, <2>1, <2>2, CallsKeepPlan
<1>4. QED
  BY <1>2, <1>3

LEMMA ExpandConfigurationKeepsPlan ==
  ASSUME CompilerInvariant, PlanInvariant, Compiler!ExpandConfiguration
  PROVE  PlanInvariant'
<1> DEFINE r == request
           p == r.prompts[prompt]
           new == [i \in DOMAIN Compiler!SeedsOfConfiguration |-> Compiler!Job(p, digits, Compiler!SeedsOfConfiguration[i])]
           c == SeedsPer(seeds)
           isHeld == \E v \in Compiler!Range(Compiler!Resolved(p, digits)) : v.hole
           differs == ~(\A i \in DOMAIN new : new[i] = stored[Len(jobs) + i])
<1> USE DEF Compiler!given, Compiler!counters, Compiler!expansion
<1>1. /\ work = "expand" /\ prompt <= Len(r.prompts)
      /\ isHeld => Compiler!Refuse("unresolved")
      /\ ~isHeld /\ stage = "validate" /\ differs => Compiler!Refuse("mismatch")
      /\ ~isHeld /\ ~(stage = "validate" /\ differs) =>
           work' = work /\ UNCHANGED <<limits, request, stage, seeds, stored, outcome>>
  <2>1. work = "expand" /\ prompt <= Len(r.prompts)
    BY DEF Compiler!ExpandConfiguration
  <2>2. ASSUME isHeld PROVE Compiler!Refuse("unresolved")
    BY <2>2 DEF Compiler!ExpandConfiguration, Compiler!Refuse
  <2>3. ASSUME ~isHeld, stage = "validate", differs PROVE Compiler!Refuse("mismatch")
    BY <2>3 DEF Compiler!ExpandConfiguration, Compiler!SameJob, Compiler!Refuse
  <2>4. ASSUME ~isHeld, ~(stage = "validate" /\ differs)
        PROVE  work' = work /\ UNCHANGED <<limits, request, stage, seeds, stored, outcome>>
    BY <2>4 DEF Compiler!ExpandConfiguration, Compiler!SameJob, Compiler!Refuse
  <2>5. QED
    BY <2>1, <2>2, <2>3, <2>4
<1>2. /\ Compiler!IsRequest(r) /\ Compiler!IsSeedInput(seeds) /\ IsCountable(r) /\ c \in Positive
      /\ Compiler!IsList(jobs) /\ outcome = "running"
  BY <1>1 DEF CompilerInvariant, CompilerShape, StagesAreCountable
<1>3. /\ stage # "preflight" /\ prompt \in 1 .. Len(r.prompts)
      /\ seeds.mode = "random" => position = Len(jobs)
      /\ \E k : IsAt(r, prompt, k, c, digits, Len(jobs))
  <2>1. Len(r.prompts) \in Nat
    BY <1>2, CompilerLists DEF Compiler!IsRequest
  <2>2. ExpansionIsPartial
    BY DEF PlanInvariant
  <2>3. QED
    BY <1>1, <2>1, <2>2 DEF ExpansionIsPartial
<1>4. PICK k : IsAt(r, prompt, k, c, digits, Len(jobs))
  BY <1>3
<1> HIDE DEF isHeld, differs
<1>5. CASE isHeld
  <2>1. ~NoHoles(r)
    <3>1. Compiler!Resolved(p, digits) = TextOfJob(r, p, ConfigurationAt(r, p, k))
      BY <1>2, <1>3, <1>4, ConfigurationExpands
    <3>2. k \in 0 .. (Weights(r)[prompt] - 1)
      BY <1>4 DEF IsAt
    <3>3. QED
      BY <1>3, <1>5, <3>1, <3>2 DEF NoHoles, isHeld
  <2>2. stage # "validate" /\ stored = <<>>
    BY <2>1 DEF PlanInvariant, TextsAreResolved
  <2>3. QED
    BY <1>1, <1>5, <2>2, RefusalsKeepPlan
<1>6. CASE ~isHeld /\ stage = "validate" /\ differs
  <2>1. /\ Len(new) = c /\ DOMAIN new = 1 .. c
        /\ \A i \in 1 .. c : new[i] = PlanOf(r, seeds)[Len(jobs) + i]
    BY <1>2, <1>3, <1>4, ConfigurationExpands
  <2>2. ~IsTrue
    BY <1>6, <2>1 DEF IsTrue, differs
  <2>3. QED
    BY <1>1, <1>6, <2>2, RefusalsKeepPlan
<1>7. CASE ~isHeld /\ ~(stage = "validate" /\ differs)
  <2>1. work' = "expand" /\ UNCHANGED <<limits, request, stage, seeds, stored, outcome>>
    BY <1>1, <1>7
  <2>2. ExpansionIsPartial'
    BY <1>1, <2>1, ExpansionGoesOn
  <2>3. /\ Sound <=> Sound'
        /\ BindingsHold("preflight") <=> BindingsHold("preflight")'
        /\ BindingsHold("compile") <=> BindingsHold("compile")'
        /\ Compiler!AreMaterial <=> Compiler!AreMaterial'
    BY <2>1, UnchangedIsKept
  <2>4. Compiler!SeedsAreValid <=> Compiler!SeedsAreValid'
    BY <2>1, SeedsAreKept
  <2>5. SeedsAreKnown'
    BY <1>1, <2>1, <2>4 DEF PlanInvariant, SeedsAreKnown
  <2>6. RequestIsChecked'
    BY <1>1, <2>1, <2>3 DEF PlanInvariant, RequestIsChecked
  <2>7. PreviewIsKept'
    BY <2>1, <2>4 DEF PlanInvariant, PreviewIsKept
  <2>8. TextsAreResolved' /\ StoredIsJudged'
    BY <2>1 DEF PlanInvariant, TextsAreResolved, StoredIsJudged
  <2>9. QED
    BY <2>2, <2>5, <2>6, <2>7, <2>8 DEF PlanInvariant
<1>8. QED
  BY <1>5, <1>6, <1>7

LEMMA SameLists ==
  ASSUME NEW s, NEW t, Compiler!IsList(s), Compiler!IsList(t), Len(s) = Len(t), \A i \in 1 .. Len(s) : s[i] = t[i]
  PROVE  s = t
<1>1. DOMAIN s = 1 .. Len(s) /\ DOMAIN t = 1 .. Len(s)
  BY CompilerLists
<1>2. s = [i \in 1 .. Len(s) |-> s[i]] /\ t = [i \in 1 .. Len(s) |-> t[i]]
  <2>1. s \in Seq(Compiler!Range(s)) /\ t \in Seq(Compiler!Range(t))
    BY DEF Compiler!IsList
  <2>2. s = [i \in DOMAIN s |-> s[i]] /\ t = [i \in DOMAIN t |-> t[i]]
    BY <2>1
  <2>3. QED
    BY <1>1, <2>2
<1>3. QED
  BY <1>2

\* What was expanded to the end is the plan, and no text of it has a placeholder left.
LEMMA ExpandedIsPlan ==
  ASSUME CompilerInvariant, PlanInvariant, Compiler!IsExpanded
  PROVE  jobs = PlanOf(request, seeds) /\ Len(jobs) = PlanSize(request) * SeedsPer(seeds) /\ NoHoles(request)
<1> DEFINE r == request
           c == SeedsPer(seeds)
           P == PlanOf(r, seeds)
           N == Len(r.prompts)
<1>1. work = "expand" /\ prompt > N
  BY DEF Compiler!IsExpanded
<1>2. /\ Compiler!IsRequest(r) /\ IsCountable(r) /\ c \in Positive /\ Compiler!IsList(jobs)
  BY <1>1 DEF CompilerInvariant, CompilerShape, StagesAreCountable
<1>3. /\ Len(jobs) = PlanSize(r) * c /\ AgreesUpTo(jobs, P)
      /\ \A i \in 1 .. Len(jobs) : IsResolved(jobs[i])
  BY <1>1 DEF PlanInvariant, ExpansionIsPartial
<1>4. IsPlan(P, r, seeds)
  BY <1>2, PlanIs
<1> HIDE DEF P
<1>5. jobs = P
  <2>1. Compiler!IsList(P) /\ Len(P) = Len(jobs)
    BY <1>3, <1>4 DEF IsPlan
  <2>2. QED
    BY <1>2, <1>3, <2>1, SameLists DEF AgreesUpTo
<1>6. NoHoles(r)
  <2> SUFFICES ASSUME NEW n \in 1 .. N, NEW k \in 0 .. (Weights(r)[n] - 1),
                      NEW v \in Compiler!Range(TextOfJob(r, r.prompts[n], ConfigurationAt(r, r.prompts[n], k)))
               PROVE  ~v.hole
    BY DEF NoHoles
  <2> DEFINE at == PlaceOf(r, n, k, c)
             choice == ConfigurationAt(r, r.prompts[n], k)
             size == PlanSize(r) * c
  <2>1. at \in Nat /\ c \in Nat /\ size \in Nat /\ at + c <= size
    BY <1>2, PlacesAre
  <2>2. 1 \in 1 .. c
    BY <1>2 DEF Positive
  <2>3. jobs[at + 1] = JobOf(r, r.prompts[n], choice, SeedAt(seeds, at, 1))
    BY <1>4, <1>5, <2>2 DEF IsPlan
  <2>4. Len(jobs) = size
    BY <1>3
  <2> HIDE DEF at, choice, size
  <2>5. at + 1 \in 1 .. Len(jobs)
    BY <2>1, <2>2, <2>4
  <2>6. IsResolved(jobs[at + 1])
    BY <1>3, <2>5
  <2>7. jobs[at + 1].text = TextOfJob(r, r.prompts[n], choice)
    BY <2>3 DEF JobOf, JobWith, TextOfJob
  <2>8. QED
    BY <2>6, <2>7 DEF IsResolved, choice
<1>7. QED
  BY <1>3, <1>5, <1>6 DEF P

LEMMA CreateKeepsPlan ==
  ASSUME CompilerInvariant, PlanInvariant, Compiler!Create
  PROVE  PlanInvariant'
<1> DEFINE size == PlanSize(request) * SeedsPer(seeds)
<1>1. /\ Compiler!IsExpanded /\ stage = "compile" /\ work = "expand" /\ Needs(request)
      /\ request' = [request EXCEPT !.seeds = seeds] /\ limits' = limits /\ seeds' = seeds /\ stored' = jobs
      /\ stage' = "preflight" /\ work' = "check" /\ outcome' = outcome
  BY DEF Compiler!Create, Compiler!IsExpanded, Compiler!Call, Compiler!NeedsSeeds, Needs
<1>2. /\ Compiler!IsRequest(request) /\ IsCountable(request) /\ SeedsPer(seeds) \in Positive /\ seeds.values # <<>>
      /\ outcome = "running"
      /\ size <= limits.jobs /\ TextPerSeed(request) * SeedsPer(seeds) <= limits.text /\ ~HasLargePrompt(request)
      /\ total = size
  BY <1>1 DEF CompilerInvariant, CompilerShape, StagesAreCountable, StagesAgree, CountIsWhole
<1>3. /\ SameParts(request, request') /\ request'.seeds = seeds
  <2>1. DOMAIN request = {"prompts", "variables", "slots", "images", "parameters", "intents", "sets", "seeds"}
    BY <1>2 DEF Compiler!IsRequest
  <2>2. QED
    BY <1>1, <2>1 DEF SameParts
<1>4. /\ jobs = PlanOf(request, seeds) /\ Len(jobs) = size /\ NoHoles(request)
  BY <1>1, ExpandedIsPlan
<1>5. /\ seeds.mode = "random" /\ Compiler!SeedsAreValid /\ Len(seeds.values) = size
      /\ Sound /\ BindingsHold("preflight") /\ BindingsHold("compile") /\ Compiler!AreMaterial
  BY <1>1 DEF PlanInvariant, SeedsAreKnown, RequestIsChecked, ExpansionIsPartial
<1>6. /\ Weights(request') = Weights(request) /\ PlanSize(request') = PlanSize(request)
  BY <1>3, DimensionsAgree
<1>7. /\ PlanOf(request', seeds) = PlanOf(request, seeds)
      /\ TextPerSeed(request') = TextPerSeed(request)
      /\ HasLargePrompt(request') <=> HasLargePrompt(request)
      /\ IsCountable(request') <=> IsCountable(request)
      /\ \A p, choice : TextOfJob(request, p, choice) = TextOfJob(request', p, choice) /\ ConfigurationAt(request, p, choice) = ConfigurationAt(request', p, choice)
  BY <1>3, PlansAgree
<1>8. /\ Sound <=> Sound'
      /\ BindingsHold("preflight") <=> BindingsHold("preflight")'
      /\ BindingsHold("compile") <=> BindingsHold("compile")'
      /\ Compiler!AreMaterial <=> Compiler!AreMaterial'
  BY <1>3, SoundnessIsKept
<1>9. Compiler!SeedsAreValid <=> Compiler!SeedsAreValid'
  BY <1>1, SeedsAreKept
<1>10. ~Needs(request')
  BY <1>2, <1>3 DEF Needs
<1>11. SeedsAreKnown'
  BY <1>1, <1>3 DEF SeedsAreKnown
<1>12. RequestIsChecked'
  BY <1>1, <1>5, <1>8 DEF RequestIsChecked
<1>13. PreviewIsKept'
  BY <1>1, <1>2, <1>4, <1>5, <1>6, <1>7, <1>9, <1>10 DEF PreviewIsKept
<1>14. TextsAreResolved'
  <2>1. request'.prompts = request.prompts
    BY <1>3 DEF SameParts
  <2>2. NoHoles(request')
    BY <1>4, <1>6, <1>7, <2>1 DEF NoHoles
  <2>3. QED
    BY <2>2 DEF TextsAreResolved
<1>15. ExpansionIsPartial' /\ StoredIsJudged'
  BY <1>1 DEF ExpansionIsPartial, StoredIsJudged
<1>16. QED
  BY <1>11, <1>12, <1>13, <1>14, <1>15 DEF PlanInvariant

LEMMA StoreKeepsPlan ==
  ASSUME CompilerInvariant, PlanInvariant, Compiler!Store
  PROVE  PlanInvariant'
<1>1. /\ Compiler!IsExpanded /\ stage = "compile" /\ work = "expand" /\ ~Needs(request)
      /\ request' = request /\ limits' = limits
      /\ stage' = "validate" /\ work' = "check"
      /\ stored' \in {jobs} \cup {plan \in JobEdits(jobs) : Compiler!IsList(plan)}
      /\ seeds' = IF request.seeds.mode = "random"
                  THEN [request.seeds EXCEPT !.values = [i \in DOMAIN stored' |-> stored'[i].seed]]
                  ELSE request.seeds
  BY DEF Compiler!Store, Compiler!IsExpanded, Compiler!Call, Compiler!NeedsSeeds, Needs, Compiler!given
<1>2. /\ Compiler!IsRequest(request) /\ IsCountable(request) /\ SeedsPer(seeds) \in Positive /\ Compiler!IsSeedInput(seeds)
      /\ Compiler!IsList(jobs)
  BY <1>1 DEF CompilerInvariant, CompilerShape, StagesAreCountable
<1>3. /\ seeds = request.seeds /\ Compiler!SeedsAreValid
      /\ Sound /\ BindingsHold("preflight") /\ BindingsHold("compile") /\ Compiler!AreMaterial
  BY <1>1 DEF PlanInvariant, SeedsAreKnown, RequestIsChecked
<1>4. Compiler!IsList(stored')
  BY <1>1, <1>2
<1>5. /\ SeedsPer(seeds') \in Positive
      /\ seeds'.mode = "random" => Len(seeds'.values) = Len(stored')
      /\ seeds'.mode # "random" => seeds' = seeds
  <2>1. CASE seeds.mode = "random"
    <3>1. DOMAIN seeds = {"mode", "values", "count"}
      BY <1>2 DEF Compiler!IsSeedInput
    <3> DEFINE drawn == [i \in DOMAIN stored' |-> stored'[i].seed]
    <3>2. Len(drawn) = Len(stored')
      <4>1. DOMAIN stored' = 1 .. Len(stored') /\ Len(stored') \in Nat
        BY <1>4, CompilerLists
      <4>2. DOMAIN drawn = 1 .. Len(stored') /\ drawn = [i \in 1 .. Len(stored') |-> drawn[i]]
        BY <4>1
      <4> HIDE DEF drawn
      <4>3. QED
        BY <4>1, <4>2, ListsAreSequences
    <3> HIDE DEF drawn
    <3>3. seeds' = [seeds EXCEPT !.values = drawn]
      BY <1>1, <1>3, <2>1 DEF drawn
    <3>4. seeds'.mode = "random" /\ seeds'.count = seeds.count /\ seeds'.values = drawn
      BY <2>1, <3>1, <3>3
    <3>5. QED
      BY <1>2, <2>1, <3>2, <3>4 DEF SeedsPer
  <2>2. CASE seeds.mode # "random"
    BY <1>1, <1>2, <1>3, <2>2
  <2>3. QED
    BY <2>1, <2>2
<1>6. seeds' = seeds => (Compiler!SeedsAreValid <=> Compiler!SeedsAreValid')
  BY SeedsAreKept
<1>7. /\ Sound <=> Sound'
      /\ BindingsHold("preflight") <=> BindingsHold("preflight")'
      /\ BindingsHold("compile") <=> BindingsHold("compile")'
      /\ Compiler!AreMaterial <=> Compiler!AreMaterial'
  BY <1>1, UnchangedIsKept
<1>8. SeedsAreKnown'
  BY <1>1, <1>2, <1>3, <1>5, <1>6 DEF SeedsAreKnown
<1>9. RequestIsChecked'
  BY <1>1, <1>3, <1>7 DEF RequestIsChecked
<1>10. NoHoles(request)
  BY <1>1, ExpandedIsPlan
<1>11. PreviewIsKept' /\ TextsAreResolved' /\ ExpansionIsPartial' /\ StoredIsJudged'
  BY <1>1, <1>10 DEF PreviewIsKept, TextsAreResolved, ExpansionIsPartial, StoredIsJudged
<1>12. QED
  BY <1>8, <1>9, <1>11 DEF PlanInvariant

LEMMA AcceptKeepsPlan ==
  ASSUME CompilerInvariant, PlanInvariant, Compiler!Accept
  PROVE  PlanInvariant'
<1> DEFINE size == PlanSize(request) * SeedsPer(seeds)
<1>1. /\ Compiler!IsExpanded /\ stage = "validate" /\ work = "expand" /\ work' = "end" /\ outcome' = "accepted"
      /\ UNCHANGED <<limits, request, stage, seeds, stored>>
  BY DEF Compiler!Accept, Compiler!IsExpanded, Compiler!given
<1>2. jobs = PlanOf(request, seeds) /\ Len(jobs) = size
  BY <1>1, ExpandedIsPlan
<1>3. Compiler!IsList(jobs) /\ Compiler!IsList(stored) /\ total = size
  BY <1>1 DEF CompilerInvariant, CompilerShape, CountIsWhole
<1>4. stored = jobs /\ Len(stored) = size
  <2>1. total = Len(stored) /\ \A i \in 1 .. Len(jobs) : jobs[i] = stored[i]
    BY <1>1 DEF PlanInvariant, ExpansionIsPartial
  <2>2. QED
    BY <1>2, <1>3, <2>1, SameLists
<1>5. Compiler!SeedsAreValid
  BY <1>1 DEF PlanInvariant, SeedsAreKnown
<1>6. Compiler!Range(seeds.values) \subseteq 0 .. CompilerMaxSeed
  BY <1>5 DEF Compiler!SeedsAreValid
<1>7. /\ Sound <=> Sound'
      /\ BindingsHold("preflight") <=> BindingsHold("preflight")'
      /\ BindingsHold("compile") <=> BindingsHold("compile")'
      /\ Compiler!AreMaterial <=> Compiler!AreMaterial'
  BY <1>1, UnchangedIsKept
<1>8. Compiler!SeedsAreValid <=> Compiler!SeedsAreValid'
  BY <1>1, SeedsAreKept
<1>9. SeedsAreKnown'
  BY <1>1, <1>8 DEF PlanInvariant, SeedsAreKnown
<1>10. RequestIsChecked'
  BY <1>1, <1>7 DEF PlanInvariant, RequestIsChecked
<1>11. PreviewIsKept' /\ TextsAreResolved' /\ ExpansionIsPartial'
  BY <1>1 DEF PlanInvariant, PreviewIsKept, TextsAreResolved, ExpansionIsPartial
<1>12. StoredIsJudged'
  BY <1>1, <1>2, <1>4, <1>6 DEF StoredIsJudged
<1>13. QED
  BY <1>9, <1>10, <1>11, <1>12 DEF PlanInvariant

LEMMA PlanGoesOn ==
  ASSUME CompilerInvariant, PlanInvariant, [Compiler!Next]_Compiler!vars
  PROVE  PlanInvariant'
<1>1. CompilerInvariant'
  BY CompilerGoesOn
<1>2. CASE UNCHANGED Compiler!vars
  BY <1>2, PlanStutters
<1>3. CASE Compiler!Check
  BY <1>3, CheckKeepsPlan
<1>4. CASE Compiler!CountSeeds
  BY <1>1, <1>4, CountSeedsKeepsPlan
<1>5. CASE Compiler!CountAxis
  BY <1>1, <1>5, CountAxisKeepsPlan
<1>6. CASE Compiler!CountPrompt
  BY <1>6, CountPromptKeepsPlan
<1>7. CASE Compiler!Measure
  BY <1>7, MeasureKeepsPlan
<1>8. CASE Compiler!DrawSeed
  BY <1>8, DrawSeedKeepsPlan
<1>9. CASE Compiler!ExpandConfiguration
  BY <1>9, ExpandConfigurationKeepsPlan
<1>10. CASE Compiler!Create
  BY <1>10, CreateKeepsPlan
<1>11. CASE Compiler!Store
  BY <1>11, StoreKeepsPlan
<1>12. CASE Compiler!Accept
  BY <1>12, AcceptKeepsPlan
<1>13. QED
  BY <1>2, <1>3, <1>4, <1>5, <1>6, <1>7, <1>8, <1>9, <1>10, <1>11, <1>12 DEF Compiler!Next

-----------------------------------------------------------------------------
LEMMA PrefixOfPlan ==
  ASSUME NEW s, NEW t, Compiler!IsList(s), Compiler!IsList(t), AgreesUpTo(s, t)
  PROVE  Compiler!IsPrefix(s, t)
<1>1. /\ Len(s) \in Nat /\ Len(t) \in Nat /\ Len(s) <= Len(t) /\ \A i \in 1 .. Len(s) : s[i] = t[i]
  BY CompilerLists DEF AgreesUpTo
<1>2. s \in Seq(Compiler!Range(s)) /\ t \in Seq(Compiler!Range(t))
  BY DEF Compiler!IsList
<1>3. SubSeq(s, 1, Len(s)) = [i \in 1 .. Len(s) |-> s[i]]
  BY <1>1, <1>2
<1>4. SubSeq(t, 1, Len(s)) = [i \in 1 .. Len(s) |-> t[i]]
  BY <1>1, <1>2
<1>5. QED
  BY <1>1, <1>3, <1>4 DEF Compiler!IsPrefix

LEMMA OrderFollows ==
  ASSUME CompilerInvariant, PlanInvariant
  PROVE  Compiler!PlanIsOrdered
<1>1. SUFFICES ASSUME work = "expand"
               PROVE  /\ Compiler!IsPrefix(jobs, Compiler!ReferencePlan)
                      /\ Compiler!IsExpanded => jobs = Compiler!ReferencePlan
  BY DEF Compiler!PlanIsOrdered, Compiler!IsExpanded
<1>2. /\ Compiler!IsRequest(request) /\ IsCountable(request) /\ SeedsPer(seeds) \in Positive /\ Compiler!IsList(jobs)
  BY <1>1 DEF CompilerInvariant, CompilerShape, StagesAreCountable
<1>3. stage # "preflight" /\ AgreesUpTo(jobs, PlanOf(request, seeds))
  BY <1>1 DEF PlanInvariant, ExpansionIsPartial
<1>4. Compiler!ReferencePlan = PlanOf(request, seeds)
  BY <1>2, <1>3, ReferenceIs
<1>5. Compiler!IsList(PlanOf(request, seeds))
  BY <1>2, PlanIs DEF IsPlan
<1>6. Compiler!IsPrefix(jobs, Compiler!ReferencePlan)
  BY <1>2, <1>3, <1>4, <1>5, PrefixOfPlan
<1>7. Compiler!IsExpanded => jobs = Compiler!ReferencePlan
  BY <1>4, ExpandedIsPlan
<1>8. QED
  BY <1>6, <1>7

LEMMA BindingFollows ==
  ASSUME CompilerInvariant, PlanInvariant
  PROVE  Compiler!PreviewIsBinding
<1> SUFFICES ASSUME stage # "validate", stored # <<>>
             PROVE  outcome = "running" /\ (Compiler!IsExpanded => jobs = stored)
  BY DEF Compiler!PreviewIsBinding
<1>1. outcome = "running" /\ stored = PlanOf(request, seeds)
  BY DEF PlanInvariant, PreviewIsKept
<1>2. QED
  BY <1>1, ExpandedIsPlan

LEMMA StoredFollows ==
  ASSUME CompilerInvariant, PlanInvariant
  PROVE  Compiler!StoredPlanIsExact
<1>1. SUFFICES ASSUME stage = "validate", work = "end"
               PROVE  outcome = "accepted" <=>
                        /\ Len(stored) = Compiler!SizeOfPlan /\ stored = Compiler!ReferencePlan
                        /\ Compiler!Range(seeds.values) \subseteq 0 .. CompilerMaxSeed
  BY DEF Compiler!StoredPlanIsExact
<1>2. /\ Compiler!IsRequest(request) /\ IsCountable(request) /\ SeedsPer(seeds) \in Positive
  BY <1>1 DEF CompilerInvariant, CompilerShape, PlanInvariant, SeedsAreKnown
<1>3. Compiler!SizeOfPlan = PlanSize(request) * SeedsPer(seeds) /\ Compiler!ReferencePlan = PlanOf(request, seeds)
  BY <1>1, <1>2, SizeOfPlanIs, ReferenceIs
<1>4. QED
  BY <1>1, <1>3 DEF PlanInvariant, StoredIsJudged

-----------------------------------------------------------------------------
(* What holds of a behaviour of the composition, machine by machine.        *)
LEMMA PlanHolds == PlanningSpec => [](CompilerInvariant /\ PlanInvariant)
<1>1. PlanningInit => Compiler!Init
  BY DEF PlanningInit
<1>2. [PlanningNext]_<<which, ranging, compiling, defining, submitting, reading>> => [Compiler!Next]_Compiler!vars
  BY DEF PlanningNext, RangeNext, CompilerNext, DefinitionNext, PreparationNext, RecordNext, compiling, Compiler!vars
<1>3. Compiler!Init => CompilerInvariant /\ PlanInvariant
  BY CompilerStarts, PlanBegins
<1>4. CompilerInvariant /\ PlanInvariant /\ [Compiler!Next]_Compiler!vars => (CompilerInvariant /\ PlanInvariant)'
  BY CompilerGoesOn, PlanGoesOn
<1>5. QED
  BY <1>1, <1>2, <1>3, <1>4, PTL DEF PlanningSpec

\* For every request and all seeds: what is expanded is the beginning of the
\* documented order, prompt, variables, images, parameters, seeds, the
\* rightmost fastest, and in the end all of it (_compile_batch, docs/BATCH_COMPILER.md).
THEOREM PlanStaysOrdered == PlanningSpec => [](which = "compiler" => Compiler!PlanIsOrdered)
<1>1. CompilerInvariant /\ PlanInvariant => (which = "compiler" => Compiler!PlanIsOrdered)
  BY OrderFollows
<1>2. QED
  BY <1>1, PlanHolds, PTL

\* For every request: the one that sends the drawn seeds of its preview back is
\* not refused, whatever it is counted against, and its Jobs are those that the
\* client was shown (materialize_random_seeds, _compile_batch).
THEOREM PreviewStaysBinding == PlanningSpec => [](which = "compiler" => Compiler!PreviewIsBinding)
<1>1. CompilerInvariant /\ PlanInvariant => (which = "compiler" => Compiler!PreviewIsBinding)
  BY BindingFollows
<1>2. QED
  BY <1>1, PlanHolds, PTL

\* For every request and every edit of the stored Jobs: they are accepted if and
\* only if they are what the snapshot compiles to, with the seeds that only the
\* Jobs of a Random Batch record (validate_batch_plan).
THEOREM StoredPlanStaysExact == PlanningSpec => [](which = "compiler" => Compiler!StoredPlanIsExact)
<1>1. CompilerInvariant /\ PlanInvariant => (which = "compiler" => Compiler!StoredPlanIsExact)
  BY StoredFollows
<1>2. QED
  BY <1>1, PlanHolds, PTL
=============================================================================
