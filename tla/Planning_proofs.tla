--------------------------- MODULE Planning_proofs ---------------------------
(***************************************************************************)
(* Proofs about what happens to a Batch before it is sent to ComfyUI: the  *)
(* values of a decimal range, the rows of a Saved Batch, and the workflows *)
(* that are submitted for the Jobs of a Run.  Each machine of Planning has *)
(* an inductive invariant of its own, over its own variables:              *)
(*   RangeInvariant (RangeMaterialization), what was counted and generated *)
(*   so far; DefinitionInvariant, what the stages of an acceptance have    *)
(*   already established of the request, and that the rows are those of    *)
(*   what was accepted; PreparationInvariant, what each Job has uploaded   *)
(*   and what its workflow holds at that stage; RecordInvariant, that a    *)
(*   published directory was read back as what was asked for, and what the *)
(*   last load saw.                                                        *)
(* The theorems hold for all decimals, requests, budgets, workflows,       *)
(* Profiles, plans, Runs and edits of the shapes that PlanningAssumption   *)
(* and MaterializationAssumption name.  The compiler has a module of its   *)
(* own, Compiler_proofs.                                                   *)
(***************************************************************************)
EXTENDS Planning, Sums, FiniteSetTheorems, SequenceTheorems, WellFoundedInduction, TLAPS

-----------------------------------------------------------------------------
(* Sums and products of lists of numbers, and numbers as digits in mixed   *)
(* radices.  A sum is known by the sums of its beginnings (TotalIsLast),   *)
(* so that each of these facts needs no induction of its own.              *)
LEMMA UpToBound ==
  ASSUME NEW n \in Nat, NEW S, 0 \in S, \A k \in 0 .. n : k \in S /\ k < n => k + 1 \in S
  PROVE  0 .. n \subseteq S
<1> DEFINE R == OpToRel(<, Nat)
           T == {k \in 0 .. n : k \notin S}
<1>1. IsWellFoundedOn(R, Nat)
  BY NatLessThanWellFounded
<1>2. \A y, z \in Nat : y < z => <<y, z>> \in R
  BY DEF OpToRel
<1>3. T \subseteq Nat
  OBVIOUS
<1> SUFFICES ASSUME T # {} PROVE FALSE
  OBVIOUS
<1>4. PICK x \in T : \A y \in T : ~(<<y, x>> \in R)
  <2> HIDE DEF R, T
  <2>1. QED
    BY <1>1, <1>3, WFMin
<1>5. x \in 0 .. n /\ x \notin S /\ x # 0
  BY <1>4
<1>6. x - 1 \in 0 .. n /\ x - 1 < n /\ x - 1 < x /\ (x - 1) + 1 = x
  BY <1>5
<1>7. x - 1 \notin T
  <2>1. x - 1 \in Nat /\ x \in Nat
    BY <1>6, <1>5
  <2>2. <<x - 1, x>> \in R
    BY <1>2, <1>6, <2>1
  <2>3. QED
    BY <1>4, <2>2
<1>8. x - 1 \in S
  BY <1>6, <1>7
<1>9. x \in S
  BY <1>6, <1>8
<1>10. QED
  BY <1>5, <1>9

\* The products of a sequence's beginnings.
IsUpTo(p, f, k) == p = [n \in 0 .. k |-> IF n = 0 THEN 1 ELSE p[n - 1] * f[n]]

LEMMA ProductsExist ==
  ASSUME NEW k \in Nat, NEW f
  PROVE  \E p : IsUpTo(p, f, k)
<1> DEFINE S == {j \in Nat : \E p : IsUpTo(p, f, j)}
<1>1. 0 \in S
  <2> DEFINE p == [n \in 0 .. 0 |-> 1]
  <2>1. IsUpTo(p, f, 0)
    BY DEF IsUpTo
  <2>2. QED
    BY <2>1
<1>2. ASSUME NEW j \in 0 .. k, j \in S PROVE j + 1 \in S
  <2>1. PICK p : IsUpTo(p, f, j)
    BY <1>2
  <2> DEFINE q == [n \in 0 .. (j + 1) |-> IF n = j + 1 THEN p[j] * f[n] ELSE p[n]]
             next == [n \in 0 .. (j + 1) |-> IF n = 0 THEN 1 ELSE q[n - 1] * f[n]]
  <2>2. j \in Nat /\ j + 1 \in Nat /\ \A n \in 0 .. (j + 1) : n # 0 => n - 1 \in 0 .. j
    OBVIOUS
  <2>3. \A n \in 0 .. j : q[n] = p[n]
    OBVIOUS
  <2>4. \A n \in 0 .. j : p[n] = IF n = 0 THEN 1 ELSE p[n - 1] * f[n]
    BY <2>1 DEF IsUpTo
  <2>5. ASSUME NEW n \in 0 .. (j + 1) PROVE q[n] = next[n]
    <3>1. CASE n = 0
      BY <2>2, <2>3, <2>4, <3>1
    <3>2. CASE n = j + 1
      <4>1. q[n] = p[j] * f[n] /\ n # 0 /\ n - 1 = j
        BY <2>2, <3>2
      <4>2. q[j] = p[j]
        BY <2>3, <2>2
      <4>3. QED
        BY <4>1, <4>2
    <3>3. CASE n # 0 /\ n # j + 1
      <4>1. n \in 0 .. j /\ n - 1 \in 0 .. j
        BY <3>3
      <4>2. q[n] = p[n] /\ q[n - 1] = p[n - 1]
        BY <2>3, <4>1
      <4>3. p[n] = p[n - 1] * f[n]
        BY <2>4, <3>3, <4>1
      <4>4. next[n] = q[n - 1] * f[n]
        BY <3>3
      <4>5. QED
        BY <4>2, <4>3, <4>4
    <3>4. QED
      BY <3>1, <3>2, <3>3
  <2>6. q = next
    BY <2>5
  <2> HIDE DEF q
  <2>7. IsUpTo(q, f, j + 1)
    BY <2>6 DEF IsUpTo
  <2>8. QED
    BY <2>2, <2>7
<1>3. 0 .. k \subseteq S
  <2> HIDE DEF S
  <2>1. QED
    BY <1>1, <1>2, UpToBound
<1>4. QED
  BY <1>3

IsRun(p, ns) == p[0] = 1 /\ \A n \in 1 .. Len(ns) : p[n] = p[n - 1] * ns[n]

LEMMA RunOfPositives ==
  ASSUME NEW ns \in Seq(Nat \ {0}), NEW p, IsRun(p, ns)
  PROVE  \A n \in 0 .. Len(ns) : p[n] \in Nat \ {0}
<1> DEFINE S == {n \in Nat : p[n] \in Nat \ {0}}
<1>1. Len(ns) \in Nat /\ \A n \in 1 .. Len(ns) : ns[n] \in Nat \ {0}
  OBVIOUS
<1>2. 0 \in S
  BY DEF IsRun
<1>3. ASSUME NEW k \in 0 .. Len(ns), k \in S, k < Len(ns) PROVE k + 1 \in S
  <2>1. k + 1 \in 1 .. Len(ns) /\ (k + 1) - 1 = k /\ k + 1 \in Nat
    BY <1>1, <1>3
  <2>2. p[k + 1] = p[k] * ns[k + 1]
    BY <2>1 DEF IsRun
  <2>3. p[k] \in Nat \ {0} /\ ns[k + 1] \in Nat \ {0}
    BY <1>1, <1>3, <2>1
  <2>4. \A a, b \in Nat \ {0} : a * b \in Nat \ {0}
    OBVIOUS
  <2>5. QED
    BY <2>1, <2>2, <2>3, <2>4
<1>4. 0 .. Len(ns) \subseteq S
  <2> HIDE DEF S
  <2>1. QED
    BY <1>1, <1>2, <1>3, UpToBound
<1>5. QED
  BY <1>4

\* The sums of a sequence's beginnings.
SumsUpTo(p, f, k) == p = [n \in 0 .. k |-> IF n = 0 THEN 0 ELSE p[n - 1] + f[n]]
Sums(ns) == CHOOSE p : p = [n \in 0 .. Len(ns) |-> IF n = 0 THEN 0 ELSE p[n - 1] + ns[n]]
Products(ns) == CHOOSE p : p = [n \in 0 .. Len(ns) |-> IF n = 0 THEN 1 ELSE p[n - 1] * ns[n]]

LEMMA SumsExist ==
  ASSUME NEW k \in Nat, NEW f
  PROVE  \E p : SumsUpTo(p, f, k)
<1> DEFINE S == {j \in Nat : \E p : SumsUpTo(p, f, j)}
<1>1. 0 \in S
  <2> DEFINE p == [n \in 0 .. 0 |-> 0]
  <2>1. SumsUpTo(p, f, 0)
    BY DEF SumsUpTo
  <2>2. QED
    BY <2>1
<1>2. ASSUME NEW j \in 0 .. k, j \in S PROVE j + 1 \in S
  <2>1. PICK p : SumsUpTo(p, f, j)
    BY <1>2
  <2> DEFINE q == [n \in 0 .. (j + 1) |-> IF n = j + 1 THEN p[j] + f[n] ELSE p[n]]
             next == [n \in 0 .. (j + 1) |-> IF n = 0 THEN 0 ELSE q[n - 1] + f[n]]
  <2>2. j \in Nat /\ j + 1 \in Nat /\ \A n \in 0 .. (j + 1) : n # 0 => n - 1 \in 0 .. j
    OBVIOUS
  <2>3. \A n \in 0 .. j : q[n] = p[n]
    OBVIOUS
  <2>4. \A n \in 0 .. j : p[n] = IF n = 0 THEN 0 ELSE p[n - 1] + f[n]
    BY <2>1 DEF SumsUpTo
  <2>5. ASSUME NEW n \in 0 .. (j + 1) PROVE q[n] = next[n]
    <3>1. CASE n = 0
      BY <2>2, <2>3, <2>4, <3>1
    <3>2. CASE n = j + 1
      <4>1. q[n] = p[j] + f[n] /\ n # 0 /\ n - 1 = j
        BY <2>2, <3>2
      <4>2. q[j] = p[j]
        BY <2>3, <2>2
      <4>3. QED
        BY <4>1, <4>2
    <3>3. CASE n # 0 /\ n # j + 1
      <4>1. n \in 0 .. j /\ n - 1 \in 0 .. j
        BY <3>3
      <4>2. q[n] = p[n] /\ q[n - 1] = p[n - 1]
        BY <2>3, <4>1
      <4>3. p[n] = p[n - 1] + f[n]
        BY <2>4, <3>3, <4>1
      <4>4. next[n] = q[n - 1] + f[n]
        BY <3>3
      <4>5. QED
        BY <4>2, <4>3, <4>4
    <3>4. QED
      BY <3>1, <3>2, <3>3
  <2>6. q = next
    BY <2>5
  <2> HIDE DEF q
  <2>7. SumsUpTo(q, f, j + 1)
    BY <2>6 DEF SumsUpTo
  <2>8. QED
    BY <2>2, <2>7
<1>3. 0 .. k \subseteq S
  <2> HIDE DEF S
  <2>1. QED
    BY <1>1, <1>2, UpToBound
<1>4. QED
  BY <1>3

IsSum(p, ns) == p[0] = 0 /\ \A n \in 1 .. Len(ns) : p[n] = p[n - 1] + ns[n]

LEMMA SumsAre ==
  ASSUME NEW ns, Len(ns) \in Nat
  PROVE  IsSum(Sums(ns), ns) /\ Total(ns) = Sums(ns)[Len(ns)]
<1>1. PICK q : SumsUpTo(q, ns, Len(ns))
  BY SumsExist
<1>2. Sums(ns) = [n \in 0 .. Len(ns) |-> IF n = 0 THEN 0 ELSE Sums(ns)[n - 1] + ns[n]]
  BY <1>1 DEF SumsUpTo, Sums
<1>3. Total(ns) = Sums(ns)[Len(ns)]
  BY DEF Total, Sums
<1>4. \A n \in 0 .. Len(ns) : Sums(ns)[n] = IF n = 0 THEN 0 ELSE Sums(ns)[n - 1] + ns[n]
  <2> DEFINE p == Sums(ns)
  <2>1. p = [n \in 0 .. Len(ns) |-> IF n = 0 THEN 0 ELSE p[n - 1] + ns[n]]
    BY <1>2
  <2> HIDE DEF p
  <2>2. \A n \in 0 .. Len(ns) : p[n] = IF n = 0 THEN 0 ELSE p[n - 1] + ns[n]
    BY <2>1
  <2>3. QED
    BY <2>2 DEF p
<1>5. QED
  BY <1>3, <1>4 DEF IsSum

LEMMA ProductsAre ==
  ASSUME NEW ns, Len(ns) \in Nat
  PROVE  IsRun(Products(ns), ns) /\ Product(ns) = Products(ns)[Len(ns)]
<1>1. PICK q : IsUpTo(q, ns, Len(ns))
  BY ProductsExist
<1> DEFINE p == Products(ns)
<1>2. p = [n \in 0 .. Len(ns) |-> IF n = 0 THEN 1 ELSE p[n - 1] * ns[n]]
  BY <1>1 DEF IsUpTo, Products
<1>3. Product(ns) = p[Len(ns)]
  BY DEF Product, Products
<1> HIDE DEF p
<1>4. \A n \in 0 .. Len(ns) : p[n] = IF n = 0 THEN 1 ELSE p[n - 1] * ns[n]
  BY <1>2
<1>5. QED
  BY <1>3, <1>4 DEF IsRun, p

\* Whatever grows like the sums of the beginnings ends as the sum.
LEMMA TotalIsLast ==
  ASSUME NEW n \in Nat, NEW f \in [1 .. n -> Int], NEW p,
         p[0] = 0, \A k \in 1 .. n : p[k] = p[k - 1] + f[k]
  PROVE  Total(f) = p[n] /\ Sums(f)[n] = p[n] /\ p[n] \in Int
<1> DEFINE S == {k \in Nat : Sums(f)[k] = p[k] /\ p[k] \in Int}
<1>1. Len(f) = n
  OBVIOUS
<1>2. IsSum(Sums(f), f) /\ Total(f) = Sums(f)[n]
  BY <1>1, SumsAre
<1>3. 0 \in S
  BY <1>2 DEF IsSum
<1>4. ASSUME NEW k \in 0 .. n, k \in S, k < n PROVE k + 1 \in S
  <2>1. k + 1 \in 1 .. n /\ (k + 1) - 1 = k
    BY <1>4
  <2>2. Sums(f)[k + 1] = Sums(f)[k] + f[k + 1] /\ p[k + 1] = p[k] + f[k + 1] /\ f[k + 1] \in Int
    BY <1>1, <1>2, <2>1 DEF IsSum
  <2>3. QED
    BY <1>4, <2>2
<1> HIDE DEF S
<1>5. 0 .. n \subseteq S
  BY <1>3, <1>4, UpToBound
<1>6. n \in S
  BY <1>5
<1>7. QED
  BY <1>2, <1>6 DEF S

\* The sums themselves grow so.
LEMMA SumsOf ==
  ASSUME NEW n \in Nat, NEW f \in [1 .. n -> Int]
  PROVE  /\ Sums(f)[0] = 0 /\ Total(f) = Sums(f)[n]
         /\ \A k \in 1 .. n : Sums(f)[k] = Sums(f)[k - 1] + f[k]
         /\ \A k \in 0 .. n : Sums(f)[k] \in Int
<1>1. Len(f) = n
  OBVIOUS
<1>2. IsSum(Sums(f), f) /\ Total(f) = Sums(f)[n]
  BY <1>1, SumsAre
<1>3. /\ Sums(f)[0] = 0
      /\ \A k \in 1 .. n : Sums(f)[k] = Sums(f)[k - 1] + f[k]
  BY <1>1, <1>2 DEF IsSum
<1> DEFINE S == {k \in Nat : Sums(f)[k] \in Int}
<1>4. 0 \in S
  BY <1>3
<1>5. ASSUME NEW k \in 0 .. n, k \in S, k < n PROVE k + 1 \in S
  <2>1. k + 1 \in 1 .. n /\ (k + 1) - 1 = k
    BY <1>5
  <2>2. QED
    BY <1>3, <1>5, <2>1
<1> HIDE DEF S
<1>6. 0 .. n \subseteq S
  BY <1>4, <1>5, UpToBound
<1>7. QED
  BY <1>2, <1>3, <1>6 DEF S

LEMMA TotalIsInteger ==
  ASSUME NEW n \in Nat, NEW f \in [1 .. n -> Int]
  PROVE  Total(f) \in Int
BY SumsOf

LEMMA TotalIsNatural ==
  ASSUME NEW n \in Nat, NEW f \in [1 .. n -> Nat]
  PROVE  Total(f) \in Nat /\ \A k \in 0 .. n : Sums(f)[k] \in Nat
<1>1. f \in [1 .. n -> Int]
  OBVIOUS
<1>2. /\ Sums(f)[0] = 0 /\ Total(f) = Sums(f)[n]
      /\ \A k \in 1 .. n : Sums(f)[k] = Sums(f)[k - 1] + f[k]
  BY <1>1, SumsOf
<1> DEFINE S == {k \in Nat : Sums(f)[k] \in Nat}
<1>3. 0 \in S
  BY <1>2
<1>4. ASSUME NEW k \in 0 .. n, k \in S, k < n PROVE k + 1 \in S
  <2>1. k + 1 \in 1 .. n /\ (k + 1) - 1 = k
    BY <1>4
  <2>2. QED
    BY <1>2, <1>4, <2>1
<1> HIDE DEF S
<1>5. 0 .. n \subseteq S
  BY <1>3, <1>4, UpToBound
<1>6. QED
  BY <1>2, <1>5 DEF S

LEMMA TotalOfNone ==
  ASSUME NEW f \in [1 .. 0 -> Int]
  PROVE  Total(f) = 0
BY SumsOf

LEMMA TotalOfBoth ==
  ASSUME NEW n \in Nat, NEW f \in [1 .. n -> Int], NEW g \in [1 .. n -> Int],
         NEW h \in [1 .. n -> Int], \A i \in 1 .. n : h[i] = f[i] + g[i]
  PROVE  Total(h) = Total(f) + Total(g)
<1> DEFINE p == [k \in 0 .. n |-> Sums(f)[k] + Sums(g)[k]]
<1>2. /\ Sums(f)[0] = 0 /\ Total(f) = Sums(f)[n]
      /\ \A k \in 1 .. n : Sums(f)[k] = Sums(f)[k - 1] + f[k]
      /\ \A k \in 0 .. n : Sums(f)[k] \in Int
  BY SumsOf
<1>3. /\ Sums(g)[0] = 0 /\ Total(g) = Sums(g)[n]
      /\ \A k \in 1 .. n : Sums(g)[k] = Sums(g)[k - 1] + g[k]
      /\ \A k \in 0 .. n : Sums(g)[k] \in Int
  BY SumsOf
<1>4. p[0] = 0
  BY <1>2, <1>3
<1>5. ASSUME NEW k \in 1 .. n PROVE p[k] = p[k - 1] + h[k]
  <2>1. k \in 0 .. n /\ k - 1 \in 0 .. n
    OBVIOUS
  <2>2. f[k] \in Int /\ g[k] \in Int
    OBVIOUS
  <2>3. p[k] = Sums(f)[k] + Sums(g)[k] /\ p[k - 1] = Sums(f)[k - 1] + Sums(g)[k - 1] /\ h[k] = f[k] + g[k]
    BY <2>1
  <2>4. Sums(f)[k] = Sums(f)[k - 1] + f[k] /\ Sums(g)[k] = Sums(g)[k - 1] + g[k]
    BY <1>2, <1>3
  <2>5. Sums(f)[k - 1] \in Int /\ Sums(g)[k - 1] \in Int
    BY <1>2, <1>3, <2>1
  <2>6. QED
    BY <2>2, <2>3, <2>4, <2>5
<1>6. p[n] = Total(f) + Total(g)
  BY <1>2, <1>3
<1> HIDE DEF p
<1>7. Total(h) = p[n]
  BY <1>4, <1>5, TotalIsLast
<1>8. QED
  BY <1>6, <1>7
LEMMA TotalOfMultiples ==
  ASSUME NEW n \in Nat, NEW f \in [1 .. n -> Int], NEW c \in Int,
         NEW h \in [1 .. n -> Int], \A i \in 1 .. n : h[i] = c * f[i]
  PROVE  Total(h) = c * Total(f)
<1> DEFINE p == [k \in 0 .. n |-> c * Sums(f)[k]]
<1>2. /\ Sums(f)[0] = 0 /\ Total(f) = Sums(f)[n]
      /\ \A k \in 1 .. n : Sums(f)[k] = Sums(f)[k - 1] + f[k]
      /\ \A k \in 0 .. n : Sums(f)[k] \in Int
  BY SumsOf
<1>3. p[0] = 0
  BY <1>2
<1>4. ASSUME NEW k \in 1 .. n PROVE p[k] = p[k - 1] + h[k]
  <2>1. k \in 0 .. n /\ k - 1 \in 0 .. n /\ f[k] \in Int
    OBVIOUS
  <2>2. p[k] = c * Sums(f)[k] /\ p[k - 1] = c * Sums(f)[k - 1] /\ h[k] = c * f[k]
    BY <2>1
  <2>3. Sums(f)[k] = Sums(f)[k - 1] + f[k] /\ Sums(f)[k - 1] \in Int
    BY <1>2, <2>1
  <2>4. \A a, b \in Int : c * (a + b) = c * a + c * b
    OBVIOUS
  <2>5. QED
    BY <2>1, <2>2, <2>3, <2>4
<1>5. p[n] = c * Total(f)
  BY <1>2
<1> HIDE DEF p
<1>6. Total(h) = p[n]
  BY <1>3, <1>4, TotalIsLast
<1>7. QED
  BY <1>5, <1>6

LEMMA TotalOfEqual ==
  ASSUME NEW n \in Nat, NEW c \in Int,
         NEW h \in [1 .. n -> Int], \A i \in 1 .. n : h[i] = c
  PROVE  Total(h) = n * c
<1> DEFINE p == [k \in 0 .. n |-> k * c]
<1>1. p[0] = 0 /\ p[n] = n * c
  OBVIOUS
<1>2. ASSUME NEW k \in 1 .. n PROVE p[k] = p[k - 1] + h[k]
  <2>1. k \in 0 .. n /\ k - 1 \in 0 .. n /\ k \in Int
    OBVIOUS
  <2>2. p[k] = k * c /\ p[k - 1] = (k - 1) * c /\ h[k] = c
    BY <2>1
  <2>3. QED
    BY <2>1, <2>2
<1> HIDE DEF p
<1>3. Total(h) = p[n]
  BY <1>1, <1>2, TotalIsLast
<1>4. QED
  BY <1>1, <1>3

LEMMA TotalOfOne ==
  ASSUME NEW n \in Nat, NEW j \in 1 .. n, NEW v \in Int,
         NEW h \in [1 .. n -> Int], \A i \in 1 .. n : h[i] = IF i = j THEN v ELSE 0
  PROVE  Total(h) = v
<1> DEFINE p == [k \in 0 .. n |-> IF k < j THEN 0 ELSE v]
<1>1. p[0] = 0 /\ p[n] = v
  OBVIOUS
<1>2. ASSUME NEW k \in 1 .. n PROVE p[k] = p[k - 1] + h[k]
  OBVIOUS
<1> HIDE DEF p
<1>3. Total(h) = p[n]
  BY <1>1, <1>2, TotalIsLast
<1>4. QED
  BY <1>1, <1>3

LEMMA TotalIsMonotone ==
  ASSUME NEW n \in Nat, NEW f \in [1 .. n -> Int], NEW g \in [1 .. n -> Int],
         \A i \in 1 .. n : f[i] <= g[i]
  PROVE  Total(f) <= Total(g)
<1> DEFINE d == [i \in 1 .. n |-> g[i] - f[i]]
<1>1. d \in [1 .. n -> Nat] /\ d \in [1 .. n -> Int]
  OBVIOUS
<1>2. \A i \in 1 .. n : g[i] = f[i] + d[i]
  OBVIOUS
<1>a. n \in Nat /\ f \in [1 .. n -> Int] /\ g \in [1 .. n -> Int]
  OBVIOUS
<1> HIDE DEF d
<1>3. Total(g) = Total(f) + Total(d)
  BY ONLY <1>1, <1>2, <1>a, TotalOfBoth
<1>4. Total(d) \in Nat
  BY <1>1, TotalIsNatural
<1>5. Total(f) \in Int
  BY TotalIsInteger
<1>6. QED
  BY <1>3, <1>4, <1>5

\* The sum of a part is a difference of sums of beginnings.
IsSlice(h, f, n, a, b) ==
    /\ f \in [1 .. n -> Int] /\ h \in [1 .. b -> Int] /\ a + b <= n
    /\ \A i \in 1 .. b : h[i] = f[a + i]

LEMMA TotalOfPart ==
  ASSUME NEW n \in Nat, NEW f, NEW a \in Nat, NEW b \in Nat, NEW h, IsSlice(h, f, n, a, b)
  PROVE  Sums(f)[a + b] = Sums(f)[a] + Total(h)
<1> DEFINE p == [k \in 0 .. b |-> Sums(f)[a + k] - Sums(f)[a]]
<1>1. f \in [1 .. n -> Int] /\ h \in [1 .. b -> Int] /\ a + b <= n /\ \A i \in 1 .. b : h[i] = f[a + i]
  BY DEF IsSlice
<1>2. /\ \A k \in 1 .. n : Sums(f)[k] = Sums(f)[k - 1] + f[k]
      /\ \A k \in 0 .. n : Sums(f)[k] \in Int
  BY <1>1, SumsOf
<1>3. p[0] = 0 /\ p[b] = Sums(f)[a + b] - Sums(f)[a] /\ Sums(f)[a + b] \in Int /\ Sums(f)[a] \in Int
  BY <1>1, <1>2
<1>4. ASSUME NEW k \in 1 .. b PROVE p[k] = p[k - 1] + h[k]
  <2>1. k \in 0 .. b /\ k - 1 \in 0 .. b /\ a + k \in 1 .. n /\ (a + k) - 1 = a + (k - 1) /\ a + (k - 1) \in 0 .. n /\ a \in 0 .. n
    BY <1>1
  <2>2. p[k] = Sums(f)[a + k] - Sums(f)[a] /\ p[k - 1] = Sums(f)[a + (k - 1)] - Sums(f)[a] /\ h[k] = f[a + k]
    BY <1>1, <2>1
  <2>3. Sums(f)[a + k] = Sums(f)[a + (k - 1)] + f[a + k]
    BY <1>2, <2>1
  <2>4. Sums(f)[a + (k - 1)] \in Int /\ Sums(f)[a] \in Int /\ f[a + k] \in Int
    BY <1>1, <1>2, <2>1
  <2>5. QED
    BY <2>2, <2>3, <2>4
<1> HIDE DEF p
<1>5. Total(h) = p[b]
  BY <1>1, <1>3, <1>4, TotalIsLast
<1>6. QED
  BY <1>3, <1>5

\* The sum of two lists after each other.
LEMMA TotalOfJoined ==
  ASSUME NEW m \in Nat, NEW n \in Nat, NEW f \in [1 .. m + n -> Int],
         NEW g \in [1 .. m -> Int], \A i \in 1 .. m : g[i] = f[i],
         NEW h \in [1 .. n -> Int], \A i \in 1 .. n : h[i] = f[m + i]
  PROVE  Total(f) = Total(g) + Total(h)
<1> DEFINE l == m + n
           p == [k \in 0 .. m |-> Sums(f)[k]]
<1>1. l \in Nat /\ f \in [1 .. l -> Int] /\ m + n <= l
  OBVIOUS
<1> HIDE DEF l
<1>2. Sums(f)[m + n] = Sums(f)[m] + Total(h)
  <2>1. IsSlice(h, f, l, m, n)
    BY <1>1 DEF IsSlice
  <2>2. QED
    BY <1>1, <2>1, TotalOfPart
<1>3. /\ Sums(f)[0] = 0 /\ Total(f) = Sums(f)[l]
      /\ \A k \in 1 .. l : Sums(f)[k] = Sums(f)[k - 1] + f[k]
  BY <1>1, SumsOf
<1>4. p[0] = 0 /\ p[m] = Sums(f)[m]
  BY <1>3
<1>5. ASSUME NEW k \in 1 .. m PROVE p[k] = p[k - 1] + g[k]
  BY <1>1, <1>3
<1> HIDE DEF p
<1>6. Total(g) = p[m]
  BY <1>4, <1>5, TotalIsLast
<1>7. QED
  BY <1>2, <1>3, <1>4, <1>6 DEF l

\* Rows and columns may be added up in either order.
AreTotals(h, m, B) == h \in [1 .. m -> Int] /\ \A q \in 1 .. m : h[q] = Total(B[q])
IsTable(M, columns, m, n) ==
    /\ \A i \in 1 .. m : M[i] \in [1 .. n -> Int]
    /\ \A j \in 1 .. n : columns[j] \in [1 .. m -> Int]
    /\ \A i \in 1 .. m : \A j \in 1 .. n : columns[j][i] = M[i][j]

LEMMA TotalOfRows ==
  ASSUME NEW m \in Nat, NEW n \in Nat, NEW M, NEW columns, IsTable(M, columns, m, n),
         NEW g, NEW h, AreTotals(g, m, M), AreTotals(h, n, columns)
  PROVE  Total(g) = Total(h)
<1> USE DEF IsTable, AreTotals
<1> DEFINE sum(j, k) == Sums(columns[j])[k]
           row(k) == [j \in 1 .. n |-> sum(j, k)]
           p == [k \in 0 .. m |-> Total(row(k))]
<1>1. ASSUME NEW j \in 1 .. n
      PROVE  /\ sum(j, 0) = 0 /\ h[j] = sum(j, m)
             /\ \A k \in 1 .. m : sum(j, k) = sum(j, k - 1) + M[k][j]
             /\ \A k \in 0 .. m : sum(j, k) \in Int
  <2> DEFINE c == columns[j]
  <2>1. c \in [1 .. m -> Int] /\ h[j] = Total(c) /\ \A k \in 1 .. m : c[k] = M[k][j]
    OBVIOUS
  <2> HIDE DEF c
  <2>2. /\ Sums(c)[0] = 0 /\ Total(c) = Sums(c)[m]
        /\ \A k \in 1 .. m : Sums(c)[k] = Sums(c)[k - 1] + c[k]
        /\ \A k \in 0 .. m : Sums(c)[k] \in Int
    BY <2>1, SumsOf
  <2>3. QED
    BY <2>1, <2>2 DEF c
<1> HIDE DEF sum
<1>2. \A k \in 0 .. m : row(k) \in [1 .. n -> Int] /\ \A j \in 1 .. n : row(k)[j] = sum(j, k)
  BY <1>1
<1>3. p[0] = Total(row(0)) /\ p[m] = Total(row(m)) /\ \A k \in 1 .. m : p[k] = Total(row(k)) /\ p[k - 1] = Total(row(k - 1))
  OBVIOUS
<1> HIDE DEF p, row
<1>4. p[0] = 0
  <2> DEFINE z == row(0)
  <2>1. z \in [1 .. n -> Int] /\ (\A j \in 1 .. n : z[j] = 0) /\ 0 \in Int
    BY <1>1, <1>2
  <2> HIDE DEF z
  <2>2. Total(z) = n * 0
    BY ONLY <2>1, n \in Nat, TotalOfEqual
  <2>3. QED
    BY <1>3, <2>2 DEF z
<1>5. ASSUME NEW k \in 1 .. m PROVE p[k] = p[k - 1] + g[k]
  <2> DEFINE s == row(k)
             t == row(k - 1)
             u == M[k]
  <2>1. k \in 0 .. m /\ k - 1 \in 0 .. m
    OBVIOUS
  <2>2. s \in [1 .. n -> Int] /\ t \in [1 .. n -> Int] /\ u \in [1 .. n -> Int]
    BY <1>2, <2>1
  <2>3. \A j \in 1 .. n : s[j] = t[j] + u[j]
    BY <1>1, <1>2, <2>1
  <2>4. p[k] = Total(s) /\ p[k - 1] = Total(t) /\ g[k] = Total(u)
    BY <1>3
  <2> HIDE DEF s, t, u
  <2>5. Total(s) = Total(t) + Total(u)
    BY <2>2, <2>3, TotalOfBoth
  <2>6. QED
    BY <2>4, <2>5
<1>6. Total(row(m)) = Total(h)
  <2>1. row(m) \in [1 .. n -> Int] /\ \A j \in 1 .. n : row(m)[j] = h[j]
    BY <1>1, <1>2
  <2>2. row(m) = h
    BY <2>1
  <2>3. QED
    BY <2>2
<1>7. Total(g) = p[m]
  BY <1>4, <1>5, TotalIsLast
<1>8. QED
  BY <1>3, <1>6, <1>7
\* The number of places is the sum of a one for each.
LEMMA CountIsTotal ==
  ASSUME NEW n \in Nat, NEW S \in SUBSET (1 .. n),
         NEW h \in [1 .. n -> Int], \A i \in 1 .. n : h[i] = IF i \in S THEN 1 ELSE 0
  PROVE  Total(h) = Cardinality(S) /\ Cardinality(S) \in Nat
<1> DEFINE below(k) == {i \in S : i <= k}
           p == [k \in 0 .. n |-> Cardinality(below(k))]
<1> DEFINE all == 1 .. n
<1>0. S \subseteq all /\ \A i \in S : i \in Int /\ 1 <= i /\ i <= n
  OBVIOUS
<1>1. IsFiniteSet(all) /\ IsFiniteSet(S)
  <2>1. IsFiniteSet(all)
    BY 1 \in Int, n \in Int, FS_Interval
  <2> HIDE DEF all
  <2>2. QED
    BY <1>0, <2>1, FS_Subset
<1>2. \A k \in 0 .. n : IsFiniteSet(below(k)) /\ Cardinality(below(k)) \in Nat
  <2>1. TAKE k \in 0 .. n
  <2> DEFINE part == below(k)
  <2>2. part \subseteq S
    OBVIOUS
  <2> HIDE DEF part
  <2>3. IsFiniteSet(part)
    BY <1>1, <2>2, FS_Subset
  <2>4. QED
    BY <2>3, FS_CardinalityType DEF part
<1>3. below(0) = {} /\ below(n) = S
  <2>1. \A i : i \in below(0) => FALSE
    BY <1>0
  <2>2. \A i \in S : i \in below(n)
    BY <1>0
  <2>3. below(n) \subseteq S
    OBVIOUS
  <2> HIDE DEF below
  <2>4. QED
    BY <2>1, <2>2, <2>3
<1>4. p[0] = 0 /\ p[n] = Cardinality(S)
  <2>1. p[0] = Cardinality(below(0)) /\ p[n] = Cardinality(below(n))
    OBVIOUS
  <2> HIDE DEF below
  <2>2. QED
    BY <1>3, <2>1, FS_EmptySet
<1>5. ASSUME NEW k \in 1 .. n PROVE p[k] = p[k - 1] + h[k]
  <2>1. k \in 0 .. n /\ k - 1 \in 0 .. n
    OBVIOUS
  <2>2. CASE k \in S
    <3>1. below(k) = below(k - 1) \cup {k} /\ k \notin below(k - 1)
      <4>1. \A i \in S : i <= k <=> i <= k - 1 \/ i = k
        BY <1>0
      <4>2. ~(k <= k - 1) /\ k <= k
        OBVIOUS
      <4>3. QED
        BY <2>2, <4>1, <4>2, Zenon
    <3>2. Cardinality(below(k)) = Cardinality(below(k - 1)) + 1
      <4> HIDE DEF below
      <4>1. QED
        BY <1>2, <2>1, <3>1, FS_AddElement
    <3>3. QED
      BY <2>1, <2>2, <3>2
  <2>3. CASE k \notin S
    <3>1. below(k) = below(k - 1)
      <4>1. \A i \in S : i <= k <=> i <= k - 1
        BY <1>0, <2>3
      <4>2. QED
        BY <4>1, Zenon
    <3> HIDE DEF below
    <3>2. QED
      BY <1>2, <2>1, <2>3, <3>1
  <2>4. QED
    BY <2>2, <2>3
<1>6. Cardinality(S) \in Nat
  BY <1>1, FS_CardinalityType
<1> HIDE DEF p, below
<1>7. Total(h) = p[n]
  BY <1>4, <1>5, TotalIsLast
<1>8. QED
  BY <1>4, <1>6, <1>7

\* The place of the x-th element of the q-th block of b elements.
Place(q, b, x) == (q - 1) * b + x

LEMMA PlaceInBlock ==
  ASSUME NEW m \in Nat, NEW b \in Nat, NEW q \in 1 .. m, NEW x \in 1 .. b
  PROVE  /\ (q - 1) * b \in Nat /\ (q - 1) * b + b = q * b
         /\ q * b <= m * b /\ m * b \in Nat
         /\ Place(q, b, x) \in 1 .. m * b
<1>1. (q - 1) * b \in Nat /\ m * b \in Nat /\ q * b \in Nat
  <2>1. q - 1 \in Nat /\ \A c, d \in Nat : c * d \in Nat
    OBVIOUS
  <2>2. QED
    BY <2>1
<1>2. (q - 1) * b + b = q * b
  OBVIOUS
<1>3. q * b <= m * b
  <2>1. m - q \in Nat /\ (m - q) * b \in Nat
    <3>1. m - q \in Nat /\ \A c, d \in Nat : c * d \in Nat
      OBVIOUS
    <3>2. QED
      BY <3>1
  <2>2. m * b = q * b + (m - q) * b
    OBVIOUS
  <2>3. QED
    BY <1>1, <2>1, <2>2
<1>4. QED
  BY <1>1, <1>2, <1>3 DEF Place

AreBlocks(f, m, b, B) ==
    /\ f \in [1 .. m * b -> Int]
    /\ \A q \in 1 .. m : B[q] \in [1 .. b -> Int]
    /\ \A q \in 1 .. m : \A x \in 1 .. b : B[q][x] = f[Place(q, b, x)]

\* A sum is that of the sums of its blocks.
LEMMA TotalOfBlocks ==
  ASSUME NEW m \in Nat, NEW b \in Nat, NEW f, NEW B, NEW h, AreBlocks(f, m, b, B), AreTotals(h, m, B)
  PROVE  Total(f) = Total(h)
<1> DEFINE l == m * b
           p == [k \in 0 .. m |-> Sums(f)[k * b]]
<1>0. /\ f \in [1 .. l -> Int] /\ h \in [1 .. m -> Int]
      /\ \A q \in 1 .. m : B[q] \in [1 .. b -> Int] /\ h[q] = Total(B[q]) /\ \A x \in 1 .. b : B[q][x] = f[Place(q, b, x)]
  BY DEF AreBlocks, AreTotals
<1>1. l \in Nat /\ 0 * b = 0
  <2>1. \A c, d \in Nat : c * d \in Nat
    OBVIOUS
  <2>2. QED
    BY <2>1
<1>3. p[0] = Sums(f)[0] /\ p[m] = Sums(f)[l]
  BY <1>1
<1>4. \A k \in 0 .. m : p[k] = Sums(f)[k * b]
  OBVIOUS
<1> HIDE DEF p
<1>5. ASSUME NEW q \in 1 .. m PROVE p[q] = p[q - 1] + h[q]
  <2> DEFINE a == (q - 1) * b
             c == B[q]
  <2>1. a \in Nat /\ a + b = q * b /\ a + b <= l
    <3>1. CASE b = 0
      BY <3>1, <1>1
    <3>2. CASE b # 0
      <4>1. 1 \in 1 .. b
        BY <3>2
      <4>2. QED
        BY <4>1, PlaceInBlock
    <3>3. QED
      BY <3>1, <3>2
  <2>2. c \in [1 .. b -> Int] /\ h[q] = Total(c) /\ \A x \in 1 .. b : c[x] = f[a + x]
    BY <1>0 DEF Place
  <2>3. p[q] = Sums(f)[q * b] /\ p[q - 1] = Sums(f)[a]
    <3>1. q \in 0 .. m /\ q - 1 \in 0 .. m
      OBVIOUS
    <3>2. QED
      BY <1>4, <3>1
  <2> HIDE DEF a, c, l
  <2>4. Sums(f)[a + b] = Sums(f)[a] + Total(c)
    <3>1. IsSlice(c, f, l, a, b)
      BY <1>0, <2>1, <2>2 DEF IsSlice
    <3>2. QED
      BY <1>1, <2>1, <3>1, TotalOfPart
  <2>5. QED
    BY <2>1, <2>2, <2>3, <2>4
<1> HIDE DEF l
<1>9. p[0] = 0
  BY <1>0, <1>1, <1>3, SumsOf
<1>6. Sums(f)[0] = 0 /\ Total(f) = Sums(f)[l]
  BY <1>0, <1>1, SumsOf
<1>7. Total(h) = p[m]
  BY ONLY m \in Nat, <1>0, <1>5, <1>9, TotalIsLast
<1>8. QED
  BY <1>3, <1>6, <1>7

-----------------------------------------------------------------------------
(* Quotients. *)

LEMMA QuotientBounds ==
  ASSUME NEW d \in Nat, NEW s \in Nat \ {0}
  PROVE  /\ d \div s \in Nat
         /\ (d \div s) * s <= d
         /\ d < (d \div s) * s + s
  OBVIOUS

\* Fewer steps go less far.
LEMMA StepsAreMonotone ==
  ASSUME NEW k \in Nat, NEW q \in Nat, k <= q, NEW s \in Nat
  PROVE  k * s <= q * s
<1>1. PICK e \in Nat : q = k + e
  BY q - k \in Nat
<1>2. (k + e) * s = k * s + e * s
  OBVIOUS
<1>3. e * s \in Nat /\ k * s \in Nat
  OBVIOUS
<1>4. QED
  BY <1>1, <1>2, <1>3

LEMMA QuotientIsGreatest ==
  ASSUME NEW n \in Nat, NEW b \in Nat \ {0}, NEW a \in Int, a * b <= n
  PROVE  a <= n \div b
<1> DEFINE q == n \div b
<1>1. q \in Nat /\ q * b <= n /\ n < q * b + b
  OBVIOUS
<1> HIDE DEF q
<1>2. SUFFICES ASSUME a >= q + 1 PROVE FALSE
  BY <1>1 DEF q
<1>3. PICK e \in Nat : a = q + 1 + e
  <2>1. a - (q + 1) \in Nat
    BY <1>1, <1>2
  <2>2. a = q + 1 + (a - (q + 1))
    BY <1>1
  <2>3. QED
    BY <2>1, <2>2
<1>4. (q + 1 + e) * b = q * b + b + e * b
  BY <1>1
<1>5. e * b \in Nat /\ q * b \in Nat
  BY <1>1
<1>6. QED
  BY <1>1, <1>3, <1>4, <1>5

LEMMA QuotientAndRest ==
  ASSUME NEW n \in Nat, NEW b \in Nat \ {0}
  PROVE  /\ n \div b \in Nat /\ n % b \in 0 .. (b - 1) /\ n % b \in Nat
         /\ n = (n \div b) * b + (n % b)
<1>1. n \div b \in Nat /\ n % b \in 0 .. (b - 1) /\ n % b \in Nat
  OBVIOUS
<1>2. n = b * (n \div b) + (n % b)
  OBVIOUS
<1>3. b * (n \div b) = (n \div b) * b
  BY <1>1
<1>4. QED
  BY <1>1, <1>2, <1>3

LEMMA QuotientIs ==
  ASSUME NEW b \in Nat \ {0}, NEW q \in Nat, NEW x \in 0 .. (b - 1), NEW n, n = q * b + x
  PROVE  n \in Nat /\ n \div b = q /\ n % b = x
<1> DEFINE d == n \div b
           y == n % b
<1>1. q * b \in Nat /\ n \in Nat
  <2>1. \A c, e \in Nat : c * e \in Nat
    OBVIOUS
  <2>2. QED
    BY <2>1
<1>2. d \in Nat /\ y \in 0 .. (b - 1) /\ n = d * b + y
  BY <1>1, QuotientAndRest
<1> HIDE DEF d, y
<1>3. \A c, e \in Nat : c < e => c * b + b <= e * b
  <2>1. SUFFICES ASSUME NEW c \in Nat, NEW e \in Nat, c < e PROVE c * b + b <= e * b
    OBVIOUS
  <2>2. (c + 1) * b <= e * b
    BY <2>1, StepsAreMonotone
  <2>3. (c + 1) * b = c * b + b
    OBVIOUS
  <2>4. QED
    BY <2>2, <2>3
<1>4. d * b \in Nat
  <2>1. \A c, e \in Nat : c * e \in Nat
    OBVIOUS
  <2>2. QED
    BY <1>2, <2>1
<1>5. ~(d < q) /\ ~(q < d)
  BY <1>1, <1>2, <1>3, <1>4
<1>6. d = q
  BY <1>2, <1>5
<1>7. y = x
  BY <1>1, <1>2, <1>6
<1>8. QED
  BY <1>1, <1>6, <1>7 DEF d, y

\* The block of a place, and the place in its block.
LEMMA BlockOfPlace ==
  ASSUME NEW b \in Nat \ {0}, NEW q \in Nat \ {0}, NEW x \in 1 .. b, NEW k, k = Place(q, b, x)
  PROVE  (k - 1) \div b = q - 1 /\ (k - 1) % b = x - 1
<1> DEFINE n == k - 1
           y == x - 1
           d == q - 1
<1>1. d \in Nat /\ y \in 0 .. (b - 1)
  OBVIOUS
<1>2. n = d * b + y
  <2>1. (q - 1) * b \in Nat
    <3>1. q - 1 \in Nat /\ \A c, e \in Nat : c * e \in Nat
      OBVIOUS
    <3>2. QED
      BY <3>1
  <2>2. QED
    BY <2>1 DEF Place
<1> HIDE DEF n, y, d
<1>3. n \div b = d /\ n % b = y
  BY <1>1, <1>2, QuotientIs
<1>4. QED
  BY <1>3 DEF n, y, d

\* Every element of a list b times, or the list again and again.
IsStretched(f, m, b, u) ==
    /\ f \in [1 .. m * b -> Int] /\ u \in [1 .. m -> Int]
    /\ \A q \in 1 .. m : \A x \in 1 .. b : f[Place(q, b, x)] = u[q]
IsRepeated(f, m, b, u) ==
    /\ f \in [1 .. m * b -> Int] /\ u \in [1 .. b -> Int]
    /\ \A q \in 1 .. m : \A x \in 1 .. b : f[Place(q, b, x)] = u[x]

LEMMA TotalOfStretched ==
  ASSUME NEW m \in Nat, NEW b \in Nat, NEW f, NEW u, IsStretched(f, m, b, u)
  PROVE  Total(f) = b * Total(u)
<1> DEFINE B == [q \in 1 .. m |-> [x \in 1 .. b |-> u[q]]]
           h == [q \in 1 .. m |-> b * u[q]]
<1>0. u \in [1 .. m -> Int]
  BY DEF IsStretched
<1>1. \A q \in 1 .. m : B[q] \in [1 .. b -> Int] /\ \A x \in 1 .. b : B[q][x] = u[q]
  BY <1>0
<1>2. h \in [1 .. m -> Int] /\ \A q \in 1 .. m : h[q] = b * u[q]
  BY <1>0
<1> HIDE DEF B, h
<1>3. ASSUME NEW q \in 1 .. m PROVE h[q] = Total(B[q])
  <2> DEFINE c == B[q]
             e == u[q]
  <2>1. c \in [1 .. b -> Int] /\ (\A x \in 1 .. b : c[x] = e) /\ e \in Int /\ h[q] = b * e
    BY <1>0, <1>1, <1>2
  <2> HIDE DEF c, e
  <2>2. Total(c) = b * e
    BY ONLY <2>1, TotalOfEqual
  <2>3. QED
    BY <2>1, <2>2 DEF c
<1>4. AreBlocks(f, m, b, B) /\ AreTotals(h, m, B)
  BY <1>1, <1>2, <1>3 DEF AreBlocks, AreTotals, IsStretched
<1>5. Total(f) = Total(h)
  BY <1>4, TotalOfBlocks
<1>6. Total(h) = b * Total(u)
  <2>1. b \in Int
    OBVIOUS
  <2>2. QED
    BY ONLY <1>0, <1>2, <2>1, TotalOfMultiples
<1>7. QED
  BY <1>5, <1>6

LEMMA TotalOfRepeated ==
  ASSUME NEW m \in Nat, NEW b \in Nat, NEW f, NEW u, IsRepeated(f, m, b, u)
  PROVE  Total(f) = m * Total(u)
<1> DEFINE B == [q \in 1 .. m |-> u]
           c == Total(u)
           h == [q \in 1 .. m |-> c]
<1>1. c \in Int
  BY TotalIsInteger DEF IsRepeated
<1>2. h \in [1 .. m -> Int] /\ \A q \in 1 .. m : h[q] = c
  BY <1>1
<1>3. \A q \in 1 .. m : B[q] = u
  OBVIOUS
<1>4. \A q \in 1 .. m : h[q] = Total(B[q])
  BY <1>2, <1>3
<1> HIDE DEF B, h
<1>5. AreBlocks(f, m, b, B) /\ AreTotals(h, m, B)
  BY <1>2, <1>3, <1>4 DEF AreBlocks, AreTotals, IsRepeated
<1>6. Total(f) = Total(h)
  BY <1>5, TotalOfBlocks
<1> HIDE DEF c
<1>7. Total(h) = m * c
  BY ONLY <1>1, <1>2, TotalOfEqual
<1>8. QED
  BY <1>6, <1>7 DEF c

\* An element of a list for each place, the next after t places.
IsCycled(f, A, s, t, v) ==
    /\ f \in [1 .. (A * s) * t -> Int] /\ v \in [1 .. s -> Int]
    /\ \A k \in 1 .. (A * s) * t : f[k] = v[1 + (((k - 1) \div t) % s)]

LEMMA TotalOfCycle ==
  ASSUME NEW A \in Nat, NEW s \in Nat \ {0}, NEW t \in Nat \ {0}, NEW f, NEW v, IsCycled(f, A, s, t, v)
  PROVE  Total(f) = (t * A) * Total(v)
<1> DEFINE m == A * s
           h == [q \in 1 .. m |-> v[1 + ((q - 1) % s)]]
<1>0. /\ f \in [1 .. m * t -> Int] /\ v \in [1 .. s -> Int]
      /\ \A k \in 1 .. m * t : f[k] = v[1 + (((k - 1) \div t) % s)]
  BY DEF IsCycled
<1>1. m \in Nat
  <2>1. \A c, e \in Nat : c * e \in Nat
    OBVIOUS
  <2>2. QED
    BY <2>1
<1>2. h \in [1 .. m -> Int] /\ \A q \in 1 .. m : h[q] = v[1 + ((q - 1) % s)]
  <2>1. \A q \in 1 .. m : 1 + ((q - 1) % s) \in 1 .. s
    OBVIOUS
  <2>2. QED
    BY <1>0, <2>1
<1> HIDE DEF h
<1>3. ASSUME NEW q \in 1 .. m, NEW x \in 1 .. t PROVE f[Place(q, t, x)] = h[q]
  <2> DEFINE k == Place(q, t, x)
  <2>1. k \in 1 .. m * t /\ t \in Nat
    BY <1>1, PlaceInBlock
  <2> HIDE DEF m
  <2>2. q \in Nat \ {0} /\ k = Place(q, t, x)
    BY <1>1
  <2> HIDE DEF k
  <2>3. (k - 1) \div t = q - 1
    BY ONLY <2>2, BlockOfPlace
  <2>4. f[k] = h[q]
    BY <1>0, <1>2, <2>1, <2>3
  <2>5. QED
    BY <2>4 DEF k
<1>4. ASSUME NEW q \in 1 .. A, NEW x \in 1 .. s PROVE h[Place(q, s, x)] = v[x]
  <2> DEFINE k == Place(q, s, x)
  <2>1. k \in 1 .. m /\ s \in Nat
    BY PlaceInBlock
  <2>2. q \in Nat \ {0} /\ k = Place(q, s, x)
    OBVIOUS
  <2> HIDE DEF k
  <2>3. (k - 1) % s = x - 1
    BY ONLY <2>2, BlockOfPlace
  <2>4. 1 + (x - 1) = x
    OBVIOUS
  <2>5. h[k] = v[x]
    BY <1>2, <2>1, <2>3, <2>4
  <2>6. QED
    BY <2>5 DEF k
<1>5. Total(h) = A * Total(v)
  <2>1. s \in Nat /\ IsRepeated(h, A, s, v)
    BY <1>0, <1>2, <1>4 DEF IsRepeated
  <2>2. QED
    BY <2>1, TotalOfRepeated
<1>6. Total(f) = t * Total(h)
  <2>1. t \in Nat /\ IsStretched(f, m, t, h)
    BY <1>0, <1>2, <1>3 DEF IsStretched
  <2> HIDE DEF m
  <2>2. QED
    BY <1>1, <2>1, TotalOfStretched
<1>7. t * (A * Total(v)) = (t * A) * Total(v)
  <2>1. Total(v) \in Int
    BY s \in Nat, <1>0, TotalIsInteger
  <2>2. QED
    BY <2>1
<1>8. QED
  BY <1>5, <1>6, <1>7

-----------------------------------------------------------------------------
(* The weight of a dimension: the configurations of those that move faster. *)
Weight(s, i) == Product(SubSeq(s, i + 1, Len(s)))

LEMMA ProductsOf ==
  ASSUME NEW ns \in Seq(Nat \ {0})
  PROVE  /\ Products(ns)[0] = 1 /\ Product(ns) = Products(ns)[Len(ns)]
         /\ \A k \in 1 .. Len(ns) : Products(ns)[k] = Products(ns)[k - 1] * ns[k]
         /\ \A k \in 0 .. Len(ns) : Products(ns)[k] \in Nat \ {0}
         /\ Product(ns) \in Nat \ {0}
<1>1. Len(ns) \in Nat /\ Len(ns) \in 0 .. Len(ns)
  OBVIOUS
<1>2. IsRun(Products(ns), ns) /\ Product(ns) = Products(ns)[Len(ns)]
  BY <1>1, ProductsAre
<1>3. \A k \in 0 .. Len(ns) : Products(ns)[k] \in Nat \ {0}
  BY <1>2, RunOfPositives
<1>4. QED
  BY <1>1, <1>2, <1>3 DEF IsRun

\* One more factor in front.
IsLonger(g, x, h) ==
  /\ g \in Seq(Nat \ {0}) /\ h \in Seq(Nat \ {0}) /\ x \in Nat \ {0}
  /\ Len(g) = Len(h) + 1 /\ g[1] = x
  /\ \A k \in 1 .. Len(h) : g[k + 1] = h[k]

LEMMA ProductOfLonger ==
  ASSUME NEW g, NEW x, NEW h, IsLonger(g, x, h)
  PROVE  Product(g) = x * Product(h)
<1> DEFINE p == Products(g)
           q == Products(h)
           n == Len(h)
           T == {k \in 0 .. n : p[k + 1] = x * q[k]}
<1>1. /\ g \in Seq(Nat \ {0}) /\ h \in Seq(Nat \ {0}) /\ x \in Nat \ {0}
      /\ Len(g) = n + 1 /\ g[1] = x /\ n \in Nat
      /\ \A k \in 1 .. n : g[k + 1] = h[k]
  BY DEF IsLonger
<1>2. /\ p[0] = 1 /\ Product(g) = p[n + 1]
      /\ \A k \in 1 .. n + 1 : p[k] = p[k - 1] * g[k]
      /\ \A k \in 0 .. n + 1 : p[k] \in Nat \ {0}
  BY <1>1, ProductsOf
<1>3. /\ q[0] = 1 /\ Product(h) = q[n]
      /\ \A k \in 1 .. n : q[k] = q[k - 1] * h[k]
      /\ \A k \in 0 .. n : q[k] \in Nat \ {0}
  BY <1>1, ProductsOf
<1> HIDE DEF p, q, n
<1>4. 0 \in T
  <2>1. 1 \in 1 .. n + 1 /\ 1 - 1 = 0 /\ 0 \in 0 .. n /\ 0 + 1 = 1
    BY <1>1
  <2>2. p[1] = p[0] * g[1]
    BY <1>2, <2>1
  <2>3. QED
    BY <1>1, <1>2, <1>3, <2>1, <2>2
<1>5. ASSUME NEW k \in 0 .. n, k \in T, k < n PROVE k + 1 \in T
  <2>1. k + 1 \in 1 .. n /\ (k + 1) - 1 = k /\ (k + 1) + 1 \in 1 .. n + 1 /\ ((k + 1) + 1) - 1 = k + 1 /\ k + 1 \in 0 .. n
    BY <1>1, <1>5
  <2>2. g[(k + 1) + 1] = h[k + 1]
    BY <1>1, <2>1
  <2>a. p[(k + 1) + 1] = p[k + 1] * g[(k + 1) + 1]
    <3> DEFINE j == (k + 1) + 1
    <3>1. j \in 1 .. n + 1 /\ j - 1 = k + 1
      BY <2>1
    <3> HIDE DEF j
    <3>2. p[j] = p[j - 1] * g[j]
      BY ONLY <1>2, <3>1
    <3>3. p[j] = p[k + 1] * g[j]
      BY ONLY <3>1, <3>2
    <3>4. QED
      BY ONLY <3>3 DEF j
  <2>b. h[k + 1] \in Nat
    BY <1>1, <2>1 DEF n
  <2>3. q[k + 1] = q[k] * h[k + 1] /\ q[k] \in Nat
    BY <1>3, <2>1
  <2>4. p[k + 1] = x * q[k]
    BY <1>5
  <2>5. (x * q[k]) * h[k + 1] = x * (q[k] * h[k + 1])
    BY <1>1, <2>b, <2>3
  <2>6. QED
    BY <2>1, <2>2, <2>a, <2>3, <2>4, <2>5
<1>6. 0 .. n \subseteq T
  <2> HIDE DEF T
  <2>1. \A k \in 0 .. n : k \in T /\ k < n => k + 1 \in T
    BY <1>5
  <2>2. QED
    BY ONLY <1>1, <1>4, <2>1, UpToBound
<1>7. n \in T
  BY <1>1, <1>6
<1>8. QED
  BY <1>2, <1>3, <1>7

IsDimensions(s) == s \in Seq(Nat \ {0})

LEMMA WeightIs ==
  ASSUME NEW s, IsDimensions(s)
  PROVE  /\ Weight(s, Len(s)) = 1 /\ Weight(s, 0) = Product(s)
         /\ \A i \in 0 .. Len(s) : Weight(s, i) \in Nat \ {0}
         /\ \A i \in 1 .. Len(s) : Weight(s, i - 1) = s[i] * Weight(s, i) /\ s[i] \in Nat \ {0}
<1> DEFINE n == Len(s)
           rest(i) == SubSeq(s, i + 1, n)
<1>1. s \in Seq(Nat \ {0}) /\ n \in Nat
  BY DEF IsDimensions
<1>2. ASSUME NEW i \in 0 .. n
      PROVE  rest(i) \in Seq(Nat \ {0}) /\ Len(rest(i)) = n - i /\ \A k \in 1 .. n - i : rest(i)[k] = s[i + k]
  <2>1. i + 1 \in 1 .. n + 1 /\ n \in (i + 1) - 1 .. n /\ \A k \in (i + 1) .. n : s[k] \in Nat \ {0}
    BY <1>1
  <2>2. Len(rest(i)) = n - i /\ \A k \in 1 .. n - i : rest(i)[k] = s[(i + 1) + k - 1]
    BY <1>1, <2>1
  <2>3. rest(i) \in Seq(Nat \ {0})
    BY <1>1, <2>1
  <2>4. \A k \in 1 .. n - i : (i + 1) + k - 1 = i + k
    OBVIOUS
  <2>5. QED
    BY <2>2, <2>3, <2>4
<1>3. \A i \in 0 .. n : Weight(s, i) = Product(rest(i))
  BY DEF Weight
<1>4. \A i \in 0 .. n : Product(rest(i)) \in Nat \ {0}
  BY <1>2, ProductsOf
<1>5. Product(rest(n)) = 1
  <2>1. n \in 0 .. n /\ n - n = 0
    BY <1>1
  <2>2. rest(n) \in Seq(Nat \ {0}) /\ Len(rest(n)) = 0
    BY <1>2, <2>1
  <2> DEFINE e == rest(n)
  <2> HIDE DEF rest
  <2>3. Products(e)[0] = 1 /\ Product(e) = Products(e)[Len(e)]
    BY <2>2, ProductsOf
  <2>4. QED
    BY <2>2, <2>3
<1>6. rest(0) = s
  <2>1. 0 \in 0 .. n /\ n - 0 = n /\ \A k \in 1 .. n : 0 + k = k
    BY <1>1
  <2> HIDE DEF rest
  <2>2. rest(0) \in Seq(Nat \ {0}) /\ Len(rest(0)) = Len(s) /\ \A k \in 1 .. Len(s) : rest(0)[k] = s[k]
    <3>1. rest(0) \in Seq(Nat \ {0}) /\ Len(rest(0)) = n - 0 /\ \A k \in 1 .. n - 0 : rest(0)[k] = s[0 + k]
      <4>1. 0 \in 0 .. n
        BY <2>1
      <4> HIDE DEF n
      <4>2. QED
        BY ONLY <1>2, <4>1
    <3>2. QED
      BY <2>1, <3>1
  <2>3. QED
    BY <1>1, <2>2, SeqEqual
<1>7. ASSUME NEW i \in 1 .. n PROVE Product(rest(i - 1)) = s[i] * Product(rest(i)) /\ s[i] \in Nat \ {0}
  <2>1. i - 1 \in 0 .. n /\ i \in 0 .. n /\ n - (i - 1) = (n - i) + 1 /\ (i - 1) + 1 = i /\ n - i \in Nat
        /\ 1 \in 1 .. n - (i - 1) /\ \A k \in 1 .. n - i : k + 1 \in 1 .. n - (i - 1) /\ (i - 1) + (k + 1) = i + k
    BY <1>1
  <2>2. s[i] \in Nat \ {0}
    BY <1>1
  <2>3. rest(i - 1) \in Seq(Nat \ {0}) /\ Len(rest(i - 1)) = n - (i - 1) /\ rest(i - 1)[1] = s[i]
        /\ \A k \in 1 .. n - i : rest(i - 1)[k + 1] = s[i + k]
    BY <1>2, <2>1
  <2>4. rest(i) \in Seq(Nat \ {0}) /\ Len(rest(i)) = n - i /\ \A k \in 1 .. n - i : rest(i)[k] = s[i + k]
    BY <1>2, <2>1
  <2> HIDE DEF rest, n
  <2>5. IsLonger(rest(i - 1), s[i], rest(i))
    BY <2>1, <2>2, <2>3, <2>4 DEF IsLonger
  <2>6. QED
    BY <2>2, <2>5, ProductOfLonger
<1>8. \A i \in 1 .. n : i - 1 \in 0 .. n /\ i \in 0 .. n
  BY <1>1
<1>9. n \in 0 .. n /\ 0 \in 0 .. n
  BY <1>1
<1> HIDE DEF rest
<1>10. QED
  BY <1>3, <1>4, <1>5, <1>6, <1>7, <1>8, <1>9

\* What comes before a dimension and what comes after it make the whole.
LEMMA WeightCompletes ==
  ASSUME NEW s, IsDimensions(s), NEW i \in 0 .. Len(s)
  PROVE  Products(s)[i] * Weight(s, i) = Product(s) /\ Products(s)[i] \in Nat \ {0}
<1> DEFINE n == Len(s)
           p == Products(s)
           T == {k \in 0 .. n : p[k] * Weight(s, k) = Product(s)}
<1>1. s \in Seq(Nat \ {0}) /\ n \in Nat
  BY DEF IsDimensions
<1>2. /\ p[0] = 1
      /\ \A k \in 1 .. n : p[k] = p[k - 1] * s[k]
      /\ \A k \in 0 .. n : p[k] \in Nat \ {0}
  BY <1>1, ProductsOf
<1>3. /\ Weight(s, 0) = Product(s)
      /\ \A k \in 0 .. n : Weight(s, k) \in Nat \ {0}
      /\ \A k \in 1 .. n : Weight(s, k - 1) = s[k] * Weight(s, k) /\ s[k] \in Nat \ {0}
  BY WeightIs
<1> HIDE DEF p, n
<1>4. 0 \in T
  <2>1. 0 \in 0 .. n
    BY <1>1
  <2>2. QED
    BY <1>2, <1>3, <2>1
<1>5. ASSUME NEW k \in 0 .. n, k \in T, k < n PROVE k + 1 \in T
  <2>1. k + 1 \in 1 .. n /\ (k + 1) - 1 = k /\ k + 1 \in 0 .. n
    BY <1>1, <1>5
  <2> DEFINE a == p[k]
             b == s[k + 1]
             t == Weight(s, k + 1)
  <2>2. p[k + 1] = a * b /\ Weight(s, k) = b * t /\ a * Weight(s, k) = Product(s)
    BY <1>2, <1>3, <1>5, <2>1
  <2>3. a \in Nat /\ b \in Nat /\ t \in Nat
    BY <1>2, <1>3, <2>1
  <2> HIDE DEF a, b, t
  <2>4. (a * b) * t = a * (b * t)
    BY <2>3
  <2>5. p[k + 1] * t = Product(s)
    BY <2>2, <2>4
  <2>6. QED
    BY <2>1, <2>5 DEF t
<1>6. 0 .. n \subseteq T
  <2> HIDE DEF T
  <2>1. \A k \in 0 .. n : k \in T /\ k < n => k + 1 \in T
    BY <1>5
  <2>2. QED
    BY ONLY <1>1, <1>4, <2>1, UpToBound
<1>7. i \in T
  BY <1>6 DEF n
<1>8. QED
  BY <1>2, <1>7 DEF n, p

-----------------------------------------------------------------------------
(* Digits: the place of a configuration decides its choices. *)

\* Dividing by a product is dividing twice.
\* The quotient and the rest of k by a product.
DividesTwice(k, T, b) ==
  /\ b * T \in Nat \ {0}
  /\ k \div (b * T) = (k \div T) \div b
  /\ k % (b * T) = ((k \div T) % b) * T + (k % T)

LEMMA ProductDivides ==
  ASSUME NEW k \in Nat, NEW T \in Nat \ {0}, NEW b \in Nat \ {0}
  PROVE  DividesTwice(k, T, b)
<1> DEFINE q == k \div T
           r == k % T
           e == q \div b
           d == q % b
           w == b * T
           x == d * T + r
<1>1. q \in Nat /\ r \in 0 .. (T - 1) /\ r \in Nat /\ k = q * T + r
  BY QuotientAndRest
<1> HIDE DEF q, r
<1>2. e \in Nat /\ d \in 0 .. (b - 1) /\ d \in Nat /\ q = e * b + d
  BY <1>1, QuotientAndRest
<1> HIDE DEF e, d
<1>3. T \in Nat /\ b \in Nat /\ 1 <= T /\ 1 <= b
  OBVIOUS
<1>4. \A c, f \in Nat : c * f \in Nat
  OBVIOUS
<1>5. d * T + T <= w
  <2>1. (d + 1) * T <= b * T
    <3>1. d + 1 \in Nat /\ d + 1 <= b
      BY <1>2, <1>3
    <3>2. QED
      BY <1>3, <3>1, StepsAreMonotone
  <2>2. (d + 1) * T = d * T + T
    BY <1>2, <1>3
  <2>3. QED
    BY <2>1, <2>2
<1>6. w \in Nat /\ d * T \in Nat
  BY <1>2, <1>3, <1>4
<1>7. x \in 0 .. (w - 1) /\ w \in Nat \ {0}
  BY <1>1, <1>3, <1>5, <1>6
<1>8. k = e * w + x
  <2>1. (e * b) * T = e * (b * T)
    BY <1>2, <1>3
  <2>2. (e * b + d) * T = (e * b) * T + d * T
    <3>1. e * b \in Nat
      BY <1>2, <1>3, <1>4
    <3> DEFINE u == e * b
    <3> HIDE DEF u
    <3>2. u \in Nat => (u + d) * T = u * T + d * T
      BY <1>2, <1>3
    <3>3. QED
      BY <3>1, <3>2 DEF u
  <2>3. e * w \in Nat
    BY <1>2, <1>4, <1>6
  <2>4. QED
    BY <1>1, <1>2, <1>6, <2>1, <2>2, <2>3
<1> HIDE DEF w, x
<1>9. k \div w = e /\ k % w = x
  BY <1>2, <1>7, <1>8, QuotientIs
<1>10. QED
  BY <1>7, <1>9 DEF w, x, e, d, q, r, DividesTwice

LEMMA QuotientOfProduct ==
  ASSUME NEW k \in Nat, NEW T \in Nat \ {0}, NEW b \in Nat \ {0}
  PROVE  /\ b * T \in Nat \ {0}
         /\ k \div (b * T) = (k \div T) \div b
         /\ k % (b * T) = ((k \div T) % b) * T + (k % T)
<1>1. DividesTwice(k, T, b)
  BY ProductDivides
<1>2. QED
  BY ONLY <1>1 DEF DividesTwice

LEMMA NextQuotient ==
  ASSUME NEW k \in Nat, NEW T \in Nat \ {0}
  PROVE  /\ (k % T) + 1 = T => (k + 1) \div T = (k \div T) + 1
         /\ (k % T) + 1 # T => (k + 1) \div T = k \div T
<1> DEFINE q == k \div T
           r == k % T
           n == k + 1
<1>1. q \in Nat /\ r \in 0 .. (T - 1) /\ r \in Nat /\ k = q * T + r
  BY QuotientAndRest
<1> HIDE DEF q, r
<1>2. q * T \in Nat /\ (q + 1) * T = q * T + T
  <2>1. T \in Nat /\ \A c, f \in Nat : c * f \in Nat
    OBVIOUS
  <2>2. QED
    BY <1>1, <2>1
<1>3. ASSUME r + 1 = T PROVE n \div T = q + 1
  <2> DEFINE e == q + 1
             z == 0
  <2>1. n = e * T + z
    BY <1>1, <1>2, <1>3
  <2>2. e \in Nat /\ z \in 0 .. (T - 1)
    BY <1>1
  <2> HIDE DEF n, e, z
  <2>3. n \div T = e
    BY <2>1, <2>2, QuotientIs
  <2>4. QED
    BY <2>3 DEF e
<1>4. ASSUME r + 1 # T PROVE n \div T = q
  <2> DEFINE z == r + 1
  <2>1. n = q * T + z
    BY <1>1, <1>2
  <2>2. z \in 0 .. (T - 1)
    BY <1>1, <1>4
  <2> HIDE DEF n, z
  <2>3. QED
    BY <1>1, <2>1, <2>2, QuotientIs
<1>5. QED
  BY <1>3, <1>4 DEF q, r, n

Digit(s, k, i) == 1 + ((k \div Weight(s, i)) % s[i])
IsFull(s, k, i) == (k % Weight(s, i)) + 1 = Weight(s, i)

LEMMA DigitIsChoice ==
  ASSUME NEW s, IsDimensions(s), NEW k \in Nat, NEW i \in 1 .. Len(s)
  PROVE  Digit(s, k, i) \in 1 .. s[i] /\ s[i] \in Nat \ {0}
<1>1. Len(s) \in Nat
  BY DEF IsDimensions
<1>2. Weight(s, i) \in Nat \ {0} /\ s[i] \in Nat \ {0}
  BY <1>1, WeightIs
<1>3. k \div Weight(s, i) \in Nat
  BY <1>2, QuotientAndRest
<1>4. (k \div Weight(s, i)) % s[i] \in 0 .. (s[i] - 1)
  BY <1>2, <1>3, QuotientAndRest
<1>5. QED
  BY <1>2, <1>4 DEF Digit

LEMMA DigitFills ==
  ASSUME NEW s, IsDimensions(s), NEW k \in Nat, NEW i \in 1 .. Len(s)
  PROVE  IsFull(s, k, i - 1) <=> Digit(s, k, i) = s[i] /\ IsFull(s, k, i)
<1> DEFINE T == Weight(s, i)
           b == s[i]
           d == (k \div T) % b
           r == k % T
<1>0. Len(s) \in Nat
  BY DEF IsDimensions
<1>1. T \in Nat \ {0} /\ b \in Nat \ {0} /\ Weight(s, i - 1) = b * T
  BY <1>0, WeightIs
<1>2. k \div T \in Nat /\ r \in 0 .. (T - 1)
  BY <1>1, QuotientAndRest
<1>3. d \in 0 .. (b - 1)
  BY <1>1, <1>2, QuotientAndRest
<1>4. k % (b * T) = d * T + r
  BY <1>1, QuotientOfProduct
<1>5. Digit(s, k, i) = 1 + d
  BY DEF Digit
<1>6. IsFull(s, k, i) <=> r + 1 = T
  BY DEF IsFull
<1>7. IsFull(s, k, i - 1) <=> (d * T + r) + 1 = b * T
  BY <1>1, <1>4 DEF IsFull
<1> HIDE DEF T, b, d, r
<1>8. T \in Nat /\ b \in Nat /\ d \in Nat /\ r \in Nat /\ \A c, f \in Nat : c * f \in Nat
  BY <1>1, <1>2, <1>3
<1>9. (d + 1) * T = d * T + T
  BY <1>8
<1>10. d + 1 # b => (d + 1) * T + T <= b * T
  <2>1. SUFFICES ASSUME d + 1 # b PROVE (d + 1) * T + T <= b * T
    OBVIOUS
  <2>2. d + 2 \in Nat /\ d + 2 <= b
    BY <1>3, <1>8, <2>1
  <2>3. (d + 2) * T <= b * T
    BY <1>8, <2>2, StepsAreMonotone
  <2>4. (d + 2) * T = (d + 1) * T + T
    BY <1>8
  <2>5. QED
    BY <2>3, <2>4
<1>11. d * T \in Nat /\ b * T \in Nat
  BY <1>8
<1>12. d + 1 = b => b * T = d * T + T
  BY <1>8, <1>9
<1>13. (d * T + r) + 1 = b * T <=> d + 1 = b /\ r + 1 = T
  BY <1>2, <1>8, <1>9, <1>10, <1>11, <1>12
<1>14. Digit(s, k, i) = b <=> d + 1 = b
  BY <1>5, <1>8
<1>15. QED
  BY <1>6, <1>7, <1>13, <1>14 DEF b

LEMMA FirstDigit ==
  ASSUME NEW s, IsDimensions(s), NEW i \in 1 .. Len(s)
  PROVE  Digit(s, 0, i) = 1
<1>1. Len(s) \in Nat
  BY DEF IsDimensions
<1>2. Weight(s, i) \in Nat \ {0} /\ s[i] \in Nat \ {0}
  BY <1>1, WeightIs
<1> DEFINE t == Weight(s, i)
           b == s[i]
<1> HIDE DEF t, b
<1>3. 0 \div t = 0 /\ 0 % b = 0
  <2>1. t \in Nat \ {0} /\ b \in Nat \ {0}
    BY <1>2 DEF t, b
  <2>2. 0 \in 0 .. (t - 1) /\ 0 = 0 * t + 0 /\ 0 \in 0 .. (b - 1) /\ 0 = 0 * b + 0 /\ 0 \in Nat
    BY <2>1
  <2>3. 0 \div t = 0
    BY ONLY <2>1, <2>2, QuotientIs
  <2>4. 0 % b = 0
    BY ONLY <2>1, <2>2, QuotientIs
  <2>5. QED
    BY <2>3, <2>4
<1>4. QED
  BY <1>3 DEF Digit, t, b

LEMMA RestOfSmall ==
  ASSUME NEW w \in Nat \ {0}, NEW k \in 0 .. (w - 1)
  PROVE  k % w = k
<1>1. k = 0 * w + k /\ 0 \in Nat
  OBVIOUS
<1>2. QED
  BY ONLY <1>1, w \in Nat \ {0}, k \in 0 .. (w - 1), QuotientIs

\* The fastest dimensions that stand at their last choice.
LEMMA FullOnes ==
  ASSUME NEW s, IsDimensions(s), NEW k \in Nat
  PROVE  /\ IsFull(s, k, Len(s))
         /\ k < Product(s) => (IsFull(s, k, 0) <=> k + 1 = Product(s))
         /\ Product(s) \in Nat \ {0}
<1>1. Len(s) \in Nat /\ 0 \in 0 .. Len(s)
  BY DEF IsDimensions
<1>2. Weight(s, Len(s)) = 1 /\ Weight(s, 0) = Product(s) /\ Product(s) \in Nat \ {0}
  BY <1>1, WeightIs
<1>3. k % 1 = 0
  OBVIOUS
<1>4. IsFull(s, k, Len(s))
  BY <1>2, <1>3 DEF IsFull
<1> DEFINE w == Product(s)
<1>5. k < w => k % w = k
  <2>1. w \in Nat \ {0}
    BY <1>2
  <2> HIDE DEF w
  <2>2. SUFFICES ASSUME k < w PROVE k % w = k
    OBVIOUS
  <2>3. k \in 0 .. (w - 1) /\ k = 0 * w + k /\ 0 \in Nat
    BY <2>1, <2>2
  <2>4. QED
    BY ONLY <2>1, <2>3, QuotientIs
<1>6. QED
  BY <1>2, <1>4, <1>5 DEF IsFull

LEMMA FullIsUpward ==
  ASSUME NEW s, IsDimensions(s), NEW k \in Nat, NEW i \in 0 .. Len(s), IsFull(s, k, i)
  PROVE  \A j \in 0 .. Len(s) : i <= j => IsFull(s, k, j)
<1> DEFINE n == Len(s) - i
           T == {e \in 0 .. n : IsFull(s, k, i + e)}
<1>1. Len(s) \in Nat /\ n \in Nat
  BY DEF IsDimensions
<1>2. 0 \in T
  <2>1. i + 0 = i /\ 0 \in 0 .. n
    BY <1>1
  <2>2. QED
    BY <2>1
<1>3. ASSUME NEW e \in 0 .. n, e \in T, e < n PROVE e + 1 \in T
  <2>1. e + 1 \in 0 .. n /\ i + (e + 1) \in 1 .. Len(s) /\ (i + (e + 1)) - 1 = i + e
    BY <1>1, <1>3
  <2>2. QED
    BY <1>3, <2>1, DigitFills
<1>4. 0 .. n \subseteq T
  <2> HIDE DEF T
  <2>1. \A e \in 0 .. n : e \in T /\ e < n => e + 1 \in T
    BY <1>3
  <2> HIDE DEF n
  <2>2. QED
    BY ONLY <1>1, <1>2, <2>1, UpToBound
<1>5. ASSUME NEW j \in 0 .. Len(s), i <= j PROVE IsFull(s, k, j)
  <2>1. j - i \in 0 .. n /\ i + (j - i) = j
    BY <1>1, <1>5
  <2>2. j - i \in T
    BY <1>4, <2>1
  <2>3. QED
    BY <2>1, <2>2
<1>6. QED
  BY <1>5

LEMMA LastDigits ==
  ASSUME NEW s, IsDimensions(s), NEW k \in Nat, k < Product(s)
  PROVE  (\A i \in 1 .. Len(s) : Digit(s, k, i) = s[i]) <=> k + 1 = Product(s)
<1> DEFINE n == Len(s)
           T == {e \in 0 .. n : IsFull(s, k, n - e)}
<1>1. n \in Nat
  BY DEF IsDimensions
<1>2. IsFull(s, k, n) /\ (IsFull(s, k, 0) <=> k + 1 = Product(s))
  BY FullOnes
<1>3. ASSUME \A i \in 1 .. n : Digit(s, k, i) = s[i] PROVE IsFull(s, k, 0)
  <2>1. 0 \in T
    <3>1. n - 0 = n /\ 0 \in 0 .. n
      BY <1>1
    <3>2. QED
      BY <1>2, <3>1
  <2>2. ASSUME NEW e \in 0 .. n, e \in T, e < n PROVE e + 1 \in T
    <3>1. e + 1 \in 0 .. n /\ n - e \in 1 .. n /\ (n - e) - 1 = n - (e + 1)
      BY <1>1, <2>2
    <3>2. IsFull(s, k, (n - e) - 1)
      BY <1>3, <2>2, <3>1, DigitFills
    <3>3. QED
      BY <3>1, <3>2
  <2>3. 0 .. n \subseteq T
    <3> HIDE DEF T
    <3>1. \A e \in 0 .. n : e \in T /\ e < n => e + 1 \in T
      BY <2>2
    <3> HIDE DEF n
    <3>2. QED
      BY ONLY <1>1, <2>1, <3>1, UpToBound
  <2>4. n \in T /\ n - n = 0
    BY <1>1, <2>3
  <2>5. QED
    BY <2>4
<1>4. ASSUME IsFull(s, k, 0), NEW i \in 1 .. n PROVE Digit(s, k, i) = s[i]
  <2>1. 0 \in 0 .. n /\ i - 1 \in 0 .. n /\ 0 <= i - 1
    BY <1>1
  <2>2. IsFull(s, k, i - 1)
    BY <1>4, <2>1, FullIsUpward
  <2>3. QED
    BY <2>2, DigitFills
<1>5. QED
  BY <1>2, <1>3, <1>4

\* The odometer: the fastest dimension that has another choice moves to it,
\* and those that move faster start again.
MovesAt(s, k, i) ==
  /\ Digit(s, k, i) < s[i]
  /\ Digit(s, k + 1, i) = Digit(s, k, i) + 1
  /\ \A j \in 1 .. Len(s) : i < j => Digit(s, k, j) = s[j] /\ Digit(s, k + 1, j) = 1
  /\ \A j \in 1 .. Len(s) : j < i => Digit(s, k + 1, j) = Digit(s, k, j)

LEMMA NextDigits ==
  ASSUME NEW s, IsDimensions(s), NEW k \in Nat, k + 1 < Product(s)
  PROVE  \E i \in 1 .. Len(s) : MovesAt(s, k, i)
<1> DEFINE n == Len(s)
           T == {e \in 0 .. n : IsFull(s, k, n - e)}
<1>1. n \in Nat /\ n = Len(s)
  BY DEF IsDimensions
<1>2. IsFull(s, k, n) /\ ~IsFull(s, k, 0)
  BY FullOnes
<1> HIDE DEF n
<1>3. PICK i \in 1 .. n : IsFull(s, k, i) /\ ~IsFull(s, k, i - 1)
  <2>1. SUFFICES ASSUME \A j \in 1 .. n : IsFull(s, k, j) => IsFull(s, k, j - 1) PROVE FALSE
    OBVIOUS
  <2>2. 0 \in T
    <3>1. n - 0 = n /\ 0 \in 0 .. n
      BY <1>1
    <3>2. QED
      BY <1>2, <3>1
  <2>3. ASSUME NEW e \in 0 .. n, e \in T, e < n PROVE e + 1 \in T
    <3>1. e + 1 \in 0 .. n /\ n - e \in 1 .. n /\ (n - e) - 1 = n - (e + 1)
      BY <1>1, <2>3
    <3>2. IsFull(s, k, (n - e) - 1)
      BY <2>1, <2>3, <3>1
    <3>3. QED
      BY <3>1, <3>2
  <2>4. 0 .. n \subseteq T
    <3> HIDE DEF T
    <3>1. \A e \in 0 .. n : e \in T /\ e < n => e + 1 \in T
      BY <2>3
    <3>2. QED
      BY ONLY <1>1, <2>2, <3>1, UpToBound
  <2>5. n \in T /\ n - n = 0
    BY <1>1, <2>4
  <2>6. QED
    BY <1>2, <2>5
\* What one step does to a dimension whose faster ones are all at their end, or are not.
<1>4. ASSUME NEW j \in 1 .. n
      PROVE  /\ Digit(s, k, j) \in 1 .. s[j] /\ s[j] \in Nat \ {0}
             /\ ~IsFull(s, k, j) => Digit(s, k + 1, j) = Digit(s, k, j)
             /\ IsFull(s, k, j) /\ Digit(s, k, j) = s[j] => Digit(s, k + 1, j) = 1
             /\ IsFull(s, k, j) /\ Digit(s, k, j) # s[j] => Digit(s, k + 1, j) = Digit(s, k, j) + 1
  <2> DEFINE t == Weight(s, j)
             b == s[j]
             q == k \div t
             d == q % b
  <2>1. t \in Nat \ {0} /\ b \in Nat \ {0}
    BY <1>1, WeightIs
  <2>2. q \in Nat
    BY <2>1, QuotientAndRest
  <2>3. d \in 0 .. (b - 1)
    BY <2>1, <2>2, QuotientAndRest
  <2>4. /\ (k % t) + 1 = t => (k + 1) \div t = q + 1
        /\ (k % t) + 1 # t => (k + 1) \div t = q
    BY <2>1, NextQuotient
  <2>5. /\ Digit(s, k, j) = 1 + d /\ Digit(s, k + 1, j) = 1 + (((k + 1) \div t) % b)
        /\ IsFull(s, k, j) <=> (k % t) + 1 = t
    BY DEF Digit, IsFull
  <2> HIDE DEF t, q
  <2>6. /\ d + 1 = b => (q + 1) % b = 0
        /\ d + 1 # b => (q + 1) % b = d + 1
    <3>1. q = (q \div b) * b + d /\ q \div b \in Nat
      BY <2>1, <2>2, QuotientAndRest
    <3> DEFINE e == q \div b
    <3> HIDE DEF d, e, b
    <3>2. q = e * b + d /\ e \in Nat /\ b \in Nat /\ e * b \in Nat
      <4>1. \A c, f \in Nat : c * f \in Nat
        OBVIOUS
      <4>2. QED
        BY <2>1, <3>1, <4>1 DEF e
    <3>3. ASSUME d + 1 = b PROVE (q + 1) % b = 0
      <4> DEFINE m == q + 1
                 g == e + 1
                 z == 0
      <4>1. g * b = e * b + b
        BY <3>2
      <4>2. m = g * b + z /\ g \in Nat /\ z \in 0 .. (b - 1)
        BY <2>1, <2>3, <3>2, <3>3, <4>1
      <4> HIDE DEF m, g, z
      <4>3. m % b = z
        BY ONLY <2>1, <4>2, QuotientIs
      <4>4. QED
        BY <4>3 DEF m, z
    <3>4. ASSUME d + 1 # b PROVE (q + 1) % b = d + 1
      <4> DEFINE m == q + 1
                 z == d + 1
      <4>1. m = e * b + z /\ z \in 0 .. (b - 1)
        BY <2>1, <2>3, <3>2, <3>4
      <4> HIDE DEF m, z
      <4>2. m % b = z
        BY ONLY <2>1, <3>2, <4>1, QuotientIs
      <4>3. QED
        BY <4>2 DEF m, z
    <3>5. QED
      BY <3>3, <3>4 DEF d
  <2> HIDE DEF d
  <2>7. (Digit(s, k, j) = b <=> d + 1 = b) /\ Digit(s, k, j) \in 1 .. b
    BY <2>1, <2>3, <2>5
  <2>8. q % b = d
    BY DEF d
  <2>9. QED
    BY <2>1, <2>3, <2>4, <2>5, <2>6, <2>7, <2>8
<1>5. \A j \in 0 .. n : i <= j => IsFull(s, k, j)
  <2>1. i \in 0 .. Len(s)
    BY <1>1
  <2>2. QED
    BY <1>1, <1>3, <2>1, FullIsUpward
<1>6. \A j \in 1 .. n : j < i => ~IsFull(s, k, j)
  <2>1. SUFFICES ASSUME NEW j \in 1 .. n, j < i, IsFull(s, k, j) PROVE FALSE
    OBVIOUS
  <2>2. j \in 0 .. Len(s) /\ i - 1 \in 0 .. Len(s) /\ j <= i - 1
    BY <1>1, <2>1
  <2>3. IsFull(s, k, i - 1)
    BY <2>1, <2>2, FullIsUpward
  <2>4. QED
    BY <1>3, <2>3
<1>7. Digit(s, k, i) # s[i]
  BY <1>1, <1>3, DigitFills
<1>8. \A j \in 1 .. n : i < j => Digit(s, k, j) = s[j] /\ IsFull(s, k, j)
  <2>1. SUFFICES ASSUME NEW j \in 1 .. n, i < j PROVE Digit(s, k, j) = s[j] /\ IsFull(s, k, j)
    OBVIOUS
  <2>2. j - 1 \in 0 .. n /\ i <= j - 1 /\ j \in 1 .. Len(s)
    BY <1>1, <2>1
  <2>3. IsFull(s, k, j - 1)
    BY <1>5, <2>2
  <2>4. QED
    BY <2>2, <2>3, DigitFills
<1>9. MovesAt(s, k, i)
  BY <1>1, <1>3, <1>4, <1>6, <1>7, <1>8 DEF MovesAt
<1>10. QED
  BY <1>1, <1>9

\* Every choice is made at some place.
Chooses(s, d) == \A i \in 1 .. Len(s) : d[i] \in 1 .. s[i]

LEMMA EveryChoiceHasPlace ==
  ASSUME NEW s, IsDimensions(s), NEW d, Chooses(s, d)
  PROVE  \E k \in 0 .. (Product(s) - 1) : \A i \in 1 .. Len(s) : Digit(s, k, i) = d[i]
<1> DEFINE n == Len(s)
           Makes(j, r) == \A k \in Nat : k % Weight(s, j) = r => \A i \in 1 .. n : j < i => Digit(s, k, i) = d[i]
           T == {e \in 0 .. n : \E r \in 0 .. (Weight(s, n - e) - 1) : Makes(n - e, r)}
<1>1. n \in Nat /\ n = Len(s)
  BY DEF IsDimensions
<1>2. /\ Weight(s, n) = 1 /\ Weight(s, 0) = Product(s)
      /\ \A i \in 0 .. n : Weight(s, i) \in Nat \ {0}
      /\ \A i \in 1 .. n : Weight(s, i - 1) = s[i] * Weight(s, i) /\ s[i] \in Nat \ {0}
  BY WeightIs
<1> HIDE DEF n
<1>3. 0 \in T
  <2>1. n - 0 = n /\ 0 \in 0 .. n /\ \A i \in 1 .. n : ~(n < i)
    BY <1>1
  <2>2. Makes(n, 0)
    BY <2>1
  <2>3. 0 \in 0 .. (Weight(s, n - 0) - 1) /\ Makes(n - 0, 0)
    BY <1>2, <2>1, <2>2
  <2>4. QED
    BY <2>1, <2>3
<1>4. ASSUME NEW e \in 0 .. n, e \in T, e < n PROVE e + 1 \in T
  <2> DEFINE j == n - e
             t == Weight(s, j)
             b == s[j]
  <2>1. e + 1 \in 0 .. n /\ j \in 1 .. n /\ n - (e + 1) = j - 1 /\ j \in 0 .. n
    BY <1>1, <1>4
  <2>2. PICK r \in 0 .. (t - 1) : Makes(j, r)
    BY <1>4
  <2>3. t \in Nat \ {0} /\ b \in Nat \ {0} /\ Weight(s, j - 1) = b * t
    BY <1>2, <2>1
  <2> DEFINE a == d[j] - 1
             z == a * t + r
  <2>4. d[j] \in 1 .. b
    BY <1>1, <2>1 DEF Chooses
  <2>5. a \in 0 .. (b - 1) /\ a \in Nat /\ r \in Nat /\ t \in Nat /\ b \in Nat
    BY <2>2, <2>3, <2>4
  <2> HIDE DEF a, t, b, j
  <2>6. \A c, f \in Nat : c * f \in Nat
    OBVIOUS
  <2>7. a * t + t <= b * t
    <3>1. (a + 1) * t <= b * t
      <4>1. a + 1 \in Nat /\ a + 1 <= b
        BY <2>5
      <4>2. QED
        BY <2>5, <4>1, StepsAreMonotone
    <3>2. (a + 1) * t = a * t + t
      BY <2>5
    <3>3. QED
      BY <3>1, <3>2
  <2>8. z \in 0 .. (b * t - 1)
    <3>1. a * t \in Nat /\ b * t \in Nat
      BY <2>5, <2>6
    <3>2. QED
      BY <2>2, <2>3, <2>5, <2>7, <3>1
  <2>9. ASSUME NEW k \in Nat, k % Weight(s, j - 1) = z, NEW i \in 1 .. n, j - 1 < i PROVE Digit(s, k, i) = d[i]
    <3> DEFINE q == (k \div t) % b
               x == k % t
    <3>1. k % (b * t) = q * t + x
      BY <2>3, QuotientOfProduct
    <3>2. q * t + x = a * t + r
      BY <2>3, <2>9, <3>1
    <3>3. k \div t \in Nat /\ x \in 0 .. (t - 1) /\ x \in Nat
      BY <2>3, QuotientAndRest
    <3>4. q \in Nat
      BY <2>3, <3>3, QuotientAndRest
    <3> DEFINE m == q * t + x
    <3>5. m = q * t + x /\ m = a * t + r
      BY <3>2
    <3> HIDE DEF q, x, m
    <3>6. m \div t = q /\ m % t = x
      BY ONLY <2>3, <3>3, <3>4, <3>5, QuotientIs
    <3>7. m \div t = a /\ m % t = r
      BY ONLY <2>2, <2>3, <2>5, <3>5, QuotientIs
    <3>8. q = a /\ x = r
      BY <3>6, <3>7
    <3>9. CASE i = j
      <4>1. Digit(s, k, j) = 1 + q
        BY DEF Digit, q, t, b
      <4>2. d[j] = 1 + a
        BY <2>4, <2>5 DEF a
      <4>3. QED
        BY <3>8, <3>9, <4>1, <4>2
    <3>10. CASE i # j
      <4>1. j < i
        BY <1>1, <2>1, <2>9, <3>10
      <4>2. k % Weight(s, j) = r
        BY <3>8 DEF x, t
      <4>3. QED
        BY <2>2, <4>1, <4>2
    <3>11. QED
      BY <3>9, <3>10
  <2> HIDE DEF z
  <2>10. z \in 0 .. (Weight(s, n - (e + 1)) - 1) /\ Makes(n - (e + 1), z)
    BY <2>1, <2>3, <2>8, <2>9
  <2> HIDE DEF Makes
  <2>11. QED
    BY <2>1, <2>10
<1>5. 0 .. n \subseteq T
  <2> HIDE DEF T
  <2>1. \A e \in 0 .. n : e \in T /\ e < n => e + 1 \in T
    BY <1>4
  <2>2. QED
    BY ONLY <1>1, <1>3, <2>1, UpToBound
<1>6. n \in T /\ n - n = 0
  BY <1>1, <1>5
<1>7. PICK r \in 0 .. (Weight(s, 0) - 1) : Makes(0, r)
  <2>1. \E r \in 0 .. (Weight(s, n - n) - 1) : Makes(n - n, r)
    BY <1>6
  <2> HIDE DEF Makes
  <2>2. QED
    BY <1>6, <2>1
<1>8. r \in Nat /\ r % Weight(s, 0) = r
  <2> DEFINE w == Weight(s, 0)
  <2>1. w \in Nat \ {0}
    BY <1>1, <1>2
  <2>2. r \in 0 .. (w - 1)
    BY <1>7
  <2> HIDE DEF w
  <2>3. r \in Nat
    BY <2>1, <2>2
  <2>4. r % w = r
    BY ONLY <2>1, <2>2, RestOfSmall
  <2>5. QED
    BY <2>3, <2>4 DEF w
<1>9. \A i \in 1 .. n : 0 < i
  BY <1>1
<1>10. QED
  BY <1>1, <1>2, <1>7, <1>8, <1>9

\* The last digit stands for the copies of a configuration.
Copies(R, s, c) ==
  /\ c \in Nat \ {0} /\ R \in Seq(Nat \ {0}) /\ s \in Seq(Nat \ {0})
  /\ Len(R) = Len(s) + 1 /\ R[Len(s) + 1] = c /\ \A i \in 1 .. Len(s) : R[i] = s[i]

LEMMA WeightOfCopies ==
  ASSUME NEW R, NEW s, NEW c, Copies(R, s, c)
  PROVE  /\ \A i \in 0 .. Len(s) : Weight(R, i) = Weight(s, i) * c
         /\ Weight(R, Len(s) + 1) = 1
         /\ Product(R) = Product(s) * c
<1> DEFINE n == Len(s)
           T == {e \in 0 .. n : Weight(R, n - e) = Weight(s, n - e) * c}
<1>1. n \in Nat /\ n = Len(s) /\ IsDimensions(s) /\ IsDimensions(R) /\ c \in Nat \ {0} /\ Len(R) = n + 1 /\ R[n + 1] = c
      /\ \A i \in 1 .. n : R[i] = s[i]
  BY DEF Copies, IsDimensions
<1> HIDE DEF n
<1>2. /\ Weight(s, n) = 1 /\ Weight(s, 0) = Product(s)
      /\ \A i \in 0 .. n : Weight(s, i) \in Nat \ {0}
      /\ \A i \in 1 .. n : Weight(s, i - 1) = s[i] * Weight(s, i) /\ s[i] \in Nat \ {0}
  BY <1>1, WeightIs
<1>3. /\ Weight(R, n + 1) = 1 /\ Weight(R, 0) = Product(R)
      /\ \A i \in 1 .. n + 1 : Weight(R, i - 1) = R[i] * Weight(R, i)
  <2>1. /\ Weight(R, Len(R)) = 1 /\ Weight(R, 0) = Product(R)
        /\ \A i \in 1 .. Len(R) : Weight(R, i - 1) = R[i] * Weight(R, i)
    BY <1>1, WeightIs
  <2>2. QED
    BY <1>1, <2>1
<1>4. 0 \in T
  <2>1. n - 0 = n /\ 0 \in 0 .. n /\ n + 1 \in 1 .. n + 1 /\ (n + 1) - 1 = n
    BY <1>1
  <2>2. Weight(R, n) = c * 1
    BY <1>1, <1>3, <2>1
  <2>3. c * 1 = c /\ 1 * c = c
    BY <1>1
  <2>4. Weight(R, n - 0) = Weight(s, n - 0) * c
    BY <1>2, <2>1, <2>2, <2>3
  <2>5. QED
    BY <2>1, <2>4
<1>5. ASSUME NEW e \in 0 .. n, e \in T, e < n PROVE e + 1 \in T
  <2> DEFINE j == n - e
             t == Weight(s, j)
             b == s[j]
  <2>1. e + 1 \in 0 .. n /\ j \in 1 .. n /\ n - (e + 1) = j - 1 /\ j \in 1 .. n + 1 /\ j \in 0 .. n
    BY <1>1, <1>5
  <2>2. Weight(R, j) = t * c
    BY <1>5
  <2>3. Weight(R, j - 1) = b * Weight(R, j) /\ Weight(s, j - 1) = b * t
    BY <1>1, <1>2, <1>3, <2>1
  <2>4. b \in Nat /\ t \in Nat /\ c \in Nat
    BY <1>1, <1>2, <2>1
  <2> HIDE DEF t, b
  <2>5. b * (t * c) = (b * t) * c
    BY <2>4
  <2>6. Weight(R, n - (e + 1)) = Weight(s, n - (e + 1)) * c
    BY <2>1, <2>2, <2>3, <2>5
  <2>7. QED
    BY <2>1, <2>6
<1>6. 0 .. n \subseteq T
  <2> HIDE DEF T
  <2>1. \A e \in 0 .. n : e \in T /\ e < n => e + 1 \in T
    BY <1>5
  <2>2. QED
    BY ONLY <1>1, <1>4, <2>1, UpToBound
<1>7. ASSUME NEW i \in 0 .. n PROVE Weight(R, i) = Weight(s, i) * c
  <2>1. n - i \in 0 .. n /\ n - (n - i) = i
    BY <1>1
  <2>2. n - i \in T
    BY <1>6, <2>1
  <2>3. QED
    BY <2>1, <2>2
<1>8. 0 \in 0 .. n
  BY <1>1
<1>9. QED
  BY <1>1, <1>2, <1>3, <1>7, <1>8

LEMMA QuotientTwice ==
  ASSUME NEW k \in Nat, NEW T \in Nat \ {0}, NEW b \in Nat \ {0}
  PROVE  k \div (b * T) = (k \div T) \div b
<1>1. DividesTwice(k, T, b)
  BY ProductDivides
<1>2. QED
  BY ONLY <1>1 DEF DividesTwice

LEMMA DigitsOfCopy ==
  ASSUME NEW R, NEW s, NEW c, Copies(R, s, c), NEW k \in Nat, NEW y \in 0 .. (c - 1), NEW place, place = k * c + y
  PROVE  /\ place \in Nat
         /\ \A i \in 1 .. Len(s) : Digit(R, place, i) = Digit(s, k, i)
         /\ Digit(R, place, Len(s) + 1) = 1 + y
<1>1. Len(s) \in Nat /\ IsDimensions(s) /\ c \in Nat \ {0} /\ R[Len(s) + 1] = c
      /\ \A i \in 1 .. Len(s) : R[i] = s[i]
  BY DEF Copies, IsDimensions
<1>2. place \in Nat /\ place \div c = k /\ place % c = y
  <2>1. c \in Nat \ {0} /\ k \in Nat /\ y \in 0 .. (c - 1) /\ place = k * c + y
    BY <1>1
  <2>2. QED
    BY ONLY <2>1, QuotientIs
<1>3. ASSUME NEW i \in 1 .. Len(s) PROVE Digit(R, place, i) = Digit(s, k, i)
  <2> DEFINE t == Weight(s, i)
  <2>1. i \in 0 .. Len(s) /\ t \in Nat \ {0}
    BY <1>1, WeightIs
  <2>2. Weight(R, i) = t * c
    BY <2>1, WeightOfCopies
  <2> HIDE DEF t
  <2>3. place \div (t * c) = (place \div c) \div t
    <3>1. c \in Nat \ {0} /\ t \in Nat \ {0} /\ place \in Nat
      BY <1>1, <1>2, <2>1
    <3>2. QED
      BY ONLY <3>1, QuotientTwice
  <2>4. QED
    BY <1>1, <1>2, <2>2, <2>3 DEF Digit, t
<1>4. Digit(R, place, Len(s) + 1) = 1 + y
  <2>1. Weight(R, Len(s) + 1) = 1
    BY WeightOfCopies
  <2>2. place \div 1 = place
    BY <1>2
  <2>3. QED
    BY <1>1, <1>2, <2>1, <2>2 DEF Digit
<1>5. QED
  BY <1>2, <1>3, <1>4

-----------------------------------------------------------------------------
(* Lists of lists, one after the other. *)
JoinUpTo(u, seqs, k) == u = [i \in 1 .. k |-> IF i = 1 THEN seqs[i] ELSE u[i - 1] \o seqs[i]]

Flat(seqs) ==
  IF Len(seqs) = 0 THEN seqs ELSE
    LET flatten[i \in 1 .. Len(seqs)] == IF i = 1 THEN seqs[i] ELSE flatten[i - 1] \o seqs[i]
    IN  flatten[Len(seqs)]

LEMMA JoinsExist ==
  ASSUME NEW k \in Nat, NEW seqs
  PROVE  \E u : JoinUpTo(u, seqs, k)
<1> DEFINE S == {j \in Nat : \E u : JoinUpTo(u, seqs, j)}
<1>1. 0 \in S
  <2> DEFINE u == [i \in 1 .. 0 |-> 0]
             v == [i \in 1 .. 0 |-> IF i = 1 THEN seqs[i] ELSE u[i - 1] \o seqs[i]]
  <2>1. u = v
    OBVIOUS
  <2> HIDE DEF u
  <2>2. JoinUpTo(u, seqs, 0)
    BY <2>1 DEF JoinUpTo
  <2>3. QED
    BY <2>2
<1>2. ASSUME NEW j \in 0 .. k, j \in S PROVE j + 1 \in S
  <2>1. PICK u : JoinUpTo(u, seqs, j)
    BY <1>2
  <2> DEFINE join(a, i) == a \o seqs[i]
             v == [i \in 1 .. (j + 1) |-> IF i = j + 1 THEN (IF i = 1 THEN seqs[i] ELSE join(u[j], i)) ELSE u[i]]
             next == [i \in 1 .. (j + 1) |-> IF i = 1 THEN seqs[i] ELSE join(v[i - 1], i)]
  <2>0. u = [i \in 1 .. j |-> IF i = 1 THEN seqs[i] ELSE join(u[i - 1], i)]
    BY <2>1 DEF JoinUpTo
  <2> HIDE DEF join
  <2>2. j \in Nat /\ j + 1 \in Nat /\ \A i \in 1 .. (j + 1) : i # 1 => i - 1 \in 1 .. j
    OBVIOUS
  <2>3. \A i \in 1 .. j : v[i] = u[i]
    OBVIOUS
  <2>4. \A i \in 1 .. j : u[i] = IF i = 1 THEN seqs[i] ELSE join(u[i - 1], i)
    BY <2>0
  <2>5. ASSUME NEW i \in 1 .. (j + 1) PROVE v[i] = next[i]
    <3>1. CASE i = j + 1 /\ i = 1
      BY <3>1
    <3>2. CASE i = j + 1 /\ i # 1
      <4>1. v[i] = join(u[j], i) /\ i - 1 = j /\ j \in 1 .. j
        BY <2>2, <3>2
      <4>2. v[j] = u[j]
        BY <2>3, <4>1
      <4>3. next[i] = join(v[i - 1], i)
        BY <3>2
      <4>4. QED
        BY <4>1, <4>2, <4>3
    <3>3. CASE i # j + 1
      <4>1. i \in 1 .. j /\ (i # 1 => i - 1 \in 1 .. j)
        BY <3>3
      <4>2. v[i] = u[i] /\ (i # 1 => v[i - 1] = u[i - 1])
        BY <2>3, <4>1
      <4>3. u[i] = IF i = 1 THEN seqs[i] ELSE join(u[i - 1], i)
        BY <2>4, <4>1
      <4>4. next[i] = IF i = 1 THEN seqs[i] ELSE join(v[i - 1], i)
        OBVIOUS
      <4>5. QED
        BY <4>2, <4>3, <4>4
    <3>4. QED
      BY <3>1, <3>2, <3>3
  <2>6. v = next
    BY <2>5
  <2> HIDE DEF v
  <2>7. JoinUpTo(v, seqs, j + 1)
    BY <2>6 DEF JoinUpTo, join
  <2>8. QED
    BY <2>2, <2>7
<1>3. 0 .. k \subseteq S
  <2> HIDE DEF S
  <2>1. QED
    BY <1>1, <1>2, UpToBound
<1>4. QED
  BY <1>3

\* n lists of elements of S, the i-th of w[i] elements.
AreLists(seqs, n, w, S) ==
  /\ n \in Nat \ {0} /\ w \in [1 .. n -> Nat]
  /\ Len(seqs) = n
  /\ \A i \in 1 .. n : seqs[i] \in Seq(S) /\ Len(seqs[i]) = w[i]

LEMMA FlatIs ==
  ASSUME NEW seqs, NEW n, NEW w, NEW S, AreLists(seqs, n, w, S)
  PROVE  /\ Flat(seqs) \in Seq(S) /\ Len(Flat(seqs)) = Total(w)
         /\ \A i \in 1 .. n : \A x \in 1 .. w[i] : Flat(seqs)[Sums(w)[i - 1] + x] = seqs[i][x]
<1> DEFINE Made(u, k) == /\ u[k] \in Seq(S) /\ Len(u[k]) = Sums(w)[k]
                         /\ \A i \in 1 .. k : \A x \in 1 .. w[i] : u[k][Sums(w)[i - 1] + x] = seqs[i][x]
           flatten == CHOOSE u : u = [i \in 1 .. Len(seqs) |-> IF i = 1 THEN seqs[i] ELSE u[i - 1] \o seqs[i]]
<1>1. /\ n \in Nat \ {0} /\ w \in [1 .. n -> Nat] /\ w \in [1 .. n -> Int] /\ Len(seqs) = n /\ n \in Nat
      /\ \A i \in 1 .. n : seqs[i] \in Seq(S) /\ Len(seqs[i]) = w[i]
  <2>1. /\ n \in Nat \ {0} /\ w \in [1 .. n -> Nat] /\ Len(seqs) = n
        /\ \A i \in 1 .. n : seqs[i] \in Seq(S) /\ Len(seqs[i]) = w[i]
    BY ONLY AreLists(seqs, n, w, S) DEF AreLists
  <2>2. n \in Nat /\ w \in [1 .. n -> Int]
    BY ONLY <2>1
  <2>3. QED
    BY ONLY <2>1, <2>2
<1>2. flatten = [i \in 1 .. n |-> IF i = 1 THEN seqs[i] ELSE flatten[i - 1] \o seqs[i]]
  <2>1. \E u : JoinUpTo(u, seqs, n)
    BY <1>1, JoinsExist
  <2>2. QED
    BY <1>1, <2>1 DEF JoinUpTo
<1>3. Flat(seqs) = flatten[n]
  BY <1>1 DEF Flat
<1> HIDE DEF flatten
<1>4. \A i \in 1 .. n : flatten[i] = IF i = 1 THEN seqs[i] ELSE flatten[i - 1] \o seqs[i]
  BY <1>2
<1>5. /\ Sums(w)[0] = 0 /\ Total(w) = Sums(w)[n]
      /\ \A k \in 1 .. n : Sums(w)[k] = Sums(w)[k - 1] + w[k]
      /\ \A k \in 0 .. n : Sums(w)[k] \in Nat
  <2>1. \A k \in 0 .. n : Sums(w)[k] \in Nat
    BY <1>1, TotalIsNatural
  <2>2. Sums(w)[0] = 0 /\ Total(w) = Sums(w)[n]
        /\ \A k \in 1 .. n : Sums(w)[k] = Sums(w)[k - 1] + w[k]
    BY <1>1, SumsOf
  <2>3. QED
    BY <2>1, <2>2
<1> DEFINE T == {k \in 0 .. n : k # 0 => Made(flatten, k)}
           z == Sums(w)
<1> HIDE DEF z
<1>6. ASSUME NEW k \in 0 .. n, k \in T, k < n PROVE k + 1 \in T
  <2>1. k + 1 \in 1 .. n /\ (k + 1) - 1 = k /\ k + 1 \in 0 .. n
    BY <1>1, <1>6
  <2> DEFINE s == seqs[k + 1]
             f == flatten[k]
             h == flatten[k + 1]
  <2>2. s \in Seq(S) /\ Len(s) = w[k + 1] /\ z[k + 1] = z[k] + w[k + 1] /\ z[k] \in Nat /\ w[k + 1] \in Nat
    BY <1>1, <1>5, <2>1 DEF z
  <2>3. CASE k = 0
    <3>1. h = s
      BY <1>4, <2>1, <2>3
    <3>2. z[0] = 0 /\ \A i \in 1 .. (k + 1) : i = 1 /\ i - 1 = 0 /\ i = k + 1
      BY <1>5, <2>3 DEF z
    <3>3. \A i \in 1 .. (k + 1) : \A x \in 1 .. w[i] : h[z[i - 1] + x] = seqs[i][x]
      <4>1. SUFFICES ASSUME NEW i \in 1 .. (k + 1), NEW x \in 1 .. w[i] PROVE h[z[i - 1] + x] = seqs[i][x]
        OBVIOUS
      <4>2. i = k + 1 /\ z[i - 1] = 0 /\ 0 + x = x
        BY <3>2, <2>2
      <4>3. QED
        BY <3>1, <4>2
    <3>4. Made(flatten, k + 1)
      BY <2>2, <2>3, <3>1, <3>2, <3>3 DEF z
    <3>5. QED
      BY <2>1, <3>4
  <2>4. CASE k # 0
    <3>1. h = f \o s
      <4>1. k + 1 # 1
        BY <2>4
      <4> DEFINE j == k + 1
      <4>2. j \in 1 .. n /\ j # 1 /\ h = flatten[j] /\ s = seqs[j]
        BY <2>1, <4>1
      <4> HIDE DEF j, h, s
      <4>4. flatten[j] = flatten[j - 1] \o seqs[j]
        BY ONLY <1>4, <4>2
      <4>5. h = flatten[j - 1] \o s
        BY ONLY <4>2, <4>4
      <4>6. j - 1 = k
        BY <2>1 DEF j
      <4>7. QED
        BY ONLY <4>5, <4>6 DEF f
    <3>2. f \in Seq(S) /\ Len(f) = z[k] /\ \A i \in 1 .. k : \A x \in 1 .. w[i] : f[z[i - 1] + x] = seqs[i][x]
      BY <1>6, <2>4 DEF z
    <3> HIDE DEF f, s, h
    <3>3. h \in Seq(S) /\ Len(h) = Len(f) + Len(s) /\ (\A i \in 1 .. Len(f) : h[i] = f[i])
          /\ \A i \in 1 .. Len(s) : h[Len(f) + i] = s[i]
      <4>1. f \in Seq(S) /\ s \in Seq(S)
        BY <2>2, <3>2
      <4>2. h \in Seq(S)
        BY ONLY <3>1, <4>1
      <4>3. Len(h) = Len(f) + Len(s)
        BY ONLY <3>1, <4>1
      <4>4. \A i \in 1 .. Len(f) : h[i] = f[i]
        BY ONLY <3>1, <4>1
      <4>5. \A i \in 1 .. Len(s) : h[Len(f) + i] = s[i]
        BY ONLY <3>1, <4>1
      <4>6. QED
        BY ONLY <4>2, <4>3, <4>4, <4>5
    <3>4. ASSUME NEW i \in 1 .. k, NEW x \in 1 .. w[i] PROVE z[i - 1] + x \in 1 .. z[k]
      <4>1. i - 1 \in 0 .. n /\ i \in 0 .. n /\ i \in 1 .. n /\ k \in Nat
        BY <1>1, <1>6
      <4>2. z[i] = z[i - 1] + w[i] /\ z[i - 1] \in Nat /\ z[i] \in Nat /\ w[i] \in Nat
        BY <1>1, <1>5, <4>1 DEF z
      <4>3. z[i] <= z[k]
        <5> DEFINE U == {e \in 0 .. (k - i) : z[i] <= z[i + e]}
        <5>1. 0 \in U
          <6>1. i + 0 = i /\ 0 \in 0 .. (k - i)
            BY <4>1
          <6>2. QED
            BY <4>2, <6>1
        <5>2. ASSUME NEW e \in 0 .. (k - i), e \in U, e < k - i PROVE e + 1 \in U
          <6>1. e + 1 \in 0 .. (k - i) /\ i + (e + 1) \in 1 .. n /\ (i + (e + 1)) - 1 = i + e /\ i + e \in 0 .. n /\ i + (e + 1) \in 0 .. n
            <7>1. n \in Int /\ k \in Int /\ i \in Int /\ e \in Int /\ 0 <= e /\ e < k - i /\ i <= k /\ k < n /\ 1 <= i
              BY <1>1, <1>6, <4>1, <5>2
            <7>2. QED
              BY ONLY <7>1
          <6>2. z[i + (e + 1)] = z[i + e] + w[i + (e + 1)] /\ w[i + (e + 1)] \in Nat /\ z[i + e] \in Nat /\ z[i + (e + 1)] \in Nat
            BY <1>1, <1>5, <6>1 DEF z
          <6>3. z[i] <= z[i + e]
            BY <5>2
          <6>4. QED
            BY <4>2, <6>1, <6>2, <6>3
        <5>3. 0 .. (k - i) \subseteq U
          <6> HIDE DEF U
          <6> DEFINE m == k - i
          <6>1. m \in Nat /\ \A e \in 0 .. m : e \in U /\ e < m => e + 1 \in U
            BY <4>1, <5>2
          <6>2. 0 .. m \subseteq U
            <7> HIDE DEF m
            <7>1. QED
              BY ONLY <5>1, <6>1, UpToBound
          <6>3. QED
            BY <6>2
        <5>4. k - i \in U /\ i + (k - i) = k
          BY <4>1, <5>3
        <5>5. QED
          BY <5>4
      <4> DEFINE u == z[i - 1]
                 v == z[i]
                 t == z[k]
      <4>4. u \in Nat /\ v \in Nat /\ t \in Nat /\ w[i] \in Nat /\ v = u + w[i] /\ v <= t
        BY <2>2, <4>2, <4>3
      <4>5. x \in 1 .. w[i]
        OBVIOUS
      <4> HIDE DEF u, v, t
      <4>6. u + x \in 1 .. t
        BY ONLY <4>4, <4>5
      <4>7. QED
        BY ONLY <4>6 DEF u, t
    <3>5. \A i \in 1 .. (k + 1) : \A x \in 1 .. w[i] : h[z[i - 1] + x] = seqs[i][x]
      <4>1. SUFFICES ASSUME NEW i \in 1 .. (k + 1), NEW x \in 1 .. w[i] PROVE h[z[i - 1] + x] = seqs[i][x]
        OBVIOUS
      <4>2. CASE i = k + 1
        <5>1. x \in 1 .. Len(s) /\ z[i - 1] = Len(f)
          BY <2>1, <2>2, <3>2, <4>2
        <5>2. h[z[i - 1] + x] = s[x]
          BY <3>3, <5>1
        <5>3. QED
          BY <4>2, <5>2 DEF s
      <4>3. CASE i # k + 1
        <5>1. i \in 1 .. k
          BY <1>1, <4>3
        <5>2. z[i - 1] + x \in 1 .. Len(f)
          BY <3>2, <3>4, <5>1
        <5>3. QED
          BY <3>2, <3>3, <5>1, <5>2
      <4>4. QED
        BY <4>2, <4>3
    <3>6. Len(h) = z[k + 1]
      BY <2>2, <3>2, <3>3
    <3>7. Made(flatten, k + 1)
      BY <3>3, <3>5, <3>6 DEF z, h
    <3>8. QED
      BY <2>1, <3>7
  <2>5. QED
    BY <2>3, <2>4
<1>7. 0 \in T
  BY <1>1
<1>8. 0 .. n \subseteq T
  <2> HIDE DEF T
  <2>1. \A k \in 0 .. n : k \in T /\ k < n => k + 1 \in T
    BY <1>6
  <2>2. QED
    BY ONLY <1>1, <1>7, <2>1, UpToBound
<1>9. Made(flatten, n)
  BY <1>1, <1>8
<1>10. QED
  BY <1>3, <1>5, <1>9

-----------------------------------------------------------------------------
(* Some of the factors make no larger product than all of them. *)

LEMMA FunctionIsList ==
  ASSUME NEW n \in Nat, NEW S, NEW s \in [1 .. n -> S]
  PROVE  s \in Seq(S) /\ Len(s) = n
OBVIOUS

\* ns is ms but for the factor at j, which is 1 in ms.
WithoutFactor(ms, ns, j) ==
  /\ ns \in Seq(Nat \ {0}) /\ ms \in Seq(Nat \ {0}) /\ Len(ms) = Len(ns) /\ j \in 1 .. Len(ns)
  /\ ms[j] = 1 /\ \A i \in 1 .. Len(ns) : i # j => ms[i] = ns[i]

LEMMA ProductWithoutFactor ==
  ASSUME NEW ms, NEW ns, NEW j, WithoutFactor(ms, ns, j)
  PROVE  Product(ns) = ns[j] * Product(ms)
<1> DEFINE n == Len(ns)
           p == Products(ns)
           q == Products(ms)
           c == ns[j]
           T == {k \in 0 .. n : p[k] = IF k < j THEN q[k] ELSE c * q[k]}
<1>1. /\ n \in Nat /\ j \in 1 .. n /\ c \in Nat \ {0} /\ ms[j] = 1
      /\ \A i \in 1 .. n : (i # j => ms[i] = ns[i]) /\ ms[i] \in Nat \ {0} /\ ns[i] \in Nat \ {0}
  BY DEF WithoutFactor
<1>2. /\ p[0] = 1 /\ Product(ns) = p[n]
      /\ \A k \in 1 .. n : p[k] = p[k - 1] * ns[k]
      /\ \A k \in 0 .. n : p[k] \in Nat \ {0}
  BY ProductsOf DEF WithoutFactor
<1>3. /\ q[0] = 1 /\ Product(ms) = q[n]
      /\ \A k \in 1 .. n : q[k] = q[k - 1] * ms[k]
      /\ \A k \in 0 .. n : q[k] \in Nat \ {0}
  <2>1. ms \in Seq(Nat \ {0}) /\ Len(ms) = n
    BY DEF WithoutFactor
  <2> HIDE DEF n
  <2>2. QED
    BY <2>1, ProductsOf
<1>4. c = ns[j]
  OBVIOUS
<1> HIDE DEF p, q, n, c
<1>5. 0 \in T
  BY <1>1, <1>2, <1>3
<1>6. ASSUME NEW k \in 0 .. n, k \in T, k < n PROVE k + 1 \in T
  <2>1. k + 1 \in 1 .. n /\ (k + 1) - 1 = k /\ k + 1 \in 0 .. n
    BY <1>1, <1>6
  <2> DEFINE a == p[k]
             b == q[k]
             d == ns[k + 1]
             e == ms[k + 1]
  <2>2. p[k + 1] = a * d /\ q[k + 1] = b * e /\ a \in Nat /\ b \in Nat /\ d \in Nat /\ e \in Nat /\ c \in Nat
    BY <1>1, <1>2, <1>3, <2>1
  <2>3. (k + 1 # j => e = d) /\ (k + 1 = j => e = 1 /\ d = c)
    BY <1>1, <1>4, <2>1
  <2>4. a = IF k < j THEN b ELSE c * b
    BY <1>6
  <2> HIDE DEF a, b, d, e
  <2>5. CASE k + 1 < j
    <3>1. a = b /\ e = d /\ k < j
      BY <1>1, <2>1, <2>3, <2>4, <2>5
    <3>2. QED
      BY <2>1, <2>2, <2>5, <3>1
  <2>6. CASE k + 1 = j
    <3>1. a = b /\ e = 1 /\ d = c
      BY <1>1, <2>1, <2>3, <2>4, <2>6
    <3>2. b * 1 = b /\ b * c = c * b
      BY <2>2
    <3>3. p[k + 1] = c * q[k + 1]
      BY <2>2, <3>1, <3>2
    <3>4. QED
      BY <1>1, <2>1, <2>6, <3>3
  <2>7. CASE k + 1 > j
    <3>1. a = c * b /\ e = d /\ ~(k + 1 < j)
      BY <1>1, <2>1, <2>3, <2>4, <2>7
    <3>2. (c * b) * d = c * (b * d)
      BY <2>2
    <3>3. p[k + 1] = c * q[k + 1]
      BY <2>2, <3>1, <3>2
    <3>4. QED
      BY <2>1, <3>1, <3>3
  <2>8. QED
    BY <1>1, <2>1, <2>5, <2>6, <2>7
<1>7. 0 .. n \subseteq T
  <2> HIDE DEF T
  <2>1. \A k \in 0 .. n : k \in T /\ k < n => k + 1 \in T
    BY <1>6
  <2>2. QED
    BY ONLY <1>1, <1>5, <2>1, UpToBound
<1>8. n \in T /\ ~(n < j)
  BY <1>1, <1>7
<1>9. QED
  BY <1>2, <1>3, <1>8 DEF c

\* Every factor of ms stands somewhere in ns, no two at the same place.
PicksFactors(ms, ns, g) ==
  /\ ns \in Seq(Nat \ {0}) /\ ms \in Seq(Nat \ {0})
  /\ g \in [1 .. Len(ms) -> 1 .. Len(ns)]
  /\ \A i, j \in 1 .. Len(ms) : g[i] = g[j] => i = j
  /\ \A i \in 1 .. Len(ms) : ms[i] = ns[g[i]]

LEMMA ProductOfPicked ==
  ASSUME NEW ms, NEW ns, NEW g, PicksFactors(ms, ns, g)
  PROVE  Product(ms) <= Product(ns)
<1> DEFINE m == Len(ms)
           n == Len(ns)
           p == Products(ms)
           rest(k) == [j \in 1 .. n |-> IF \E i \in 1 .. k : g[i] = j THEN 1 ELSE ns[j]]
           T == {k \in 0 .. m : p[k] * Product(rest(k)) = Product(ns)}
<1>1. /\ n \in Nat /\ m \in Nat /\ m = Len(ms) /\ ns \in Seq(Nat \ {0})
      /\ g \in [1 .. m -> 1 .. n] /\ ns \in [1 .. n -> Nat \ {0}]
      /\ \A i, j \in 1 .. m : g[i] = g[j] => i = j
      /\ \A i \in 1 .. m : ms[i] = ns[g[i]] /\ ms[i] \in Nat \ {0}
  BY DEF PicksFactors
<1>2. /\ p[0] = 1 /\ Product(ms) = p[m]
      /\ \A k \in 1 .. m : p[k] = p[k - 1] * ms[k]
      /\ \A k \in 0 .. m : p[k] \in Nat \ {0}
  BY ProductsOf DEF PicksFactors
<1> HIDE DEF m, p
<1>3. ASSUME NEW k \in 0 .. m PROVE rest(k) \in Seq(Nat \ {0}) /\ Len(rest(k)) = n /\ Product(rest(k)) \in Nat \ {0}
  <2>1. rest(k) \in [1 .. n -> Nat \ {0}]
    BY <1>1
  <2> HIDE DEF rest
  <2> DEFINE u == rest(k)
             S == Nat \ {0}
  <2>0. n \in Nat /\ u \in [1 .. n -> S]
    BY <1>1, <2>1
  <2> HIDE DEF u, n, S
  <2>2. u \in Seq(S) /\ Len(u) = n
    BY ONLY <2>0, FunctionIsList
  <2> USE DEF u, S
  <2>3. QED
    BY <2>2, ProductsOf
<1>4. 0 \in T
  <2>1. rest(0) = [j \in 1 .. n |-> ns[j]]
    OBVIOUS
  <2>2. [j \in 1 .. n |-> ns[j]] = ns
    BY <1>1
  <2>3. rest(0) = ns /\ 0 \in 0 .. m
    BY <1>1, <2>1, <2>2
  <2> HIDE DEF rest
  <2>4. Product(ns) \in Nat
    BY <1>1, ProductsOf
  <2>5. QED
    BY <1>2, <2>3, <2>4
<1>5. ASSUME NEW k \in 0 .. m, k \in T, k < m PROVE k + 1 \in T
  <2>1. k + 1 \in 1 .. m /\ (k + 1) - 1 = k /\ k + 1 \in 0 .. m
    BY <1>1, <1>5
  <2> DEFINE j == g[k + 1]
             u == rest(k)
             v == rest(k + 1)
  <2>2. j \in 1 .. n /\ ms[k + 1] = ns[j]
    BY <1>1, <2>1
  <2>3. v[j] = 1 /\ u[j] = ns[j]
    <3>1. \E i \in 1 .. (k + 1) : g[i] = j
      BY <2>1
    <3>2. ~ \E i \in 1 .. k : g[i] = j
      <4>1. SUFFICES ASSUME NEW i \in 1 .. k, g[i] = j PROVE FALSE
        OBVIOUS
      <4>2. i \in 1 .. m /\ i # k + 1
        BY <1>1, <2>1
      <4>3. QED
        BY <1>1, <2>1, <4>1, <4>2
    <3> HIDE DEF j
    <3>3. QED
      BY <2>2, <3>1, <3>2
  <2>4. ASSUME NEW i \in 1 .. n, i # j PROVE v[i] = u[i]
    <3>1. (\E x \in 1 .. (k + 1) : g[x] = i) <=> (\E x \in 1 .. k : g[x] = i)
      <4>1. ASSUME NEW x \in 1 .. (k + 1), g[x] = i PROVE \E y \in 1 .. k : g[y] = i
        <5>1. x # k + 1
          BY <2>4, <4>1
        <5>2. x \in 1 .. k
          BY <2>1, <5>1
        <5>3. QED
          BY <4>1, <5>2
      <4>2. \A x \in 1 .. k : x \in 1 .. (k + 1)
        BY <2>1
      <4>3. QED
        BY <4>1, <4>2
    <3> HIDE DEF j
    <3>2. QED
      BY <3>1
  <2>5. u \in Seq(Nat \ {0}) /\ Len(u) = n /\ v \in Seq(Nat \ {0}) /\ Len(v) = n
        /\ Product(u) \in Nat /\ Product(v) \in Nat
    BY <1>3, <2>1
  <2>6. p[k] * Product(u) = Product(ns)
    BY <1>5
  <2> HIDE DEF u, v, j, rest
  <2>7. WithoutFactor(v, u, j)
    BY <2>2, <2>3, <2>4, <2>5 DEF WithoutFactor
  <2>8. Product(u) = u[j] * Product(v)
    BY <2>7, ProductWithoutFactor
  <2> DEFINE a == p[k]
             b == ms[k + 1]
             t == Product(v)
  <2>9. p[k + 1] = a * b /\ a \in Nat /\ b \in Nat /\ t \in Nat /\ a * Product(u) = Product(ns) /\ Product(u) = b * t
    BY <1>1, <1>2, <2>1, <2>2, <2>3, <2>5, <2>6, <2>8
  <2> HIDE DEF a, b, t
  <2>10. (a * b) * t = a * (b * t)
    BY <2>9
  <2>11. p[k + 1] * t = Product(ns)
    BY <2>9, <2>10
  <2>12. QED
    BY <2>1, <2>11 DEF t, v
<1>6. 0 .. m \subseteq T
  <2> HIDE DEF T
  <2>1. \A k \in 0 .. m : k \in T /\ k < m => k + 1 \in T
    BY <1>5
  <2>2. QED
    BY ONLY <1>1, <1>4, <2>1, UpToBound
<1> HIDE DEF rest
<1>7. p[m] * Product(rest(m)) = Product(ns)
  <2>1. m \in T
    BY <1>1, <1>6
  <2>2. QED
    BY <2>1
<1> DEFINE a == p[m]
           t == Product(rest(m))
<1>8. a \in Nat /\ t \in Nat \ {0}
  <2>1. m \in 0 .. m
    BY <1>1
  <2>2. QED
    BY <1>2, <1>3, <2>1
<1> HIDE DEF a, t
<1>9. a <= a * t
  <2>1. PICK e \in Nat : t = 1 + e
    <3>1. t - 1 \in Nat /\ t = 1 + (t - 1)
      BY <1>8
    <3>2. QED
      BY <3>1
  <2>2. a * (1 + e) = a + a * e /\ a * e \in Nat
    <3>1. \A c, f \in Nat : c * f \in Nat
      OBVIOUS
    <3>2. QED
      BY <1>8, <3>1
  <2>3. QED
    BY <1>8, <2>1, <2>2
<1>10. QED
  BY <1>2, <1>7, <1>9 DEF a, t

-----------------------------------------------------------------------------
\* The scale of a range is one of its decimals', and none has a larger one.
LEMMA ScaleIsGreatest ==
  ASSUME NEW r, IsDecimalRange(r)
  PROVE  /\ ScaleOf(r) \in 0..UnitScale
         /\ \A d \in {r.start, r.end, r.step} : d.scale <= ScaleOf(r)
<1> DEFINE decimals == {r.start, r.end, r.step}
           scales == {r.start.scale, r.end.scale, r.step.scale}
           IsGreatest(s) == \A d \in decimals : d.scale <= s
<1>1. UnitScale \in Nat /\ \A d \in decimals : d.scale \in 0..UnitScale
  BY RangeAssumption DEF IsDecimalRange
<1>2. r.start.scale \in Int /\ r.end.scale \in Int /\ r.step.scale \in Int
  BY <1>1
<1>3. \E s \in scales : IsGreatest(s)
  <2>1. CASE r.start.scale >= r.end.scale /\ r.start.scale >= r.step.scale
    BY <1>2, <2>1
  <2>2. CASE r.end.scale >= r.start.scale /\ r.end.scale >= r.step.scale
    BY <1>2, <2>2
  <2>3. CASE r.step.scale >= r.start.scale /\ r.step.scale >= r.end.scale
    BY <1>2, <2>3
  <2>4. QED
    BY <1>2, <2>1, <2>2, <2>3
<1>4. ScaleOf(r) \in scales /\ IsGreatest(ScaleOf(r))
  BY <1>3 DEF ScaleOf
<1>5. QED
  BY <1>1, <1>4

\* The ends and the step of a range, brought to one scale, are integers.
LEMMA AlignedIntegers ==
  ASSUME NEW r, IsDecimalRange(r)
  PROVE  RangeStart(r) \in Int /\ RangeEnd(r) \in Int /\ RangeStep(r) \in Int
<1>1. ASSUME NEW d \in {r.start, r.end, r.step}
      PROVE  Aligned(d, ScaleOf(r)) \in Int
  <2>1. d.digits \in Int /\ d.scale \in 0..UnitScale
    BY DEF IsDecimalRange
  <2>2. ScaleOf(r) - d.scale \in 0..UnitScale
    BY <2>1, ScaleIsGreatest, RangeAssumption
  <2>3. 10^(ScaleOf(r) - d.scale) \in Nat
    BY <2>2, MaterializationAssumption
  <2>4. QED
    BY <2>1, <2>3 DEF Aligned
<1>2. QED
  BY <1>1 DEF RangeStart, RangeEnd, RangeStep

\* The count of a range is a natural number, if its step moves.
LEMMA CountIsNatural ==
  ASSUME NEW r, IsDecimalRange(r), RangeStep(r) # 0
  PROVE  RangeCount(r) \in Nat
<1> DEFINE d == Magnitude(RangeEnd(r) - RangeStart(r))
           s == Magnitude(RangeStep(r))
<1>1. d \in Nat /\ s \in Nat \ {0}
  BY AlignedIntegers DEF Magnitude
<1>2. d \div s \in Nat
  BY <1>1, QuotientBounds
<1>3. RangeCount(r) = (d \div s) + 1
  BY DEF RangeCount, CountOf
<1>4. QED
  BY <1>2, <1>3

\* Every index below the count of an accepted range gives a value between its
\* ends, and the count itself gives one beyond them.
LEMMA ValuesLieBetween ==
  ASSUME NEW r, IsDecimalRange(r), NEW t, IsRange(t, r), NEW i \in Nat
  PROVE  LET a == RangeStart(r)
             b == RangeEnd(r)
             low == IF a < b THEN a ELSE b
             high == IF a < b THEN b ELSE a
             v == ValueAt(a, RangeStep(r), i)
         IN  /\ i < RangeCount(r) => low <= v /\ v <= high
             /\ i = RangeCount(r) => v < low \/ v > high
<1> DEFINE a == RangeStart(r)
           b == RangeEnd(r)
           step_ == RangeStep(r)
           d == Magnitude(b - a)
           s == Magnitude(step_)
           q == d \div s
<1>1. a \in Int /\ b \in Int /\ step_ \in Int /\ step_ # 0
  BY AlignedIntegers DEF IsRange
<1>2. d \in Nat /\ s \in Nat \ {0}
  BY <1>1 DEF Magnitude
<1>3. q \in Nat /\ q * s <= d /\ d < q * s + s
  BY <1>2, QuotientBounds
<1>4. RangeCount(r) = q + 1
  BY DEF RangeCount, CountOf
<1>5. i * s \in Nat /\ q * s \in Nat
  BY <1>2, <1>3
<1>6. i < RangeCount(r) => i * s <= d
  <2>1. HAVE i < RangeCount(r)
  <2>2. i <= q
    BY <2>1, <1>3, <1>4
  <2>3. i * s <= q * s
    BY <2>2, <1>2, <1>3, StepsAreMonotone
  <2>4. QED
    BY <2>3, <1>2, <1>3, <1>5
<1>7. i = RangeCount(r) => i * s > d
  <2>1. (q + 1) * s = q * s + s
    BY <1>2, <1>3
  <2>2. QED
    BY <2>1, <1>2, <1>3, <1>4, <1>5
<1>8. ValueAt(a, step_, i) = IF step_ > 0 THEN a + i * s ELSE a - i * s
  <2>1. CASE step_ > 0
    <3>1. s = step_
      BY <2>1, <1>1 DEF Magnitude
    <3>2. QED
      BY <3>1, <2>1 DEF ValueAt
  <2>2. CASE step_ < 0
    <3>1. s = -step_
      BY <2>2, <1>1 DEF Magnitude
    <3>2. i * step_ = -(i * (-step_))
      BY <1>1
    <3>3. QED
      BY <3>1, <3>2, <2>2, <1>1, <1>5 DEF ValueAt
  <2>3. QED
    BY <2>1, <2>2, <1>1
<1>9. a = b \/ (b > a <=> step_ > 0)
  BY DEF IsRange, MovesToward
<1>10. d = IF b - a < 0 THEN -(b - a) ELSE b - a
  BY DEF Magnitude
<1> HIDE DEF a, b, step_, d, s, q
<1>11. QED
  BY <1>1, <1>2, <1>5, <1>6, <1>7, <1>8, <1>9, <1>10 DEF a, b, step_

LEMMA ExactQuotient ==
  ASSUME NEW m \in Nat \ {0}, NEW x \in Int
  PROVE  (x * m) \div m = x /\ (x * m) % m = 0
<1> DEFINE q == (x * m) \div m
           r == (x * m) % m
<1>1. q \in Int /\ r \in Int /\ x * m = m * q + r /\ 0 <= r /\ r < m
  OBVIOUS
<1> HIDE DEF q, r
<1>2. (x - q) * m = r
  BY <1>1
<1>3. x - q = 0
  <2>1. CASE x - q >= 1
    <3>1. (x - q) * m >= m
      BY <1>1, <2>1
    <3>2. QED
      BY <1>1, <1>2, <3>1
  <2>2. CASE x - q <= -1
    <3>1. (x - q) * m <= -m
      BY <1>1, <2>2
    <3>2. QED
      BY <1>1, <1>2, <3>1
  <2>3. QED
    BY <1>1, <2>1, <2>2
<1>4. QED
  BY <1>1, <1>2, <1>3 DEF q, r

LEMMA Divides ==
  ASSUME NEW m \in Nat \ {0}, NEW x \in Int, x % m = 0
  PROVE  (x \div m) \in Int /\ x = (x \div m) * m
OBVIOUS

\* From multiples of a unit, whole steps lead to multiples of it.
LEMMA MultiplesOfUnit ==
  ASSUME NEW m \in Nat \ {0}, NEW a \in Int, NEW s \in Int, a % m = 0, s % m = 0, NEW k \in Nat
  PROVE  (a + k * s) % m = 0
<1>1. PICK x \in Int : a = x * m
  BY Divides
<1>2. PICK y \in Int : s = y * m
  BY Divides
<1>3. a + k * s = (x + k * y) * m
  <2>1. k * (y * m) = (k * y) * m
    OBVIOUS
  <2>2. (x + k * y) * m = x * m + (k * y) * m
    OBVIOUS
  <2>3. QED
    BY <1>1, <1>2, <2>1, <2>2
<1>4. x + k * y \in Int
  OBVIOUS
<1>5. QED
  BY <1>3, <1>4, ExactQuotient

\* The scalar at an index is one of the parameter's type, and the scaled number
\* behind it is the step.
LEMMA ScalarIsStep ==
  ASSUME IsDecimalRange(range), IsRange(type, range), NEW k \in Nat
  PROVE  /\ RangeScalar(type, range, k) \in [type : Numeric, value : Int]
         /\ RangeScalar(type, range, k).type = type
         /\ Scaled(RangeScalar(type, range, k)) = ValueAt(first, step, k)
<1> DEFINE n == ValueAt(first, step, k)
           unit == 10^ScaleOf(range)
           rest == 10^(UnitScale - ScaleOf(range))
           full == 10^UnitScale
<1>1. first \in Int /\ step \in Int /\ n \in Int
  BY AlignedIntegers DEF ValueAt, first, step
<1>2. unit \in Nat \ {0} /\ rest \in Nat \ {0} /\ full \in Nat \ {0}
  <2>1. UnitScale \in Nat /\ ScaleOf(range) \in 0..UnitScale
    BY ScaleIsGreatest, RangeAssumption
  <2>2. UnitScale - ScaleOf(range) \in 0..UnitScale /\ UnitScale \in 0..UnitScale
    BY <2>1
  <2>3. QED
    BY <2>1, <2>2, MaterializationAssumption
<1>3. RangeScalar(type, range, k) = IF type = "integer" THEN Integer(n \div unit) ELSE Float(n * rest)
  BY DEF RangeScalar, first, step
<1>4. type \in Numeric
  BY DEF IsRange
<1> HIDE DEF n, unit, rest, full
<1>5. CASE type = "integer"
  <2>1. RangeScalar(type, range, k) = [type |-> "integer", value |-> (n \div unit) * full]
    BY <1>3, <1>5 DEF Integer, full
  <2>2. first % unit = 0 /\ step % unit = 0
    BY <1>5 DEF IsRange, IsIntegral, first, step, unit
  <2>3. n % unit = 0
    BY <1>1, <1>2, <2>2, MultiplesOfUnit DEF n, ValueAt
  <2>4. (n \div unit) \in Int /\ n = (n \div unit) * unit
    BY <1>1, <1>2, <2>3, Divides
  <2>5. ((n \div unit) * full) \div full = n \div unit
    BY <1>2, <2>4, ExactQuotient
  <2>6. (n \div unit) * full \in Int
    BY <1>2, <2>4
  <2>7. Scaled(RangeScalar(type, range, k)) = n
    BY <2>1, <2>4, <2>5 DEF Scaled, full, unit
  <2>8. QED
    BY <1>5, <2>1, <2>6, <2>7 DEF Numeric, n
<1>6. CASE type = "float"
  <2>1. RangeScalar(type, range, k) = [type |-> "float", value |-> n * rest]
    BY <1>3, <1>6 DEF Float
  <2>2. (n * rest) \div rest = n
    BY <1>1, <1>2, ExactQuotient
  <2>3. n * rest \in Int
    BY <1>1, <1>2
  <2>4. Scaled(RangeScalar(type, range, k)) = n
    BY <2>1, <2>2 DEF Scaled, rest
  <2>5. QED
    BY <1>6, <2>1, <2>3, <2>4 DEF Numeric, n
<1>7. QED
  BY <1>4, <1>5, <1>6 DEF Numeric

\* Two indices give two numbers.
LEMMA StepsDiffer ==
  ASSUME IsDecimalRange(range), IsRange(type, range), NEW j \in Nat, NEW k \in Nat,
         ValueKey(RangeScalar(type, range, j)) = ValueKey(RangeScalar(type, range, k))
  PROVE  j = k
<1> DEFINE v == RangeScalar(type, range, j)
           w == RangeScalar(type, range, k)
<1>1. /\ v \in [type : Numeric, value : Int] /\ v.type = type /\ Scaled(v) = ValueAt(first, step, j)
      /\ w \in [type : Numeric, value : Int] /\ w.type = type /\ Scaled(w) = ValueAt(first, step, k)
  BY ScalarIsStep
<1>2. ValueKey(v).value = v.value /\ ValueKey(w).value = w.value
  BY DEF ValueKey
<1> HIDE DEF v, w
<1>3. v = w
  BY <1>1, <1>2 DEF v, w
<1>4. first + j * step = first + k * step
  BY <1>1, <1>3 DEF ValueAt
<1>5. first \in Int /\ step \in Int /\ step # 0
  BY AlignedIntegers DEF first, step, IsRange
<1>6. (j - k) * step = 0
  BY <1>4, <1>5
<1>7. \A a, b \in Int : a * b = 0 => a = 0 \/ b = 0
  OBVIOUS
<1>8. j - k = 0
  BY <1>5, <1>6, <1>7
<1>9. QED
  BY <1>8

\* The steps between the ends are those below the count.
LEMMA StepsOfRange ==
  ASSUME NEW r, IsDecimalRange(r), NEW t, IsRange(t, r), NEW n
  PROVE  LET a == RangeStart(r)
             b == RangeEnd(r)
             low == IF a < b THEN a ELSE b
             high == IF a < b THEN b ELSE a
         IN  (\E k \in 0..(RangeCount(r) - 1) : n = ValueAt(a, RangeStep(r), k))
               <=> (n \in low..high /\ \E k \in 0..(high - low) : n = a + k * RangeStep(r))
<1> DEFINE a == RangeStart(r)
           b == RangeEnd(r)
           s == RangeStep(r)
           low == IF a < b THEN a ELSE b
           high == IF a < b THEN b ELSE a
           c == RangeCount(r)
<1>1. a \in Int /\ b \in Int /\ s \in Int /\ s # 0 /\ c \in Nat /\ low \in Int /\ high \in Int
  BY AlignedIntegers, CountIsNatural DEF IsRange
<1>2. a = b \/ (b > a <=> s > 0)
  BY DEF IsRange, MovesToward
<1>3. \A k \in Nat : /\ k < c => low <= a + k * s /\ a + k * s <= high
                     /\ k = c => a + k * s < low \/ a + k * s > high
  BY ValuesLieBetween DEF ValueAt
<1>4. ASSUME NEW k \in 0..(c - 1), n = a + k * s
      PROVE  n \in low..high /\ k \in 0..(high - low)
  <2>1. k \in Nat /\ low <= n /\ n <= high /\ n \in Int
    BY <1>1, <1>3, <1>4
  <2>2. k <= high - low
    <3>1. CASE s > 0
      <4>1. k * 1 <= k * s
        BY <1>1, <2>1, <3>1
      <4>2. QED
        BY <1>1, <1>4, <2>1, <4>1
    <3>2. CASE s < 0
      <4>1. k * 1 <= k * (-s)
        BY <1>1, <2>1, <3>2
      <4>2. k * (-s) = -(k * s)
        BY <1>1, <2>1
      <4>3. QED
        BY <1>1, <1>4, <2>1, <4>1, <4>2
    <3>3. QED
      BY <1>1, <3>1, <3>2
  <2>3. QED
    BY <1>1, <2>1, <2>2
<1>5. ASSUME n \in low..high, NEW k \in 0..(high - low), n = a + k * s
      PROVE  k \in 0..(c - 1)
  <2>1. k \in Nat
    BY <1>1, <1>5
  <2> SUFFICES ASSUME k >= c PROVE FALSE
    BY <1>1, <2>1
  <2> DEFINE v == a + c * s
  <2>2. v < low \/ v > high
    BY <1>1, <1>3
  <2>3. PICK e \in Nat : k = c + e
    <3>1. k - c \in Nat /\ k = c + (k - c)
      BY <1>1, <2>1
    <3>2. QED
      BY <3>1
  <2>4. n = v + e * s /\ v \in Int
    <3>1. (c + e) * s = c * s + e * s
      BY <1>1
    <3>2. c * s \in Int /\ e * s \in Int
      BY <1>1
    <3>3. QED
      BY <1>1, <1>5, <2>3, <3>1, <3>2
  <2>5. CASE s > 0
    <3>1. e * s >= 0 /\ c * s >= 0 /\ e * s \in Int /\ c * s \in Int
      BY <1>1, <2>5
    <3>2. a = low
      BY <1>1, <1>2, <2>5
    <3>3. v >= low
      BY <1>1, <3>1, <3>2
    <3> HIDE DEF v
    <3>4. QED
      BY <1>1, <1>5, <2>2, <2>4, <3>1, <3>3
  <2>6. CASE s < 0
    <3>1. e * s <= 0 /\ c * s <= 0 /\ e * s \in Int /\ c * s \in Int
      BY <1>1, <2>6
    <3>2. a = high
      BY <1>1, <1>2, <2>6
    <3>3. v <= high
      BY <1>1, <3>1, <3>2
    <3> HIDE DEF v
    <3>4. QED
      BY <1>1, <1>5, <2>2, <2>4, <3>1, <3>3
  <2>7. QED
    BY <1>1, <2>5, <2>6
<1> HIDE DEF a, b, s, low, high, c
<1>6. (\E k \in 0..(c - 1) : n = a + k * s) <=> (n \in low..high /\ \E k \in 0..(high - low) : n = a + k * s)
  BY <1>4, <1>5
<1>7. QED
  BY <1>6 DEF a, b, s, low, high, c, ValueAt

\* What the invariant says of the numbers.
LEMMA NumbersAreSteps ==
  ASSUME RangeInvariant, pc \in {"generate", "done"}
  PROVE  /\ IsDecimalRange(range) /\ IsRange(type, range) /\ counted = RangeCount(range) /\ counted \in Nat
         /\ DOMAIN numbers = 1..index /\ index \in Nat
         /\ \A i \in 1..index : /\ numbers[i] = RangeScalar(type, range, i - 1)
                                /\ numbers[i].type = type /\ Scaled(numbers[i]) = ValueAt(first, step, i - 1)
                                /\ IsScalar(numbers[i]) /\ IsExact(numbers[i])
<1>1. /\ IsDecimalRange(range) /\ IsRange(type, range) /\ counted = RangeCount(range) /\ counted \in Nat
      /\ DOMAIN numbers = 1..index /\ index \in Nat
  BY MaterializationAssumption DEF RangeInvariant, TypeOK
<1>2. type \in Numeric
  BY <1>1 DEF IsRange
<1>3. ASSUME NEW i \in 1..index
      PROVE  /\ numbers[i] = RangeScalar(type, range, i - 1)
             /\ numbers[i].type = type /\ Scaled(numbers[i]) = ValueAt(first, step, i - 1)
             /\ IsScalar(numbers[i]) /\ IsExact(numbers[i])
  <2>1. numbers[i] = RangeScalar(type, range, i - 1) /\ MayAppend(numbers[i])
    BY DEF RangeInvariant
  <2>2. i - 1 \in Nat
    BY <1>1
  <2>3. numbers[i].type = type /\ Scaled(numbers[i]) = ValueAt(first, step, i - 1)
    BY <1>1, <2>1, <2>2, ScalarIsStep
  <2>4. IsScalar(numbers[i]) /\ IsExact(numbers[i])
    BY <1>2, <2>1, <2>3 DEF MayAppend, IsScalar, IsExact, Numeric
  <2>5. QED
    BY <2>1, <2>3, <2>4
<1>4. QED
  BY <1>1, <1>3

\* The generated values never repeat, and are never refused together.
LEMMA GeneratedAreAlternatives ==
  ASSUME RangeInvariant, pc = "generate", index = counted
  PROVE  AreAlternatives(IF base THEN <<Base>> \o numbers ELSE numbers)
<1>1. /\ IsDecimalRange(range) /\ IsRange(type, range) /\ counted = RangeCount(range) /\ counted \in Nat
      /\ DOMAIN numbers = 1..index /\ index \in Nat
      /\ \A i \in 1..index : /\ numbers[i] = RangeScalar(type, range, i - 1)
                             /\ numbers[i].type = type
                             /\ IsScalar(numbers[i])
  BY NumbersAreSteps
<1>2. index >= 1
  <2> DEFINE d == Magnitude(RangeEnd(range) - RangeStart(range))
             s == Magnitude(RangeStep(range))
  <2>1. d \in Nat /\ s \in Nat \ {0}
    BY <1>1, AlignedIntegers DEF IsRange, Magnitude
  <2>2. d \div s \in Nat
    BY <2>1, QuotientBounds
  <2>3. RangeCount(range) = (d \div s) + 1
    BY DEF RangeCount, CountOf
  <2>4. QED
    BY <1>1, <2>2, <2>3
<1>3. \A i, j \in 1..index : i # j => ValueKey(numbers[i]) # ValueKey(numbers[j])
  <2> SUFFICES ASSUME NEW i \in 1..index, NEW j \in 1..index, ValueKey(numbers[i]) = ValueKey(numbers[j]) PROVE i = j
    OBVIOUS
  <2>1. i - 1 \in Nat /\ j - 1 \in Nat
    BY <1>1
  <2>2. i - 1 = j - 1
    BY <1>1, <2>1, StepsDiffer
  <2>3. QED
    BY <1>1, <2>2
<1>4. \A i \in 1..index : ValueKey(numbers[i]).type = "number" /\ numbers[i] # Base
  BY <1>1 DEF IsRange, Numeric, ValueKey, Base
<1>5. CASE ~base
  <2>1. numbers # <<>>
    BY <1>1, <1>2
  <2>2. QED
    BY <1>1, <1>3, <1>4, <1>5, <2>1 DEF AreAlternatives, IsBaseFirst
<1>6. CASE base
  <2> DEFINE all == <<Base>> \o numbers
  <2>1. /\ DOMAIN all = 1..(index + 1) /\ all[1] = Base
        /\ \A i \in 2..(index + 1) : i - 1 \in 1..index /\ all[i] = numbers[i - 1]
    <3>1. numbers \in Seq([type : Numeric, value : Int]) /\ Len(numbers) = index
      BY DEF RangeInvariant, TypeOK
    <3>2. QED
      BY <1>1, <3>1
  <2>2. \A i \in 1..(index + 1) : i = 1 \/ i \in 2..(index + 1)
    BY <1>1
  <2> HIDE DEF all
  <2>3. all # <<>>
    BY <1>1, <2>1
  <2>4. ValueKey(Base).type = "base"
    BY DEF ValueKey, Base, Numeric
  <2>5. \A i, j \in DOMAIN all : i # j => ValueKey(all[i]) # ValueKey(all[j])
    <3> SUFFICES ASSUME NEW i \in DOMAIN all, NEW j \in DOMAIN all, i # j PROVE ValueKey(all[i]) # ValueKey(all[j])
      OBVIOUS
    <3>1. CASE i = 1
      <4>1. j \in 2..(index + 1)
        BY <2>1, <2>2, <3>1
      <4>2. ValueKey(all[j]).type = "number" /\ all[i] = Base
        BY <1>4, <2>1, <3>1, <4>1
      <4>3. QED
        BY <2>4, <4>2
    <3>2. CASE j = 1
      <4>1. i \in 2..(index + 1)
        BY <2>1, <2>2, <3>2
      <4>2. ValueKey(all[i]).type = "number" /\ all[j] = Base
        BY <1>4, <2>1, <3>2, <4>1
      <4>3. QED
        BY <2>4, <4>2
    <3>3. CASE i # 1 /\ j # 1
      <4>1. i \in 2..(index + 1) /\ j \in 2..(index + 1)
        BY <2>1, <2>2, <3>3
      <4>2. i - 1 \in 1..index /\ j - 1 \in 1..index /\ i - 1 # j - 1
        BY <1>1, <2>1, <4>1
      <4>3. QED
        BY <1>3, <2>1, <4>1, <4>2
    <3>4. QED
      BY <3>1, <3>2, <3>3
  <2>6. \A i \in DOMAIN all : all[i] # Base => IsScalar(all[i])
    BY <1>1, <2>1, <2>2
  <2>7. AreAlternatives(all)
    BY <2>1, <2>3, <2>5, <2>6 DEF AreAlternatives, IsBaseFirst
  <2>8. QED
    BY <1>6, <2>7 DEF all
<1>7. QED
  BY <1>5, <1>6

\* A range that is done is every step between its ends, exactly.
LEMMA DoneIsCovered == RangeInvariant => RangeIsCovered
<1> SUFFICES ASSUME RangeInvariant, pc = "done"
             PROVE  /\ {Scaled(numbers[i]) : i \in DOMAIN numbers}
                         = {n \in Low..High : \E k \in 0..(High - Low) : n = first + k * step}
                    /\ \A i \in DOMAIN numbers : IsScalar(numbers[i]) /\ IsExact(numbers[i])
  BY DEF RangeIsCovered
<1>1. /\ IsDecimalRange(range) /\ IsRange(type, range) /\ counted = RangeCount(range) /\ counted \in Nat
      /\ DOMAIN numbers = 1..index /\ index \in Nat
      /\ \A i \in 1..index : /\ Scaled(numbers[i]) = ValueAt(first, step, i - 1)
                             /\ IsScalar(numbers[i]) /\ IsExact(numbers[i])
  BY NumbersAreSteps
<1>2. index = RangeCount(range)
  BY <1>1 DEF RangeInvariant, CountIsKept
<1> DEFINE IsStep(n) == \E k \in 0..(RangeCount(range) - 1) : n = ValueAt(first, step, k)
<1>3. ASSUME NEW n
      PROVE  n \in {Scaled(numbers[i]) : i \in DOMAIN numbers} <=> IsStep(n)
  <2>1. \A i \in 1..index : i - 1 \in 0..(RangeCount(range) - 1)
    BY <1>1, <1>2
  <2>2. \A k \in 0..(RangeCount(range) - 1) : k + 1 \in 1..index /\ (k + 1) - 1 = k
    BY <1>1, <1>2
  <2>3. n \in {Scaled(numbers[i]) : i \in DOMAIN numbers} => IsStep(n)
    BY <1>1, <2>1
  <2>4. ASSUME NEW k \in 0..(RangeCount(range) - 1), n = ValueAt(first, step, k)
        PROVE  n \in {Scaled(numbers[i]) : i \in DOMAIN numbers}
    <3>1. k + 1 \in DOMAIN numbers /\ Scaled(numbers[k + 1]) = n
      BY <1>1, <2>2, <2>4
    <3>2. QED
      BY <3>1
  <2>5. QED
    BY <2>3, <2>4
<1>4. ASSUME NEW n
      PROVE  IsStep(n) <=> (n \in Low..High /\ \E k \in 0..(High - Low) : n = first + k * step)
  BY <1>1, StepsOfRange DEF Low, High, first, last, step
<1>5. {Scaled(numbers[i]) : i \in DOMAIN numbers} = {n \in Low..High : \E k \in 0..(High - Low) : n = first + k * step}
  <2> DEFINE A == {Scaled(numbers[i]) : i \in DOMAIN numbers}
             B == {n \in Low..High : \E k \in 0..(High - Low) : n = first + k * step}
  <2>1. \A n : n \in A <=> IsStep(n)
    BY <1>3
  <2>2. \A n : n \in B <=> (n \in Low..High /\ \E k \in 0..(High - Low) : n = first + k * step)
    OBVIOUS
  <2>3. \A n : n \in B <=> IsStep(n)
    BY <1>4, <2>2
  <2> HIDE DEF A, B, IsStep
  <2>4. A = B
    BY <2>1, <2>3
  <2>5. QED
    BY <2>4 DEF A, B
<1>6. QED
  BY <1>1, <1>5

LEMMA InitInvariant ==
  ASSUME Init
  PROVE  RangeInvariant
<1>1. 1..0 = {}
  OBVIOUS
<1>2. QED
  BY <1>1 DEF Init, RangeInvariant, TypeOK, CountIsKept

\* One step per action of the loop.
LEMMA StepInvariant ==
  ASSUME RangeInvariant, [Next]_vars
  PROVE  RangeInvariant'
<1> USE DEF RangeInvariant, TypeOK, CountIsKept
<1>1. ASSUME CountRange
      PROVE  RangeInvariant'
  <2>1. index = 0 /\ 1..index = {} /\ UNCHANGED <<range, type, base, index, numbers>>
    BY <1>1 DEF CountRange
  <2>2. CASE IsRange(type, range)
    <3>1. RangeCount(range) \in Nat /\ RangeCount(range) <= MaxRangeValues
      BY <2>2, CountIsNatural, MaterializationAssumption DEF IsRange
    <3>2. pc' = "generate" /\ counted' = RangeCount(range)
      BY <1>1, <2>2 DEF CountRange
    <3>3. QED
      BY <2>1, <2>2, <3>1, <3>2
  <2>3. CASE ~IsRange(type, range)
    <3>1. pc' = "refused" /\ counted' = counted /\ pc = "count"
      BY <1>1, <2>3 DEF CountRange
    <3>2. counted = 0
      BY <3>1
    <3>3. QED
      BY <2>1, <3>1, <3>2
  <2>4. QED
    BY <2>2, <2>3
<1>2. ASSUME GenerateNext
      PROVE  RangeInvariant'
  <2> DEFINE v == RangeScalar(type, range, index)
  <2>1. /\ pc = "generate" /\ index < counted /\ index \in Nat /\ counted \in Nat /\ counted <= MaxRangeValues
        /\ IsRange(type, range) /\ counted = RangeCount(range) /\ UNCHANGED <<range, type, base, counted>>
    BY <1>2 DEF GenerateNext
  <2>2. v \in [type : Numeric, value : Int]
    BY <2>1, ScalarIsStep, MaterializationAssumption
  <2>3. CASE MayAppend(v)
    <3>1. numbers' = Append(numbers, v) /\ index' = index + 1 /\ pc' = pc
      BY <1>2, <2>3 DEF GenerateNext, Generated
    <3> HIDE DEF v
    <3>2. /\ numbers' \in Seq([type : Numeric, value : Int]) /\ Len(numbers') = index + 1
          /\ numbers'[index + 1] = v /\ \A i \in 1..index : numbers'[i] = numbers[i]
      BY <2>2, <3>1
    <3>3. \A i \in 1..(index + 1) : i \in 1..index \/ i = index + 1
      BY <2>1
    <3>4. (index + 1) - 1 = index
      BY <2>1
    <3>5. /\ \A i \in 1..index : numbers'[i] = RangeScalar(type, range, i - 1) /\ MayAppend(numbers'[i])
          /\ numbers'[index + 1] = RangeScalar(type, range, (index + 1) - 1) /\ MayAppend(numbers'[index + 1])
      BY <2>3, <3>2, <3>4 DEF v
    <3>6. \A i \in 1..index' : numbers'[i] = RangeScalar(type, range, i - 1) /\ MayAppend(numbers'[i])
      BY <3>1, <3>3, <3>5
    <3>7. \A w : MayAppend(w)' <=> MayAppend(w)
      BY <2>1 DEF MayAppend
    <3>8. TypeOK' /\ CountIsKept'
      BY <2>1, <3>1, <3>2
    <3>9. QED
      BY <2>1, <3>1, <3>6, <3>7, <3>8
  <2>4. CASE ~MayAppend(v)
    <3>1. pc' = "refused" /\ UNCHANGED <<index, numbers>>
      BY <1>2, <2>4 DEF GenerateNext
    <3>2. \A w : MayAppend(w)' <=> MayAppend(w)
      BY <2>1 DEF MayAppend
    <3>3. ~MayAppend(RangeScalar(type, range, index))'
      BY <2>1, <2>4, <3>1 DEF MayAppend
    <3>4. QED
      BY <2>1, <3>1, <3>2, <3>3
  <2>5. QED
    BY <2>3, <2>4
<1>3. ASSUME CheckValues
      PROVE  RangeInvariant'
  <2>1. pc = "generate" /\ index = counted /\ UNCHANGED <<range, type, base, counted, index, numbers>>
    BY <1>3 DEF CheckValues, IsGenerated
  <2>2. pc' = "done"
    BY <1>3, <2>1, GeneratedAreAlternatives DEF CheckValues
  <2>3. \A w : MayAppend(w)' <=> MayAppend(w)
    BY <2>1 DEF MayAppend
  <2>4. QED
    BY <2>1, <2>2, <2>3
<1>4. CASE UNCHANGED vars
  <2>1. \A w : MayAppend(w)' <=> MayAppend(w)
    BY <1>4 DEF vars, MayAppend
  <2>2. MayAppend(RangeScalar(type, range, index))' <=> MayAppend(RangeScalar(type, range, index))
    BY <1>4 DEF vars, MayAppend
  <2>3. QED
    BY <1>4, <2>1, <2>2 DEF vars
<1>5. QED
  BY <1>1, <1>2, <1>3, <1>4 DEF Next

\* What the invariant says of the values, and of a refusal.
LEMMA RangeFollows ==
  ASSUME RangeInvariant
  PROVE  RangeIsRight
<1>1. StaysInRange
  <2>1. SUFFICES ASSUME pc \in {"generate", "done"}, index > 0
                 PROVE  /\ Low <= ValueAt(first, step, index - 1)
                        /\ ValueAt(first, step, index - 1) <= High
    BY DEF StaysInRange
  <2>2. /\ IsDecimalRange(range) /\ IsRange(type, range) /\ counted = RangeCount(range) /\ counted \in Nat
        /\ index \in Nat /\ index <= counted
    BY <2>1, MaterializationAssumption DEF RangeInvariant, TypeOK, CountIsKept
  <2>3. index - 1 \in Nat /\ index - 1 < RangeCount(range)
    BY <2>1, <2>2
  <2>4. QED
    BY <2>2, <2>3, ValuesLieBetween DEF Low, High, first, last, step
<1>2. EndsAtTheEnd
  <2>1. SUFFICES ASSUME pc \in {"generate", "done"}
                 PROVE  ValueAt(first, step, counted) < Low \/ ValueAt(first, step, counted) > High
    BY DEF EndsAtTheEnd
  <2>2. IsDecimalRange(range) /\ IsRange(type, range) /\ counted = RangeCount(range) /\ counted \in Nat
    BY <2>1, MaterializationAssumption DEF RangeInvariant, TypeOK
  <2>3. QED
    BY <2>2, ValuesLieBetween DEF Low, High, first, last, step
<1>3. RefusedForPrecision
  BY DEF RangeInvariant, MayAppend, RefusedForPrecision
<1>4. QED
  BY <1>1, <1>2, <1>3, DoneIsCovered DEF RangeInvariant, RangeIsRight

\* For all decimals, scales and limits: the values of a range are exactly its
\* steps, from its start to its end, as many as the Batch was counted with
\* before one of them was generated, and one is refused later only for its
\* precision (_range_metadata, _materialize_range).
THEOREM RangeRight == Spec => []RangeIsRight
<1>1. RangeInvariant /\ [Next]_vars => RangeInvariant'
  BY StepInvariant
<1>2. RangeInvariant => RangeIsRight
  BY RangeFollows
<1>3. QED
  BY InitInvariant, <1>1, <1>2, PTL DEF Spec

-----------------------------------------------------------------------------
(* What the machines assume of their constants, and what their copies of a *)
(* shared definition say.                                                  *)

LEMMA DefinitionAssumed == Definition!DefinitionAssumption
BY PlanningAssumption

LEMMA PreparationAssumed == Preparation!PreparationAssumption
BY PlanningAssumption

LEMMA SameNames ==
  /\ \A S : Definition!Cardinality(S) = Cardinality(S) /\ Preparation!Cardinality(S) = Cardinality(S)
  /\ \A f : Definition!IsInjective(f) <=> IsInjective(f)
  /\ \A f : Preparation!IsInjective(f) <=> IsInjective(f)
BY DEF Definition!Cardinality, Preparation!Cardinality, Cardinality, Definition!IsInjective, Preparation!IsInjective, IsInjective

\* A count is the same in every machine that knows ranges.
LEMMA RangeCountIsNatural ==
  ASSUME NEW r, Definition!IsDecimalRange(r), NEW t, Definition!IsRange(t, r)
  PROVE  Definition!RangeCount(r) \in Nat
<1>1. IsDecimalRange(r)
  BY DEF Definition!IsDecimalRange, IsDecimalRange
<1>2. ScaleOf(r) = Definition!ScaleOf(r)
  BY DEF ScaleOf, Definition!ScaleOf
<1>3. /\ RangeStart(r) = Definition!RangeStart(r)
      /\ RangeEnd(r) = Definition!RangeEnd(r)
      /\ RangeStep(r) = Definition!RangeStep(r)
  BY <1>2 DEF RangeStart, RangeEnd, RangeStep, Aligned,
     Definition!RangeStart, Definition!RangeEnd, Definition!RangeStep, Definition!Aligned
<1>4. RangeCount(r) = Definition!RangeCount(r)
  BY <1>3 DEF RangeCount, CountOf, Magnitude, Definition!RangeCount, Definition!CountOf, Definition!Magnitude
<1>5. RangeStep(r) # 0
  BY <1>3 DEF Definition!IsRange
<1>6. QED
  BY <1>1, <1>4, <1>5, CountIsNatural

-----------------------------------------------------------------------------
(* Tables. *)

LEMMA ListDomain ==
  ASSUME NEW s, Definition!IsList(s)
  PROVE  /\ DOMAIN s = 1 .. Len(s) /\ Len(s) \in Nat
         /\ s = [i \in 1 .. Len(s) |-> s[i]]
         /\ \A i \in DOMAIN s : s[i] \in Definition!Range(s)
BY DEF Definition!IsList, Definition!Range

\* A table holds a list: one row for each of its positions.
Holds(table, s) ==
    /\ \A r \in table : r.position \in DOMAIN s /\ r.value = s[r.position]
    /\ \A i \in DOMAIN s : \E r \in table : r.position = i
    /\ \A r, q \in table : r.position = q.position => r = q

\* Such a table is contiguous, and in its order the rows are the list.
LEMMA HeldIsRead ==
  ASSUME NEW table, NEW s, Definition!IsList(s), Holds(table, s)
  PROVE  Definition!Contiguous(table) /\ Definition!InOrder(table) = s /\ Cardinality(table) = Len(s) /\ {r.position : r \in table} = DOMAIN s
<1>1. DOMAIN s = 1 .. Len(s) /\ Len(s) \in Nat /\ s = [i \in 1 .. Len(s) |-> s[i]]
  BY ListDomain
<1> DEFINE row == [i \in 1 .. Len(s) |-> CHOOSE r \in table : r.position = i]
<1>2. \A i \in 1 .. Len(s) : row[i] \in table /\ row[i].position = i /\ row[i].value = s[i]
  BY <1>1 DEF Holds
<1>3. row \in [1 .. Len(s) -> table]
  BY <1>2
<1>4. row \in Bijection(1 .. Len(s), table)
  <2>1. \A i, j \in 1 .. Len(s) : row[i] = row[j] => i = j
    BY <1>2
  <2>2. \A r \in table : \E i \in 1 .. Len(s) : row[i] = r
    BY <1>1, <1>2 DEF Holds
  <2> HIDE DEF row
  <2>3. row \in Injection(1 .. Len(s), table)
    BY <1>3, <2>1 DEF Injection, IsInjective
  <2>4. row \in Surjection(1 .. Len(s), table)
    BY <1>3, <2>2 DEF Surjection
  <2>5. QED
    BY <2>3, <2>4 DEF Bijection
<1>5. IsFiniteSet(table) /\ Cardinality(table) = Cardinality(1 .. Len(s))
  <2>1. ExistsBijection(1 .. Len(s), table)
    BY <1>4 DEF ExistsBijection
  <2>2. IsFiniteSet(1 .. Len(s))
    <3>1. 1 \in Int /\ Len(s) \in Int
      BY <1>1
    <3>2. QED
      BY <3>1, FS_Interval
  <2>3. QED
    BY <2>1, <2>2, FS_Bijection
<1>6. Cardinality(table) = Len(s)
  BY <1>1, <1>5, FS_Interval
<1>7. {r.position : r \in table} = 1 .. Len(s)
  BY <1>1 DEF Holds
<1>8. Definition!InOrder(table) = s
  <2>1. Definition!InOrder(table) = [i \in 1 .. Len(s) |-> (CHOOSE r \in table : r.position = i).value]
    BY <1>6, SameNames DEF Definition!InOrder
  <2>2. \A i \in 1 .. Len(s) : (CHOOSE r \in table : r.position = i).value = s[i]
    BY <1>2
  <2>3. QED
    BY <1>1, <2>1, <2>2
<1>9. QED
  BY <1>1, <1>6, <1>7, <1>8, SameNames DEF Definition!Contiguous

LEMMA PositionsHold ==
  ASSUME NEW s
  PROVE  Holds(Definition!Positions(s), s)
<1>1. \A r \in Definition!Positions(s) : r.position \in DOMAIN s /\ r = [position |-> r.position, value |-> s[r.position]]
  BY DEF Definition!Positions
<1>2. \A i \in DOMAIN s : [position |-> i, value |-> s[i]] \in Definition!Positions(s)
  BY DEF Definition!Positions
<1>3. \A r \in Definition!Positions(s) : r.value = s[r.position]
  BY <1>1
<1>4. \A i \in DOMAIN s : \E r \in Definition!Positions(s) : r.position = i
  BY <1>2
<1>5. \A r, q \in Definition!Positions(s) : r.position = q.position => r = q
  BY <1>1
<1>6. QED
  BY <1>1, <1>3, <1>4, <1>5 DEF Holds

LEMMA NestedHolds ==
  ASSUME NEW seqs, NEW i \in DOMAIN seqs
  PROVE  Holds(Definition!Of(Definition!Nested(seqs), i), seqs[i])
<1> DEFINE row(j) == [parent |-> i, position |-> j, value |-> seqs[i][j]]
           table == Definition!Of(Definition!Nested(seqs), i)
<1>1. \A r \in table : r.position \in DOMAIN seqs[i] /\ r = row(r.position)
  <2> SUFFICES ASSUME NEW r \in table PROVE r.position \in DOMAIN seqs[i] /\ r = row(r.position)
    OBVIOUS
  <2>1. r \in Definition!Nested(seqs) /\ r.parent = i
    BY DEF Definition!Of
  <2>2. PICK k \in DOMAIN seqs : r \in {[parent |-> k, position |-> j, value |-> seqs[k][j]] : j \in DOMAIN seqs[k]}
    BY <2>1 DEF Definition!Nested
  <2>3. PICK j \in DOMAIN seqs[k] : r = [parent |-> k, position |-> j, value |-> seqs[k][j]]
    BY <2>2
  <2>4. k = i /\ r.position = j
    BY <2>1, <2>3
  <2>5. QED
    BY <2>3, <2>4
<1>2. \A j \in DOMAIN seqs[i] : row(j) \in table
  BY DEF Definition!Of, Definition!Nested
<1>3. \A r \in table : r.value = seqs[i][r.position]
  BY <1>1
<1>4. \A j \in DOMAIN seqs[i] : \E r \in table : r.position = j
  BY <1>2
<1>5. \A r, q \in table : r.position = q.position => r = q
  BY <1>1
<1>6. QED
  BY <1>1, <1>3, <1>4, <1>5 DEF Holds

-----------------------------------------------------------------------------
(* Reading back. *)

\* Whatever is taken of every element of a list is a list again.
LEMMA MappedList ==
  ASSUME NEW s, Definition!IsList(s), NEW f, f = [i \in DOMAIN s |-> f[i]]
  PROVE  Definition!IsList(f) /\ DOMAIN f = DOMAIN s /\ Len(f) = Len(s)
<1>1. DOMAIN s = 1 .. Len(s) /\ Len(s) \in Nat
  BY ListDomain
<1>2. DOMAIN f = 1 .. Len(s)
  BY <1>1
<1>3. \A i \in 1 .. Len(s) : f[i] \in Definition!Range(f)
  BY <1>2 DEF Definition!Range
<1>4. f \in [1 .. Len(s) -> Definition!Range(f)]
  BY <1>1, <1>3
<1>5. f \in Seq(Definition!Range(f))
  BY <1>1, <1>4
<1>6. QED
  BY <1>1, <1>2, <1>5 DEF Definition!IsList

\* The rows of a list of which something is taken give that back.
LEMMA MappedIsRead ==
  ASSUME NEW s, Definition!IsList(s), NEW f, f = [i \in DOMAIN s |-> f[i]]
  PROVE  /\ Definition!InOrder(Definition!Positions(f)) = f /\ Definition!Contiguous(Definition!Positions(f))
         /\ {r.position : r \in Definition!Positions(f)} = DOMAIN s /\ DOMAIN f = DOMAIN s
BY MappedList, PositionsHold, HeldIsRead

LEMMA NestedIsRead ==
  ASSUME NEW seqs, NEW i \in DOMAIN seqs, Definition!IsList(seqs[i])
  PROVE  /\ Definition!InOrder(Definition!Of(Definition!Nested(seqs), i)) = seqs[i] /\ Definition!Contiguous(Definition!Of(Definition!Nested(seqs), i))
         /\ Cardinality(Definition!Of(Definition!Nested(seqs), i)) = Len(seqs[i])
         /\ {r.position : r \in Definition!Of(Definition!Nested(seqs), i)} = DOMAIN seqs[i]
BY NestedHolds, HeldIsRead

LEMMA PromptsAreRead ==
  ASSUME NEW d, Definition!IsRequest(d), rows = Definition!RowsOf(d)
  PROVE  Definition!InOrder(rows.prompts) = Definition!Versions(d.prompts) /\ Definition!InOrder(rows.variables) = d.variables
<1>1. rows.prompts = Definition!Positions(Definition!Versions(d.prompts)) /\ rows.variables = Definition!Positions(d.variables)
  BY DEF Definition!RowsOf
<1>2. Definition!IsList(d.prompts) /\ Definition!IsList(d.variables)
  BY DEF Definition!IsRequest
<1>3. Definition!Versions(d.prompts) = [i \in DOMAIN d.prompts |-> Definition!Versions(d.prompts)[i]]
  BY DEF Definition!Versions
<1>4. QED
  BY <1>1, <1>2, <1>3, MappedIsRead, PositionsHold, HeldIsRead

LEMMA ImagesAreRead ==
  ASSUME NEW d, Definition!IsRequest(d), rows = Definition!RowsOf(d)
  PROVE  /\ Definition!ReadImages = d.images
         /\ Definition!Contiguous(rows.images)
         /\ \A r \in rows.images : Definition!Contiguous(Definition!Of(rows.imageValues, r.position))
<1> DEFINE s == d.images
<1>1. rows.images = Definition!Positions(Definition!Keys(s)) /\ rows.imageValues = Definition!Nested(Definition!Values(s))
  BY DEF Definition!RowsOf
<1>2. Definition!IsList(s) /\ \A i \in DOMAIN s : Definition!IsImage(s[i])
  BY DEF Definition!IsRequest, Definition!Range
<1>3. DOMAIN s = 1 .. Len(s) /\ s = [i \in DOMAIN s |-> s[i]]
  BY <1>2, ListDomain
<1> HIDE DEF s
<1>4. Definition!Keys(s) = [i \in DOMAIN s |-> Definition!Keys(s)[i]] /\ \A i \in DOMAIN s : Definition!Keys(s)[i] = s[i].key
  BY DEF Definition!Keys
<1>5. Definition!InOrder(rows.images) = Definition!Keys(s) /\ Definition!Contiguous(rows.images)
      /\ {r.position : r \in rows.images} = DOMAIN s /\ DOMAIN Definition!Keys(s) = DOMAIN s
  BY <1>1, <1>2, <1>4, MappedIsRead
<1>6. DOMAIN Definition!Values(s) = DOMAIN s /\ \A i \in DOMAIN s : Definition!Values(s)[i] = s[i].values
  BY DEF Definition!Values
<1>7. \A i \in DOMAIN s : Definition!InOrder(Definition!Of(rows.imageValues, i)) = s[i].values /\ Definition!Contiguous(Definition!Of(rows.imageValues, i))
  <2> SUFFICES ASSUME NEW i \in DOMAIN s
               PROVE  Definition!InOrder(Definition!Of(rows.imageValues, i)) = s[i].values /\ Definition!Contiguous(Definition!Of(rows.imageValues, i))
    OBVIOUS
  <2>1. Definition!IsList(Definition!Values(s)[i])
    BY <1>2, <1>6 DEF Definition!IsImage
  <2>2. Definition!InOrder(Definition!Of(Definition!Nested(Definition!Values(s)), i)) = Definition!Values(s)[i] /\ Definition!Contiguous(Definition!Of(Definition!Nested(Definition!Values(s)), i))
    BY ONLY <1>6, <2>1, NestedIsRead
  <2>3. QED
    BY <1>1, <1>6, <2>2
<1>8. Definition!ReadImages = [i \in DOMAIN s |-> [key |-> Definition!Keys(s)[i], values |-> Definition!InOrder(Definition!Of(rows.imageValues, i))]]
  BY <1>5 DEF Definition!ReadImages
<1>9. \A i \in DOMAIN s : [key |-> Definition!Keys(s)[i], values |-> Definition!InOrder(Definition!Of(rows.imageValues, i))] = s[i]
  BY <1>2, <1>4, <1>7 DEF Definition!IsImage
<1>10. Definition!ReadImages = s
  BY <1>3, <1>8, <1>9
<1>11. \A r \in rows.images : r.position \in DOMAIN s
  BY <1>5
<1>12. QED
  BY <1>5, <1>7, <1>10, <1>11 DEF s

LEMMA IntentsAreRead ==
  ASSUME NEW d, Definition!IsRequest(d), rows = Definition!RowsOf(d)
  PROVE  /\ Definition!ReadIntents = d.intents
         /\ Definition!Contiguous(rows.intents)
         /\ \A r \in rows.intents : Definition!Contiguous(Definition!Of(rows.intentValues, r.position))
<1> DEFINE s == d.intents
<1>1. rows.intents = Definition!Positions(Definition!Emptied(s)) /\ rows.intentValues = Definition!Nested(Definition!Values(s))
  BY DEF Definition!RowsOf
<1>2. Definition!IsList(s) /\ \A i \in DOMAIN s : Definition!IsBound(s[i])
  BY DEF Definition!IsRequest, Definition!Range
<1>3. DOMAIN s = 1 .. Len(s) /\ s = [i \in DOMAIN s |-> s[i]]
  BY <1>2, ListDomain
<1> HIDE DEF s
<1>3b. Definition!Emptied(s) = [i \in DOMAIN s |-> Definition!Emptied(s)[i]]
  BY DEF Definition!Emptied
<1>4. \A i \in DOMAIN s : Definition!Emptied(s)[i] = [s[i] EXCEPT !.values = <<>>]
  BY DEF Definition!Emptied
<1>5. Definition!InOrder(rows.intents) = Definition!Emptied(s) /\ Definition!Contiguous(rows.intents)
      /\ {r.position : r \in rows.intents} = DOMAIN s /\ DOMAIN Definition!Emptied(s) = DOMAIN s
  BY <1>1, <1>2, <1>3b, MappedIsRead
<1>6. DOMAIN Definition!Values(s) = DOMAIN s /\ \A i \in DOMAIN s : Definition!Values(s)[i] = s[i].values
  BY DEF Definition!Values
<1>7. \A i \in DOMAIN s : Definition!InOrder(Definition!Of(rows.intentValues, i)) = s[i].values /\ Definition!Contiguous(Definition!Of(rows.intentValues, i))
  <2> SUFFICES ASSUME NEW i \in DOMAIN s
               PROVE  Definition!InOrder(Definition!Of(rows.intentValues, i)) = s[i].values /\ Definition!Contiguous(Definition!Of(rows.intentValues, i))
    OBVIOUS
  <2>1. Definition!IsList(Definition!Values(s)[i])
    BY <1>2, <1>6 DEF Definition!IsBound
  <2>2. Definition!InOrder(Definition!Of(Definition!Nested(Definition!Values(s)), i)) = Definition!Values(s)[i] /\ Definition!Contiguous(Definition!Of(Definition!Nested(Definition!Values(s)), i))
    BY ONLY <1>6, <2>1, NestedIsRead
  <2>3. QED
    BY <1>1, <1>6, <2>2
<1>8. Definition!ReadIntents = [i \in DOMAIN s |-> [Definition!Emptied(s)[i] EXCEPT !.values = Definition!InOrder(Definition!Of(rows.intentValues, i))]]
  BY <1>5 DEF Definition!ReadIntents
<1>9. \A i \in DOMAIN s : [Definition!Emptied(s)[i] EXCEPT !.values = Definition!InOrder(Definition!Of(rows.intentValues, i))] = s[i]
  <2> SUFFICES ASSUME NEW i \in DOMAIN s
               PROVE  [Definition!Emptied(s)[i] EXCEPT !.values = Definition!InOrder(Definition!Of(rows.intentValues, i))] = s[i]
    OBVIOUS
  <2> DEFINE x == s[i]
  <2>1. x = [key |-> x.key, mode |-> x.mode, values |-> x.values, base |-> x.base, range |-> x.range]
    BY <1>2 DEF Definition!IsBound
  <2>2. [Definition!Emptied(s)[i] EXCEPT !.values = Definition!InOrder(Definition!Of(rows.intentValues, i))] = [[x EXCEPT !.values = <<>>] EXCEPT !.values = x.values]
    BY <1>4, <1>7
  <2> HIDE DEF x
  <2>3. [[x EXCEPT !.values = <<>>] EXCEPT !.values = x.values] = x
    BY <2>1
  <2>4. QED
    BY <2>2, <2>3 DEF x
<1>10. Definition!ReadIntents = s
  BY <1>3, <1>8, <1>9
<1>11. \A r \in rows.intents : r.position \in DOMAIN s
  BY <1>5
<1>12. QED
  BY <1>5, <1>7, <1>10, <1>11 DEF s

\* There is one cell at each place of a linked set, and it holds the value.
LEMMA CellIsRead ==
  ASSUME NEW d, rows = Definition!RowsOf(d), NEW i \in DOMAIN d.sets,
         NEW r \in DOMAIN d.sets[i].rows, NEW k \in DOMAIN d.sets[i].members
  PROVE  Definition!CellOf(i, r, k) = d.sets[i].rows[r][k]
<1> DEFINE cell(a, b, c) == [set |-> a, row |-> b, member |-> c, value |-> d.sets[a].rows[b][c]]
<1>1. rows.cells = UNION {{cell(a, b, c) : b \in DOMAIN d.sets[a].rows, c \in DOMAIN d.sets[a].members} : a \in DOMAIN d.sets}
  BY DEF Definition!RowsOf
<1>2. cell(i, r, k) \in rows.cells
  BY <1>1
<1>3. \A x \in rows.cells : x.set = i /\ x.row = r /\ x.member = k => x = cell(i, r, k)
  <2> SUFFICES ASSUME NEW x \in rows.cells, x.set = i /\ x.row = r /\ x.member = k PROVE x = cell(i, r, k)
    OBVIOUS
  <2>1. PICK a \in DOMAIN d.sets : x \in {cell(a, b, c) : b \in DOMAIN d.sets[a].rows, c \in DOMAIN d.sets[a].members}
    BY <1>1
  <2>2. PICK b \in DOMAIN d.sets[a].rows, c \in DOMAIN d.sets[a].members : x = cell(a, b, c)
    BY <2>1
  <2>3. a = i /\ b = r /\ c = k
    BY <2>2
  <2>4. QED
    BY <2>2, <2>3
<1>4. PICK x : x = CHOOSE c \in rows.cells : c.set = i /\ c.row = r /\ c.member = k
  OBVIOUS
<1>5. x \in rows.cells /\ x.set = i /\ x.row = r /\ x.member = k
  BY <1>2, <1>4
<1>6. x = cell(i, r, k)
  BY <1>3, <1>5
<1>7. x.value = d.sets[i].rows[r][k]
  BY <1>6
<1>8. QED
  BY <1>4, <1>7 DEF Definition!CellOf

\* The linked sets: their members, the widths of their rows, and their cells.
LEMMA SetsAreRead ==
  ASSUME NEW d, Definition!IsRequest(d), \A set \in Definition!Range(d.sets) : Definition!SetIsValid(set), rows = Definition!RowsOf(d)
  PROVE  /\ Definition!ReadSets = d.sets
         /\ Definition!Contiguous(rows.sets) /\ {r.position : r \in rows.sets} = DOMAIN d.sets
         /\ \A i \in DOMAIN d.sets :
              /\ Definition!Contiguous(Definition!Of(rows.members, i)) /\ Cardinality(Definition!Of(rows.members, i)) = Len(d.sets[i].members)
              /\ {r.position : r \in Definition!Of(rows.members, i)} = DOMAIN d.sets[i].members
              /\ Definition!Contiguous(Definition!Of(rows.setRows, i)) /\ Cardinality(Definition!Of(rows.setRows, i)) = Len(d.sets[i].rows)
              /\ {r.position : r \in Definition!Of(rows.setRows, i)} = DOMAIN d.sets[i].rows
<1> DEFINE s == d.sets
<1>1. rows.sets = Definition!Positions(Definition!Names(s)) /\ rows.members = Definition!Nested(Definition!MembersOf(s)) /\ rows.setRows = Definition!Nested(Definition!Widths(s))
  BY DEF Definition!RowsOf
<1>2. Definition!IsList(s) /\ \A i \in DOMAIN s : Definition!IsLinked(s[i])
  BY DEF Definition!IsRequest, Definition!Range
<1>3. DOMAIN s = 1 .. Len(s) /\ s = [i \in DOMAIN s |-> s[i]]
  BY <1>2, ListDomain
<1>4. \A i \in DOMAIN s : Definition!SetIsValid(s[i])
  BY DEF Definition!Range
<1>5. Definition!Names(s) = [i \in DOMAIN s |-> Definition!Names(s)[i]]
  BY DEF Definition!Names
<1>6. \A i \in DOMAIN s : Definition!Names(s)[i] = [key |-> s[i].key, label |-> s[i].label]
  BY DEF Definition!Names
<1>7. Definition!InOrder(rows.sets) = Definition!Names(s) /\ Definition!Contiguous(rows.sets)
      /\ {r.position : r \in rows.sets} = DOMAIN s /\ DOMAIN Definition!Names(s) = DOMAIN s
  <2> HIDE DEF s
  <2>1. QED
    BY <1>1, <1>2, <1>5, MappedIsRead
<1>8. ASSUME NEW i \in DOMAIN s
      PROVE  /\ Definition!InOrder(Definition!Of(rows.members, i)) = s[i].members /\ Definition!Contiguous(Definition!Of(rows.members, i))
             /\ Cardinality(Definition!Of(rows.members, i)) = Len(s[i].members)
             /\ {r.position : r \in Definition!Of(rows.members, i)} = DOMAIN s[i].members
  <2> HIDE DEF s
  <2>1. DOMAIN Definition!MembersOf(s) = DOMAIN s /\ Definition!MembersOf(s)[i] = s[i].members
    BY DEF Definition!MembersOf
  <2>2. Definition!IsList(Definition!MembersOf(s)[i])
    BY <1>2, <2>1 DEF Definition!IsLinked
  <2>3. /\ Definition!InOrder(Definition!Of(Definition!Nested(Definition!MembersOf(s)), i)) = Definition!MembersOf(s)[i] /\ Definition!Contiguous(Definition!Of(Definition!Nested(Definition!MembersOf(s)), i))
        /\ Cardinality(Definition!Of(Definition!Nested(Definition!MembersOf(s)), i)) = Len(Definition!MembersOf(s)[i])
        /\ {r.position : r \in Definition!Of(Definition!Nested(Definition!MembersOf(s)), i)} = DOMAIN Definition!MembersOf(s)[i]
    BY ONLY <2>1, <2>2, NestedIsRead
  <2>4. QED
    BY <1>1, <2>1, <2>3
<1>9. ASSUME NEW i \in DOMAIN s
      PROVE  /\ Definition!Contiguous(Definition!Of(rows.setRows, i))
             /\ Cardinality(Definition!Of(rows.setRows, i)) = Len(s[i].rows)
             /\ {r.position : r \in Definition!Of(rows.setRows, i)} = DOMAIN s[i].rows
  <2> HIDE DEF s
  <2> DEFINE widths == [r \in DOMAIN s[i].rows |-> Len(s[i].rows[r])]
  <2>1. DOMAIN Definition!Widths(s) = DOMAIN s /\ Definition!Widths(s)[i] = widths
    BY DEF Definition!Widths
  <2>2. Definition!IsList(s[i].rows)
    BY <1>2 DEF Definition!IsLinked
  <2>3. widths = [r \in DOMAIN s[i].rows |-> widths[r]]
    OBVIOUS
  <2> HIDE DEF widths
  <2>4. Definition!IsList(widths) /\ DOMAIN widths = DOMAIN s[i].rows /\ Len(widths) = Len(s[i].rows)
    BY ONLY <2>2, <2>3, MappedList
  <2>5. Definition!IsList(Definition!Widths(s)[i])
    BY <2>1, <2>4
  <2>6. /\ Definition!Contiguous(Definition!Of(Definition!Nested(Definition!Widths(s)), i))
        /\ Cardinality(Definition!Of(Definition!Nested(Definition!Widths(s)), i)) = Len(Definition!Widths(s)[i])
        /\ {r.position : r \in Definition!Of(Definition!Nested(Definition!Widths(s)), i)} = DOMAIN Definition!Widths(s)[i]
    BY ONLY <2>1, <2>5, NestedIsRead
  <2>7. QED
    BY <1>1, <2>1, <2>4, <2>6
<1> DEFINE read(i) ==
      [key |-> Definition!Names(s)[i].key, label |-> Definition!Names(s)[i].label, members |-> Definition!InOrder(Definition!Of(rows.members, i)),
       rows |-> [r \in 1 .. Cardinality(Definition!Of(rows.setRows, i)) |->
                   [k \in DOMAIN Definition!InOrder(Definition!Of(rows.members, i)) |-> Definition!CellOf(i, r, k)]]]
<1>10. Definition!ReadSets = [i \in DOMAIN s |-> read(i)]
  <2> HIDE DEF s
  <2>1. QED
    BY <1>7, SameNames DEF Definition!ReadSets
<1>11. ASSUME NEW i \in DOMAIN s PROVE read(i) = s[i]
  <2>1. Definition!IsList(s[i].rows) /\ Definition!IsList(s[i].members) /\ \A row \in Definition!Range(s[i].rows) : Definition!IsList(row) /\ Len(row) = Len(s[i].members)
    BY <1>2, <1>4 DEF Definition!IsLinked, Definition!SetIsValid
  <2>2. DOMAIN s[i].rows = 1 .. Len(s[i].rows) /\ s[i].rows = [r \in DOMAIN s[i].rows |-> s[i].rows[r]]
        /\ DOMAIN s[i].members = 1 .. Len(s[i].members)
    BY <2>1, ListDomain
  <2>3. ASSUME NEW r \in DOMAIN s[i].rows
        PROVE  [k \in DOMAIN s[i].members |-> Definition!CellOf(i, r, k)] = s[i].rows[r]
    <3>1. Definition!IsList(s[i].rows[r]) /\ Len(s[i].rows[r]) = Len(s[i].members)
      BY <2>1 DEF Definition!Range
    <3>2. DOMAIN s[i].rows[r] = DOMAIN s[i].members /\ s[i].rows[r] = [k \in DOMAIN s[i].rows[r] |-> s[i].rows[r][k]]
      BY <2>2, <3>1, ListDomain
    <3>3. \A k \in DOMAIN s[i].members : Definition!CellOf(i, r, k) = s[i].rows[r][k]
      BY CellIsRead
    <3>4. QED
      BY <3>2, <3>3
  <2>4. [r \in 1 .. Len(s[i].rows) |-> [k \in DOMAIN s[i].members |-> Definition!CellOf(i, r, k)]] = s[i].rows
    BY <2>2, <2>3
  <2>5. read(i) = [key |-> s[i].key, label |-> s[i].label, members |-> s[i].members, rows |-> s[i].rows]
    <3>1. Definition!Names(s)[i].key = s[i].key /\ Definition!Names(s)[i].label = s[i].label
      <4>1. Definition!Names(s)[i] = [key |-> s[i].key, label |-> s[i].label]
        BY <1>6
      <4>2. QED
        BY ONLY <4>1
    <3>2. Definition!InOrder(Definition!Of(rows.members, i)) = s[i].members
      BY <1>8
    <3>3. Cardinality(Definition!Of(rows.setRows, i)) = Len(s[i].rows)
      BY <1>9
    <3>4. [r \in 1 .. Cardinality(Definition!Of(rows.setRows, i)) |-> [k \in DOMAIN Definition!InOrder(Definition!Of(rows.members, i)) |-> Definition!CellOf(i, r, k)]]
            = s[i].rows
      BY <2>4, <3>2, <3>3
    <3>5. QED
      BY <3>1, <3>2, <3>4
  <2>6. QED
    BY <1>2, <2>5 DEF Definition!IsLinked
<1>12. Definition!ReadSets = s
  <2> HIDE DEF s, read
  <2>1. QED
    BY <1>3, <1>10, <1>11
<1>13. QED
  BY <1>7, <1>8, <1>9, <1>12

-----------------------------------------------------------------------------
(* The Profile's order. *)

\* As many members of a finite set of integers come up to one of them as give
\* it its rank, and a later one has a higher rank.
LEMMA RankOfMember ==
  ASSUME NEW S \in SUBSET Int, IsFiniteSet(S), NEW i \in S
  PROVE  /\ Cardinality({x \in S : x <= i}) \in 1 .. Cardinality(S)
         /\ \A j \in S : i < j => Cardinality({x \in S : x <= i}) < Cardinality({x \in S : x <= j})
         /\ Definition!Nth(S, Cardinality({x \in S : x <= i})) = i
<1> DEFINE upto(j) == {x \in S : x <= j}
<1>1. \A j \in S : IsFiniteSet(upto(j)) /\ Cardinality(upto(j)) \in Nat /\ Cardinality(upto(j)) <= Cardinality(S)
  <2> SUFFICES ASSUME NEW j \in S
               PROVE  IsFiniteSet(upto(j)) /\ Cardinality(upto(j)) \in Nat /\ Cardinality(upto(j)) <= Cardinality(S)
    OBVIOUS
  <2>1. upto(j) \in SUBSET S
    OBVIOUS
  <2> HIDE DEF upto
  <2>2. IsFiniteSet(upto(j)) /\ Cardinality(upto(j)) <= Cardinality(S)
    BY <2>1, FS_Subset
  <2>3. Cardinality(upto(j)) \in Nat
    BY <2>2, FS_CardinalityType
  <2>4. QED
    BY <2>2, <2>3
<1>2. Cardinality(S) \in Nat
  BY FS_CardinalityType
<1>3. i \in upto(i)
  OBVIOUS
<1>4. Cardinality(upto(i)) # 0
  <2> HIDE DEF upto
  <2>1. QED
    BY <1>1, <1>3, FS_EmptySet
<1>5. \A j, k \in S : j < k => Cardinality(upto(j)) < Cardinality(upto(k))
  <2> SUFFICES ASSUME NEW j \in S, NEW k \in S, j < k PROVE Cardinality(upto(j)) < Cardinality(upto(k))
    OBVIOUS
  <2>1. upto(j) \in SUBSET upto(k) /\ k \in upto(k) /\ k \notin upto(j)
    <3>1. j \in Int /\ k \in Int /\ \A x \in S : x \in Int
      OBVIOUS
    <3>2. \A x \in S : x <= j => x <= k
      BY <3>1
    <3>3. k <= k /\ ~(k <= j)
      BY <3>1
    <3>4. QED
      BY <3>2, <3>3
  <2> HIDE DEF upto
  <2>2. Cardinality(upto(j)) <= Cardinality(upto(k)) /\ (Cardinality(upto(k)) = Cardinality(upto(j)) => upto(k) = upto(j))
    BY <1>1, <2>1, FS_Subset
  <2>3. QED
    BY <1>1, <2>1, <2>2
<1>6. \A j \in S : Cardinality(upto(j)) = Cardinality(upto(i)) => j = i
  <2> SUFFICES ASSUME NEW j \in S, Cardinality(upto(j)) = Cardinality(upto(i)) PROVE j = i
    OBVIOUS
  <2> HIDE DEF upto
  <2>1. j < i \/ i < j \/ j = i
    OBVIOUS
  <2>2. QED
    BY <1>1, <1>5, <2>1
<1>7. Definition!Nth(S, Cardinality(upto(i))) = i
  BY <1>6, SameNames DEF Definition!Nth
<1>8. QED
  <2> HIDE DEF upto
  <2>1. Cardinality(upto(i)) \in 1 .. Cardinality(S)
    BY <1>1, <1>2, <1>4
  <2>2. QED
    BY <1>5, <1>7, <2>1 DEF upto

\* The independent parameters, by their places among the Profile's.
Free(d) == {i \in DOMAIN Definition!ProfileKeys(d) : Definition!ProfileKeys(d)[i] \notin Definition!Members(d)}

LEMMA FreePlaces ==
  ASSUME NEW d, Definition!IsRequest(d), Definition!Selected(d.target)
  PROVE  /\ Free(d) \in SUBSET Int /\ IsFiniteSet(Free(d)) /\ Cardinality(Free(d)) \in Nat
         /\ DOMAIN Definition!ProfileKeys(d) \subseteq Int
         /\ DOMAIN Definition!IndependentKeys(d) = 1 .. Cardinality(Free(d))
         /\ \A i \in Free(d) :
              LET n == Cardinality({x \in Free(d) : x <= i}) IN
              n \in DOMAIN Definition!IndependentKeys(d) /\ Definition!IndependentKeys(d)[n] = Definition!ProfileKeys(d)[i]
<1>1. Definition!IsList(Definition!ProfileParameters(d))
  BY DEF Definition!IsRequest, Definition!ProfileParameters, Definition!Selected
<1>2. DOMAIN Definition!ProfileKeys(d) = 1 .. Len(Definition!ProfileParameters(d)) /\ Len(Definition!ProfileParameters(d)) \in Nat
  BY <1>1, ListDomain DEF Definition!ProfileKeys, Definition!Keys
<1>3. Free(d) \in SUBSET (1 .. Len(Definition!ProfileParameters(d)))
  BY <1>2 DEF Free
<1>4. IsFiniteSet(1 .. Len(Definition!ProfileParameters(d)))
  <2>1. 1 \in Int /\ Len(Definition!ProfileParameters(d)) \in Int
    BY <1>2
  <2>2. QED
    BY <2>1, FS_Interval
<1>5. IsFiniteSet(Free(d))
  BY <1>3, <1>4, FS_Subset
<1>6. Cardinality(Free(d)) \in Nat
  BY <1>5, FS_CardinalityType
<1>7. Free(d) \in SUBSET Int
  BY <1>2, <1>3
<1>8. Definition!IndependentKeys(d) = [n \in 1 .. Cardinality(Free(d)) |-> Definition!ProfileKeys(d)[Definition!Nth(Free(d), n)]]
  BY SameNames DEF Definition!IndependentKeys, Free
<1>9. ASSUME NEW i \in Free(d), NEW n, n = Cardinality({x \in Free(d) : x <= i})
      PROVE  n \in DOMAIN Definition!IndependentKeys(d) /\ Definition!IndependentKeys(d)[n] = Definition!ProfileKeys(d)[i]
  <2>1. n \in 1 .. Cardinality(Free(d)) /\ Definition!Nth(Free(d), n) = i
    BY <1>5, <1>7, <1>9, RankOfMember
  <2>2. QED
    BY <1>8, <2>1
<1>10. QED
  BY <1>2, <1>5, <1>6, <1>7, <1>8, <1>9

\* Ordering the intents leaves a request a request.
LEMMA OrderedRequest ==
  ASSUME NEW d, Definition!IsRequest(d)
  PROVE  Definition!IsRequest(Definition!InProfileOrder(d))
<1> DEFINE keys == Definition!IndependentKeys(d)
           ordered == [i \in DOMAIN keys |-> CHOOSE x \in Definition!Range(d.intents) : x.key = keys[i]]
<1>1. CASE Definition!Selected(d.target) /\ Definition!IsInjective(Definition!Keys(d.intents)) /\ Definition!Range(Definition!Keys(d.intents)) = Definition!Range(keys)
  <2>1. DOMAIN keys = 1 .. Cardinality(Free(d)) /\ Cardinality(Free(d)) \in Nat
    BY <1>1, FreePlaces
  <2>2. \A i \in DOMAIN keys : ordered[i] \in Definition!Range(d.intents)
    <3> SUFFICES ASSUME NEW i \in DOMAIN keys PROVE \E x \in Definition!Range(d.intents) : x.key = keys[i]
      OBVIOUS
    <3>1. keys[i] \in Definition!Range(Definition!Keys(d.intents))
      BY <1>1 DEF Definition!Range
    <3>2. PICK j \in DOMAIN d.intents : keys[i] = d.intents[j].key
      BY <3>1 DEF Definition!Range, Definition!Keys
    <3>3. QED
      BY <3>2 DEF Definition!Range
  <2> HIDE DEF keys
  <2>3. DOMAIN ordered = 1 .. Cardinality(Free(d))
    BY <2>1
  <2>4. ordered = [i \in DOMAIN ordered |-> ordered[i]]
    OBVIOUS
  <2> HIDE DEF ordered
  <2>5. ordered \in Seq(Definition!Range(ordered))
    <3>1. ordered \in [1 .. Cardinality(Free(d)) -> Definition!Range(ordered)]
      BY <2>3, <2>4 DEF Definition!Range
    <3>2. QED
      BY <2>1, <3>1
  <2>6. Definition!IsList(ordered) /\ \A x \in Definition!Range(ordered) : Definition!IsBound(x)
    <3>1. Definition!Range(ordered) \subseteq Definition!Range(d.intents)
      BY <2>1, <2>2, <2>3 DEF Definition!Range
    <3>2. QED
      BY <2>5, <3>1 DEF Definition!IsList, Definition!IsRequest
  <2>7. Definition!InProfileOrder(d) = [d EXCEPT !.intents = ordered]
    BY <1>1 DEF Definition!InProfileOrder, keys, ordered
  <2> DEFINE e == [d EXCEPT !.intents = ordered]
  <2>8. /\ DOMAIN e = DOMAIN d /\ e.prompts = d.prompts /\ e.variables = d.variables /\ e.images = d.images
        /\ e.sets = d.sets /\ e.target = d.target /\ e.intents = ordered
    BY DEF Definition!IsRequest
  <2> HIDE DEF e
  <2>9. Definition!IsRequest(e)
    BY <2>6, <2>8 DEF Definition!IsRequest
  <2>10. QED
    BY <2>7, <2>9 DEF e
<1>2. CASE ~(Definition!Selected(d.target) /\ Definition!IsInjective(Definition!Keys(d.intents)) /\ Definition!Range(Definition!Keys(d.intents)) = Definition!Range(keys))
  BY <1>2 DEF Definition!InProfileOrder
<1>3. QED
  BY <1>1, <1>2

-----------------------------------------------------------------------------
(* What is stored. *)

\* The library checks hold of what was accepted, and the tables are its rows.
IsKept(d) == Definition!IsRequest(d) /\ Definition!IsDefinition(d) /\ Definition!SelectionsAreKnown(d)

LEMMA KeptIsWhole ==
  ASSUME NEW d, IsKept(d), rows = Definition!RowsOf(d)
  PROVE  Definition!TablesAreWhole
<1>1. Definition!IsRequest(d) /\ \A set \in Definition!Range(d.sets) : Definition!SetIsValid(set)
  BY DEF IsKept, Definition!IsDefinition
<1>2. \A i \in DOMAIN d.sets : Definition!SetIsValid(d.sets[i]) /\ Definition!IsLinked(d.sets[i])
  BY <1>1 DEF Definition!IsRequest, Definition!Range
<1>3. ASSUME NEW q \in rows.sets
      PROVE  LET i == q.position
                 members == Definition!Of(rows.members, i)
                 setRows == Definition!Of(rows.setRows, i)
                 cells == {c \in rows.cells : c.set = i} IN
             /\ Definition!Contiguous(members) /\ Cardinality(members) >= 2
             /\ Definition!Contiguous(setRows) /\ setRows # {}
             /\ \A x \in setRows :
                  {c.member : c \in {c \in cells : c.row = x.position}} = {m.position : m \in members}
  <2> DEFINE i == q.position
             members == Definition!Of(rows.members, i)
             setRows == Definition!Of(rows.setRows, i)
             cells == {c \in rows.cells : c.set = i}
             cell(a, b, c) == [set |-> a, row |-> b, member |-> c, value |-> d.sets[a].rows[b][c]]
  <2>1. i \in DOMAIN d.sets
    BY <1>1, SetsAreRead
  <2>2. /\ Definition!Contiguous(members) /\ Cardinality(members) = Len(d.sets[i].members)
        /\ {r.position : r \in members} = DOMAIN d.sets[i].members
        /\ Definition!Contiguous(setRows) /\ Cardinality(setRows) = Len(d.sets[i].rows)
        /\ {r.position : r \in setRows} = DOMAIN d.sets[i].rows
    BY <1>1, <2>1, SetsAreRead
  <2>3. Len(d.sets[i].members) >= 2 /\ d.sets[i].rows # <<>> /\ Definition!IsList(d.sets[i].rows)
    BY <1>2, <2>1 DEF Definition!SetIsValid, Definition!IsLinked
  <2>4. setRows # {}
    <3>1. DOMAIN d.sets[i].rows # {}
      <4>1. Len(d.sets[i].rows) # 0
        BY <2>3 DEF Definition!IsList
      <4>2. DOMAIN d.sets[i].rows = 1 .. Len(d.sets[i].rows) /\ Len(d.sets[i].rows) \in Nat
        BY <2>3, ListDomain
      <4>3. 1 \in 1 .. Len(d.sets[i].rows)
        BY <4>1, <4>2
      <4>4. QED
        BY <4>2, <4>3
    <3> HIDE DEF setRows
    <3>2. QED
      BY <2>2, <3>1
  <2>5. rows.cells = UNION {{cell(a, b, c) : b \in DOMAIN d.sets[a].rows, c \in DOMAIN d.sets[a].members} : a \in DOMAIN d.sets}
    BY DEF Definition!RowsOf
  <2>6. ASSUME NEW x \in setRows
        PROVE  {c.member : c \in {c \in cells : c.row = x.position}} = DOMAIN d.sets[i].members
    <3>1. x.position \in DOMAIN d.sets[i].rows
      <4> HIDE DEF setRows
      <4>1. QED
        BY <2>2
    <3>2. ASSUME NEW c \in rows.cells, c.set = i PROVE c.member \in DOMAIN d.sets[i].members
      <4>1. PICK a \in DOMAIN d.sets : c \in {cell(a, b, e) : b \in DOMAIN d.sets[a].rows, e \in DOMAIN d.sets[a].members}
        BY <2>5
      <4>2. PICK b \in DOMAIN d.sets[a].rows, e \in DOMAIN d.sets[a].members : c = cell(a, b, e)
        BY <4>1
      <4>3. c.set = a /\ c.member = e
        BY <4>2
      <4>4. QED
        BY <3>2, <4>3
    <3>3. ASSUME NEW e \in DOMAIN d.sets[i].members
          PROVE  \E c \in rows.cells : c.set = i /\ c.row = x.position /\ c.member = e
      <4>1. cell(i, x.position, e) \in rows.cells
        BY <2>1, <2>5, <3>1
      <4>2. cell(i, x.position, e).set = i /\ cell(i, x.position, e).row = x.position /\ cell(i, x.position, e).member = e
        OBVIOUS
      <4> HIDE DEF cell
      <4>3. QED
        BY <4>1, <4>2
    <3>4. QED
      BY <3>2, <3>3
  <2>7. QED
    <3> HIDE DEF members, setRows, cells
    <3>1. QED
      BY <2>2, <2>3, <2>4, <2>6 DEF members, setRows, cells
<1>4. QED
  BY <1>1, <1>3, ImagesAreRead, IntentsAreRead, SetsAreRead, SameNames DEF Definition!TablesAreWhole

LEMMA KeptIsReadable ==
  ASSUME NEW d, IsKept(d), rows = Definition!RowsOf(d), accepted = <<d>>
  PROVE  Definition!IsReadable
<1>1. Definition!IsRequest(d) /\ Definition!IsDefinition(d) /\ Definition!SelectionsAreKnown(d) /\ Definition!Accepted = d
  BY DEF IsKept, Definition!Accepted
<1>2. Definition!ReadImages = d.images /\ Definition!ReadIntents = d.intents /\ Definition!ReadSets = d.sets
  BY <1>1, ImagesAreRead, IntentsAreRead, SetsAreRead DEF Definition!IsDefinition
<1>3. \A x \in Definition!Range(d.intents) : Definition!IntentIsWhole(x)
  BY <1>1 DEF Definition!IsRequest, Definition!IsBound, Definition!IsDefinition, Definition!IntentIsWhole
<1>4. \A r \in rows.variables : Definition!IsInjective(r.value.values)
  <2>1. rows.variables = Definition!Positions(d.variables)
    BY DEF Definition!RowsOf
  <2>2. \A r \in rows.variables : r.value \in Definition!Range(d.variables)
    BY <2>1, PositionsHold DEF Holds, Definition!Range
  <2>3. QED
    BY <1>1, <2>2 DEF Definition!IsDefinition
<1>5. Definition!ParametersStillFit(d.intents, d.sets)
  <2>1. CASE Definition!Selected(d.target)
    BY <1>1, <2>1 DEF Definition!ParametersStillFit, Definition!SelectionsAreKnown, Definition!IsDefinition, Definition!SetsAreDisjoint
  <2>2. CASE ~Definition!Selected(d.target)
    BY <1>1, <2>2 DEF Definition!ParametersStillFit, Definition!SelectionsAreKnown, Definition!WithoutTarget
  <2>3. QED
    BY <2>1, <2>2
<1>6. QED
  BY <1>1, <1>2, <1>3, <1>4, <1>5, KeptIsWhole DEF Definition!IsReadable, Definition!IsDefinition

\* Linked sets hold each of their parameters alone, and the others are bound
\* at their rank among the Profile's.
LEMMA KeptIsBoundOnce ==
  ASSUME NEW d, IsKept(d), rows = Definition!RowsOf(d), accepted = <<d>>
  PROVE  Definition!BoundOnceInOrder
<1>1. Definition!IsRequest(d) /\ Definition!IsDefinition(d) /\ Definition!SelectionsAreKnown(d) /\ Definition!Accepted = d
  BY DEF IsKept, Definition!Accepted
<1>2. Definition!ReadIntents = d.intents /\ Definition!ReadSets = d.sets
  BY <1>1, IntentsAreRead, SetsAreRead DEF Definition!IsDefinition
<1> DEFINE keys == Definition!ProfileKeys(d)
           place(key) == {i \in DOMAIN d.intents : d.intents[i].key = key}
           sets(key) == {i \in DOMAIN d.sets : key \in Definition!Range(d.sets[i].members)}
<1> SUFFICES ASSUME Definition!Selected(d.target)
             PROVE  /\ \A key \in Definition!Range(keys) : Cardinality(place(key)) + Cardinality(sets(key)) = 1
                    /\ \A i, j \in DOMAIN keys : \A m \in place(keys[i]), n \in place(keys[j]) : i < j => m < n
  BY <1>1, <1>2, SameNames DEF Definition!BoundOnceInOrder
<1>3. Definition!Keys(d.intents) = Definition!IndependentKeys(d) /\ Definition!IsInjective(Definition!Keys(d.intents))
      /\ Definition!CoversParameters(Definition!ProfileParameters(d), d.intents, d.sets)
  BY <1>1 DEF Definition!SelectionsAreKnown, Definition!BindsInOrder, Definition!Countable, Definition!IsDefinition
<1>4. DOMAIN Definition!Keys(d.intents) = DOMAIN d.intents /\ \A i \in DOMAIN d.intents : Definition!Keys(d.intents)[i] = d.intents[i].key
  BY DEF Definition!Keys
<1>5. \A key : \A i, j \in place(key) : i = j
  BY <1>3, <1>4 DEF Definition!IsInjective
<1>6. \A key : \A i, j \in sets(key) : i = j
  BY <1>1 DEF Definition!IsDefinition, Definition!SetsAreDisjoint
<1>7. \A key \in Definition!Range(keys) : place(key) # {} <=> sets(key) = {}
  <2> SUFFICES ASSUME NEW key \in Definition!Range(keys) PROVE place(key) # {} <=> sets(key) = {}
    OBVIOUS
  <2>1. key \in Definition!Range(Definition!Keys(d.intents)) <=> \A set \in Definition!Range(d.sets) : key \notin Definition!Range(set.members)
    BY <1>3 DEF Definition!CoversParameters, Definition!ProfileKeys
  <2>2. key \in Definition!Range(Definition!Keys(d.intents)) <=> place(key) # {}
    BY <1>4 DEF Definition!Range
  <2>3. (\A set \in Definition!Range(d.sets) : key \notin Definition!Range(set.members)) <=> sets(key) = {}
    BY DEF Definition!Range
  <2>4. QED
    BY <2>1, <2>2, <2>3
<1>8. \A key \in Definition!Range(keys) : Cardinality(place(key)) + Cardinality(sets(key)) = 1
  <2> SUFFICES ASSUME NEW key \in Definition!Range(keys) PROVE Cardinality(place(key)) + Cardinality(sets(key)) = 1
    OBVIOUS
  <2> DEFINE P == place(key)
             T == sets(key)
  <2>1. (\A i, j \in P : i = j) /\ (\A i, j \in T : i = j) /\ (P # {} <=> T = {})
    BY <1>5, <1>6, <1>7
  <2> HIDE DEF P, T
  <2>2. \A S : (\A i, j \in S : i = j) /\ S # {} => Cardinality(S) = 1
    <3> SUFFICES ASSUME NEW S, \A i, j \in S : i = j, S # {} PROVE Cardinality(S) = 1
      OBVIOUS
    <3>1. PICK i \in S : S = {i}
      OBVIOUS
    <3>2. QED
      BY <3>1, FS_Singleton
  <2>3. Cardinality(P) + Cardinality(T) = 1
    <3>1. CASE P = {}
      BY <2>1, <2>2, <3>1, FS_EmptySet
    <3>2. CASE P # {}
      BY <2>1, <2>2, <3>2, FS_EmptySet
    <3>3. QED
      BY <3>1, <3>2
  <2>4. QED
    BY <2>3 DEF P, T
<1>9. ASSUME NEW i \in DOMAIN keys, NEW m \in place(keys[i])
      PROVE  i \in Free(d) /\ m = Cardinality({x \in Free(d) : x <= i})
  <2>1. keys[i] \in Definition!Range(keys)
    BY DEF Definition!Range
  <2>2. sets(keys[i]) = {}
    BY <1>7, <1>9, <2>1
  <2>3. keys[i] \notin Definition!Members(d)
    BY <2>2 DEF Definition!Members, Definition!Range
  <2>4. i \in Free(d)
    BY <2>3 DEF Free
  <2> DEFINE n == Cardinality({x \in Free(d) : x <= i})
  <2>5. n \in DOMAIN Definition!IndependentKeys(d) /\ Definition!IndependentKeys(d)[n] = keys[i]
    BY <1>1, <2>4, FreePlaces
  <2>6. m \in DOMAIN Definition!Keys(d.intents) /\ Definition!Keys(d.intents)[m] = keys[i]
    BY <1>4, <1>9
  <2> HIDE DEF n, keys
  <2>7. m = n
    BY <1>3, <2>5, <2>6 DEF Definition!IsInjective
  <2>8. QED
    BY <2>4, <2>7 DEF n
<1>10. ASSUME NEW i \in DOMAIN keys, NEW j \in DOMAIN keys, NEW m \in place(keys[i]), NEW n \in place(keys[j]), i < j
       PROVE  m < n
  <2>1. i \in Free(d) /\ m = Cardinality({x \in Free(d) : x <= i})
    BY <1>9
  <2>2. j \in Free(d) /\ n = Cardinality({x \in Free(d) : x <= j})
    BY <1>9
  <2>3. Free(d) \in SUBSET Int /\ IsFiniteSet(Free(d))
    BY <1>1, FreePlaces
  <2>4. QED
    BY <1>10, <2>1, <2>2, <2>3, RankOfMember
<1>11. QED
  BY <1>8, <1>10

LEMMA KeptBelongsTogether ==
  ASSUME NEW d, IsKept(d), accepted = <<d>>
  PROVE  Definition!SelectionsBelongTogether
<1>1. Definition!SelectionsAreKnown(d) /\ Definition!Accepted = d
  BY DEF IsKept, Definition!Accepted
<1>2. QED
  BY <1>1 DEF Definition!SelectionsBelongTogether, Definition!SelectionsAreKnown, Definition!TargetIsKnown, Definition!WorkflowIsKnown, Definition!Matches

-----------------------------------------------------------------------------
(* The invariant. *)

DefinitionTypes ==
    /\ saving \in {"idle", "given", "ordered", "valid", "budgeted"}
    /\ budget \in Budgets

\* What the call under way has come through.
CallIsChecked ==
    /\ saving = "given" => definition \in Definitions
    /\ saving \in {"ordered", "valid", "budgeted"} => Definition!IsRequest(definition)
    /\ saving \in {"valid", "budgeted"} => Definition!IsDefinition(definition)
    /\ saving = "budgeted" => Definition!FitsBudget(definition)

\* What was accepted passed every check, and the tables hold its rows.
StoredIsKept ==
    accepted # <<>> => accepted = <<accepted[1]>> /\ IsKept(accepted[1]) /\ rows = Definition!RowsOf(accepted[1])

DefinitionInvariant == DefinitionTypes /\ CallIsChecked /\ StoredIsKept

LEMMA DefinitionStarts == Definition!Init => DefinitionInvariant
BY DEF Definition!Init, DefinitionInvariant, DefinitionTypes, CallIsChecked, StoredIsKept

LEMMA DefinitionGoesOn == DefinitionInvariant /\ [Definition!Next]_Definition!vars => DefinitionInvariant'
<1> SUFFICES ASSUME DefinitionInvariant, [Definition!Next]_Definition!vars PROVE DefinitionInvariant'
  OBVIOUS
<1> USE DEF DefinitionInvariant
<1>1. ASSUME NEW d \in Definitions, Definition!Give(d) PROVE DefinitionInvariant'
  BY <1>1 DEF Definition!Give, DefinitionTypes, CallIsChecked, StoredIsKept
<1>2. CASE Definition!Normalize
  <2>1. Definition!IsRequest(definition)
    BY <1>2, DefinitionAssumed DEF Definition!Normalize, CallIsChecked, Definition!DefinitionAssumption
  <2>2. Definition!IsRequest(Definition!InProfileOrder(definition))
    BY <2>1, OrderedRequest
  <2>3. QED
    BY <1>2, <2>2 DEF Definition!Normalize, DefinitionTypes, CallIsChecked, StoredIsKept
<1>3. CASE Definition!ValidateDefinition
  BY <1>3 DEF Definition!ValidateDefinition, Definition!Refuse, Definition!Return, DefinitionTypes, CallIsChecked, StoredIsKept
<1>4. CASE Definition!CheckBudget
  <2>1. CASE Definition!FitsBudget(definition)
    <3>1. Definition!FitsBudget(definition)'
      BY <1>4, <2>1 DEF Definition!CheckBudget, Definition!FitsBudget
    <3>2. QED
      BY <1>4, <2>1, <3>1 DEF Definition!CheckBudget, DefinitionTypes, CallIsChecked, StoredIsKept
  <2>2. CASE ~Definition!FitsBudget(definition)
    BY <1>4, <2>2 DEF Definition!CheckBudget, Definition!Refuse, Definition!Return, DefinitionTypes, CallIsChecked, StoredIsKept
  <2>3. QED
    BY <2>1, <2>2
<1>5. CASE Definition!Commit
  <2>1. IsKept(definition)
    BY <1>5 DEF Definition!Commit, CallIsChecked, IsKept
  <2>2. accepted' = <<definition>> /\ rows' = Definition!RowsOf(definition)
    BY <1>5 DEF Definition!Commit, Definition!Replaced
  <2>3. StoredIsKept'
    BY <2>1, <2>2 DEF StoredIsKept
  <2>4. QED
    BY <1>5, <2>3 DEF Definition!Commit, Definition!Return, DefinitionTypes, CallIsChecked
<1>6. CASE Definition!RefuseSelections
  BY <1>6 DEF Definition!RefuseSelections, Definition!Refuse, Definition!Return, DefinitionTypes, CallIsChecked, StoredIsKept
<1>7. ASSUME NEW max \in Budgets, Definition!Restart(max) PROVE DefinitionInvariant'
  BY <1>7 DEF Definition!Restart, DefinitionTypes, CallIsChecked, StoredIsKept
<1>8. CASE UNCHANGED Definition!vars
  <2>1. Definition!FitsBudget(definition)' <=> Definition!FitsBudget(definition)
    BY <1>8 DEF Definition!vars, Definition!FitsBudget
  <2>2. QED
    BY <1>8, <2>1 DEF Definition!vars, DefinitionTypes, CallIsChecked, StoredIsKept
<1>9. QED
  BY <1>1, <1>2, <1>3, <1>4, <1>5, <1>6, <1>7, <1>8 DEF Definition!Next

LEMMA StoredIsExact ==
  ASSUME DefinitionInvariant
  PROVE  Definition!StoredIsReadable /\ Definition!StoredIsWhatWasAccepted /\ Definition!BoundOnceInOrder /\ Definition!SelectionsBelongTogether
<1>1. CASE accepted = <<>>
  BY <1>1 DEF Definition!Stored, Definition!Selected, Definition!StoredIsReadable, Definition!StoredIsWhatWasAccepted, Definition!BoundOnceInOrder, Definition!SelectionsBelongTogether
<1>2. CASE accepted # <<>>
  <2> DEFINE d == accepted[1]
  <2>1. accepted = <<d>> /\ IsKept(d) /\ rows = Definition!RowsOf(d) /\ Definition!Accepted = d
    BY <1>2 DEF DefinitionInvariant, StoredIsKept, Definition!Accepted
  <2>2. Definition!IsRequest(d) /\ \A set \in Definition!Range(d.sets) : Definition!SetIsValid(set)
    BY <2>1 DEF IsKept, Definition!IsDefinition
  <2> HIDE DEF d
  <2>3. Definition!StoredIsReadable
    BY <2>1, KeptIsReadable DEF Definition!StoredIsReadable
  <2>4. Definition!StoredIsWhatWasAccepted
    BY <2>1, <2>2, PromptsAreRead, ImagesAreRead, IntentsAreRead, SetsAreRead DEF Definition!StoredIsWhatWasAccepted
  <2>5. QED
    BY <2>1, <2>3, <2>4, KeptIsBoundOnce, KeptBelongsTogether
<1>3. QED
  BY <1>1, <1>2

-----------------------------------------------------------------------------
(* Products. *)

\* The product of a list of numbers is the last of them.
LEMMA ProductIsLast ==
  ASSUME NEW ns, Len(ns) \in Nat
  PROVE  \E p : IsRun(p, ns) /\ Definition!Product(ns) = p[Len(ns)]
<1>1. PICK q : IsUpTo(q, ns, Len(ns))
  BY ProductsExist
<1> DEFINE p == CHOOSE p : p = [n \in 0 .. Len(ns) |-> IF n = 0 THEN 1 ELSE p[n - 1] * ns[n]]
<1>2. p = [n \in 0 .. Len(ns) |-> IF n = 0 THEN 1 ELSE p[n - 1] * ns[n]]
  BY <1>1 DEF IsUpTo
<1>3. Definition!Product(ns) = p[Len(ns)]
  BY DEF Definition!Product
<1> HIDE DEF p
<1>4. IsRun(p, ns)
  <2>1. \A n \in 0 .. Len(ns) : p[n] = IF n = 0 THEN 1 ELSE p[n - 1] * ns[n]
    BY <1>2
  <2>2. QED
    BY <2>1 DEF IsRun
<1>5. QED
  BY <1>3, <1>4

LEMMA RunOfIntegers ==
  ASSUME NEW ns \in Seq(Int), NEW p, IsRun(p, ns)
  PROVE  \A n \in 0 .. Len(ns) : p[n] \in Int
<1> DEFINE S == {n \in Nat : p[n] \in Int}
<1>1. Len(ns) \in Nat /\ \A n \in 1 .. Len(ns) : ns[n] \in Int
  OBVIOUS
<1>2. 0 \in S
  BY DEF IsRun
<1>3. ASSUME NEW k \in 0 .. Len(ns), k \in S, k < Len(ns) PROVE k + 1 \in S
  <2>1. k + 1 \in 1 .. Len(ns) /\ (k + 1) - 1 = k /\ k + 1 \in Nat
    BY <1>1, <1>3
  <2>2. p[k + 1] = p[k] * ns[k + 1]
    BY <2>1 DEF IsRun
  <2>3. p[k] \in Int /\ ns[k + 1] \in Int
    BY <1>1, <1>3, <2>1
  <2>4. QED
    BY <2>1, <2>2, <2>3
<1>4. 0 .. Len(ns) \subseteq S
  <2> HIDE DEF S
  <2>1. QED
    BY <1>1, <1>2, <1>3, UpToBound
<1>5. QED
  BY <1>4

\* The product of two lists after each other is that of their products.
LEMMA ProductOfBoth ==
  ASSUME NEW s \in Seq(Int), NEW t \in Seq(Int)
  PROVE  /\ Definition!Product(s) \in Int /\ Definition!Product(t) \in Int
         /\ Definition!Product(s \o t) = Definition!Product(s) * Definition!Product(t)
<1> DEFINE u == s \o t
           l == Len(s)
           m == Len(t)
<1>1. /\ u \in Seq(Int) /\ l \in Nat /\ m \in Nat /\ Len(u) = l + m
      /\ \A i \in 1 .. l : u[i] = s[i]
      /\ \A i \in 1 .. m : u[l + i] = t[i]
      /\ \A i \in 1 .. l : s[i] \in Int
      /\ \A i \in 1 .. m : t[i] \in Int
  OBVIOUS
<1> HIDE DEF u
<1>2. PICK q : IsRun(q, s) /\ Definition!Product(s) = q[l]
  BY <1>1, ProductIsLast
<1>3. PICK r : IsRun(r, t) /\ Definition!Product(t) = r[m]
  BY <1>1, ProductIsLast
<1>4. PICK p : IsRun(p, u) /\ Definition!Product(u) = p[l + m]
  BY <1>1, ProductIsLast
<1>5. (\A n \in 0 .. l : q[n] \in Int) /\ (\A n \in 0 .. m : r[n] \in Int) /\ \A n \in 0 .. (l + m) : p[n] \in Int
  BY <1>1, <1>2, <1>3, <1>4, RunOfIntegers
<1> HIDE DEF l, m
<1> DEFINE S == {n \in Nat : p[n] = q[n]}
           T == {n \in Nat : p[l + n] = q[l] * r[n]}
<1>6. 0 .. l \subseteq S
  <2>1. 0 \in S
    BY <1>2, <1>4 DEF IsRun
  <2>2. ASSUME NEW k \in 0 .. l, k \in S, k < l PROVE k + 1 \in S
    <3>1. k + 1 \in 1 .. l /\ k + 1 \in 1 .. (l + m) /\ (k + 1) - 1 = k /\ k + 1 \in Nat
      BY <1>1, <2>2
    <3>2. p[k + 1] = p[k] * u[k + 1]
      BY <1>1, <1>4, <3>1 DEF IsRun
    <3>3. q[k + 1] = q[k] * s[k + 1]
      BY <1>2, <3>1 DEF IsRun, l
    <3>4. u[k + 1] = s[k + 1] /\ p[k] = q[k]
      BY <1>1, <2>2, <3>1
    <3>5. QED
      BY <3>1, <3>2, <3>3, <3>4
  <2> HIDE DEF S
  <2>3. QED
    BY <1>1, <2>1, <2>2, UpToBound
<1>7. p[l] = q[l] /\ q[l] \in Int
  BY <1>1, <1>5, <1>6
<1>8. 0 .. m \subseteq T
  <2>1. 0 \in T
    BY <1>1, <1>3, <1>7 DEF IsRun
  <2>2. ASSUME NEW k \in 0 .. m, k \in T, k < m PROVE k + 1 \in T
    <3>1. /\ k + 1 \in 1 .. m /\ (k + 1) - 1 = k /\ k + 1 \in Nat
          /\ l + (k + 1) \in 1 .. (l + m) /\ (l + (k + 1)) - 1 = l + k
      BY <1>1, <2>2
    <3>2. p[l + (k + 1)] = p[l + k] * u[l + (k + 1)]
      BY <1>1, <1>4, <3>1 DEF IsRun
    <3>3. r[k + 1] = r[k] * t[k + 1]
      BY <1>3, <3>1 DEF IsRun, m
    <3>4. u[l + (k + 1)] = t[k + 1] /\ p[l + k] = q[l] * r[k]
      BY <1>1, <2>2, <3>1
    <3>5. r[k] \in Int /\ t[k + 1] \in Int
      BY <1>1, <1>5, <3>1
    <3>6. \A a, b, c \in Int : (a * b) * c = a * (b * c)
      OBVIOUS
    <3>7. p[l + (k + 1)] = q[l] * r[k + 1]
      BY <1>7, <3>2, <3>3, <3>4, <3>5, <3>6
    <3>8. QED
      BY <3>1, <3>7
  <2> HIDE DEF T
  <2>3. QED
    BY <1>1, <2>1, <2>2, UpToBound
<1>9. p[l + m] = q[l] * r[m] /\ r[m] \in Int
  BY <1>1, <1>5, <1>8
<1>10. QED
  BY <1>2, <1>3, <1>4, <1>7, <1>9 DEF u

LEMMA ProductOfPositives ==
  ASSUME NEW ns \in Seq(Nat \ {0})
  PROVE  Definition!Product(ns) \in Nat \ {0}
<1>1. Len(ns) \in Nat
  OBVIOUS
<1>2. PICK p : IsRun(p, ns) /\ Definition!Product(ns) = p[Len(ns)]
  BY <1>1, ProductIsLast
<1>3. QED
  BY <1>1, <1>2, RunOfPositives

-----------------------------------------------------------------------------
(* The two budgets. *)

LEMMA CountsAreNumbers ==
  ASSUME NEW d, Definition!IsRequest(d), Definition!IsDefinition(d), Definition!FitsBudget(d), Definition!Selected(d.target)
  PROVE  Definition!IntentCounts(d) \in Seq(Int) /\ Definition!RowCounts(d) \in Seq(Int) /\ Definition!RowCounts(d) \in Seq(Nat \ {0})
<1>1. DOMAIN d.intents = 1 .. Len(d.intents) /\ Len(d.intents) \in Nat
      /\ DOMAIN d.sets = 1 .. Len(d.sets) /\ Len(d.sets) \in Nat
  BY ListDomain DEF Definition!IsRequest
<1>2. ASSUME NEW x \in Definition!Range(d.intents) PROVE Definition!IntentCount(x) \in Int
  <2>1. Definition!IsBound(x) /\ Definition!IntentIsKnown(Definition!ProfileParameters(d), x)
    BY DEF Definition!IsRequest, Definition!FitsBudget
  <2>2. CASE x.mode = "values"
    BY <2>1, <2>2, ListDomain DEF Definition!IsBound, Definition!IntentCount
  <2>3. CASE x.mode # "values"
    <3>1. PICK t : Definition!IsRange(t, x.range)
      BY <2>1, <2>3 DEF Definition!IntentIsKnown, Definition!IsIntent
    <3>2. Definition!IsDecimalRange(x.range)
      BY <2>1, <2>3 DEF Definition!IsBound
    <3>3. Definition!RangeCount(x.range) \in Nat
      BY <3>1, <3>2, RangeCountIsNatural
    <3>4. QED
      BY <2>3, <3>3 DEF Definition!IntentCount
  <2>4. QED
    BY <2>2, <2>3
<1>3. Definition!IntentCounts(d) \in Seq(Int)
  <2>1. \A i \in 1 .. Len(d.intents) : Definition!IntentCount(d.intents[i]) \in Int
    BY <1>1, <1>2 DEF Definition!Range
  <2>2. Definition!IntentCounts(d) \in [1 .. Len(d.intents) -> Int]
    BY <1>1, <2>1 DEF Definition!IntentCounts
  <2>3. QED
    BY <1>1, <2>2
<1>4. ASSUME NEW i \in DOMAIN d.sets PROVE Len(d.sets[i].rows) \in Nat \ {0}
  <2>1. Definition!SetIsValid(d.sets[i]) /\ Definition!IsLinked(d.sets[i])
    BY DEF Definition!IsRequest, Definition!IsDefinition, Definition!Range
  <2>2. Definition!IsList(d.sets[i].rows) /\ d.sets[i].rows # <<>>
    BY <2>1 DEF Definition!SetIsValid, Definition!IsLinked
  <2>3. QED
    BY <2>2 DEF Definition!IsList
<1>5. Definition!RowCounts(d) \in [1 .. Len(d.sets) -> Nat \ {0}]
  BY <1>1, <1>4 DEF Definition!RowCounts
<1>6. Definition!RowCounts(d) \in Seq(Nat \ {0})
  BY <1>1, <1>5
<1>7. QED
  BY <1>3, <1>6

\* What the one product admits, the quotient does.
LEMMA BudgetsAreEqual ==
  ASSUME DefinitionInvariant
  PROVE  Definition!BudgetsAgree
<1> DEFINE d == definition
<1> SUFFICES ASSUME saving = "budgeted", Definition!Selected(d.target) PROVE Definition!CountFits(d)
  BY DEF Definition!BudgetsAgree
<1>1. Definition!IsRequest(d) /\ Definition!IsDefinition(d) /\ Definition!FitsBudget(d) /\ budget \in Nat
  BY DefinitionAssumed DEF DefinitionInvariant, CallIsChecked, DefinitionTypes, Definition!DefinitionAssumption
<1>2. Definition!IntentCounts(d) \in Seq(Int) /\ Definition!RowCounts(d) \in Seq(Int) /\ Definition!RowCounts(d) \in Seq(Nat \ {0})
  BY <1>1, CountsAreNumbers
<1> DEFINE a == Definition!Product(Definition!IntentCounts(d))
           b == Definition!Product(Definition!RowCounts(d))
<1>3. a \in Int /\ Definition!Product(Definition!IntentCounts(d) \o Definition!RowCounts(d)) = a * b
  BY <1>2, ProductOfBoth
<1>4. b \in Nat \ {0}
  BY <1>2, ProductOfPositives
<1>5. Definition!Product(Definition!IntentCounts(d) \o Definition!RowCounts(d)) <= budget
  BY <1>1 DEF Definition!FitsBudget
<1> HIDE DEF a, b
<1>6. a <= budget \div b
  BY <1>1, <1>3, <1>4, <1>5, QuotientIsGreatest
<1>7. Definition!AtLeastOne(b) = b
  BY <1>4 DEF Definition!AtLeastOne
<1>8. QED
  BY <1>5, <1>6, <1>7 DEF Definition!CountFits, a, b

-----------------------------------------------------------------------------
(* Preparation of the Jobs. *)

\* A function with as many values as arguments, together with another one's,
\* has every value once, and none of the other one's.
LEMMA AllValuesDiffer ==
  ASSUME NEW S, IsFiniteSet(S), NEW f, DOMAIN f = S,
         NEW T, IsFiniteSet(T), NEW g, DOMAIN g = T,
         Cardinality({f[x] : x \in S} \cup {g[y] : y \in T}) = Cardinality(S) + Cardinality(T)
  PROVE  /\ \A x, y \in S : f[x] = f[y] => x = y
         /\ \A x, y \in T : g[x] = g[y] => x = y
         /\ \A x \in S, y \in T : f[x] # g[y]
<1> DEFINE A == {f[x] : x \in S}
           B == {g[y] : y \in T}
           h == [x \in S |-> f[x]]
           k == [y \in T |-> g[y]]
<1>1. h \in Surjection(S, A) /\ k \in Surjection(T, B)
  BY DEF Surjection
<1>2. /\ IsFiniteSet(A) /\ Cardinality(A) <= Cardinality(S)
      /\ Cardinality(A) = Cardinality(S) <=> h \in Injection(S, A)
  BY <1>1, FS_Surjection
<1>3. /\ IsFiniteSet(B) /\ Cardinality(B) <= Cardinality(T)
      /\ Cardinality(B) = Cardinality(T) <=> k \in Injection(T, B)
  BY <1>1, FS_Surjection
<1> HIDE DEF A, B
<1>4. Cardinality(A \cup B) = Cardinality(A) + Cardinality(B) - Cardinality(A \cap B) /\ IsFiniteSet(A \cap B)
  BY <1>2, <1>3, FS_Union, FS_Intersection
<1>5. /\ Cardinality(A) \in Nat /\ Cardinality(B) \in Nat /\ Cardinality(A \cap B) \in Nat
      /\ Cardinality(S) \in Nat /\ Cardinality(T) \in Nat
  BY <1>2, <1>3, <1>4, FS_CardinalityType
<1>6. Cardinality(A \cup B) = Cardinality(S) + Cardinality(T)
  BY DEF A, B
<1>7. Cardinality(A) = Cardinality(S) /\ Cardinality(B) = Cardinality(T) /\ Cardinality(A \cap B) = 0
  BY <1>2, <1>3, <1>4, <1>5, <1>6
<1>8. A \cap B = {}
  BY <1>4, <1>7, FS_EmptySet
<1>9. h \in Injection(S, A) /\ k \in Injection(T, B)
  BY <1>2, <1>3, <1>7
<1>10. \A x, y \in S : f[x] = f[y] => x = y
  BY <1>9 DEF Injection, IsInjective
<1>11. \A x, y \in T : g[x] = g[y] => x = y
  BY <1>9 DEF Injection, IsInjective
<1>12. \A x \in S, y \in T : f[x] # g[y]
  BY <1>8 DEF A, B
<1>13. QED
  BY <1>10, <1>11, <1>12

LEMMA TargetsOfList ==
  ASSUME NEW seq, Preparation!IsList(seq)
  PROVE  /\ Preparation!Targets(seq) \in Seq(Preparation!Range(Preparation!Targets(seq))) /\ Len(Preparation!Targets(seq)) = Len(seq)
         /\ DOMAIN Preparation!Targets(seq) = DOMAIN seq /\ DOMAIN seq = 1 .. Len(seq) /\ Len(seq) \in Nat
         /\ \A i \in DOMAIN seq : Preparation!Targets(seq)[i] = seq[i].target
<1>1. DOMAIN seq = 1 .. Len(seq) /\ Len(seq) \in Nat
  BY DEF Preparation!IsList
<1>2. DOMAIN Preparation!Targets(seq) = DOMAIN seq /\ \A i \in DOMAIN seq : Preparation!Targets(seq)[i] = seq[i].target
  BY DEF Preparation!Targets
<1>3. Preparation!Targets(seq) \in [1 .. Len(seq) -> Preparation!Range(Preparation!Targets(seq))]
  BY <1>1 DEF Preparation!Targets, Preparation!Range
<1> HIDE DEF Preparation!Targets
<1>4. QED
  BY <1>1, <1>2, <1>3

LEMMA JoinedSequences ==
  ASSUME NEW V, NEW s \in Seq(V), NEW t \in Seq(V)
  PROVE  /\ s \o t \in Seq(V) /\ Len(s \o t) = Len(s) + Len(t)
         /\ \A i \in 1 .. Len(s) : (s \o t)[i] = s[i]
         /\ \A i \in 1 .. Len(t) : (s \o t)[Len(s) + i] = t[i]
BY ConcatProperties

\* A Profile that fits has every target once.
ProfileIsDistinct(p) ==
    /\ \A m, n \in Preparation!Friendly : p.mappings[m].target = p.mappings[n].target => m = n
    /\ \A i, j \in DOMAIN p.images : p.images[i].target = p.images[j].target => i = j
    /\ \A i, j \in DOMAIN p.parameters : p.parameters[i].target = p.parameters[j].target => i = j
    /\ \A n \in Preparation!Friendly : \A i \in DOMAIN p.images : p.mappings[n].target # p.images[i].target
    /\ \A n \in Preparation!Friendly : \A i \in DOMAIN p.parameters : p.mappings[n].target # p.parameters[i].target
    /\ \A i \in DOMAIN p.images, j \in DOMAIN p.parameters : p.images[i].target # p.parameters[j].target

LEMMA TargetsDiffer ==
  ASSUME NEW p \in Profiles, NEW source, Preparation!ProfileFits(source, p)
  PROVE  ProfileIsDistinct(p)
<1> DEFINE im == Preparation!Targets(p.images)
           pa == Preparation!Targets(p.parameters)
           f == [name \in Preparation!Friendly |-> p.mappings[name].target]
           o == im \o pa
           V == Preparation!Range(im) \cup Preparation!Range(pa)
<1>1. Preparation!IsList(p.images) /\ Preparation!IsList(p.parameters)
  BY PreparationAssumed DEF Preparation!PreparationAssumption
<1>2. /\ im \in Seq(V) /\ Len(im) = Len(p.images) /\ DOMAIN im = DOMAIN p.images /\ DOMAIN im = 1 .. Len(im)
      /\ Len(im) \in Nat /\ \A i \in DOMAIN p.images : im[i] = p.images[i].target
  <2>1. im \in Seq(Preparation!Range(im))
    BY <1>1, TargetsOfList
  <2>2. QED
    BY <1>1, <2>1, TargetsOfList
<1>3. /\ pa \in Seq(V) /\ Len(pa) = Len(p.parameters) /\ DOMAIN pa = DOMAIN p.parameters
      /\ DOMAIN pa = 1 .. Len(pa) /\ Len(pa) \in Nat
      /\ \A i \in DOMAIN p.parameters : pa[i] = p.parameters[i].target
  <2>1. pa \in Seq(Preparation!Range(pa))
    BY <1>1, TargetsOfList
  <2>2. QED
    BY <1>1, <2>1, TargetsOfList
<1>4. Cardinality({p.mappings[name].target : name \in DOMAIN p.mappings} \cup Preparation!Range(o))
        = Cardinality(DOMAIN p.mappings) + Len(o)
  BY SameNames DEF Preparation!ProfileFits, Preparation!TargetsAreDistinct
<1>5. DOMAIN p.mappings = Preparation!Friendly
  BY DEF Preparation!ProfileFits, Preparation!MappingsAreValid
<1> HIDE DEF im, pa, V
<1>6. /\ o \in Seq(V) /\ Len(o) = Len(im) + Len(pa) /\ DOMAIN o = 1 .. Len(o) /\ Len(o) \in Nat
      /\ \A i \in DOMAIN im : i \in DOMAIN o /\ o[i] = im[i]
      /\ \A i \in DOMAIN pa : Len(im) + i \in DOMAIN o /\ o[Len(im) + i] = pa[i]
  <2>1. /\ o \in Seq(V) /\ Len(o) = Len(im) + Len(pa)
        /\ \A i \in 1 .. Len(im) : o[i] = im[i]
        /\ \A i \in 1 .. Len(pa) : o[Len(im) + i] = pa[i]
    <3>1. im \in Seq(V) /\ pa \in Seq(V)
      BY <1>2, <1>3
    <3>2. QED
      BY <3>1, JoinedSequences
  <2> HIDE DEF o
  <2>6. Len(im) \in Nat /\ Len(pa) \in Nat /\ Len(o) = Len(im) + Len(pa)
    BY <1>2, <1>3, <2>1
  <2>2. DOMAIN o = 1 .. Len(o) /\ Len(o) \in Nat
    BY <2>1
  <2>3. \A i \in 1 .. Len(im) : i \in 1 .. Len(o)
    BY <2>6
  <2>4. \A i \in 1 .. Len(pa) : Len(im) + i \in 1 .. Len(o)
    BY <2>6
  <2>5. QED
    BY <1>2, <1>3, <2>1, <2>2, <2>3, <2>4
<1>7. IsFiniteSet(1 .. Len(o)) /\ Cardinality(1 .. Len(o)) = Len(o)
  BY <1>6, FS_Interval
<1>8. IsFiniteSet(Preparation!Friendly)
  <2>1. IsFiniteSet({"prompt"}) /\ IsFiniteSet({"prompt"} \cup {"seed"})
    BY FS_Singleton, FS_AddElement
  <2>2. IsFiniteSet(({"prompt"} \cup {"seed"}) \cup {"output_prefix"})
    BY <2>1, FS_AddElement
  <2>3. Preparation!Friendly = ({"prompt"} \cup {"seed"}) \cup {"output_prefix"}
    BY DEF Preparation!Friendly
  <2>4. QED
    BY <2>2, <2>3
<1> HIDE DEF o
<1>9. {p.mappings[name].target : name \in DOMAIN p.mappings} = {f[x] : x \in Preparation!Friendly}
  BY <1>5
<1>10. Preparation!Range(o) = {o[y] : y \in 1 .. Len(o)}
  BY <1>6 DEF Preparation!Range
<1>11. DOMAIN f = Preparation!Friendly /\ \A n \in Preparation!Friendly : f[n] = p.mappings[n].target
  OBVIOUS
<1> HIDE DEF f
<1>12. /\ \A x, y \in Preparation!Friendly : f[x] = f[y] => x = y
       /\ \A x, y \in 1 .. Len(o) : o[x] = o[y] => x = y
       /\ \A x \in Preparation!Friendly, y \in 1 .. Len(o) : f[x] # o[y]
  <2>1. Cardinality({f[x] : x \in Preparation!Friendly} \cup {o[y] : y \in 1 .. Len(o)})
          = Cardinality(Preparation!Friendly) + Cardinality(1 .. Len(o))
    BY <1>4, <1>5, <1>7, <1>9, <1>10
  <2>2. QED
    BY <1>6, <1>7, <1>8, <1>11, <2>1, AllValuesDiffer
<1>13. \A i, j \in DOMAIN im : im[i] = im[j] => i = j
  BY <1>6, <1>12
<1>14. \A i, j \in DOMAIN pa : pa[i] = pa[j] => i = j
  <2> TAKE i, j \in DOMAIN pa
  <2> HAVE pa[i] = pa[j]
  <2>1. Len(im) + i = Len(im) + j
    BY <1>6, <1>12
  <2>2. i \in Nat /\ j \in Nat /\ Len(im) \in Nat
    BY <1>2, <1>3
  <2>3. QED
    BY <2>1, <2>2
<1>15. \A i \in DOMAIN im, j \in DOMAIN pa : im[i] # pa[j]
  <2> TAKE i \in DOMAIN im, j \in DOMAIN pa
  <2>1. i \in 1 .. Len(im) /\ j \in 1 .. Len(pa) /\ Len(im) \in Nat
    BY <1>2, <1>3
  <2>2. i # Len(im) + j
    BY <2>1
  <2>3. QED
    BY <1>6, <1>12, <2>2
<1>16. \A n \in Preparation!Friendly : \A i \in DOMAIN im : f[n] # im[i]
  BY <1>6, <1>12
<1>17. \A n \in Preparation!Friendly : \A i \in DOMAIN pa : f[n] # pa[i]
  BY <1>6, <1>12
<1>18. \A m, n \in Preparation!Friendly : f[m] = f[n] => m = n
  BY <1>12
<1>19. QED
  BY <1>2, <1>3, <1>11, <1>13, <1>14, <1>15, <1>16, <1>17, <1>18 DEF ProfileIsDistinct

-----------------------------------------------------------------------------
\* What Chosen says of a key, if the keys differ.
LEMMA ChosenOfKey ==
  ASSUME NEW keys, Preparation!IsInjective(keys), NEW values
  PROVE  \A i \in DOMAIN keys :
           /\ keys[i] \in DOMAIN Preparation!Chosen(keys, values) <=> values[i] # Preparation!Base
           /\ values[i] # Preparation!Base => Preparation!Chosen(keys, values)[keys[i]] = values[i]
<1> TAKE i \in DOMAIN keys
<1>1. keys[i] \in DOMAIN Preparation!Chosen(keys, values) <=> values[i] # Preparation!Base
  BY DEF Preparation!Chosen, Preparation!IsInjective
<1>2. (CHOOSE j \in DOMAIN keys : keys[j] = keys[i]) = i
  BY DEF Preparation!IsInjective
<1>3. keys[i] \in DOMAIN Preparation!Chosen(keys, values) => Preparation!Chosen(keys, values)[keys[i]] = values[i]
  BY <1>2 DEF Preparation!Chosen
<1>4. QED
  BY <1>1, <1>3

LEMMA ChosenKeys ==
  ASSUME NEW keys, NEW values
  PROVE  DOMAIN Preparation!Chosen(keys, values) \subseteq Preparation!Range(keys)
BY DEF Preparation!Chosen, Preparation!Range

\* The keys of a Profile that fits differ.
LEMMA KeysDiffer ==
  ASSUME NEW source, NEW p, Preparation!ProfileFits(source, p)
  PROVE  /\ Preparation!IsInjective(Preparation!Keys(p.images)) /\ DOMAIN Preparation!Keys(p.images) = DOMAIN p.images
         /\ Preparation!IsInjective(Preparation!Keys(p.parameters)) /\ DOMAIN Preparation!Keys(p.parameters) = DOMAIN p.parameters
         /\ \A i \in DOMAIN p.images : Preparation!Keys(p.images)[i] = p.images[i].key
         /\ \A i \in DOMAIN p.parameters : Preparation!Keys(p.parameters)[i] = p.parameters[i].key
<1>1. Preparation!IsInjective(Preparation!Keys(p.images)) /\ Preparation!IsInjective(Preparation!Keys(p.parameters))
  BY DEF Preparation!ProfileFits, Preparation!ImagesAreValid, Preparation!ParametersAreValid
<1>2. QED
  BY <1>1 DEF Preparation!Keys

-----------------------------------------------------------------------------
PreparationStages == {"given", "checked", "published", "uploading", "mappings", "images",
                      "parameters", "prepared", "reported", "refused"}

Mapped == Preparation!Over(run.workflow, Preparation!FriendlyValues)
Imaged == Preparation!Filled(Mapped, run.profile.images, Preparation!UploadedImages)
Ready == Preparation!Filled(Imaged, run.profile.parameters, Preparation!Parameters(Preparation!TheJob))

\* How far a Run has come, and what it has got.
PlanIsCompiled == preparing \notin {"given", "refused"} => Preparation!PlanCompiles(run.profile, run.plan)
ProfileIsChecked == preparing \notin {"given", "checked", "refused"} => Preparation!ProfileFits(run.workflow, run.profile)
JobIsOfPlan ==
    preparing \in {"uploading", "mappings", "images", "parameters", "prepared", "reported"} => ordinal \in 1 .. Len(run.plan)
UploadsAreOwn ==
    preparing \in {"mappings", "images", "parameters", "prepared", "reported"} => uploads = Preparation!UploadedImages
WorkflowIsOwn ==
    /\ preparing = "images" => workflow = Mapped
    /\ preparing = "parameters" => workflow = Imaged
    /\ preparing \in {"prepared", "reported"} => workflow = Ready
BlamesBase ==
    preparing = "reported" =>
        /\ \A i \in blamed.images : i \in DOMAIN run.profile.images /\ Preparation!TheJob.images[i] = Preparation!Base
        /\ \A i \in blamed.parameters : i \in DOMAIN run.profile.parameters /\ Preparation!TheJob.parameters[i] = Preparation!Base

PreparationInvariant ==
    /\ run \in [workflow : Workflows, profile : Profiles, plan : Plans]
    /\ preparing \in PreparationStages
    /\ ordinal \in 0 .. Len(run.plan)
    /\ PlanIsCompiled /\ ProfileIsChecked
    /\ JobIsOfPlan /\ UploadsAreOwn /\ WorkflowIsOwn /\ BlamesBase

LEMMA PlansAreLists ==
  ASSUME run \in [workflow : Workflows, profile : Profiles, plan : Plans]
  PROVE  /\ DOMAIN run.plan = 1 .. Len(run.plan) /\ Len(run.plan) \in Nat
         /\ run.profile \in Profiles
<1>1. run.plan \in Plans /\ run.profile \in Profiles
  OBVIOUS
<1>2. Preparation!IsList(run.plan)
  BY <1>1, PreparationAssumed DEF Preparation!PreparationAssumption
<1>3. QED
  BY <1>1, <1>2 DEF Preparation!IsList

\* What the compiler said of all Jobs and the preparation of the first one of
\* the Profile makes every Job preparable.
LEMMA JobIsPreparable ==
  ASSUME PreparationInvariant, preparing = "mappings"
  PROVE  Preparation!IsPreparable(Preparation!TheJob, uploads)
<1> DEFINE p == run.profile
           keys == Preparation!Keys(p.parameters)
           chosen == Preparation!Chosen(keys, Preparation!TheJob.parameters)
<1>1. Preparation!PlanCompiles(run.profile, run.plan) /\ Preparation!ProfileFits(run.workflow, run.profile) /\ uploads = Preparation!UploadedImages
  BY DEF PreparationInvariant, PlanIsCompiled, ProfileIsChecked, UploadsAreOwn
<1>2. ordinal \in DOMAIN run.plan
  BY PlansAreLists DEF PreparationInvariant, JobIsOfPlan
<1>3. /\ ~Preparation!TheJob.unresolved
      /\ \A k \in DOMAIN p.parameters :
           Preparation!TheJob.parameters[k] = Preparation!Base \/ Preparation!IsValueOf(p.parameters[k].type, Preparation!TheJob.parameters[k])
  BY <1>1, <1>2 DEF Preparation!PlanCompiles, Preparation!TheJob
<1>4. DOMAIN uploads \subseteq Preparation!Range(Preparation!Keys(p.images))
  BY <1>1, ChosenKeys DEF Preparation!UploadedImages
<1>5. DOMAIN chosen \subseteq Preparation!Range(keys)
  BY ChosenKeys
<1>6. \A i \in DOMAIN p.parameters :
        p.parameters[i].key \in DOMAIN chosen => Preparation!IsValueOf(p.parameters[i].type, chosen[p.parameters[i].key])
  <2> TAKE i \in DOMAIN p.parameters
  <2>1. Preparation!IsInjective(keys) /\ i \in DOMAIN keys /\ keys[i] = p.parameters[i].key
    BY <1>1, KeysDiffer
  <2>2. /\ keys[i] \in DOMAIN chosen <=> Preparation!TheJob.parameters[i] # Preparation!Base
        /\ Preparation!TheJob.parameters[i] # Preparation!Base => chosen[keys[i]] = Preparation!TheJob.parameters[i]
    BY <2>1, ChosenOfKey
  <2>3. QED
    BY <1>3, <2>1, <2>2
<1>7. QED
  BY <1>1, <1>3, <1>4, <1>5, <1>6 DEF Preparation!IsPreparable, Preparation!Parameters

LEMMA PreparationStarts == Preparation!Init => PreparationInvariant
<1> SUFFICES ASSUME Preparation!Init PROVE PreparationInvariant
  OBVIOUS
<1>1. run \in [workflow : Workflows, profile : Profiles, plan : Plans] /\ preparing = "given" /\ ordinal = 0
  BY DEF Preparation!Init
<1>2. ordinal \in 0 .. Len(run.plan)
  BY <1>1, PlansAreLists
<1>3. QED
  BY <1>1, <1>2 DEF PreparationInvariant, PreparationStages, PlanIsCompiled, ProfileIsChecked, JobIsOfPlan, UploadsAreOwn,
                   WorkflowIsOwn, BlamesBase

LEMMA PreparationGoesOn ==
  PreparationInvariant /\ [Preparation!Next]_Preparation!vars => PreparationInvariant'
<1> SUFFICES ASSUME PreparationInvariant, [Preparation!Next]_Preparation!vars
             PROVE  PreparationInvariant'
  OBVIOUS
<1> USE DEF PreparationInvariant, PlanIsCompiled, ProfileIsChecked, JobIsOfPlan, UploadsAreOwn, WorkflowIsOwn, BlamesBase
<1>0. DOMAIN run.plan = 1 .. Len(run.plan) /\ Len(run.plan) \in Nat
  BY PlansAreLists
<1>1. CASE Preparation!Compile
  BY <1>1 DEF Preparation!Compile, PreparationStages
<1>2. CASE Preparation!Publish
  BY <1>2 DEF Preparation!Publish, PreparationStages, Preparation!IsPreparable
<1>3. CASE Preparation!BeginJob
  <2>1. ordinal' \in 1 .. Len(run.plan) /\ ordinal' \in 0 .. Len(run.plan)
    BY <1>0, <1>3 DEF Preparation!BeginJob
  <2>2. preparing' = "uploading" /\ run' = run /\ preparing \in {"published", "prepared"}
    BY <1>3 DEF Preparation!BeginJob
  <2>3. QED
    BY <2>1, <2>2 DEF PreparationStages
<1>4. CASE Preparation!UploadImages
  <2>1. uploads' = Preparation!UploadedImages /\ preparing = "uploading" /\ preparing' = "mappings" /\ run' = run /\ ordinal' = ordinal
    BY <1>4 DEF Preparation!UploadImages
  <2>2. Preparation!UploadedImages' = Preparation!UploadedImages
    BY <2>1 DEF Preparation!UploadedImages, Preparation!TheJob, Preparation!Uploaded
  <2>3. QED
    BY <2>1, <2>2 DEF PreparationStages
<1>5. ASSUME run' = run, ordinal' = ordinal
      PROVE  /\ Preparation!UploadedImages' = Preparation!UploadedImages /\ Mapped' = Mapped /\ Imaged' = Imaged /\ Ready' = Ready
             /\ Preparation!TheJob' = Preparation!TheJob
  <2>1. Preparation!UploadedImages' = Preparation!UploadedImages /\ Preparation!TheJob' = Preparation!TheJob
    BY <1>5 DEF Preparation!UploadedImages, Preparation!TheJob, Preparation!Uploaded
  <2>2. Mapped' = Mapped
    BY <1>5 DEF Mapped, Preparation!FriendlyValues, Preparation!FriendlyValue
  <2>3. Imaged' = Imaged
    BY <1>5, <2>1, <2>2 DEF Imaged
  <2>4. Ready' = Ready
    BY <1>5, <2>1, <2>3 DEF Ready, Preparation!Parameters
  <2>5. QED
    BY <2>1, <2>2, <2>3, <2>4
<1>6. CASE Preparation!FillMappings
  <2>1. workflow' = Mapped /\ preparing = "mappings" /\ preparing' = "images" /\ UNCHANGED <<run, ordinal, uploads, blamed>>
    BY <1>6, JobIsPreparable DEF Preparation!FillMappings, Mapped, Preparation!Copied
  <2>2. QED
    BY <1>5, <2>1 DEF PreparationStages
<1>7. CASE Preparation!FillImages
  <2>1. preparing = "images" /\ preparing' = "parameters" /\ UNCHANGED <<run, ordinal, uploads, blamed>>
    BY <1>7 DEF Preparation!FillImages
  <2>2. workflow' = Imaged
    BY <1>7, <2>1 DEF Preparation!FillImages, Imaged
  <2>3. QED
    BY <1>5, <2>1, <2>2 DEF PreparationStages
<1>8. CASE Preparation!FillParameters
  <2>1. preparing = "parameters" /\ preparing' = "prepared" /\ UNCHANGED <<run, ordinal, uploads, blamed>>
    BY <1>8 DEF Preparation!FillParameters
  <2>2. workflow' = Ready
    BY <1>8, <2>1 DEF Preparation!FillParameters, Ready
  <2>3. QED
    BY <1>5, <2>1, <2>2 DEF PreparationStages
<1>9. ASSUME NEW targets, Preparation!Reject(targets) PROVE PreparationInvariant'
  <2>1. preparing = "prepared" /\ preparing' = "reported" /\ UNCHANGED <<run, ordinal, uploads, workflow>>
    BY <1>9 DEF Preparation!Reject
  <2>2. /\ \A i \in blamed'.images : i \in DOMAIN run.profile.images /\ Preparation!TheJob.images[i] = Preparation!Base
        /\ \A i \in blamed'.parameters : i \in DOMAIN run.profile.parameters /\ Preparation!TheJob.parameters[i] = Preparation!Base
    BY <1>9 DEF Preparation!Reject, Preparation!Blamed
  <2>3. QED
    BY <1>5, <2>1, <2>2 DEF PreparationStages
<1>10. CASE UNCHANGED Preparation!vars
  <2>1. UNCHANGED <<run, preparing, ordinal, uploads, workflow, blamed>>
    BY <1>10 DEF Preparation!vars
  <2>2. QED
    BY <1>5, <2>1
<1>11. QED
  BY <1>1, <1>2, <1>3, <1>4, <1>6, <1>7, <1>8, <1>9, <1>10 DEF Preparation!Next

-----------------------------------------------------------------------------
\* What one value after the other leaves in the workflow.
LEMMA OverKeeps ==
  ASSUME NEW source, NEW values
  PROVE  /\ DOMAIN Preparation!Over(source, values) = DOMAIN source \cup DOMAIN values
         /\ \A t \in DOMAIN values : Preparation!Over(source, values)[t] = values[t]
         /\ \A t \in DOMAIN source : t \notin DOMAIN values => Preparation!Over(source, values)[t] = source[t]
BY DEF Preparation!Over

FillsAt(w, source, seq, values) ==
    LET given == {i \in DOMAIN seq : seq[i].key \in DOMAIN values} IN
    /\ DOMAIN w = DOMAIN source \cup {seq[i].target : i \in given}
    /\ \A i \in given : w[seq[i].target] = values[seq[i].key]
    /\ \A t \in DOMAIN source : (\A i \in given : seq[i].target # t) => w[t] = source[t]

LEMMA FilledAtTargets ==
  ASSUME NEW source, NEW seq, NEW values,
         \A i, j \in DOMAIN seq : seq[i].target = seq[j].target => i = j
  PROVE  FillsAt(Preparation!Filled(source, seq, values), source, seq, values)
<1> DEFINE given == {i \in DOMAIN seq : seq[i].key \in DOMAIN values}
           new == [t \in {seq[i].target : i \in given} |-> values[seq[CHOOSE i \in given : seq[i].target = t].key]]
<1>1. Preparation!Filled(source, seq, values) = Preparation!Over(source, new)
  BY DEF Preparation!Filled
<1>2. DOMAIN new = {seq[i].target : i \in given}
  OBVIOUS
<1>3. ASSUME NEW i \in given PROVE new[seq[i].target] = values[seq[i].key] /\ seq[i].target \in DOMAIN new
  <2>1. (CHOOSE j \in given : seq[j].target = seq[i].target) = i
    OBVIOUS
  <2>2. seq[i].target \in {seq[j].target : j \in given}
    OBVIOUS
  <2>3. QED
    BY <2>1, <2>2
<1> HIDE DEF new
<1>4. /\ DOMAIN Preparation!Over(source, new) = DOMAIN source \cup DOMAIN new
      /\ \A t \in DOMAIN new : Preparation!Over(source, new)[t] = new[t]
      /\ \A t \in DOMAIN source : t \notin DOMAIN new => Preparation!Over(source, new)[t] = source[t]
  BY OverKeeps
<1>5. \A t \in DOMAIN source : (\A i \in given : seq[i].target # t) => t \notin DOMAIN new
  BY <1>2
<1>6. DOMAIN Preparation!Filled(source, seq, values) = DOMAIN source \cup {seq[i].target : i \in given}
  BY <1>1, <1>2, <1>4
<1>7. ASSUME NEW i \in given PROVE Preparation!Filled(source, seq, values)[seq[i].target] = values[seq[i].key]
  BY <1>1, <1>3, <1>4
<1>8. ASSUME NEW t \in DOMAIN source, \A i \in given : seq[i].target # t
      PROVE  Preparation!Filled(source, seq, values)[t] = source[t]
  BY <1>1, <1>5, <1>8, <1>4
<1>9. QED
  BY <1>6, <1>7, <1>8 DEF FillsAt

\* What the workflow of a Job says, target by target.
HasTheInputs(w) ==
    LET p == run.profile IN
    /\ DOMAIN w = DOMAIN run.workflow
    /\ \A name \in Preparation!Friendly : w[p.mappings[name].target] = Preparation!FriendlyValue(name)
    /\ \A i \in DOMAIN p.images :
         w[p.images[i].target] = IF Preparation!TheJob.images[i] # Preparation!Base THEN Preparation!Uploaded(i) ELSE run.workflow[p.images[i].target]
    /\ \A i \in DOMAIN p.parameters :
         w[p.parameters[i].target] = IF Preparation!TheJob.parameters[i] # Preparation!Base THEN Preparation!TheJob.parameters[i]
                                     ELSE run.workflow[p.parameters[i].target]
    /\ \A t \in DOMAIN w :
         \/ \E name \in Preparation!Friendly : t = p.mappings[name].target
         \/ \E i \in DOMAIN p.images : t = p.images[i].target /\ Preparation!TheJob.images[i] # Preparation!Base
         \/ \E i \in DOMAIN p.parameters : t = p.parameters[i].target /\ Preparation!TheJob.parameters[i] # Preparation!Base
         \/ w[t] = run.workflow[t]

LEMMA UploadsByKey ==
  ASSUME NEW p, p = run.profile, Preparation!IsInjective(Preparation!Keys(p.images))
  PROVE  \A i \in DOMAIN p.images :
           /\ p.images[i].key \in DOMAIN Preparation!UploadedImages <=> Preparation!TheJob.images[i] # Preparation!Base
           /\ Preparation!TheJob.images[i] # Preparation!Base => Preparation!UploadedImages[p.images[i].key] = Preparation!Uploaded(i)
<1> DEFINE keys == Preparation!Keys(p.images)
<1> TAKE i \in DOMAIN p.images
<1>1. i \in DOMAIN keys /\ DOMAIN keys = DOMAIN p.images /\ keys[i] = p.images[i].key
  BY DEF Preparation!Keys
<1>2. keys[i] \in DOMAIN Preparation!Chosen(keys, Preparation!TheJob.images) <=> Preparation!TheJob.images[i] # Preparation!Base
  BY <1>1, ChosenOfKey
<1>3. (CHOOSE j \in DOMAIN keys : keys[j] = keys[i]) = i
  BY <1>1 DEF Preparation!IsInjective
<1>4. keys[i] \in DOMAIN Preparation!Chosen(keys, Preparation!TheJob.images) => Preparation!UploadedImages[keys[i]] = Preparation!Uploaded(i)
  BY <1>3 DEF Preparation!UploadedImages
<1>5. DOMAIN Preparation!UploadedImages = DOMAIN Preparation!Chosen(keys, Preparation!TheJob.images)
  BY DEF Preparation!UploadedImages
<1>6. QED
  BY <1>1, <1>2, <1>4, <1>5

LEMMA ParametersByKey ==
  ASSUME NEW p, p = run.profile, Preparation!IsInjective(Preparation!Keys(p.parameters))
  PROVE  \A i \in DOMAIN p.parameters :
           /\ p.parameters[i].key \in DOMAIN Preparation!Parameters(Preparation!TheJob) <=> Preparation!TheJob.parameters[i] # Preparation!Base
           /\ Preparation!TheJob.parameters[i] # Preparation!Base => Preparation!Parameters(Preparation!TheJob)[p.parameters[i].key] = Preparation!TheJob.parameters[i]
<1> DEFINE keys == Preparation!Keys(p.parameters)
<1> TAKE i \in DOMAIN p.parameters
<1>1. i \in DOMAIN keys /\ keys[i] = p.parameters[i].key
  BY DEF Preparation!Keys
<1>2. Preparation!Parameters(Preparation!TheJob) = Preparation!Chosen(keys, Preparation!TheJob.parameters)
  BY DEF Preparation!Parameters
<1>3. QED
  BY <1>1, <1>2, ChosenOfKey

LEMMA MappedAtTargets ==
  ASSUME NEW p, p = run.profile, ProfileIsDistinct(p)
  PROVE  /\ DOMAIN Mapped = DOMAIN run.workflow \cup {p.mappings[name].target : name \in Preparation!Friendly}
         /\ \A name \in Preparation!Friendly : Mapped[p.mappings[name].target] = Preparation!FriendlyValue(name)
         /\ \A t \in DOMAIN run.workflow :
              (\A name \in Preparation!Friendly : p.mappings[name].target # t) => Mapped[t] = run.workflow[t]
<1>1. DOMAIN Preparation!FriendlyValues = {p.mappings[name].target : name \in Preparation!Friendly}
  BY DEF Preparation!FriendlyValues
<1>2. ASSUME NEW name \in Preparation!Friendly
      PROVE  Preparation!FriendlyValues[p.mappings[name].target] = Preparation!FriendlyValue(name)
  <2>1. (CHOOSE other \in Preparation!Friendly : p.mappings[other].target = p.mappings[name].target) = name
    BY DEF ProfileIsDistinct
  <2>2. QED
    BY <2>1 DEF Preparation!FriendlyValues
<1>3. DOMAIN Mapped = DOMAIN run.workflow \cup DOMAIN Preparation!FriendlyValues
  BY OverKeeps DEF Mapped
<1>4. \A t \in DOMAIN Preparation!FriendlyValues : Mapped[t] = Preparation!FriendlyValues[t]
  BY OverKeeps DEF Mapped
<1>5. \A t \in DOMAIN run.workflow : t \notin DOMAIN Preparation!FriendlyValues => Mapped[t] = run.workflow[t]
  BY OverKeeps DEF Mapped
<1>6. QED
  BY <1>1, <1>2, <1>3, <1>4, <1>5

\* The three fillings, one after the other, do not disturb each other.
LEMMA ReadyIsExact ==
  ASSUME run \in [workflow : Workflows, profile : Profiles, plan : Plans], Preparation!ProfileFits(run.workflow, run.profile)
  PROVE  HasTheInputs(Ready)
<1> DEFINE p == run.profile
           withImage == {i \in DOMAIN p.images : p.images[i].key \in DOMAIN Preparation!UploadedImages}
           withValue == {i \in DOMAIN p.parameters : p.parameters[i].key \in DOMAIN Preparation!Parameters(Preparation!TheJob)}
           Here == DOMAIN run.workflow
<1>1. ProfileIsDistinct(p)
  BY PlansAreLists, TargetsDiffer
<1>2. /\ withImage = {i \in DOMAIN p.images : Preparation!TheJob.images[i] # Preparation!Base}
      /\ \A i \in withImage : Preparation!UploadedImages[p.images[i].key] = Preparation!Uploaded(i)
  BY KeysDiffer, UploadsByKey
<1>3. /\ withValue = {i \in DOMAIN p.parameters : Preparation!TheJob.parameters[i] # Preparation!Base}
      /\ \A i \in withValue : Preparation!Parameters(Preparation!TheJob)[p.parameters[i].key] = Preparation!TheJob.parameters[i]
  BY KeysDiffer, ParametersByKey
<1>4. /\ \A name \in Preparation!Friendly : p.mappings[name].target \in Here
      /\ \A i \in DOMAIN p.images : p.images[i].target \in Here
      /\ \A i \in DOMAIN p.parameters : p.parameters[i].target \in Here
  BY DEF Preparation!ProfileFits, Preparation!MappingsAreValid, Preparation!ImagesAreValid, Preparation!ParametersAreValid, Preparation!IsLiteral, Preparation!Range
<1>5. /\ DOMAIN Mapped = Here
      /\ \A name \in Preparation!Friendly : Mapped[p.mappings[name].target] = Preparation!FriendlyValue(name)
      /\ \A t \in Here : (\A name \in Preparation!Friendly : p.mappings[name].target # t) => Mapped[t] = run.workflow[t]
  BY <1>1, <1>4, MappedAtTargets
<1>6. /\ DOMAIN Imaged = Here
      /\ \A i \in withImage : Imaged[p.images[i].target] = Preparation!Uploaded(i)
      /\ \A t \in Here : (\A i \in withImage : p.images[i].target # t) => Imaged[t] = Mapped[t]
  <2>1. \A i, j \in DOMAIN p.images : p.images[i].target = p.images[j].target => i = j
    BY <1>1 DEF ProfileIsDistinct
  <2>2. /\ DOMAIN Imaged = DOMAIN Mapped \cup {p.images[i].target : i \in withImage}
        /\ \A i \in withImage : Imaged[p.images[i].target] = Preparation!UploadedImages[p.images[i].key]
        /\ \A t \in DOMAIN Mapped : (\A i \in withImage : p.images[i].target # t) => Imaged[t] = Mapped[t]
    <3>1. FillsAt(Imaged, Mapped, p.images, Preparation!UploadedImages)
      BY <2>1, FilledAtTargets DEF Imaged
    <3>2. QED
      BY <3>1 DEF FillsAt
  <2>3. QED
    BY <1>2, <1>4, <1>5, <2>2
<1>7. /\ DOMAIN Ready = Here
      /\ \A i \in withValue : Ready[p.parameters[i].target] = Preparation!TheJob.parameters[i]
      /\ \A t \in Here : (\A i \in withValue : p.parameters[i].target # t) => Ready[t] = Imaged[t]
  <2>1. \A i, j \in DOMAIN p.parameters : p.parameters[i].target = p.parameters[j].target => i = j
    BY <1>1 DEF ProfileIsDistinct
  <2>2. /\ DOMAIN Ready = DOMAIN Imaged \cup {p.parameters[i].target : i \in withValue}
        /\ \A i \in withValue : Ready[p.parameters[i].target] = Preparation!Parameters(Preparation!TheJob)[p.parameters[i].key]
        /\ \A t \in DOMAIN Imaged : (\A i \in withValue : p.parameters[i].target # t) => Ready[t] = Imaged[t]
    <3>1. FillsAt(Ready, Imaged, p.parameters, Preparation!Parameters(Preparation!TheJob))
      BY <2>1, FilledAtTargets DEF Ready
    <3>2. QED
      BY <3>1 DEF FillsAt
  <2>3. QED
    BY <1>3, <1>4, <1>6, <2>2
<1> HIDE DEF withImage, withValue, Here
<1>8. \A name \in Preparation!Friendly : Ready[p.mappings[name].target] = Preparation!FriendlyValue(name)
  <2> TAKE name \in Preparation!Friendly
  <2> DEFINE t == p.mappings[name].target
  <2>1. (\A i \in withValue : p.parameters[i].target # t) /\ (\A i \in withImage : p.images[i].target # t)
    BY <1>1, <1>2, <1>3 DEF ProfileIsDistinct
  <2>2. t \in Here
    BY <1>4
  <2>3. QED
    BY <1>5, <1>6, <1>7, <2>1, <2>2
<1>9. \A i \in DOMAIN p.images :
        Ready[p.images[i].target] = IF Preparation!TheJob.images[i] # Preparation!Base THEN Preparation!Uploaded(i) ELSE run.workflow[p.images[i].target]
  <2> TAKE i \in DOMAIN p.images
  <2> DEFINE t == p.images[i].target
  <2>1. (\A j \in withValue : p.parameters[j].target # t) /\ (\A name \in Preparation!Friendly : p.mappings[name].target # t)
    BY <1>1, <1>3 DEF ProfileIsDistinct
  <2>2. t \in Here
    BY <1>4
  <2>3. Ready[t] = Imaged[t]
    BY <1>7, <2>1, <2>2
  <2>4. CASE Preparation!TheJob.images[i] # Preparation!Base
    BY <1>2, <1>6, <2>3, <2>4
  <2>5. CASE Preparation!TheJob.images[i] = Preparation!Base
    <3>1. \A j \in withImage : p.images[j].target # t
      BY <1>1, <1>2, <2>5 DEF ProfileIsDistinct
    <3>2. QED
      BY <1>5, <1>6, <2>1, <2>2, <2>3, <2>5, <3>1
  <2>6. QED
    BY <2>4, <2>5
<1>10. \A i \in DOMAIN p.parameters :
         Ready[p.parameters[i].target] = IF Preparation!TheJob.parameters[i] # Preparation!Base THEN Preparation!TheJob.parameters[i]
                                         ELSE run.workflow[p.parameters[i].target]
  <2> TAKE i \in DOMAIN p.parameters
  <2> DEFINE t == p.parameters[i].target
  <2>1. (\A j \in withImage : p.images[j].target # t) /\ (\A name \in Preparation!Friendly : p.mappings[name].target # t)
    BY <1>1, <1>2 DEF ProfileIsDistinct
  <2>2. t \in Here
    BY <1>4
  <2>3. CASE Preparation!TheJob.parameters[i] # Preparation!Base
    BY <1>3, <1>7, <2>3
  <2>4. CASE Preparation!TheJob.parameters[i] = Preparation!Base
    <3>1. \A j \in withValue : p.parameters[j].target # t
      BY <1>1, <1>3, <2>4 DEF ProfileIsDistinct
    <3>2. QED
      BY <1>5, <1>6, <1>7, <2>1, <2>2, <2>4, <3>1
  <2>5. QED
    BY <2>3, <2>4
<1>11. \A t \in DOMAIN Ready :
         \/ \E name \in Preparation!Friendly : t = p.mappings[name].target
         \/ \E i \in DOMAIN p.images : t = p.images[i].target /\ Preparation!TheJob.images[i] # Preparation!Base
         \/ \E i \in DOMAIN p.parameters : t = p.parameters[i].target /\ Preparation!TheJob.parameters[i] # Preparation!Base
         \/ Ready[t] = run.workflow[t]
  BY <1>2, <1>3, <1>5, <1>6, <1>7
<1>12. DOMAIN Ready = DOMAIN run.workflow
  BY <1>7 DEF Here
<1>13. QED
  BY <1>8, <1>9, <1>10, <1>11, <1>12 DEF HasTheInputs

-----------------------------------------------------------------------------
\* A value that a Job gives to a target of the Profile is a scalar.
LEMMA GivenIsScalar ==
  /\ \A name \in Preparation!Friendly : Preparation!FriendlyValue(name) # Preparation!Connection
  /\ \A i : Preparation!Uploaded(i) # Preparation!Connection
  /\ \A kind, v : Preparation!IsValueOf(kind, v) => v # Preparation!Connection
BY DEF Preparation!FriendlyValue, Preparation!Uploaded, Preparation!Connection, Preparation!IsValueOf, Preparation!String, Preparation!Integer

LEMMA ReadyHasTheInputs ==
  ASSUME PreparationInvariant, preparing \in {"prepared", "reported"}
  PROVE  /\ HasTheInputs(workflow)
         /\ Preparation!ProfileFits(run.workflow, run.profile)
         /\ ProfileIsDistinct(run.profile)
         /\ \A k \in DOMAIN run.profile.parameters :
              Preparation!TheJob.parameters[k] = Preparation!Base \/ Preparation!IsValueOf(run.profile.parameters[k].type, Preparation!TheJob.parameters[k])
<1>1. /\ workflow = Ready /\ Preparation!ProfileFits(run.workflow, run.profile) /\ Preparation!PlanCompiles(run.profile, run.plan)
      /\ ordinal \in 1 .. Len(run.plan)
      /\ run \in [workflow : Workflows, profile : Profiles, plan : Plans]
  BY DEF PreparationInvariant, WorkflowIsOwn, ProfileIsChecked, PlanIsCompiled, JobIsOfPlan
<1>2. ordinal \in DOMAIN run.plan
  BY <1>1, PlansAreLists
<1>3. QED
  BY <1>1, <1>2, ReadyIsExact, PlansAreLists, TargetsDiffer DEF Preparation!PlanCompiles, Preparation!TheJob

LEMMA SubmittedFollows == PreparationInvariant => Preparation!SubmittedIsExact
<1> SUFFICES ASSUME PreparationInvariant, preparing \in {"prepared", "reported"}
             PROVE  Preparation!SubmittedIsExact
  BY DEF Preparation!SubmittedIsExact
<1> DEFINE p == run.profile
           job == Preparation!TheJob
           mapped == {p.mappings[name].target : name \in Preparation!Friendly}
           overridden == {p.images[i].target : i \in {j \in DOMAIN p.images : job.images[j] # Preparation!Base}}
                         \cup {p.parameters[i].target : i \in {j \in DOMAIN p.parameters : job.parameters[j] # Preparation!Base}}
<1>1. HasTheInputs(workflow)
  BY ReadyHasTheInputs
<1>2. \A name \in Preparation!Friendly : workflow[p.mappings[name].target] = Preparation!FriendlyValue(name)
  BY <1>1 DEF HasTheInputs
<1>3. \A i \in DOMAIN p.images : job.images[i] # Preparation!Base => workflow[p.images[i].target] = Preparation!Uploaded(i)
  BY <1>1 DEF HasTheInputs
<1>4. \A i \in DOMAIN p.parameters : job.parameters[i] # Preparation!Base => workflow[p.parameters[i].target] = job.parameters[i]
  BY <1>1 DEF HasTheInputs
<1>5. \A t \in DOMAIN workflow \ (mapped \cup overridden) : workflow[t] = run.workflow[t]
  BY <1>1 DEF HasTheInputs
<1>6. QED
  BY <1>2, <1>3, <1>4, <1>5 DEF Preparation!SubmittedIsExact

LEMMA ConnectionsFollow ==
  ASSUME PreparationInvariant, preparing \in {"prepared", "reported"}
  PROVE  \A t \in DOMAIN workflow : workflow[t] = Preparation!Connection <=> run.workflow[t] = Preparation!Connection
<1> DEFINE p == run.profile
<1>1. /\ HasTheInputs(workflow)
      /\ Preparation!ProfileFits(run.workflow, p)
      /\ \A k \in DOMAIN p.parameters :
           Preparation!TheJob.parameters[k] = Preparation!Base \/ Preparation!IsValueOf(p.parameters[k].type, Preparation!TheJob.parameters[k])
  BY ReadyHasTheInputs
<1>2. /\ \A name \in Preparation!Friendly : run.workflow[p.mappings[name].target] # Preparation!Connection
      /\ \A i \in DOMAIN p.images : run.workflow[p.images[i].target] # Preparation!Connection
      /\ \A i \in DOMAIN p.parameters : run.workflow[p.parameters[i].target] # Preparation!Connection
  BY <1>1 DEF Preparation!ProfileFits, Preparation!MappingsAreValid, Preparation!ImagesAreValid, Preparation!ParametersAreValid, Preparation!IsLiteral, Preparation!Range
<1>3. \A name \in Preparation!Friendly : workflow[p.mappings[name].target] # Preparation!Connection
  BY <1>1, GivenIsScalar DEF HasTheInputs
<1>4. \A i \in DOMAIN p.images : Preparation!TheJob.images[i] # Preparation!Base => workflow[p.images[i].target] # Preparation!Connection
  BY <1>1, GivenIsScalar DEF HasTheInputs
<1>5. \A i \in DOMAIN p.parameters : Preparation!TheJob.parameters[i] # Preparation!Base => workflow[p.parameters[i].target] # Preparation!Connection
  BY <1>1, GivenIsScalar DEF HasTheInputs
<1>6. QED
  BY <1>1, <1>2, <1>3, <1>4, <1>5 DEF HasTheInputs

LEMMA PreparedFits == PreparationInvariant => Preparation!PreparedFitsAgain
<1> SUFFICES ASSUME PreparationInvariant, preparing = "prepared"
             PROVE  Preparation!ProfileFits(workflow, run.profile)
  BY DEF Preparation!PreparedFitsAgain
<1> DEFINE p == run.profile
<1>1. /\ HasTheInputs(workflow) /\ Preparation!ProfileFits(run.workflow, p)
      /\ \A k \in DOMAIN p.parameters :
           Preparation!TheJob.parameters[k] = Preparation!Base \/ Preparation!IsValueOf(p.parameters[k].type, Preparation!TheJob.parameters[k])
  BY ReadyHasTheInputs
<1>2. DOMAIN workflow = DOMAIN run.workflow
  BY <1>1 DEF HasTheInputs
<1>3. \A t : Preparation!IsLiteral(run.workflow, t) => Preparation!IsLiteral(workflow, t)
  BY <1>2, ConnectionsFollow DEF Preparation!IsLiteral
<1>4. Preparation!MappingsAreValid(workflow, p)
  BY <1>1, <1>3 DEF Preparation!ProfileFits, Preparation!MappingsAreValid
<1>5. Preparation!ImagesAreValid(workflow, p)
  <2>1. Preparation!ImagesAreValid(run.workflow, p)
    BY <1>1 DEF Preparation!ProfileFits
  <2> HIDE DEF p
  <2>2. QED
    BY ONLY <1>3, <2>1 DEF Preparation!ImagesAreValid
<1>6. ASSUME NEW i \in DOMAIN p.parameters
      PROVE  Preparation!IsValueOf(p.parameters[i].type, workflow[p.parameters[i].target])
  <2>1. Preparation!IsValueOf(p.parameters[i].type, run.workflow[p.parameters[i].target])
    BY <1>1 DEF Preparation!ProfileFits, Preparation!ParametersAreValid, Preparation!Range
  <2>2. QED
    BY <1>1, <2>1 DEF HasTheInputs
<1>7. Preparation!ParametersAreValid(workflow, p)
  BY <1>1, <1>3, <1>6 DEF Preparation!ProfileFits, Preparation!ParametersAreValid, Preparation!Range
<1>8. workflow # <<>>
  <2>1. "seed" \in Preparation!Friendly
    BY DEF Preparation!Friendly
  <2>2. p.mappings["seed"].target \in DOMAIN workflow
    BY <1>4, <2>1 DEF Preparation!MappingsAreValid, Preparation!IsLiteral
  <2>3. QED
    BY <2>2
<1>9. QED
  BY <1>1, <1>4, <1>5, <1>7, <1>8 DEF Preparation!ProfileFits

LEMMA BlamesFollow == PreparationInvariant => Preparation!BlamesOnlyBase
<1> SUFFICES ASSUME PreparationInvariant, preparing = "reported"
             PROVE  Preparation!BlamesOnlyBase
  BY DEF Preparation!BlamesOnlyBase
<1>1. HasTheInputs(workflow)
  BY ReadyHasTheInputs
<1>2. /\ \A i \in blamed.images : i \in DOMAIN run.profile.images /\ Preparation!TheJob.images[i] = Preparation!Base
      /\ \A i \in blamed.parameters : i \in DOMAIN run.profile.parameters /\ Preparation!TheJob.parameters[i] = Preparation!Base
  BY DEF PreparationInvariant, BlamesBase
<1>3. QED
  BY <1>1, <1>2 DEF HasTheInputs, Preparation!BlamesOnlyBase

LEMMA PreparationIsExact ==
  PreparationInvariant => Preparation!EveryJobPrepares /\ Preparation!SubmittedIsExact /\ Preparation!ConnectionsAreKept /\ Preparation!PreparedFitsAgain /\ Preparation!BlamesOnlyBase
<1>1. PreparationInvariant => Preparation!ConnectionsAreKept
  BY ConnectionsFollow DEF Preparation!ConnectionsAreKept
<1>2. PreparationInvariant => Preparation!EveryJobPrepares
  BY DEF PreparationInvariant, PreparationStages, Preparation!EveryJobPrepares
<1>3. QED
  BY <1>1, <1>2, SubmittedFollows, PreparedFits, BlamesFollow

-----------------------------------------------------------------------------
(* The theorems. *)

\* A behaviour of the composition is one of each machine.
LEMMA MachinesBehave == PlanningSpec => Spec /\ Definition!Spec /\ Preparation!Spec
<1>1. PlanningInit => Init /\ Definition!Init /\ Preparation!Init
  BY DEF PlanningInit
<1>2. [PlanningNext]_<<which, ranging, compiling, defining, submitting, reading>> => [Next]_vars
  BY DEF PlanningNext, RangeNext, CompilerNext, DefinitionNext, PreparationNext, RecordNext, ranging, vars
<1>3. [PlanningNext]_<<which, ranging, compiling, defining, submitting, reading>> => [Definition!Next]_Definition!vars
  BY DEF PlanningNext, RangeNext, CompilerNext, DefinitionNext, PreparationNext, RecordNext, defining, Definition!vars
<1>4. [PlanningNext]_<<which, ranging, compiling, defining, submitting, reading>> => [Preparation!Next]_Preparation!vars
  BY DEF PlanningNext, RangeNext, CompilerNext, DefinitionNext, PreparationNext, RecordNext, submitting, Preparation!vars
<1>5. QED
  BY <1>1, <1>2, <1>3, <1>4, PTL DEF PlanningSpec, Spec, Definition!Spec, Preparation!Spec

\* Whatever clients send and however often the budget changes: a stored Saved
\* Batch stays readable, reading it returns what was accepted, every parameter
\* of its Profile is bound once and in order, its selections belong together,
\* and the count before the transaction refuses whatever the counts inside it
\* would (db/saved_batches.py).
THEOREM StoredStaysAccepted == PlanningSpec => []StoredIsWhatWasAccepted
<1>1. Definition!Init => DefinitionInvariant
  BY DefinitionStarts
<1>2. DefinitionInvariant /\ [Definition!Next]_Definition!vars => DefinitionInvariant'
  BY DefinitionGoesOn
<1>3. DefinitionInvariant => StoredIsWhatWasAccepted
  BY StoredIsExact, BudgetsAreEqual DEF StoredIsWhatWasAccepted
<1>4. QED
  BY <1>1, <1>2, <1>3, MachinesBehave, PTL DEF Definition!Spec

LEMMA PreparationHolds == PlanningSpec => []PreparationInvariant
<1>1. Preparation!Init => PreparationInvariant
  BY PreparationStarts
<1>2. PreparationInvariant /\ [Preparation!Next]_Preparation!vars => PreparationInvariant'
  BY PreparationGoesOn
<1>3. QED
  BY <1>1, <1>2, MachinesBehave, PTL DEF Preparation!Spec

\* No Job of a published Run fails before anything is sent, for all workflows,
\* Profiles and plans, although the first Job alone was prepared beforehand
\* (comfyui/preparation.py).
THEOREM EveryJobIsPrepared == PlanningSpec => []EveryJobPrepares
<1>1. PreparationInvariant => EveryJobPrepares
  BY PreparationIsExact DEF EveryJobPrepares
<1>2. QED
  BY <1>1, PreparationHolds, PTL

\* What is submitted is the base workflow but for the Job's values at the
\* Profile's targets, its connections are those of the base, and a rejection
\* is put down to values the Job left to the base (comfyui/preparation.py,
\* application/execution.py).
THEOREM SubmittedStaysExact == PlanningSpec => []SubmittedIsExact
<1>1. PreparationInvariant => SubmittedIsExact
  BY PreparationIsExact DEF SubmittedIsExact
<1>2. QED
  BY <1>1, PreparationHolds, PTL

\* For all decimals, scales and limits: the values of a range are exactly its
\* steps, as many as it was counted with, none of them beyond the end and the
\* next one beyond it; and what was counted is refused afterwards for the
\* precision of a value alone (parameter_intents.py).
THEOREM RangeStaysRight == PlanningSpec => []RangeIsRight
BY MachinesBehave, RangeRight, PTL

-----------------------------------------------------------------------------
(* What the directory of a Run says.  Every load that accepts a directory  *)
(* reads the facts that were published, since each of them is fixed by     *)
(* others: the identity by run.json, the workflow and the Profile by their *)
(* hashes, the plan by the snapshot that compiles to it, the identity of a *)
(* Job by its prefix, and an Asset by the store.                           *)

\* What a published directory held, and what the last load saw.
Held == Record!Written(creation)

PublishedIsRead ==
    recording = "published" =>
        /\ Record!IsCreatable(creation)
        /\ Record!ReadsBack(Held, creation)
        /\ original = <<Record!Read(Held)>>
        /\ IF edited THEN tree \in TreeEdits(Held) ELSE tree = Held
AnswerIsLoaded ==
    answer = Record!NotAsked \/
        /\ recording = "published"
        /\ answer.how \in {"load_run", "load_historical_run"}
        /\ answer = [how |-> answer.how, run |-> Record!Load(tree, answer.how)]

RecordInvariant ==
    /\ creation \in Creations
    /\ recording = "staged" => Record!IsCreatable(creation) /\ tree = Held
    /\ recording # "published" => ~edited
    /\ PublishedIsRead
    /\ AnswerIsLoaded

LEMMA RecordStarts == Record!Init => RecordInvariant
BY DEF Record!Init, RecordInvariant, PublishedIsRead, AnswerIsLoaded

LEMMA RecordGoesOn == RecordInvariant /\ [Record!Next]_Record!vars => RecordInvariant'
<1> SUFFICES ASSUME RecordInvariant, [Record!Next]_Record!vars PROVE RecordInvariant'
  OBVIOUS
<1> USE DEF RecordInvariant, PublishedIsRead, AnswerIsLoaded, Held
<1>1. CASE Record!Write
  BY <1>1 DEF Record!Write, Record!Refuse, Record!NotAsked
<1>2. CASE Record!Publish
  BY <1>2 DEF Record!Publish, Record!Refuse, Record!NotAsked
<1>3. CASE Record!Edit
  BY <1>3 DEF Record!Edit
<1>4. CASE Record!LoadRun
  BY <1>4 DEF Record!LoadRun
<1>5. CASE UNCHANGED Record!vars
  BY <1>5 DEF Record!vars
<1>6. QED
  BY <1>1, <1>2, <1>3, <1>4, <1>5 DEF Record!Next

-----------------------------------------------------------------------------
LEMMA WrittenShape ==
  ASSUME NEW c
  PROVE  LET t == Record!Written(c) IN
         /\ DOMAIN t = {"files", "outputs", "run", "manifest", "workflow", "profile", "csv", "place",
                        "projectOwner", "batchOwner", "store"}
         /\ DOMAIN t.manifest = {"format", "identity", "snapshot", "prompts", "slots", "parameters", "warnings",
                                 "workflow", "profile", "csv", "jobs"}
         /\ t.run.identity = Record!Identity(c)
         /\ t.manifest.identity = Record!Identity(c)
         /\ t.place.name = t.run.identity.key
         /\ Record!StandsInPlace(t)
BY DEF Record!Written, Record!Manifest, Record!RunFile, Record!Identity, Record!StandsInPlace

LEMMA OneIsSome == ASSUME NEW r PROVE <<r>> # Record!NoRun
<1>1. Len(<<r>>) = 1 /\ Len(<<>>) = 0
  OBVIOUS
<1>2. QED
  BY <1>1 DEF Record!NoRun

LEMMA LoadsWhenLoadable ==
  ASSUME NEW t, NEW how, how \in {"load_run", "load_historical_run"}, Record!IsLoadable(t, TRUE, TRUE), Record!StandsInPlace(t)
  PROVE  Record!Load(t, how) = <<Record!Read(t)>>
BY DEF Record!Load, Record!IsLoadable, Record!FilesArePresent

LEMMA Loaded ==
  ASSUME NEW t, NEW how, Record!Load(t, how) # Record!NoRun
  PROVE  /\ Record!Load(t, how) = <<Record!Read(t)>>
         /\ Record!IsLoadable(t, how = "load_run", how = "load_run")
         /\ Record!StandsInPlace(t)
BY DEF Record!Load

LEMMA CreatedIsLoaded == RecordInvariant => Record!CreatedLoads
<1> SUFFICES ASSUME RecordInvariant, recording = "published" PROVE
      /\ original[1].plan = Record!Plan(creation) /\ original[1].snapshot = creation.snapshot
      /\ original[1].workflow = creation.workflow /\ original[1].profile = creation.profile
      /\ ~edited /\ answer # Record!NotAsked => answer.run = original
  BY DEF Record!CreatedLoads
<1>1. original = <<Record!Read(Held)>> /\ Record!ReadsBack(Held, creation)
  BY DEF RecordInvariant, PublishedIsRead
<1>2. /\ original[1].plan = Record!Plan(creation) /\ original[1].snapshot = creation.snapshot
      /\ original[1].workflow = creation.workflow /\ original[1].profile = creation.profile
  BY <1>1 DEF Record!ReadsBack, Record!Read
<1>3. ASSUME ~edited, answer # Record!NotAsked PROVE answer.run = original
  <2>1. tree = Held /\ answer.run = Record!Load(tree, answer.how) /\ answer.how \in {"load_run", "load_historical_run"}
    BY <1>3 DEF RecordInvariant, PublishedIsRead, AnswerIsLoaded
  <2>2. Record!IsLoadable(Held, TRUE, TRUE) /\ Record!StandsInPlace(Held)
    BY <1>1, WrittenShape DEF Record!ReadsBack, Held
  <2>3. QED
    BY <1>1, <2>1, <2>2, LoadsWhenLoadable
<1>4. QED
  BY <1>2, <1>3

LEMMA HistoryStaysFrozen == RecordInvariant => Record!HistoryIsFrozen
<1> SUFFICES ASSUME RecordInvariant, answer.how = "load_historical_run", answer.run = Record!NoRun,
                    Record!RequiredFiles \subseteq tree.files,
                    tree.run = Held.run, tree.manifest = Held.manifest, tree.workflow = Held.workflow,
                    tree.profile = Held.profile, tree.place = Held.place,
                    tree.projectOwner = Held.projectOwner, tree.batchOwner = Held.batchOwner
             PROVE  FALSE
  BY DEF Record!HistoryIsFrozen, Held
<1>1. /\ recording = "published"
      /\ answer.run = Record!Load(tree, "load_historical_run")
  BY DEF RecordInvariant, AnswerIsLoaded, Record!NotAsked
<1>2. Record!IsLoadable(Held, TRUE, TRUE) /\ Record!StandsInPlace(Held)
  BY <1>1, WrittenShape DEF RecordInvariant, PublishedIsRead, Record!ReadsBack, Held
<1>3. Record!IsLoadable(tree, FALSE, FALSE)
  <2>1. Record!FilesArePresent(tree, FALSE)
    BY DEF Record!FilesArePresent
  <2>2. Record!IdentitiesAgree(tree) /\ Record!HashesAgree(tree)
    BY <1>2 DEF Record!IsLoadable, Record!IdentitiesAgree, Record!HashesAgree
  <2>3. Record!JobsAreValid(tree)
    BY <1>2 DEF Record!IsLoadable, Record!JobsAreValid, Record!JobIsValid
  <2>4. Record!OwnersAgree(tree)
    BY <1>2 DEF Record!IsLoadable, Record!OwnersAgree
  <2>5. QED
    BY <1>2, <2>1, <2>2, <2>3, <2>4 DEF Record!IsLoadable
<1>4. Record!StandsInPlace(tree)
  BY <1>2 DEF Record!StandsInPlace
<1>5. Record!Load(tree, "load_historical_run") = <<Record!Read(tree)>>
  BY <1>3, <1>4 DEF Record!Load
<1>6. QED
  BY <1>1, <1>5, OneIsSome

-----------------------------------------------------------------------------
ProvenInput(input, how) ==
    IF how = "load_run" THEN input ELSE [slot |-> input.slot, label |-> input.label, asset |-> input.asset.id]
ProvenJob(job, how, random) ==
    [job EXCEPT !.seed = IF random THEN 0 ELSE @,
                !.images = [k \in DOMAIN @ |-> ProvenInput(@[k], how)]]

LEMMA ProvenIs ==
  ASSUME NEW r, NEW how, NEW random
  PROVE  Record!Proven(r, how, random) =
           [run |-> r.identity, workflow |-> r.workflow, profile |-> r.profile,
            prompts |-> r.plan.prompts, slots |-> r.plan.slots, parameters |-> r.plan.parameters,
            warnings |-> r.plan.warnings, jobs |-> [n \in DOMAIN r.jobs |-> ProvenJob(r.jobs[n], how, random)]]
BY DEF Record!Proven, ProvenJob, ProvenInput

\* What the snapshot says of the n-th Job.
IsCompiled(job, n, configuration, snapshot) ==
    /\ job.ordinal = n
    /\ job.prompt = configuration[1].id
    /\ job.text = Record!Resolved(configuration[1], configuration[2])
    /\ job.variables = IF Record!Uses(configuration[1]) THEN <<configuration[2]>> ELSE <<>>
    /\ [k \in DOMAIN job.images |-> job.images[k].asset.id] = configuration[3]
    /\ Record!Column(job.parameters, "value") = configuration[4]
    /\ snapshot.seeds.mode # "random" => job.seed = configuration[5]

LEMMA LoadedIsCompiled ==
  ASSUME NEW t, NEW a, NEW o, Record!IsLoadable(t, a, o)
  PROVE  LET m == t.manifest
             configurations == Record!Configurations(m.snapshot, t.profile) IN
         /\ m.prompts = m.snapshot.prompts
         /\ m.slots = t.profile.images /\ m.parameters = t.profile.parameters
         /\ m.warnings = Record!Warnings(m.snapshot)
         /\ DOMAIN m.jobs = DOMAIN configurations
         /\ \A n \in DOMAIN m.jobs : IsCompiled(m.jobs[n], n, configurations[n], m.snapshot)
<1> DEFINE m == t.manifest
           plan == Record!ReadPlan(m)
           configurations == Record!Configurations(m.snapshot, t.profile)
           drawn == Record!Column(plan.jobs, "seed")
           SeedOf(n) == IF m.snapshot.seeds.mode = "random" THEN drawn[n] ELSE configurations[n][5]
           compiled == [n \in DOMAIN configurations |-> Record!CompiledJob(n, configurations[n], SeedOf(n))]
<1>1. /\ m.snapshot.prompts = plan.prompts
      /\ t.profile.images = plan.slots /\ t.profile.parameters = plan.parameters
      /\ plan = Record!Compiled(m.snapshot, t.profile, drawn)
  BY DEF Record!IsLoadable, Record!SnapshotIsConsistent, Record!Reconstructs
<1>2. /\ plan.prompts = m.prompts /\ plan.slots = m.slots /\ plan.parameters = m.parameters
      /\ plan.warnings = m.warnings
      /\ plan.jobs = [n \in DOMAIN m.jobs |-> Record!PlanJob(m.jobs[n])]
  BY DEF Record!ReadPlan
<1>3. plan.warnings = Record!Warnings(m.snapshot) /\ plan.jobs = compiled
  <2>1. ASSUME NEW d PROVE
        /\ Record!Compiled(m.snapshot, t.profile, d).warnings = Record!Warnings(m.snapshot)
        /\ Record!Compiled(m.snapshot, t.profile, d).jobs =
             [n \in DOMAIN configurations |-> Record!CompiledJob(n, configurations[n],
                IF m.snapshot.seeds.mode = "random" THEN d[n] ELSE configurations[n][5])]
    BY DEF Record!Compiled
  <2>2. QED
    BY <1>1, <2>1
<1>4. DOMAIN m.jobs = DOMAIN configurations
  <2>1. plan.jobs = [n \in DOMAIN m.jobs |-> Record!PlanJob(m.jobs[n])]
    BY <1>2
  <2>2. plan.jobs = compiled
    BY <1>3
  <2>3. DOMAIN compiled = DOMAIN configurations
    OBVIOUS
  <2> HIDE DEF m, plan, configurations, compiled
  <2>4. DOMAIN plan.jobs = DOMAIN m.jobs
    BY ONLY <2>1
  <2>5. QED
    BY ONLY <2>2, <2>3, <2>4
<1>5. ASSUME NEW n \in DOMAIN m.jobs PROVE IsCompiled(m.jobs[n], n, configurations[n], m.snapshot)
  <2>1. Record!PlanJob(m.jobs[n]) = Record!CompiledJob(n, configurations[n], SeedOf(n))
    BY <1>2, <1>3, <1>4
  <2> HIDE DEF configurations
  <2>2. QED
    BY <2>1 DEF Record!PlanJob, Record!CompiledJob, IsCompiled
<1>6. QED
  BY <1>1, <1>2, <1>3, <1>4, <1>5

\* Two Jobs that differ at most in what is written only once.
AreAlike(j, k, how, random) ==
    /\ j.id = k.id /\ j.prefix = k.prefix /\ j.ordinal = k.ordinal /\ j.prompt = k.prompt /\ j.text = k.text
    /\ j.variables = k.variables /\ j.parameters = k.parameters
    /\ ~random => j.seed = k.seed
    /\ j.workflow = k.workflow /\ j.profile = k.profile
    /\ DOMAIN j.images = DOMAIN k.images
    /\ \A i \in DOMAIN j.images : ProvenInput(j.images[i], how) = ProvenInput(k.images[i], how)

LEMMA JobsAreSame ==
  ASSUME NEW j, NEW k, NEW how, NEW random \in BOOLEAN, Record!IsJob(j), Record!IsJob(k), AreAlike(j, k, how, random)
  PROVE  ProvenJob(j, how, random) = ProvenJob(k, how, random)
<1> DEFINE D == {"id", "prefix", "ordinal", "prompt", "text", "variables", "images", "parameters", "seed", "workflow", "profile"}
           Of(x) == [f \in D |-> IF f = "images" THEN [i \in DOMAIN x.images |-> ProvenInput(x.images[i], how)]
                                 ELSE IF f = "seed" /\ random THEN 0 ELSE x[f]]
<1>1. DOMAIN j = D /\ DOMAIN k = D
  BY DEF Record!IsJob
<1>2. ProvenJob(j, how, random) = Of(j)
  BY <1>1 DEF ProvenJob
<1>3. ProvenJob(k, how, random) = Of(k)
  BY <1>1 DEF ProvenJob
<1>4. Of(j) = Of(k)
  BY DEF AreAlike
<1>5. QED
  BY <1>2, <1>3, <1>4

\* The Jobs that create_run writes have the fields of a Job, and null where there is no asset.
LEMMA WrittenJobs ==
  ASSUME Record!ReadsBack(Held, creation)
  PROVE  \A n \in DOMAIN Held.manifest.jobs : Record!IsJob(Held.manifest.jobs[n])
<1> DEFINE written == Held.manifest.jobs
           plan == Record!Plan(creation)
<1>1. written = [n \in DOMAIN plan.jobs |-> Record!PersistedJob(creation, plan.jobs[n])]
  BY DEF Held, Record!Written, Record!Manifest
<1> SUFFICES ASSUME NEW n \in DOMAIN written PROVE Record!IsJob(written[n])
  OBVIOUS
<1>2. written[n] = Record!PersistedJob(creation, plan.jobs[n]) /\ n \in DOMAIN plan.jobs
  BY <1>1
<1>3. Record!PlanJob(written[n]) = plan.jobs[n]
  <2>1. Record!ReadPlan(Held.manifest) = plan
    BY DEF Record!ReadsBack
  <2>2. Record!ReadPlan(Held.manifest).jobs = [i \in DOMAIN written |-> Record!PlanJob(written[i])]
    BY DEF Record!ReadPlan
  <2>3. QED
    BY <2>1, <2>2
<1> HIDE DEF plan, written
<1>4. written[n].images = Record!ImageInputs(creation, plan.jobs[n])
  BY <1>2 DEF Record!PersistedJob
<1>5. ASSUME NEW k \in DOMAIN written[n].images
      PROVE  /\ written[n].images[k] = [slot |-> written[n].images[k].slot, label |-> written[n].images[k].label, asset |-> written[n].images[k].asset]
             /\ written[n].images[k].asset.id = Record!Base => written[n].images[k].asset = Record!NoAsset
  <2>1. written[n].images[k].asset.id = plan.jobs[n].images[k]
    BY <1>3 DEF Record!PlanJob
  <2>2. k \in DOMAIN creation.profile.images
    BY <1>4 DEF Record!ImageInputs
  <2>3. written[n].images[k] =
          [slot |-> creation.profile.images[k].key, label |-> creation.profile.images[k].label,
           asset |-> IF plan.jobs[n].images[k] = Record!Base THEN Record!NoAsset ELSE creation.assets[plan.jobs[n].images[k]]]
    BY <1>4, <2>2 DEF Record!ImageInputs
  <2>4. QED
    BY <2>1, <2>3
<1>6. \A input \in Record!Range(written[n].images) :
        /\ input = [slot |-> input.slot, label |-> input.label, asset |-> input.asset]
        /\ input.asset.id = Record!Base => input.asset = Record!NoAsset
  BY <1>5 DEF Record!Range
<1>7. /\ written[n] = [id |-> written[n].id, prefix |-> written[n].prefix, ordinal |-> written[n].ordinal, prompt |-> written[n].prompt,
                    text |-> written[n].text, variables |-> written[n].variables, images |-> written[n].images,
                    parameters |-> written[n].parameters, seed |-> written[n].seed, workflow |-> written[n].workflow,
                    profile |-> written[n].profile]
      /\ written[n].parameters =
           [k \in DOMAIN written[n].parameters |-> [key |-> written[n].parameters[k].key, value |-> written[n].parameters[k].value]]
  BY <1>2 DEF Record!PersistedJob
<1>8. QED
  BY <1>6, <1>7 DEF Record!IsJob

\* A directory that was loaded, and an accepted edit of it that left all but its Jobs alone.
OnlyJobsAreEdited(t, u, how, random) ==
    /\ Record!IsLoadable(t, TRUE, TRUE) /\ Record!IsLoadable(u, how = "load_run", how = "load_run")
    /\ u.run = t.run /\ u.profile = t.profile /\ u.store = t.store
    /\ u.manifest.snapshot = t.manifest.snapshot /\ u.manifest.slots = t.manifest.slots
    /\ u.manifest.parameters = t.manifest.parameters
    /\ random = (t.manifest.snapshot.seeds.mode = "random")
    /\ \A n \in DOMAIN t.manifest.jobs : Record!IsJob(t.manifest.jobs[n])
    /\ Record!JobsAreEdited(t.manifest.jobs, u.manifest.jobs)

HaveSameJobs(t, u, how, random) ==
    /\ DOMAIN u.manifest.jobs = DOMAIN t.manifest.jobs
    /\ \A n \in DOMAIN t.manifest.jobs :
         ProvenJob(u.manifest.jobs[n], how, random) = ProvenJob(t.manifest.jobs[n], how, random)

\* Jobs that are edited and accepted are those that were written, but for
\* seeds that were drawn.
LEMMA EditedJobsAreSame ==
  ASSUME NEW t, NEW u, NEW how, how \in {"load_run", "load_historical_run"}, NEW random \in BOOLEAN,
         OnlyJobsAreEdited(t, u, how, random)
  PROVE  HaveSameJobs(t, u, how, random)
<1> DEFINE old == t.manifest.jobs
           new == u.manifest.jobs
           configurations == Record!Configurations(t.manifest.snapshot, t.profile)
<1> USE DEF OnlyJobsAreEdited, HaveSameJobs
<1>1. /\ DOMAIN old = DOMAIN configurations /\ DOMAIN new = DOMAIN configurations
      /\ \A n \in DOMAIN old : IsCompiled(old[n], n, configurations[n], t.manifest.snapshot)
      /\ \A n \in DOMAIN new : IsCompiled(new[n], n, configurations[n], t.manifest.snapshot)
  BY LoadedIsCompiled
<1>2. /\ \A job \in Record!Range(old) : Record!JobIsValid(t, job) /\ Record!JobFitsProfile(t.manifest, job)
      /\ \A job \in Record!Range(new) : Record!JobIsValid(u, job) /\ Record!JobFitsProfile(u.manifest, job)
  BY DEF Record!IsLoadable, Record!JobsAreValid
<1>3. /\ Record!AssetsAreStored(t)
      /\ how = "load_run" => Record!AssetsAreStored(u)
  BY DEF Record!IsLoadable
<1> SUFFICES ASSUME NEW n \in DOMAIN old
             PROVE  ProvenJob(new[n], how, random) = ProvenJob(old[n], how, random)
  BY <1>1
<1> HIDE DEF old, new, configurations
<1>4. n \in DOMAIN new /\ new[n] \in Record!Range(new) /\ old[n] \in Record!Range(old)
  BY <1>1 DEF Record!Range
<1>5. IsCompiled(old[n], n, configurations[n], t.manifest.snapshot) /\ IsCompiled(new[n], n, configurations[n], t.manifest.snapshot)
  BY <1>1, <1>4
<1>6. Record!IsJob(old[n]) /\ Record!IsJob(new[n])
  BY <1>4 DEF Record!JobsAreEdited, old, new
<1>7. /\ Record!JobIsValid(t, old[n]) /\ Record!JobFitsProfile(t.manifest, old[n])
      /\ Record!JobIsValid(u, new[n]) /\ Record!JobFitsProfile(u.manifest, new[n])
  BY <1>2, <1>4
<1>8. new[n].id = old[n].id /\ new[n].prefix = old[n].prefix
  <2>1. /\ old[n].prefix = <<t.run.identity.id, old[n].id>>
        /\ new[n].prefix = <<t.run.identity.id, new[n].id>>
    BY <1>7 DEF Record!JobIsValid
  <2>2. CASE new[n].id = old[n].id \/ new[n].prefix = old[n].prefix
    BY <2>1, <2>2
  <2>3. CASE new[n] \in Record!Range(old)
    <3>1. PICK i \in DOMAIN old : new[n] = old[i]
      BY <2>3 DEF Record!Range
    <3>2. old[i].ordinal = i /\ new[n].ordinal = n
      BY <1>1, <1>5 DEF IsCompiled
    <3>3. QED
      BY <3>1, <3>2
  <2>4. QED
    BY <1>4, <2>2, <2>3 DEF Record!JobsAreEdited, old, new
<1>9. /\ new[n].ordinal = old[n].ordinal /\ new[n].prompt = old[n].prompt /\ new[n].text = old[n].text
      /\ new[n].variables = old[n].variables
      /\ ~random => new[n].seed = old[n].seed
  BY <1>5 DEF IsCompiled
<1>10. new[n].workflow = old[n].workflow /\ new[n].profile = old[n].profile
  BY <1>7 DEF Record!JobIsValid
<1>11. new[n].parameters = old[n].parameters
  <2>1. Record!Column(new[n].parameters, "value") = Record!Column(old[n].parameters, "value")
    BY <1>5 DEF IsCompiled
  <2>2. Record!Column(new[n].parameters, "key") = Record!Column(old[n].parameters, "key")
    BY <1>7 DEF Record!JobFitsProfile
  <2>3. /\ DOMAIN new[n].parameters = DOMAIN old[n].parameters
        /\ \A k \in DOMAIN old[n].parameters : /\ new[n].parameters[k].value = old[n].parameters[k].value
                                              /\ new[n].parameters[k].key = old[n].parameters[k].key
    BY <2>1, <2>2 DEF Record!Column
  <2>4. /\ new[n].parameters =
             [k \in DOMAIN new[n].parameters |-> [key |-> new[n].parameters[k].key, value |-> new[n].parameters[k].value]]
        /\ old[n].parameters =
             [k \in DOMAIN old[n].parameters |-> [key |-> old[n].parameters[k].key, value |-> old[n].parameters[k].value]]
    BY <1>6 DEF Record!IsJob
  <2> HIDE DEF new, old
  <2>5. QED
    BY <2>3, <2>4
<1>12. /\ DOMAIN new[n].images = DOMAIN old[n].images
       /\ \A k \in DOMAIN old[n].images : ProvenInput(new[n].images[k], how) = ProvenInput(old[n].images[k], how)
  <2>1. [k \in DOMAIN new[n].images |-> new[n].images[k].asset.id] = [k \in DOMAIN old[n].images |-> old[n].images[k].asset.id]
    BY <1>5 DEF IsCompiled
  <2>2. /\ DOMAIN new[n].images = DOMAIN old[n].images
        /\ \A k \in DOMAIN old[n].images : new[n].images[k].asset.id = old[n].images[k].asset.id
    BY <2>1
  <2>3. /\ Record!Column(new[n].images, "slot") = Record!Column(old[n].images, "slot")
        /\ Record!Column(new[n].images, "label") = Record!Column(old[n].images, "label")
    BY <1>7 DEF Record!JobFitsProfile
  <2>4. \A k \in DOMAIN old[n].images : /\ new[n].images[k].slot = old[n].images[k].slot
                                       /\ new[n].images[k].label = old[n].images[k].label
    BY <2>2, <2>3 DEF Record!Column
  <2>5. ASSUME NEW k \in DOMAIN old[n].images
        PROVE  ProvenInput(new[n].images[k], how) = ProvenInput(old[n].images[k], how)
    <3>1. new[n].images[k] \in Record!Range(new[n].images) /\ old[n].images[k] \in Record!Range(old[n].images)
      BY <2>2 DEF Record!Range
    <3>2. CASE how # "load_run"
      BY <2>2, <2>4, <3>2 DEF ProvenInput
    <3>3. CASE how = "load_run"
      <4>1. new[n].images[k].asset = old[n].images[k].asset
        <5>1. CASE old[n].images[k].asset.id = Record!Base
          BY <1>6, <2>2, <3>1, <5>1 DEF Record!IsJob
        <5>2. CASE old[n].images[k].asset.id # Record!Base
          <6>1. Record!IsStored(t.store, old[n].images[k].asset)
            BY <1>3, <1>4, <3>1, <5>2 DEF Record!AssetsAreStored, old
          <6>2. Record!IsStored(u.store, new[n].images[k].asset)
            BY <1>3, <1>4, <2>2, <3>1, <3>3, <5>2 DEF Record!AssetsAreStored, new
          <6>3. QED
            BY <2>2, <6>1, <6>2 DEF Record!IsStored
        <5>3. QED
          BY <5>1, <5>2
      <4>2. /\ new[n].images[k] = [slot |-> new[n].images[k].slot, label |-> new[n].images[k].label, asset |-> new[n].images[k].asset]
            /\ old[n].images[k] = [slot |-> old[n].images[k].slot, label |-> old[n].images[k].label, asset |-> old[n].images[k].asset]
        BY <1>6, <3>1 DEF Record!IsJob
      <4>3. new[n].images[k] = old[n].images[k]
        BY <2>4, <4>1, <4>2
      <4>4. QED
        BY <4>3
    <3>4. QED
      BY <3>2, <3>3
  <2>6. QED
    BY <2>2, <2>5
<1>13. AreAlike(new[n], old[n], how, random)
  BY <1>8, <1>9, <1>10, <1>11, <1>12 DEF AreAlike
<1>14. QED
  BY ONLY <1>6, <1>13, random \in BOOLEAN, JobsAreSame, Zenon

\* What two loads prove is the same when the facts they share are.
LEMMA SameFacts ==
  ASSUME NEW t, NEW u, NEW how, NEW random,
         u.run.identity = t.run.identity, u.workflow = t.workflow, u.profile = t.profile,
         u.manifest.prompts = t.manifest.prompts, u.manifest.slots = t.manifest.slots,
         u.manifest.parameters = t.manifest.parameters, u.manifest.warnings = t.manifest.warnings,
         DOMAIN u.manifest.jobs = DOMAIN t.manifest.jobs,
         \A n \in DOMAIN t.manifest.jobs :
           ProvenJob(u.manifest.jobs[n], how, random) = ProvenJob(t.manifest.jobs[n], how, random)
  PROVE  Record!Proven(Record!Read(u), how, random) = Record!Proven(Record!Read(t), how, random)
<1> DEFINE Facts(x) ==
      [run |-> x.run.identity, workflow |-> x.workflow, profile |-> x.profile,
       prompts |-> x.manifest.prompts, slots |-> x.manifest.slots, parameters |-> x.manifest.parameters,
       warnings |-> x.manifest.warnings,
       jobs |-> [n \in DOMAIN x.manifest.jobs |-> ProvenJob(x.manifest.jobs[n], how, random)]]
<1>1. ASSUME NEW x PROVE Record!Proven(Record!Read(x), how, random) = Facts(x)
  <2>1. /\ Record!Read(x).identity = x.run.identity /\ Record!Read(x).workflow = x.workflow
        /\ Record!Read(x).profile = x.profile /\ Record!Read(x).jobs = x.manifest.jobs
        /\ Record!Read(x).plan = Record!ReadPlan(x.manifest)
    BY DEF Record!Read
  <2>2. /\ Record!ReadPlan(x.manifest).prompts = x.manifest.prompts /\ Record!ReadPlan(x.manifest).slots = x.manifest.slots
        /\ Record!ReadPlan(x.manifest).parameters = x.manifest.parameters
        /\ Record!ReadPlan(x.manifest).warnings = x.manifest.warnings
    BY DEF Record!ReadPlan
  <2>3. QED
    BY <2>1, <2>2, ProvenIs
<1>2. [n \in DOMAIN u.manifest.jobs |-> ProvenJob(u.manifest.jobs[n], how, random)]
        = [n \in DOMAIN t.manifest.jobs |-> ProvenJob(t.manifest.jobs[n], how, random)]
  OBVIOUS
<1>3. Facts(u) = Facts(t)
  BY <1>2
<1>4. QED
  BY <1>1, <1>3

LEMMA EditedIsPublished ==
  ASSUME NEW u, NEW how, how \in {"load_run", "load_historical_run"}, NEW random \in BOOLEAN,
         Record!ReadsBack(Held, creation),
         Record!IsEdit(Held, u),
         Record!IsLoadable(u, how = "load_run", how = "load_run"), Record!StandsInPlace(u),
         random = (Held.manifest.snapshot.seeds.mode = "random")
  PROVE  Record!Proven(Record!Read(u), how, random) = Record!Proven(Record!Read(Held), how, random)
<1> DEFINE t == Held
<1>1. /\ DOMAIN t = {"files", "outputs", "run", "manifest", "workflow", "profile", "csv", "place",
                     "projectOwner", "batchOwner", "store"}
      /\ DOMAIN t.manifest = {"format", "identity", "snapshot", "prompts", "slots", "parameters", "warnings",
                              "workflow", "profile", "csv", "jobs"}
      /\ t.place.name = t.run.identity.key
  BY WrittenShape DEF Held
<1>2. Record!IsLoadable(t, TRUE, TRUE)
  BY DEF Record!ReadsBack
<1>3. \A n \in DOMAIN t.manifest.jobs : Record!IsJob(t.manifest.jobs[n])
  BY WrittenJobs
<1>4. t.manifest.identity = t.run.identity /\ u.manifest.identity = u.run.identity
  BY <1>2 DEF Record!IsLoadable, Record!IdentitiesAgree
<1> HIDE DEF t
<1>5. ASSUME NEW part \in DOMAIN t \ {"manifest"}, u = [t EXCEPT ![part] = u[part]]
      PROVE  Record!Proven(Record!Read(u), how, random) = Record!Proven(Record!Read(t), how, random)
  <2>1. /\ u.manifest = t.manifest
        /\ part # "run" => u.run = t.run
        /\ part # "workflow" => u.workflow = t.workflow
        /\ part # "profile" => u.profile = t.profile
    BY <1>1, <1>5
  <2>2. u.run.identity = t.run.identity
    BY <1>4, <2>1
  <2>3. /\ Record!Hash(u.workflow) = t.manifest.workflow.sha256 /\ Record!Hash(t.workflow) = t.manifest.workflow.sha256
        /\ Record!Hash(u.profile) = t.manifest.profile.sha256 /\ Record!Hash(t.profile) = t.manifest.profile.sha256
    BY <1>2, <2>1 DEF Record!IsLoadable, Record!HashesAgree
  <2>4. u.workflow = t.workflow /\ u.profile = t.profile
    BY <2>3 DEF Record!Hash
  <2>5. QED
    BY <2>1, <2>2, <2>4, SameFacts
<1>6. ASSUME u = [t EXCEPT !.manifest = u.manifest]
      PROVE  /\ u.run = t.run /\ u.workflow = t.workflow /\ u.profile = t.profile /\ u.store = t.store
  BY <1>1, <1>6
<1>7. ASSUME u = [t EXCEPT !.manifest = u.manifest], Record!ManifestIsEdited(t.manifest, u.manifest)
      PROVE  Record!Proven(Record!Read(u), how, random) = Record!Proven(Record!Read(t), how, random)
  <2>1. PICK part \in DOMAIN t.manifest :
          /\ u.manifest = [t.manifest EXCEPT ![part] = u.manifest[part]]
          /\ part = "jobs" => Record!JobsAreEdited(t.manifest.jobs, u.manifest.jobs)
    BY <1>7 DEF Record!ManifestIsEdited
  <2>2. /\ part # "snapshot" => u.manifest.snapshot = t.manifest.snapshot
        /\ part # "prompts" => u.manifest.prompts = t.manifest.prompts
        /\ part # "slots" => u.manifest.slots = t.manifest.slots
        /\ part # "parameters" => u.manifest.parameters = t.manifest.parameters
        /\ part # "warnings" => u.manifest.warnings = t.manifest.warnings
        /\ part # "jobs" => u.manifest.jobs = t.manifest.jobs
    BY <1>1, <2>1
  <2>3. /\ t.manifest.prompts = t.manifest.snapshot.prompts
        /\ t.manifest.slots = t.profile.images /\ t.manifest.parameters = t.profile.parameters
        /\ t.manifest.warnings = Record!Warnings(t.manifest.snapshot)
    BY <1>2, LoadedIsCompiled
  <2>4. /\ u.manifest.prompts = u.manifest.snapshot.prompts
        /\ u.manifest.slots = u.profile.images /\ u.manifest.parameters = u.profile.parameters
        /\ u.manifest.warnings = Record!Warnings(u.manifest.snapshot)
    BY LoadedIsCompiled
  <2>5. /\ u.run = t.run /\ u.workflow = t.workflow /\ u.profile = t.profile /\ u.store = t.store
    BY <1>6, <1>7
  <2>6. /\ u.manifest.prompts = t.manifest.prompts /\ u.manifest.slots = t.manifest.slots
        /\ u.manifest.parameters = t.manifest.parameters /\ u.manifest.warnings = t.manifest.warnings
    BY <2>2, <2>3, <2>4, <2>5
  <2>7. /\ DOMAIN u.manifest.jobs = DOMAIN t.manifest.jobs
        /\ \A n \in DOMAIN t.manifest.jobs :
             ProvenJob(u.manifest.jobs[n], how, random) = ProvenJob(t.manifest.jobs[n], how, random)
    <3>1. CASE part # "jobs"
      BY <2>2, <3>1
    <3>2. CASE part = "jobs"
      <4>1. Record!JobsAreEdited(t.manifest.jobs, u.manifest.jobs) /\ u.manifest.snapshot = t.manifest.snapshot
        BY <2>1, <2>2, <3>2
      <4>2. random = (t.manifest.snapshot.seeds.mode = "random")
        BY DEF t
      <4>3. OnlyJobsAreEdited(t, u, how, random)
        BY <1>2, <1>3, <2>5, <2>6, <4>1, <4>2 DEF OnlyJobsAreEdited
      <4>4. how \in {"load_run", "load_historical_run"} /\ random \in BOOLEAN
        OBVIOUS
      <4>5. HaveSameJobs(t, u, how, random)
        BY ONLY <4>3, how \in {"load_run", "load_historical_run"}, random \in BOOLEAN, EditedJobsAreSame, Zenon
      <4>6. QED
        BY <4>5 DEF HaveSameJobs
    <3>3. QED
      BY <3>1, <3>2
  <2>8. QED
    BY <2>5, <2>6, <2>7, SameFacts
<1>8. ASSUME u = [t EXCEPT !.manifest = u.manifest], u.manifest.identity # t.run.identity PROVE FALSE
  BY <1>4, <1>6, <1>8
<1>9. ASSUME u = [t EXCEPT !.run = u.run, !.manifest = u.manifest], u.run.identity.key # t.place.name PROVE FALSE
  <2>1. u.place = t.place
    BY <1>1, <1>9
  <2>2. QED
    BY <1>9, <2>1 DEF Record!StandsInPlace
<1>10. QED
  BY <1>5, <1>7, <1>8, <1>9 DEF Record!IsEdit, t

LEMMA AcceptedStaysPublished == RecordInvariant => Record!AcceptedIsPublished
<1> DEFINE random == original[1].snapshot.seeds.mode = "random"
<1> SUFFICES ASSUME RecordInvariant, answer.run # Record!NoRun
             PROVE  Record!Proven(answer.run[1], answer.how, random) = Record!Proven(original[1], answer.how, random)
  BY DEF Record!AcceptedIsPublished
<1>1. /\ recording = "published" /\ answer.how \in {"load_run", "load_historical_run"}
      /\ answer.run = Record!Load(tree, answer.how)
  BY DEF RecordInvariant, AnswerIsLoaded, Record!NotAsked
<1>2. /\ Record!IsCreatable(creation) /\ Record!ReadsBack(Held, creation)
      /\ original = <<Record!Read(Held)>> /\ creation \in Creations
      /\ IF edited THEN tree \in TreeEdits(Held) ELSE tree = Held
  BY <1>1 DEF RecordInvariant, PublishedIsRead
<1>3. /\ answer.run = <<Record!Read(tree)>>
      /\ Record!IsLoadable(tree, answer.how = "load_run", answer.how = "load_run") /\ Record!StandsInPlace(tree)
  BY <1>1, Loaded
<1>4. answer.run[1] = Record!Read(tree) /\ original[1] = Record!Read(Held)
  BY <1>2, <1>3
<1>5. CASE tree = Held
  BY <1>4, <1>5
<1>6. CASE tree \in TreeEdits(Held)
  <2>1. Record!IsEdit(Held, tree)
    BY <1>2, <1>6, PlanningAssumption DEF Record!RecordAssumption, Held
  <2>2. random = (Held.manifest.snapshot.seeds.mode = "random")
    BY <1>4 DEF Record!Read
  <2> HIDE DEF random
  <2>3. random \in BOOLEAN
    BY <2>2
  <2>4. Record!Proven(Record!Read(tree), answer.how, random) = Record!Proven(Record!Read(Held), answer.how, random)
    BY ONLY <1>1, <1>2, <1>3, <2>1, <2>2, <2>3, EditedIsPublished, Zenon
  <2>5. QED
    BY <1>4, <2>4
<1>7. QED
  BY <1>2, <1>5, <1>6

\* For all calls and all edits of one fact: the loads that still accept a
\* directory return the Run as it was published, and what only history needs
\* may be gone (files/runs.py).
THEOREM RunsStayProven == PlanningSpec => []RunsProveThemselves
<1>1. PlanningInit => Record!Init
  BY DEF PlanningInit
<1>2. [PlanningNext]_<<which, ranging, compiling, defining, submitting, reading>> => [Record!Next]_Record!vars
  BY DEF PlanningNext, RangeNext, CompilerNext, DefinitionNext, PreparationNext, RecordNext, reading, Record!vars
<1>3. Record!Init => RecordInvariant
  BY RecordStarts
<1>4. RecordInvariant /\ [Record!Next]_Record!vars => RecordInvariant'
  BY RecordGoesOn
<1>5. RecordInvariant => RunsProveThemselves
  BY AcceptedStaysPublished, CreatedIsLoaded, HistoryStaysFrozen DEF RunsProveThemselves
<1>6. QED
  BY <1>1, <1>2, <1>3, <1>4, <1>5, PTL DEF PlanningSpec
=============================================================================
