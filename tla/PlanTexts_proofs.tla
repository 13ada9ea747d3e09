-------------------------- MODULE PlanTexts_proofs --------------------------
(***************************************************************************)
(* Proofs about the bytes of a plan's texts: that the compiler, which      *)
(* computes them before it makes a Job, computes what the Jobs hold, and   *)
(* foresees whether one of them has a prompt too large for the adapter.    *)
(*                                                                         *)
(* A Job is as long as the literals of its prompt and what each choice     *)
(* adds (BytesOfJobAre): a variable's value as often as the prompt names   *)
(* it and once in the Job's variables, a parameter's value once, a linked  *)
(* row its values, one for each member.  Each of these goes to one place   *)
(* of the Job because the names of a dimension are told apart (Sound,      *)
(* ParametersDiffer).  Over all configurations of a prompt, every choice   *)
(* of a dimension is made equally often (TotalOfCharges): the total is the *)
(* number of configurations times the literals, and for each dimension the *)
(* sum of its choices times the number of configurations of the others,    *)
(* which is what the budget adds up prompt by prompt and parameter by      *)
(* parameter (CostIs).                                                     *)
(***************************************************************************)
EXTENDS Compiler_proofs
-----------------------------------------------------------------------------
(* What all configurations cost, when each choice costs something. *)
AreCharges(s, w) == \A i \in 1 .. Len(s) : w[i] \in [1 .. s[i] -> Int]
Charge(s, w, l, k) == l + Total([i \in 1 .. Len(s) |-> w[i][Digit(s, k, i)]])
AreCharged(u, s, w, l) == u \in [1 .. Product(s) -> Int] /\ \A x \in 1 .. Product(s) : u[x] = Charge(s, w, l, x - 1)
Shares(s, w) == [i \in 1 .. Len(s) |-> (Weight(s, i) * Products(s)[i - 1]) * Total(w[i])]

LEMMA ChargeOfChoice ==
  ASSUME NEW s, IsDimensions(s), NEW w, AreCharges(s, w), NEW i \in 1 .. Len(s), NEW f,
         f = [x \in 1 .. Product(s) |-> w[i][Digit(s, x - 1, i)]]
  PROVE  /\ f \in [1 .. Product(s) -> Int] /\ Total(f) = (Weight(s, i) * Products(s)[i - 1]) * Total(w[i])
         /\ Total(w[i]) \in Int /\ Weight(s, i) * Products(s)[i - 1] \in Nat
<1> DEFINE A == Products(s)[i - 1]
           t == Weight(s, i)
           b == s[i]
           W == Product(s)
<1>1. /\ s \in Seq(Nat \ {0}) /\ Len(s) \in Nat /\ b \in Nat \ {0}
  BY DEF IsDimensions
<1>2. i \in 0 .. Len(s) /\ i - 1 \in 0 .. Len(s)
  BY <1>1
<1>3. Products(s)[i] = A * b /\ A \in Nat \ {0} /\ W \in Nat \ {0}
  BY <1>1, <1>2, ProductsOf
<1>4. Products(s)[i] * t = W /\ t \in Nat \ {0}
  BY <1>2, WeightCompletes, WeightIs
<1>5. (A * b) * t = W
  BY <1>3, <1>4
<1>6. w[i] \in [1 .. b -> Int]
  BY DEF AreCharges
<1>7. \A x \in 1 .. W : Digit(s, x - 1, i) \in 1 .. b
  <2>1. \A x \in 1 .. W : x - 1 \in Nat
    BY <1>3
  <2> HIDE DEF W, b
  <2>2. \A k \in Nat : Digit(s, k, i) \in 1 .. b
    BY DigitIsChoice DEF b
  <2>3. QED
    BY <2>1, <2>2
<1> HIDE DEF W, b, A, t
<1>8. f \in [1 .. W -> Int]
  BY <1>6, <1>7 DEF W
<1>9. \A k \in 1 .. W : f[k] = w[i][1 + (((k - 1) \div t) % b)]
  BY DEF W, t, b, Digit
<1>10. IsCycled(f, A, b, t, w[i])
  BY <1>5, <1>6, <1>8, <1>9 DEF IsCycled
<1>11. A \in Nat /\ b \in Nat \ {0}
  BY <1>1, <1>3 DEF b
<1>12. Total(f) = (t * A) * Total(w[i])
  BY ONLY <1>4, <1>10, <1>11, TotalOfCycle
<1>13. Total(w[i]) \in Int
  BY <1>6, <1>11, TotalIsInteger
<1>14. t * A \in Nat
  <2>1. \A m, n \in Nat : m * n \in Nat
    OBVIOUS
  <2>2. QED
    BY <1>4, <1>11, <2>1
<1>15. QED
  BY <1>8, <1>12, <1>13, <1>14 DEF W, A, t

LEMMA TotalOfCharges ==
  ASSUME NEW s, IsDimensions(s), NEW w, AreCharges(s, w), NEW l \in Int, NEW u, AreCharged(u, s, w, l)
  PROVE  Total(u) = Product(s) * l + Total(Shares(s, w)) /\ Shares(s, w) \in [1 .. Len(s) -> Int]
<1> DEFINE W == Product(s)
           N == Len(s)
           M == [x \in 1 .. W |-> [i \in 1 .. N |-> w[i][Digit(s, x - 1, i)]]]
           columns == [i \in 1 .. N |-> [x \in 1 .. W |-> w[i][Digit(s, x - 1, i)]]]
           g == [x \in 1 .. W |-> Total(M[x])]
           h == Shares(s, w)
           flat == [x \in 1 .. W |-> l]
<1>1. N \in Nat /\ W \in Nat /\ s \in Seq(Nat \ {0})
  <2>1. s \in Seq(Nat \ {0})
    BY DEF IsDimensions
  <2>2. QED
    BY <2>1, ProductsOf
<1>2. ASSUME NEW i \in 1 .. N
      PROVE  /\ columns[i] \in [1 .. W -> Int] /\ Total(columns[i]) = h[i] /\ h[i] \in Int
  <2> DEFINE f == [x \in 1 .. W |-> w[i][Digit(s, x - 1, i)]]
             a == Weight(s, i) * Products(s)[i - 1]
  <2>1. columns[i] = f
    OBVIOUS
  <2>2. f \in [1 .. W -> Int] /\ Total(f) = a * Total(w[i]) /\ Total(w[i]) \in Int /\ a \in Nat
    BY ChargeOfChoice
  <2>3. h[i] = a * Total(w[i])
    BY DEF Shares
  <2> HIDE DEF f, a
  <2>4. a * Total(w[i]) \in Int
    BY <2>2
  <2> HIDE DEF columns, h, W, N
  <2>5. QED
    BY <2>1, <2>2, <2>3, <2>4
<1>3. ASSUME NEW x \in 1 .. W PROVE M[x] \in [1 .. N -> Int] /\ \A i \in 1 .. N : columns[i][x] = M[x][i]
  <2>1. \A i \in 1 .. N : columns[i][x] = M[x][i]
    OBVIOUS
  <2>2. \A i \in 1 .. N : columns[i][x] \in Int
    <3> HIDE DEF columns
    <3>1. QED
      BY <1>2
  <2>3. M[x] = [i \in 1 .. N |-> columns[i][x]]
    OBVIOUS
  <2> HIDE DEF M, columns
  <2>4. QED
    BY <2>1, <2>2, <2>3
<1>4. h \in [1 .. N -> Int]
  <2>1. h = [i \in 1 .. N |-> h[i]]
    BY DEF Shares
  <2> HIDE DEF h
  <2>2. QED
    BY <1>2, <2>1
<1>5. g \in [1 .. W -> Int] /\ \A x \in 1 .. W : g[x] = Total(M[x])
  <2> HIDE DEF M, W, N
  <2>1. \A x \in 1 .. W : Total(M[x]) \in Int
    BY <1>1, <1>3, TotalIsInteger
  <2>2. QED
    BY <2>1
<1>6. \A x \in 1 .. W : u[x] = l + g[x]
  BY DEF AreCharged, Charge
<1>7. u \in [1 .. W -> Int] /\ flat \in [1 .. W -> Int] /\ \A x \in 1 .. W : flat[x] = l
  BY DEF AreCharged
<1> HIDE DEF W, N, M, columns, g, h, flat
<1>8. Total(g) = Total(h)
  <2>1. \A i \in 1 .. N : columns[i] \in [1 .. W -> Int]
    BY <1>2
  <2>2. \A x \in 1 .. W : M[x] \in [1 .. N -> Int]
    BY <1>3
  <2>3. \A x \in 1 .. W : \A i \in 1 .. N : columns[i][x] = M[x][i]
    BY <1>3
  <2>4. \A i \in 1 .. N : h[i] = Total(columns[i])
    BY <1>2
  <2>5. IsTable(M, columns, W, N)
    BY <2>1, <2>2, <2>3 DEF IsTable
  <2>6. AreTotals(g, W, M) /\ AreTotals(h, N, columns)
    BY <1>4, <1>5, <2>4 DEF AreTotals
  <2>7. QED
    BY ONLY <1>1, <2>5, <2>6, TotalOfRows
<1>9. Total(u) = Total(flat) + Total(g)
  <2>1. \A x \in 1 .. W : u[x] = flat[x] + g[x]
    BY <1>6, <1>7
  <2>2. QED
    BY ONLY <1>1, <1>5, <1>7, <2>1, TotalOfBoth
<1>10. Total(flat) = W * l
  BY ONLY <1>1, <1>7, l \in Int, TotalOfEqual
<1>11. QED
  BY <1>4, <1>8, <1>9, <1>10 DEF W, N, h

-----------------------------------------------------------------------------
(* A sum is that of its classes. *)
InClass(f, R, j, m) == [i \in 1 .. m |-> IF R[i] = j THEN f[i] ELSE 0]
AreClasses(f, R, m, n) ==
    /\ f \in [1 .. m -> Int] /\ R \in [1 .. m -> 0 .. n]
    /\ \A i \in 1 .. m : R[i] = 0 => f[i] = 0
AreClassTotals(h, f, R, m, n) == \A j \in 1 .. n : h[j] = Total(InClass(f, R, j, m))

LEMMA TotalOfClasses ==
  ASSUME NEW m \in Nat, NEW n \in Nat, NEW f, NEW R, AreClasses(f, R, m, n),
         NEW h, h = [j \in 1 .. n |-> h[j]], AreClassTotals(h, f, R, m, n)
  PROVE  Total(f) = Total(h) /\ h \in [1 .. n -> Int]
<1> DEFINE M == [i \in 1 .. m |-> [j \in 1 .. n |-> IF R[i] = j THEN f[i] ELSE 0]]
           columns == [j \in 1 .. n |-> InClass(f, R, j, m)]
<1>1. \A i \in 1 .. m : f[i] \in Int /\ R[i] \in 0 .. n
  BY DEF AreClasses
<1>2. \A j \in 1 .. n : columns[j] \in [1 .. m -> Int]
  BY <1>1 DEF InClass
<1>3. IsTable(M, columns, m, n)
  <2>1. \A i \in 1 .. m : M[i] \in [1 .. n -> Int]
    BY <1>1
  <2>2. \A i \in 1 .. m : \A j \in 1 .. n : columns[j][i] = M[i][j]
    BY DEF InClass
  <2>3. QED
    BY <1>2, <2>1, <2>2 DEF IsTable
<1>4. ASSUME NEW i \in 1 .. m PROVE f[i] = Total(M[i])
  <2> DEFINE v == f[i]
             c == M[i]
             j == R[i]
  <2>1. c \in [1 .. n -> Int] /\ v \in Int /\ \A x \in 1 .. n : c[x] = IF x = j THEN v ELSE 0
    BY <1>1
  <2>2. j \in 1 .. n \/ (j = 0 /\ v = 0)
    BY <1>1 DEF AreClasses
  <2> HIDE DEF v, c, j
  <2>3. CASE j \in 1 .. n
    <3>1. Total(c) = v
      BY ONLY n \in Nat, <2>1, <2>3, TotalOfOne
    <3>2. QED
      BY <3>1 DEF v, c
  <2>4. CASE j = 0 /\ v = 0
    <3>1. \A x \in 1 .. n : c[x] = v
      BY <2>1, <2>4
    <3>2. Total(c) = n * v
      BY ONLY n \in Nat, <2>1, <3>1, TotalOfEqual
    <3>3. n * v = 0
      BY <2>4
    <3>4. QED
      BY <2>4, <3>2, <3>3 DEF v, c
  <2>5. QED
    BY <2>2, <2>3, <2>4
<1>5. \A j \in 1 .. n : h[j] = Total(columns[j])
  BY DEF AreClassTotals
<1> HIDE DEF M, columns
<1>6. \A j \in 1 .. n : h[j] \in Int
  BY <1>2, <1>5, TotalIsInteger
<1>7. h \in [1 .. n -> Int]
  BY <1>6
<1>8. AreTotals(f, m, M) /\ AreTotals(h, n, columns)
  BY <1>4, <1>5, <1>7 DEF AreTotals, AreClasses
<1>9. Total(f) = Total(h)
  BY ONLY m \in Nat, n \in Nat, <1>3, <1>8, TotalOfRows
<1>10. QED
  BY <1>7, <1>9

\* The same term at some places.
IsSelected(h, m, S, v) ==
    /\ S \in SUBSET (1 .. m) /\ v \in Int /\ h \in [1 .. m -> Int]
    /\ \A i \in 1 .. m : h[i] = IF i \in S THEN v ELSE 0

LEMMA TotalOfSelected ==
  ASSUME NEW m \in Nat, NEW S, NEW v, NEW h, IsSelected(h, m, S, v)
  PROVE  Total(h) = Cardinality(S) * v /\ Cardinality(S) \in Nat
<1>0. S \in SUBSET (1 .. m) /\ v \in Int /\ h \in [1 .. m -> Int] /\ \A i \in 1 .. m : h[i] = IF i \in S THEN v ELSE 0
  BY DEF IsSelected
<1> DEFINE f == [i \in 1 .. m |-> IF i \in S THEN 1 ELSE 0]
<1>1. f \in [1 .. m -> Int] /\ \A i \in 1 .. m : f[i] = IF i \in S THEN 1 ELSE 0
  OBVIOUS
<1> HIDE DEF f
<1>2. Total(f) = Cardinality(S) /\ Cardinality(S) \in Nat
  BY <1>0, <1>1, CountIsTotal
<1>3. \A i \in 1 .. m : h[i] = v * f[i]
  <2> SUFFICES ASSUME NEW i \in 1 .. m PROVE h[i] = v * f[i]
    OBVIOUS
  <2>1. CASE i \in S
    <3>1. f[i] = 1 /\ h[i] = v
      BY <1>0, <1>1, <2>1
    <3>2. QED
      BY <1>0, <3>1
  <2>2. CASE i \notin S
    <3>1. f[i] = 0 /\ h[i] = 0
      BY <1>0, <1>1, <2>2
    <3>2. QED
      BY <1>0, <3>1
  <2>3. QED
    BY <2>1, <2>2
<1>4. Total(h) = v * Total(f)
  BY <1>0, <1>1, <1>3, TotalOfMultiples
<1>5. QED
  BY <1>0, <1>2, <1>4

\* One of several numbers is the largest.
LEMMA LargestExists ==
  ASSUME NEW n \in Nat \ {0}, NEW v \in [1 .. n -> Int]
  PROVE  \E j \in 1 .. n : \A i \in 1 .. n : v[i] <= v[j]
<1> DEFINE T == {k \in 0 .. n : k = 0 \/ \E j \in 1 .. k : \A i \in 1 .. k : v[i] <= v[j]}
<1>1. 0 \in T
  OBVIOUS
<1>2. ASSUME NEW k \in 0 .. n, k \in T, k < n PROVE k + 1 \in T
  <2>1. k + 1 \in 1 .. n /\ v[k + 1] \in Int /\ \A i \in 1 .. (k + 1) : i \in 1 .. k \/ i = k + 1
    BY <1>2
  <2>2. CASE k = 0
    <3>1. k + 1 \in 1 .. (k + 1) /\ \A i \in 1 .. (k + 1) : v[i] <= v[k + 1]
      BY <2>1, <2>2
    <3>2. QED
      BY <2>1, <3>1
  <2>3. CASE k # 0
    <3>1. PICK j \in 1 .. k : \A i \in 1 .. k : v[i] <= v[j]
      BY <1>2, <2>3
    <3>2. j \in 1 .. n /\ j \in 1 .. (k + 1) /\ v[j] \in Int /\ k + 1 \in 1 .. (k + 1)
      BY <2>1
    <3>3. \A i \in 1 .. (k + 1) : v[i] \in Int
      BY <2>1
    <3>4. CASE v[k + 1] <= v[j]
      <4>1. \A i \in 1 .. (k + 1) : v[i] <= v[j]
        BY <2>1, <3>1, <3>4
      <4>2. QED
        BY <2>1, <3>2, <4>1
    <3>5. CASE v[j] <= v[k + 1]
      <4>1. \A i \in 1 .. (k + 1) : v[i] <= v[k + 1]
        <5> SUFFICES ASSUME NEW i \in 1 .. (k + 1) PROVE v[i] <= v[k + 1]
          OBVIOUS
        <5>1. CASE i \in 1 .. k
          <6>1. v[i] <= v[j] /\ v[i] \in Int
            BY <3>1, <3>3, <5>1
          <6>2. QED
            BY <2>1, <3>2, <3>5, <6>1
        <5>2. CASE i = k + 1
          BY <2>1, <5>2
        <5>3. QED
          BY <2>1, <5>1, <5>2
      <4>2. QED
        BY <2>1, <3>2, <4>1
    <3>6. QED
      BY <2>1, <3>2, <3>4, <3>5
  <2>4. QED
    BY <2>2, <2>3
<1> HIDE DEF T
<1>3. n \in Nat
  OBVIOUS
<1>4. 0 .. n \subseteq T
  BY <1>1, <1>2, <1>3, UpToBound
<1>5. n \in T /\ n # 0
  BY <1>3, <1>4
<1>6. QED
  BY <1>5 DEF T

-----------------------------------------------------------------------------
\* The same multiple of every term.
AreMultiples(h, f, n, c) ==
    /\ f \in [1 .. n -> Int] /\ h \in [1 .. n -> Int] /\ c \in Int
    /\ \A i \in 1 .. n : h[i] = c * f[i]

LEMMA MultipleOfTotal ==
  ASSUME NEW n \in Nat, NEW h, NEW f, NEW c, AreMultiples(h, f, n, c)
  PROVE  Total(h) = c * Total(f)
  BY TotalOfMultiples DEF AreMultiples

(* A list of parts, each of w[n] times c elements. *)
PartPlace(w, c, n, k, j) == (Sums(w)[n - 1] + k) * c + j

LEMMA SumsOfList ==
  ASSUME NEW w \in Seq(Nat)
  PROVE  /\ Len(w) \in Nat /\ Sums(w)[0] = 0 /\ Sums(w)[Len(w)] = Total(w)
         /\ \A n \in 1 .. Len(w) : w[n] \in Nat /\ Sums(w)[n] = Sums(w)[n - 1] + w[n]
         /\ \A n \in 0 .. Len(w) : Sums(w)[n] \in Nat /\ Sums(w)[n] <= Total(w)
<1>1. Len(w) \in Nat /\ \A n \in 1 .. Len(w) : w[n] \in Nat
  OBVIOUS
<1>2. IsSum(Sums(w), w) /\ Total(w) = Sums(w)[Len(w)]
  BY <1>1, SumsAre
<1>3. \A n \in 0 .. Len(w) : Sums(w)[n] \in Nat /\ Sums(w)[n] <= Total(w)
  BY SumsAreNaturals, CompilerSums
<1>4. QED
  BY <1>1, <1>2, <1>3 DEF IsSum

LEMMA EveryPlaceIsInPart ==
  ASSUME NEW w \in Seq(Nat), NEW c \in Nat \ {0}, NEW x \in 1 .. Total(w) * c
  PROVE  \E n \in 1 .. Len(w) : \E k \in 0 .. (w[n] - 1) : \E j \in 1 .. c : x = PartPlace(w, c, n, k, j)
<1> DEFINE N == Len(w)
           Found == \E n \in 1 .. N : \E k \in 0 .. (w[n] - 1) : \E j \in 1 .. c : x = PartPlace(w, c, n, k, j)
           T == {n \in 0 .. N : x <= Sums(w)[n] * c => Found}
<1>1. /\ N \in Nat /\ Sums(w)[0] = 0 /\ Sums(w)[N] = Total(w)
      /\ \A n \in 1 .. N : w[n] \in Nat /\ Sums(w)[n] = Sums(w)[n - 1] + w[n]
      /\ \A n \in 0 .. N : Sums(w)[n] \in Nat
  BY SumsOfList
<1>2. c \in Nat /\ Total(w) \in Nat
  BY <1>1
<1>3. Total(w) * c \in Nat
  BY <1>2
<1>4. x \in Nat /\ x >= 1 /\ x <= Total(w) * c
  BY <1>3
<1>5. 0 \in T
  <2>1. Sums(w)[0] * c = 0
    BY <1>1, <1>2
  <2>2. QED
    BY <1>1, <1>4, <2>1
<1>6. ASSUME NEW m \in 0 .. N, m \in T, m < N PROVE m + 1 \in T
  <2> DEFINE B == Sums(w)[m]
             v == w[m + 1]
             n == m + 1
  <2>1. /\ n \in 1 .. N /\ n \in 0 .. N /\ n - 1 = m
    BY <1>1, <1>6
  <2>2. B \in Nat /\ v \in Nat /\ Sums(w)[n] = B + v
    BY <1>1, <2>1
  <2> SUFFICES ASSUME x <= Sums(w)[n] * c PROVE Found
    BY <2>1
  <2>3. CASE x <= B * c
    BY <1>6, <2>3
  <2>4. CASE ~(x <= B * c)
    <3> DEFINE y == x - B * c - 1
               k == y \div c
               j == (y % c) + 1
    <3> HIDE DEF B, v, n, Found
    <3>1. B * c \in Nat /\ v * c \in Nat /\ (B + v) * c = B * c + v * c
      BY <1>2, <2>2
    <3>2. x <= (B + v) * c
      BY <2>2
    <3>3. y \in Nat /\ y < v * c /\ x = B * c + y + 1
      BY <1>4, <2>4, <3>1, <3>2
    <3> HIDE DEF y
    <3>4. y \div c \in Nat /\ y % c \in 0 .. (c - 1) /\ y % c \in Nat /\ y = (y \div c) * c + (y % c)
      BY <3>3, QuotientAndRest
    <3> DEFINE z == y % c
    <3>41. k \in Nat /\ z \in 0 .. (c - 1) /\ z \in Nat /\ y = k * c + z /\ j = z + 1
      BY <3>4
    <3> HIDE DEF k, j, z
    <3>42. k * c \in Nat
      BY <1>2, <3>41
    <3>5. k \in Nat /\ j \in 1 .. c /\ j \in Nat /\ y + 1 = k * c + j
      BY <1>2, <3>41, <3>42
    <3>6. k < v
      <4> SUFFICES ASSUME v <= k PROVE FALSE
        BY <2>2, <3>5
      <4>1. v * c <= k * c
        BY <1>2, <2>2, <3>5, StepsAreMonotone
      <4>2. k * c \in Nat
        BY <1>2, <3>5
      <4>3. QED
        BY <3>1, <3>3, <3>5, <4>1, <4>2
    <3>7. k \in 0 .. (v - 1)
      BY <2>2, <3>5, <3>6
    <3>8. x = (B + k) * c + j
      <4>1. (B + k) * c = B * c + k * c /\ k * c \in Nat
        BY <1>2, <2>2, <3>5
      <4> DEFINE b == B * c
                 d == k * c
                 e == (B + k) * c
      <4>2. e = b + d /\ b \in Nat /\ d \in Nat /\ y \in Nat /\ j \in Nat /\ x = b + y + 1 /\ y + 1 = d + j
        BY <3>1, <3>3, <3>5, <4>1
      <4> HIDE DEF b, d, e
      <4>3. x = e + j
        BY ONLY <4>2
      <4>4. QED
        BY ONLY <4>3 DEF e
    <3>9. x = PartPlace(w, c, n, k, j) /\ k \in 0 .. (w[n] - 1)
      BY <2>1, <3>7, <3>8 DEF PartPlace, B, v, n
    <3>10. QED
      BY <2>1, <3>5, <3>9 DEF Found
  <2>5. QED
    BY <2>3, <2>4
<1> HIDE DEF T, Found
<1>7. 0 .. N \subseteq T
  BY <1>1, <1>5, <1>6, UpToBound
<1>8. N \in T /\ x <= Sums(w)[N] * c
  BY <1>1, <1>4, <1>7
<1>9. Found
  BY <1>8 DEF T
<1>10. QED
  BY <1>9 DEF Found

\* The sum of a list that repeats c times each of the numbers that its parts list.
ArePartSums(f, w, c, g) ==
    /\ f \in [1 .. Total(w) * c -> Int] /\ g \in [1 .. Len(w) -> Int]
    /\ \A n \in 1 .. Len(w) : \E u \in [1 .. w[n] -> Int] :
         /\ Total(u) = g[n]
         /\ \A k \in 0 .. (w[n] - 1) : \A j \in 1 .. c : f[PartPlace(w, c, n, k, j)] = u[k + 1]

LEMMA TotalOfParts ==
  ASSUME NEW w \in Seq(Nat), NEW c \in Nat \ {0}, NEW f, NEW g, ArePartSums(f, w, c, g)
  PROVE  Total(f) = c * Total(g)
<1> DEFINE N == Len(w)
           M == Total(w) * c
           p == [n \in 0 .. N |-> Sums(f)[Sums(w)[n] * c]]
           e == [n \in 1 .. N |-> c * g[n]]
<1>1. /\ N \in Nat /\ Sums(w)[0] = 0 /\ Sums(w)[N] = Total(w)
      /\ \A n \in 1 .. N : w[n] \in Nat /\ Sums(w)[n] = Sums(w)[n - 1] + w[n]
      /\ \A n \in 0 .. N : Sums(w)[n] \in Nat /\ Sums(w)[n] <= Total(w)
  BY SumsOfList
<1>2. c \in Nat /\ c \in Int /\ Total(w) \in Nat
  BY <1>1
<1>3. M \in Nat
  BY <1>2
<1>4. f \in [1 .. M -> Int] /\ g \in [1 .. N -> Int]
  BY DEF ArePartSums
<1>5. Sums(f)[0] = 0 /\ Total(f) = Sums(f)[M]
  BY <1>3, <1>4, SumsOf
<1>6. e \in [1 .. N -> Int] /\ \A n \in 1 .. N : e[n] = c * g[n]
  BY <1>2, <1>4
<1>7. Total(e) = c * Total(g)
  <2>1. N \in Nat /\ c \in Int /\ g \in [1 .. N -> Int]
    BY <1>1, <1>2, <1>4
  <2>2. AreMultiples(e, g, N, c)
    BY <1>6, <2>1 DEF AreMultiples
  <2> HIDE DEF e, N
  <2>3. QED
    BY ONLY <2>1, <2>2, MultipleOfTotal
<1> HIDE DEF e
<1>8. ASSUME NEW n \in 1 .. N PROVE p[n] = p[n - 1] + e[n]
  <2> DEFINE a == Sums(w)[n - 1] * c
             b == w[n] * c
             h == [i \in 1 .. b |-> f[a + i]]
  <2>1. n - 1 \in 0 .. N /\ n \in 0 .. N
    BY <1>1
  <2>2. w[n] \in Nat /\ Sums(w)[n - 1] \in Nat /\ Sums(w)[n] = Sums(w)[n - 1] + w[n] /\ Sums(w)[n] \in Nat /\ Sums(w)[n] <= Total(w)
    BY <1>1, <2>1
  <2>3. a \in Nat /\ b \in Nat /\ Sums(w)[n] * c = a + b
    <3> DEFINE A == Sums(w)[n - 1]
               v == w[n]
    <3>1. A \in Nat /\ v \in Nat /\ Sums(w)[n] = A + v
      BY <2>2
    <3> HIDE DEF A, v
    <3>2. A * c \in Nat /\ v * c \in Nat /\ (A + v) * c = A * c + v * c
      BY ONLY <1>2, <3>1
    <3>3. QED
      BY <3>1, <3>2 DEF A, v
  <2>4. Sums(w)[n] * c <= M
    BY <1>2, <2>2, StepsAreMonotone
  <2>5. PICK u \in [1 .. w[n] -> Int] :
          /\ Total(u) = g[n]
          /\ \A k \in 0 .. (w[n] - 1) : \A j \in 1 .. c : f[PartPlace(w, c, n, k, j)] = u[k + 1]
    BY DEF ArePartSums
  <2>6. p[n] = Sums(f)[a + b] /\ p[n - 1] = Sums(f)[a]
    BY <2>1, <2>3
  <2> HIDE DEF a, b, M, N, p
  <2>7. \A i \in 1 .. b : a + i \in 1 .. M
    BY <1>3, <2>3, <2>4
  <2>8. h \in [1 .. b -> Int] /\ \A i \in 1 .. b : h[i] = f[a + i]
    BY <1>4, <2>7
  <2> HIDE DEF h
  <2>9. IsSlice(h, f, M, a, b)
    BY <1>4, <2>3, <2>4, <2>8 DEF IsSlice
  <2>10. Sums(f)[a + b] = Sums(f)[a] + Total(h)
    BY <1>3, <2>3, <2>9, TotalOfPart
  <2>11. ASSUME NEW q \in 1 .. w[n], NEW x \in 1 .. c PROVE h[Place(q, c, x)] = u[q]
    <3> DEFINE k == q - 1
               i == Place(q, c, x)
    <3>1. k \in 0 .. (w[n] - 1) /\ k \in Nat /\ k + 1 = q
      BY <2>2
    <3>2. i \in 1 .. b
      BY <1>2, <2>2, PlaceInBlock DEF b
    <3>3. i = k * c + x
      BY DEF Place
    <3> HIDE DEF k, i
    <3>4. PartPlace(w, c, n, k, x) = a + i
      <4> DEFINE B == Sums(w)[n - 1]
      <4>1. B \in Nat
        BY <2>2
      <4>2. PartPlace(w, c, n, k, x) = (B + k) * c + x /\ a = B * c
        BY DEF PartPlace, a
      <4> HIDE DEF B
      <4>3. (B + k) * c = B * c + k * c /\ B * c \in Nat /\ k * c \in Nat
        BY <1>2, <3>1, <4>1
      <4>4. QED
        BY <3>3, <4>2, <4>3
    <3>5. f[PartPlace(w, c, n, k, x)] = u[k + 1]
      BY <2>5, <3>1
    <3>6. QED
      BY <2>8, <3>1, <3>2, <3>4, <3>5 DEF i
  <2>12. IsStretched(h, w[n], c, u)
    BY <2>8, <2>11 DEF IsStretched, b
  <2>13. Total(h) = c * Total(u)
    BY <1>2, <2>2, <2>12, TotalOfStretched
  <2>14. e[n] = c * g[n]
    BY <1>6
  <2>15. QED
    BY <2>5, <2>6, <2>10, <2>13, <2>14
<1>9. p[0] = 0
  <2>1. Sums(w)[0] * c = 0 /\ 0 \in 0 .. N
    BY <1>1, <1>2
  <2>2. QED
    BY <1>5, <2>1
<1>10. p[N] = Total(f)
  <2>1. N \in 0 .. N /\ Sums(w)[N] * c = M
    BY <1>1
  <2>2. QED
    BY <1>5, <2>1
<1> HIDE DEF p, N
<1>11. Total(e) = p[N]
  BY ONLY <1>1, <1>6, <1>8, <1>9, TotalIsLast
<1>12. QED
  BY <1>7, <1>10, <1>11

-----------------------------------------------------------------------------
(* The names of a text, and the dimensions of a request, are listed once.  *)
LEMMA PickedOnce ==
  ASSUME NEW s, Compiler!IsList(s), NEW S \in SUBSET (DOMAIN s), \A i, j \in S : s[i] = s[j] => i = j,
         NEW e, e = Compiler!ElementsAt(s, S)
  PROVE  /\ \A m, n \in DOMAIN e : e[m] = e[n] => m = n
         /\ \A i \in S : \E n \in DOMAIN e : e[n] = s[i]
<1>1. DOMAIN s = 1 .. Len(s) /\ Len(s) \in Nat
  BY CompilerLists
<1>2. IsFiniteSet(1 .. Len(s))
  <2>1. 1 \in Int /\ Len(s) \in Int
    BY <1>1
  <2>2. QED
    BY <2>1, FS_Interval
<1>3. IsFiniteSet(S) /\ S \in SUBSET Int
  <2>1. S \in SUBSET (1 .. Len(s)) /\ S \in SUBSET Int
    BY <1>1
  <2>2. QED
    BY <1>2, <2>1, FS_Subset
<1>4. e = [n \in 1 .. Cardinality(S) |-> s[Compiler!Nth(S, n)]]
  BY CompilerNames DEF Compiler!ElementsAt
<1>5. \A n \in 1 .. Cardinality(S) : Compiler!Nth(S, n) \in S /\ Cardinality({j \in S : j <= Compiler!Nth(S, n)}) = n
  BY <1>3, EveryRankIsTaken
<1>6. \A m, n \in 1 .. Cardinality(S) : Compiler!Nth(S, m) = Compiler!Nth(S, n) => m = n
  <2> SUFFICES ASSUME NEW m \in 1 .. Cardinality(S), NEW n \in 1 .. Cardinality(S), Compiler!Nth(S, m) = Compiler!Nth(S, n)
               PROVE  m = n
    OBVIOUS
  <2>1. Cardinality({j \in S : j <= Compiler!Nth(S, m)}) = m /\ Cardinality({j \in S : j <= Compiler!Nth(S, n)}) = n
    BY <1>5
  <2>2. QED
    BY <2>1
<1>7. \A i \in S : \E n \in 1 .. Cardinality(S) : Compiler!Nth(S, n) = i
  BY <1>3, PlacesHaveRanks
<1> DEFINE at(n) == Compiler!Nth(S, n)
           K == 1 .. Cardinality(S)
<1>8. /\ DOMAIN e = K /\ \A n \in K : e[n] = s[at(n)] /\ at(n) \in S
      /\ \A m, n \in K : at(m) = at(n) => m = n
      /\ \A i \in S : \E n \in K : at(n) = i
  BY <1>4, <1>5, <1>6, <1>7
<1> HIDE DEF at, K
<1>9. \A m, n \in K : e[m] = e[n] => m = n
  <2> SUFFICES ASSUME NEW m \in K, NEW n \in K, e[m] = e[n] PROVE m = n
    OBVIOUS
  <2>1. at(m) \in S /\ at(n) \in S /\ s[at(m)] = s[at(n)]
    BY <1>8
  <2>2. at(m) = at(n)
    BY <2>1
  <2>3. QED
    BY <1>8, <2>2
<1>10. QED
  BY <1>8, <1>9

AreNamesOf(names, s) ==
    /\ \A n \in DOMAIN names : names[n] # Compiler!Literal
    /\ \A m, n \in DOMAIN names : names[m] = names[n] => m = n
    /\ \A i \in DOMAIN s : s[i] # Compiler!Literal => \E n \in DOMAIN names : names[n] = s[i]

LEMMA NamesAreListedOnce ==
  ASSUME NEW s, Compiler!IsList(s)
  PROVE  /\ AreNamesOf(Compiler!Names(s), s)
         /\ \A m, n \in DOMAIN Compiler!FirstOccurrences(s) :
              Compiler!FirstOccurrences(s)[m] = Compiler!FirstOccurrences(s)[n] => m = n
<1> DEFINE F == Compiler!FirstPlaces(s)
           G == {i \in Compiler!FirstPlaces(s) : s[i] # Compiler!Literal}
<1>1. DOMAIN s = 1 .. Len(s) /\ Len(s) \in Nat
  BY CompilerLists
<1>2. F \in SUBSET (DOMAIN s) /\ G \in SUBSET (DOMAIN s)
  BY DEF Compiler!FirstPlaces
<1>3. \A i, j \in F : s[i] = s[j] => i = j
  <2> SUFFICES ASSUME NEW i \in F, NEW j \in F, s[i] = s[j], i # j PROVE FALSE
    OBVIOUS
  <2>1. /\ i \in 1 .. Len(s) /\ j \in 1 .. Len(s)
        /\ \A k \in 1 .. (i - 1) : s[k] # s[i]
        /\ \A k \in 1 .. (j - 1) : s[k] # s[j]
    BY <1>1 DEF Compiler!FirstPlaces
  <2>2. i \in 1 .. (j - 1) \/ j \in 1 .. (i - 1)
    BY <1>1, <2>1
  <2>3. QED
    BY <2>1, <2>2
<1>4. \A i, j \in G : s[i] = s[j] => i = j
  BY <1>3
<1>5. Compiler!Names(s) = Compiler!ElementsAt(s, G) /\ Compiler!FirstOccurrences(s) = Compiler!ElementsAt(s, F)
  BY DEF Compiler!Names, Compiler!FirstOccurrences
<1>6. \A i \in DOMAIN s : s[i] # Compiler!Literal => \E j \in G : s[j] = s[i]
  BY EveryValueOccursFirst
<1>7. \A j \in G : s[j] # Compiler!Literal
  OBVIOUS
<1> HIDE DEF F, G
<1> DEFINE e == Compiler!ElementsAt(s, G)
           f == Compiler!ElementsAt(s, F)
<1>8. /\ \A m, n \in DOMAIN e : e[m] = e[n] => m = n
      /\ \A i \in G : \E n \in DOMAIN e : e[n] = s[i]
  BY <1>2, <1>4, PickedOnce
<1>9. \A m, n \in DOMAIN f : f[m] = f[n] => m = n
  BY <1>2, <1>3, PickedOnce
<1>10. \A n \in DOMAIN e : \E i \in G : e[n] = s[i]
  BY <1>2, PickedElements
<1> HIDE DEF e, f
<1>11. AreNamesOf(e, s)
  <2>1. \A n \in DOMAIN e : e[n] # Compiler!Literal
    BY <1>7, <1>10
  <2>2. \A i \in DOMAIN s : s[i] # Compiler!Literal => \E n \in DOMAIN e : e[n] = s[i]
    BY <1>6, <1>8
  <2>3. QED
    BY <1>8, <2>1, <2>2 DEF AreNamesOf
<1>12. QED
  BY <1>5, <1>9, <1>11 DEF e, f

LEMMA DimensionsAreListedOnce ==
  ASSUME NEW r, Compiler!IsRequest(r)
  PROVE  /\ \A m, n \in DOMAIN ParameterNames(r) : ParameterNames(r)[m] = ParameterNames(r)[n] => m = n
         /\ \A i \in DOMAIN r.parameters : \E n \in DOMAIN ParameterNames(r) :
              ParameterNames(r)[n] = NameOf(r, r.parameters[i].key)
<1> DEFINE s == [i \in DOMAIN r.parameters |-> NameOf(r, r.parameters[i].key)]
<1>1. DOMAIN r.parameters = 1 .. Len(r.parameters) /\ Len(r.parameters) \in Nat
  BY CompilerLists DEF Compiler!IsRequest
<1>2. s = [i \in 1 .. Len(r.parameters) |-> s[i]]
  BY <1>1
<1>3. Compiler!IsList(s)
  <2> HIDE DEF s
  <2>1. QED
    BY <1>1, <1>2, ListsAreSequences
<1>4. ParameterNames(r) = Compiler!FirstOccurrences(s)
  BY DEF ParameterNames
<1>5. \A i \in DOMAIN r.parameters : i \in DOMAIN s /\ s[i] = NameOf(r, r.parameters[i].key)
  OBVIOUS
<1> HIDE DEF s
<1>6. \A m, n \in DOMAIN ParameterNames(r) : ParameterNames(r)[m] = ParameterNames(r)[n] => m = n
  BY <1>3, <1>4, NamesAreListedOnce
<1>7. \A i \in DOMAIN s : \E n \in DOMAIN ParameterNames(r) : ParameterNames(r)[n] = s[i]
  BY <1>3, <1>4, EveryValueIsListed
<1>8. QED
  BY <1>5, <1>6, <1>7

-----------------------------------------------------------------------------
(* The dimensions of a prompt version are its variables, the images and    *)
(* the parameters, each with as many choices as it is counted with.        *)
AreSizes(r, p, v, m, q) ==
    /\ v \in Nat /\ m \in Nat /\ q \in Nat
    /\ VariableSizes(r, p) \in Seq(Positive) /\ Len(VariableSizes(r, p)) = v
    /\ ImageSizes(r) \in Seq(Positive) /\ Len(ImageSizes(r)) = m
    /\ ParameterSizes(r) \in Seq(Positive) /\ Len(ParameterSizes(r)) = q
    /\ DOMAIN Compiler!Names(p.text) = 1 .. v /\ DOMAIN r.slots = 1 .. m /\ DOMAIN ParameterNames(r) = 1 .. q
    /\ Len(AxisSizes(r, p)) = v + m + q /\ AxisSizes(r, p) \in Seq(Positive)
    /\ \A i \in 1 .. v : AxisSizes(r, p)[i] = VariableSizes(r, p)[i]
    /\ \A i \in 1 .. m : AxisSizes(r, p)[v + i] = ImageSizes(r)[i]
    /\ \A i \in 1 .. q : AxisSizes(r, p)[v + m + i] = ParameterSizes(r)[i]
AreAxes(r, p, v, m, q) ==
    /\ DOMAIN AxesOf(r, p) = 1 .. (v + m + q)
    /\ \A i \in 1 .. v : AxesOf(r, p)[i] = VariableAxesOf(r, p)[i]
    /\ \A i \in 1 .. m : AxesOf(r, p)[v + i] = ImageAxesOf(r)[i]
    /\ \A i \in 1 .. q : AxesOf(r, p)[v + m + i] = ParameterAxesOf(r)[i]

LEMMA PartsAre ==
  ASSUME NEW r, Compiler!IsRequest(r), IsCountable(r), NEW p \in Compiler!Range(r.prompts)
  PROVE  \E v, m, q : AreSizes(r, p, v, m, q) /\ AreAxes(r, p, v, m, q)
<1> DEFINE l == Len(Compiler!Names(p.text))
           m == Len(r.slots)
           n == Len(ParameterNames(r))
           w == VariableSizes(r, p)
           x == ImageSizes(r)
           y == ParameterSizes(r)
           a == VariableAxesOf(r, p)
           b == ImageAxesOf(r)
           c == ParameterAxesOf(r)
<1>1. Compiler!IsList(p.text) /\ Compiler!IsList(r.slots)
  BY DEF Compiler!IsRequest
<1>2. Compiler!IsList(Compiler!Names(p.text)) /\ Compiler!IsList(ParameterNames(r))
  BY <1>1, NamesAreLists, ParameterNamesAreList
<1>3. /\ DOMAIN Compiler!Names(p.text) = 1 .. l /\ l \in Nat /\ DOMAIN r.slots = 1 .. m /\ m \in Nat
      /\ DOMAIN ParameterNames(r) = 1 .. n /\ n \in Nat
  BY <1>1, <1>2, CompilerLists
<1>4. w = [i \in 1 .. l |-> w[i]] /\ x = [i \in 1 .. m |-> x[i]] /\ y = [i \in 1 .. n |-> y[i]]
  BY <1>3 DEF VariableSizes, ImageSizes, ParameterSizes
<1>5. a = [i \in 1 .. l |-> a[i]] /\ b = [i \in 1 .. m |-> b[i]] /\ c = [i \in 1 .. n |-> c[i]]
  BY <1>3 DEF VariableAxesOf, ImageAxesOf, ParameterAxesOf
<1>6. w \in Seq(Positive) /\ x \in Seq(Positive) /\ y \in Seq(Positive)
  BY DEF IsCountable
<1> DEFINE axes == a \o b \o c
           sizes == w \o x \o y
<1>7. AxesOf(r, p) = axes /\ AxisSizes(r, p) = sizes
  BY DEF AxesOf, AxisSizes
<1>8. sizes \in Seq(Positive)
  BY <1>6
<1>9. axes = a \o b \o c /\ sizes = w \o x \o y
  OBVIOUS
<1> HIDE DEF l, m, n, w, x, y, a, b, c, axes, sizes
<1>10. /\ Compiler!IsList(w) /\ Len(w) = l /\ Compiler!IsList(x) /\ Len(x) = m /\ Compiler!IsList(y) /\ Len(y) = n
       /\ Compiler!IsList(a) /\ Len(a) = l /\ Compiler!IsList(b) /\ Len(b) = m /\ Compiler!IsList(c) /\ Len(c) = n
  BY <1>3, <1>4, <1>5, ListsAreSequences
<1>11. AreJoined(axes, a, b, c) /\ AreJoined(sizes, w, x, y)
  BY ONLY <1>9, <1>10, JoinedParts, Zenon
<1>12. /\ DOMAIN axes = 1 .. (l + m + n)
       /\ \A i \in 1 .. l : axes[i] = a[i]
       /\ \A i \in 1 .. m : axes[l + i] = b[i]
       /\ \A i \in 1 .. n : axes[l + m + i] = c[i]
  BY <1>10, <1>11 DEF AreJoined
<1>13. /\ Len(sizes) = l + m + n
       /\ \A i \in 1 .. l : sizes[i] = w[i]
       /\ \A i \in 1 .. m : sizes[l + i] = x[i]
       /\ \A i \in 1 .. n : sizes[l + m + i] = y[i]
  BY <1>10, <1>11 DEF AreJoined
<1>14. AreAxes(r, p, l, m, n)
  BY <1>7, <1>12 DEF AreAxes, a, b, c
<1>15. AreSizes(r, p, l, m, n)
  BY <1>3, <1>6, <1>7, <1>8, <1>10, <1>13 DEF AreSizes, w, x, y
<1>16. QED
  BY <1>14, <1>15

AreVariableChoices(r, p, i, s) ==
    LET a == VariableAxesOf(r, p)[i] IN
    /\ a.kind = "variable" /\ a.key = Compiler!Names(p.text)[i]
    /\ s \in Positive /\ DOMAIN a.choices = 1 .. s /\ Len(a.choices) = s
    /\ \A x \in 1 .. s : a.choices[x].bytes \in Nat
AreParameterChoices(r, i, s) ==
    LET a == ParameterAxesOf(r)[i] IN
    /\ a.kind \in {"parameter", "linked"}
    /\ s \in Positive /\ DOMAIN a.choices = 1 .. s
    /\ a.kind = "parameter" => \A x \in 1 .. s : Compiler!StringBytes(a.choices[x]) \in Nat
    /\ a.kind = "linked" =>
         \A x \in 1 .. s : /\ Compiler!IsList(a.choices[x])
                           /\ \A j \in DOMAIN a.choices[x] : Compiler!StringBytes(a.choices[x][j]) \in Nat
    /\ Compiler!AxisBytes(a) = ParameterText(r, ParameterNames(r)[i])

LEMMA VariableChoices ==
  ASSUME NEW r, Compiler!IsRequest(r), IsCountable(r), NEW p \in Compiler!Range(r.prompts),
         NEW v, NEW m, NEW q, AreSizes(r, p, v, m, q), NEW i \in 1 .. v
  PROVE  AreVariableChoices(r, p, i, VariableSizes(r, p)[i])
<1> DEFINE b == Compiler!Named(r.variables, Compiler!Names(p.text)[i])
           a == VariableAxesOf(r, p)[i]
           s == VariableSizes(r, p)[i]
<1>1. DOMAIN Compiler!Names(p.text) = 1 .. v /\ VariableSizes(r, p) \in Seq(Positive) /\ Len(VariableSizes(r, p)) = v
  BY DEF AreSizes
<1>2. b \in Compiler!Range(r.variables) /\ s \in Positive
  <2>1. i \in DOMAIN Compiler!Names(p.text)
    BY <1>1
  <2>2. b \in Compiler!Range(r.variables)
    <3> HIDE DEF AreSizes
    <3>1. \A x \in DOMAIN Compiler!Names(p.text) :
            Compiler!Named(r.variables, Compiler!Names(p.text)[x]) \in Compiler!Range(r.variables)
      BY DEF IsCountable
    <3>2. QED
      BY <2>1, <3>1
  <2>3. s \in Positive
    BY <1>1
  <2>4. QED
    BY <2>2, <2>3
<1>3. a.kind = "variable" /\ a.key = Compiler!Names(p.text)[i] /\ a.choices = b.values /\ s = Len(b.values)
  BY <1>1 DEF VariableAxesOf, VariableSizes
<1> HIDE DEF b, a, s
<1>4. Compiler!IsList(b.values) /\ \A c \in Compiler!Range(b.values) : c.bytes \in Nat
  BY <1>2 DEF Compiler!IsRequest
<1>5. DOMAIN b.values = 1 .. s /\ \A x \in 1 .. s : b.values[x] \in Compiler!Range(b.values)
  BY <1>3, <1>4, CompilerLists
<1>6. QED
  BY <1>2, <1>3, <1>4, <1>5 DEF AreVariableChoices, a, s

LEMMA SizedValues ==
  ASSUME NEW s, Compiler!IsList(s), \A v \in Compiler!Range(s) : Compiler!IsSized(v) \/ v.type # "string"
  PROVE  \A i \in DOMAIN s : Compiler!StringBytes(s[i]) \in Nat
<1>1. \A i \in DOMAIN s : s[i] \in Compiler!Range(s)
  BY CompilerLists
<1>2. QED
  BY <1>1 DEF Compiler!IsSized, Compiler!StringBytes

LEMMA ParameterChoices ==
  ASSUME NEW r, Compiler!IsRequest(r), IsCountable(r), NEW p, NEW v, NEW m, NEW q, AreSizes(r, p, v, m, q),
         NEW i \in 1 .. q
  PROVE  AreParameterChoices(r, i, ParameterSizes(r)[i])
<1> DEFINE name == ParameterNames(r)[i]
           a == ParameterAxesOf(r)[i]
           x == Compiler!Keyed(r.intents, name.key)
           set == Compiler!Keyed(r.sets, name.key)
           s == ParameterSizes(r)[i]
<1>1. DOMAIN ParameterNames(r) = 1 .. q /\ ParameterSizes(r) \in Seq(Positive) /\ Len(ParameterSizes(r)) = q
  BY DEF AreSizes
<1>2. s \in Positive
  BY <1>1
<1>3. /\ a.kind = name.kind /\ a.key = name.key
      /\ a.choices = IF name.kind = "linked" THEN set.rows ELSE MaterialValues(r, x)
      /\ s = IF name.kind = "linked" THEN Len(set.rows) ELSE Compiler!IntentCount(x)
  BY <1>1 DEF ParameterAxesOf, ParameterSizes, ParameterSize
<1>4. name.kind \in {"linked", "parameter"}
  <2>1. PICK k : name = NameOf(r, r.parameters[k].key)
    BY <1>1, ParameterNamesAreList
  <2>2. QED
    BY <2>1 DEF NameOf
<1>5. CASE name.kind = "linked"
  <2>1. set \in Compiler!Range(r.sets)
    BY <1>1, <1>5 DEF IsCountable
  <2>2. Compiler!AxisBytes(a) = ParameterText(r, name)
    BY <1>3, <1>5 DEF Compiler!AxisBytes, ParameterText
  <2> HIDE DEF set, a, s, name
  <2>3. /\ Compiler!IsList(set.rows)
        /\ \A row \in Compiler!Range(set.rows) : Compiler!IsList(row) /\ \A y \in Compiler!Range(row) : Compiler!IsSized(y)
    BY <2>1 DEF Compiler!IsRequest
  <2>4. DOMAIN set.rows = 1 .. s /\ \A k \in 1 .. s : set.rows[k] \in Compiler!Range(set.rows)
    BY <1>3, <1>5, <2>3, CompilerLists
  <2>5. a.choices = set.rows /\ a.kind = "linked"
    BY <1>3, <1>5
  <2>6. \A k \in 1 .. s : Compiler!IsList(set.rows[k]) /\ \A j \in DOMAIN set.rows[k] : Compiler!StringBytes(set.rows[k][j]) \in Nat
    BY <2>3, <2>4, SizedValues
  <2>7. QED
    BY <1>2, <2>2, <2>4, <2>5, <2>6 DEF AreParameterChoices, a, s, name
<1>6. CASE name.kind = "parameter"
  <2>1. x \in Compiler!Range(r.intents)
    BY <1>1, <1>6 DEF IsCountable
  <2>2. /\ x.mode # "values" => Compiler!RangeCount(x.range) \in Nat
        /\ Compiler!IsBound(x)
    BY <2>1 DEF IsCountable, Compiler!IsRequest
  <2> DEFINE t == Compiler!Keyed(r.parameters, x.key).type
  <2>3. a.choices = Compiler!IntentValues(t, x) /\ s = Compiler!IntentCount(x) /\ a.kind = "parameter"
    BY <1>3, <1>6 DEF MaterialValues
  <2>4. Compiler!AxisBytes(a) = Compiler!Total(BytesOfValues(a.choices))
    BY <2>3 DEF Compiler!AxisBytes, BytesOfValues
  <2>5. ParameterText(r, name) = IF x.mode = "values" THEN Compiler!Total(BytesOfValues(x.values)) ELSE 0
    BY <1>6 DEF ParameterText, BytesOfValues
  <2> HIDE DEF x, a, s, name, t
  <2>6. Len(a.choices) = s
    BY <2>2, <2>3, ValuesAreCounted
  <2>7. CASE x.mode = "values"
    <3>1. a.choices = x.values
      BY <2>3, <2>7 DEF Compiler!IntentValues
    <3>2. Compiler!IsList(x.values) /\ \A y \in Compiler!Range(x.values) : Compiler!IsSized(y)
      BY <2>2, <2>7 DEF Compiler!IsBound
    <3>3. DOMAIN a.choices = 1 .. s /\ \A k \in DOMAIN a.choices : Compiler!StringBytes(a.choices[k]) \in Nat
      BY <2>6, <3>1, <3>2, CompilerLists, SizedValues
    <3>4. Compiler!AxisBytes(a) = ParameterText(r, name)
      BY <2>4, <2>5, <2>7, <3>1
    <3>5. QED
      BY <1>2, <2>3, <3>3, <3>4 DEF AreParameterChoices, a, s, name
  <2>8. CASE x.mode # "values"
    <3>1. Compiler!IsList(a.choices) /\ \A y \in Compiler!Range(a.choices) : y.type # "string"
      BY <2>2, <2>3, <2>8, RangesHoldNoText
    <3>2. Compiler!Total(BytesOfValues(a.choices)) = 0
      BY <3>1, StringsAreCounted
    <3>3. DOMAIN a.choices = 1 .. s /\ \A k \in DOMAIN a.choices : Compiler!StringBytes(a.choices[k]) \in Nat
      BY <2>6, <3>1, CompilerLists, SizedValues
    <3>4. Compiler!AxisBytes(a) = ParameterText(r, name)
      BY <2>4, <2>5, <2>8, <3>2
    <3>5. QED
      BY <1>2, <2>3, <3>3, <3>4 DEF AreParameterChoices, a, s, name
  <2>9. QED
    BY <2>7, <2>8
<1>7. QED
  BY <1>4, <1>5, <1>6

-----------------------------------------------------------------------------
(* The bytes of a Job, dimension by dimension.                             *)
LEMMA PlacesAreCounted ==
  ASSUME NEW p, Compiler!IsList(p.text), NEW name
  PROVE  /\ Compiler!LiteralBytes(p) = Cardinality({i \in 1 .. Len(p.text) : p.text[i] = Compiler!Literal})
         /\ Compiler!Occurrences(p, name) = Cardinality({i \in 1 .. Len(p.text) : p.text[i] = name})
<1>1. DOMAIN p.text = 1 .. Len(p.text)
  BY CompilerLists
<1>2. QED
  BY <1>1, CompilerNames DEF Compiler!LiteralBytes, Compiler!Occurrences, Compiler!Count

\* Texts: every literal is a byte, every placeholder the chosen value of its variable.
IsFilled(t, text, names, b) ==
    /\ DOMAIN t = DOMAIN text
    /\ \A i \in DOMAIN text : text[i] = Compiler!Literal => t[i].bytes = 1
    /\ \A i \in DOMAIN text : \A n \in DOMAIN names : text[i] = names[n] => t[i].bytes = b[n]

LEMMA BytesOfFilled ==
  ASSUME NEW p, Compiler!IsList(p.text), NEW names, NEW v \in Nat, DOMAIN names = 1 .. v, AreNamesOf(names, p.text),
         NEW b \in [1 .. v -> Int], NEW t, IsFilled(t, p.text, names, b),
         NEW h, h = [n \in 1 .. v |-> Compiler!Occurrences(p, names[n]) * b[n]]
  PROVE  Compiler!BytesOf(t) = Compiler!LiteralBytes(p) + Total(h) /\ h \in [1 .. v -> Int]
<1> DEFINE text == p.text
           l == Len(p.text)
           at(i) == CHOOSE n \in 1 .. v : names[n] = text[i]
           R == [i \in 1 .. l |-> IF text[i] = Compiler!Literal THEN 0 ELSE at(i)]
           f == [i \in 1 .. l |-> IF text[i] = Compiler!Literal THEN 0 ELSE b[at(i)]]
           e == [i \in 1 .. l |-> IF text[i] = Compiler!Literal THEN 1 ELSE 0]
           g == [i \in 1 .. l |-> t[i].bytes]
<1>1. DOMAIN text = 1 .. l /\ l \in Nat
  BY CompilerLists
<1>2. ASSUME NEW i \in 1 .. l, text[i] # Compiler!Literal PROVE at(i) \in 1 .. v /\ names[at(i)] = text[i]
  BY <1>1, <1>2 DEF AreNamesOf
<1>3. /\ \A n \in 1 .. v : names[n] # Compiler!Literal
      /\ \A m, n \in 1 .. v : names[m] = names[n] => m = n
  BY DEF AreNamesOf
<1>4. Compiler!BytesOf(t) = Total(g)
  <2>1. DOMAIN t = 1 .. l
    BY <1>1 DEF IsFilled
  <2>2. g = [i \in DOMAIN t |-> t[i].bytes]
    BY <2>1
  <2>3. QED
    BY <2>2, CompilerSums DEF Compiler!BytesOf
<1> HIDE DEF at, text, l
<1>5. \A i \in 1 .. l : R[i] = (IF text[i] = Compiler!Literal THEN 0 ELSE at(i)) /\ f[i] = (IF text[i] = Compiler!Literal THEN 0 ELSE b[at(i)])
  OBVIOUS
<1>6. R \in [1 .. l -> 0 .. v] /\ f \in [1 .. l -> Int] /\ e \in [1 .. l -> Int]
  BY <1>2
<1>7. \A i \in 1 .. l : R[i] = 0 => f[i] = 0
  BY <1>2
<1>8. AreClasses(f, R, l, v)
  BY <1>6, <1>7 DEF AreClasses
<1>9. \A i \in 1 .. l : e[i] = IF i \in {k \in 1 .. l : text[k] = Compiler!Literal} THEN 1 ELSE 0
  OBVIOUS
<1>10. ASSUME NEW i \in 1 .. l PROVE t[i].bytes = e[i] + f[i] /\ t[i].bytes \in Int
  <2>1. CASE text[i] = Compiler!Literal
    <3>1. t[i].bytes = 1
      BY <1>1, <2>1 DEF IsFilled, text
    <3>2. QED
      BY <2>1, <3>1
  <2>2. CASE text[i] # Compiler!Literal
    <3>1. at(i) \in 1 .. v /\ names[at(i)] = text[i]
      BY <1>2, <2>2
    <3>2. t[i].bytes = b[at(i)]
      BY <1>1, <3>1 DEF IsFilled, text
    <3>3. e[i] = 0 /\ f[i] = b[at(i)] /\ b[at(i)] \in Int
      BY <2>2, <3>1
    <3>4. QED
      BY <3>2, <3>3
  <2>3. QED
    BY <2>1, <2>2
<1>11. g \in [1 .. l -> Int] /\ \A i \in 1 .. l : g[i] = e[i] + f[i]
  BY <1>10
<1>12. ASSUME NEW n \in 1 .. v PROVE h[n] = Total(InClass(f, R, n, l))
  <2> DEFINE S == {i \in 1 .. l : text[i] = names[n]}
             c == InClass(f, R, n, l)
  <2>1. \A i \in 1 .. l : R[i] = n <=> i \in S
    BY <1>2, <1>3, <1>5
  <2>2. \A i \in S : f[i] = b[n]
    BY <1>2, <1>3, <1>5
  <2>3. b[n] \in Int /\ S \in SUBSET (1 .. l)
    OBVIOUS
  <2>4. c = [i \in 1 .. l |-> IF R[i] = n THEN f[i] ELSE 0]
    BY DEF InClass
  <2>5. Compiler!Occurrences(p, names[n]) = Cardinality(S)
    BY PlacesAreCounted DEF l, text
  <2> HIDE DEF S, c, R, f
  <2>6. \A i \in 1 .. l : c[i] = IF i \in S THEN b[n] ELSE 0
    BY <2>1, <2>2, <2>4
  <2>7. c \in [1 .. l -> Int]
    BY <2>3, <2>4, <2>6, <1>6
  <2>8. IsSelected(c, l, S, b[n])
    BY <2>3, <2>6, <2>7 DEF IsSelected
  <2>81. Total(c) = Cardinality(S) * b[n]
    BY ONLY <1>1, <2>8, TotalOfSelected
  <2>9. QED
    BY <2>5, <2>81 DEF c
<1>13. AreClassTotals(h, f, R, l, v)
  BY <1>12 DEF AreClassTotals
<1>14. Total(e) = Compiler!LiteralBytes(p)
  <2> DEFINE S == {k \in 1 .. l : text[k] = Compiler!Literal}
  <2>1. Compiler!LiteralBytes(p) = Cardinality(S) /\ S \in SUBSET (1 .. l)
    BY PlacesAreCounted DEF l, text
  <2> HIDE DEF e, S
  <2>2. \A i \in 1 .. l : e[i] = IF i \in S THEN 1 ELSE 0
    BY <1>9 DEF S
  <2>3. QED
    BY ONLY <1>1, <1>6, <2>1, <2>2, CountIsTotal
<1> HIDE DEF R, f, e, g
<1>15. Total(f) = Total(h) /\ h \in [1 .. v -> Int]
  <2>1. h = [n \in 1 .. v |-> h[n]]
    OBVIOUS
  <2>2. QED
    BY ONLY v \in Nat, <1>1, <1>8, <1>13, <2>1, TotalOfClasses
<1>16. Total(g) = Total(e) + Total(f)
  BY ONLY <1>1, <1>6, <1>11, TotalOfBoth
<1>17. QED
  BY <1>4, <1>14, <1>15, <1>16

-----------------------------------------------------------------------------
(* A parameter has its value from one dimension. *)
LEMMA FewAreOne ==
  ASSUME NEW S, IsFiniteSet(S), Cardinality(S) <= 1, NEW x \in S, NEW y \in S
  PROVE  x = y
<1> SUFFICES ASSUME x # y PROVE FALSE
  OBVIOUS
<1>1. IsFiniteSet({x}) /\ Cardinality({x}) = 1
  BY FS_Singleton
<1>2. y \notin {x}
  OBVIOUS
<1>3. IsFiniteSet({x} \cup {y}) /\ Cardinality({x} \cup {y}) = Cardinality({x}) + 1
  BY <1>1, <1>2, FS_AddElement
<1> DEFINE T == {x} \cup {y}
<1>4. T \in SUBSET S /\ Cardinality(T) = 2
  BY <1>1, <1>3
<1> HIDE DEF T
<1>5. Cardinality(T) <= Cardinality(S)
  BY <1>4, FS_Subset
<1>6. Cardinality(S) \in Nat
  BY FS_CardinalityType
<1>7. QED
  BY <1>4, <1>5, <1>6

LEMMA LinkedSetsAreFew ==
  ASSUME Compiler!IsRequest(request), Sound, NEW k \in DOMAIN request.parameters,
         NEW key, key = request.parameters[k].key
  PROVE  /\ IsFiniteSet(Compiler!LinkedSetOf(key)) /\ Cardinality(Compiler!LinkedSetOf(key)) <= 1
         /\ \A set \in Compiler!Range(request.sets) :
              Compiler!Keyed(request.sets, set.key) = set /\ Compiler!LinkedSetIsValid(set)
<1> DEFINE sets == request.sets
           n == Len(sets)
           S == Compiler!LinkedSetOf(key)
<1>1. Compiler!IsList(sets) /\ Compiler!IsList(request.parameters) /\ Compiler!LinkedSetsAreValid
  BY DEF Compiler!IsRequest, Sound
<1>2. DOMAIN sets = 1 .. n /\ n \in Nat /\ \A i \in DOMAIN sets : sets[i] \in Compiler!Range(sets)
  BY <1>1, CompilerLists
<1>3. sets \in Seq(Compiler!Range(sets)) /\ \A v \in Compiler!Range(sets) : \E i \in DOMAIN sets : sets[i] = v
  BY <1>1, CompilerLists
<1>4. S \in SUBSET Compiler!Range(sets)
  BY DEF Compiler!LinkedSetOf
<1>5. \A a, b \in DOMAIN sets : sets[a].key = sets[b].key => a = b
  BY <1>1 DEF Compiler!LinkedSetsAreValid, Compiler!KeysAreUnique, Compiler!KeySet
<1>6. \A set \in Compiler!Range(sets) : Compiler!LinkedSetIsValid(set)
  BY <1>1 DEF Compiler!LinkedSetsAreValid
<1>7. Cardinality(S) <= 1
  <2>1. request.parameters[k] \in Compiler!Range(request.parameters)
    BY DEF Compiler!Range
  <2>2. \A p \in Compiler!Range(request.parameters) : Compiler!Cardinality(Compiler!LinkedSetOf(p.key)) <= 1
    BY <1>1 DEF Compiler!LinkedSetsAreValid
  <2>3. Compiler!Cardinality(Compiler!LinkedSetOf(request.parameters[k].key)) <= 1
    BY <2>1, <2>2
  <2>4. QED
    BY <2>3, CompilerNames
<1> HIDE DEF sets, n, S
<1>8. IsFiniteSet(Compiler!Range(sets))
  <2>1. IsFiniteSet(1 .. n)
    BY <1>2, FS_Interval
  <2>2. sets \in [1 .. n -> Compiler!Range(sets)]
    BY <1>2, <1>3
  <2>3. sets \in Surjection(1 .. n, Compiler!Range(sets))
    BY <1>2, <1>3, <2>2 DEF Surjection
  <2>4. QED
    BY <2>1, <2>3, FS_Surjection
<1>9. IsFiniteSet(S)
  BY <1>4, <1>8, FS_Subset
<1>10. ASSUME NEW set \in Compiler!Range(sets) PROVE Compiler!Keyed(sets, set.key) = set
  <2>1. PICK i \in DOMAIN sets : sets[i] = set
    BY <1>3
  <2>2. Compiler!Keyed(sets, set.key) \in Compiler!Range(sets) /\ Compiler!Keyed(sets, set.key).key = set.key
    BY FoundByKey
  <2>3. PICK j \in DOMAIN sets : sets[j] = Compiler!Keyed(sets, set.key)
    BY <1>3, <2>2
  <2>4. i = j
    BY <1>5, <2>1, <2>2, <2>3
  <2>5. QED
    BY <2>1, <2>3, <2>4
<1>11. QED
  BY <1>6, <1>7, <1>9, <1>10 DEF sets, S

LEMMA NameOfMember ==
  ASSUME Compiler!IsRequest(request), Sound, NEW k \in DOMAIN request.parameters,
         NEW key, key = request.parameters[k].key
  PROVE  /\ \A set \in Compiler!Range(request.sets) :
              key \in Compiler!Range(set.members) => NameOf(request, key) = [kind |-> "linked", key |-> set.key]
         /\ NameOf(request, key).kind = "linked" =>
              LET set == Compiler!Keyed(request.sets, NameOf(request, key).key)
              IN  /\ set \in Compiler!Range(request.sets) /\ key \in Compiler!Range(set.members)
                  /\ NameOf(request, key) = [kind |-> "linked", key |-> set.key]
         /\ NameOf(request, key).kind # "linked" => NameOf(request, key) = [kind |-> "parameter", key |-> key]
<1> DEFINE S == Compiler!LinkedSetOf(key)
           chosen == CHOOSE set \in S : TRUE
<1>1. /\ IsFiniteSet(S) /\ Cardinality(S) <= 1
      /\ \A set \in Compiler!Range(request.sets) : Compiler!Keyed(request.sets, set.key) = set
  BY LinkedSetsAreFew
<1>2. NameOf(request, key) = IF S = {} THEN [kind |-> "parameter", key |-> key]
                             ELSE [kind |-> "linked", key |-> chosen.key]
  BY DEF NameOf, Compiler!LinkedSetOf
<1>3. \A set : set \in S <=> set \in Compiler!Range(request.sets) /\ key \in Compiler!Range(set.members)
  BY DEF Compiler!LinkedSetOf
<1>4. S # {} => chosen \in S
  OBVIOUS
<1> HIDE DEF S, chosen
<1>5. ASSUME NEW set \in Compiler!Range(request.sets), key \in Compiler!Range(set.members)
      PROVE  NameOf(request, key) = [kind |-> "linked", key |-> set.key]
  <2>1. set \in S
    BY <1>3, <1>5
  <2>2. chosen \in S
    BY <1>4, <2>1
  <2>3. chosen = set
    BY <1>1, <2>1, <2>2, FewAreOne
  <2>4. QED
    BY <1>2, <2>1, <2>3
<1>6. ASSUME NameOf(request, key).kind = "linked"
      PROVE  LET set == Compiler!Keyed(request.sets, NameOf(request, key).key)
             IN  /\ set \in Compiler!Range(request.sets) /\ key \in Compiler!Range(set.members)
                 /\ NameOf(request, key) = [kind |-> "linked", key |-> set.key]
  <2>1. S # {}
    BY <1>2, <1>6
  <2>2. chosen \in S /\ NameOf(request, key) = [kind |-> "linked", key |-> chosen.key]
    BY <1>2, <1>4, <2>1
  <2>3. chosen \in Compiler!Range(request.sets) /\ key \in Compiler!Range(chosen.members)
    BY <1>3, <2>2
  <2>4. Compiler!Keyed(request.sets, chosen.key) = chosen
    BY <1>1, <2>3
  <2>5. QED
    BY <2>2, <2>3, <2>4
<1>7. NameOf(request, key).kind # "linked" => NameOf(request, key) = [kind |-> "parameter", key |-> key]
  BY <1>2
<1>8. QED
  BY <1>5, <1>6, <1>7

\* What gives a parameter its value.
Stands(sets, a, key) ==
    \/ a.kind = "parameter" /\ a.key = key
    \/ a.kind = "linked" /\ key \in Compiler!Range(Compiler!Keyed(sets, a.key).members)

LEMMA OneDimensionStands ==
  ASSUME Compiler!IsRequest(request), Sound, NEW k \in DOMAIN request.parameters,
         NEW key, key = request.parameters[k].key, NEW i \in DOMAIN ParameterNames(request),
         ParameterNames(request)[i] = NameOf(request, key), NEW x \in DOMAIN ParameterNames(request)
  PROVE  Stands(request.sets, ParameterAxesOf(request)[x], key) <=> x = i
<1> DEFINE names == ParameterNames(request)
           a == ParameterAxesOf(request)[x]
           set == Compiler!Keyed(request.sets, names[x].key)
<1>1. a.kind = names[x].kind /\ a.key = names[x].key
  BY DEF ParameterAxesOf
<1>2. PICK c \in DOMAIN request.parameters : names[x] = NameOf(request, request.parameters[c].key)
  BY ParameterNamesAreList
<1> DEFINE own == request.parameters[c].key
<1>3. /\ names[x].kind = "linked" => /\ set \in Compiler!Range(request.sets) /\ own \in Compiler!Range(set.members)
                                     /\ names[x] = [kind |-> "linked", key |-> set.key]
      /\ names[x].kind # "linked" => names[x] = [kind |-> "parameter", key |-> own]
  BY <1>2, NameOfMember
<1>4. \A y \in Compiler!Range(request.sets) :
        key \in Compiler!Range(y.members) => NameOf(request, key) = [kind |-> "linked", key |-> y.key]
  BY NameOfMember
<1>5. \A y \in DOMAIN names : names[y] = names[i] => y = i
  BY DimensionsAreListedOnce
<1>6. names[i] = NameOf(request, key)
  OBVIOUS
<1>7. names[x] = NameOf(request, own)
  BY <1>2
<1>8. x \in DOMAIN names
  OBVIOUS
<1>9. x = i => names[x] = NameOf(request, key)
  OBVIOUS
<1> HIDE DEF names, a, set, own
<1>10. ASSUME a.kind = "parameter", a.key = key PROVE x = i
  <2>1. own = key
    <3>1. names[x].kind # "linked"
      BY <1>1, <1>10
    <3>2. names[x].key = own
      BY <1>3, <3>1
    <3>3. QED
      BY <1>1, <1>10, <3>2
  <2>2. QED
    BY <1>5, <1>6, <1>7, <1>8, <2>1
<1>11. ASSUME a.kind = "linked", key \in Compiler!Range(set.members) PROVE x = i
  <2>1. NameOf(request, key) = names[x]
    BY <1>1, <1>3, <1>4, <1>11
  <2>2. QED
    BY <1>5, <1>6, <1>8, <2>1
<1>12. ASSUME x = i PROVE (a.kind = "parameter" /\ a.key = key) \/ (a.kind = "linked" /\ key \in Compiler!Range(set.members))
  <2>1. /\ NameOf(request, key).kind = "linked" =>
             key \in Compiler!Range(Compiler!Keyed(request.sets, NameOf(request, key).key).members)
        /\ NameOf(request, key).kind # "linked" => NameOf(request, key) = [kind |-> "parameter", key |-> key]
    BY NameOfMember
  <2>2. names[x] = NameOf(request, key)
    BY <1>9, <1>12
  <2>3. CASE names[x].kind = "linked"
    BY <1>1, <2>1, <2>2, <2>3 DEF set
  <2>4. CASE names[x].kind # "linked"
    BY <1>1, <2>1, <2>2, <2>4
  <2>5. QED
    BY <2>3, <2>4
<1>13. Stands(request.sets, a, key) <=>
         (a.kind = "parameter" /\ a.key = key) \/ (a.kind = "linked" /\ key \in Compiler!Range(set.members))
  BY <1>1 DEF Stands, set
<1>14. QED
  BY <1>10, <1>11, <1>12, <1>13 DEF a

\* The value of a parameter, by itself or in the chosen row.
IsValueOf(value, a, chosen, sets, key) ==
    value = IF a.kind = "parameter" THEN chosen
            ELSE chosen[CHOOSE j \in DOMAIN chosen : Compiler!Keyed(sets, a.key).members[j] = key]

LEMMA ParameterIsAt ==
  ASSUME Compiler!IsRequest(request), IsCountable(request), Sound, NEW p,
         NEW v, NEW m, NEW q, AreSizes(request, p, v, m, q), AreAxes(request, p, v, m, q),
         NEW k \in DOMAIN request.parameters, NEW key, key = request.parameters[k].key,
         NEW i \in 1 .. q, ParameterNames(request)[i] = NameOf(request, key), NEW d
  PROVE  IsValueOf(ParameterOf(request.sets, AxesOf(request, p), d, key), ParameterAxesOf(request)[i],
                   ParameterAxesOf(request)[i].choices[d[v + m + i]], request.sets, key)
<1> DEFINE axes == AxesOf(request, p)
           at == v + m + i
           sets == request.sets
<1>1. /\ v \in Nat /\ m \in Nat /\ q \in Nat /\ DOMAIN Compiler!Names(p.text) = 1 .. v
      /\ DOMAIN request.slots = 1 .. m /\ DOMAIN ParameterNames(request) = 1 .. q
  BY DEF AreSizes
<1>2. /\ DOMAIN axes = 1 .. (v + m + q)
      /\ \A x \in 1 .. v : axes[x] = VariableAxesOf(request, p)[x]
      /\ \A x \in 1 .. m : axes[v + x] = ImageAxesOf(request)[x]
      /\ \A x \in 1 .. q : axes[v + m + x] = ParameterAxesOf(request)[x]
  BY DEF AreAxes
<1> HIDE DEF axes
<1>3. \A x \in 1 .. v : axes[x].kind = "variable"
  <2>1. \A x \in 1 .. v : VariableAxesOf(request, p)[x].kind = "variable"
    BY <1>1 DEF VariableAxesOf
  <2>2. QED
    BY <1>2, <2>1
<1>4. \A x \in 1 .. m : axes[v + x].kind = "image"
  <2>1. \A x \in 1 .. m : ImageAxesOf(request)[x].kind = "image"
    BY <1>1 DEF ImageAxesOf
  <2>2. QED
    BY <1>2, <2>1
<1>5. \A x \in 1 .. q : Stands(sets, axes[v + m + x], key) <=> x = i
  <2> SUFFICES ASSUME NEW x \in 1 .. q PROVE Stands(sets, axes[v + m + x], key) <=> x = i
    OBVIOUS
  <2>1. x \in DOMAIN ParameterNames(request) /\ i \in DOMAIN ParameterNames(request)
    BY <1>1
  <2>2. Stands(sets, ParameterAxesOf(request)[x], key) <=> x = i
    BY <2>1, OneDimensionStands
  <2>3. QED
    BY <1>2, <2>2
<1>6. \A y \in 1 .. (v + m + q) : Stands(sets, axes[y], key) <=> y = at
  <2> SUFFICES ASSUME NEW y \in 1 .. (v + m + q) PROVE Stands(sets, axes[y], key) <=> y = at
    OBVIOUS
  <2>1. CASE y \in 1 .. v
    <3>1. axes[y].kind = "variable" /\ y # at
      BY <1>1, <1>3, <2>1
    <3>2. QED
      BY <3>1 DEF Stands
  <2>2. ASSUME NEW x \in 1 .. m, y = v + x PROVE Stands(sets, axes[y], key) <=> y = at
    <3>1. axes[y].kind = "image" /\ y # at
      BY <1>1, <1>4, <2>2
    <3>2. QED
      BY <3>1 DEF Stands
  <2>3. ASSUME NEW x \in 1 .. q, y = v + m + x PROVE Stands(sets, axes[y], key) <=> y = at
    <3>1. y = at <=> x = i
      BY <1>1, <2>3
    <3>2. QED
      BY <1>5, <2>3, <3>1
  <2>4. y \in 1 .. v \/ (\E x \in 1 .. m : y = v + x) \/ (\E x \in 1 .. q : y = v + m + x)
    BY <1>1, PartOfPlace
  <2>5. QED
    BY <2>1, <2>2, <2>3, <2>4
<1>7. at \in DOMAIN axes
  BY <1>1, <1>2
<1>8. (CHOOSE y \in DOMAIN axes : Stands(sets, axes[y], key)) = at
  BY <1>2, <1>6, <1>7
<1> DEFINE taken == CHOOSE y \in DOMAIN axes :
                      \/ axes[y].kind = "parameter" /\ axes[y].key = key
                      \/ axes[y].kind = "linked" /\ key \in Compiler!Range(Compiler!Keyed(sets, axes[y].key).members)
           values == ChosenOf(axes, d)[taken]
<1>9. taken = at
  BY <1>8 DEF Stands
<1>10. ChosenOf(axes, d)[at] = axes[at].choices[d[at]]
  BY <1>7 DEF ChosenOf
<1>11. axes[at] = ParameterAxesOf(request)[i]
  BY <1>2
<1>12. ParameterOf(sets, axes, d, key) =
         IF axes[taken].kind = "parameter" THEN values
         ELSE values[CHOOSE j \in DOMAIN values : Compiler!Keyed(sets, axes[taken].key).members[j] = key]
  BY DEF ParameterOf
<1> HIDE DEF taken
<1>13. IsValueOf(ParameterOf(sets, axes, d, key), axes[at], ChosenOf(axes, d)[at], sets, key)
  BY <1>9, <1>12 DEF IsValueOf
<1> HIDE DEF at, sets
<1>14. IsValueOf(ParameterOf(sets, axes, d, key), ParameterAxesOf(request)[i],
                 ParameterAxesOf(request)[i].choices[d[at]], sets, key)
  BY <1>10, <1>11, <1>13
<1>15. QED
  BY <1>14 DEF axes, at, sets

-----------------------------------------------------------------------------
(* What the choices of a parameter dimension hold goes to the parameters   *)
(* of the Job, each value to one of them.                                  *)
ParametersDiffer(r) == \A i, j \in DOMAIN r.parameters : r.parameters[i].key = r.parameters[j].key => i = j

LEMMA KeysAreDifferent ==
  ASSUME NEW s, BindingsHold(s)
  PROVE  ParametersDiffer(request)
  BY DEF BindingsHold, Compiler!KeysAreUnique, Compiler!KeySet, ParametersDiffer

IsTableOf(r, set, row, l) ==
    /\ l \in Nat /\ DOMAIN row = 1 .. l /\ DOMAIN set.members = 1 .. l /\ Compiler!IsList(row)
    /\ \A j \in 1 .. l : Compiler!StringBytes(row[j]) \in Nat
    /\ \A i, j \in 1 .. l : set.members[i] = set.members[j] => i = j
    /\ \A j \in 1 .. l : \E k \in DOMAIN r.parameters : r.parameters[k].key = set.members[j]

LEMMA RowsAreTables ==
  ASSUME Compiler!IsRequest(request), Sound, NEW set \in Compiler!Range(request.sets),
         Compiler!LinkedSetIsValid(set), NEW row \in Compiler!Range(set.rows)
  PROVE  IsTableOf(request, set, row, Len(set.members))
<1>1. Compiler!IsList(set.members) /\ Compiler!IsList(row) /\ \A v \in Compiler!Range(row) : Compiler!IsSized(v)
  BY DEF Compiler!IsRequest
<1>2. Len(row) = Len(set.members) /\ Compiler!IsInjective(set.members)
  BY DEF Compiler!LinkedSetIsValid, Compiler!KeysAreUnique, Compiler!KeySet
<1>3. Compiler!Range(set.members) \subseteq {request.parameters[i].key : i \in DOMAIN request.parameters}
  BY DEF Compiler!LinkedSetIsValid, Compiler!KeysAreUnique, Compiler!KeySet
<1>4. /\ Len(set.members) \in Nat /\ DOMAIN set.members = 1 .. Len(set.members) /\ DOMAIN row = 1 .. Len(row)
      /\ \A j \in DOMAIN set.members : set.members[j] \in Compiler!Range(set.members)
  BY <1>1, CompilerLists
<1>5. \A j \in DOMAIN row : Compiler!StringBytes(row[j]) \in Nat
  BY <1>1, SizedValues
<1>6. \A i, j \in DOMAIN set.members : set.members[i] = set.members[j] => i = j
  BY <1>2 DEF Compiler!IsInjective
<1>7. \A j \in DOMAIN set.members : \E k \in DOMAIN request.parameters : request.parameters[k].key = set.members[j]
  BY <1>3, <1>4
<1>8. QED
  BY <1>1, <1>2, <1>4, <1>5, <1>6, <1>7 DEF IsTableOf

ParameterBytes(a, x) ==
    IF a.kind = "parameter" THEN Compiler!StringBytes(a.choices[x]) ELSE Total(BytesOfValues(a.choices[x]))

AreBytes(f, r, p, d) ==
    f = [k \in 1 .. Len(r.parameters) |-> Compiler!StringBytes(ParameterOf(r.sets, AxesOf(r, p), d, r.parameters[k].key))]
AreDimensions(R, r, q) ==
    /\ R \in [1 .. Len(r.parameters) -> 1 .. q]
    /\ \A k \in 1 .. Len(r.parameters) : ParameterNames(r)[R[k]] = NameOf(r, r.parameters[k].key)

LEMMA BytesOfIndependent ==
  ASSUME Compiler!IsRequest(request), IsCountable(request), Sound, ParametersDiffer(request), NEW p,
         NEW v, NEW m, NEW q, AreSizes(request, p, v, m, q), AreAxes(request, p, v, m, q),
         NEW d, NEW i \in 1 .. q, d[v + m + i] \in 1 .. ParameterSizes(request)[i],
         NEW f, AreBytes(f, request, p, d), NEW R, AreDimensions(R, request, q),
         ParameterAxesOf(request)[i].kind = "parameter"
  PROVE  /\ Total(InClass(f, R, i, Len(request.parameters))) = ParameterBytes(ParameterAxesOf(request)[i], d[v + m + i])
         /\ \A k \in 1 .. Len(request.parameters) : R[k] = i => f[k] \in Nat
<1> DEFINE names == ParameterNames(request)
           a == ParameterAxesOf(request)[i]
           x == d[v + m + i]
           n == Len(request.parameters)
           b == Compiler!StringBytes(a.choices[x])
<1>1. DOMAIN names = 1 .. q
  BY DEF AreSizes
<1>2. a.kind = names[i].kind
  BY <1>1 DEF ParameterAxesOf
<1>3. DOMAIN request.parameters = 1 .. n /\ n \in Nat
  BY CompilerLists DEF Compiler!IsRequest
<1>4. PICK c \in 1 .. n : names[i] = NameOf(request, request.parameters[c].key)
  BY <1>1, <1>3, ParameterNamesAreList
<1>5. \A y, z \in 1 .. q : names[y] = names[z] => y = z
  BY <1>1, DimensionsAreListedOnce
<1>6. R \in [1 .. n -> 1 .. q] /\ \A k \in 1 .. n : names[R[k]] = NameOf(request, request.parameters[k].key)
  BY DEF AreDimensions
<1>7. \A k \in 1 .. n : NameOf(request, request.parameters[k].key).kind # "linked" =>
        NameOf(request, request.parameters[k].key) = [kind |-> "parameter", key |-> request.parameters[k].key]
  BY <1>3, NameOfMember
<1>8. names[i].kind # "linked"
  BY <1>2
<1> HIDE DEF names
<1>9. \A k \in 1 .. n : R[k] = i <=> k = c
  <2> SUFFICES ASSUME NEW k \in 1 .. n PROVE R[k] = i <=> k = c
    OBVIOUS
  <2>1. ASSUME R[k] = i PROVE k = c
    <3>1. NameOf(request, request.parameters[k].key) = names[i]
      BY <1>6, <2>1
    <3>2. /\ NameOf(request, request.parameters[k].key) = [kind |-> "parameter", key |-> request.parameters[k].key]
          /\ NameOf(request, request.parameters[c].key) = [kind |-> "parameter", key |-> request.parameters[c].key]
      BY <1>4, <1>7, <1>8, <3>1
    <3>3. request.parameters[k].key = request.parameters[c].key
      <4> DEFINE kk == request.parameters[k].key
                 kc == request.parameters[c].key
      <4>1. [kind |-> "parameter", key |-> kk] = [kind |-> "parameter", key |-> kc]
        BY <1>4, <3>1, <3>2
      <4> HIDE DEF kk, kc
      <4>2. kk = kc
        BY <4>1
      <4>3. QED
        BY <4>2 DEF kk, kc
    <3>4. QED
      BY <1>3, <3>3 DEF ParametersDiffer
  <2>2. ASSUME k = c PROVE R[k] = i
    <3>1. names[R[k]] = names[i] /\ R[k] \in 1 .. q
      BY <1>4, <1>6, <2>2
    <3>2. QED
      BY <1>5, <3>1
  <2>3. QED
    BY <2>1, <2>2
<1>10. AreParameterChoices(request, i, ParameterSizes(request)[i])
  BY ParameterChoices
<1>11. b \in Nat
  BY <1>10 DEF AreParameterChoices
<1> DEFINE key == request.parameters[c].key
<1>12. IsValueOf(ParameterOf(request.sets, AxesOf(request, p), d, key), a, a.choices[x], request.sets, key)
  <2>1. c \in DOMAIN request.parameters /\ ParameterNames(request)[i] = NameOf(request, key)
    BY <1>3, <1>4 DEF names
  <2>2. QED
    BY <2>1, ParameterIsAt
<1>13. f[c] = b
  <2>1. f[c] = Compiler!StringBytes(ParameterOf(request.sets, AxesOf(request, p), d, key))
    BY DEF AreBytes
  <2>2. ParameterOf(request.sets, AxesOf(request, p), d, key) = a.choices[x]
    BY <1>12 DEF IsValueOf
  <2>3. QED
    BY <2>1, <2>2
<1>14. ParameterBytes(a, x) = b
  BY DEF ParameterBytes
<1> HIDE DEF a, x, n, b, key
<1> DEFINE h == InClass(f, R, i, n)
<1>15. \A k \in 1 .. n : h[k] = IF k = c THEN b ELSE 0
  BY <1>9, <1>13 DEF InClass
<1>16. h \in [1 .. n -> Int]
  BY <1>9, <1>11, <1>13 DEF InClass
<1>17. b \in Int
  BY <1>11
<1> HIDE DEF h
<1>18. Total(h) = b
  BY ONLY <1>3, <1>15, <1>16, <1>17, c \in 1 .. n, TotalOfOne
<1>19. \A k \in 1 .. n : R[k] = i => f[k] \in Nat
  BY <1>9, <1>11, <1>13
<1>20. QED
  BY <1>14, <1>18, <1>19 DEF h, a, x, n

\* The row that is chosen, value by value.
IsMemberValue(value, r, set, row, l, sets, a, j) ==
    /\ IsTableOf(r, set, row, l) /\ a.kind = "linked" /\ Compiler!Keyed(sets, a.key) = set /\ j \in 1 .. l
    /\ IsValueOf(value, a, row, sets, set.members[j])

LEMMA ValueOfMember ==
  ASSUME NEW value, NEW r, NEW set, NEW row, NEW l, NEW sets, NEW a, NEW j,
         IsMemberValue(value, r, set, row, l, sets, a, j)
  PROVE  value = row[j]
<1>1. a.kind # "parameter"
  BY DEF IsMemberValue
<1>2. value = row[CHOOSE i \in DOMAIN row : set.members[i] = set.members[j]]
  BY <1>1 DEF IsMemberValue, IsValueOf
<1>3. DOMAIN row = 1 .. l /\ j \in 1 .. l /\ \A i \in 1 .. l : set.members[i] = set.members[j] => i = j
  BY DEF IsMemberValue, IsTableOf
<1>4. (CHOOSE i \in DOMAIN row : set.members[i] = set.members[j]) = j
  BY <1>3
<1>5. QED
  BY <1>2, <1>4

\* A linked dimension gives each of its members its value of the row.
AreMembers(R, J, f, r, set, row, l, i, n) ==
    /\ IsTableOf(r, set, row, l) /\ ParametersDiffer(r) /\ DOMAIN r.parameters = 1 .. n /\ n \in Nat
    /\ f = [k \in 1 .. n |-> f[k]] /\ DOMAIN R = 1 .. n
    /\ \A k \in 1 .. n : R[k] = i =>
         /\ J[k] \in 1 .. l /\ set.members[J[k]] = r.parameters[k].key
         /\ f[k] = Compiler!StringBytes(row[J[k]])
    /\ \A k \in 1 .. n : \A j \in 1 .. l : r.parameters[k].key = set.members[j] => R[k] = i

LEMMA BytesOfMembers ==
  ASSUME NEW R, NEW J, NEW f, NEW r, NEW set, NEW row, NEW l, NEW i, NEW n, AreMembers(R, J, f, r, set, row, l, i, n)
  PROVE  /\ Total(InClass(f, R, i, n)) = Total(BytesOfValues(row))
         /\ \A k \in 1 .. n : R[k] = i => f[k] \in Nat
<1>1. /\ l \in Nat /\ n \in Nat /\ DOMAIN row = 1 .. l /\ DOMAIN r.parameters = 1 .. n
      /\ \A j \in 1 .. l : Compiler!StringBytes(row[j]) \in Nat
      /\ \A x, y \in 1 .. l : set.members[x] = set.members[y] => x = y
      /\ \A j \in 1 .. l : \E k \in DOMAIN r.parameters : r.parameters[k].key = set.members[j]
  BY DEF AreMembers, IsTableOf
<1>2. \A x, y \in 1 .. n : r.parameters[x].key = r.parameters[y].key => x = y
  BY <1>1 DEF AreMembers, ParametersDiffer
<1>3. /\ \A k \in 1 .. n : R[k] = i =>
           /\ J[k] \in 1 .. l /\ set.members[J[k]] = r.parameters[k].key
           /\ f[k] = Compiler!StringBytes(row[J[k]])
      /\ \A k \in 1 .. n : \A j \in 1 .. l : r.parameters[k].key = set.members[j] => R[k] = i
  BY DEF AreMembers
<1>4. \A k \in 1 .. n : R[k] = i => f[k] \in Nat
  BY <1>1, <1>3
<1> DEFINE g == InClass(f, R, i, n)
           Q == [k \in 1 .. n |-> IF R[k] = i THEN J[k] ELSE 0]
           h == BytesOfValues(row)
<1>5. g \in [1 .. n -> Int] /\ \A k \in 1 .. n : g[k] = IF R[k] = i THEN f[k] ELSE 0
  BY <1>4 DEF InClass
<1>6. Q \in [1 .. n -> 0 .. l]
  BY <1>1, <1>3
<1>7. \A k \in 1 .. n : Q[k] = IF R[k] = i THEN J[k] ELSE 0
  OBVIOUS
<1>8. h = [j \in 1 .. l |-> h[j]] /\ \A j \in 1 .. l : h[j] = Compiler!StringBytes(row[j])
  BY <1>1 DEF BytesOfValues
<1> HIDE DEF g, Q, h
<1>9. AreClasses(g, Q, n, l)
  <2>1. ASSUME NEW k \in 1 .. n, Q[k] = 0 PROVE g[k] = 0
    <3>1. CASE R[k] = i
      <4>1. J[k] \in 1 .. l /\ Q[k] = J[k]
        BY <1>3, <1>7, <3>1
      <4>2. QED
        BY ONLY <1>1, <2>1, <4>1
    <3>2. CASE R[k] # i
      BY <1>5, <3>2
    <3>3. QED
      BY <3>1, <3>2
  <2>2. QED
    BY <1>5, <1>6, <2>1 DEF AreClasses
<1>10. AreClassTotals(h, g, Q, n, l)
  <2> SUFFICES ASSUME NEW j \in 1 .. l PROVE h[j] = Total(InClass(g, Q, j, n))
    BY DEF AreClassTotals
  <2>1. PICK b \in 1 .. n : r.parameters[b].key = set.members[j]
    BY <1>1
  <2> DEFINE value == Compiler!StringBytes(row[j])
             e == InClass(g, Q, j, n)
  <2>2. value \in Int
    BY <1>1
  <2>3. R[b] = i /\ J[b] = j
    <3>1. R[b] = i
      BY <1>3, <2>1
    <3>2. J[b] \in 1 .. l /\ set.members[J[b]] = set.members[j]
      BY <1>3, <2>1, <3>1
    <3>3. QED
      BY <1>1, <3>1, <3>2
  <2>4. \A k \in 1 .. n : Q[k] = j => k = b
    <3> SUFFICES ASSUME NEW k \in 1 .. n, Q[k] = j PROVE k = b
      OBVIOUS
    <3>1. R[k] = i /\ J[k] = j
      BY <1>1, <1>7
    <3>2. r.parameters[k].key = r.parameters[b].key
      BY <1>3, <2>1, <3>1
    <3>3. QED
      BY <1>2, <3>2
  <2>5. Q[b] = j /\ g[b] = value
    BY <1>3, <1>5, <1>7, <2>3
  <2>6. \A k \in 1 .. n : e[k] = IF k = b THEN value ELSE 0
    <3> HIDE DEF value
    <3>1. \A k \in 1 .. n : e[k] = IF Q[k] = j THEN g[k] ELSE 0
      BY DEF InClass
    <3> HIDE DEF e
    <3>2. QED
      BY <2>4, <2>5, <3>1
  <2>7. e \in [1 .. n -> Int]
    BY <1>5 DEF InClass
  <2> HIDE DEF e, value
  <2>8. Total(e) = value
    <3>1. n \in Nat /\ b \in 1 .. n
      BY <1>1
    <3>2. QED
      BY ONLY <2>2, <2>6, <2>7, <3>1, TotalOfOne
  <2>9. QED
    BY <1>8, <2>8 DEF e, value
<1>11. Total(g) = Total(h)
  BY <1>1, <1>8, <1>9, <1>10, TotalOfClasses
<1>12. QED
  BY <1>4, <1>11 DEF g, h

LEMMA BytesOfLinked ==
  ASSUME Compiler!IsRequest(request), IsCountable(request), Sound, ParametersDiffer(request), NEW p,
         NEW v, NEW m, NEW q, AreSizes(request, p, v, m, q), AreAxes(request, p, v, m, q),
         NEW d, NEW i \in 1 .. q, d[v + m + i] \in 1 .. ParameterSizes(request)[i],
         NEW f, AreBytes(f, request, p, d), NEW R, AreDimensions(R, request, q),
         ParameterAxesOf(request)[i].kind = "linked"
  PROVE  /\ Total(InClass(f, R, i, Len(request.parameters))) = ParameterBytes(ParameterAxesOf(request)[i], d[v + m + i])
         /\ \A k \in 1 .. Len(request.parameters) : R[k] = i => f[k] \in Nat
<1> DEFINE names == ParameterNames(request)
           a == ParameterAxesOf(request)[i]
           x == d[v + m + i]
           n == Len(request.parameters)
           row == a.choices[x]
           set == Compiler!Keyed(request.sets, names[i].key)
           l == Len(set.members)
<1>1. DOMAIN names = 1 .. q
  BY DEF AreSizes
<1>2. a.kind = names[i].kind /\ a.key = names[i].key
  BY <1>1 DEF ParameterAxesOf
<1>3. DOMAIN request.parameters = 1 .. n /\ n \in Nat
  BY CompilerLists DEF Compiler!IsRequest
<1>4. PICK c \in 1 .. n : names[i] = NameOf(request, request.parameters[c].key)
  BY <1>1, <1>3, ParameterNamesAreList
<1>5. \A y, z \in 1 .. q : names[y] = names[z] => y = z
  BY <1>1, DimensionsAreListedOnce
<1>6. R \in [1 .. n -> 1 .. q] /\ \A k \in 1 .. n : names[R[k]] = NameOf(request, request.parameters[k].key)
  BY DEF AreDimensions
<1>7. names[i].kind = "linked" /\ a.choices = set.rows
  BY <1>1, <1>2 DEF ParameterAxesOf
<1>8. ASSUME NEW k \in 1 .. n, NameOf(request, request.parameters[k].key) = names[i]
      PROVE  /\ set \in Compiler!Range(request.sets) /\ request.parameters[k].key \in Compiler!Range(set.members)
             /\ names[i] = [kind |-> "linked", key |-> set.key]
  <2>1. NameOf(request, request.parameters[k].key).kind = "linked" =>
              LET own == Compiler!Keyed(request.sets, NameOf(request, request.parameters[k].key).key)
              IN  /\ own \in Compiler!Range(request.sets) /\ request.parameters[k].key \in Compiler!Range(own.members)
                  /\ NameOf(request, request.parameters[k].key) = [kind |-> "linked", key |-> own.key]
    BY <1>3, NameOfMember
  <2> HIDE DEF names
  <2>2. QED
    BY <1>7, <1>8, <2>1
<1>9. set \in Compiler!Range(request.sets) /\ names[i] = [kind |-> "linked", key |-> set.key]
  <2>1. NameOf(request, request.parameters[c].key) = names[i]
    BY <1>4
  <2> HIDE DEF names, set
  <2>2. QED
    BY <1>8, <2>1
<1>10. Compiler!LinkedSetIsValid(set)
  <2> HIDE DEF set
  <2>1. c \in DOMAIN request.parameters
    BY <1>3
  <2>2. \A own \in Compiler!Range(request.sets) : Compiler!LinkedSetIsValid(own)
    BY <2>1, LinkedSetsAreFew
  <2>3. QED
    BY <1>9, <2>2
<1>11. AreParameterChoices(request, i, ParameterSizes(request)[i])
  BY ParameterChoices
<1>12. row \in Compiler!Range(set.rows)
  <2>1. x \in DOMAIN a.choices
    BY <1>11 DEF AreParameterChoices
  <2>2. QED
    BY <1>7, <2>1 DEF Compiler!Range
<1>13. IsTableOf(request, set, row, l)
  <2> HIDE DEF set, row
  <2>1. QED
    BY <1>9, <1>10, <1>12, RowsAreTables DEF l
<1> DEFINE J == [k \in 1 .. n |-> CHOOSE j \in 1 .. l : set.members[j] = request.parameters[k].key]
<1>14. ASSUME NEW k \in 1 .. n, R[k] = i
       PROVE  /\ J[k] \in 1 .. l /\ set.members[J[k]] = request.parameters[k].key
              /\ f[k] = Compiler!StringBytes(row[J[k]])
  <2> DEFINE key == request.parameters[k].key
             value == ParameterOf(request.sets, AxesOf(request, p), d, key)
  <2>1. NameOf(request, key) = names[i]
    BY <1>6, <1>14
  <2>2. key \in Compiler!Range(set.members)
    <3> HIDE DEF names, set
    <3>1. QED
      BY <1>8, <2>1
  <2>3. IsValueOf(value, a, row, request.sets, key)
    <3>1. k \in DOMAIN request.parameters /\ ParameterNames(request)[i] = NameOf(request, key)
      BY <1>3, <2>1
    <3>2. QED
      BY <3>1, ParameterIsAt
  <2>4. f[k] = Compiler!StringBytes(value)
    BY DEF AreBytes
  <2>5. a.kind = "linked" /\ Compiler!Keyed(request.sets, a.key) = set
    BY <1>2
  <2> HIDE DEF names, set, row, key, value, l, a
  <2>6. \E j \in 1 .. l : set.members[j] = key
    BY <1>13, <2>2 DEF IsTableOf, Compiler!Range
  <2>7. J[k] = CHOOSE j \in 1 .. l : set.members[j] = key
    BY DEF key
  <2>8. J[k] \in 1 .. l /\ set.members[J[k]] = key
    <3> DEFINE j == CHOOSE j \in 1 .. l : set.members[j] = key
    <3>1. j \in 1 .. l /\ set.members[j] = key
      BY <2>6
    <3> HIDE DEF j
    <3> HIDE DEF J
    <3>2. J[k] = j
      BY <2>7 DEF j
    <3>3. QED
      BY <3>1, <3>2
  <2> HIDE DEF J
  <2>9. IsValueOf(value, a, row, request.sets, set.members[J[k]])
    BY <2>3, <2>8
  <2>10. value = row[J[k]]
    <3>1. IsMemberValue(value, request, set, row, l, request.sets, a, J[k])
      BY <1>13, <2>5, <2>8, <2>9 DEF IsMemberValue
    <3>2. QED
      BY <3>1, ValueOfMember
  <2>11. QED
    BY <2>4, <2>8, <2>10 DEF key
<1>15. ASSUME NEW k \in 1 .. n, NEW j \in 1 .. l, request.parameters[k].key = set.members[j] PROVE R[k] = i
  <2> DEFINE key == request.parameters[k].key
  <2>1. k \in DOMAIN request.parameters
    BY <1>3
  <2>2. \A own \in Compiler!Range(request.sets) :
          key \in Compiler!Range(own.members) => NameOf(request, key) = [kind |-> "linked", key |-> own.key]
    BY <2>1, NameOfMember
  <2> HIDE DEF set, key, names
  <2>3. key \in Compiler!Range(set.members)
    <3>1. j \in DOMAIN set.members
      BY <1>13 DEF IsTableOf
    <3>2. key = set.members[j]
      BY <1>15 DEF key
    <3>3. QED
      BY <3>1, <3>2 DEF Compiler!Range
  <2>4. NameOf(request, key) = names[i]
    BY <1>9, <2>2, <2>3
  <2>5. names[R[k]] = names[i] /\ R[k] \in 1 .. q
    BY <1>6, <2>4 DEF key
  <2>6. QED
    BY <1>5, <2>5
<1>16. AreMembers(R, J, f, request, set, row, l, i, n)
  <2>1. f = [k \in 1 .. n |-> f[k]]
    BY DEF AreBytes
  <2>2. DOMAIN R = 1 .. n
    BY <1>6
  <2> HIDE DEF set, row, l, n, J
  <2>3. QED
    BY <1>3, <1>13, <1>14, <1>15, <2>1, <2>2 DEF AreMembers
<1>17. ParameterBytes(a, x) = Total(BytesOfValues(row))
  <2>1. a.kind # "parameter"
    OBVIOUS
  <2>2. QED
    BY <2>1 DEF ParameterBytes
<1> HIDE DEF set, row, l, n, J, a, x
<1>18. QED
  BY <1>16, <1>17, BytesOfMembers DEF a, x, n

LEMMA BytesOfParameters ==
  ASSUME Compiler!IsRequest(request), IsCountable(request), Sound, ParametersDiffer(request), NEW p,
         NEW v, NEW m, NEW q, AreSizes(request, p, v, m, q), AreAxes(request, p, v, m, q),
         NEW d, \A i \in 1 .. q : d[v + m + i] \in 1 .. ParameterSizes(request)[i],
         NEW f, AreBytes(f, request, p, d),
         NEW h, h = [i \in 1 .. q |-> ParameterBytes(ParameterAxesOf(request)[i], d[v + m + i])]
  PROVE  Total(f) = Total(h) /\ h \in [1 .. q -> Int]
<1> DEFINE names == ParameterNames(request)
           n == Len(request.parameters)
           R == [k \in 1 .. n |-> CHOOSE i \in 1 .. q : names[i] = NameOf(request, request.parameters[k].key)]
<1>1. DOMAIN names = 1 .. q /\ q \in Nat
  BY DEF AreSizes
<1>2. DOMAIN request.parameters = 1 .. n /\ n \in Nat
  BY CompilerLists DEF Compiler!IsRequest
<1>3. \A k \in 1 .. n : \E i \in 1 .. q : names[i] = NameOf(request, request.parameters[k].key)
  BY <1>1, <1>2, DimensionsAreListedOnce
<1>4. AreDimensions(R, request, q)
  <2> HIDE DEF names
  <2>1. \A k \in 1 .. n : R[k] \in 1 .. q /\ names[R[k]] = NameOf(request, request.parameters[k].key)
    BY <1>3
  <2>2. R \in [1 .. n -> 1 .. q]
    BY <2>1
  <2> HIDE DEF R
  <2>3. QED
    BY <2>1, <2>2 DEF AreDimensions, names
<1> HIDE DEF names, R
<1>5. \A i \in 1 .. q :
        /\ Total(InClass(f, R, i, n)) = ParameterBytes(ParameterAxesOf(request)[i], d[v + m + i])
        /\ \A k \in 1 .. n : R[k] = i => f[k] \in Nat
  <2> SUFFICES ASSUME NEW i \in 1 .. q
               PROVE  /\ Total(InClass(f, R, i, n)) = ParameterBytes(ParameterAxesOf(request)[i], d[v + m + i])
                      /\ \A k \in 1 .. n : R[k] = i => f[k] \in Nat
    OBVIOUS
  <2>1. ParameterAxesOf(request)[i].kind \in {"parameter", "linked"}
    BY ParameterChoices DEF AreParameterChoices
  <2>2. d[v + m + i] \in 1 .. ParameterSizes(request)[i]
    OBVIOUS
  <2>3. CASE ParameterAxesOf(request)[i].kind = "parameter"
    BY <1>4, <2>2, <2>3, BytesOfIndependent
  <2>4. CASE ParameterAxesOf(request)[i].kind = "linked"
    BY <1>4, <2>2, <2>4, BytesOfLinked
  <2>5. QED
    BY <2>1, <2>3, <2>4
<1>6. R \in [1 .. n -> 1 .. q]
  BY <1>4 DEF AreDimensions
<1>7. AreClasses(f, R, n, q)
  <2>1. \A k \in 1 .. n : f[k] \in Nat
    BY <1>5, <1>6
  <2>2. f = [k \in 1 .. n |-> f[k]]
    BY DEF AreBytes
  <2>3. f \in [1 .. n -> Int]
    BY <2>1, <2>2
  <2>4. R \in [1 .. n -> 0 .. q] /\ \A k \in 1 .. n : R[k] = 0 => f[k] = 0
    BY <1>1, <1>6
  <2>5. QED
    BY <2>3, <2>4 DEF AreClasses
<1>8. AreClassTotals(h, f, R, n, q)
  BY <1>5 DEF AreClassTotals
<1>9. h = [i \in 1 .. q |-> h[i]]
  OBVIOUS
<1> HIDE DEF n
<1>10. QED
  BY ONLY <1>1, <1>2, <1>7, <1>8, <1>9, TotalOfClasses

-----------------------------------------------------------------------------
(* The text and the variables of a Job.                                    *)
LEMMA RankOfPlace ==
  ASSUME NEW v \in Nat, NEW n \in 1 .. v
  PROVE  Cardinality(1 .. v) = v /\ Compiler!Nth(1 .. v, n) = n
<1> DEFINE S == 1 .. v
           x == Compiler!Nth(S, n)
<1>1. S \in SUBSET Int /\ IsFiniteSet(S) /\ Cardinality(S) = v
  BY FS_Interval
<1>2. n \in 1 .. Cardinality(S)
  BY <1>1
<1> HIDE DEF S
<1>3. x \in S /\ Cardinality({j \in S : j <= x}) = n
  BY <1>1, <1>2, EveryRankIsTaken
<1> HIDE DEF x
<1>4. {j \in S : j <= x} = 1 .. x /\ x \in Nat
  BY <1>3 DEF S
<1>5. Cardinality(1 .. x) = x
  BY <1>4, FS_Interval
<1>6. QED
  BY <1>1, <1>3, <1>4, <1>5 DEF S, x

HaveKinds(r, p, v, m, q) ==
    \A i \in 1 .. (v + m + q) :
      /\ AxesOf(r, p)[i].kind = "variable" <=> i \in 1 .. v
      /\ AxesOf(r, p)[i].kind = "image" <=> i \in (v + 1) .. (v + m)

LEMMA KindsOfAxes ==
  ASSUME NEW r, Compiler!IsRequest(r), IsCountable(r), NEW p \in Compiler!Range(r.prompts),
         NEW v, NEW m, NEW q, AreSizes(r, p, v, m, q), AreAxes(r, p, v, m, q)
  PROVE  HaveKinds(r, p, v, m, q)
<1>1. v \in Nat /\ m \in Nat /\ q \in Nat /\ DOMAIN r.slots = 1 .. m
  BY DEF AreSizes
<1>2. /\ \A i \in 1 .. v : AxesOf(r, p)[i] = VariableAxesOf(r, p)[i]
      /\ \A i \in 1 .. m : AxesOf(r, p)[v + i] = ImageAxesOf(r)[i]
      /\ \A i \in 1 .. q : AxesOf(r, p)[v + m + i] = ParameterAxesOf(r)[i]
  BY DEF AreAxes
<1>3. \A i \in 1 .. v : VariableAxesOf(r, p)[i].kind = "variable"
  BY VariableChoices DEF AreVariableChoices
<1>4. \A i \in 1 .. m : ImageAxesOf(r)[i].kind = "image"
  BY <1>1 DEF ImageAxesOf
<1>5. \A i \in 1 .. q : ParameterAxesOf(r)[i].kind \in {"parameter", "linked"}
  BY ParameterChoices DEF AreParameterChoices
<1> SUFFICES ASSUME NEW i \in 1 .. (v + m + q)
             PROVE  /\ AxesOf(r, p)[i].kind = "variable" <=> i \in 1 .. v
                    /\ AxesOf(r, p)[i].kind = "image" <=> i \in (v + 1) .. (v + m)
  BY DEF HaveKinds
<1>6. CASE i \in 1 .. v
  <2>1. AxesOf(r, p)[i].kind = "variable"
    BY <1>2, <1>3, <1>6
  <2>2. i \notin (v + 1) .. (v + m)
    BY <1>1, <1>6
  <2>3. QED
    BY <1>6, <2>1, <2>2
<1>7. ASSUME NEW k \in 1 .. m, i = v + k
      PROVE  /\ AxesOf(r, p)[i].kind = "variable" <=> i \in 1 .. v
             /\ AxesOf(r, p)[i].kind = "image" <=> i \in (v + 1) .. (v + m)
  <2>1. AxesOf(r, p)[i].kind = "image"
    BY <1>2, <1>4, <1>7
  <2>2. i \notin 1 .. v /\ i \in (v + 1) .. (v + m)
    BY <1>1, <1>7
  <2>3. QED
    BY <2>1, <2>2
<1>8. ASSUME NEW k \in 1 .. q, i = v + m + k
      PROVE  /\ AxesOf(r, p)[i].kind = "variable" <=> i \in 1 .. v
             /\ AxesOf(r, p)[i].kind = "image" <=> i \in (v + 1) .. (v + m)
  <2>1. AxesOf(r, p)[i].kind \in {"parameter", "linked"}
    BY <1>2, <1>5, <1>8
  <2>2. i \notin 1 .. v /\ i \notin (v + 1) .. (v + m)
    BY <1>1, <1>8
  <2>3. AxesOf(r, p)[i].kind # "variable" /\ AxesOf(r, p)[i].kind # "image"
    BY <2>1
  <2>4. QED
    BY <2>2, <2>3
<1>9. i \in 1 .. v \/ (\E k \in 1 .. m : i = v + k) \/ (\E k \in 1 .. q : i = v + m + k)
  BY <1>1, PartOfPlace
<1>10. QED
  BY <1>6, <1>7, <1>8, <1>9

\* The variables of a Job are the choices of its first dimensions.
LEMMA VariablesOfJob ==
  ASSUME NEW r, Compiler!IsRequest(r), IsCountable(r), NEW p \in Compiler!Range(r.prompts),
         NEW v, NEW m, NEW q, AreSizes(r, p, v, m, q), AreAxes(r, p, v, m, q), NEW d, NEW seed,
         NEW b, b = [n \in 1 .. v |-> VariableAxesOf(r, p)[n].choices[d[n]].bytes]
  PROVE  Compiler!BytesOf(JobOf(r, p, d, seed).variables) = Total(b)
<1> DEFINE axes == AxesOf(r, p)
           S == {i \in DOMAIN axes : axes[i].kind = "variable"}
           places == PlacesOf(axes, "variable")
           chosen == JobOf(r, p, d, seed).variables
<1>1. v \in Nat /\ m \in Nat /\ q \in Nat
  BY DEF AreSizes
<1>2. DOMAIN axes = 1 .. (v + m + q) /\ \A i \in 1 .. v : axes[i] = VariableAxesOf(r, p)[i]
  BY DEF AreAxes
<1>3. \A i \in 1 .. (v + m + q) : axes[i].kind = "variable" <=> i \in 1 .. v
  BY KindsOfAxes DEF HaveKinds
<1>4. chosen = [n \in DOMAIN places |-> ChosenOf(axes, d)[places[n]]]
  BY DEF JobOf, JobWith
<1>5. places = [n \in 1 .. Compiler!Cardinality(S) |-> [i \in DOMAIN axes |-> i][Compiler!Nth(S, n)]]
  BY DEF PlacesOf, Compiler!ElementsAt
<1> HIDE DEF axes, places, chosen
<1>6. S = 1 .. v
  BY <1>1, <1>2, <1>3
<1> HIDE DEF S
<1>7. Compiler!Cardinality(S) = v /\ \A n \in 1 .. v : Compiler!Nth(S, n) = n
  <2>1. Cardinality(1 .. v) = v
    BY <1>1, FS_Interval
  <2>2. \A n \in 1 .. v : Compiler!Nth(1 .. v, n) = n
    BY <1>1, RankOfPlace
  <2>3. Compiler!Cardinality(S) = Cardinality(S)
    BY CompilerNames
  <2>4. QED
    BY <1>6, <2>1, <2>2, <2>3
<1>8. DOMAIN places = 1 .. v /\ \A n \in 1 .. v : places[n] = n
  <2>1. \A n \in 1 .. v : n \in DOMAIN axes
    BY <1>1, <1>2
  <2>2. QED
    BY <1>5, <1>7, <2>1
<1>9. DOMAIN chosen = 1 .. v /\ \A n \in 1 .. v : chosen[n] = VariableAxesOf(r, p)[n].choices[d[n]]
  <2>1. \A n \in 1 .. v : n \in DOMAIN axes
    BY <1>1, <1>2
  <2>2. \A n \in 1 .. v : ChosenOf(axes, d)[n] = axes[n].choices[d[n]]
    BY <2>1 DEF ChosenOf
  <2>3. QED
    BY <1>2, <1>4, <1>8, <2>2
<1>10. [i \in DOMAIN chosen |-> chosen[i].bytes] = b
  BY <1>9
<1>11. Compiler!BytesOf(chosen) = Total(b)
  BY <1>10, CompilerSums DEF Compiler!BytesOf
<1>12. QED
  BY <1>11 DEF chosen

\* The text of a Job, and how often it holds each of them.
AreTexts(h, b, r, p, v, d) ==
    /\ b = [n \in 1 .. v |-> VariableAxesOf(r, p)[n].choices[d[n]].bytes]
    /\ h = [n \in 1 .. v |-> Compiler!Occurrences(p, Compiler!Names(p.text)[n]) * b[n]]
    /\ \A n \in 1 .. v : d[n] \in 1 .. VariableSizes(r, p)[n]

LEMMA TextOfJobIs ==
  ASSUME NEW r, Compiler!IsRequest(r), IsCountable(r), NEW p \in Compiler!Range(r.prompts),
         NEW v, NEW m, NEW q, AreSizes(r, p, v, m, q), AreAxes(r, p, v, m, q),
         NEW d, NEW seed, NEW b, NEW h, AreTexts(h, b, r, p, v, d)
  PROVE  /\ Compiler!BytesOf(JobOf(r, p, d, seed).text) = Compiler!LiteralBytes(p) + Total(h)
         /\ h \in [1 .. v -> Int] /\ b \in [1 .. v -> Int]
<1> DEFINE axes == AxesOf(r, p)
           names == Compiler!Names(p.text)
           t == JobOf(r, p, d, seed).text
<1>1. v \in Nat /\ m \in Nat /\ q \in Nat /\ DOMAIN names = 1 .. v
  BY DEF AreSizes
<1>2. DOMAIN axes = 1 .. (v + m + q) /\ \A i \in 1 .. v : axes[i] = VariableAxesOf(r, p)[i]
  BY DEF AreAxes
<1>3. Compiler!IsList(p.text)
  BY DEF Compiler!IsRequest
<1>4. AreNamesOf(names, p.text)
  BY <1>3, NamesAreListedOnce
<1>5. \A n \in 1 .. v : VariableAxesOf(r, p)[n].choices[d[n]].bytes \in Nat
  <2> SUFFICES ASSUME NEW n \in 1 .. v PROVE VariableAxesOf(r, p)[n].choices[d[n]].bytes \in Nat
    OBVIOUS
  <2>1. AreVariableChoices(r, p, n, VariableSizes(r, p)[n])
    BY VariableChoices
  <2>2. \A x \in 1 .. VariableSizes(r, p)[n] : VariableAxesOf(r, p)[n].choices[x].bytes \in Nat
    BY <2>1 DEF AreVariableChoices
  <2>3. d[n] \in 1 .. VariableSizes(r, p)[n]
    BY DEF AreTexts
  <2>4. QED
    BY <2>2, <2>3
<1>6. b \in [1 .. v -> Int]
  BY <1>5 DEF AreTexts
<1>7. t = [n \in DOMAIN p.text |->
             IF p.text[n] = Compiler!Literal THEN Compiler!LiteralChunk
             ELSE ChosenOf(axes, d)[CHOOSE i \in DOMAIN names : names[i] = p.text[n]]]
  BY DEF JobOf, JobWith, ResolvedOf
<1>8. /\ \A n \in DOMAIN names : names[n] # Compiler!Literal
      /\ \A x, y \in DOMAIN names : names[x] = names[y] => x = y
  BY <1>4 DEF AreNamesOf
<1> HIDE DEF axes, names, t
<1>9. \A n \in 1 .. v : ChosenOf(axes, d)[n] = VariableAxesOf(r, p)[n].choices[d[n]]
  <2>1. \A n \in 1 .. v : n \in DOMAIN axes
    BY <1>1, <1>2
  <2>2. QED
    BY <1>2, <2>1 DEF ChosenOf
<1>10. IsFilled(t, p.text, names, b)
  <2>1. DOMAIN t = DOMAIN p.text
    BY <1>7
  <2>2. \A i \in DOMAIN p.text : p.text[i] = Compiler!Literal => t[i].bytes = 1
    <3>1. Compiler!LiteralChunk.bytes = 1
      BY DEF Compiler!LiteralChunk
    <3>2. QED
      BY <1>7, <3>1
  <2>3. ASSUME NEW i \in DOMAIN p.text, NEW n \in DOMAIN names, p.text[i] = names[n] PROVE t[i].bytes = b[n]
    <3>1. p.text[i] # Compiler!Literal
      BY <1>8, <2>3
    <3>2. (CHOOSE k \in DOMAIN names : names[k] = p.text[i]) = n
      BY <1>8, <2>3
    <3>3. t[i] = ChosenOf(axes, d)[CHOOSE k \in DOMAIN names : names[k] = p.text[i]]
      BY <1>7, <3>1
    <3>4. t[i] = ChosenOf(axes, d)[n] /\ n \in 1 .. v
      BY <1>1, <3>2, <3>3
    <3>5. b[n] = VariableAxesOf(r, p)[n].choices[d[n]].bytes
      BY <3>4 DEF AreTexts
    <3>6. QED
      BY <1>9, <3>4, <3>5
  <2>4. QED
    BY <2>1, <2>2, <2>3 DEF IsFilled
<1>11. h = [n \in 1 .. v |-> Compiler!Occurrences(p, names[n]) * b[n]]
  BY DEF names, AreTexts
<1>12. Compiler!BytesOf(t) = Compiler!LiteralBytes(p) + Total(h) /\ h \in [1 .. v -> Int]
  BY ONLY <1>1, <1>3, <1>4, <1>6, <1>10, <1>11, BytesOfFilled
<1>13. QED
  BY <1>6, <1>12 DEF t

\* A Job's bytes are its prompt's literals and what each of its choices adds.
ChargeOf(p, a, x) ==
    IF a.kind = "variable" THEN (Compiler!Occurrences(p, a.key) + Compiler!Provenance) * a.choices[x].bytes
    ELSE IF a.kind = "image" THEN 0
    ELSE ParameterBytes(a, x)
Charges(r, p) ==
    [i \in 1 .. Len(AxisSizes(r, p)) |-> [x \in 1 .. AxisSizes(r, p)[i] |-> ChargeOf(p, AxesOf(r, p)[i], x)]]

AreParts(e, r, p, d, v, m, q) ==
    /\ v \in Nat /\ m \in Nat /\ q \in Nat
    /\ \A n \in 1 .. v :
         e[n] = (Compiler!Occurrences(p, Compiler!Names(p.text)[n]) + 1) * VariableAxesOf(r, p)[n].choices[d[n]].bytes
    /\ \A n \in 1 .. m : e[v + n] = 0
    /\ \A n \in 1 .. q : e[v + m + n] = ParameterBytes(ParameterAxesOf(r)[n], d[v + m + n])
    /\ e = [i \in 1 .. (v + m + q) |-> e[i]]

LEMMA ChargesAreParts ==
  ASSUME NEW r, Compiler!IsRequest(r), IsCountable(r), NEW p \in Compiler!Range(r.prompts),
         NEW v, NEW m, NEW q, AreSizes(r, p, v, m, q), AreAxes(r, p, v, m, q),
         NEW d, Chooses(AxisSizes(r, p), d),
         NEW e, e = [i \in 1 .. Len(AxisSizes(r, p)) |-> Charges(r, p)[i][d[i]]]
  PROVE  AreParts(e, r, p, d, v, m, q)
<1> DEFINE s == AxisSizes(r, p)
           l == v + m + q
<1>1. v \in Nat /\ m \in Nat /\ q \in Nat /\ Len(s) = l
  BY DEF AreSizes
<1>2. \A i \in 1 .. l : d[i] \in 1 .. s[i]
  BY <1>1 DEF Chooses
<1>3. \A i \in 1 .. l : e[i] = ChargeOf(p, AxesOf(r, p)[i], d[i])
  BY <1>1, <1>2 DEF Charges
<1>4. /\ \A i \in 1 .. v : AxesOf(r, p)[i] = VariableAxesOf(r, p)[i]
      /\ \A i \in 1 .. m : AxesOf(r, p)[v + i] = ImageAxesOf(r)[i]
      /\ \A i \in 1 .. q : AxesOf(r, p)[v + m + i] = ParameterAxesOf(r)[i]
  BY DEF AreAxes
<1>5. \A i \in 1 .. v : VariableAxesOf(r, p)[i].kind = "variable" /\ VariableAxesOf(r, p)[i].key = Compiler!Names(p.text)[i]
  BY VariableChoices DEF AreVariableChoices
<1>6. HaveKinds(r, p, v, m, q)
  BY KindsOfAxes
<1>7. ASSUME NEW n \in 1 .. v
      PROVE  e[n] = (Compiler!Occurrences(p, Compiler!Names(p.text)[n]) + 1) * VariableAxesOf(r, p)[n].choices[d[n]].bytes
  <2>1. n \in 1 .. l
    BY <1>1
  <2>2. e[n] = ChargeOf(p, VariableAxesOf(r, p)[n], d[n])
    BY <1>3, <1>4, <2>1
  <2>3. QED
    BY <1>5, <2>2 DEF ChargeOf, Compiler!Provenance
<1>8. ASSUME NEW n \in 1 .. m PROVE e[v + n] = 0
  <2>1. v + n \in 1 .. l /\ v + n \in (v + 1) .. (v + m)
    BY <1>1
  <2>2. AxesOf(r, p)[v + n].kind = "image"
    BY <1>6, <2>1 DEF HaveKinds
  <2>3. AxesOf(r, p)[v + n].kind # "variable"
    BY <2>2
  <2>4. e[v + n] = ChargeOf(p, AxesOf(r, p)[v + n], d[v + n])
    BY <1>3, <2>1
  <2>5. QED
    BY <2>2, <2>3, <2>4 DEF ChargeOf
<1>9. ASSUME NEW n \in 1 .. q PROVE e[v + m + n] = ParameterBytes(ParameterAxesOf(r)[n], d[v + m + n])
  <2>1. v + m + n \in 1 .. l /\ v + m + n \notin (v + 1) .. (v + m) /\ v + m + n \notin 1 .. v
    BY <1>1
  <2>2. AxesOf(r, p)[v + m + n].kind # "image" /\ AxesOf(r, p)[v + m + n].kind # "variable"
    BY <1>6, <2>1 DEF HaveKinds
  <2>3. e[v + m + n] = ChargeOf(p, AxesOf(r, p)[v + m + n], d[v + m + n])
    BY <1>3, <2>1
  <2>4. AxesOf(r, p)[v + m + n] = ParameterAxesOf(r)[n]
    BY <1>4
  <2>5. QED
    BY <2>2, <2>3, <2>4 DEF ChargeOf
<1>10. e = [i \in 1 .. l |-> e[i]]
  BY <1>1
<1> HIDE DEF s
<1>11. QED
  BY <1>1, <1>7, <1>8, <1>9, <1>10 DEF AreParts

\* A list of three parts: the first is a sum of two, the second is nothing.
AreThree(e, g, b, h, v, m, q) ==
    /\ v \in Nat /\ m \in Nat /\ q \in Nat /\ g \in [1 .. v -> Int] /\ b \in [1 .. v -> Int] /\ h \in [1 .. q -> Int]
    /\ \A n \in 1 .. v : e[n] = g[n] + b[n]
    /\ \A n \in 1 .. m : e[v + n] = 0
    /\ \A n \in 1 .. q : e[v + m + n] = h[n]
    /\ e = [i \in 1 .. (v + m + q) |-> e[i]]

LEMMA TotalOfThree ==
  ASSUME NEW e, NEW g, NEW b, NEW h, NEW v, NEW m, NEW q, AreThree(e, g, b, h, v, m, q)
  PROVE  Total(e) = Total(g) + Total(b) + Total(h) /\ e \in [1 .. (v + m + q) -> Int]
<1>1. /\ v \in Nat /\ m \in Nat /\ q \in Nat /\ g \in [1 .. v -> Int] /\ b \in [1 .. v -> Int] /\ h \in [1 .. q -> Int]
      /\ \A n \in 1 .. v : e[n] = g[n] + b[n]
      /\ \A n \in 1 .. m : e[v + n] = 0
      /\ \A n \in 1 .. q : e[v + m + n] = h[n]
  BY DEF AreThree
<1>0. e = [i \in 1 .. (v + m + q) |-> e[i]]
  BY DEF AreThree
<1>2. e \in [1 .. (v + m + q) -> Int]
  <2> SUFFICES ASSUME NEW i \in 1 .. (v + m + q) PROVE e[i] \in Int
    BY <1>0
  <2>1. CASE i \in 1 .. v
    BY <1>1, <2>1
  <2>2. CASE \E k \in 1 .. m : i = v + k
    BY <1>1, <2>2
  <2>3. CASE \E k \in 1 .. q : i = v + m + k
    BY <1>1, <2>3
  <2>4. i \in 1 .. v \/ (\E k \in 1 .. m : i = v + k) \/ (\E k \in 1 .. q : i = v + m + k)
    BY <1>1, PartOfPlace
  <2>5. QED
    BY <2>1, <2>2, <2>3, <2>4
<1> DEFINE x == [n \in 1 .. v |-> g[n] + b[n]]
           u == [n \in 1 .. (m + q) |-> e[v + n]]
           z == [n \in 1 .. m |-> 0]
<1>3. x \in [1 .. v -> Int] /\ \A n \in 1 .. v : x[n] = g[n] + b[n]
  BY <1>1
<1>4. z \in [1 .. m -> Int] /\ \A n \in 1 .. m : z[n] = 0
  OBVIOUS
<1>5. \A n \in 1 .. (m + q) : v + n \in 1 .. (v + m + q)
  BY <1>1
<1>6. u \in [1 .. m + q -> Int] /\ \A n \in 1 .. (m + q) : u[n] = e[v + n]
  BY <1>2, <1>5
<1>7. (\A n \in 1 .. m : z[n] = u[n]) /\ \A n \in 1 .. q : h[n] = u[m + n]
  <2>1. ASSUME NEW n \in 1 .. m PROVE z[n] = u[n]
    <3>1. n \in 1 .. (m + q)
      BY <1>1
    <3>2. QED
      BY <1>1, <1>4, <1>6, <3>1
  <2>2. ASSUME NEW n \in 1 .. q PROVE h[n] = u[m + n]
    <3>1. m + n \in 1 .. (m + q) /\ v + (m + n) = v + m + n
      BY <1>1
    <3>2. QED
      BY <1>1, <1>6, <3>1
  <2>3. QED
    BY <2>1, <2>2
<1> HIDE DEF x, u, z
<1>8. Total(x) = Total(g) + Total(b) /\ Total(x) \in Int
  BY <1>1, <1>3, TotalOfBoth, TotalIsInteger
<1>9. Total(z) = 0
  <2>1. m \in Nat /\ 0 \in Int
    BY <1>1
  <2>3. Total(z) = m * 0
    BY ONLY <1>4, <2>1, TotalOfEqual
  <2>2. QED
    BY <2>1, <2>3
<1>10. Total(u) = Total(z) + Total(h)
  <2>1. m \in Nat /\ q \in Nat /\ h \in [1 .. q -> Int]
    BY <1>1
  <2>2. QED
    BY ONLY <1>4, <1>6, <1>7, <2>1, TotalOfJoined
<1>11. Total(e) = Total(x) + Total(u)
  <2> DEFINE c == m + q
  <2>1. v \in Nat /\ c \in Nat
    BY <1>1
  <2>2. e \in [1 .. v + c -> Int]
    <3>1. v + c = v + m + q
      BY <1>1
    <3>2. QED
      BY <1>2, <3>1
  <2>3. u \in [1 .. c -> Int] /\ \A n \in 1 .. c : u[n] = e[v + n]
    BY <1>6
  <2>4. \A n \in 1 .. v : x[n] = e[n]
    BY <1>1, <1>3
  <2>5. x \in [1 .. v -> Int]
    BY <1>3
  <2> HIDE DEF c
  <2>6. QED
    BY ONLY <2>1, <2>2, <2>3, <2>4, <2>5, TotalOfJoined
<1>12. Total(h) \in Int /\ Total(g) \in Int /\ Total(b) \in Int
  BY <1>1, TotalIsInteger
<1>13. QED
  BY <1>2, <1>8, <1>9, <1>10, <1>11, <1>12

\* A Job is as long as its choices make it.
LEMMA BytesOfJobAre ==
  ASSUME Compiler!IsRequest(request), IsCountable(request), Sound, ParametersDiffer(request),
         NEW p \in Compiler!Range(request.prompts), NEW d, Chooses(AxisSizes(request, p), d), NEW seed,
         NEW e, e = [i \in 1 .. Len(AxisSizes(request, p)) |-> Charges(request, p)[i][d[i]]]
  PROVE  /\ Compiler!BytesOfJob(JobOf(request, p, d, seed)) = Compiler!LiteralBytes(p) + Total(e)
         /\ e \in [1 .. Len(AxisSizes(request, p)) -> Int]
<1>1. PICK v, m, q : AreSizes(request, p, v, m, q) /\ AreAxes(request, p, v, m, q)
  BY PartsAre
<1>2. /\ v \in Nat /\ m \in Nat /\ q \in Nat /\ Len(AxisSizes(request, p)) = v + m + q
      /\ \A i \in 1 .. v : AxisSizes(request, p)[i] = VariableSizes(request, p)[i]
      /\ \A i \in 1 .. q : AxisSizes(request, p)[v + m + i] = ParameterSizes(request)[i]
  BY <1>1 DEF AreSizes
<1> DEFINE job == JobOf(request, p, d, seed)
           names == Compiler!Names(p.text)
           b == [n \in 1 .. v |-> VariableAxesOf(request, p)[n].choices[d[n]].bytes]
           g == [n \in 1 .. v |-> Compiler!Occurrences(p, names[n]) * b[n]]
           f == [k \in 1 .. Len(request.parameters) |->
                   Compiler!StringBytes(ParameterOf(request.sets, AxesOf(request, p), d, request.parameters[k].key))]
           h == [i \in 1 .. q |-> ParameterBytes(ParameterAxesOf(request)[i], d[v + m + i])]
<1>3. \A i \in 1 .. (v + m + q) : d[i] \in 1 .. AxisSizes(request, p)[i]
  BY <1>2 DEF Chooses
<1>4. \A n \in 1 .. v : d[n] \in 1 .. VariableSizes(request, p)[n]
  <2>1. \A n \in 1 .. v : n \in 1 .. (v + m + q)
    BY <1>2
  <2>2. QED
    BY <1>2, <1>3, <2>1
<1>5. \A n \in 1 .. q : d[v + m + n] \in 1 .. ParameterSizes(request)[n]
  <2>1. \A n \in 1 .. q : v + m + n \in 1 .. (v + m + q)
    BY <1>2
  <2>2. QED
    BY <1>2, <1>3, <2>1
<1>6. /\ Compiler!BytesOf(job.text) = Compiler!LiteralBytes(p) + Total(g)
      /\ g \in [1 .. v -> Int] /\ b \in [1 .. v -> Int]
  <2> DEFINE bb == b
             gg == g
  <2>1. AreTexts(gg, bb, request, p, v, d)
    BY <1>4 DEF AreTexts
  <2> HIDE DEF bb, gg
  <2>2. /\ Compiler!BytesOf(JobOf(request, p, d, seed).text) = Compiler!LiteralBytes(p) + Total(gg)
        /\ gg \in [1 .. v -> Int] /\ bb \in [1 .. v -> Int]
    BY <1>1, <2>1, TextOfJobIs
  <2>3. QED
    BY <2>2 DEF bb, gg
<1>7. Compiler!BytesOf(job.variables) = Total(b)
  <2> DEFINE bb == b
  <2>1. bb = [n \in 1 .. v |-> VariableAxesOf(request, p)[n].choices[d[n]].bytes]
    OBVIOUS
  <2> HIDE DEF bb
  <2>2. Compiler!BytesOf(JobOf(request, p, d, seed).variables) = Total(bb)
    BY <1>1, <2>1, VariablesOfJob
  <2>3. QED
    BY <2>2 DEF bb
<1>8. Total(f) = Total(h) /\ h \in [1 .. q -> Int]
  <2>1. AreBytes(f, request, p, d)
    <3> HIDE DEF job, g, b, h
    <3>1. QED
      BY DEF AreBytes
  <2> DEFINE ff == f
             hh == h
  <2>2. hh = [i \in 1 .. q |-> ParameterBytes(ParameterAxesOf(request)[i], d[v + m + i])]
    OBVIOUS
  <2>3. AreBytes(ff, request, p, d)
    BY <2>1
  <2> HIDE DEF ff, hh
  <2>4. Total(ff) = Total(hh) /\ hh \in [1 .. q -> Int]
    BY <1>1, <1>5, <2>2, <2>3, BytesOfParameters
  <2>5. QED
    BY <2>4 DEF ff, hh
<1>9. Total([i \in DOMAIN job.parameters |-> Compiler!StringBytes(job.parameters[i])]) = Total(f)
  <2>1. DOMAIN request.parameters = 1 .. Len(request.parameters)
    BY CompilerLists DEF Compiler!IsRequest
  <2>2. job.parameters = [n \in DOMAIN request.parameters |-> ParameterOf(request.sets, AxesOf(request, p), d, request.parameters[n].key)]
    BY DEF JobOf, JobWith
  <2> HIDE DEF job
  <2>3. [i \in DOMAIN job.parameters |-> Compiler!StringBytes(job.parameters[i])] = f
    BY <2>1, <2>2
  <2>4. QED
    BY <2>3
<1>10. AreParts(e, request, p, d, v, m, q)
  BY <1>1, ChargesAreParts
<1>11. AreThree(e, g, b, h, v, m, q)
  <2>1. \A n \in 1 .. v :
          e[n] = (Compiler!Occurrences(p, names[n]) + 1) * VariableAxesOf(request, p)[n].choices[d[n]].bytes
    BY <1>10 DEF AreParts
  <2>2. \A n \in 1 .. v : e[n] = g[n] + b[n]
    <3> SUFFICES ASSUME NEW n \in 1 .. v PROVE e[n] = g[n] + b[n]
      OBVIOUS
    <3> DEFINE o == Compiler!Occurrences(p, names[n])
               x == VariableAxesOf(request, p)[n].choices[d[n]].bytes
    <3>1. o \in Nat
      BY CountsAreNatural DEF Compiler!IsRequest
    <3>2. x \in Int
      <4>1. b[n] \in Int
        BY <1>6
      <4>2. QED
        BY <4>1
    <3>3. e[n] = (o + 1) * x /\ g[n] = o * x /\ b[n] = x
      BY <2>1
    <3> HIDE DEF o, x, g, b
    <3>4. (o + 1) * x = o * x + x
      BY <3>1, <3>2
    <3>5. QED
      BY <3>3, <3>4
  <2> HIDE DEF g, b, h
  <2>3. /\ v \in Nat /\ m \in Nat /\ q \in Nat
        /\ \A n \in 1 .. m : e[v + n] = 0
        /\ \A n \in 1 .. q : e[v + m + n] = ParameterBytes(ParameterAxesOf(request)[n], d[v + m + n])
    BY <1>10 DEF AreParts
  <2>4. e = [i \in 1 .. (v + m + q) |-> e[i]]
    BY <1>10 DEF AreParts
  <2>5. \A n \in 1 .. q : e[v + m + n] = h[n]
    BY <2>3 DEF h
  <2>6. QED
    BY <1>6, <1>8, <2>2, <2>3, <2>4, <2>5 DEF AreThree
<1> HIDE DEF job, g, b, h, f
<1>12. Total(e) = Total(g) + Total(b) + Total(h) /\ e \in [1 .. (v + m + q) -> Int]
  BY ONLY <1>11, TotalOfThree
<1>13. Compiler!BytesOfJob(job) = Compiler!BytesOf(job.text) + Compiler!BytesOf(job.variables) + Total(f)
  BY <1>9, CompilerSums DEF Compiler!BytesOfJob
<1>14. Total(g) \in Int /\ Total(b) \in Int /\ Total(h) \in Int
  BY <1>2, <1>6, <1>8, TotalIsInteger
<1>15. Compiler!LiteralBytes(p) \in Nat
  BY CountsAreNatural DEF Compiler!IsRequest
<1>16. QED
  BY <1>2, <1>6, <1>7, <1>8, <1>12, <1>13, <1>14, <1>15 DEF job

-----------------------------------------------------------------------------
(* What the choices of a dimension hold in all.                            *)
AreChargeTotals(w, r, p, v, m, q) ==
    /\ \A n \in 1 .. v :
         Total(w[n]) = (Compiler!Occurrences(p, Compiler!Names(p.text)[n]) + 1) * Total(Compiler!Sizes(VariableAxesOf(r, p)[n]))
    /\ \A n \in 1 .. m : Total(w[v + n]) = 0
    /\ \A n \in 1 .. q : Total(w[v + m + n]) = ParameterText(r, ParameterNames(r)[n])

LEMMA ChargesOfVariable ==
  ASSUME NEW r, NEW p, Compiler!IsList(p.text), NEW i, NEW s, AreVariableChoices(r, p, i, s),
         NEW w, w = [x \in 1 .. s |-> ChargeOf(p, VariableAxesOf(r, p)[i], x)]
  PROVE  /\ w \in [1 .. s -> Int]
         /\ Total(w) = (Compiler!Occurrences(p, Compiler!Names(p.text)[i]) + 1) * Total(Compiler!Sizes(VariableAxesOf(r, p)[i]))
         /\ Compiler!Sizes(VariableAxesOf(r, p)[i]) \in [1 .. s -> Int]
<1> DEFINE a == VariableAxesOf(r, p)[i]
           o == Compiler!Occurrences(p, Compiler!Names(p.text)[i])
           g == Compiler!Sizes(a)
           c == o + 1
<1>1. /\ a.kind = "variable" /\ a.key = Compiler!Names(p.text)[i]
      /\ s \in Positive /\ DOMAIN a.choices = 1 .. s
      /\ \A x \in 1 .. s : a.choices[x].bytes \in Nat
  BY DEF AreVariableChoices
<1>2. o \in Nat
  BY CountsAreNatural
<1>3. g = [x \in 1 .. s |-> a.choices[x].bytes]
  BY <1>1 DEF Compiler!Sizes
<1>4. \A x \in 1 .. s : w[x] = c * a.choices[x].bytes
  BY <1>1 DEF ChargeOf, Compiler!Provenance
<1>5. w = [x \in 1 .. s |-> w[x]]
  OBVIOUS
<1> HIDE DEF a, o, g
<1>6. c \in Nat
  BY <1>2
<1> HIDE DEF c
<1>7. g \in [1 .. s -> Int] /\ \A x \in 1 .. s : g[x] = a.choices[x].bytes
  BY <1>1, <1>3
<1>8. \A x \in 1 .. s : w[x] \in Int
  <2>1. \A y, z \in Nat : y * z \in Int
    OBVIOUS
  <2>2. QED
    BY <1>1, <1>4, <1>6, <2>1
<1>9. w \in [1 .. s -> Int]
  BY <1>5, <1>8
<1>10. AreMultiples(w, g, s, c)
  <2>1. \A x \in 1 .. s : w[x] = c * g[x]
    BY <1>4, <1>7
  <2>2. QED
    BY <1>6, <1>7, <1>9, <2>1 DEF AreMultiples
<1>11. s \in Nat
  BY <1>1 DEF Positive
<1>12. Total(w) = c * Total(g)
  BY <1>10, <1>11, MultipleOfTotal
<1>13. QED
  BY <1>7, <1>9, <1>12 DEF a, g, c, o

AreChargesOf(w, r, p, i, s) == w = [x \in 1 .. s |-> ChargeOf(p, ParameterAxesOf(r)[i], x)]

LEMMA ChargesOfParameter ==
  ASSUME NEW r, NEW p, NEW i, NEW s, AreParameterChoices(r, i, s), NEW w, AreChargesOf(w, r, p, i, s)
  PROVE  w \in [1 .. s -> Int] /\ Total(w) = ParameterText(r, ParameterNames(r)[i])
<1> DEFINE a == ParameterAxesOf(r)[i]
<1>1. /\ a.kind \in {"parameter", "linked"}
      /\ s \in Positive /\ DOMAIN a.choices = 1 .. s
      /\ a.kind = "parameter" => \A x \in 1 .. s : Compiler!StringBytes(a.choices[x]) \in Nat
      /\ a.kind = "linked" =>
           \A x \in 1 .. s : /\ Compiler!IsList(a.choices[x])
                             /\ \A j \in DOMAIN a.choices[x] : Compiler!StringBytes(a.choices[x][j]) \in Nat
      /\ Compiler!AxisBytes(a) = ParameterText(r, ParameterNames(r)[i])
  BY DEF AreParameterChoices
<1>2. a.kind # "variable" /\ a.kind # "image"
  BY <1>1
<1>3. w = [x \in 1 .. s |-> ParameterBytes(a, x)]
  BY <1>2 DEF ChargeOf, AreChargesOf
<1> HIDE DEF a
<1>4. CASE a.kind = "parameter"
  <2>1. w = [x \in 1 .. s |-> Compiler!StringBytes(a.choices[x])]
    BY <1>3, <1>4 DEF ParameterBytes
  <2>2. w \in [1 .. s -> Int]
    BY <1>1, <1>4, <2>1
  <2>3. Compiler!AxisBytes(a) = Compiler!Total(w)
    BY <1>1, <1>4, <2>1 DEF Compiler!AxisBytes
  <2>4. QED
    BY <1>1, <2>2, <2>3, CompilerSums DEF a
<1>5. CASE a.kind = "linked"
  <2>1. a.kind # "parameter"
    BY <1>5
  <2>2. w = [x \in 1 .. s |-> Total(BytesOfValues(a.choices[x]))]
    BY <1>3, <2>1 DEF ParameterBytes
  <2>3. \A x \in 1 .. s : Total(BytesOfValues(a.choices[x])) \in Int
    <3> SUFFICES ASSUME NEW x \in 1 .. s PROVE Total(BytesOfValues(a.choices[x])) \in Int
      OBVIOUS
    <3> DEFINE row == a.choices[x]
               l == Len(row)
               h == BytesOfValues(row)
    <3>1. Compiler!IsList(row) /\ \A j \in DOMAIN row : Compiler!StringBytes(row[j]) \in Nat
      BY <1>1, <1>5
    <3> HIDE DEF row
    <3>2. l \in Nat /\ DOMAIN row = 1 .. l
      BY <3>1, CompilerLists
    <3>3. h \in [1 .. l -> Int]
      BY <3>1, <3>2 DEF BytesOfValues
    <3> HIDE DEF h, l
    <3>4. Total(h) \in Int
      BY <3>2, <3>3, TotalIsInteger
    <3>5. QED
      BY <3>4 DEF h, row
  <2>4. w \in [1 .. s -> Int]
    BY <2>2, <2>3
  <2>5. \A row : Compiler!Total([j \in DOMAIN row |-> Compiler!StringBytes(row[j])]) = Total(BytesOfValues(row))
    BY CompilerSums DEF BytesOfValues
  <2>6. Compiler!AxisBytes(a) = Compiler!Total(w)
    <3>1. Compiler!AxisBytes(a) = Compiler!Total([x \in DOMAIN a.choices |->
            Compiler!Total([j \in DOMAIN a.choices[x] |-> Compiler!StringBytes(a.choices[x][j])])])
      BY <2>1 DEF Compiler!AxisBytes
    <3>2. [x \in DOMAIN a.choices |->
            Compiler!Total([j \in DOMAIN a.choices[x] |-> Compiler!StringBytes(a.choices[x][j])])] = w
      BY <1>1, <2>2, <2>5
    <3>3. QED
      BY <3>1, <3>2
  <2>7. QED
    BY <1>1, <2>4, <2>6, CompilerSums DEF a
<1>6. QED
  BY <1>1, <1>4, <1>5

LEMMA ChargesAreTotals ==
  ASSUME NEW r, Compiler!IsRequest(r), IsCountable(r), NEW p \in Compiler!Range(r.prompts),
         NEW v, NEW m, NEW q, AreSizes(r, p, v, m, q), AreAxes(r, p, v, m, q)
  PROVE  AreCharges(AxisSizes(r, p), Charges(r, p)) /\ AreChargeTotals(Charges(r, p), r, p, v, m, q)
<1> DEFINE s == AxisSizes(r, p)
           w == Charges(r, p)
           l == v + m + q
<1>1. /\ v \in Nat /\ m \in Nat /\ q \in Nat /\ Len(s) = l
      /\ \A i \in 1 .. v : s[i] = VariableSizes(r, p)[i]
      /\ \A i \in 1 .. q : s[v + m + i] = ParameterSizes(r)[i]
      /\ s \in Seq(Positive)
  BY DEF AreSizes
<1>2. /\ \A i \in 1 .. v : AxesOf(r, p)[i] = VariableAxesOf(r, p)[i]
      /\ \A i \in 1 .. q : AxesOf(r, p)[v + m + i] = ParameterAxesOf(r)[i]
  BY DEF AreAxes
<1>3. \A i \in 1 .. l : w[i] = [x \in 1 .. s[i] |-> ChargeOf(p, AxesOf(r, p)[i], x)]
  BY <1>1 DEF Charges
<1>4. HaveKinds(r, p, v, m, q)
  BY KindsOfAxes
<1>5. Compiler!IsList(p.text)
  BY DEF Compiler!IsRequest
<1> HIDE DEF s, w
<1>6. ASSUME NEW n \in 1 .. v
      PROVE  /\ w[n] \in [1 .. s[n] -> Int]
             /\ Total(w[n]) = (Compiler!Occurrences(p, Compiler!Names(p.text)[n]) + 1) * Total(Compiler!Sizes(VariableAxesOf(r, p)[n]))
  <2> DEFINE u == w[n]
             k == VariableSizes(r, p)[n]
  <2>1. n \in 1 .. l
    BY <1>1
  <2>2. u = [x \in 1 .. k |-> ChargeOf(p, VariableAxesOf(r, p)[n], x)] /\ s[n] = k
    BY <1>1, <1>2, <1>3, <2>1
  <2>3. AreVariableChoices(r, p, n, k)
    BY VariableChoices
  <2> HIDE DEF u, k
  <2>4. u \in [1 .. k -> Int] /\
        Total(u) = (Compiler!Occurrences(p, Compiler!Names(p.text)[n]) + 1) * Total(Compiler!Sizes(VariableAxesOf(r, p)[n]))
    BY ONLY <1>5, <2>2, <2>3, ChargesOfVariable
  <2>5. QED
    BY <2>2, <2>4 DEF u
<1>7. ASSUME NEW n \in 1 .. m
      PROVE  w[v + n] \in [1 .. s[v + n] -> Int] /\ Total(w[v + n]) = 0
  <2> DEFINE u == w[v + n]
             k == s[v + n]
  <2>1. v + n \in 1 .. l /\ v + n \in (v + 1) .. (v + m)
    BY <1>1
  <2>2. AxesOf(r, p)[v + n].kind = "image"
    BY <1>4, <2>1 DEF HaveKinds
  <2>3. AxesOf(r, p)[v + n].kind # "variable"
    BY <2>2
  <2>4. u = [x \in 1 .. k |-> ChargeOf(p, AxesOf(r, p)[v + n], x)]
    BY <1>3, <2>1
  <2>5. \A x : ChargeOf(p, AxesOf(r, p)[v + n], x) = 0
    BY <2>2, <2>3 DEF ChargeOf
  <2>6. k \in Nat
    BY <1>1, <2>1 DEF Positive
  <2> HIDE DEF u, k
  <2>7. u \in [1 .. k -> Int] /\ \A x \in 1 .. k : u[x] = 0
    BY <2>4, <2>5
  <2>8. 0 \in Int /\ k * 0 = 0
    BY <2>6
  <2>9. Total(u) = k * 0
    BY ONLY <2>6, <2>7, <2>8, TotalOfEqual
  <2>10. QED
    BY <2>7, <2>8, <2>9 DEF u, k
<1>8. ASSUME NEW n \in 1 .. q
      PROVE  w[v + m + n] \in [1 .. s[v + m + n] -> Int] /\ Total(w[v + m + n]) = ParameterText(r, ParameterNames(r)[n])
  <2> DEFINE u == w[v + m + n]
             k == ParameterSizes(r)[n]
  <2>1. v + m + n \in 1 .. l
    BY <1>1
  <2>2. u = [x \in 1 .. k |-> ChargeOf(p, ParameterAxesOf(r)[n], x)] /\ s[v + m + n] = k
    BY <1>1, <1>2, <1>3, <2>1
  <2>3. AreParameterChoices(r, n, k)
    BY ParameterChoices
  <2> HIDE DEF u, k
  <2>4. u \in [1 .. k -> Int] /\ Total(u) = ParameterText(r, ParameterNames(r)[n])
    <3>1. AreChargesOf(u, r, p, n, k)
      BY <2>2 DEF AreChargesOf
    <3>2. QED
      BY <2>3, <3>1, ChargesOfParameter
  <2>5. QED
    BY <2>2, <2>4 DEF u
<1>9. \A i \in 1 .. l : w[i] \in [1 .. s[i] -> Int]
  <2> SUFFICES ASSUME NEW i \in 1 .. l PROVE w[i] \in [1 .. s[i] -> Int]
    OBVIOUS
  <2>1. i \in 1 .. v \/ (\E k \in 1 .. m : i = v + k) \/ (\E k \in 1 .. q : i = v + m + k)
    BY <1>1, PartOfPlace
  <2>2. QED
    BY <1>6, <1>7, <1>8, <2>1
<1>10. AreCharges(s, w)
  BY <1>1, <1>9 DEF AreCharges
<1>11. AreChargeTotals(w, r, p, v, m, q)
  BY <1>6, <1>7, <1>8 DEF AreChargeTotals
<1>12. QED
  BY <1>10, <1>11 DEF s, w

-----------------------------------------------------------------------------
(* The number of configurations is that of the variants, of the images and *)
(* of the parameters, multiplied.                                          *)
IsPair(j, s, t, a, b) ==
    /\ a \in Nat /\ b \in Nat
    /\ j \in Seq(Nat \ {0}) /\ s \in Seq(Nat \ {0}) /\ t \in Seq(Nat \ {0})
    /\ Len(s) = a /\ Len(t) = b /\ Len(j) = a + b
    /\ \A i \in 1 .. a : j[i] = s[i]
    /\ \A i \in 1 .. b : j[a + i] = t[i]

LEMMA ProductOfPair ==
  ASSUME NEW j, NEW s, NEW t, NEW a, NEW b, IsPair(j, s, t, a, b)
  PROVE  Product(j) = Product(s) * Product(t)
<1> DEFINE o == Products(j)
           p == Products(s)
           q == Products(t)
           S == {k \in 0 .. a : o[k] = p[k]}
           T == {k \in 0 .. b : o[a + k] = p[a] * q[k]}
<1>1. /\ a \in Nat /\ b \in Nat
      /\ j \in Seq(Nat \ {0}) /\ s \in Seq(Nat \ {0}) /\ t \in Seq(Nat \ {0})
      /\ Len(s) = a /\ Len(t) = b /\ Len(j) = a + b
  BY DEF IsPair
<1>2. (\A i \in 1 .. a : j[i] = s[i]) /\ \A i \in 1 .. b : j[a + i] = t[i]
  BY DEF IsPair
<1>3. /\ o[0] = 1 /\ Product(j) = o[a + b]
      /\ \A k \in 1 .. (a + b) : o[k] = o[k - 1] * j[k]
      /\ \A k \in 0 .. (a + b) : o[k] \in Nat \ {0}
  BY <1>1, ProductsOf
<1>4. /\ p[0] = 1 /\ Product(s) = p[a]
      /\ \A k \in 1 .. a : p[k] = p[k - 1] * s[k]
      /\ \A k \in 0 .. a : p[k] \in Nat \ {0}
  BY <1>1, ProductsOf
<1>5. /\ q[0] = 1 /\ Product(t) = q[b]
      /\ \A k \in 1 .. b : q[k] = q[k - 1] * t[k]
      /\ \A k \in 0 .. b : q[k] \in Nat \ {0}
  BY <1>1, ProductsOf
<1>6. (\A i \in 1 .. a : j[i] \in Nat) /\ \A i \in 1 .. b : j[a + i] \in Nat /\ t[i] \in Nat
  <2>1. \A i \in 1 .. (a + b) : j[i] \in Nat
    BY <1>1
  <2>2. \A i \in 1 .. b : a + i \in 1 .. (a + b)
    BY <1>1
  <2>3. \A i \in 1 .. a : i \in 1 .. (a + b)
    BY <1>1
  <2>4. \A i \in 1 .. b : t[i] \in Nat
    BY <1>1
  <2>5. QED
    BY <2>1, <2>2, <2>3, <2>4
<1> HIDE DEF o, p, q
<1>7. 0 \in S
  BY <1>1, <1>3, <1>4
<1>8. ASSUME NEW k \in 0 .. a, k \in S, k < a PROVE k + 1 \in S
  <2>1. k + 1 \in 1 .. a /\ k + 1 \in 1 .. (a + b) /\ (k + 1) - 1 = k /\ k + 1 \in 0 .. a
    <3>1. a \in Nat /\ b \in Nat /\ k \in 0 .. a /\ k < a
      BY <1>1, <1>8
    <3>2. QED
      BY ONLY <3>1
  <2>2. o[k + 1] = o[k] * j[k + 1]
    BY <1>3, <2>1
  <2>3. p[k + 1] = p[k] * s[k + 1]
    BY <1>4, <2>1
  <2>4. j[k + 1] = s[k + 1] /\ o[k] = p[k]
    BY <1>2, <1>8, <2>1
  <2>5. QED
    BY <2>1, <2>2, <2>3, <2>4
<1>9. 0 .. a \subseteq S
  <2> HIDE DEF S
  <2>1. \A k \in 0 .. a : k \in S /\ k < a => k + 1 \in S
    BY <1>8
  <2>2. a \in Nat
    BY <1>1
  <2>3. QED
    BY ONLY <1>7, <2>1, <2>2, UpToBound
<1>10. o[a] = p[a]
  <2>1. a \in 0 .. a
    BY <1>1
  <2>2. QED
    BY <1>9, <2>1
<1>11. 0 \in T
  <2>1. a + 0 = a /\ 0 \in 0 .. b /\ a \in 0 .. a
    BY <1>1
  <2>2. p[a] * 1 = p[a]
    BY <1>4, <2>1
  <2>3. QED
    BY <1>5, <1>10, <2>1, <2>2
<1>12. ASSUME NEW k \in 0 .. b, k \in T, k < b PROVE k + 1 \in T
  <2>1. /\ k + 1 \in 1 .. b /\ a + (k + 1) \in 1 .. (a + b) /\ (k + 1) - 1 = k /\ k + 1 \in 0 .. b
        /\ (a + (k + 1)) - 1 = a + k /\ a \in 0 .. a
    BY <1>1, <1>12
  <2>2. o[a + (k + 1)] = o[a + k] * j[a + (k + 1)]
    BY <1>3, <2>1
  <2>3. q[k + 1] = q[k] * t[k + 1]
    BY <1>5, <2>1
  <2>4. j[a + (k + 1)] = t[k + 1] /\ o[a + k] = p[a] * q[k] /\ t[k + 1] \in Nat
    BY <1>2, <1>6, <1>12, <2>1
  <2>5. p[a] \in Nat /\ q[k] \in Nat
    BY <1>4, <1>5, <2>1
  <2>6. (p[a] * q[k]) * t[k + 1] = p[a] * (q[k] * t[k + 1])
    BY <2>4, <2>5
  <2>7. QED
    BY <2>1, <2>2, <2>3, <2>4, <2>6
<1>13. 0 .. b \subseteq T
  <2> HIDE DEF T
  <2>1. \A k \in 0 .. b : k \in T /\ k < b => k + 1 \in T
    BY <1>12
  <2>2. b \in Nat
    BY <1>1
  <2>3. QED
    BY ONLY <1>11, <2>1, <2>2, UpToBound
<1>14. o[a + b] = p[a] * q[b]
  <2>1. b \in 0 .. b
    BY <1>1
  <2>2. QED
    BY <1>13, <2>1
<1>15. QED
  BY <1>3, <1>4, <1>5, <1>14

LEMMA PartsMultiply ==
  ASSUME NEW r, NEW p, NEW v, NEW m, NEW q, AreSizes(r, p, v, m, q)
  PROVE  /\ Product(AxisSizes(r, p)) = Product(VariableSizes(r, p)) * (Product(ImageSizes(r)) * Product(ParameterSizes(r)))
         /\ Product(VariableSizes(r, p)) \in Nat \ {0} /\ Product(ImageSizes(r)) \in Nat \ {0}
         /\ Product(ParameterSizes(r)) \in Nat \ {0} /\ IsDimensions(AxisSizes(r, p))
<1> DEFINE j == AxisSizes(r, p)
           s == VariableSizes(r, p)
           t == ImageSizes(r)
           u == ParameterSizes(r)
           x == [i \in 1 .. (m + q) |-> j[v + i]]
<1>1. /\ v \in Nat /\ m \in Nat /\ q \in Nat
      /\ s \in Seq(Nat \ {0}) /\ Len(s) = v /\ t \in Seq(Nat \ {0}) /\ Len(t) = m
      /\ u \in Seq(Nat \ {0}) /\ Len(u) = q
      /\ Len(j) = v + m + q /\ j \in Seq(Nat \ {0})
  BY DEF AreSizes, Positive
<1>2. /\ \A i \in 1 .. v : j[i] = s[i]
      /\ \A i \in 1 .. m : j[v + i] = t[i]
      /\ \A i \in 1 .. q : j[v + m + i] = u[i]
  BY DEF AreSizes
<1> HIDE DEF j, s, t, u
<1>3. m + q \in Nat /\ v + (m + q) = v + m + q
  BY <1>1
<1>4. \A i \in 1 .. (m + q) : j[v + i] \in Nat \ {0}
  <2>1. \A i \in 1 .. (m + q) : v + i \in 1 .. Len(j)
    BY <1>1
  <2>2. QED
    BY <1>1, <2>1
<1>5. x \in [1 .. (m + q) -> Nat \ {0}] /\ \A i \in 1 .. (m + q) : x[i] = j[v + i]
  BY <1>4
<1> HIDE DEF x
<1>6. x \in Seq(Nat \ {0}) /\ Len(x) = m + q
  BY <1>3, <1>5, FunctionIsList
<1>7. IsPair(x, t, u, m, q)
  <2>1. \A i \in 1 .. m : x[i] = t[i]
    <3>1. \A i \in 1 .. m : i \in 1 .. (m + q)
      BY <1>1
    <3>2. QED
      BY <1>2, <1>5, <3>1
  <2>2. \A i \in 1 .. q : x[m + i] = u[i]
    <3>1. \A i \in 1 .. q : m + i \in 1 .. (m + q) /\ v + (m + i) = v + m + i
      BY <1>1
    <3>2. QED
      BY <1>2, <1>5, <3>1
  <2>3. QED
    BY <1>1, <1>6, <2>1, <2>2 DEF IsPair
<1>8. IsPair(j, s, x, v, m + q)
  BY <1>1, <1>2, <1>3, <1>5, <1>6 DEF IsPair
<1>9. Product(j) = Product(s) * Product(x) /\ Product(x) = Product(t) * Product(u)
  BY <1>7, <1>8, ProductOfPair
<1>10. Product(s) \in Nat \ {0} /\ Product(t) \in Nat \ {0} /\ Product(u) \in Nat \ {0}
  BY <1>1, ProductsOf
<1>11. IsDimensions(j)
  BY <1>1 DEF IsDimensions
<1>12. QED
  BY <1>9, <1>10, <1>11 DEF j, s, t, u

-----------------------------------------------------------------------------
(* The bytes of all configurations of a prompt, as the budget counts them. *)
Times(s, i) == Weight(s, i) * Products(s)[i - 1]

LEMMA TimesAre ==
  ASSUME NEW s, IsDimensions(s), NEW i \in 1 .. Len(s)
  PROVE  /\ Times(s, i) \in Nat /\ s[i] \in Nat \ {0} /\ Product(s) \in Nat \ {0}
         /\ Product(s) = Times(s, i) * s[i] /\ Product(s) \div s[i] = Times(s, i)
<1> DEFINE w == Weight(s, i)
           b == Products(s)[i - 1]
           x == s[i]
<1>1. s \in Seq(Nat \ {0}) /\ Len(s) \in Nat
  BY DEF IsDimensions
<1>2. x \in Nat \ {0}
  BY <1>1
<1>3. i \in 0 .. Len(s) /\ i - 1 \in 0 .. Len(s)
  BY <1>1
<1>4. w \in Nat \ {0}
  BY <1>3, WeightIs
<1>5. b \in Nat \ {0} /\ Products(s)[i] = b * x /\ Product(s) \in Nat \ {0}
  BY <1>1, <1>3, ProductsOf
<1>6. Products(s)[i] * w = Product(s)
  BY <1>3, WeightCompletes
<1> HIDE DEF w, b, x
<1>7. (b * x) * w = (w * b) * x /\ w * b \in Nat
  <2>1. \A e, f, g \in Nat : (f * g) * e = (e * f) * g /\ e * f \in Nat
    OBVIOUS
  <2>2. QED
    BY <1>2, <1>4, <1>5, <2>1
<1>8. Product(s) = (w * b) * x
  BY <1>5, <1>6, <1>7
<1> DEFINE k == w * b
<1>9. k \in Nat /\ Product(s) = k * x /\ x \in Positive
  BY <1>2, <1>7, <1>8 DEF Positive
<1> HIDE DEF k
<1>10. Product(s) \div x = k
  BY <1>9, QuotientOfMultiple
<1>11. QED
  BY <1>2, <1>5, <1>9, <1>10 DEF Times, k, w, b, x

\* A variable's share is that of the variants, for every image and every parameter.
LEMMA ShareOfVariable ==
  ASSUME NEW V \in Nat, NEW X \in Nat, NEW k \in Nat, NEW s \in Positive, V = k * s,
         NEW y \in Nat, y * s = V * X, NEW o \in Nat, NEW t \in Nat
  PROVE  y * (o * t) = X * (o * t * (V \div s))
<1>1. V \div s = k
  BY QuotientOfMultiple
<1>2. y = k * X
  <2>1. s \in Nat /\ s # 0
    BY DEF Positive
  <2>2. (k * s) * X = (k * X) * s
    BY <2>1
  <2>3. y * s = (k * X) * s
    BY <2>2
  <2>4. k * X \in Nat
    OBVIOUS
  <2> DEFINE z == k * X
  <2>5. z \in Nat /\ y * s = z * s /\ s \in Positive
    BY <2>3, <2>4
  <2> HIDE DEF z
  <2>6. (y * s) \div s = y /\ (z * s) \div s = z
    BY <2>5, QuotientOfMultiple
  <2>7. QED
    BY <2>5, <2>6 DEF z
<1> DEFINE a == o * t
<1>3. a \in Nat
  BY o \in Nat, t \in Nat
<1> HIDE DEF a
<1>4. (k * X) * a = X * (a * k)
  BY <1>3
<1>5. QED
  BY <1>1, <1>2, <1>4 DEF a

ShareOf(r, p, n) == (Product(AxisSizes(r, p)) \div ParameterSizes(r)[n]) * ParameterText(r, ParameterNames(r)[n])
SharesOfParameters(r, p, q) == [n \in 1 .. q |-> ShareOf(r, p, n)]
CostOf(r, p) == Product(AxisSizes(r, p)) * Compiler!LiteralBytes(p) + Total(Shares(AxisSizes(r, p), Charges(r, p)))

AreTextsOf(g, r, p, v, X) ==
    g \in [1 .. v -> Int] /\ \A n \in 1 .. v : g[n] = X * VariableTexts(r, p)[n]

LEMMA VariableTextsAre ==
  ASSUME NEW r, Compiler!IsRequest(r), IsCountable(r), NEW p \in Compiler!Range(r.prompts),
         NEW v, NEW m, NEW q, AreSizes(r, p, v, m, q), AreAxes(r, p, v, m, q)
  PROVE  /\ VariableTexts(r, p) \in [1 .. v -> Int]
         /\ \A n \in 1 .. v : VariableTexts(r, p)[n] \in Nat /\ 
              Times(AxisSizes(r, p), n) * Total(Charges(r, p)[n]) =
                (Product(ImageSizes(r)) * Product(ParameterSizes(r))) * VariableTexts(r, p)[n]
<1> DEFINE s == AxisSizes(r, p)
           w == Charges(r, p)
           V == Product(VariableSizes(r, p))
           X == Product(ImageSizes(r)) * Product(ParameterSizes(r))
           T == VariableTexts(r, p)
<1>1. /\ v \in Nat /\ m \in Nat /\ q \in Nat /\ Len(s) = v + m + q
      /\ \A i \in 1 .. v : s[i] = VariableSizes(r, p)[i]
      /\ VariableSizes(r, p) \in Seq(Positive) /\ Len(VariableSizes(r, p)) = v
      /\ DOMAIN Compiler!Names(p.text) = 1 .. v
  BY DEF AreSizes
<1>2. Product(s) = V * X /\ V \in Nat /\ X \in Nat /\ IsDimensions(s)
  <2>1. Product(ImageSizes(r)) \in Nat /\ Product(ParameterSizes(r)) \in Nat
    BY PartsMultiply
  <2>2. X \in Nat
    <3> HIDE DEF X
    <3>1. \A e, f \in Nat : e * f \in Nat
      OBVIOUS
    <3>2. QED
      BY <2>1, <3>1 DEF X
  <2>3. QED
    BY <2>2, PartsMultiply
<1>3. AreChargeTotals(w, r, p, v, m, q)
  BY ChargesAreTotals
<1>4. DOMAIN T = 1 .. v /\ \A n \in 1 .. v : T[n] = VariableText(r, p, VariableAxesOf(r, p)[n])
  BY <1>1 DEF VariableTexts, VariableAxesOf
<1>5. T = [n \in 1 .. v |-> T[n]]
  BY <1>1 DEF VariableTexts, VariableAxesOf
<1> HIDE DEF T, X, V, w
<1>6. ASSUME NEW n \in 1 .. v
      PROVE  T[n] \in Nat /\ Times(s, n) * Total(w[n]) = X * T[n]
  <2> DEFINE a == VariableAxesOf(r, p)[n]
             c == Compiler!Occurrences(p, Compiler!Names(p.text)[n]) + 1
             t == Total(Compiler!Sizes(a))
             x == s[n]
             y == Times(s, n)
             g == Compiler!Sizes(a)
  <2>1. n \in 1 .. Len(s)
    BY <1>1
  <2>2. y \in Nat /\ x \in Nat \ {0} /\ Product(s) = y * x
    BY <1>2, <2>1, TimesAre
  <2>3. AreVariableChoices(r, p, n, VariableSizes(r, p)[n])
    BY VariableChoices
  <2>4. /\ a.key = Compiler!Names(p.text)[n] /\ Len(a.choices) = x /\ DOMAIN a.choices = 1 .. x
        /\ \A k \in 1 .. x : a.choices[k].bytes \in Nat
    BY <1>1, <2>3 DEF AreVariableChoices
  <2>5. c \in Nat
    BY CountsAreNatural DEF Compiler!IsRequest
  <2>6. g \in [1 .. x -> Nat]
    BY <2>4 DEF Compiler!Sizes
  <2>7. t \in Nat
    <3> HIDE DEF g, x
    <3>1. x \in Nat
      BY <2>2
    <3>2. Total(g) \in Nat
      BY <2>6, <3>1, TotalIsNatural
    <3>3. QED
      BY <3>2 DEF g
  <2>8. \E k \in Nat : V = k * x
    <3>1. \E k \in Nat : Compiler!Product(VariableSizes(r, p)) = k * VariableSizes(r, p)[n]
      BY <1>1, FactorOfProduct
    <3>2. QED
      BY <1>1, <3>1, CompilerSums DEF V
  <2>9. PICK k \in Nat : V = k * x
    BY <2>8
  <2>10. T[n] = c * t * (V \div x)
    <3>1. T[n] = (Compiler!Occurrences(p, a.key) + Compiler!Provenance) * Compiler!Total(Compiler!Sizes(a))
                  * (Variants(r, p) \div Len(a.choices))
      BY <1>4 DEF VariableText
    <3>2. Variants(r, p) = V /\ Compiler!Total(Compiler!Sizes(a)) = t /\ Compiler!Provenance = 1
      BY CompilerSums DEF Variants, V, Compiler!Provenance
    <3> HIDE DEF a, x, t
    <3>3. QED
      BY <2>4, <3>1, <3>2
  <2>11. Total(w[n]) = c * t
    BY <1>3 DEF AreChargeTotals
  <2> HIDE DEF a, c, t, x, y, g
  <2>12. y * x = V * X /\ x \in Positive
    BY <1>2, <2>2 DEF Positive
  <2>13. y * (c * t) = X * (c * t * (V \div x))
    BY ONLY <1>2, <2>2, <2>5, <2>7, <2>9, <2>12, ShareOfVariable
  <2>14. c * t * (V \div x) \in Nat
    <3>1. V \div x = k /\ k \in Nat
      BY <2>9, <2>12, QuotientOfMultiple
    <3>2. \A d, e, f \in Nat : d * e * f \in Nat
      OBVIOUS
    <3>3. QED
      BY <2>5, <2>7, <3>1, <3>2
  <2>15. QED
    BY <2>10, <2>11, <2>13, <2>14 DEF y
<1> HIDE DEF s
<1>7. T \in [1 .. v -> Int]
  BY <1>5, <1>6
<1>8. QED
  BY <1>6, <1>7 DEF T, X, w, s

LEMMA CostIs ==
  ASSUME NEW r, Compiler!IsRequest(r), IsCountable(r), NEW p \in Compiler!Range(r.prompts),
         NEW v, NEW m, NEW q, AreSizes(r, p, v, m, q), AreAxes(r, p, v, m, q)
  PROVE  /\ CostOf(r, p) = PromptText(r, p) + Total(SharesOfParameters(r, p, q))
         /\ SharesOfParameters(r, p, q) \in [1 .. q -> Int] /\ CostOf(r, p) \in Int
         /\ \A n \in 1 .. q : /\ Product(AxisSizes(r, p)) \div ParameterSizes(r)[n] \in Nat
                              /\ (Product(AxisSizes(r, p)) \div ParameterSizes(r)[n]) * ParameterSizes(r)[n] = Product(AxisSizes(r, p))
                              /\ ParameterText(r, ParameterNames(r)[n]) \in Int
<1> DEFINE s == AxisSizes(r, p)
           w == Charges(r, p)
           e == Shares(s, w)
           V == Product(VariableSizes(r, p))
           Y == Product(ImageSizes(r))
           Z == Product(ParameterSizes(r))
           X == Y * Z
           T == VariableTexts(r, p)
           g == [n \in 1 .. v |-> X * T[n]]
           b == [n \in 1 .. v |-> 0]
           h == SharesOfParameters(r, p, q)
           L == Compiler!LiteralBytes(p)
           W == Product(s)
           text(n) == ParameterText(r, ParameterNames(r)[n])
<1>1. /\ v \in Nat /\ m \in Nat /\ q \in Nat /\ Len(s) = v + m + q
      /\ \A n \in 1 .. q : s[v + m + n] = ParameterSizes(r)[n]
  BY DEF AreSizes
<1>2. W = V * X /\ V \in Nat /\ Y \in Nat /\ Z \in Nat /\ IsDimensions(s)
  BY PartsMultiply
<1>3. X \in Nat
  <2> HIDE DEF Y, Z
  <2>1. \A x, y \in Nat : x * y \in Nat
    OBVIOUS
  <2>2. QED
    BY <1>2, <2>1
<1>4. L \in Nat
  BY CountsAreNatural DEF Compiler!IsRequest
<1>5. AreCharges(s, w) /\ AreChargeTotals(w, r, p, v, m, q)
  BY ChargesAreTotals
<1>6. /\ T \in [1 .. v -> Int]
      /\ \A n \in 1 .. v : T[n] \in Nat /\ Times(s, n) * Total(w[n]) = X * T[n]
  BY VariableTextsAre
<1>7. PromptText(r, p) = Y * Z * (L * V + Total(T))
  BY CompilerSums DEF PromptText, VariantText, Variants
<1> HIDE DEF L, T, X, Y, Z, V
<1>8. \A i \in 1 .. (v + m + q) : e[i] = Times(s, i) * Total(w[i])
  BY <1>1 DEF Shares, Times
<1>9. e = [i \in 1 .. (v + m + q) |-> e[i]]
  BY <1>1 DEF Shares
<1>10. \A n \in 1 .. q : text(n) \in Int
  <2> SUFFICES ASSUME NEW n \in 1 .. q PROVE text(n) \in Int
    OBVIOUS
  <2>1. AreParameterChoices(r, n, ParameterSizes(r)[n])
    BY ParameterChoices
  <2> DEFINE k == ParameterSizes(r)[n]
             u == [x \in 1 .. k |-> ChargeOf(p, ParameterAxesOf(r)[n], x)]
  <2>2. AreChargesOf(u, r, p, n, k)
    BY DEF AreChargesOf
  <2> HIDE DEF u, k
  <2>3. AreParameterChoices(r, n, k)
    BY <2>1 DEF k
  <2>4. u \in [1 .. k -> Int] /\ Total(u) = text(n)
    BY <2>2, <2>3, ChargesOfParameter
  <2>5. k \in Nat
    BY <2>3 DEF AreParameterChoices, Positive
  <2>6. Total(u) \in Int
    BY <2>4, <2>5, TotalIsInteger
  <2>7. QED
    BY <2>4, <2>6
<1> HIDE DEF text
<1>11. \A n \in 1 .. q :
         /\ W \div ParameterSizes(r)[n] \in Nat /\ (W \div ParameterSizes(r)[n]) * ParameterSizes(r)[n] = W
         /\ e[v + m + n] = h[n] /\ h[n] = (W \div ParameterSizes(r)[n]) * text(n)
  <2> SUFFICES ASSUME NEW n \in 1 .. q
               PROVE  /\ W \div ParameterSizes(r)[n] \in Nat /\ (W \div ParameterSizes(r)[n]) * ParameterSizes(r)[n] = W
                      /\ e[v + m + n] = h[n] /\ h[n] = (W \div ParameterSizes(r)[n]) * text(n)
    OBVIOUS
  <2>1. v + m + n \in 1 .. (v + m + q)
    BY <1>1
  <2> DEFINE i == v + m + n
  <2>2. i \in 1 .. Len(s) /\ s[i] = ParameterSizes(r)[n]
    BY <1>1, <2>1
  <2>3. Times(s, i) \in Nat /\ W = Times(s, i) * s[i] /\ W \div s[i] = Times(s, i)
    <3> HIDE DEF i, s
    <3>1. QED
      BY <1>2, <2>2, TimesAre
  <2>4. Total(w[i]) = text(n)
    BY <1>5 DEF AreChargeTotals, text
  <2>5. e[i] = Times(s, i) * Total(w[i])
    BY <1>8, <2>1
  <2>6. h[n] = (W \div ParameterSizes(r)[n]) * text(n)
    BY DEF SharesOfParameters, ShareOf, text
  <2> HIDE DEF i, s, e, h, W, w
  <2>7. W \div ParameterSizes(r)[n] = Times(s, i) /\ W = Times(s, i) * ParameterSizes(r)[n]
    BY <2>2, <2>3
  <2>8. e[i] = h[n]
    BY <2>4, <2>5, <2>6, <2>7
  <2>9. QED
    BY <2>3, <2>6, <2>7, <2>8 DEF i
<1>12. h = [n \in 1 .. q |-> h[n]]
  BY DEF SharesOfParameters
<1> HIDE DEF h
<1>13. h \in [1 .. q -> Int]
  <2>1. \A x \in Nat : \A y \in Int : x * y \in Int
    OBVIOUS
  <2>2. \A n \in 1 .. q : h[n] \in Int
    <3> HIDE DEF W
    <3>1. QED
      BY <1>10, <1>11, <2>1
  <2>3. QED
    BY <1>12, <2>2
<1>14. g \in [1 .. v -> Int] /\ \A n \in 1 .. v : g[n] = X * T[n]
  <2>1. \A x, y \in Nat : x * y \in Int
    OBVIOUS
  <2>2. \A n \in 1 .. v : X * T[n] \in Int
    BY <1>3, <1>6, <2>1
  <2>3. QED
    BY <2>2
<1>15. b \in [1 .. v -> Int] /\ \A n \in 1 .. v : b[n] = 0
  OBVIOUS
<1> HIDE DEF e, g, b, W, w, s
<1>16. AreThree(e, g, b, h, v, m, q)
  <2>1. \A n \in 1 .. v : e[n] = g[n] + b[n]
    <3> SUFFICES ASSUME NEW n \in 1 .. v PROVE e[n] = g[n] + b[n]
      OBVIOUS
    <3>1. n \in 1 .. (v + m + q)
      BY <1>1
    <3>2. e[n] = g[n]
      BY <1>6, <1>8, <1>14, <3>1
    <3>3. g[n] \in Int /\ b[n] = 0
      BY <1>14, <1>15
    <3>4. QED
      BY <3>2, <3>3
  <2>2. \A n \in 1 .. m : e[v + n] = 0
    <3> SUFFICES ASSUME NEW n \in 1 .. m PROVE e[v + n] = 0
      OBVIOUS
    <3>1. v + n \in 1 .. (v + m + q)
      BY <1>1
    <3> DEFINE i == v + n
    <3>2. Total(w[i]) = 0
      BY <1>5 DEF AreChargeTotals
    <3>3. e[i] = Times(s, i) * Total(w[i]) /\ i \in 1 .. Len(s)
      BY <1>1, <1>8, <3>1
    <3> HIDE DEF i
    <3>4. Times(s, i) \in Nat
      BY <1>2, <3>3, TimesAre
    <3>5. QED
      BY <3>2, <3>3, <3>4 DEF i
  <2>3. \A n \in 1 .. q : e[v + m + n] = h[n]
    BY <1>11
  <2>4. v \in Nat /\ m \in Nat /\ q \in Nat
    BY <1>1
  <2>5. QED
    BY <1>9, <1>13, <1>14, <1>15, <2>1, <2>2, <2>3, <2>4 DEF AreThree
<1>17. Total(e) = Total(g) + Total(b) + Total(h)
  BY ONLY <1>16, TotalOfThree
<1>18. Total(b) = 0
  <2>1. v \in Nat /\ 0 \in Int /\ v * 0 = 0
    BY <1>1
  <2>2. Total(b) = v * 0
    BY ONLY <1>15, <2>1, TotalOfEqual
  <2>3. QED
    BY <2>1, <2>2
<1>19. Total(g) = X * Total(T)
  <2>1. AreMultiples(g, T, v, X)
    BY <1>3, <1>6, <1>14 DEF AreMultiples
  <2>2. v \in Nat
    BY <1>1
  <2>3. QED
    BY <2>1, <2>2, MultipleOfTotal
<1>20. Total(T) \in Int /\ Total(h) \in Int
  BY <1>1, <1>6, <1>13, TotalIsInteger
<1>21. W * L + X * Total(T) = Y * Z * (L * V + Total(T))
  <2> DEFINE t == Total(T)
  <2>1. t \in Int
    BY <1>20
  <2> HIDE DEF t
  <2>2. X = Y * Z
    BY DEF X
  <2>3. (V * X) * L + X * t = X * (L * V + t)
    BY <1>2, <1>3, <1>4, <2>1
  <2>4. QED
    BY <1>2, <2>2, <2>3 DEF t
<1>22. W * L \in Int /\ X * Total(T) \in Int
  <2>1. W \in Nat
    <3>1. \A x, y \in Nat : x * y \in Nat
      OBVIOUS
    <3>2. QED
      BY <1>2, <1>3, <3>1
  <2>2. \A x \in Nat : \A y \in Int : x * y \in Int
    OBVIOUS
  <2>3. QED
    BY <1>3, <1>4, <1>20, <2>1, <2>2
<1>23. CostOf(r, p) = W * L + Total(e)
  BY DEF CostOf, W, L, e, s, w
<1> DEFINE A == W * L
           B == X * Total(T)
           C == Total(h)
<1>24. A \in Int /\ B \in Int /\ C \in Int /\ CostOf(r, p) = A + (B + 0 + C) /\ PromptText(r, p) = A + B
  BY <1>7, <1>17, <1>18, <1>19, <1>20, <1>21, <1>22, <1>23
<1> HIDE DEF A, B, C
<1>25. CostOf(r, p) = PromptText(r, p) + C /\ CostOf(r, p) \in Int
  BY ONLY <1>24
<1>26. QED
  BY <1>10, <1>11, <1>13, <1>25 DEF C, h, W, s, text

AreCosts(r, n, q) ==
    LET p == r.prompts[n] IN
    /\ CostOf(r, p) = PromptText(r, p) + Total(SharesOfParameters(r, p, q))
    /\ SharesOfParameters(r, p, q) \in [1 .. q -> Int] /\ CostOf(r, p) \in Int
    /\ \A j \in 1 .. q : /\ Product(AxisSizes(r, p)) \div ParameterSizes(r)[j] \in Nat
                         /\ (Product(AxisSizes(r, p)) \div ParameterSizes(r)[j]) * ParameterSizes(r)[j] = Product(AxisSizes(r, p))
                         /\ ParameterText(r, ParameterNames(r)[j]) \in Int

LEMMA CostsAre ==
  ASSUME NEW r, Compiler!IsRequest(r), IsCountable(r), NEW n \in 1 .. Len(r.prompts), NEW q, q = Len(ParameterSizes(r))
  PROVE  AreCosts(r, n, q)
<1> DEFINE p == r.prompts[n]
<1>1. p \in Compiler!Range(r.prompts)
  BY WeightsArePositive
<1> HIDE DEF p
<1>2. PICK v, m, k : AreSizes(r, p, v, m, k) /\ AreAxes(r, p, v, m, k)
  BY <1>1, PartsAre
<1>3. k = q
  BY <1>2 DEF AreSizes
<1>4. AreSizes(r, p, v, m, q) /\ AreAxes(r, p, v, m, q)
  BY <1>2, <1>3
<1>5. /\ CostOf(r, p) = PromptText(r, p) + Total(SharesOfParameters(r, p, q))
      /\ SharesOfParameters(r, p, q) \in [1 .. q -> Int] /\ CostOf(r, p) \in Int
      /\ \A j \in 1 .. q : /\ Product(AxisSizes(r, p)) \div ParameterSizes(r)[j] \in Nat
                           /\ (Product(AxisSizes(r, p)) \div ParameterSizes(r)[j]) * ParameterSizes(r)[j] = Product(AxisSizes(r, p))
                           /\ ParameterText(r, ParameterNames(r)[j]) \in Int
  BY <1>1, <1>4, CostIs
<1>6. QED
  BY <1>5 DEF AreCosts, p

\* A parameter dimension is in every prompt: its shares are its share of the plan.
SharesInPrompts(r, j) == [n \in 1 .. Len(r.prompts) |-> ShareOf(r, r.prompts[n], j)]

LEMMA ShareOfPlan ==
  ASSUME NEW r, Compiler!IsRequest(r), IsCountable(r), NEW q, q = Len(ParameterSizes(r)), NEW j \in 1 .. q
  PROVE  /\ SharesInPrompts(r, j) \in [1 .. Len(r.prompts) -> Int]
         /\ Total(SharesInPrompts(r, j)) = ParameterTexts(r)[j] /\ DOMAIN ParameterTexts(r) = 1 .. q /\ q \in Nat
<1> DEFINE N == Len(r.prompts)
           s == ParameterSizes(r)[j]
           t == ParameterText(r, ParameterNames(r)[j])
           d == [n \in 1 .. N |-> Product(AxisSizes(r, r.prompts[n])) \div s]
           w == Weights(r)
           c == SharesInPrompts(r, j)
<1>1. /\ N \in Nat /\ N # 0 /\ DOMAIN r.prompts = 1 .. N /\ w \in Seq(Nat) /\ Len(w) = N
      /\ \A n \in 1 .. N : w[n] = Product(AxisSizes(r, r.prompts[n]))
  BY WeightsArePositive, CompilerSums DEF Positive
<1>2. \A n \in 1 .. N : AreCosts(r, n, q)
  BY CostsAre
<1>3. \A n \in 1 .. N : /\ w[n] \div s \in Nat /\ (w[n] \div s) * s = w[n] /\ t \in Int
  BY <1>1, <1>2 DEF AreCosts
<1>4. ParameterSizes(r) \in Seq(Positive)
  BY DEF IsCountable
<1>5. s \in Positive /\ q \in Nat
  BY <1>4
<1>6. s \in Nat
  BY <1>5 DEF Positive
<1>7. t \in Int
  BY <1>1, <1>3
<1>8. \A n \in 1 .. N : c[n] = (w[n] \div s) * t
  BY <1>1 DEF SharesInPrompts, ShareOf
<1>9. c = [n \in 1 .. N |-> c[n]]
  BY DEF SharesInPrompts
<1> HIDE DEF N, s, t, w, c
<1>10. d \in [1 .. N -> Nat] /\ \A n \in 1 .. N : d[n] = w[n] \div s
  BY <1>1, <1>3
<1> HIDE DEF d
<1>11. AreMultiples(c, d, N, t)
  <2>1. \A x \in Nat : \A y \in Int : x * y \in Int /\ x * y = y * x
    OBVIOUS
  <2>2. \A n \in 1 .. N : c[n] = t * d[n] /\ c[n] \in Int
    BY <1>3, <1>7, <1>8, <1>10, <2>1
  <2>3. c \in [1 .. N -> Int]
    BY <1>9, <2>2
  <2>4. d \in [1 .. N -> Int]
    BY <1>10
  <2>5. QED
    BY <1>7, <2>2, <2>3, <2>4 DEF AreMultiples
<1>12. AreMultiples(w, d, N, s)
  <2>1. \A x, y \in Nat : x * y = y * x
    OBVIOUS
  <2>2. \A n \in 1 .. N : w[n] = s * d[n]
    BY <1>3, <1>6, <1>10, <2>1
  <2>3. w \in [1 .. N -> Int]
    BY <1>1
  <2>4. d \in [1 .. N -> Int]
    BY <1>10
  <2>5. s \in Int
    BY <1>6
  <2>6. QED
    BY <2>2, <2>3, <2>4, <2>5 DEF AreMultiples
<1>13. Total(c) = t * Total(d) /\ Total(w) = s * Total(d)
  BY <1>1, <1>11, <1>12, MultipleOfTotal
<1>14. Total(d) \in Nat
  BY <1>1, <1>10, TotalIsNatural
<1> DEFINE k == Total(d)
<1>15. k \in Nat /\ PlanSize(r) = k * s
  <2>1. PlanSize(r) = Total(w)
    BY CompilerSums DEF PlanSize, w
  <2>2. \A x, y \in Nat : x * y = y * x
    OBVIOUS
  <2>3. QED
    BY <1>6, <1>13, <1>14, <2>1, <2>2
<1> HIDE DEF k
<1>16. PlanSize(r) \div s = k
  BY <1>5, <1>15, QuotientOfMultiple
<1>17. DOMAIN ParameterTexts(r) = 1 .. q /\ ParameterTexts(r)[j] = t * (PlanSize(r) \div s)
  <2>1. DOMAIN ParameterNames(r) = 1 .. q
    BY <1>4 DEF ParameterSizes
  <2>2. QED
    BY <2>1 DEF ParameterTexts, t, s
<1>18. c \in [1 .. N -> Int]
  BY <1>11 DEF AreMultiples
<1>19. QED
  BY <1>5, <1>13, <1>16, <1>17, <1>18 DEF k, c, N

LEMMA CostOfPlan ==
  ASSUME NEW r, Compiler!IsRequest(r), IsCountable(r),
         NEW f, f = [n \in 1 .. Len(r.prompts) |-> CostOf(r, r.prompts[n])]
  PROVE  Total(f) = TextPerSeed(r) /\ f \in [1 .. Len(r.prompts) -> Int]
<1> DEFINE N == Len(r.prompts)
           q == Len(ParameterSizes(r))
           P == PromptTexts(r)
           K == ParameterTexts(r)
           M == [n \in 1 .. N |-> SharesOfParameters(r, r.prompts[n], q)]
           columns == [j \in 1 .. q |-> SharesInPrompts(r, j)]
           h == [n \in 1 .. N |-> Total(SharesOfParameters(r, r.prompts[n], q))]
<1>1. /\ N \in Nat /\ DOMAIN r.prompts = 1 .. N
      /\ \A n \in 1 .. N : r.prompts[n] \in Compiler!Range(r.prompts)
  BY WeightsArePositive DEF Positive
<1>2. \A n \in 1 .. N : AreCosts(r, n, q)
  BY CostsAre
<1>3. ParameterSizes(r) \in Seq(Positive)
  BY DEF IsCountable
<1>4. q \in Nat /\ DOMAIN ParameterNames(r) = 1 .. q
  BY <1>3 DEF ParameterSizes
<1>5. \A n \in 1 .. N : /\ f[n] = PromptText(r, r.prompts[n]) + h[n] /\ f[n] \in Int
                        /\ M[n] \in [1 .. q -> Int] /\ h[n] = Total(M[n])
  BY <1>2 DEF AreCosts
<1>6. \A n \in 1 .. N : PromptText(r, r.prompts[n]) \in Nat
  BY <1>1, PromptTextIsNatural
<1>7. P \in [1 .. N -> Int] /\ \A n \in 1 .. N : P[n] = PromptText(r, r.prompts[n])
  BY <1>1, <1>6 DEF PromptTexts
<1>8. f \in [1 .. N -> Int]
  BY <1>5
<1>9. \A j \in 1 .. q : SharesInPrompts(r, j) \in [1 .. N -> Int] /\ Total(SharesInPrompts(r, j)) = K[j] /\ DOMAIN K = 1 .. q
  <2> SUFFICES ASSUME NEW j \in 1 .. q
               PROVE SharesInPrompts(r, j) \in [1 .. N -> Int] /\ Total(SharesInPrompts(r, j)) = K[j] /\ DOMAIN K = 1 .. q
    OBVIOUS
  <2> DEFINE y == q
  <2>1. y = Len(ParameterSizes(r)) /\ j \in 1 .. y
    OBVIOUS
  <2> HIDE DEF y
  <2>2. SharesInPrompts(r, j) \in [1 .. N -> Int] /\ Total(SharesInPrompts(r, j)) = K[j] /\ DOMAIN K = 1 .. y
    BY <2>1, ShareOfPlan
  <2>3. QED
    BY <2>2 DEF y
<1>10. \A n \in 1 .. N : \A j \in 1 .. q : columns[j][n] = M[n][j]
  BY DEF SharesInPrompts, SharesOfParameters
<1>11. K = [j \in 1 .. q |-> K[j]]
  BY <1>4 DEF ParameterTexts
<1>12. \A j \in 1 .. q : columns[j] = SharesInPrompts(r, j)
  OBVIOUS
<1>13. h = [n \in 1 .. N |-> h[n]]
  OBVIOUS
<1> HIDE DEF M, columns, h, K, P, N, q
<1>14. IsTable(M, columns, N, q)
  BY <1>5, <1>9, <1>10, <1>12 DEF IsTable
<1>15. \A n \in 1 .. N : h[n] \in Int
  <2> SUFFICES ASSUME NEW n \in 1 .. N PROVE h[n] \in Int
    OBVIOUS
  <2> DEFINE u == M[n]
  <2>1. u \in [1 .. q -> Int] /\ h[n] = Total(u)
    BY <1>5
  <2> HIDE DEF u
  <2>2. QED
    BY <1>4, <2>1, TotalIsInteger
<1>16. AreTotals(h, N, M)
  BY <1>5, <1>13, <1>15 DEF AreTotals
<1>17. AreTotals(K, q, columns)
  <2>1. \A j \in 1 .. q : K[j] \in Int /\ K[j] = Total(columns[j])
    <3> SUFFICES ASSUME NEW j \in 1 .. q PROVE K[j] \in Int /\ K[j] = Total(columns[j])
      OBVIOUS
    <3> DEFINE u == columns[j]
    <3>1. u \in [1 .. N -> Int] /\ Total(u) = K[j]
      BY <1>9, <1>12
    <3> HIDE DEF u
    <3>2. Total(u) \in Int
      BY <1>1, <3>1, TotalIsInteger
    <3>3. QED
      BY <3>1, <3>2 DEF u
  <2>2. K \in [1 .. q -> Int]
    BY <1>11, <2>1
  <2>3. QED
    BY <2>1, <2>2 DEF AreTotals
<1>18. Total(h) = Total(K)
  <2>1. N \in Nat /\ q \in Nat
    BY <1>1, <1>4
  <2>2. QED
    BY ONLY <1>14, <1>16, <1>17, <2>1, TotalOfRows
<1>19. Total(f) = Total(P) + Total(h)
  <2>1. h \in [1 .. N -> Int]
    BY <1>13, <1>15
  <2>2. \A n \in 1 .. N : f[n] = P[n] + h[n]
    BY <1>5, <1>7
  <2>3. N \in Nat /\ P \in [1 .. N -> Int]
    BY <1>1, <1>7
  <2>4. QED
    BY ONLY <1>8, <2>1, <2>2, <2>3, TotalOfBoth
<1>20. TextPerSeed(r) = Total(P) + Total(K)
  BY CompilerSums DEF TextPerSeed, P, K
<1>21. QED
  BY <1>8, <1>18, <1>19, <1>20 DEF N

-----------------------------------------------------------------------------
(* The bytes of the whole plan.                                            *)
LEMMA PartsHavePlaces ==
  ASSUME NEW w \in Seq(Nat), NEW c \in Nat \ {0}, NEW n \in 1 .. Len(w), NEW k \in 0 .. (w[n] - 1), NEW j \in 1 .. c
  PROVE  PartPlace(w, c, n, k, j) \in 1 .. Total(w) * c
<1> DEFINE a == Sums(w)[n - 1]
           b == Sums(w)[n]
           W == Total(w)
           z == a + k
<1>1. /\ Len(w) \in Nat /\ w[n] \in Nat /\ b = a + w[n]
      /\ \A i \in 0 .. Len(w) : Sums(w)[i] \in Nat /\ Sums(w)[i] <= W
      /\ Sums(w)[Len(w)] = W
  BY SumsOfList
<1>2. n \in 0 .. Len(w) /\ n - 1 \in 0 .. Len(w) /\ Len(w) \in 0 .. Len(w)
  BY <1>1
<1>3. a \in Nat /\ b \in Nat /\ b <= W /\ W \in Nat
  BY <1>1, <1>2
<1> DEFINE v == w[n]
<1>4. v \in Nat /\ b = a + v /\ k \in 0 .. (v - 1) /\ c \in Nat /\ c # 0 /\ j \in 1 .. c
  BY <1>1
<1> HIDE DEF a, b, W, v
<1>5. z \in Nat /\ z + 1 <= W /\ z + 1 \in Nat
  BY ONLY <1>3, <1>4
<1> HIDE DEF z
<1>6. z * c \in Nat /\ (z + 1) * c = z * c + c /\ W * c \in Nat
  BY <1>3, <1>4, <1>5
<1>7. (z + 1) * c <= W * c
  BY <1>3, <1>4, <1>5, StepsAreMonotone
<1> DEFINE x == z * c
           y == W * c
<1>8. x \in Nat /\ y \in Nat /\ x + c <= y
  BY <1>6, <1>7
<1> HIDE DEF x, y
<1>9. x + j \in 1 .. y
  BY <1>4, <1>8
<1>10. QED
  BY <1>9 DEF PartPlace, x, y, z, a, W

LEMMA BytesOfConfiguration ==
  ASSUME Compiler!IsRequest(request), IsCountable(request), Sound, ParametersDiffer(request),
         NEW p \in Compiler!Range(request.prompts), NEW k \in Nat, NEW seed
  PROVE  /\ Compiler!BytesOfJob(JobOf(request, p, ConfigurationAt(request, p, k), seed)) =
              Charge(AxisSizes(request, p), Charges(request, p), Compiler!LiteralBytes(p), k)
         /\ Charge(AxisSizes(request, p), Charges(request, p), Compiler!LiteralBytes(p), k) \in Int
         /\ Chooses(AxisSizes(request, p), ConfigurationAt(request, p, k))
<1> DEFINE s == AxisSizes(request, p)
           w == Charges(request, p)
           d == ConfigurationAt(request, p, k)
           e == [i \in 1 .. Len(s) |-> w[i][d[i]]]
           L == Compiler!LiteralBytes(p)
<1>1. PICK v, m, q : AreSizes(request, p, v, m, q) /\ AreAxes(request, p, v, m, q)
  BY PartsAre
<1>2. IsDimensions(s) /\ Len(s) \in Nat
  <2>1. s \in Seq(Positive)
    BY <1>1 DEF AreSizes
  <2>2. QED
    BY <2>1 DEF IsDimensions, Positive
<1>3. \A i \in 1 .. Len(s) : d[i] = Digit(s, k, i)
  BY DEF ConfigurationAt, DigitsOf
<1>4. Chooses(s, d)
  <2> HIDE DEF s, d
  <2>1. \A i \in 1 .. Len(s) : Digit(s, k, i) \in 1 .. s[i]
    BY <1>2, DigitIsChoice
  <2>2. QED
    BY <1>3, <2>1 DEF Chooses
<1>5. e = [i \in 1 .. Len(s) |-> w[i][Digit(s, k, i)]]
  BY <1>3
<1>6. e = [i \in 1 .. Len(AxisSizes(request, p)) |-> Charges(request, p)[i][d[i]]]
  OBVIOUS
<1>7. Charge(s, w, L, k) = L + Total(e)
  BY <1>5 DEF Charge
<1>8. L \in Nat
  BY CountsAreNatural DEF Compiler!IsRequest
<1> HIDE DEF e, d
<1>9. Compiler!BytesOfJob(JobOf(request, p, d, seed)) = L + Total(e) /\ e \in [1 .. Len(s) -> Int]
  BY <1>4, <1>6, BytesOfJobAre
<1> HIDE DEF s, L, w
<1>10. Total(e) \in Int
  BY <1>2, <1>9, TotalIsInteger
<1>11. QED
  BY <1>4, <1>7, <1>8, <1>9, <1>10 DEF s, w, L, d

ChargesAt(r, p) ==
    [x \in 1 .. Product(AxisSizes(r, p)) |-> Charge(AxisSizes(r, p), Charges(r, p), Compiler!LiteralBytes(p), x - 1)]

LEMMA TextOfPrompt ==
  ASSUME Compiler!IsRequest(request), IsCountable(request), Sound, ParametersDiffer(request),
         NEW p \in Compiler!Range(request.prompts)
  PROVE  /\ ChargesAt(request, p) \in [1 .. Product(AxisSizes(request, p)) -> Int]
         /\ Total(ChargesAt(request, p)) = CostOf(request, p)
<1> DEFINE s == AxisSizes(request, p)
           w == Charges(request, p)
           L == Compiler!LiteralBytes(p)
           u == ChargesAt(request, p)
<1>1. PICK v, m, q : AreSizes(request, p, v, m, q) /\ AreAxes(request, p, v, m, q)
  BY PartsAre
<1>2. IsDimensions(s) /\ AreCharges(s, w)
  BY <1>1, PartsMultiply, ChargesAreTotals
<1>3. L \in Int
  BY CountsAreNatural DEF Compiler!IsRequest
<1>4. \A k \in Nat : Charge(s, w, L, k) \in Int
  BY BytesOfConfiguration
<1>5. u = [x \in 1 .. Product(s) |-> Charge(s, w, L, x - 1)]
  BY DEF ChargesAt
<1>6. CostOf(request, p) = Product(s) * L + Total(Shares(s, w))
  BY DEF CostOf
<1> HIDE DEF s, w, L, u
<1>7. \A x \in 1 .. Product(s) : x - 1 \in Nat
  <2>1. Product(s) \in Nat
    BY <1>2, WeightIs, ProductsOf DEF IsDimensions
  <2>2. QED
    BY <2>1
<1>8. u \in [1 .. Product(s) -> Int] /\ \A x \in 1 .. Product(s) : u[x] = Charge(s, w, L, x - 1)
  BY <1>4, <1>5, <1>7
<1>9. AreCharged(u, s, w, L)
  BY <1>8 DEF AreCharged
<1>10. Total(u) = Product(s) * L + Total(Shares(s, w))
  BY <1>2, <1>3, <1>9, TotalOfCharges
<1>11. QED
  BY <1>6, <1>8, <1>10 DEF s, w, u, L

LEMMA TextOfPlan ==
  ASSUME Compiler!IsRequest(request), IsCountable(request), Sound, ParametersDiffer(request),
         NEW sd, SeedsPer(sd) \in Positive, NEW plan, IsPlan(plan, request, sd)
  PROVE  Total([i \in DOMAIN plan |-> Compiler!BytesOfJob(plan[i])]) = TextPerSeed(request) * SeedsPer(sd)
<1> DEFINE r == request
           w == Weights(request)
           c == SeedsPer(sd)
           N == Len(request.prompts)
           f == [i \in DOMAIN plan |-> Compiler!BytesOfJob(plan[i])]
           g == [n \in 1 .. N |-> CostOf(request, request.prompts[n])]
<1>1. /\ w \in Seq(Nat) /\ Len(w) = N /\ N \in Nat
      /\ \A n \in 1 .. N : request.prompts[n] \in Compiler!Range(request.prompts)
      /\ \A n \in 1 .. N : w[n] = Product(AxisSizes(request, request.prompts[n])) /\ w[n] \in Nat
  BY WeightsArePositive, CompilerSums DEF Positive
<1>2. Total(w) = PlanSize(request)
  BY CompilerSums DEF PlanSize
<1>3. c \in Nat \ {0}
  BY DEF Positive
<1>4. Compiler!IsList(plan) /\ Len(plan) = Total(w) * c
  BY <1>2 DEF IsPlan
<1>5. DOMAIN plan = 1 .. Total(w) * c
  BY <1>4, CompilerLists
<1>6. \A n \in 1 .. N : \A k \in 0 .. (w[n] - 1) : \A j \in 1 .. c :
        plan[PartPlace(w, c, n, k, j)] =
          JobOf(request, request.prompts[n], ConfigurationAt(request, request.prompts[n], k), SeedAt(sd, PlaceOf(request, n, k, c), j))
  <2>1. \A n, k, j : PartPlace(w, c, n, k, j) = PlaceOf(request, n, k, c) + j
    BY DEF PartPlace, PlaceOf
  <2>2. QED
    BY <2>1 DEF IsPlan
<1>7. Total(g) = TextPerSeed(request) /\ g \in [1 .. N -> Int]
  <2> HIDE DEF N
  <2> DEFINE gg == g
  <2>1. gg = [n \in 1 .. Len(request.prompts) |-> CostOf(request, request.prompts[n])]
    BY DEF N
  <2> HIDE DEF gg
  <2>2. Total(gg) = TextPerSeed(request) /\ gg \in [1 .. Len(request.prompts) -> Int]
    BY <2>1, CostOfPlan
  <2>3. QED
    BY <2>2 DEF gg, N
<1> HIDE DEF w, c, N
<1>8. \A n \in 1 .. N : g[n] = CostOf(request, request.prompts[n])
  OBVIOUS
<1>9. \A i \in 1 .. Total(w) * c : f[i] = Compiler!BytesOfJob(plan[i])
  BY <1>5
<1>10. f = [i \in 1 .. Total(w) * c |-> f[i]]
  BY <1>5
<1> HIDE DEF f, g
<1>11. ASSUME NEW n \in 1 .. N
       PROVE  \E u \in [1 .. w[n] -> Int] :
                /\ Total(u) = g[n]
                /\ \A k \in 0 .. (w[n] - 1) : \A j \in 1 .. c :
                     PartPlace(w, c, n, k, j) \in 1 .. Total(w) * c => f[PartPlace(w, c, n, k, j)] = u[k + 1]
  <2> DEFINE p == request.prompts[n]
             u == ChargesAt(request, p)
  <2>1. p \in Compiler!Range(request.prompts) /\ w[n] = Product(AxisSizes(request, p))
    BY <1>1
  <2>2. u \in [1 .. w[n] -> Int] /\ Total(u) = CostOf(request, p)
    BY <2>1, TextOfPrompt
  <2>3. \A x \in 1 .. w[n] : u[x] = Charge(AxisSizes(request, p), Charges(request, p), Compiler!LiteralBytes(p), x - 1)
    BY <2>1 DEF ChargesAt
  <2>4. \A k \in Nat : \A seed :
          Compiler!BytesOfJob(JobOf(request, p, ConfigurationAt(request, p, k), seed)) =
            Charge(AxisSizes(request, p), Charges(request, p), Compiler!LiteralBytes(p), k)
    BY <2>1, BytesOfConfiguration
  <2>5. \A k \in 0 .. (w[n] - 1) : \A j \in 1 .. c :
          PartPlace(w, c, n, k, j) \in 1 .. Total(w) * c => f[PartPlace(w, c, n, k, j)] = u[k + 1]
    <3> SUFFICES ASSUME NEW k \in 0 .. (w[n] - 1), NEW j \in 1 .. c, PartPlace(w, c, n, k, j) \in 1 .. Total(w) * c
                 PROVE  f[PartPlace(w, c, n, k, j)] = u[k + 1]
      OBVIOUS
    <3>1. k \in Nat /\ k + 1 \in 1 .. w[n] /\ (k + 1) - 1 = k
      BY <1>1
    <3> DEFINE x == PartPlace(w, c, n, k, j)
    <3>2. f[x] = Compiler!BytesOfJob(plan[x])
      BY <1>9
    <3>3. plan[x] = JobOf(request, p, ConfigurationAt(request, p, k), SeedAt(sd, PlaceOf(request, n, k, c), j))
      BY <1>6
    <3> HIDE DEF x, u, p
    <3>4. f[x] = Charge(AxisSizes(request, p), Charges(request, p), Compiler!LiteralBytes(p), k)
      BY <2>4, <3>1, <3>2, <3>3
    <3>5. u[k + 1] = Charge(AxisSizes(request, p), Charges(request, p), Compiler!LiteralBytes(p), k)
      BY <2>3, <3>1
    <3>6. QED
      BY <3>4, <3>5 DEF x
  <2>6. g[n] = CostOf(request, p)
    BY <1>8
  <2> HIDE DEF u, p
  <2>7. QED
    BY <2>2, <2>5, <2>6
<1>12. \A n \in 1 .. N : \A k \in 0 .. (w[n] - 1) : \A j \in 1 .. c : PartPlace(w, c, n, k, j) \in 1 .. Total(w) * c
  BY <1>1, <1>3, PartsHavePlaces
<1>13. \A i \in 1 .. Total(w) * c : f[i] \in Int
  <2> SUFFICES ASSUME NEW i \in 1 .. Total(w) * c PROVE f[i] \in Int
    OBVIOUS
  <2>0. PICK n \in 1 .. N : \E k \in 0 .. (w[n] - 1) : \E j \in 1 .. c : i = PartPlace(w, c, n, k, j)
    BY <1>1, <1>3, EveryPlaceIsInPart
  <2>7. PICK k \in 0 .. (w[n] - 1) : \E j \in 1 .. c : i = PartPlace(w, c, n, k, j)
    BY <2>0
  <2>1. PICK j \in 1 .. c : i = PartPlace(w, c, n, k, j)
    BY <2>7
  <2>2. PICK u \in [1 .. w[n] -> Int] : f[PartPlace(w, c, n, k, j)] = u[k + 1]
    BY <1>11, <1>12
  <2>3. k + 1 \in 1 .. w[n]
    BY <1>1
  <2>4. u[k + 1] \in Int
    BY <2>3
  <2>5. QED
    BY <2>1, <2>2, <2>4
<1>14. f \in [1 .. Total(w) * c -> Int]
  BY <1>10, <1>13
<1>15. ArePartSums(f, w, c, g)
  <2>1. \A n \in 1 .. N : \E u \in [1 .. w[n] -> Int] :
          Total(u) = g[n] /\ \A k \in 0 .. (w[n] - 1) : \A j \in 1 .. c : f[PartPlace(w, c, n, k, j)] = u[k + 1]
    BY <1>11, <1>12
  <2>2. Len(w) = N
    BY <1>1
  <2>3. QED
    BY <1>7, <1>14, <2>1, <2>2 DEF ArePartSums
<1>16. Total(f) = c * Total(g)
  BY <1>1, <1>3, <1>15, TotalOfParts
<1>17. c * TextPerSeed(request) = TextPerSeed(request) * c
  <2>1. TextPerSeed(request) \in Nat
    BY TextIsNatural
  <2>2. QED
    BY <1>3, <2>1
<1>18. QED
  BY <1>7, <1>16, <1>17 DEF f, c

-----------------------------------------------------------------------------
(* The longest prompt is that of some Job.                                 *)
LargestOf(a) == CHOOSE n \in Compiler!Range(Compiler!Sizes(a)) : \A m \in Compiler!Range(Compiler!Sizes(a)) : m <= n
IsLargest(a, s, x) ==
    x \in 1 .. s /\ LargestOf(a) = a.choices[x].bytes /\ \A y \in 1 .. s : a.choices[y].bytes <= a.choices[x].bytes

LEMMA LargestChoice ==
  ASSUME NEW r, NEW p, NEW i, NEW s, AreVariableChoices(r, p, i, s)
  PROVE  \E x : IsLargest(VariableAxesOf(r, p)[i], s, x)
<1> DEFINE a == VariableAxesOf(r, p)[i]
           g == Compiler!Sizes(a)
<1>1. s \in Nat \ {0} /\ DOMAIN a.choices = 1 .. s /\ \A x \in 1 .. s : a.choices[x].bytes \in Nat
  BY DEF AreVariableChoices, Positive
<1> HIDE DEF a
<1>2. g \in [1 .. s -> Int] /\ \A x \in 1 .. s : g[x] = a.choices[x].bytes
  BY <1>1 DEF Compiler!Sizes
<1>3. LargestOf(a) = CHOOSE n \in Compiler!Range(g) : \A m \in Compiler!Range(g) : m <= n
  BY DEF LargestOf
<1> HIDE DEF g
<1>4. PICK x \in 1 .. s : \A y \in 1 .. s : g[y] <= g[x]
  BY <1>1, <1>2, LargestExists
<1>5. \A n : n \in Compiler!Range(g) <=> \E y \in 1 .. s : g[y] = n
  BY <1>2 DEF Compiler!Range
<1>6. g[x] \in Compiler!Range(g) /\ \A m \in Compiler!Range(g) : m <= g[x]
  BY <1>4, <1>5
<1>7. \A n \in Compiler!Range(g) : (\A m \in Compiler!Range(g) : m <= n) => n = g[x]
  <2> SUFFICES ASSUME NEW n \in Compiler!Range(g), \A m \in Compiler!Range(g) : m <= n PROVE n = g[x]
    OBVIOUS
  <2>1. n <= g[x] /\ g[x] <= n
    BY <1>6
  <2>2. n \in Int /\ g[x] \in Int
    BY <1>2, <1>5
  <2>3. QED
    BY <2>1, <2>2
<1>8. LargestOf(a) = g[x]
  BY <1>3, <1>6, <1>7
<1>9. IsLargest(a, s, x)
  BY <1>2, <1>4, <1>8 DEF IsLargest
<1>10. QED
  BY <1>9 DEF a

LargestTexts(r, p, v) ==
    [n \in 1 .. v |-> Compiler!Occurrences(p, Compiler!Names(p.text)[n]) * LargestOf(VariableAxesOf(r, p)[n])]

LEMMA LargestTextIs ==
  ASSUME NEW r, Compiler!IsRequest(r), IsCountable(r), NEW p \in Compiler!Range(r.prompts),
         NEW v, NEW m, NEW q, AreSizes(r, p, v, m, q)
  PROVE  /\ LargestText(r, p) = Compiler!LiteralBytes(p) + Total(LargestTexts(r, p, v))
         /\ LargestTexts(r, p, v) \in [1 .. v -> Int]
<1> DEFINE H == LargestTexts(r, p, v)
           axes == VariableAxesOf(r, p)
           L == Compiler!LiteralBytes(p)
<1>1. DOMAIN Compiler!Names(p.text) = 1 .. v /\ v \in Nat
  BY DEF AreSizes
<1>2. DOMAIN axes = 1 .. v /\ \A n \in 1 .. v : axes[n].key = Compiler!Names(p.text)[n]
  BY <1>1 DEF VariableAxesOf
<1>3. LargestText(r, p) = L + Compiler!Total([i \in DOMAIN axes |-> Compiler!Occurrences(p, axes[i].key) * LargestOf(axes[i])])
  BY DEF LargestText, LargestOf
<1>4. H = [n \in 1 .. v |-> Compiler!Occurrences(p, Compiler!Names(p.text)[n]) * LargestOf(axes[n])]
  BY DEF LargestTexts
<1> HIDE DEF axes, H, L
<1>5. [i \in DOMAIN axes |-> Compiler!Occurrences(p, axes[i].key) * LargestOf(axes[i])] = H
  BY <1>2, <1>4
<1>6. LargestText(r, p) = L + Total(H)
  BY <1>3, <1>5, CompilerSums
<1>7. \A n \in 1 .. v : H[n] \in Int
  <2> SUFFICES ASSUME NEW n \in 1 .. v PROVE H[n] \in Int
    OBVIOUS
  <2> DEFINE s == VariableSizes(r, p)[n]
  <2>1. AreVariableChoices(r, p, n, s)
    BY VariableChoices
  <2>2. \A x \in 1 .. s : axes[n].choices[x].bytes \in Nat
    BY <2>1 DEF AreVariableChoices, axes
  <2> HIDE DEF s
  <2>3. PICK x : IsLargest(axes[n], s, x)
    BY <2>1, LargestChoice DEF axes
  <2>4. LargestOf(axes[n]) \in Nat
    BY <2>2, <2>3 DEF IsLargest
  <2>5. Compiler!Occurrences(p, Compiler!Names(p.text)[n]) \in Nat
    BY CountsAreNatural DEF Compiler!IsRequest
  <2>6. \A x1, x2 \in Nat : x1 * x2 \in Int
    OBVIOUS
  <2>7. QED
    BY <1>4, <2>4, <2>5, <2>6
<1>8. H \in [1 .. v -> Int]
  BY <1>4, <1>7
<1>9. QED
  BY <1>6, <1>8 DEF H, L

LEMMA TextIsBounded ==
  ASSUME NEW r, Compiler!IsRequest(r), IsCountable(r), NEW p \in Compiler!Range(r.prompts),
         NEW d, Chooses(AxisSizes(r, p), d), NEW seed
  PROVE  /\ Compiler!BytesOf(JobOf(r, p, d, seed).text) <= LargestText(r, p)
         /\ Compiler!BytesOf(JobOf(r, p, d, seed).text) \in Int /\ LargestText(r, p) \in Int
<1>1. PICK v, m, q : AreSizes(r, p, v, m, q) /\ AreAxes(r, p, v, m, q)
  BY PartsAre
<1> DEFINE b == [n \in 1 .. v |-> VariableAxesOf(r, p)[n].choices[d[n]].bytes]
           h == [n \in 1 .. v |-> Compiler!Occurrences(p, Compiler!Names(p.text)[n]) * b[n]]
           H == LargestTexts(r, p, v)
           L == Compiler!LiteralBytes(p)
<1>2. \A n \in 1 .. v : d[n] \in 1 .. VariableSizes(r, p)[n]
  <2>1. v \in Nat /\ m \in Nat /\ q \in Nat /\ Len(AxisSizes(r, p)) = v + m + q /\ \A i \in 1 .. v : AxisSizes(r, p)[i] = VariableSizes(r, p)[i]
    BY <1>1 DEF AreSizes
  <2>2. \A n \in 1 .. v : n \in 1 .. Len(AxisSizes(r, p))
    BY <2>1
  <2>3. QED
    BY <2>1, <2>2 DEF Chooses
<1>3. AreTexts(h, b, r, p, v, d)
  BY <1>2 DEF AreTexts
<1>4. \A n \in 1 .. v : h[n] = Compiler!Occurrences(p, Compiler!Names(p.text)[n]) * VariableAxesOf(r, p)[n].choices[d[n]].bytes
  OBVIOUS
<1>5. \A n \in 1 .. v : H[n] = Compiler!Occurrences(p, Compiler!Names(p.text)[n]) * LargestOf(VariableAxesOf(r, p)[n])
  BY DEF LargestTexts
<1> HIDE DEF h, b
<1>6. Compiler!BytesOf(JobOf(r, p, d, seed).text) = L + Total(h) /\ h \in [1 .. v -> Int]
  BY <1>1, <1>3, TextOfJobIs
<1>7. LargestText(r, p) = L + Total(H) /\ H \in [1 .. v -> Int]
  BY <1>1, LargestTextIs
<1>8. L \in Nat /\ v \in Nat
  BY <1>1, CountsAreNatural DEF Compiler!IsRequest, AreSizes
<1> HIDE DEF H, L
<1>9. \A n \in 1 .. v : h[n] <= H[n]
  <2> SUFFICES ASSUME NEW n \in 1 .. v PROVE h[n] <= H[n]
    OBVIOUS
  <2> DEFINE s == VariableSizes(r, p)[n]
             a == VariableAxesOf(r, p)[n]
             o == Compiler!Occurrences(p, Compiler!Names(p.text)[n])
             y == a.choices[d[n]].bytes
             z == LargestOf(a)
  <2>1. AreVariableChoices(r, p, n, s)
    BY <1>1, VariableChoices
  <2>2. \A x \in 1 .. s : a.choices[x].bytes \in Nat
    BY <2>1 DEF AreVariableChoices
  <2>3. d[n] \in 1 .. s
    BY <1>2
  <2> HIDE DEF s
  <2>4. PICK x : IsLargest(a, s, x)
    BY <2>1, LargestChoice
  <2> HIDE DEF a
  <2>5. y \in Nat /\ z \in Nat /\ y <= z
    BY <2>2, <2>3, <2>4 DEF IsLargest
  <2>6. o \in Nat
    BY CountsAreNatural DEF Compiler!IsRequest
  <2>7. h[n] = o * y /\ H[n] = o * z
    BY <1>4, <1>5 DEF a
  <2> HIDE DEF o, y, z
  <2>8. y * o <= z * o /\ y * o = o * y /\ z * o = o * z
    BY <2>5, <2>6, StepsAreMonotone
  <2>9. QED
    BY <2>7, <2>8
<1>10. Total(h) <= Total(H)
  BY ONLY <1>6, <1>7, <1>8, <1>9, TotalIsMonotone
<1>11. Total(h) \in Int /\ Total(H) \in Int
  BY <1>6, <1>7, <1>8, TotalIsInteger
<1>12. QED
  BY <1>6, <1>7, <1>8, <1>10, <1>11

LEMMA LargestIsReached ==
  ASSUME NEW r, Compiler!IsRequest(r), IsCountable(r), NEW p \in Compiler!Range(r.prompts)
  PROVE  \E k \in 0 .. (Product(AxisSizes(r, p)) - 1) : \A seed :
           Compiler!BytesOf(JobOf(r, p, ConfigurationAt(r, p, k), seed).text) = LargestText(r, p)
<1>1. PICK v, m, q : AreSizes(r, p, v, m, q) /\ AreAxes(r, p, v, m, q)
  BY PartsAre
<1> DEFINE s == AxisSizes(r, p)
           c == [i \in 1 .. Len(s) |-> IF i \in 1 .. v THEN CHOOSE x : IsLargest(VariableAxesOf(r, p)[i], s[i], x) ELSE 1]
<1>2. /\ v \in Nat /\ m \in Nat /\ q \in Nat /\ Len(s) = v + m + q
      /\ \A i \in 1 .. v : s[i] = VariableSizes(r, p)[i]
      /\ s \in Seq(Nat \ {0})
  BY <1>1 DEF AreSizes, Positive
<1>3. \A i \in 1 .. v : IsLargest(VariableAxesOf(r, p)[i], s[i], c[i])
  <2> SUFFICES ASSUME NEW i \in 1 .. v PROVE IsLargest(VariableAxesOf(r, p)[i], s[i], c[i])
    OBVIOUS
  <2>1. AreVariableChoices(r, p, i, s[i])
    BY <1>1, <1>2, VariableChoices
  <2>2. i \in 1 .. Len(s)
    BY <1>2
  <2>3. c[i] = CHOOSE x : IsLargest(VariableAxesOf(r, p)[i], s[i], x)
    BY <2>2
  <2> HIDE DEF s, c
  <2>4. \E x : IsLargest(VariableAxesOf(r, p)[i], s[i], x)
    BY <2>1, LargestChoice
  <2>5. QED
    BY <2>3, <2>4
<1>4. \A i \in 1 .. Len(s) : i \notin 1 .. v => c[i] = 1
  OBVIOUS
<1> HIDE DEF c
<1>5. Chooses(s, c) /\ IsDimensions(s)
  <2>1. \A i \in 1 .. Len(s) : c[i] \in 1 .. s[i]
    <3> SUFFICES ASSUME NEW i \in 1 .. Len(s) PROVE c[i] \in 1 .. s[i]
      OBVIOUS
    <3>1. CASE i \in 1 .. v
      BY <1>3, <3>1 DEF IsLargest
    <3>2. CASE i \notin 1 .. v
      <4>1. s[i] \in Nat \ {0}
        BY <1>2
      <4> HIDE DEF s
      <4>2. QED
        BY <1>4, <3>2, <4>1
    <3>3. QED
      BY <3>1, <3>2
  <2>2. QED
    BY <1>2, <2>1 DEF Chooses, IsDimensions
<1> HIDE DEF s
<1>6. PICK k \in 0 .. (Product(s) - 1) : \A i \in 1 .. Len(s) : Digit(s, k, i) = c[i]
  BY <1>5, EveryChoiceHasPlace
<1> DEFINE d == ConfigurationAt(r, p, k)
           b == [n \in 1 .. v |-> VariableAxesOf(r, p)[n].choices[d[n]].bytes]
           h == [n \in 1 .. v |-> Compiler!Occurrences(p, Compiler!Names(p.text)[n]) * b[n]]
<1>7. \A i \in 1 .. Len(s) : d[i] = c[i]
  BY <1>6 DEF ConfigurationAt, DigitsOf, s
<1>8. \A n \in 1 .. v : d[n] = c[n] /\ IsLargest(VariableAxesOf(r, p)[n], s[n], d[n]) /\ s[n] = VariableSizes(r, p)[n]
  <2>1. \A n \in 1 .. v : n \in 1 .. Len(s)
    BY <1>2
  <2> HIDE DEF d
  <2>2. QED
    BY <1>2, <1>3, <1>7, <2>1
<1> HIDE DEF d
<1>9. AreTexts(h, b, r, p, v, d)
  <2>1. \A n \in 1 .. v : d[n] \in 1 .. VariableSizes(r, p)[n]
    BY <1>8 DEF IsLargest
  <2>2. QED
    BY <2>1 DEF AreTexts
<1>10. h = LargestTexts(r, p, v)
  <2>1. \A n \in 1 .. v : b[n] = LargestOf(VariableAxesOf(r, p)[n])
    BY <1>8 DEF IsLargest
  <2> HIDE DEF b
  <2>2. QED
    BY <2>1 DEF LargestTexts
<1> HIDE DEF h, b
<1>11. \A seed : Compiler!BytesOf(JobOf(r, p, d, seed).text) = Compiler!LiteralBytes(p) + Total(h)
  BY <1>1, <1>9, TextOfJobIs
<1>12. LargestText(r, p) = Compiler!LiteralBytes(p) + Total(LargestTexts(r, p, v))
  BY <1>1, LargestTextIs
<1>13. \A seed : Compiler!BytesOf(JobOf(r, p, ConfigurationAt(r, p, k), seed).text) = LargestText(r, p)
  BY <1>10, <1>11, <1>12 DEF d
<1>14. QED
  BY <1>13 DEF s

-----------------------------------------------------------------------------
(* A Job of the plan holds a prompt too large for the adapter exactly when *)
(* the compiler, which made no Job, foresees one.                          *)
LEMMA LargePromptIsForeseen ==
  ASSUME Compiler!IsRequest(request), IsCountable(request), Sound, ParametersDiffer(request),
         NEW sd, SeedsPer(sd) \in Positive, NEW plan, IsPlan(plan, request, sd)
  PROVE  HasLargePrompt(request) <=> \E job \in Compiler!Range(plan) : Compiler!BytesOf(job.text) > MaxPromptBytes
<1> DEFINE w == Weights(request)
           c == SeedsPer(sd)
           N == Len(request.prompts)
<1>1. /\ w \in Seq(Nat) /\ Len(w) = N /\ N \in Nat
      /\ \A n \in 1 .. N : request.prompts[n] \in Compiler!Range(request.prompts)
      /\ \A n \in 1 .. N : w[n] = Product(AxisSizes(request, request.prompts[n])) /\ w[n] \in Nat
  BY WeightsArePositive, CompilerSums DEF Positive
<1>11. DOMAIN request.prompts = 1 .. N
  <2>1. Compiler!IsList(request.prompts)
    BY DEF Compiler!IsRequest
  <2>2. QED
    BY <2>1, CompilerLists
<1>2. Total(w) = PlanSize(request)
  BY CompilerSums DEF PlanSize
<1>3. c \in Nat \ {0}
  BY DEF Positive
<1>4. DOMAIN plan = 1 .. Total(w) * c
  <2>1. Compiler!IsList(plan) /\ Len(plan) = Total(w) * c
    BY <1>2 DEF IsPlan
  <2>2. QED
    BY <2>1, CompilerLists
<1>5. \A n \in 1 .. N : \A k \in 0 .. (w[n] - 1) : \A j \in 1 .. c :
        plan[PartPlace(w, c, n, k, j)] =
          JobOf(request, request.prompts[n], ConfigurationAt(request, request.prompts[n], k), SeedAt(sd, PlaceOf(request, n, k, c), j))
  <2>1. \A n, k, j : PartPlace(w, c, n, k, j) = PlaceOf(request, n, k, c) + j
    BY DEF PartPlace, PlaceOf
  <2>2. QED
    BY <2>1 DEF IsPlan
<1>6. MaxPromptBytes \in Nat
  BY CompilerIsAssumed
<1>7. \A n \in 1 .. N : \A k \in 0 .. (w[n] - 1) : k \in Nat
  BY <1>1
<1> HIDE DEF w, c, N
<1>8. ASSUME HasLargePrompt(request)
      PROVE  \E job \in Compiler!Range(plan) : Compiler!BytesOf(job.text) > MaxPromptBytes
  <2>1. PICK p \in Compiler!Range(request.prompts) : LargestText(request, p) > MaxPromptBytes
    BY <1>8 DEF HasLargePrompt
  <2>2. PICK n \in 1 .. N : p = request.prompts[n]
    BY <1>11, <2>1 DEF Compiler!Range
  <2>3. w[n] = Product(AxisSizes(request, p))
    BY <1>1, <2>2
  <2>4. PICK k \in 0 .. (Product(AxisSizes(request, p)) - 1) : \A seed :
          Compiler!BytesOf(JobOf(request, p, ConfigurationAt(request, p, k), seed).text) = LargestText(request, p)
    BY <2>1, LargestIsReached
  <2>5. k \in 0 .. (w[n] - 1) /\ 1 \in 1 .. c
    BY <1>3, <2>3
  <2> DEFINE x == PartPlace(w, c, n, k, 1)
  <2>6. x \in 1 .. Total(w) * c
    BY <1>1, <1>3, <2>5, PartsHavePlaces
  <2>7. plan[x] = JobOf(request, p, ConfigurationAt(request, p, k), SeedAt(sd, PlaceOf(request, n, k, c), 1))
    BY <1>5, <2>2, <2>5
  <2> HIDE DEF x
  <2>8. Compiler!BytesOf(plan[x].text) > MaxPromptBytes
    BY <2>1, <2>4, <2>7
  <2>9. plan[x] \in Compiler!Range(plan)
    BY <1>4, <2>6 DEF Compiler!Range
  <2>10. QED
    BY <2>8, <2>9
<1>9. ASSUME NEW job \in Compiler!Range(plan), Compiler!BytesOf(job.text) > MaxPromptBytes
      PROVE  HasLargePrompt(request)
  <2>1. PICK x \in 1 .. Total(w) * c : job = plan[x]
    BY <1>4 DEF Compiler!Range
  <2>2. PICK n \in 1 .. N : \E k \in 0 .. (w[n] - 1) : \E j \in 1 .. c : x = PartPlace(w, c, n, k, j)
    BY <1>1, <1>3, EveryPlaceIsInPart
  <2>3. PICK k \in 0 .. (w[n] - 1) : \E j \in 1 .. c : x = PartPlace(w, c, n, k, j)
    BY <2>2
  <2>4. PICK j \in 1 .. c : x = PartPlace(w, c, n, k, j)
    BY <2>3
  <2> DEFINE p == request.prompts[n]
             d == ConfigurationAt(request, p, k)
             seed == SeedAt(sd, PlaceOf(request, n, k, c), j)
             y == Compiler!BytesOf(JobOf(request, p, d, seed).text)
             z == LargestText(request, p)
  <2>5. p \in Compiler!Range(request.prompts) /\ k \in Nat
    BY <1>1, <1>7
  <2>6. job = JobOf(request, p, d, seed)
    BY <1>5, <2>1, <2>4
  <2> HIDE DEF p
  <2>7. Chooses(AxisSizes(request, p), d)
    BY <2>5, BytesOfConfiguration
  <2> HIDE DEF d, seed
  <2>8. y <= z /\ y \in Int /\ z \in Int
    BY <2>5, <2>7, TextIsBounded
  <2>9. y > MaxPromptBytes
    BY <1>9, <2>6
  <2> HIDE DEF y, z
  <2>10. z > MaxPromptBytes
    BY <1>6, <2>8, <2>9
  <2>11. QED
    BY <2>5, <2>10 DEF z, HasLargePrompt
<1>10. QED
  BY <1>8, <1>9

LEMMA TextFollows ==
  ASSUME CompilerInvariant, PlanInvariant
  PROVE  Compiler!TextIsMeasured
<1>1. SUFFICES ASSUME stage = "compile", work = "text"
               PROVE  /\ Compiler!TextBytes =
                           Compiler!Total([i \in DOMAIN Compiler!ReferencePlan |-> Compiler!BytesOfJob(Compiler!ReferencePlan[i])])
                      /\ Compiler!IsTooLong <=>
                           \/ Compiler!TextBytes > limits.text
                           \/ \E job \in Compiler!Range(Compiler!ReferencePlan) : Compiler!BytesOf(job.text) > MaxPromptBytes
  BY DEF Compiler!TextIsMeasured, Compiler!MaxTextBytes
<1>2. /\ CompilerShape /\ Compiler!IsRequest(request) /\ IsCountable(request) /\ SeedsPer(seeds) \in Positive
      /\ total = PlanSize(request) * SeedsPer(seeds)
  BY <1>1 DEF CompilerInvariant, CompilerShape, StagesAreCountable, CountIsWhole
<1>3. Sound /\ BindingsHold("compile")
  BY <1>1, CountingIsChecked
<1>4. ParametersDiffer(request)
  BY <1>3, KeysAreDifferent
<1> DEFINE plan == PlanOf(request, seeds)
<1>5. Compiler!ReferencePlan = plan
  BY <1>1, <1>2, ReferenceIs
<1>6. IsPlan(plan, request, seeds)
  BY <1>2, PlanIs
<1> HIDE DEF plan
<1>7. Compiler!TextBytes = TextPerSeed(request) * SeedsPer(seeds)
  BY <1>2, TextBytesAre
<1>8. Total([i \in DOMAIN plan |-> Compiler!BytesOfJob(plan[i])]) = TextPerSeed(request) * SeedsPer(seeds)
  BY <1>2, <1>3, <1>4, <1>6, TextOfPlan
<1>9. HasLargePrompt(request) <=> \E job \in Compiler!Range(plan) : Compiler!BytesOf(job.text) > MaxPromptBytes
  BY <1>2, <1>3, <1>4, <1>6, LargePromptIsForeseen
<1>10. Compiler!IsTooLong <=> HasLargePrompt(request) \/ TextPerSeed(request) * SeedsPer(seeds) > limits.text
  BY <1>1, <1>2, TextIsJudged
<1>11. Compiler!TextBytes = Compiler!Total([i \in DOMAIN Compiler!ReferencePlan |-> Compiler!BytesOfJob(Compiler!ReferencePlan[i])])
  BY <1>5, <1>7, <1>8, CompilerSums
<1>12. QED
  BY <1>5, <1>7, <1>9, <1>10, <1>11

\* For every request, budget and seeds: the length that is held against the
\* budget is that of the Jobs' texts, to the byte, and a plan is refused for
\* it, or for one prompt, exactly when it has to be; the Jobs come in the
\* documented order with distinct random seeds, a preview is created as it was
\* and a stored plan accepted if and only if its snapshot compiles to it
\* (_compile_batch, validate_batch_plan).
THEOREM PlanStaysExact == PlanningSpec => []PlanIsExact
<1>1. CompilerInvariant /\ PlanInvariant => PlanIsExact
  <2> SUFFICES ASSUME CompilerInvariant, PlanInvariant, which = "compiler"
               PROVE  /\ Compiler!TextIsMeasured /\ Compiler!PlanIsOrdered /\ Compiler!RandomSeedsDiffer
                      /\ Compiler!PreviewIsBinding /\ Compiler!StoredPlanIsExact
    BY DEF PlanIsExact
  <2>1. Compiler!TextIsMeasured
    BY TextFollows
  <2>2. Compiler!RandomSeedsDiffer
    BY DEF CompilerInvariant, SeedsDiffer, Compiler!RandomSeedsDiffer
  <2>3. Compiler!PlanIsOrdered /\ Compiler!PreviewIsBinding /\ Compiler!StoredPlanIsExact
    BY OrderFollows, BindingFollows, StoredFollows
  <2>4. QED
    BY <2>1, <2>2, <2>3
<1>2. QED
  BY <1>1, PlanHolds, PTL
=============================================================================
