----------------------------- MODULE BoardProofs -----------------------------
(***************************************************************************)
(* For any command line, any engines, any throughputs and any writes and   *)
(* reads that fail: what kvbench run aggregates and writes, and what       *)
(* kvbench report and kvbench compare make of it, are the numbers of the   *)
(* cells.                                                                  *)
(***************************************************************************)
EXTENDS Board, FiniteSetTheorems, SequenceTheorems, WellFoundedInduction, TLAPS

\* A set of numbers that is not empty has a least one.
LEMMA LeastOf ==
  ASSUME NEW T \in SUBSET Nat, T # {}
  PROVE  \E x \in T : \A y \in T : x <= y
<1>1. PICK R : R = OpToRel(<, Nat)
  BY Zenon
<1>2. IsWellFoundedOn(R, Nat)
  BY <1>1, NatLessThanWellFounded, Zenon
<1>3. \A x, y \in Nat : y < x => <<y, x>> \in R
  BY <1>1 DEF OpToRel
<1>4. PICK x \in T : \A y \in T : ~ (<<y, x>> \in R)
  BY <1>2, WFMin, Zenon
<1>5. \A y \in T : y \in Nat
  OBVIOUS
<1>6. \A y \in T : ~ (y < x)
  BY <1>3, <1>4, <1>5, Zenon
<1> QED BY <1>5, <1>6

\* Of finitely many numbers one is the greatest (maxOf).
LEMMA GreatestAt ==
  ASSUME NEW D, IsFiniteSet(D), D # {}, NEW xs \in [D -> Int]
  PROVE  \E i \in D : \A j \in D : xs[j] <= xs[i]
<1> DEFINE Has(T) == \E i \in T : \A j \in T : xs[j] <= xs[i]
<1> SUFFICES ASSUME ~Has(D) PROVE FALSE
  BY Zenon
<1>1. PICK C : C = {T \in SUBSET D : T # {} /\ ~Has(T)}
  BY Zenon
<1>2. \A T \in SUBSET D : IsFiniteSet(T) /\ Cardinality(T) \in Nat
  BY FS_Subset, FS_CardinalityType, Zenon
<1>3. PICK N : N = {Cardinality(T) : T \in C}
  BY Zenon
<1>4. N \in SUBSET Nat /\ N # {}
  BY <1>1, <1>2, <1>3, Zenon
<1>5. PICK T \in C : \A U \in C : Cardinality(T) <= Cardinality(U)
  <2>1. PICK x \in N : \A y \in N : x <= y
    BY <1>4, LeastOf, Zenon
  <2> QED BY <1>3, <2>1, Zenon
<1>6. T \in SUBSET D /\ T # {} /\ ~Has(T)
  BY <1>1, <1>5, Zenon
<1>7. PICK x \in T : TRUE
  BY <1>6, Zenon
<1>8. PICK U : U = T \ {x}
  BY Zenon
<1>9. U \in SUBSET D /\ IsFiniteSet(T)
  BY <1>2, <1>6, <1>8, Zenon
<1>10. U \notin C
  <2>1. Cardinality(U) = Cardinality(T) - 1 /\ Cardinality(T) \in Nat
    BY <1>2, <1>6, <1>7, <1>8, <1>9, FS_RemoveElement, Zenon
  <2>2. ~(Cardinality(T) <= Cardinality(U))
    BY <2>1
  <2> QED BY <1>5, <2>2, Zenon
<1>11. \A i \in D : xs[i] \in Int
  OBVIOUS
<1>12. CASE U = {}
  <2>1. T = {x}
    BY <1>7, <1>8, <1>12, Zenon
  <2>2. xs[x] <= xs[x]
    BY <1>6, <1>7, <1>11
  <2> QED BY <1>6, <2>1, <2>2, Zenon
<1>13. CASE Has(U)
  <2>1. PICK i \in U : \A j \in U : xs[j] <= xs[i]
    BY <1>13, Zenon
  <2>2. i \in T /\ \A j \in T : j = x \/ j \in U
    BY <1>8, <2>1, Zenon
  <2>3. xs[i] \in Int /\ xs[x] \in Int /\ \A j \in T : xs[j] \in Int
    BY <1>6, <1>7, <1>11, <2>2, Zenon
  <2>4. CASE xs[x] <= xs[i]
    BY <1>6, <2>1, <2>2, <2>4, Zenon
  <2>5. CASE xs[i] <= xs[x]
    <3>1. \A j \in T : xs[j] <= xs[x]
      BY <2>1, <2>2, <2>3, <2>5
    <3> QED BY <1>6, <1>7, <3>1, Zenon
  <2> QED BY <2>3, <2>4, <2>5
<1> QED BY <1>1, <1>9, <1>10, <1>12, <1>13, Zenon

\* Of finitely many numbers one is the least (minOf).
LEMMA LeastAt ==
  ASSUME NEW D, IsFiniteSet(D), D # {}, NEW xs \in [D -> Int]
  PROVE  \E i \in D : \A j \in D : xs[i] <= xs[j]
<1>1. PICK ys : ys = [j \in D |-> 0 - xs[j]]
  BY Zenon
<1>2. ys \in [D -> Int]
  BY <1>1
<1>3. PICK i \in D : \A j \in D : ys[j] <= ys[i]
  BY <1>2, GreatestAt, Zenon
<1>4. \A j \in D : xs[j] \in Int /\ ys[j] = 0 - xs[j]
  BY <1>1
<1>5. \A j \in D : xs[i] <= xs[j]
  BY <1>3, <1>4
<1> QED BY <1>5, Zenon

-----------------------------------------------------------------------------
\* Numbers at most, at least and below another, of a run's throughputs.
UpTo(xs, x) == {i \in DOMAIN xs : xs[i] <= x}
From(xs, x) == {i \in DOMAIN xs : xs[i] >= x}
Below(xs, x) == {i \in DOMAIN xs : xs[i] < x}

\* What sorting the copy puts at a place: a number that fewer are below than the
\* place, and at least as many as the place up to.
Stands(xs, k, x) ==
  x \in Range(xs) /\ Cardinality(Below(xs, x)) < k /\ Cardinality(UpTo(xs, x)) >= k

\* How many there are.
LEMMA Counts ==
  ASSUME NEW D, IsFiniteSet(D), NEW xs \in [D -> Nat], NEW x \in Nat
  PROVE  /\ IsFiniteSet(UpTo(xs, x)) /\ IsFiniteSet(From(xs, x)) /\ IsFiniteSet(Below(xs, x))
         /\ Cardinality(UpTo(xs, x)) \in Nat /\ Cardinality(From(xs, x)) \in Nat
         /\ Cardinality(Below(xs, x)) \in Nat /\ Cardinality(D) \in Nat
         /\ Cardinality(From(xs, x)) + Cardinality(Below(xs, x)) = Cardinality(D)
<1>1. /\ UpTo(xs, x) \in SUBSET D /\ From(xs, x) \in SUBSET D /\ Below(xs, x) \in SUBSET D
  BY Zenon DEF UpTo, From, Below
<1>2. From(xs, x) = D \ Below(xs, x)
  BY DEF From, Below
<1>3. /\ IsFiniteSet(UpTo(xs, x)) /\ IsFiniteSet(From(xs, x)) /\ IsFiniteSet(Below(xs, x))
  BY <1>1, FS_Subset, Zenon
<1>4. /\ Cardinality(UpTo(xs, x)) \in Nat /\ Cardinality(From(xs, x)) \in Nat
      /\ Cardinality(Below(xs, x)) \in Nat /\ Cardinality(D) \in Nat
  BY <1>3, FS_CardinalityType, Zenon
<1>5. D \cap Below(xs, x) = Below(xs, x)
  BY <1>1, Zenon
<1>6. Cardinality(From(xs, x)) = Cardinality(D) - Cardinality(Below(xs, x))
  BY <1>2, <1>5, FS_Difference, Zenon
<1> QED BY <1>3, <1>4, <1>6

\* Every place of the sorted copy is taken.
LEMMA SortedStands ==
  ASSUME NEW D, IsFiniteSet(D), NEW xs \in [D -> Nat], NEW k \in 1..Cardinality(D)
  PROVE  Stands(xs, k, Sorted(xs, k)) /\ Sorted(xs, k) \in Nat
<1>0. DOMAIN xs = D /\ Range(xs) \in SUBSET Nat /\ \A i \in D : xs[i] \in Nat /\ xs[i] \in Range(xs)
  BY DEF Range
<1>1. PICK T : T = {x \in Range(xs) : Cardinality(UpTo(xs, x)) >= k}
  BY Zenon
<1>2. \A x \in Nat : Cardinality(UpTo(xs, x)) \in Nat /\ Cardinality(Below(xs, x)) \in Nat
  BY Counts, Zenon
<1>3. Cardinality(D) \in Nat /\ D # {}
  <2>1. Cardinality(D) \in Nat
    BY FS_CardinalityType, Zenon
  <2>2. Cardinality(D) # 0
    BY <2>1
  <2> QED BY <2>1, <2>2, FS_EmptySet, Zenon
<1>4. T # {}
  <2>1. xs \in [D -> Int]
    OBVIOUS
  <2>2. PICK i \in D : \A j \in D : xs[j] <= xs[i]
    BY <1>3, <2>1, GreatestAt, Zenon
  <2>3. UpTo(xs, xs[i]) = D
    BY <1>0, <2>2, Zenon DEF UpTo
  <2>4. Cardinality(UpTo(xs, xs[i])) >= k
    BY <1>3, <2>3
  <2> QED BY <1>0, <1>1, <2>4, Zenon
<1>5. PICK x \in T : \A y \in T : x <= y
  <2>1. T \in SUBSET Nat
    BY <1>0, <1>1, Zenon
  <2> QED BY <1>4, <2>1, LeastOf, Zenon
<1>6. x \in Range(xs) /\ x \in Nat /\ Cardinality(UpTo(xs, x)) >= k
  BY <1>0, <1>1, <1>5, Zenon
<1>7. Cardinality(Below(xs, x)) < k
  <2> SUFFICES ASSUME Cardinality(Below(xs, x)) >= k PROVE FALSE
    BY <1>2, <1>6
  <2>1. IsFiniteSet(Below(xs, x)) /\ Below(xs, x) \in SUBSET D
    BY <1>0, <1>6, Counts, Zenon DEF Below
  <2>2. Below(xs, x) # {}
    <3>1. Cardinality(Below(xs, x)) # 0
      BY <1>2, <1>6
    <3> QED BY <3>1, FS_EmptySet, Zenon
  <2>3. PICK ys : ys = [i \in Below(xs, x) |-> xs[i]]
    BY Zenon
  <2>4. ys \in [Below(xs, x) -> Int]
    BY <1>0, <2>1, <2>3
  <2>5. PICK i \in Below(xs, x) : \A j \in Below(xs, x) : ys[j] <= ys[i]
    BY <2>1, <2>2, <2>4, GreatestAt, Zenon
  <2>6. i \in D /\ xs[i] < x /\ \A j \in Below(xs, x) : xs[j] <= xs[i]
    BY <1>0, <2>3, <2>5, Zenon DEF Below
  <2>7. Below(xs, x) \in SUBSET UpTo(xs, xs[i])
    BY <2>6, Zenon DEF Below, UpTo
  <2>8. Cardinality(Below(xs, x)) <= Cardinality(UpTo(xs, xs[i]))
    BY <1>0, <2>6, <2>7, Counts, FS_Subset, Zenon
  <2>9. xs[i] \in Nat /\ xs[i] \in Range(xs)
    BY <1>0, <2>6, Zenon
  <2>10. Cardinality(UpTo(xs, xs[i])) >= k
    BY <1>2, <1>6, <2>8, <2>9
  <2>11. xs[i] \in T
    BY <1>1, <2>9, <2>10, Zenon
  <2>12. x <= xs[i]
    BY <1>5, <2>11, Zenon
  <2> QED BY <1>6, <2>6, <2>9, <2>12
<1>8. \E y \in Range(xs) : Cardinality(Below(xs, y)) < k /\ Cardinality(UpTo(xs, y)) >= k
  BY <1>6, <1>7, Zenon
<1>9. Sorted(xs, k) = CHOOSE y \in Range(xs) :
                        Cardinality(Below(xs, y)) < k /\ Cardinality(UpTo(xs, y)) >= k
  BY Zenon DEF Sorted, Below, UpTo
<1>10. Stands(xs, k, Sorted(xs, k))
  BY <1>8, <1>9, Zenon DEF Stands
<1> QED BY <1>0, <1>10, Zenon DEF Stands

\* Halving a number of repetitions, and the mean of two throughputs.
LEMMA Halves ==
  /\ \A n \in Nat \ {0} : /\ n % 2 = 1 => (n \div 2) + 1 \in 1..n /\ n = 2 * (n \div 2) + 1
                          /\ n % 2 # 1 => /\ n \div 2 \in 1..n /\ (n \div 2) + 1 \in 1..n
                                          /\ n = 2 * (n \div 2)
  /\ \A a, b \in Nat : a <= b =>
       (a + b) \div 2 \in Nat /\ a <= (a + b) \div 2 /\ (a + b) \div 2 <= b
OBVIOUS

\* The sorted copy rises.
LEMMA SortedRises ==
  ASSUME NEW D, IsFiniteSet(D), NEW xs \in [D -> Nat], NEW k \in Nat,
         NEW x \in Nat, NEW y \in Nat, Stands(xs, k, x), Stands(xs, k + 1, y)
  PROVE  x <= y
<1> SUFFICES ASSUME y < x PROVE FALSE
  OBVIOUS
<1>1. UpTo(xs, y) \in SUBSET Below(xs, x)
  BY DEF UpTo, Below
<1>2. /\ Cardinality(UpTo(xs, y)) \in Nat /\ Cardinality(Below(xs, x)) \in Nat
      /\ IsFiniteSet(Below(xs, x))
  BY Counts, Zenon
<1>3. Cardinality(UpTo(xs, y)) <= Cardinality(Below(xs, x))
  BY <1>1, <1>2, FS_Subset, Zenon
<1>4. Cardinality(UpTo(xs, y)) >= k + 1 /\ Cardinality(Below(xs, x)) < k
  BY Zenon DEF Stands
<1> QED BY <1>2, <1>3, <1>4

\* What hdr.MedianOf returns: half of the numbers are no greater, half no less, and
\* it is one of them if they are odd in number.
IsMedian(xs, m) ==
  /\ m \in Nat
  /\ 2 * Cardinality(UpTo(xs, m)) >= Cardinality(DOMAIN xs)
  /\ 2 * Cardinality(From(xs, m)) >= Cardinality(DOMAIN xs)
  /\ Cardinality(DOMAIN xs) % 2 = 1 => m \in Range(xs)

\* hdr.MedianOf returns a median.
LEMMA MedianIsMedian ==
  ASSUME NEW D, IsFiniteSet(D), D # {}, NEW xs \in [D -> Nat]
  PROVE  IsMedian(xs, MedianOf(xs))
<1>1. DOMAIN xs = D
  OBVIOUS
<1>2. PICK n \in Nat \ {0} : n = Cardinality(D)
  <2>1. Cardinality(D) \in Nat /\ Cardinality(D) # 0
    BY FS_CardinalityType, FS_EmptySet, Zenon
  <2> QED BY <2>1
<1>3. \A x \in Nat : /\ Cardinality(UpTo(xs, x)) \in Nat /\ Cardinality(From(xs, x)) \in Nat
                     /\ Cardinality(Below(xs, x)) \in Nat
                     /\ IsFiniteSet(UpTo(xs, x)) /\ IsFiniteSet(From(xs, x))
                     /\ Cardinality(From(xs, x)) + Cardinality(Below(xs, x)) = n
  BY <1>2, Counts, Zenon
<1>4. CASE n % 2 = 1
  <2>1. PICK m : m = Sorted(xs, (n \div 2) + 1)
    BY Zenon
  <2>2. MedianOf(xs) = m
    BY <1>1, <1>2, <1>4, <2>1, Zenon DEF MedianOf
  <2>3. (n \div 2) + 1 \in 1..n
    BY <1>4, Halves, Zenon
  <2>4. Stands(xs, (n \div 2) + 1, m) /\ m \in Nat
    BY <1>2, <2>1, <2>3, SortedStands, Zenon
  <2>5. PICK h \in Nat : h = n \div 2 /\ n = 2 * h + 1
    BY <1>4, Halves
  <2>6. Cardinality(Below(xs, m)) < h + 1 /\ Cardinality(UpTo(xs, m)) >= h + 1 /\ m \in Range(xs)
    BY <2>4, <2>5, Zenon DEF Stands
  <2>7. 2 * Cardinality(UpTo(xs, m)) >= n /\ 2 * Cardinality(From(xs, m)) >= n
    <3>1. /\ Cardinality(UpTo(xs, m)) \in Nat /\ Cardinality(From(xs, m)) \in Nat
          /\ Cardinality(Below(xs, m)) \in Nat
          /\ Cardinality(From(xs, m)) + Cardinality(Below(xs, m)) = n
      BY <1>3, <2>4, Zenon
    <3> QED BY <2>5, <2>6, <3>1
  <2> QED BY <1>1, <1>2, <2>2, <2>4, <2>6, <2>7, Zenon DEF IsMedian
<1>5. CASE n % 2 # 1
  <2>1. PICK h : h = n \div 2
    BY Zenon
  <2>2. h \in 1..n /\ h + 1 \in 1..n /\ n = 2 * h /\ h \in Nat
    BY <1>5, <2>1, Halves
  <2>3. PICK a : a = Sorted(xs, h)
    BY Zenon
  <2>4. PICK b : b = Sorted(xs, h + 1)
    BY Zenon
  <2>5. Stands(xs, h, a) /\ a \in Nat /\ Stands(xs, h + 1, b) /\ b \in Nat
    BY <1>2, <2>2, <2>3, <2>4, SortedStands, Zenon
  <2>6. a <= b
    BY <2>2, <2>5, SortedRises, Zenon
  <2>7. PICK m : m = (a + b) \div 2
    BY Zenon
  <2>8. m \in Nat /\ a <= m /\ m <= b
    BY <2>5, <2>6, <2>7, Halves
  <2>9. MedianOf(xs) = m
    BY <1>1, <1>2, <1>5, <2>1, <2>3, <2>4, <2>7, Zenon DEF MedianOf
  <2>10. UpTo(xs, a) \in SUBSET UpTo(xs, m) /\ From(xs, b) \in SUBSET From(xs, m)
    <3>1. \A i \in D : xs[i] \in Nat
      OBVIOUS
    <3>2. \A x \in Nat : (x <= a => x <= m) /\ (x >= b => x >= m)
      BY <2>5, <2>8
    <3> QED BY <1>1, <3>1, <3>2, Zenon DEF UpTo, From
  <2>11. /\ Cardinality(UpTo(xs, a)) <= Cardinality(UpTo(xs, m))
         /\ Cardinality(From(xs, b)) <= Cardinality(From(xs, m))
    BY <1>3, <2>8, <2>10, FS_Subset, Zenon
  <2>12. Cardinality(UpTo(xs, a)) >= h /\ Cardinality(Below(xs, b)) < h + 1
    BY <2>5, Zenon DEF Stands
  <2>13. 2 * Cardinality(UpTo(xs, m)) >= n
    <3>1. Cardinality(UpTo(xs, a)) \in Nat /\ Cardinality(UpTo(xs, m)) \in Nat
      BY <1>3, <2>5, <2>8, Zenon
    <3> QED BY <2>2, <2>11, <2>12, <3>1
  <2>14. 2 * Cardinality(From(xs, m)) >= n
    <3>1. /\ Cardinality(From(xs, b)) \in Nat /\ Cardinality(From(xs, m)) \in Nat
          /\ Cardinality(Below(xs, b)) \in Nat
          /\ Cardinality(From(xs, b)) + Cardinality(Below(xs, b)) = n
      BY <1>3, <2>5, <2>8, Zenon
    <3> QED BY <2>2, <2>11, <2>12, <3>1
  <2> QED BY <1>1, <1>2, <1>5, <2>8, <2>9, <2>13, <2>14, Zenon DEF IsMedian
<1> QED BY <1>4, <1>5, Zenon

-----------------------------------------------------------------------------
\* What RunCell may answer for a cell.
LEMMA AnswerFacts ==
  ASSUME NEW c, NEW a \in Answers(c)
  PROVE  /\ a.err \in BOOLEAN /\ a.ops \in Nat /\ a.cell \in {c, NoCell}
         /\ c # NoCell /\ a.cell = NoCell => a.ops = 0
<1>1. \A t \in Tputs : t \in Nat
  BY SweepAssumption, Zenon
<1>2. \/ \E t \in Tputs : a = Answer(c, FALSE, t)
      \/ a = Answer(c, TRUE, 0) \/ a = Answer(NoCell, FALSE, 0)
  BY Zenon DEF Answers
<1>3. ASSUME NEW t \in Tputs, a = Answer(c, FALSE, t)
      PROVE  a.err = FALSE /\ a.ops \in Nat /\ a.cell = c
  BY <1>1, <1>3 DEF Answer
<1>4. CASE a = Answer(c, TRUE, 0)
  BY <1>4 DEF Answer
<1>5. CASE a = Answer(NoCell, FALSE, 0)
  BY <1>5 DEF Answer
<1>6. FALSE \in BOOLEAN
  OBVIOUS
<1> QED BY <1>2, <1>3, <1>4, <1>5, <1>6, Zenon

\* The repetitions that did not fail, and their throughputs.
LEMMA GoodFacts ==
  ASSUME NEW c, NEW rs \in Seq(Answers(c))
  PROVE  /\ Good(rs) \in SUBSET DOMAIN rs /\ DOMAIN rs = 1..Len(rs) /\ Len(rs) \in Nat
         /\ IsFiniteSet(Good(rs)) /\ Good(rs) \in SUBSET Nat
         /\ \A i \in DOMAIN rs : /\ rs[i].err \in BOOLEAN /\ rs[i].ops \in Nat
                                 /\ rs[i].cell \in {c, NoCell} /\ i \in Nat
         /\ OpsOf(rs) \in [Good(rs) -> Nat] /\ DOMAIN OpsOf(rs) = Good(rs)
         /\ \A i \in Good(rs) : OpsOf(rs)[i] = rs[i].ops /\ OpsOf(rs)[i] \in Nat
<1>1. DOMAIN rs = 1..Len(rs) /\ Len(rs) \in Nat /\ \A i \in DOMAIN rs : rs[i] \in Answers(c)
  OBVIOUS
<1>2. Good(rs) \in SUBSET DOMAIN rs
  BY Zenon DEF Good
<1>3. IsFiniteSet(1..Len(rs)) /\ \A i \in 1..Len(rs) : i \in Nat
  BY <1>1, FS_Interval
<1>4. IsFiniteSet(Good(rs))
  BY <1>1, <1>2, <1>3, FS_Subset, Zenon
<1>5. \A i \in DOMAIN rs : rs[i].err \in BOOLEAN /\ rs[i].ops \in Nat /\ rs[i].cell \in {c, NoCell}
  <2> SUFFICES ASSUME NEW i \in DOMAIN rs, NEW a, a = rs[i]
               PROVE  a.err \in BOOLEAN /\ a.ops \in Nat /\ a.cell \in {c, NoCell}
    BY Zenon
  <2>1. a \in Answers(c)
    BY <1>1, Zenon
  <2> QED BY <2>1, AnswerFacts, Zenon
<1>6. \A i \in Good(rs) : rs[i].ops \in Nat
  BY <1>2, <1>5, Zenon
<1>7. /\ OpsOf(rs) \in [Good(rs) -> Nat] /\ DOMAIN OpsOf(rs) = Good(rs)
      /\ \A i \in Good(rs) : OpsOf(rs)[i] = rs[i].ops
  BY <1>6, Zenon DEF OpsOf
<1>8. Good(rs) \in SUBSET Nat
  BY <1>1, <1>2, <1>3, Zenon
<1> QED BY <1>1, <1>2, <1>3, <1>4, <1>5, <1>6, <1>7, <1>8, Zenon

\* The repetitions that were measured are those that did not fail, but for the
\* panicked ones, which have no throughput.
LEMMA MeasuredFacts ==
  ASSUME NEW c, NEW rs \in Seq(Answers(c)), c # NoCell
  PROVE  /\ Measured(rs) \in SUBSET Good(rs) /\ IsFiniteSet(Measured(rs))
         /\ \A j \in Good(rs) : j \notin Measured(rs) => rs[j].ops = 0
         /\ ~Panicked(rs) => Measured(rs) = Good(rs)
<1>1. Measured(rs) \in SUBSET Good(rs)
  BY Zenon DEF Measured, Good
<1>2. \A j \in Good(rs) : j \notin Measured(rs) => j \in DOMAIN rs /\ rs[j].cell = NoCell
  BY Zenon DEF Measured, Good
<1>3. IsFiniteSet(Measured(rs))
  BY <1>1, GoodFacts, FS_Subset, Zenon
<1>4. ASSUME NEW j \in Good(rs), j \notin Measured(rs)
      PROVE  rs[j].ops = 0
  <2>1. PICK a : a = rs[j]
    BY Zenon
  <2>2. j \in DOMAIN rs /\ a.cell = NoCell
    BY <1>2, <1>4, <2>1, Zenon
  <2>3. a \in Answers(c)
    BY <2>1, <2>2
  <2> QED BY <2>1, <2>2, <2>3, AnswerFacts, Zenon
<1>5. ~Panicked(rs) => Measured(rs) = Good(rs)
  BY <1>1, <1>2, Zenon DEF Panicked
<1> QED BY <1>1, <1>3, <1>4, <1>5, Zenon

\* The search of runReps ends at a repetition that did not fail, and none is nearer
\* to the median.
LEMMA BestNearest ==
  ASSUME NEW c, NEW rs \in Seq(Answers(c)), Good(rs) # {}, NEW med \in Nat
  PROVE  /\ Best(rs, med) \in Good(rs)
         /\ \A j \in Good(rs) : Distance(rs[Best(rs, med)].ops, med) <= Distance(rs[j].ops, med)
<1>1. PICK d : d = [i \in Good(rs) |-> Distance(rs[i].ops, med)]
  BY Zenon
<1>2. \A i \in Good(rs) : d[i] = Distance(rs[i].ops, med) /\ d[i] \in Nat /\ i \in Nat
  <2>1. \A x \in Nat : Distance(x, med) \in Nat
    BY DEF Distance
  <2>2. \A i \in Good(rs) : rs[i].ops \in Nat /\ i \in Nat
    BY GoodFacts, Zenon
  <2> QED BY <1>1, <2>1, <2>2, Zenon
<1>3. PICK D : D = {d[i] : i \in Good(rs)}
  BY Zenon
<1>4. D \in SUBSET Nat /\ D # {}
  BY <1>2, <1>3, Zenon
<1>5. PICK m \in D : \A x \in D : m <= x
  BY <1>4, LeastOf, Zenon
<1>6. PICK S : S = {i \in Good(rs) : d[i] = m}
  BY Zenon
<1>7. S \in SUBSET Nat /\ S # {}
  BY <1>2, <1>3, <1>5, <1>6, Zenon
<1>8. PICK b \in S : \A i \in S : b <= i
  BY <1>7, LeastOf, Zenon
<1>9. b \in Good(rs) /\ d[b] = m /\ m \in Nat
  BY <1>4, <1>5, <1>6, <1>8, Zenon
<1>10. \A j \in Good(rs) : d[b] < d[j] \/ (d[b] = d[j] /\ b <= j)
  <2> SUFFICES ASSUME NEW j \in Good(rs)
               PROVE  d[b] < d[j] \/ (d[b] = d[j] /\ b <= j)
    BY Zenon
  <2>1. m <= d[j] /\ d[j] \in Nat
    BY <1>2, <1>3, <1>5, Zenon
  <2>2. d[j] = m => b <= j
    BY <1>6, <1>8, Zenon
  <2> QED BY <1>9, <2>1, <2>2
<1>11. PICK g : g = Best(rs, med)
  BY Zenon
<1>12. \E i \in Good(rs) : \A j \in Good(rs) :
         \/ Distance(rs[i].ops, med) < Distance(rs[j].ops, med)
         \/ Distance(rs[i].ops, med) = Distance(rs[j].ops, med) /\ i <= j
  BY <1>2, <1>9, <1>10, Zenon
<1>13. g \in Good(rs) /\ \A j \in Good(rs) : d[g] < d[j] \/ (d[g] = d[j] /\ g <= j)
  <2>1. g \in Good(rs) /\ \A j \in Good(rs) :
          \/ Distance(rs[g].ops, med) < Distance(rs[j].ops, med)
          \/ Distance(rs[g].ops, med) = Distance(rs[j].ops, med) /\ g <= j
    BY <1>11, <1>12, Zenon DEF Best
  <2> QED BY <1>2, <2>1, Zenon
<1>14. \A j \in Good(rs) : d[g] <= d[j]
  BY <1>2, <1>13
<1> QED BY <1>2, <1>11, <1>13, <1>14, Zenon

\* What runReps returns of the repetitions of a cell: the first error if they all
\* failed, else the median and the range of the others, and the names and latencies
\* of one of them that is nearest to the median.
Summary(rs, f) ==
  /\ f.err = (Good(rs) = {}) /\ f.ops \in Nat /\ f.latency \in DOMAIN rs
  /\ f.cell = rs[f.latency].cell
  /\ Good(rs) = {} => f.ops = 0
  /\ Good(rs) # {} =>
       /\ IsMedian(OpsOf(rs), f.ops) /\ f.latency \in Good(rs)
       /\ \A j \in Good(rs) : Distance(rs[f.latency].ops, f.ops) <= Distance(rs[j].ops, f.ops)
       /\ f.min \in Range(OpsOf(rs)) /\ f.max \in Range(OpsOf(rs))
       /\ \A j \in Good(rs) : f.min <= OpsOf(rs)[j] /\ OpsOf(rs)[j] <= f.max

\* The least and the greatest of some throughputs (minOf, maxOf).
LEMMA MinMax ==
  ASSUME NEW D, IsFiniteSet(D), D # {}, NEW xs \in [D -> Int]
  PROVE  /\ Min(Range(xs)) \in Range(xs) /\ Max(Range(xs)) \in Range(xs)
         /\ \A i \in D : Min(Range(xs)) <= xs[i] /\ xs[i] <= Max(Range(xs))
<1>1. \A x \in Range(xs) : \E i \in D : x = xs[i]
  BY Zenon DEF Range
<1>2. \A i \in D : xs[i] \in Range(xs) /\ xs[i] \in Int
  BY Zenon DEF Range
<1>3. PICK i \in D : \A j \in D : xs[i] <= xs[j]
  BY LeastAt, Zenon
<1>4. PICK k \in D : \A j \in D : xs[j] <= xs[k]
  BY GreatestAt, Zenon
<1>5. \E x \in Range(xs) : \A y \in Range(xs) : x <= y
  BY <1>1, <1>2, <1>3, Zenon
<1>6. \E x \in Range(xs) : \A y \in Range(xs) : x >= y
  <2>1. \A j \in D : xs[k] >= xs[j]
    BY <1>2, <1>4
  <2> QED BY <1>1, <1>2, <2>1, Zenon
<1>7. Min(Range(xs)) \in Range(xs) /\ \A y \in Range(xs) : Min(Range(xs)) <= y
  BY <1>5, Zenon DEF Min
<1>8. Max(Range(xs)) \in Range(xs) /\ \A y \in Range(xs) : Max(Range(xs)) >= y
  BY <1>6, Zenon DEF Max
<1>9. \A i1 \in D : Max(Range(xs)) >= xs[i1] /\ Max(Range(xs)) \in Int
  BY <1>1, <1>2, <1>8, Zenon
<1>10. \A i1 \in D : xs[i1] <= Max(Range(xs))
  BY <1>2, <1>9
<1> QED BY <1>2, <1>7, <1>8, <1>10, Zenon

\* runReps returns such a summary.
LEMMA AggregateSums ==
  ASSUME NEW c, NEW rs \in Seq(Answers(c)), rs # <<>>
  PROVE  Summary(rs, Aggregate(rs))
<1>1. 1 \in DOMAIN rs
  OBVIOUS
<1>2. CASE Good(rs) = {}
  <2>1. Aggregate(rs) = [cell |-> rs[1].cell, err |-> TRUE, ops |-> 0, min |-> 0, max |-> 0, latency |-> 1]
    BY <1>2, Zenon DEF Aggregate
  <2>2. PICK f : f = Aggregate(rs)
    BY Zenon
  <2>3. f.cell = rs[1].cell /\ f.err = TRUE /\ f.ops = 0 /\ f.latency = 1
    BY <2>1, <2>2
  <2>4. (Good(rs) = {}) = TRUE /\ 0 \in Nat
    BY <1>2
  <2> QED BY <1>1, <1>2, <2>2, <2>3, <2>4, Zenon DEF Summary
<1>3. CASE Good(rs) # {}
  <2>1. PICK xs : xs = OpsOf(rs)
    BY Zenon
  <2>2. xs \in [Good(rs) -> Nat] /\ IsFiniteSet(Good(rs)) /\ Good(rs) \in SUBSET DOMAIN rs
    BY <2>1, GoodFacts, Zenon
  <2>3. PICK med : med = MedianOf(xs)
    BY Zenon
  <2>4. IsMedian(xs, med) /\ med \in Nat
    BY <1>3, <2>2, <2>3, MedianIsMedian, Zenon DEF IsMedian
  <2>5. PICK best : best = Best(rs, med)
    BY Zenon
  <2>6. /\ best \in Good(rs) /\ best \in DOMAIN rs
        /\ \A j \in Good(rs) : Distance(rs[best].ops, med) <= Distance(rs[j].ops, med)
    BY <1>3, <2>2, <2>4, <2>5, BestNearest, Zenon
  <2>7. rs[best].err = FALSE
    <3>1. ~rs[best].err /\ rs[best].err \in BOOLEAN
      BY <2>6, GoodFacts, Zenon DEF Good
    <3> QED BY <3>1
  <2>8. PICK lo, hi : lo = Min(Range(xs)) /\ hi = Max(Range(xs))
    BY Zenon
  <2>9. /\ lo \in Range(xs) /\ hi \in Range(xs)
        /\ \A j \in Good(rs) : lo <= xs[j] /\ xs[j] <= hi
    <3>1. xs \in [Good(rs) -> Int]
      BY <2>2
    <3> QED BY <1>3, <2>2, <2>8, <3>1, MinMax, Zenon
  <2>10. PICK f : f = Aggregate(rs)
    BY Zenon
  <2>11. f = [cell |-> rs[best].cell, err |-> FALSE, ops |-> med, min |-> lo, max |-> hi, latency |-> best]
    BY <1>3, <2>1, <2>3, <2>5, <2>7, <2>8, <2>10, Zenon DEF Aggregate
  <2>12. /\ f.cell = rs[best].cell /\ f.err = FALSE /\ f.ops = med
         /\ f.min = lo /\ f.max = hi /\ f.latency = best
    BY <2>11
  <2>13. (Good(rs) = {}) = FALSE
    BY <1>3
  <2> QED BY <1>3, <2>1, <2>4, <2>6, <2>9, <2>10, <2>12, <2>13, Zenon DEF Summary
<1> QED BY <1>2, <1>3, Zenon

-----------------------------------------------------------------------------
\* What the inductive invariant says, one fact at a time.
LEMMA SweepFacts ==
  ASSUME SweepInv
  PROVE  /\ cmd \in Commands /\ Len(cmd.cells) \in Nat /\ at \in Nat \ {0}
         /\ at <= Len(cmd.cells) + 1
         /\ \A i \in 1..Len(cmd.cells) : cmd.cells[i] \in CellSet
         /\ Repetitions \in Nat \ {0} /\ Chosen \in SUBSET Registry
         /\ DOMAIN log = 1..(at - 1) /\ Len(log) = at - 1
         /\ \A i \in 1..(at - 1) : /\ i \in 1..Len(cmd.cells)
                                   /\ RepsOf(cmd.cells[i], Repetitions, Chosen, log[i])
         /\ SweepDone => reps = <<>>
         /\ ~SweepDone => /\ at \in 1..Len(cmd.cells)
                          /\ RepsOf(cmd.cells[at], Repetitions, Chosen, reps)
         /\ lost \in SUBSET (1..(at - 1)) /\ at \notin lost
         /\ IsFiniteSet(DOMAIN files) /\ Cardinality(DOMAIN files) \in Nat
         /\ Cardinality(DOMAIN files) <= at - 1
         /\ \A n \in DOMAIN files : \E i \in 1..(at - 1) : i \notin lost /\
              log[i] # <<>> /\ files[n] = Aggregate(log[i]) /\ n = FileName(files[n])
         /\ ResultsKept
<1>1. /\ cmd \in Commands /\ at \in 1..(Len(cmd.cells) + 1) /\ IsSeqOf(at - 1, log)
      /\ \A i \in DOMAIN log : RepsOf(cmd.cells[i], Repetitions, Chosen, log[i])
      /\ SweepDone => reps = <<>>
      /\ ~SweepDone => RepsOf(cmd.cells[at], Repetitions, Chosen, reps)
      /\ lost \subseteq DOMAIN log
      /\ IsFiniteSet(DOMAIN files) /\ Cardinality(DOMAIN files) <= Len(log)
      /\ \A n \in DOMAIN files : \E i \in DOMAIN log \ lost :
           log[i] # <<>> /\ files[n] = Aggregate(log[i]) /\ n = FileName(files[n])
      /\ ResultsKept
  BY Zenon DEF SweepInv
<1>2. cmd.reps \in Nat /\ cmd.cells \in Seq(CellSet)
  BY <1>1, SweepAssumption, Zenon
<1>3. Len(cmd.cells) \in Nat /\ \A i \in 1..Len(cmd.cells) : cmd.cells[i] \in CellSet
  BY <1>2
<1>4. at \in Nat \ {0} /\ at <= Len(cmd.cells) + 1 /\ \A i \in 1..(at - 1) : i \in 1..Len(cmd.cells)
  BY <1>1, <1>3
<1>5. Repetitions \in Nat \ {0}
  BY <1>2 DEF Repetitions
<1>6. Chosen \in SUBSET Registry
  BY Zenon DEF Chosen
<1>7. DOMAIN log = 1..(at - 1)
  BY <1>1, Zenon DEF IsSeqOf
<1>8. Len(log) = at - 1
  <2>1. PICK n \in Nat : n = at - 1
    BY <1>4
  <2>2. DOMAIN log = 1..n
    BY <1>7, <2>1
  <2> QED BY <2>1, <2>2
<1>9. ~SweepDone => at \in 1..Len(cmd.cells)
  BY <1>3, <1>4 DEF SweepDone
<1>10. Cardinality(DOMAIN files) \in Nat
  BY <1>1, FS_CardinalityType, Zenon
<1>11. lost \in SUBSET (1..(at - 1)) /\ at \notin lost
  <2>1. lost \in SUBSET (1..(at - 1))
    BY <1>1, <1>7, Zenon
  <2>2. at \notin 1..(at - 1)
    BY <1>4
  <2> QED BY <2>1, <2>2, Zenon
<1> QED BY <1>1, <1>3, <1>4, <1>5, <1>6, <1>7, <1>8, <1>9, <1>10, <1>11, Zenon

\* The log after one more cell.
LEMMA LogGrows ==
  ASSUME SweepInv, NEW l, log' = Append(log, l), at' = at + 1
  PROVE  /\ IsSeqOf(at' - 1, log') /\ DOMAIN log' = 1..at /\ Len(log') = at
         /\ log'[at] = l /\ \A i \in 1..(at - 1) : log'[i] = log[i] /\ i \in 1..at
         /\ at \in 1..at /\ \A i \in 1..at : i = at \/ i \in 1..(at - 1)
         /\ \A i \in 1..(at - 1) : at \in i..at /\ \A k \in i..(at - 1) : k \in i..at /\ k \in 1..(at - 1)
<1>1. at \in Nat \ {0} /\ DOMAIN log = 1..(at - 1) /\ Len(log) = at - 1
      /\ IsSeqOf(at - 1, log)
  BY SweepFacts, Zenon DEF SweepInv
<1>2. PICK n \in Nat : n = at - 1
  BY <1>1
<1>3. PICK S : S = {log[i] : i \in 1..n} \cup {l}
  BY Zenon
<1>4. log \in [1..n -> S] /\ l \in S
  <2>1. log = [i \in 1..n |-> log[i]]
    BY <1>1, <1>2, Zenon DEF IsSeqOf
  <2>2. \A i \in 1..n : log[i] \in S
    BY <1>3, Zenon
  <2> QED BY <1>3, <2>1, <2>2, Zenon
<1>5. log \in Seq(S) /\ Len(log) = n
  BY <1>1, <1>2, <1>4
<1>6. /\ log' \in Seq(S) /\ Len(log') = n + 1 /\ log'[n + 1] = l
      /\ \A i \in 1..n : log'[i] = log[i]
  BY <1>4, <1>5, AppendProperties
<1>7. log' \in [1..(n + 1) -> S] /\ DOMAIN log' = 1..(n + 1)
  BY <1>6, LenProperties, Zenon
<1>8. n + 1 = at /\ at' - 1 = at /\ 1..(n + 1) = 1..at /\ 1..n = 1..(at - 1)
  BY <1>1, <1>2
<1>9. IsSeqOf(at' - 1, log')
  BY <1>7, <1>8, Zenon DEF IsSeqOf
<1>10. /\ at \in 1..at /\ \A i \in 1..at : i = at \/ i \in 1..(at - 1)
       /\ \A i \in 1..(at - 1) : i \in 1..at
       /\ \A i \in 1..(at - 1) : at \in i..at /\ \A k \in i..(at - 1) : k \in i..at /\ k \in 1..(at - 1)
  BY <1>1
<1> QED BY <1>6, <1>7, <1>8, <1>9, <1>10, Zenon

\* No step of the sweep changes the command line, nor what follows from it.
LEMMA CommandStays ==
  ASSUME cmd' = cmd
  PROVE  Repetitions' = Repetitions /\ Chosen' = Chosen
BY Zenon DEF Repetitions, Chosen

\* No repetitions are repetitions of any cell.
LEMMA NoReps ==
  ASSUME NEW c, NEW n \in Nat \ {0}, NEW es
  PROVE  RepsOf(c, n, es, <<>>)
<1>1. <<>> \in Seq(Answers(c)) /\ Len(<<>>) <= n
  OBVIOUS
<1> QED BY <1>1, Zenon DEF RepsOf

\* The file of a cell c, that is run as number k with the repetitions rs, in the
\* directory fs, or none if the write is one of ls, the failed ones; and what
\* ResultsKept says of a cell d that it stands for.
OnFile(fs, ls, c, k, rs) ==
  IF NameOf(c) \in DOMAIN fs THEN fs[NameOf(c)] = Aggregate(rs) ELSE k \in ls
StandsFor(fs, ls, c, k, rs, d) ==
  rs # <<>> /\ Aggregate(rs).cell = c /\ AlikeButSlashes(d, c) /\ OnFile(fs, ls, c, k, rs)

\* ResultsKept in these words, before and after a step.
LEMMA KeptMeans ==
  /\ ResultsKept <=>
       \A i \in DOMAIN log : Clean(log[i]) /\ i \notin lost =>
         \E k \in i..Len(log) : StandsFor(files, lost, cmd.cells[k], k, log[k], cmd.cells[i])
  /\ ResultsKept' <=>
       \A i \in DOMAIN log' : Clean(log'[i]) /\ i \notin lost' =>
         \E k \in i..Len(log') : StandsFor(files', lost', cmd'.cells[k], k, log'[k], cmd'.cells[i])
BY Zenon DEF ResultsKept, Named, StandsFor, OnFile

\* A cell that is passed over leaves the directory as it is.
LEMMA SkipKeeps == SweepInv /\ Skip => SweepInv'
<1> SUFFICES ASSUME SweepInv, Skip
             PROVE  SweepInv'
  BY Zenon
<1>1. /\ at <= Len(cmd.cells) /\ cmd.cells[at].engine \notin Chosen /\ at' = at + 1
      /\ log' = Append(log, <<>>)
  BY Zenon DEF Skip
<1>a. cmd' = cmd /\ reps' = reps /\ files' = files /\ lost' = lost
  BY Zenon DEF Skip
<1>2. /\ at \in Nat \ {0} /\ Len(cmd.cells) \in Nat /\ ~SweepDone /\ at' \in 1..(Len(cmd.cells) + 1)
  <2>1. at \in Nat \ {0} /\ Len(cmd.cells) \in Nat
    BY SweepFacts, Zenon
  <2> QED BY <1>1, <2>1 DEF SweepDone
<1>3. reps = <<>>
  BY <1>1, <1>2, SweepFacts, Zenon DEF RepsOf
<1>4. Repetitions' = Repetitions /\ Chosen' = Chosen
  BY <1>a, CommandStays, Zenon
<1>5. \A c : RepsOf(c, Repetitions, Chosen, <<>>)
  BY SweepFacts, NoReps, Zenon
<1>6. /\ IsSeqOf(at' - 1, log') /\ DOMAIN log' = 1..at /\ Len(log') = at
      /\ log'[at] = <<>> /\ \A i \in 1..(at - 1) : log'[i] = log[i] /\ i \in 1..at
      /\ \A i \in 1..at : i = at \/ i \in 1..(at - 1)
      /\ \A i \in 1..(at - 1) : \A k \in i..(at - 1) : k \in i..at /\ k \in 1..(at - 1)
  BY <1>1, LogGrows, Zenon
<1>7. \A i \in DOMAIN log' : RepsOf(cmd.cells[i], Repetitions, Chosen, log'[i])
  <2> SUFFICES ASSUME NEW i \in DOMAIN log'
               PROVE  RepsOf(cmd.cells[i], Repetitions, Chosen, log'[i])
    BY Zenon
  <2>1. CASE i = at
    BY <1>5, <1>6, <2>1, Zenon
  <2>2. CASE i \in 1..(at - 1)
    BY <1>6, <2>2, SweepFacts, Zenon
  <2> QED BY <1>6, <2>1, <2>2, Zenon
<1>8. \A c : RepsOf(c, Repetitions, Chosen, reps')
  BY <1>a, <1>3, <1>5, Zenon
<1>9. Cardinality(DOMAIN files) <= at /\ IsFiniteSet(DOMAIN files)
  <2>1. /\ Cardinality(DOMAIN files) \in Nat /\ Cardinality(DOMAIN files) <= at - 1
        /\ IsFiniteSet(DOMAIN files)
    BY SweepFacts, Zenon
  <2> QED BY <1>2, <2>1
<1>10. \A n \in DOMAIN files : \E i \in DOMAIN log' \ lost :
         log'[i] # <<>> /\ files[n] = Aggregate(log'[i]) /\ n = FileName(files[n])
  BY <1>6, SweepFacts, Zenon
<1>11. ResultsKept'
  <2>1. \A i \in 1..(at - 1) : Clean(log[i]) /\ i \notin lost =>
          \E k \in i..(at - 1) : StandsFor(files, lost, cmd.cells[k], k, log[k], cmd.cells[i])
    BY SweepFacts, KeptMeans, Zenon
  <2>2. ASSUME NEW i \in DOMAIN log', Clean(log'[i]), i \notin lost'
        PROVE  \E k \in i..Len(log') :
                 StandsFor(files', lost', cmd'.cells[k], k, log'[k], cmd'.cells[i])
    <3>1. log'[i] # <<>>
      BY <2>2, Zenon DEF Clean
    <3>2. i \in 1..(at - 1) /\ log'[i] = log[i]
      BY <1>6, <3>1, Zenon
    <3>3. PICK k \in i..(at - 1) : StandsFor(files, lost, cmd.cells[k], k, log[k], cmd.cells[i])
      BY <1>a, <2>1, <2>2, <3>2, Zenon
    <3>4. k \in i..Len(log') /\ log'[k] = log[k]
      BY <1>6, <3>2, <3>3, Zenon
    <3> QED BY <1>a, <3>3, <3>4, Zenon
  <2> QED BY <2>2, KeptMeans, Zenon
<1>14. lost \subseteq DOMAIN log'
  BY <1>6, SweepFacts, Zenon
<1>12. cmd \in Commands
  BY SweepFacts, Zenon
<1>13. Cardinality(DOMAIN files') <= Len(log') /\ IsFiniteSet(DOMAIN files')
  BY <1>a, <1>6, <1>9, Zenon
<1> QED
  BY <1>a, <1>2, <1>3, <1>4, <1>6, <1>7, <1>8, <1>10, <1>11, <1>12, <1>13, <1>14, Zenon DEF SweepInv

\* A repetition is added to those of its cell.
LEMMA RunRepKeeps == SweepInv /\ RunRep => SweepInv'
<1> SUFFICES ASSUME SweepInv, RunRep
             PROVE  SweepInv'
  BY Zenon
<1>1. PICK a \in Answers(cmd.cells[at]) : reps' = Append(reps, a)
  BY Zenon DEF RunRep
<1>2. at <= Len(cmd.cells) /\ cmd.cells[at].engine \in Chosen /\ Len(reps) < Repetitions
  BY Zenon DEF RunRep
<1>3. cmd' = cmd /\ at' = at /\ log' = log /\ files' = files /\ lost' = lost
  BY Zenon DEF RunRep
<1>4. ~SweepDone
  <2>1. at \in Nat /\ Len(cmd.cells) \in Nat
    BY SweepFacts, Zenon
  <2> QED BY <1>2, <2>1 DEF SweepDone
<1>5. RepsOf(cmd.cells[at], Repetitions, Chosen, reps')
  <2>1. PICK S : S = Answers(cmd.cells[at])
    BY Zenon
  <2>2. reps \in Seq(S) /\ Repetitions \in Nat
    BY <1>4, <2>1, SweepFacts, Zenon DEF RepsOf
  <2>3. reps' \in Seq(S) /\ Len(reps') <= Repetitions
    BY <1>1, <1>2, <2>1, <2>2, AppendProperties
  <2> QED BY <1>2, <2>1, <2>3, Zenon DEF RepsOf
<1>6. Repetitions' = Repetitions /\ Chosen' = Chosen
  BY <1>3, CommandStays, Zenon
<1>7. ~SweepDone'
  BY <1>3, <1>4, Zenon DEF SweepDone
<1>8. ResultsKept'
  BY <1>3, SweepFacts, KeptMeans, Zenon
<1> QED BY <1>3, <1>5, <1>6, <1>7, <1>8, Zenon DEF SweepInv

\* A result has the name of its cell, or none if a repetition panicked.
LEMMA FileNamed ==
  ASSUME NEW c, NEW rs \in Seq(Answers(c)), rs # <<>>
  PROVE  /\ Aggregate(rs).cell \in {c, NoCell}
         /\ Clean(rs) => Aggregate(rs).cell = c
<1>1. PICK f : f = Aggregate(rs)
  BY Zenon
<1>2. f.latency \in DOMAIN rs /\ f.cell = rs[f.latency].cell
  BY <1>1, AggregateSums, Zenon DEF Summary
<1>3. f.cell \in {c, NoCell}
  BY <1>2, GoodFacts, Zenon
<1>4. Clean(rs) => f.cell # NoCell
  BY <1>2, Zenon DEF Clean, Panicked
<1> QED BY <1>1, <1>3, <1>4, Zenon

\* Two cells have the same file only if they differ in slashes at most, and no cell
\* with an engine has that of the result without a name.
LEMMA NameFacts ==
  /\ NameOf(NoCell).engine = ""
  /\ \A c \in CellSet : NameOf(c).engine = c.engine /\ AlikeButSlashes(c, c)
  /\ \A c, d \in CellSet : NameOf(c) = NameOf(d) <=> AlikeButSlashes(c, d)
<1>1. NameOf(NoCell).engine = ""
  BY DEF NameOf, NoCell
<1>2. ASSUME NEW c \in CellSet
      PROVE  NameOf(c).engine = c.engine /\ AlikeButSlashes(c, c)
  BY DEF NameOf, AlikeButSlashes, CellSet
<1>3. ASSUME NEW c \in CellSet, NEW d \in CellSet, NameOf(c) = NameOf(d)
      PROVE  AlikeButSlashes(c, d)
  <2>1. NameOf(c).regime = Slashless(c.regime) /\ NameOf(d).regime = Slashless(d.regime)
    BY DEF NameOf, CellSet
  <2>2. /\ c.engine = d.engine /\ c.workload = d.workload /\ c.value = d.value
        /\ c.conc = d.conc /\ c.dur = d.dur
    BY <1>3 DEF NameOf, CellSet
  <2>3. d = [c EXCEPT !.regime = d.regime]
    BY <2>2 DEF CellSet
  <2> QED BY <1>3, <2>1, <2>3, Zenon DEF AlikeButSlashes
<1>4. ASSUME NEW c \in CellSet, NEW d \in CellSet, AlikeButSlashes(c, d)
      PROVE  NameOf(c) = NameOf(d)
  <2>1. Slashless(c.regime) = Slashless(d.regime) /\ d = [c EXCEPT !.regime = d.regime]
    BY <1>4, Zenon DEF AlikeButSlashes
  <2>2. /\ c.engine = d.engine /\ c.workload = d.workload /\ c.value = d.value
        /\ c.conc = d.conc /\ c.dur = d.dur
    BY <2>1 DEF CellSet
  <2> QED BY <2>1, <2>2 DEF NameOf, CellSet
<1> QED BY <1>1, <1>2, <1>3, <1>4, Zenon

\* A cell that is run has a name.
LEMMA CellNamed ==
  ASSUME NEW c, NEW n, NEW rs, SweepInv, RepsOf(c, n, Chosen, rs), rs # <<>>
  PROVE  c # NoCell /\ c.engine \in Registry /\ c.engine # ""
<1>1. c.engine \in Registry
  BY SweepFacts, Zenon DEF RepsOf
<1>2. c.engine # ""
  BY <1>1, SweepAssumption, Zenon DEF Registry
<1>3. NoCell.engine = ""
  BY DEF NoCell
<1> QED BY <1>1, <1>2, <1>3, Zenon

\* A function with one more value.
Wrote(f, n, r, g) ==
  /\ DOMAIN g = DOMAIN f \cup {n} /\ g[n] = r
  /\ \A m \in DOMAIN f : m # n => g[m] = f[m]

\* The directories f and g are the same but for the file n.
SameBut(n, f, g) ==
  \A m : m # n => (m \in DOMAIN g <=> m \in DOMAIN f) /\ (m \in DOMAIN f => g[m] = f[m])

\* What writeResult leaves: the result, or what was there, or nothing, and then the
\* cell is one whose result is lost.
LEMMA WriteOutcomes ==
  ASSUME SweepInv, NEW n, NEW r, WriteFile(n, r)
  PROVE  /\ DOMAIN files' \subseteq DOMAIN files \cup {n} /\ SameBut(n, files, files')
         /\ \/ lost' = lost /\ n \in DOMAIN files' /\ files'[n] = r
            \/ lost' = lost \cup {at} /\ files' = files
            \/ lost' = lost \cup {at} /\ n \notin DOMAIN files'
<1>1. CASE files' = [m \in DOMAIN files \cup {n} |-> IF m = n THEN r ELSE files[m]] /\ lost' = lost
  BY <1>1, Zenon DEF SameBut
<1>2. CASE lost' = lost \cup {at} /\ files' = files
  BY <1>2, Zenon DEF SameBut
<1>3. CASE lost' = lost \cup {at} /\ files' = [m \in DOMAIN files \ {n} |-> files[m]]
  BY <1>3, Zenon DEF SameBut
<1> QED BY <1>1, <1>2, <1>3, Zenon DEF WriteFile

\* A file is written over the one of its name, if there is one; the others stay.
LEMMA WriteKeeps == SweepInv /\ WriteResult => SweepInv'
<1> SUFFICES ASSUME SweepInv, WriteResult
             PROVE  SweepInv'
  BY Zenon
<1>1. PICK r, n, c : r = Aggregate(reps) /\ n = NameOf(r.cell) /\ c = cmd.cells[at]
  BY Zenon
<1>2. /\ DOMAIN files' \subseteq DOMAIN files \cup {n} /\ SameBut(n, files, files')
      /\ \/ lost' = lost /\ n \in DOMAIN files' /\ files'[n] = r
         \/ lost' = lost \cup {at} /\ files' = files
         \/ lost' = lost \cup {at} /\ n \notin DOMAIN files'
  BY <1>1, WriteOutcomes, Zenon DEF WriteResult, FileName
<1>3. at <= Len(cmd.cells) /\ Len(reps) = Repetitions /\ log' = Append(log, reps) /\ at' = at + 1
  BY Zenon DEF WriteResult
<1>4. cmd' = cmd /\ reps' = <<>>
  BY Zenon DEF WriteResult
<1>5. /\ at \in Nat \ {0} /\ Len(cmd.cells) \in Nat /\ ~SweepDone /\ at' \in 1..(Len(cmd.cells) + 1)
  <2>1. at \in Nat \ {0} /\ Len(cmd.cells) \in Nat
    BY SweepFacts, Zenon
  <2> QED BY <1>3, <2>1 DEF SweepDone
<1>6. /\ RepsOf(c, Repetitions, Chosen, reps) /\ reps \in Seq(Answers(c)) /\ reps # <<>>
      /\ c # NoCell /\ c \in CellSet
  <2>1. RepsOf(c, Repetitions, Chosen, reps) /\ Repetitions \in Nat \ {0} /\ c \in CellSet
    BY <1>1, <1>5, SweepFacts, Zenon
  <2>2. reps # <<>>
    <3>1. Len(reps) # 0
      BY <1>3, <2>1
    <3> QED BY <3>1
  <2> QED BY <2>1, <2>2, CellNamed, Zenon DEF RepsOf
<1>7. r.cell \in {c, NoCell} /\ (Clean(reps) => r.cell = c)
  BY <1>1, <1>6, FileNamed, Zenon
<1>8. /\ IsSeqOf(at' - 1, log') /\ DOMAIN log' = 1..at /\ Len(log') = at
      /\ log'[at] = reps /\ \A i \in 1..(at - 1) : log'[i] = log[i] /\ i \in 1..at
      /\ at \in 1..at /\ \A i \in 1..at : i = at \/ i \in 1..(at - 1)
      /\ \A i \in 1..(at - 1) : at \in i..at /\ \A k \in i..(at - 1) : k \in i..at /\ k \in 1..(at - 1)
  BY <1>3, LogGrows, Zenon
<1>9. Repetitions' = Repetitions /\ Chosen' = Chosen
  BY <1>4, CommandStays, Zenon
<1>10. \A i \in DOMAIN log' : RepsOf(cmd.cells[i], Repetitions, Chosen, log'[i])
  <2> SUFFICES ASSUME NEW i \in DOMAIN log'
               PROVE  RepsOf(cmd.cells[i], Repetitions, Chosen, log'[i])
    BY Zenon
  <2>1. CASE i = at
    BY <1>1, <1>6, <1>8, <2>1, Zenon
  <2>2. CASE i \in 1..(at - 1)
    BY <1>8, <2>2, SweepFacts, Zenon
  <2> QED BY <1>8, <2>1, <2>2, Zenon
<1>11. \A x : RepsOf(x, Repetitions, Chosen, reps')
  BY <1>4, SweepFacts, NoReps, Zenon
<1>12. Cardinality(DOMAIN files') <= Len(log') /\ IsFiniteSet(DOMAIN files')
  <2>1. /\ Cardinality(DOMAIN files) \in Nat /\ Cardinality(DOMAIN files) <= at - 1
        /\ IsFiniteSet(DOMAIN files)
    BY SweepFacts, Zenon
  <2>2. PICK F, G, H : F = DOMAIN files /\ G = DOMAIN files' /\ H = F \cup {n}
    BY Zenon
  <2>3. IsFiniteSet(H) /\ Cardinality(H) = IF n \in F THEN Cardinality(F) ELSE Cardinality(F) + 1
    BY <2>1, <2>2, FS_AddElement, Zenon
  <2>4. IsFiniteSet(G) /\ Cardinality(G) <= Cardinality(H)
    BY <1>2, <2>2, <2>3, FS_Subset, Zenon
  <2>5. Cardinality(G) \in Nat /\ Cardinality(H) \in Nat
    BY <2>3, <2>4, FS_CardinalityType, Zenon
  <2>6. Cardinality(G) <= at
    BY <1>5, <2>1, <2>2, <2>3, <2>4, <2>5
  <2> QED BY <1>8, <2>2, <2>4, <2>6, Zenon
<1>13. /\ lost' \subseteq DOMAIN log' /\ \A i \in 1..(at - 1) : (i \in lost' <=> i \in lost)
       /\ \A k \in lost : k \in lost'
  <2>1. lost \in SUBSET (1..(at - 1)) /\ at \notin 1..(at - 1)
    <3>1. at \notin 1..(at - 1)
      BY <1>5
    <3> QED BY <3>1, SweepFacts, Zenon
  <2> QED BY <1>2, <1>8, <2>1, Zenon
<1>14. ASSUME NEW m \in DOMAIN files'
       PROVE  \E i \in DOMAIN log' \ lost' :
                log'[i] # <<>> /\ files'[m] = Aggregate(log'[i]) /\ m = FileName(files'[m])
  <2>1. CASE m \in DOMAIN files /\ files'[m] = files[m]
    <3>1. PICK i \in 1..(at - 1) : /\ i \notin lost /\ log[i] # <<>> /\ files[m] = Aggregate(log[i])
                                   /\ m = FileName(files[m])
      BY <2>1, SweepFacts, Zenon
    <3> QED BY <1>8, <1>13, <2>1, <3>1, Zenon
  <2>2. CASE m = n /\ lost' = lost /\ files'[n] = r
    <3>1. at \notin lost'
      BY <2>2, SweepFacts, Zenon
    <3> QED BY <1>1, <1>6, <1>8, <2>2, <3>1, Zenon DEF FileName
  <2> QED BY <1>2, <1>14, <2>1, <2>2, Zenon DEF SameBut
<1>15. ResultsKept'
  <2>1. \A i \in 1..(at - 1) : Clean(log[i]) /\ i \notin lost =>
          \E k \in i..(at - 1) : StandsFor(files, lost, cmd.cells[k], k, log[k], cmd.cells[i])
    BY SweepFacts, KeptMeans, Zenon
  <2>2. r.cell = c => files' = files \/ OnFile(files', lost', c, at, reps)
    BY <1>1, <1>2, Zenon DEF OnFile
  <2>3. ASSUME NEW i \in DOMAIN log', Clean(log'[i]), i \notin lost'
        PROVE  \E k \in i..at : StandsFor(files', lost', cmd.cells[k], k, log'[k], cmd.cells[i])
    <3>1. CASE i = at
      <4>1. r.cell = c /\ at \in at..at
        BY <1>5, <1>7, <1>8, <2>3, <3>1
      <4>2. OnFile(files', lost', c, at, reps)
        BY <1>1, <1>2, <2>3, <3>1, <4>1, Zenon DEF OnFile
      <4>3. AlikeButSlashes(c, c)
        BY <1>6, NameFacts, Zenon
      <4> QED BY <1>1, <1>6, <1>8, <3>1, <4>1, <4>2, <4>3, Zenon DEF StandsFor
    <3>2. CASE i \in 1..(at - 1)
      <4>1. log'[i] = log[i] /\ i \notin lost
        BY <1>8, <1>13, <2>3, <3>2, Zenon
      <4>2. PICK k \in i..(at - 1) : StandsFor(files, lost, cmd.cells[k], k, log[k], cmd.cells[i])
        BY <2>1, <2>3, <3>2, <4>1, Zenon
      <4>3. k \in i..at /\ k \in 1..(at - 1) /\ log'[k] = log[k]
        BY <1>8, <3>2, <4>2, Zenon
      <4>4. PICK d, e : d = cmd.cells[i] /\ e = cmd.cells[k]
        BY Zenon
      <4>5. /\ d \in CellSet /\ e \in CellSet /\ AlikeButSlashes(d, e)
            /\ log[k] # <<>> /\ Aggregate(log[k]).cell = e /\ OnFile(files, lost, e, k, log[k])
        BY <3>2, <4>2, <4>3, <4>4, SweepFacts, Zenon DEF StandsFor
      <4>6. CASE NameOf(e) # n \/ files' = files
        <5>1. OnFile(files', lost', e, k, log'[k])
          BY <1>2, <1>13, <4>3, <4>5, <4>6, Zenon DEF OnFile, SameBut
        <5> QED BY <4>3, <4>4, <4>5, <5>1, Zenon DEF StandsFor
      <4>7. CASE NameOf(e) = n /\ files' # files
        <5>1. e.engine # ""
          BY <4>3, <4>4, <4>5, SweepFacts, CellNamed, Zenon
        <5>2. r.cell = c
          <6>1. NameOf(e).engine # "" /\ NameOf(NoCell).engine = ""
            BY <4>5, <5>1, NameFacts, Zenon
          <6> QED BY <1>1, <1>7, <4>7, <6>1, Zenon
        <5>3. NameOf(c) = NameOf(e) /\ NameOf(d) = NameOf(e)
          <6>1. NameOf(d) = NameOf(e)
            BY <4>5, NameFacts, Zenon
          <6> QED BY <1>1, <4>7, <5>2, <6>1, Zenon
        <5>4. AlikeButSlashes(d, c)
          <6>1. d \in CellSet /\ c \in CellSet /\ NameOf(d) = NameOf(c)
            BY <1>6, <4>5, <5>3, Zenon
          <6> QED BY <6>1, NameFacts, Zenon
        <5>5. StandsFor(files', lost', c, at, log'[at], d)
          BY <1>1, <1>6, <1>8, <2>2, <4>7, <5>2, <5>4, Zenon DEF StandsFor
        <5> QED BY <1>1, <1>8, <3>2, <4>4, <5>5, Zenon
      <4> QED BY <4>6, <4>7, Zenon
    <3> QED BY <1>8, <3>1, <3>2, Zenon
  <2>4. Len(log') = at
    BY <1>8, Zenon
  <2> QED BY <1>4, <2>3, <2>4, KeptMeans, Zenon
<1>16. cmd \in Commands
  BY SweepFacts, Zenon
<1> QED
  BY <1>4, <1>5, <1>8, <1>9, <1>10, <1>11, <1>12, <1>13, <1>14, <1>15, <1>16, Zenon DEF SweepInv

\* Before the first cell.
LEMMA SweepInitInv == SweepInit => SweepInv
<1> SUFFICES ASSUME SweepInit
             PROVE  SweepInv
  BY Zenon
<1>1. cmd \in Commands /\ at = 1 /\ reps = <<>> /\ log = <<>> /\ files = <<>> /\ lost = {}
  BY Zenon DEF SweepInit
<1>2. cmd.reps \in Nat /\ cmd.cells \in Seq(CellSet)
  BY <1>1, SweepAssumption, Zenon
<1>3. at \in 1..(Len(cmd.cells) + 1) /\ Repetitions \in Nat \ {0}
  BY <1>1, <1>2 DEF Repetitions
<1>4. IsSeqOf(at - 1, log) /\ DOMAIN log = {} /\ DOMAIN files = {} /\ Len(log) = 0
  BY <1>1 DEF IsSeqOf
<1>5. IsFiniteSet(DOMAIN files) /\ Cardinality(DOMAIN files) <= Len(log)
  BY <1>4, FS_EmptySet
<1>6. RepsOf(cmd.cells[at], Repetitions, Chosen, reps)
  BY <1>1, <1>3, NoReps, Zenon
<1> QED BY <1>1, <1>3, <1>4, <1>5, <1>6, Zenon DEF SweepInv, ResultsKept

-----------------------------------------------------------------------------
\* The repetitions of a cell of the log that has a measured one.
LEMMA LoggedFacts ==
  ASSUME SweepInv, NEW i \in DOMAIN log, NEW rs, rs = log[i], Measured(rs) # {}
  PROVE  \E c : c # NoCell /\ rs \in Seq(Answers(c)) /\ rs # <<>> /\ Summary(rs, Aggregate(rs))
<1>1. PICK c : c = cmd.cells[i]
  BY Zenon
<1>2. rs \in Seq(Answers(c)) /\ RepsOf(c, Repetitions, Chosen, rs)
  BY <1>1, SweepFacts, Zenon DEF RepsOf
<1>3. rs # <<>>
  BY <1>2 DEF Measured
<1>4. c # NoCell
  BY <1>2, <1>3, CellNamed, Zenon
<1> QED BY <1>2, <1>3, <1>4, AggregateSums, Zenon

\* The number published is not above the median of the repetitions that were
\* measured, and it is the median if none panicked (the comment above runReps).
LEMMA HonestFrom == SweepInv => MedianHonest
<1> SUFFICES ASSUME SweepInv, NEW i \in DOMAIN log, NEW rs, NEW f, NEW M,
                    rs = log[i], f = Aggregate(rs), M = Measured(rs), M # {}
             PROVE  HonestOf(rs, M, f)
  BY Zenon DEF MedianHonest
<1>1. PICK c : c # NoCell /\ rs \in Seq(Answers(c)) /\ rs # <<>> /\ Summary(rs, f)
  BY LoggedFacts, Zenon
<1>2. PICK G, ops : G = Good(rs) /\ ops = OpsOf(rs)
  BY Zenon
<1>3. /\ M \in SUBSET G /\ IsFiniteSet(M) /\ IsFiniteSet(G) /\ G # {}
      /\ \A j \in G : j \notin M => rs[j].ops = 0
      /\ ~Panicked(rs) => M = G
  BY <1>1, <1>2, MeasuredFacts, GoodFacts, Zenon
<1>4. DOMAIN ops = G /\ \A j \in G : ops[j] = rs[j].ops /\ rs[j].ops \in Nat
  BY <1>1, <1>2, GoodFacts, Zenon
<1>5. /\ IsMedian(ops, f.ops) /\ f.ops \in Nat /\ f.min \in Range(ops) /\ f.max \in Range(ops)
      /\ \A j \in G : f.min <= ops[j] /\ ops[j] <= f.max
  BY <1>1, <1>2, <1>3, Zenon DEF Summary
<1>6. PICK U, V, H : /\ U = UpTo(ops, f.ops) /\ U = {j \in G : rs[j].ops <= f.ops}
                     /\ V = From(ops, f.ops) /\ V = {j \in G : rs[j].ops >= f.ops}
                     /\ H = {j \in M : rs[j].ops >= f.ops}
  BY <1>4, Zenon DEF UpTo, From
<1>7. 2 * Cardinality(U) >= Cardinality(G) /\ 2 * Cardinality(V) >= Cardinality(G)
  BY <1>4, <1>5, <1>6, Zenon DEF IsMedian
<1>8. /\ Cardinality(M) \in Nat /\ Cardinality(G) \in Nat /\ Cardinality(M) <= Cardinality(G)
      /\ IsFiniteSet(H) /\ Cardinality(H) \in Nat
  <2>1. H \in SUBSET M
    BY <1>6, Zenon
  <2> QED BY <1>3, <2>1, FS_Subset, FS_CardinalityType, Zenon
<1>9. 2 * Cardinality(H) >= Cardinality(M)
  <2>1. CASE f.ops = 0
    <3>1. \A j \in M : rs[j].ops >= 0
      BY <1>3, <1>4
    <3>2. H = M
      BY <1>6, <2>1, <3>1, Zenon
    <3> QED BY <1>8, <3>2
  <2>2. CASE f.ops # 0
    <3>1. ~(0 >= f.ops)
      BY <1>5, <2>2
    <3>2. V \in SUBSET H
      BY <1>3, <1>6, <3>1, Zenon
    <3>3. Cardinality(V) <= Cardinality(H) /\ Cardinality(V) \in Nat
      BY <1>8, <3>2, FS_Subset, FS_CardinalityType, Zenon
    <3> QED BY <1>7, <1>8, <3>3
  <2> QED BY <2>1, <2>2, Zenon
<1>10. \E j \in M : f.max = rs[j].ops
  <2>1. PICK j \in G : f.max = rs[j].ops
    BY <1>4, <1>5, Zenon DEF Range
  <2>2. CASE j \notin M
    <3>1. f.max = 0
      BY <1>3, <2>1, <2>2, Zenon
    <3>2. PICK m \in M : TRUE
      BY Zenon
    <3>3. rs[m].ops \in Nat /\ rs[m].ops <= 0
      BY <1>3, <1>4, <1>5, <3>1, <3>2, Zenon
    <3>4. rs[m].ops = 0
      BY <3>3
    <3> QED BY <3>1, <3>2, <3>4, Zenon
  <2> QED BY <2>1, <2>2, Zenon
<1>11. \A j \in M : f.min <= rs[j].ops /\ rs[j].ops <= f.max
  BY <1>3, <1>4, <1>5, Zenon
<1>12. ASSUME ~Panicked(rs)
       PROVE  /\ 2 * Cardinality({j \in M : rs[j].ops <= f.ops}) >= Cardinality(M)
              /\ \E j \in M : f.min = rs[j].ops
  <2>1. M = G
    BY <1>3, <1>12, Zenon
  <2>2. \E j \in G : f.min = rs[j].ops
    BY <1>4, <1>5, Zenon DEF Range
  <2> QED BY <1>6, <1>7, <2>1, <2>2, Zenon
<1> QED BY <1>6, <1>9, <1>10, <1>11, <1>12, Zenon DEF HonestOf

\* The latencies published under a name are those of a measured repetition nearest
\* to the median (the comment above runReps).
LEMMA LatencyFrom == SweepInv => LatencyFromMedianRep
<1> SUFFICES ASSUME SweepInv, NEW i \in DOMAIN log, NEW rs, NEW f, NEW M,
                    rs = log[i], f = Aggregate(rs), M = Measured(rs), M # {}
             PROVE  /\ f.cell = NoCell => Panicked(rs)
                    /\ f.cell # NoCell =>
                         /\ f.latency \in M /\ ~f.err
                         /\ \A j \in M : Distance(rs[j].ops, f.ops) >= Distance(rs[f.latency].ops, f.ops)
                    /\ ~Panicked(rs) /\ Cardinality(M) % 2 = 1 => rs[f.latency].ops = f.ops
  BY Zenon DEF LatencyFromMedianRep
<1>1. PICK c : c # NoCell /\ rs \in Seq(Answers(c)) /\ rs # <<>> /\ Summary(rs, f)
  BY LoggedFacts, Zenon
<1>2. PICK G : G = Good(rs)
  BY Zenon
<1>3. M \in SUBSET G /\ G # {} /\ (~Panicked(rs) => M = G)
  BY <1>1, <1>2, MeasuredFacts, Zenon
<1>4. /\ f.ops \in Nat /\ f.latency \in G /\ f.err = (G = {}) /\ f.latency \in DOMAIN rs
      /\ f.cell = rs[f.latency].cell /\ IsMedian(OpsOf(rs), f.ops)
      /\ \A j \in G : Distance(rs[f.latency].ops, f.ops) <= Distance(rs[j].ops, f.ops)
  BY <1>1, <1>2, <1>3, Zenon DEF Summary
<1>5. DOMAIN OpsOf(rs) = G /\ \A j \in G : rs[j].ops \in Nat /\ OpsOf(rs)[j] = rs[j].ops
  BY <1>1, <1>2, GoodFacts, Zenon
<1>6. f.cell = NoCell => Panicked(rs)
  BY <1>4, Zenon DEF Panicked
<1>7. f.cell # NoCell => f.latency \in M
  BY <1>2, <1>4, Zenon DEF Measured, Good
<1>8. \A x, y \in Nat : Distance(x, y) \in Nat /\ (Distance(x, y) <= 0 => x = y) /\ Distance(y, y) = 0
  BY DEF Distance
<1>9. \A j \in G : Distance(rs[j].ops, f.ops) \in Nat
  BY <1>4, <1>5, <1>8, Zenon
<1>10. \A j \in G : Distance(rs[j].ops, f.ops) >= Distance(rs[f.latency].ops, f.ops)
  BY <1>4, <1>9
<1>11. ASSUME ~Panicked(rs), Cardinality(M) % 2 = 1
       PROVE  rs[f.latency].ops = f.ops
  <2>1. f.ops \in Range(OpsOf(rs))
    BY <1>3, <1>4, <1>5, <1>11, Zenon DEF IsMedian
  <2>2. PICK j \in G : f.ops = rs[j].ops
    BY <1>5, <2>1, Zenon DEF Range
  <2>3. Distance(rs[j].ops, f.ops) = 0
    BY <1>4, <1>8, <2>2, Zenon
  <2>4. Distance(rs[f.latency].ops, f.ops) <= 0
    BY <1>4, <2>2, <2>3, Zenon
  <2>5. rs[f.latency].ops \in Nat
    BY <1>4, <1>5, Zenon
  <2> QED BY <1>4, <1>8, <2>4, <2>5, Zenon
<1>12. \A j \in M : Distance(rs[j].ops, f.ops) >= Distance(rs[f.latency].ops, f.ops)
  BY <1>3, <1>10, Zenon
<1>13. ~f.err
  BY <1>3, <1>4, Zenon
<1> QED BY <1>6, <1>7, <1>11, <1>12, <1>13, Zenon

\* What is on file.
LEMMA FileFacts ==
  ASSUME SweepInv, NEW n \in DOMAIN files
  PROVE  /\ n = NameOf(files[n].cell) /\ files[n].err \in BOOLEAN /\ files[n].ops \in Nat
         /\ files[n].err => files[n].ops = 0
         /\ files[n].latency \in 1..Repetitions
         /\ files[n].cell.engine # "" => files[n].cell \in CellSet /\ files[n].cell.engine \in Registry
<1>1. PICK i \in 1..(at - 1) : log[i] # <<>> /\ files[n] = Aggregate(log[i]) /\ n = FileName(files[n])
  BY SweepFacts, Zenon
<1>2. PICK c, rs, f : c = cmd.cells[i] /\ rs = log[i] /\ f = Aggregate(rs)
  BY Zenon
<1>3. /\ rs # <<>> /\ rs \in Seq(Answers(c)) /\ Len(rs) <= Repetitions /\ c \in CellSet
      /\ RepsOf(c, Repetitions, Chosen, rs) /\ Repetitions \in Nat
  BY <1>1, <1>2, SweepFacts, Zenon DEF RepsOf
<1>4. Summary(rs, f)
  BY <1>2, <1>3, AggregateSums, Zenon
<1>5. f.err \in BOOLEAN /\ f.ops \in Nat /\ (f.err => f.ops = 0)
  BY <1>4, Zenon DEF Summary
<1>6. f.latency \in 1..Repetitions
  <2>1. f.latency \in 1..Len(rs) /\ Len(rs) \in Nat
    BY <1>3, <1>4, GoodFacts, Zenon DEF Summary
  <2> QED BY <1>3, <2>1
<1>7. f.cell \in {c, NoCell} /\ n = NameOf(f.cell)
  BY <1>1, <1>2, <1>3, FileNamed, Zenon DEF FileName
<1>8. NoCell.engine = ""
  BY DEF NoCell
<1>9. c.engine \in Registry
  BY <1>3, CellNamed, Zenon
<1> QED BY <1>1, <1>2, <1>3, <1>5, <1>6, <1>7, <1>8, <1>9, Zenon

\* What loadResults returns, whichever files it cannot read.
LEMMA LoadedFacts ==
  ASSUME SweepInv, NEW S
  PROVE  /\ IsFiniteSet(Loaded(S))
         /\ \A r \in Loaded(S) : /\ r = files[NameOf(r.cell)]
                                 /\ r.cell \in CellSet /\ r.cell.engine \in Registry
                                 /\ r.err \in BOOLEAN /\ r.ops \in Nat /\ (r.err => r.ops = 0)
         /\ \A n \in DOMAIN files : n \notin S /\ files[n].cell.engine # "" => files[n] \in Loaded(S)
<1>1. PICK N : N = {n \in DOMAIN files : n \notin S /\ files[n].cell.engine # ""}
  BY Zenon
<1>2. Loaded(S) = {files[n] : n \in N}
  BY <1>1, Zenon DEF Loaded
<1>3. IsFiniteSet(N) /\ N \in SUBSET DOMAIN files
  <2>1. IsFiniteSet(DOMAIN files) /\ N \in SUBSET DOMAIN files
    BY <1>1, SweepFacts, Zenon
  <2> QED BY <2>1, FS_Subset, Zenon
<1>4. PICK g, L : g = [n \in N |-> files[n]] /\ L = Loaded(S)
  BY Zenon
<1>5. g \in Surjection(N, L)
  <2>1. g \in [N -> L] /\ \A t \in L : \E s \in N : g[s] = t
    BY <1>2, <1>4, Zenon
  <2> QED BY <2>1, Zenon DEF Surjection
<1>6. IsFiniteSet(L)
  BY <1>3, <1>5, FS_Surjection, Zenon
<1>7. ASSUME NEW r \in L
      PROVE  /\ r = files[NameOf(r.cell)]
             /\ r.cell \in CellSet /\ r.cell.engine \in Registry
             /\ r.err \in BOOLEAN /\ r.ops \in Nat /\ (r.err => r.ops = 0)
  <2>1. PICK n \in N : r = files[n]
    BY <1>2, <1>4, <1>7, Zenon
  <2>2. n \in DOMAIN files /\ r.cell.engine # ""
    BY <1>1, <2>1, Zenon
  <2>3. /\ n = NameOf(r.cell) /\ r.err \in BOOLEAN /\ r.ops \in Nat /\ (r.err => r.ops = 0)
        /\ r.cell \in CellSet /\ r.cell.engine \in Registry
    BY <2>1, <2>2, FileFacts, Zenon
  <2> QED BY <2>1, <2>3, Zenon
<1>8. \A n \in DOMAIN files : n \notin S /\ files[n].cell.engine # "" => files[n] \in L
  BY <1>1, <1>2, <1>4, Zenon
<1> QED BY <1>4, <1>6, <1>7, <1>8, Zenon

\* What sort.Slice leaves: every row once, and none above one that stands above it.
LEMMA RankedFacts ==
  ASSUME NEW S, IsFiniteSet(S), NEW m, NEW rows \in Ranked(m, S)
  PROVE  /\ DOMAIN rows = 1..Cardinality(S) /\ Range(rows) = S
         /\ \A i \in DOMAIN rows : rows[i] \in S
         /\ \A i, j \in DOMAIN rows : rows[i] = rows[j] => i = j
         /\ \A i, j \in DOMAIN rows : i < j => ~Less(m, rows[j], rows[i])
<1>1. PICK n : n = Cardinality(S)
  BY Zenon
<1>2. /\ rows \in Bijection(1..n, S)
      /\ \A i, j \in DOMAIN rows : i < j => ~Less(m, rows[j], rows[i])
  BY <1>1, Zenon DEF Ranked
<1>3. rows \in Injection(1..n, S) /\ rows \in Surjection(1..n, S)
  BY <1>2, Zenon DEF Bijection
<1>4. rows \in [1..n -> S] /\ IsInjective(rows) /\ DOMAIN rows = 1..n
  BY <1>3, Zenon DEF Injection
<1>5. Range(rows) = S
  <2>1. Range(rows) = {rows[i] : i \in 1..n}
    BY <1>4, Zenon DEF Range
  <2>2. \A r \in S : \E i \in 1..n : rows[i] = r
    BY <1>3, Zenon DEF Surjection
  <2>3. \A i \in 1..n : rows[i] \in S
    BY <1>4, Zenon
  <2> QED BY <2>1, <2>2, <2>3, Zenon
<1> QED BY <1>1, <1>2, <1>4, <1>5, Zenon DEF IsInjective

\* The rows of a table are finitely many.
LEMMA RowsFinite ==
  ASSUME SweepInv, NEW t
  PROVE  /\ IsFiniteSet(RowsOf(Loaded(skipped), t))
         /\ RowsOf(Loaded(skipped), t) \in SUBSET Loaded(skipped)
<1>1. RowsOf(Loaded(skipped), t) \in SUBSET Loaded(skipped)
  BY Zenon DEF RowsOf
<1> QED BY <1>1, LoadedFacts, FS_Subset, Zenon

\* What a table that is out looks like.
LEMMA TableFacts ==
  ASSUME SweepInv, TablesInv, NEW t \in DOMAIN tables
  PROVE  /\ Range(tables[t]) = RowsOf(Loaded(skipped), t)
         /\ \A i \in DOMAIN tables[t] : tables[t][i] \in Loaded(skipped) /\ TableOf(tables[t][i]) = t
         /\ \A i, j \in DOMAIN tables[t] : tables[t][i] = tables[t][j] => i = j
         /\ \A i, j \in DOMAIN tables[t] : i < j => ~Less(md, tables[t][j], tables[t][i])
<1>1. PICK S, rows : S = RowsOf(Loaded(skipped), t) /\ rows = tables[t]
  BY Zenon
<1>2. IsFiniteSet(S) /\ rows \in Ranked(md, S)
  BY <1>1, RowsFinite, Zenon DEF TablesInv
<1>3. /\ Range(rows) = S /\ \A i \in DOMAIN rows : rows[i] \in S
      /\ \A i, j \in DOMAIN rows : rows[i] = rows[j] => i = j
      /\ \A i, j \in DOMAIN rows : i < j => ~Less(md, rows[j], rows[i])
  BY <1>2, RankedFacts, Zenon
<1>4. \A r \in S : r \in Loaded(skipped) /\ TableOf(r) = t
  BY <1>1, Zenon DEF RowsOf
<1> QED BY <1>1, <1>3, <1>4, Zenon

\* The divisions of classOrder are the classes there are.
LEMMA ClassesOrdered == Range(classOrder) = Classes
<1>1. PICK f : f = classOrder
  BY Zenon
<1>2. /\ DOMAIN f = 1..4 /\ f[1] = "embedded" /\ f[2] = "redis-memory"
      /\ f[3] = "redis-persistent" /\ f[4] = "distributed"
  BY <1>1 DEF classOrder
<1>3. 1..4 = {1, 2, 3, 4}
  OBVIOUS
<1>4. Range(f) = {f[1], f[2], f[3], f[4]}
  BY <1>2, <1>3, Zenon DEF Range
<1> QED BY <1>1, <1>2, <1>4 DEF Classes, NetworkClasses

\* The division an engine is in says whether it is a server.
LEMMA ClassMode ==
  ASSUME NEW e \in Registry, ClassOf(e) \in Classes
  PROVE  ClassOf(e) = "embedded" <=> Meta[e].mode # "network"
<1>1. Meta[e].class \in Classes => (Meta[e].class = "embedded" <=> Meta[e].mode # "network")
  BY SweepAssumption, Zenon DEF Registry
<1>2. CASE Meta[e].class # ""
  BY <1>1, <1>2, Zenon DEF ClassOf
<1>3. CASE Meta[e].class = ""
  BY <1>3 DEF ClassOf
<1> QED BY <1>2, <1>3, Zenon

\* The two kinds of engine do not meet in a table (the comment above classOrder).
LEMMA ApartFrom == SweepInv /\ TablesInv => ClassesApart
<1> SUFFICES ASSUME SweepInv, TablesInv, NEW t \in DOMAIN tables,
                    NEW a \in Range(tables[t]), NEW b \in Range(tables[t])
             PROVE  (Meta[a.cell.engine].mode = "network") = (Meta[b.cell.engine].mode = "network")
  BY Zenon DEF ClassesApart, SameTable
<1>0. a \in RowsOf(Loaded(skipped), t) /\ b \in RowsOf(Loaded(skipped), t)
  BY TableFacts, Zenon
<1>1. a \in Loaded(skipped) /\ b \in Loaded(skipped) /\ TableOf(a) = t /\ TableOf(b) = t
  BY <1>0, Zenon DEF RowsOf
<1>2. a.cell.engine \in Registry /\ b.cell.engine \in Registry
  BY <1>1, LoadedFacts, Zenon
<1>3. PICK q : t = TableOf(q) /\ classOf(q) \in Classes
  BY ClassesOrdered, Zenon DEF TablesInv, TablesOf
<1>4. classOf(a) = classOf(q) /\ classOf(b) = classOf(q)
  BY <1>1, <1>3 DEF TableOf
<1>5. ClassOf(a.cell.engine) = ClassOf(b.cell.engine) /\ ClassOf(a.cell.engine) \in Classes
  BY <1>3, <1>4, Zenon DEF classOf
<1>6. (Meta[a.cell.engine].mode # "network") <=> (Meta[b.cell.engine].mode # "network")
  BY <1>2, <1>5, ClassMode, Zenon
<1> QED BY <1>6

\* Each table falls, and in the published report failures stand last (the two calls
\* of sort.Slice).
LEMMA RankedFrom == SweepInv /\ TablesInv => RowsRanked
<1> SUFFICES ASSUME SweepInv, TablesInv, NEW t \in DOMAIN tables,
                    NEW i \in DOMAIN tables[t], NEW j \in DOMAIN tables[t], i < j
             PROVE  /\ tables[t][i].ops >= tables[t][j].ops
                    /\ md /\ tables[t][i].err => tables[t][j].err
  BY Zenon DEF RowsRanked
<1>0. PICK a, b : a = tables[t][i] /\ b = tables[t][j]
  BY Zenon
<1>1. a \in Loaded(skipped) /\ b \in Loaded(skipped) /\ ~Less(md, b, a)
  BY <1>0, TableFacts, Zenon
<1>2. PICK x \in Nat, y \in Nat : x = a.ops /\ y = b.ops
  BY <1>1, LoadedFacts, Zenon
<1>3. (a.err => x = 0) /\ (b.err => y = 0)
  BY <1>1, <1>2, LoadedFacts, Zenon
<1>4. \A u, v \in Nat : (~(v > u) => u >= v) /\ u >= 0
  OBVIOUS
<1>5. CASE md /\ (b.err \/ a.err)
  <2>1. b.err
    BY <1>1, <1>5, Zenon DEF Less
  <2> QED BY <1>0, <1>2, <1>3, <1>4, <2>1, Zenon
<1>6. CASE ~(md /\ (b.err \/ a.err))
  <2>1. ~(b.ops > a.ops)
    BY <1>1, <1>6, Zenon DEF Less
  <2> QED BY <1>0, <1>2, <1>4, <1>6, <2>1, Zenon
<1> QED BY <1>5, <1>6, Zenon

\* The last result of its name, if it was written, is on file.
LEMMA LastOnFile ==
  ASSUME SweepInv, NEW i \in DOMAIN log, Clean(log[i]), LastOfItsName(i), NEW c, c = cmd.cells[i]
  PROVE  /\ NameOf(c) \in DOMAIN files /\ files[NameOf(c)] = Aggregate(log[i])
         /\ Aggregate(log[i]).cell = c /\ c.engine # ""
<1>1. PICK k \in i..Len(log) : StandsFor(files, lost, cmd.cells[k], k, log[k], c)
  BY SweepFacts, KeptMeans, Zenon DEF LastOfItsName
<1>2. log[k] # <<>> /\ Aggregate(log[k]).cell = cmd.cells[k] /\ AlikeButSlashes(c, cmd.cells[k])
      /\ OnFile(files, lost, cmd.cells[k], k, log[k])
  BY <1>1, Zenon DEF StandsFor
<1>3. k = i \/ k \in (i + 1)..Len(log)
  <2>1. i \in 1..Len(log) /\ Len(log) \in Nat
    <3>1. DOMAIN log = 1..(at - 1) /\ Len(log) = at - 1 /\ at \in Nat \ {0}
      BY SweepFacts, Zenon
    <3> QED BY <3>1
  <2> QED BY <2>1
<1>4. k = i
  BY <1>2, <1>3, Zenon DEF LastOfItsName
<1>5. RepsOf(c, Repetitions, Chosen, log[i]) /\ log[i] # <<>>
  BY SweepFacts, Zenon DEF Clean
<1>6. c.engine # ""
  BY <1>5, CellNamed, Zenon
<1>7. i \notin lost
  BY Zenon DEF LastOfItsName
<1> QED BY <1>2, <1>4, <1>6, <1>7, Zenon DEF OnFile

\* The parts of the place of a row.
LEMMA PairParts == \A t, j : <<t, j>>[1] = t /\ <<t, j>>[2] = j
OBVIOUS

\* A report that is out has a row for each cell whose result is on file, is read and
\* is of a class there is, and not two.
LEMMA CompleteFrom == SweepInv /\ TablesInv => ReportComplete
<1> SUFFICES ASSUME SweepInv, TablesInv, stage = "reported", NEW i \in DOMAIN log,
                    Clean(log[i]), LastOfItsName(i), NameOf(cmd.cells[i]) \notin skipped,
                    ClassOf(cmd.cells[i].engine) \in Classes
             PROVE  \E p \in Places :
                      /\ RowAt(p) = Aggregate(log[i])
                      /\ \A q \in Places : RowAt(q).cell = cmd.cells[i] => q = p
  BY Zenon DEF ReportComplete
<1>1. PICK c, r : c = cmd.cells[i] /\ r = Aggregate(log[i])
  BY Zenon
<1>2. \A p : p \in Places <=> \E t \in DOMAIN tables : \E j \in DOMAIN tables[t] : p = <<t, j>>
  BY DEF Places
<1>3. NameOf(c) \in DOMAIN files /\ files[NameOf(c)] = r /\ r.cell = c /\ c.engine # ""
  BY <1>1, LastOnFile, Zenon
<1>4. r \in Loaded(skipped)
  <2>1. PICK n : n = NameOf(c)
    BY Zenon
  <2>2. n \in DOMAIN files /\ n \notin skipped /\ files[n] = r /\ files[n].cell.engine # ""
    BY <1>1, <1>3, <2>1, Zenon
  <2>3. files[n] \in Loaded(skipped)
    BY <2>2, LoadedFacts, Zenon
  <2> QED BY <2>2, <2>3, Zenon
<1>5. PICK t : t = TableOf(r)
  BY Zenon
<1>6. classOf(r) \in Range(classOrder)
  BY <1>1, <1>3, ClassesOrdered, Zenon DEF classOf
<1>7. t \in DOMAIN tables
  BY <1>4, <1>5, <1>6, Zenon DEF TablesInv, TablesOf
<1>8. PICK j \in DOMAIN tables[t] : tables[t][j] = r
  <2>1. r \in Range(tables[t])
    BY <1>4, <1>5, <1>7, TableFacts, Zenon DEF RowsOf
  <2> QED BY <2>1, Zenon DEF Range
<1>9. PICK p : p = <<t, j>> /\ p[1] = t /\ p[2] = j
  BY PairParts, Zenon
<1>10. p \in Places /\ RowAt(p) = r
  BY <1>2, <1>7, <1>8, <1>9, Zenon DEF RowAt
<1>11. ASSUME NEW q \in Places, RowAt(q).cell = c
       PROVE  q = p
  <2>a. PICK u \in DOMAIN tables : \E k \in DOMAIN tables[u] : q = <<u, k>>
    BY <1>2, <1>11, Zenon
  <2>1. PICK k \in DOMAIN tables[u] : q = <<u, k>>
    BY <2>a, Zenon
  <2>2. q[1] = u /\ q[2] = k
    BY <2>1, PairParts, Zenon
  <2>3. tables[u][k].cell = c
    BY <1>11, <2>2, Zenon DEF RowAt
  <2>4. tables[u][k] \in Loaded(skipped) /\ TableOf(tables[u][k]) = u
    BY <2>1, TableFacts, Zenon
  <2>5. tables[u][k] = r
    BY <1>3, <2>3, <2>4, LoadedFacts, Zenon
  <2>6. u = t
    BY <1>5, <2>4, <2>5, Zenon
  <2>7. k = j
    BY <1>7, <1>8, <2>1, <2>5, <2>6, TableFacts, Zenon
  <2> QED BY <1>9, <2>1, <2>6, <2>7, Zenon
<1> QED BY <1>1, <1>10, <1>11, Zenon

-----------------------------------------------------------------------------
\* The greatest throughput of some rows, -1 if there is none.
Top(T, x) ==
  /\ x \in Int
  /\ T = {} => x = -1
  /\ T # {} => (\E a \in T : a.ops = x) /\ \A b \in T : b.ops <= x

\* Throughputs are numbers; and the ones that are not zero.
Numbers(T) == \A r \in T : r.ops \in Nat
Positive(T) == {r \in T : r.ops > 0}

\* What the throughputs x and y say of the rows P and Q.
VerdictOf(x, y, P, Q) ==
  /\ y > 0 /\ x > 0 <=> P # {} /\ Q # {}
  /\ y > 0 /\ x > 0 => (x >= 5 * y <=> \E a \in P : \A b \in Q : a.ops >= 5 * b.ops)
  /\ y > 0 /\ x > 0 => (~(x >= y) <=> \A a \in P : \E b \in Q : a.ops < b.ops)

\* The verdict on the greatest throughputs of two sets of rows is one on the rows.
LEMMA VerdictOn ==
  ASSUME NEW A, NEW B, Numbers(A), Numbers(B), NEW x, NEW y, Top(A, x), Top(B, y)
  PROVE  VerdictOf(x, y, Positive(A), Positive(B))
<1>a. PICK P, Q : /\ P = Positive(A) /\ P = {r \in A : r.ops > 0}
                  /\ Q = Positive(B) /\ Q = {r \in B : r.ops > 0}
  BY Zenon DEF Positive
<1>1. x \in Int /\ y \in Int
  BY Zenon DEF Top
<1>0. (\A r \in A : r.ops \in Nat) /\ \A r \in B : r.ops \in Nat
  BY Zenon DEF Numbers
<1>2. ASSUME NEW T, NEW v \in Int, Top(T, v), \A r \in T : r.ops \in Nat
      PROVE  v > 0 <=> \E r \in T : r.ops > 0
  <2>1. CASE T = {}
    <3>1. v = -1
      BY <1>2, <2>1, Zenon DEF Top
    <3> QED BY <2>1, <3>1
  <2>2. CASE T # {}
    <3>1. (\E a \in T : a.ops = v) /\ \A b \in T : b.ops <= v
      BY <1>2, <2>2, Zenon DEF Top
    <3>2. \A b \in T : b.ops > 0 => v > 0
      BY <1>2, <3>1
    <3> QED BY <3>1, <3>2, Zenon
  <2> QED BY <2>1, <2>2, Zenon
<1>3. (x > 0 <=> P # {}) /\ (y > 0 <=> Q # {})
  BY <1>0, <1>1, <1>2, <1>a, Zenon
<1>4. ASSUME y > 0, x > 0
      PROVE  /\ x >= 5 * y <=> \E a \in P : \A b \in Q : a.ops >= 5 * b.ops
             /\ ~(x >= y) <=> \A a \in P : \E b \in Q : a.ops < b.ops
  <2>1. A # {} /\ B # {}
    BY <1>3, <1>4, <1>a, Zenon
  <2>2. PICK a0 \in A : a0.ops = x
    BY <2>1, Zenon DEF Top
  <2>3. PICK b0 \in B : b0.ops = y
    BY <2>1, Zenon DEF Top
  <2>4. a0 \in P /\ b0 \in Q
    BY <1>4, <1>a, <2>2, <2>3, Zenon
  <2>5. (\A r \in P : r.ops \in Nat /\ r.ops <= x) /\ \A r \in Q : r.ops \in Nat /\ r.ops <= y
    BY <1>0, <1>a, <2>1, Zenon DEF Top
  <2>6. ASSUME x >= 5 * y
        PROVE  \A b \in Q : a0.ops >= 5 * b.ops
    BY <1>1, <2>2, <2>5, <2>6
  <2>7. ASSUME NEW a \in P, \A b \in Q : a.ops >= 5 * b.ops
        PROVE  x >= 5 * y
    <3>1. a.ops >= 5 * y /\ a.ops \in Nat /\ a.ops <= x
      BY <2>3, <2>4, <2>5, <2>7, Zenon
    <3> QED BY <1>1, <3>1
  <2>8. ASSUME ~(x >= y), NEW a \in P
        PROVE  a.ops < b0.ops
    <3>1. a.ops \in Nat /\ a.ops <= x
      BY <2>5, <2>8, Zenon
    <3> QED BY <1>1, <2>3, <2>8, <3>1
  <2>9. ASSUME NEW b \in Q, a0.ops < b.ops
        PROVE  ~(x >= y)
    <3>1. b.ops \in Nat /\ b.ops <= y
      BY <2>5, <2>9, Zenon
    <3> QED BY <1>1, <2>2, <2>9, <3>1
  <2> QED BY <2>4, <2>6, <2>7, <2>8, <2>9, Zenon
<1> QED BY <1>3, <1>4, <1>a, Zenon DEF VerdictOf

\* A cell is its six axes.
LEMMA SameAxes ==
  ASSUME NEW x \in CellSet, NEW y \in CellSet, x.engine = y.engine, x.workload = y.workload,
         x.regime = y.regime, x.value = y.value, x.conc = y.conc, x.dur = y.dur
  PROVE  x = y
BY DEF CellSet

\* Two cells with the same engine and the same other axes are one.
LEMMA SameButEngine ==
  ASSUME NEW x \in CellSet, NEW y \in CellSet,
         x.engine = y.engine, [x EXCEPT !.engine = ""] = [y EXCEPT !.engine = ""]
  PROVE  x = y
<1>1. /\ x.workload = y.workload /\ x.regime = y.regime /\ x.value = y.value
      /\ x.conc = y.conc /\ x.dur = y.dur
  BY DEF CellSet
<1> QED BY <1>1, SameAxes, Zenon

\* An engine has at most one row at a cell.
LEMMA OneRow ==
  ASSUME SweepInv, NEW S, NEW a \in Loaded(S), NEW b \in Loaded(S),
         a.cell.engine = b.cell.engine, CellKey(a) = CellKey(b)
  PROVE  a = b
<1>1. /\ a.cell \in CellSet /\ b.cell \in CellSet
      /\ a = files[NameOf(a.cell)] /\ b = files[NameOf(b.cell)]
  BY LoadedFacts, Zenon
<1>2. PICK x \in CellSet, y \in CellSet : x = a.cell /\ y = b.cell
  BY <1>1, Zenon
<1>3. x.engine = y.engine /\ [x EXCEPT !.engine = ""] = [y EXCEPT !.engine = ""]
  BY <1>2, Zenon DEF CellKey
<1>4. x = y
  BY <1>2, <1>3, SameButEngine, Zenon
<1> QED BY <1>1, <1>2, <1>4, Zenon

\* The throughput of a kv engine at a cell.
LEMMA OpsAtTop ==
  ASSUME SweepInv, NEW S0, NEW L, L = Loaded(S0), NEW e, NEW k
  PROVE  Top({r \in L : r.cell.engine = e /\ CellKey(r) = k /\ ~r.err}, OpsAt(L, e, k))
<1>1. PICK S : S = {r \in L : r.cell.engine = e /\ CellKey(r) = k /\ ~r.err}
  BY Zenon
<1>2. PICK v : v = OpsAt(L, e, k)
  BY Zenon
<1>3. v = IF S = {} THEN -1 ELSE (CHOOSE r \in S : TRUE).ops
  BY <1>1, <1>2 DEF OpsAt
<1>4. CASE S = {}
  <2>1. v = -1 /\ v \in Int
    BY <1>3, <1>4
  <2> QED BY <1>1, <1>2, <1>4, <2>1, Zenon DEF Top
<1>5. CASE S # {}
  <2>1. PICK q : q = CHOOSE r \in S : TRUE
    BY Zenon
  <2>2. q \in S /\ v = q.ops
    BY <1>3, <1>5, <2>1, Zenon
  <2>3. \A b \in S : b = q
    BY <1>1, <2>2, OneRow, Zenon
  <2>4. v \in Nat
    BY <1>1, <2>2, LoadedFacts, Zenon
  <2>5. v \in Int /\ v <= v
    BY <2>4
  <2>6. \A b \in S : b.ops <= v
    BY <2>2, <2>3, <2>5, Zenon
  <2> QED BY <1>1, <1>2, <1>5, <2>2, <2>5, <2>6, Zenon DEF Top
<1> QED BY <1>4, <1>5, Zenon

\* The greatest throughput of two sets of rows is the greater of theirs.
LEMMA TopOfTwo ==
  ASSUME NEW A, NEW B, Numbers(A), Numbers(B), NEW x, NEW y, Top(A, x), Top(B, y)
  PROVE  Top(A \cup B, Max({x, y}))
<1>0. (\A r \in A : r.ops \in Nat) /\ \A r \in B : r.ops \in Nat
  BY Zenon DEF Numbers
<1>1. x \in Int /\ y \in Int
  BY Zenon DEF Top
<1>2. PICK m : m = Max({x, y})
  BY Zenon
<1>3. m \in {x, y} /\ x <= m /\ y <= m
  <2>1. \E v \in {x, y} : \A w \in {x, y} : v >= w
    BY <1>1
  <2>2. m \in {x, y} /\ \A w \in {x, y} : m >= w
    BY <1>2, <2>1, Zenon DEF Max
  <2> QED BY <1>1, <2>2
<1>4. m \in Int
  BY <1>1, <1>3, Zenon
<1>5. /\ A = {} => x = -1
      /\ A # {} => (\E a \in A : a.ops = x) /\ \A b \in A : b.ops <= x
      /\ B = {} => y = -1
      /\ B # {} => (\E a \in B : a.ops = y) /\ \A b \in B : b.ops <= y
  BY DEF Top
<1>6. CASE A = {} /\ B = {}
  <2>1. m = -1
    BY <1>3, <1>5, <1>6, Zenon
  <2>2. A \cup B = {}
    BY <1>6, Zenon
  <2> QED BY <1>2, <1>4, <2>1, <2>2, Zenon DEF Top
<1>7. CASE A # {} \/ B # {}
  <2>1. \A b \in A : b.ops <= m
    <3>1. \A b \in A : b.ops <= x /\ b.ops \in Nat
      BY <1>0, <1>5, Zenon
    <3> QED BY <1>1, <1>3, <1>4, <3>1
  <2>2. \A b \in B : b.ops <= m
    <3>1. \A b \in B : b.ops <= y /\ b.ops \in Nat
      BY <1>0, <1>5, Zenon
    <3> QED BY <1>1, <1>3, <1>4, <3>1
  <2>3. \E a \in A \cup B : a.ops = m
    <3>1. CASE A = {}
      <4>1. PICK b \in B : b.ops = y
        BY <1>5, <1>7, <3>1, Zenon
      <4>2. m = y
        <5>1. x = -1 /\ y \in Nat
          BY <1>0, <1>5, <3>1, <4>1, Zenon
        <5> QED BY <1>3, <5>1
      <4> QED BY <4>1, <4>2, Zenon
    <3>2. CASE B = {}
      <4>1. PICK a \in A : a.ops = x
        BY <1>5, <1>7, <3>2, Zenon
      <4>2. m = x
        <5>1. y = -1 /\ x \in Nat
          BY <1>0, <1>5, <3>2, <4>1, Zenon
        <5> QED BY <1>3, <5>1
      <4> QED BY <4>1, <4>2, Zenon
    <3>3. CASE A # {} /\ B # {}
      BY <1>3, <1>5, <3>3, Zenon
    <3> QED BY <3>1, <3>2, <3>3, Zenon
  <2>4. A \cup B # {}
    BY <1>7, Zenon
  <2> QED BY <1>2, <1>4, <2>1, <2>2, <2>3, <2>4, Zenon DEF Top
<1> QED BY <1>6, <1>7, Zenon

\* The throughput of the fastest competitor.
LEMMA RivalTop ==
  ASSUME SweepInv, NEW S0, NEW L, L = Loaded(S0), NEW k, NEW ex, NEW R, R = Rivals(L, k, ex), NEW v,
         v = IF {r.ops : r \in R} = {} THEN -1 ELSE Max({r.ops : r \in R})
  PROVE  Top(R, v)
<1>1. R \in SUBSET L
  BY Zenon DEF Rivals
<1>2. IsFiniteSet(R) /\ \A r \in R : r.ops \in Nat
  BY <1>1, LoadedFacts, FS_Subset, Zenon
<1>3. CASE R = {}
  <2>1. v = -1 /\ v \in Int
    BY <1>3
  <2> QED BY <1>3, <2>1, Zenon DEF Top
<1>4. CASE R # {}
  <2>1. PICK xs : xs = [r \in R |-> r.ops]
    BY Zenon
  <2>2. \A r \in R : r.ops \in Int
    BY <1>2
  <2>3. xs \in [R -> Int] /\ Range(xs) = {r.ops : r \in R} /\ DOMAIN xs = R /\ \A r \in R : xs[r] = r.ops
    BY <2>1, <2>2, Zenon DEF Range
  <2>4. v = Max(Range(xs))
    <3>1. {r.ops : r \in R} # {}
      BY <1>4, Zenon
    <3> QED BY <2>3, <3>1, Zenon
  <2>5. v \in Range(xs) /\ \A r \in R : xs[r] <= v
    BY <1>2, <1>4, <2>3, <2>4, MinMax, Zenon
  <2>6. PICK r \in R : v = r.ops
    BY <2>3, <2>5, Zenon
  <2> QED BY <1>4, <2>2, <2>3, <2>5, <2>6, Zenon DEF Top
<1> QED BY <1>3, <1>4, Zenon

\* A row of the comparison and its verdict.
LEMMA RowVerdict ==
  ASSUME SweepInv, NEW S, NEW L, L = Loaded(S), NEW T, NEW M, M = Loaded(T),
         NEW k, NEW ex, NEW v, v = CompareRow(L, M, k, ex).verdict
  PROVE  /\ VerdictSound(v, KVRows(L, k), OtherRows(M, k, ex))
         /\ v \in {"n/a", "5x-CLEARED", "lead", "behind"}
<1>1. PICK A1, A2, B :
        /\ A1 = {r \in L : r.cell.engine = "kv-btree" /\ CellKey(r) = k /\ ~r.err}
        /\ A2 = {r \in L : r.cell.engine = "kv-lsm" /\ CellKey(r) = k /\ ~r.err}
        /\ B = Rivals(M, k, ex)
  BY Zenon
<1>2. PICK x1, x2, x, y :
        /\ x1 = OpsAt(L, "kv-btree", k) /\ x2 = OpsAt(L, "kv-lsm", k) /\ x = Max({x1, x2})
        /\ y = IF {r.ops : r \in B} = {} THEN -1 ELSE Max({r.ops : r \in B})
  BY Zenon
<1>3. Top(A1, x1) /\ Top(A2, x2)
  BY <1>1, <1>2, OpsAtTop, Zenon
<1>4. Numbers(A1) /\ Numbers(A2) /\ Numbers(A1 \cup A2) /\ Numbers(B)
  BY <1>1, LoadedFacts, Zenon DEF Rivals, Numbers
<1>5. Top(A1 \cup A2, x)
  BY <1>2, <1>3, <1>4, TopOfTwo, Zenon
<1>6. Top(B, y)
  BY <1>1, <1>2, RivalTop, Zenon
<1>7. PICK P, Q : P = KVRows(L, k) /\ Q = OtherRows(M, k, ex)
  BY Zenon
<1>8. P = Positive(A1 \cup A2) /\ Q = Positive(B)
  BY <1>1, <1>7, Zenon DEF KVEngines, Rivals, Positive, KVRows, OtherRows
<1>9. VerdictOf(x, y, P, Q)
  BY <1>4, <1>5, <1>6, <1>8, VerdictOn, Zenon
<1>10. CompareRow(L, M, k, ex) = [kv |-> x, rival |-> y,
             verdict |-> IF ~(y > 0 /\ x > 0) THEN "n/a"
                         ELSE IF x >= 5 * y THEN "5x-CLEARED"
                         ELSE IF x >= y THEN "lead" ELSE "behind"]
  BY <1>1, <1>2 DEF CompareRow
<1>11. v = IF ~(y > 0 /\ x > 0) THEN "n/a"
           ELSE IF x >= 5 * y THEN "5x-CLEARED"
           ELSE IF x >= y THEN "lead" ELSE "behind"
  BY <1>10
<1>12. /\ v = "5x-CLEARED" <=> (y > 0 /\ x > 0) /\ x >= 5 * y
       /\ v = "behind" <=> (y > 0 /\ x > 0) /\ ~(x >= y)
       /\ v = "n/a" <=> ~(y > 0 /\ x > 0)
       /\ v \in {"n/a", "5x-CLEARED", "lead", "behind"}
  <2>1. x \in Int /\ y \in Int
    BY <1>5, <1>6, Zenon DEF Top
  <2> QED BY <1>11, <2>1
<1>13. VerdictSound(v, P, Q)
  BY <1>9, <1>12, Zenon DEF VerdictOf, VerdictSound
<1> QED BY <1>7, <1>12, <1>13, Zenon

\* The verdicts are those of the rows (the comment above cmdCompare).
LEMMA SoundFrom == SweepInv /\ TablesInv => ComparisonSound
<1> SUFFICES ASSUME SweepInv, TablesInv, NEW k \in DOMAIN compared
             PROVE  VerdictSound(compared[k].verdict, KVRows(Loaded(skipped), k),
                                 OtherRows(Loaded(baseSkipped), k, excluded))
  BY Zenon DEF ComparisonSound
<1>1. compared[k].verdict = CompareRow(Loaded(skipped), Loaded(baseSkipped), k, excluded).verdict
  BY Zenon DEF TablesInv
<1> QED BY <1>1, RowVerdict, Zenon

\* The types of the sweep's and the report's variables.
LEMMA TypesFrom == SweepInv /\ TablesInv => BoardTypeOK
<1> SUFFICES ASSUME SweepInv, TablesInv
             PROVE  BoardTypeOK
  BY Zenon
<1>1. SweepTypeOK
  <2>1. (reps \in Seq(Answers(cmd.cells[at])) /\ Len(reps) <= Repetitions) \/ reps = <<>>
    BY SweepFacts, Zenon DEF RepsOf
  <2>2. Len(reps) <= Repetitions
    <3>1. Repetitions \in Nat \ {0}
      BY SweepFacts, Zenon
    <3> QED BY <2>1, <3>1
  <2>3. /\ cmd \in Commands /\ at \in 1..(Len(cmd.cells) + 1) /\ Len(log) = at - 1
        /\ lost \subseteq DOMAIN log /\ Cardinality(DOMAIN files) <= Len(log)
    BY SweepFacts, Zenon DEF SweepInv
  <2>4. \A n \in DOMAIN files : files[n].ops \in Nat /\ files[n].latency \in 1..Repetitions
    BY FileFacts, Zenon
  <2> QED BY <2>2, <2>3, <2>4, Zenon DEF SweepTypeOK
<1>2. Rows \subseteq Loaded(skipped)
  <2>1. \A t \in DOMAIN tables : Range(tables[t]) \subseteq Loaded(skipped)
    BY TableFacts, RowsFinite, Zenon
  <2> QED BY <2>1, Zenon DEF Rows
<1>3. \A k \in DOMAIN compared : compared[k].verdict \in {"n/a", "5x-CLEARED", "lead", "behind"}
  <2> SUFFICES ASSUME NEW k \in DOMAIN compared
               PROVE  compared[k].verdict \in {"n/a", "5x-CLEARED", "lead", "behind"}
    BY Zenon
  <2>1. compared[k].verdict = CompareRow(Loaded(skipped), Loaded(baseSkipped), k, excluded).verdict
    BY Zenon DEF TablesInv
  <2> QED BY <2>1, RowVerdict, Zenon
<1> QED BY <1>1, <1>2, <1>3, Zenon DEF BoardTypeOK, TablesInv

\* What TablesInv says of the stage, the rows L that were loaded, the rows M that were
\* loaded as a baseline, the tables and the comparison.
TablesKeep(st, m, over, L, M, tb, ex, cm) ==
  /\ st \in {"run", "report", "reported", "compared", "exit"} /\ m \in BOOLEAN
  /\ st # "run" => over
  /\ st \notin {"report", "reported"} => tb = <<>>
  /\ st # "compared" => cm = <<>>
  /\ \A t \in DOMAIN tb : t \in TablesOf(L) /\ tb[t] \in Ranked(m, RowsOf(L, t))
  /\ st = "reported" => TablesOf(L) \subseteq DOMAIN tb
  /\ ex \in Excludes \cup {{}}
  /\ \A k \in DOMAIN cm : cm[k] = CompareRow(L, M, k, ex)

\* The rows of the files fs that are loaded when those of S cannot be read.
LoadedFrom(fs, S) == {r \in {fs[n] : n \in DOMAIN fs \ S} : r.cell.engine # ""}

\* TablesInv in these words, before and after a step.
LEMMA TablesMean ==
  /\ TablesInv <=> TablesKeep(stage, md, SweepDone, LoadedFrom(files, skipped),
                              LoadedFrom(files, baseSkipped), tables, excluded, compared)
  /\ TablesInv' <=> TablesKeep(stage', md', SweepDone', LoadedFrom(files', skipped'),
                               LoadedFrom(files', baseSkipped'), tables', excluded', compared')
BY Zenon DEF TablesInv, TablesKeep, Loaded, LoadedFrom

\* The rows that are loaded, in these words.
LEMMA LoadedMeans == \A S : Loaded(S) = LoadedFrom(files, S)
BY Zenon DEF Loaded, LoadedFrom

\* A step that leaves the sweep alone leaves what it keeps, and the files.
LEMMA SweepStays ==
  ASSUME SweepInv, UNCHANGED sweepVars
  PROVE  SweepInv' /\ files' = files /\ (SweepDone => SweepDone')
<1>1. cmd' = cmd /\ at' = at /\ reps' = reps /\ log' = log /\ files' = files /\ lost' = lost
  BY DEF sweepVars
<1>2. Repetitions' = Repetitions /\ Chosen' = Chosen
  BY <1>1, CommandStays, Zenon
<1>3. SweepDone' <=> SweepDone
  BY <1>1, Zenon DEF SweepDone
<1>4. ResultsKept'
  <2>1. ResultsKept
    BY Zenon DEF SweepInv
  <2> QED BY <1>1, <2>1, KeptMeans, Zenon
<1> QED BY <1>1, <1>2, <1>3, <1>4, Zenon DEF SweepInv

\* A step of the sweep keeps what the sweep has.
LEMMA SweepKeeps == SweepInv /\ SweepNext => SweepInv' /\ ~SweepDone
<1>1. SweepInv /\ SweepNext => SweepInv'
  BY SkipKeeps, RunRepKeeps, WriteKeeps, Zenon DEF SweepNext
<1>2. SweepInv /\ SweepNext => at <= Len(cmd.cells)
  BY Zenon DEF SweepNext, Skip, RunRep, WriteResult
<1>3. SweepInv => at \in Nat /\ Len(cmd.cells) \in Nat
  BY SweepFacts
<1>4. at \in Nat /\ Len(cmd.cells) \in Nat /\ at <= Len(cmd.cells) => ~SweepDone
  BY DEF SweepDone
<1> QED BY <1>1, <1>2, <1>3, <1>4, Zenon

\* Before the report there are no tables and no comparison.
LEMMA NothingOut ==
  ASSUME TablesInv, stage = "run"
  PROVE  tables = <<>> /\ compared = <<>> /\ DOMAIN tables = {} /\ DOMAIN compared = {}
<1>1. tables = <<>> /\ compared = <<>>
  BY Zenon DEF TablesInv
<1>2. DOMAIN << >> = {}
  OBVIOUS
<1> QED BY <1>1, <1>2, Zenon

\* The report and the comparison wait for the sweep to end.
LEMMA SweepingKeeps ==
  ASSUME TablesInv, ~SweepDone, UNCHANGED boardVars
  PROVE  TablesInv'
<1>1. /\ stage' = stage /\ md' = md /\ tables' = tables /\ excluded' = excluded
      /\ compared' = compared
  BY DEF boardVars
<1>2. stage = "run" /\ md \in BOOLEAN /\ excluded \in Excludes \cup {{}}
  BY Zenon DEF TablesInv
<1>3. "run" \in {"run", "report", "reported", "compared", "exit"} /\ "run" # "reported"
  OBVIOUS
<1> QED BY <1>1, <1>2, <1>3, NothingOut, TablesMean, Zenon DEF TablesKeep

\* Nothing is printed as the report starts.
LEMMA ReportKeeps == SweepInv /\ TablesInv /\ Report => TablesInv'
<1> SUFFICES ASSUME SweepInv, TablesInv, Report
             PROVE  TablesInv'
  BY Zenon
<1>1. /\ stage = "run" /\ SweepDone /\ md' \in BOOLEAN /\ stage' \in {"report", "exit"}
      /\ tables' = tables /\ excluded' = excluded /\ compared' = compared /\ UNCHANGED sweepVars
  BY Zenon DEF Report
<1>2. SweepDone'
  BY <1>1, SweepStays, Zenon
<1>3. tables' = <<>> /\ compared' = <<>> /\ DOMAIN tables' = {} /\ DOMAIN compared' = {}
  BY <1>1, NothingOut, Zenon
<1>4. /\ stage' # "reported" /\ stage' # "compared"
      /\ stage' \in {"run", "report", "reported", "compared", "exit"}
  BY <1>1
<1>5. excluded' \in Excludes \cup {{}}
  BY <1>1, Zenon DEF TablesInv
<1> QED BY <1>1, <1>2, <1>3, <1>4, <1>5, TablesMean, Zenon DEF TablesKeep

\* A table is a ranked one of the files.
LEMMA PrintTableKeeps == SweepInv /\ TablesInv /\ PrintTable => TablesInv'
<1> SUFFICES ASSUME SweepInv, TablesInv, PrintTable
             PROVE  TablesInv'
  BY Zenon
<1>0. PICK L, M : L = LoadedFrom(files, skipped) /\ L = Loaded(skipped)
                  /\ M = LoadedFrom(files, baseSkipped)
  BY LoadedMeans, Zenon
<1>1. PICK due, t : due = TablesOf(L) \ DOMAIN tables /\ t = CHOOSE k \in due : TRUE
  BY Zenon
<1>2. /\ stage = "report" /\ due # {} /\ UNCHANGED sweepVars
      /\ stage' = stage /\ md' = md /\ excluded' = excluded /\ compared' = compared
      /\ skipped' = skipped /\ baseSkipped' = baseSkipped
  BY <1>0, <1>1, Zenon DEF PrintTable
<1>3. PICK rows \in Ranked(md, RowsOf(L, t)) : Wrote(tables, t, rows, tables')
  BY <1>0, <1>1, Zenon DEF PrintTable, Wrote
<1>4. t \in TablesOf(L)
  BY <1>1, <1>2, Zenon
<1>5. /\ L = LoadedFrom(files', skipped') /\ M = LoadedFrom(files', baseSkipped') /\ SweepDone'
  BY <1>0, <1>2, SweepStays, Zenon DEF TablesInv
<1>a. TablesKeep(stage, md, SweepDone, L, M, tables, excluded, compared)
  BY <1>0, TablesMean, Zenon
<1>6. \A k \in DOMAIN tables' :
        k \in TablesOf(L) /\ tables'[k] \in Ranked(md, RowsOf(L, k))
  <2> SUFFICES ASSUME NEW k \in DOMAIN tables'
               PROVE  k \in TablesOf(L) /\ tables'[k] \in Ranked(md, RowsOf(L, k))
    BY Zenon
  <2>1. CASE k = t
    BY <1>3, <1>4, <2>1, Zenon DEF Wrote
  <2>2. CASE k # t
    <3>1. k \in DOMAIN tables /\ tables'[k] = tables[k]
      BY <1>3, <2>2, Zenon DEF Wrote
    <3> QED BY <1>a, <3>1, Zenon DEF TablesKeep
  <2> QED BY <2>1, <2>2, Zenon
<1>7. /\ stage' \in {"run", "report", "reported", "compared", "exit"}
      /\ stage' \in {"report", "reported"} /\ stage' # "reported" /\ stage # "compared"
  BY <1>2
<1>8. compared = <<>> /\ excluded \in Excludes \cup {{}} /\ md \in BOOLEAN
  BY <1>7, Zenon DEF TablesInv
<1>9. DOMAIN compared' = {}
  BY <1>2, <1>8
<1>10. TablesKeep(stage', md', SweepDone', L, M, tables', excluded', compared')
  BY <1>2, <1>5, <1>6, <1>7, <1>8, <1>9, Zenon DEF TablesKeep
<1> QED BY <1>5, <1>10, TablesMean, Zenon

\* The report is out when every table is.
LEMMA PrintedKeeps == SweepInv /\ TablesInv /\ Printed => TablesInv'
<1> SUFFICES ASSUME SweepInv, TablesInv, Printed
             PROVE  TablesInv'
  BY Zenon
<1>0. PICK L, M : L = LoadedFrom(files, skipped) /\ L = Loaded(skipped)
                  /\ M = LoadedFrom(files, baseSkipped)
  BY LoadedMeans, Zenon
<1>1. /\ stage = "report" /\ stage' = "reported" /\ TablesOf(L) \subseteq DOMAIN tables
      /\ UNCHANGED sweepVars /\ md' = md /\ tables' = tables /\ excluded' = excluded
      /\ compared' = compared /\ skipped' = skipped /\ baseSkipped' = baseSkipped
  BY <1>0, Zenon DEF Printed
<1>2. /\ stage # "run" /\ stage # "compared" /\ stage' \in {"report", "reported"}
      /\ stage' \in {"run", "report", "reported", "compared", "exit"}
  BY <1>1
<1>3. /\ L = LoadedFrom(files', skipped') /\ M = LoadedFrom(files', baseSkipped') /\ SweepDone'
  BY <1>0, <1>1, <1>2, SweepStays, Zenon DEF TablesInv
<1>4. TablesKeep(stage, md, SweepDone, L, M, tables, excluded, compared)
  BY <1>0, TablesMean, Zenon
<1>5. TablesKeep(stage', md', SweepDone', L, M, tables', excluded', compared')
  BY <1>1, <1>2, <1>3, <1>4, Zenon DEF TablesKeep
<1> QED BY <1>3, <1>5, TablesMean, Zenon

\* The comparison is one of the files, with the engines that are excluded left out.
LEMMA CompareKeeps == SweepInv /\ TablesInv /\ Compare => TablesInv'
<1> SUFFICES ASSUME SweepInv, TablesInv, Compare
             PROVE  TablesInv'
  BY Zenon
<1>0. PICK L, M : /\ L = LoadedFrom(files, skipped') /\ L = Loaded(skipped')
                  /\ M = LoadedFrom(files, baseSkipped') /\ M = Loaded(baseSkipped')
  BY LoadedMeans, Zenon
<1>1. /\ stage = "run" /\ SweepDone /\ UNCHANGED sweepVars /\ md' = md /\ tables' = tables
      /\ excluded' \in Excludes
  BY Zenon DEF Compare
<1>2. /\ L = LoadedFrom(files', skipped') /\ M = LoadedFrom(files', baseSkipped') /\ SweepDone'
  BY <1>0, <1>1, SweepStays, Zenon
<1>3. tables' = <<>> /\ DOMAIN tables' = {} /\ compared = <<>> /\ DOMAIN compared = {}
  BY <1>1, NothingOut, Zenon
<1>4. \/ stage' = "exit" /\ compared' = compared
      \/ stage' = "compared" /\ compared' = Comparison(L, M, excluded')
  BY <1>0, Zenon DEF Compare
<1>5. /\ stage' # "reported" /\ stage' \in {"run", "report", "reported", "compared", "exit"}
      /\ stage' \notin {"report", "reported"}
  BY <1>4
<1>6. \A k \in DOMAIN compared' : compared'[k] = CompareRow(L, M, k, excluded')
  <2>1. CASE compared' = compared
    BY <1>3, <2>1, Zenon
  <2>2. CASE compared' = Comparison(L, M, excluded')
    BY <2>2, Zenon DEF Comparison
  <2> QED BY <1>4, <2>1, <2>2, Zenon
<1>7. md' \in BOOLEAN /\ (stage' # "compared" => compared' = <<>>)
  BY <1>1, <1>3, <1>4, Zenon DEF TablesInv
<1>8. TablesKeep(stage', md', SweepDone', L, M, tables', excluded', compared')
  BY <1>1, <1>2, <1>3, <1>5, <1>6, <1>7, Zenon DEF TablesKeep
<1> QED BY <1>2, <1>8, TablesMean, Zenon

\* So does a step that changes nothing.
LEMMA BoardStays ==
  ASSUME SweepInv, TablesInv, UNCHANGED allVars
  PROVE  SweepInv' /\ TablesInv'
<1>1. UNCHANGED sweepVars /\ UNCHANGED boardVars
  BY DEF allVars
<1>2. /\ stage' = stage /\ md' = md /\ tables' = tables /\ excluded' = excluded
      /\ compared' = compared /\ skipped' = skipped /\ baseSkipped' = baseSkipped
  BY <1>1 DEF boardVars
<1>3. SweepInv' /\ files' = files /\ (SweepDone => SweepDone')
  BY <1>1, SweepStays, Zenon
<1>4. PICK L, M : L = LoadedFrom(files, skipped) /\ M = LoadedFrom(files, baseSkipped)
  BY Zenon
<1>5. TablesKeep(stage, md, SweepDone, L, M, tables, excluded, compared)
  BY <1>4, TablesMean, Zenon
<1>6. TablesKeep(stage', md', SweepDone', L, M, tables', excluded', compared')
  BY <1>2, <1>3, <1>5, Zenon DEF TablesKeep
<1> QED BY <1>2, <1>3, <1>4, <1>6, TablesMean, Zenon

\* Every step of the sweep, the report and the comparison.
LEMMA BoardStep == SweepInv /\ TablesInv /\ [BoardNext]_allVars => SweepInv' /\ TablesInv'
<1> SUFFICES ASSUME SweepInv, TablesInv, [BoardNext]_allVars
             PROVE  SweepInv' /\ TablesInv'
  BY Zenon
<1>1. CASE SweepNext /\ UNCHANGED boardVars
  BY <1>1, SweepKeeps, SweepingKeeps, Zenon
<1>2. CASE Report
  <2>1. UNCHANGED sweepVars
    BY <1>2, Zenon DEF Report
  <2> QED BY <1>2, <2>1, ReportKeeps, SweepStays, Zenon
<1>3. CASE PrintTable
  <2>1. UNCHANGED sweepVars
    BY <1>3, Zenon DEF PrintTable
  <2> QED BY <1>3, <2>1, PrintTableKeeps, SweepStays, Zenon
<1>4. CASE Printed
  <2>1. UNCHANGED sweepVars
    BY <1>4, Zenon DEF Printed
  <2> QED BY <1>4, <2>1, PrintedKeeps, SweepStays, Zenon
<1>5. CASE Compare
  <2>1. UNCHANGED sweepVars
    BY <1>5, Zenon DEF Compare
  <2> QED BY <1>5, <2>1, CompareKeeps, SweepStays, Zenon
<1>6. CASE UNCHANGED allVars
  BY <1>6, BoardStays, Zenon
<1> QED BY <1>1, <1>2, <1>3, <1>4, <1>5, <1>6, Zenon DEF BoardNext

\* Nothing is run and nothing printed at the start.
LEMMA BoardStart == BoardInit => SweepInv /\ TablesInv
<1> SUFFICES ASSUME BoardInit
             PROVE  SweepInv /\ TablesInv
  BY Zenon
<1>1. SweepInv
  BY SweepInitInv, Zenon DEF BoardInit
<1>2. stage = "run" /\ md = FALSE /\ tables = <<>> /\ excluded = {} /\ compared = <<>>
  BY Zenon DEF BoardInit
<1>a. DOMAIN << >> = {}
  OBVIOUS
<1>3. /\ DOMAIN tables = {} /\ DOMAIN compared = {} /\ md \in BOOLEAN
      /\ excluded \in Excludes \cup {{}}
  BY <1>a, <1>2, Zenon
<1>4. stage \in {"run", "report", "reported", "compared", "exit"} /\ stage # "reported"
  BY <1>2
<1> QED BY <1>1, <1>2, <1>3, <1>4, TablesMean, Zenon DEF TablesKeep

\* The inductive invariant: files that are each the aggregate of a cell that was
\* run, under its name, and tables that are ranked ones of the files.
LEMMA BoardInduction == BoardSpec => [](SweepInv /\ TablesInv)
BY BoardStart, BoardStep, PTL DEF BoardSpec

\* Types, the ranking of every table and its division, and the results directory: a
\* file that was written is only lost to a later run of its cell or of one that is
\* alike but for slashes. A sweep of any command line over any engines, and any report
\* of it, keep them (cmdRun, runReps, writeResult; groupByClass, RenderMarkdown,
\* printTables).
THEOREM SweepAndReport == BoardSpec => []BoardInv
<1>1. SweepInv /\ TablesInv => BoardInv
  BY ApartFrom, RankedFrom, TypesFrom, Zenon DEF BoardInv
<1> QED BY <1>1, BoardInduction, PTL

\* The number runReps publishes for a cell is a median of the repetitions that were
\* measured, and its range theirs, for any number of them and any throughputs; with a
\* repetition that panicked it is at most a median, and its maximum is still theirs.
THEOREM PublishedMedian == BoardSpec => []MedianHonest
BY HonestFrom, BoardInduction, PTL

\* The latencies of a result that has a name are those of a repetition that was
\* measured, and no other is nearer to the median (runReps).
THEOREM PublishedLatency == BoardSpec => []LatencyFromMedianRep
BY LatencyFrom, BoardInduction, PTL

\* A report that is out has one row for every cell that was run without a panic, is of
\* a class there is, and whose file was written, read and not written over
\* (writeResult, loadResults, groupByClass).
THEOREM NoRowLost == BoardSpec => []ReportComplete
BY CompleteFrom, BoardInduction, PTL

\* The verdicts of kvbench compare are those of the rows that count (buildComparison,
\* verdict).
THEOREM VerdictsSound == BoardSpec => []ComparisonSound
BY SoundFrom, BoardInduction, PTL
=============================================================================
