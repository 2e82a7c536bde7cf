--------------------------- MODULE SequenceLemmas ---------------------------
(***************************************************************************)
(* Facts about the operators that the specifications of this project apply *)
(* to their queues and messages: RemoveAt, the minimum behind SelectInSeq, *)
(* the sum of a sequence by FoldSeq, and what is left of a division.       *)
(***************************************************************************)
EXTENDS SequencesExt, Integers, SequenceTheorems, FiniteSetTheorems, WellFoundedInduction, TLAPS

\* Removing position i of a queue keeps every other element and its order.
LEMMA RemoveAtElements ==
    ASSUME NEW S, NEW q \in Seq(S), NEW i \in 1..Len(q)
    PROVE  /\ RemoveAt(q, i) \in Seq(S)
           /\ Len(RemoveAt(q, i)) = Len(q) - 1
           /\ \A j \in 1..(Len(q) - 1) :
                  RemoveAt(q, i)[j] = IF j < i THEN q[j] ELSE q[j + 1]
<1> DEFINE a == SubSeq(q, 1, i - 1)
           b == SubSeq(q, i + 1, Len(q))
<1>1. Len(q) \in Nat /\ \A k \in 1..Len(q) : q[k] \in S
  OBVIOUS
<1>2. /\ a \in Seq(S)
      /\ Len(a) = i - 1
      /\ \A j \in 1..(i - 1) : a[j] = q[j]
  BY <1>1, SubSeqProperties
<1>3. /\ b \in Seq(S)
      /\ Len(b) = Len(q) - i
      /\ \A j \in 1..(Len(q) - i) : b[j] = q[i + j]
  BY <1>1, SubSeqProperties
<1>4. RemoveAt(q, i) = a \o b
  BY DEF RemoveAt
<1> HIDE DEF a, b
<1>5. /\ a \o b \in Seq(S)
      /\ Len(a \o b) = Len(a) + Len(b)
      /\ \A k \in 1..(Len(a) + Len(b)) :
             (a \o b)[k] = IF k <= Len(a) THEN a[k] ELSE b[k - Len(a)]
  BY <1>2, <1>3, ConcatProperties
<1>6. Len(a) + Len(b) = Len(q) - 1
  BY <1>1, <1>2, <1>3
<1>7. ASSUME NEW j \in 1..(Len(q) - 1)
      PROVE  (a \o b)[j] = IF j < i THEN q[j] ELSE q[j + 1]
  <2>1. CASE j < i
    BY <2>1, <1>2, <1>3, <1>5
  <2>2. CASE ~(j < i)
    <3>1. j - Len(a) \in 1..(Len(q) - i)
      BY <2>2, <1>1, <1>2
    <3>2. (a \o b)[j] = b[j - Len(a)]
      BY <2>2, <1>2, <1>3, <1>5
    <3>3. b[j - Len(a)] = q[i + (j - Len(a))]
      BY <3>1, <1>3
    <3>4. i + (j - Len(a)) = j + 1
      BY <1>1, <1>2
    <3> QED
      BY <3>2, <3>3, <3>4, <2>2
  <2> QED
    BY <2>1, <2>2
<1> QED
  BY <1>4, <1>5, <1>6, <1>7

\* The elements left after a removal, as positions of the old queue: every position but i
\* survives, and nothing else appears.
LEMMA RemoveAtSurvivors ==
    ASSUME NEW S, NEW q \in Seq(S), NEW i \in 1..Len(q)
    PROVE  /\ \A j \in 1..Len(RemoveAt(q, i)) :
                  \E k \in 1..Len(q) : k # i /\ RemoveAt(q, i)[j] = q[k]
           /\ \A k \in 1..Len(q) :
                  k # i => \E j \in 1..Len(RemoveAt(q, i)) : RemoveAt(q, i)[j] = q[k]
<1> DEFINE r == RemoveAt(q, i)
<1>1. /\ Len(q) \in Nat
      /\ Len(r) = Len(q) - 1
      /\ \A j \in 1..(Len(q) - 1) : r[j] = IF j < i THEN q[j] ELSE q[j + 1]
  BY RemoveAtElements
<1> HIDE DEF r
<1>2. ASSUME NEW j \in 1..Len(r)
      PROVE  \E k \in 1..Len(q) : k # i /\ r[j] = q[k]
  <2>1. CASE j < i
    BY <1>1, <2>1
  <2>2. CASE ~(j < i)
    <3>1. j + 1 \in 1..Len(q) /\ j + 1 # i
      BY <1>1, <2>2
    <3>2. r[j] = q[j + 1]
      BY <1>1, <2>2
    <3> QED
      BY <3>1, <3>2
  <2> QED
    BY <2>1, <2>2
<1>3. ASSUME NEW k \in 1..Len(q), k # i
      PROVE  \E j \in 1..Len(r) : r[j] = q[k]
  <2>1. CASE k < i
    <3>1. k \in 1..Len(r) /\ r[k] = q[k]
      BY <1>1, <2>1
    <3> QED
      BY <3>1
  <2>2. CASE k > i
    <3>1. k - 1 \in 1..Len(r) /\ ~(k - 1 < i) /\ (k - 1) + 1 = k
      BY <1>1, <2>2
    <3>2. r[k - 1] = q[k]
      BY <1>1, <3>1
    <3> QED
      BY <3>1, <3>2
  <2> QED
    BY <2>1, <2>2, <1>3
<1> QED
  BY <1>2, <1>3 DEF r

\* A non-empty set of naturals has a minimum, which Min picks.
LEMMA MinOfNaturals ==
    ASSUME NEW I \in SUBSET Nat, I # {}
    PROVE  Min(I) \in I /\ \A x \in I : Min(I) <= x
<1> DEFINE R == OpToRel(<, Nat)
<1>1. IsWellFoundedOn(R, Nat)
  BY NatLessThanWellFounded
<1>2. R = {ss \in Nat \X Nat : ss[1] < ss[2]}
  BY Zenon DEF OpToRel
<1>3. \A x, y \in Nat : y < x => <<y, x>> \in R
  <2> HIDE DEF R
  <2> TAKE x, y \in Nat
  <2>1. <<y, x>> \in Nat \X Nat /\ <<y, x>>[1] = y /\ <<y, x>>[2] = x
    OBVIOUS
  <2> QED
    BY <2>1, <1>2
<1> HIDE DEF R
<1>4. PICK x \in I : \A y \in I : ~(<<y, x>> \in R)
  BY <1>1, WFMin, Zenon
<1>5. ASSUME NEW y \in I
      PROVE  x <= y
  <2>1. x \in Nat /\ y \in Nat
    OBVIOUS
  <2>2. ~(y < x)
    BY <2>1, <1>3, <1>4
  <2> QED
    BY <2>1, <2>2
<1> QED
  BY <1>5 DEF Min

\* Moving the first element of one sequence to the end of another.
LEMMA MoveHead ==
    ASSUME NEW S, NEW a \in Seq(S), NEW b \in Seq(S), b # <<>>
    PROVE  /\ Append(a, Head(b)) \in Seq(S) /\ Tail(b) \in Seq(S)
           /\ Append(a, Head(b)) \o Tail(b) = a \o b
<1>1. Append(a, Head(b)) \in Seq(S) /\ Tail(b) \in Seq(S)
    OBVIOUS
<1>2. Len(Append(a, Head(b)) \o Tail(b)) = Len(a \o b)
    OBVIOUS
<1>3. ASSUME NEW i \in 1..Len(a \o b)
      PROVE  (Append(a, Head(b)) \o Tail(b))[i] = (a \o b)[i]
    OBVIOUS
<1>4. QED
    BY <1>1, <1>2, <1>3, SeqEqual

(***************************************************************************)
(* Quotients and remainders.                                               *)
(***************************************************************************)

\* Quotient and remainder make up the number.
LEMMA Division ==
    ASSUME NEW m \in Nat \ {0}, NEW n \in Int
    PROVE  /\ n \div m \in Int /\ n % m \in 0..(m - 1)
           /\ n = m * (n \div m) + (n % m)
BY SMTT(20)

\* A quotient and a remainder in range are the ones of the number.
LEMMA QuotientIs ==
    ASSUME NEW m \in Nat \ {0}, NEW n \in Int, NEW q \in Int, NEW r \in 0..(m - 1), n = m * q + r
    PROVE  n \div m = q
BY SMTT(20)

LEMMA RemainderIs ==
    ASSUME NEW m \in Nat \ {0}, NEW n \in Int, NEW q \in Int, NEW r \in 0..(m - 1), n = m * q + r
    PROVE  n % m = r
BY SMTT(20)

\* Neighbours among the multiples of a number.
LEMMA Multiples ==
    ASSUME NEW m \in Int, NEW q \in Int
    PROVE  /\ m * q \in Int /\ q * m = m * q
           /\ m * (q - 1) = m * q - m /\ m * (q + 1) = m * q + m
BY SMTT(20)

\* Equal remainders stay equal when both numbers are counted on.
LEMMA RemainderOfSuccessor ==
    ASSUME NEW m \in Nat \ {0}, NEW n \in Int, NEW k \in Int, n % m = k % m
    PROVE  (n + 1) % m = (k + 1) % m
<1>1. PICK q \in Int : n = m * q + (n % m) /\ n % m \in 0..(m - 1)
    BY Division
<1>2. PICK p \in Int : k = m * p + (k % m)
    BY Division
<1> DEFINE r == n % m
<1>3. n = m * q + r /\ k = m * p + r /\ r \in 0..(m - 1)
    BY <1>1, <1>2
<1> HIDE DEF r
<1>4. CASE r + 1 < m
    <2>1. n + 1 = m * q + (r + 1) /\ k + 1 = m * p + (r + 1) /\ r + 1 \in 0..(m - 1)
          /\ n + 1 \in Int /\ k + 1 \in Int
        BY <1>3, <1>4, Multiples
    <2>2. (n + 1) % m = r + 1 /\ (k + 1) % m = r + 1
        BY <2>1, RemainderIs
    <2>3. QED
        BY <2>2
<1>5. CASE r + 1 = m
    <2>1. /\ n + 1 = m * (q + 1) + 0 /\ k + 1 = m * (p + 1) + 0 /\ 0 \in 0..(m - 1)
          /\ n + 1 \in Int /\ k + 1 \in Int /\ q + 1 \in Int /\ p + 1 \in Int
        BY <1>3, <1>5, Multiples
    <2>2. (n + 1) % m = 0 /\ (k + 1) % m = 0
        BY <2>1, RemainderIs
    <2>3. QED
        BY <2>2
<1>6. QED
    BY <1>3, <1>4, <1>5

\* Numbers that are less than m apart have different remainders.
LEMMA RemaindersDiffer ==
    ASSUME NEW m \in Nat \ {0}, NEW i \in Int, NEW j \in Int, i < j, j - i < m
    PROVE  i % m # j % m
<1> SUFFICES ASSUME i % m = j % m PROVE FALSE
    OBVIOUS
<1>1. PICK q \in Int : i = m * q + (i % m) /\ i % m \in 0..(m - 1)
    BY Division
<1>2. PICK p \in Int : j = m * p + (j % m)
    BY Division
<1> DEFINE r == i % m
<1>3. i = m * q + r /\ j = m * p + r /\ r \in 0..(m - 1)
    BY <1>1, <1>2
<1> HIDE DEF r
<1>4. j - i = m * p - m * q
    BY <1>3, Multiples
<1>5. CASE p <= q
    <2>1. m * p <= m * q
        BY <1>5, SMTT(20)
    <2>2. QED
        BY <1>4, <2>1, Multiples
<1>6. CASE p >= q + 1
    <2>1. m * p >= m * (q + 1)
        BY <1>6, SMTT(20)
    <2>2. QED
        BY <1>4, <2>1, Multiples
<1>7. QED
    BY <1>5, <1>6

(***************************************************************************)
(* Sums.                                                                   *)
(***************************************************************************)

\* The sum of the elements of a sequence.
SumOf(s) == FoldSeq(LAMBDA size, sum : size + sum, 0, s)

\* m elements that are all P but for the last.
AllButLast(m, P, last) == [i \in 1..m |-> IF i < m THEN P ELSE last]

LEMMA SumOfAllButLast ==
    ASSUME NEW m \in Nat \ {0}, NEW P \in Int, NEW last \in Int
    PROVE  SumOf(AllButLast(m, P, last)) = P * (m - 1) + last
<1> DEFINE s == AllButLast(m, P, last)
           iter[T \in SUBSET (1..m)] ==
               IF T = {} THEN 0
               ELSE LET x == CHOOSE x \in T : TRUE
                    IN  s[x] + iter[T \ {x}]
           value(T) == P * Cardinality(T) + (IF m \in T THEN last - P ELSE 0)
           Step1(f) == [T \in SUBSET (1..m) |->
                           IF T = {} THEN 0
                           ELSE LET x == CHOOSE x \in T : TRUE
                                IN  s[x] + f[T \ {x}]]
           sums == [T \in SUBSET (1..m) |-> value(T)]
<1>1. SumOf(s) = iter[1..m]
    <2>1. DOMAIN s = 1..m
        BY DEF AllButLast
    <2>2. QED
        BY <2>1, Zenon DEF SumOf, FoldSeq, FoldFunction, FoldFunctionOnSet, MapThenFoldSet
<1>2. ASSUME NEW T \in SUBSET (1..m)
      PROVE  /\ IsFiniteSet(T) /\ Cardinality(T) \in Nat
             /\ \A x \in T : Cardinality(T \ {x}) = Cardinality(T) - 1
    <2>1. IsFiniteSet(1..m)
        BY FS_Interval
    <2>2. IsFiniteSet(T)
        BY <2>1, FS_Subset
    <2>3. QED
        BY <2>2, FS_CardinalityType, FS_RemoveElement
<1>3. value({}) = 0
    <2>1. Cardinality({}) = 0
        BY FS_EmptySet
    <2>2. QED
        BY <2>1
<1>4. ASSUME NEW T \in SUBSET (1..m), NEW x \in T
      PROVE  value(T) = s[x] + value(T \ {x})
    <2>1. /\ Cardinality(T) \in Nat
          /\ P * Cardinality(T \ {x}) = P * Cardinality(T) - P
          /\ P * Cardinality(T) \in Int
        BY <1>2, Multiples
    <2>2. s[x] = IF x = m THEN last ELSE P
        BY DEF AllButLast
    <2>3. CASE x = m
        <3>1. m \in T /\ m \notin T \ {x}
            BY <2>3
        <3>2. QED
            BY <2>1, <2>2, <2>3, <3>1
    <2>4. CASE x # m
        <3>1. m \in T <=> m \in T \ {x}
            BY <2>4
        <3> DEFINE c == P * Cardinality(T)
                   d == P * Cardinality(T \ {x})
                   e == IF m \in T THEN last - P ELSE 0
        <3>2. e \in Int /\ c \in Int /\ d = c - P
            BY <2>1
        <3>3. value(T) = c + e /\ value(T \ {x}) = d + e
            BY <3>1
        <3> HIDE DEF c, d, e, value
        <3>4. QED
            BY <2>2, <2>4, <3>2, <3>3
    <2>5. QED
        BY <2>3, <2>4
<1>5. sums = Step1(sums)
    <2>1. ASSUME NEW T \in SUBSET (1..m), T # {}
          PROVE  LET x == CHOOSE x \in T : TRUE IN value(T) = s[x] + value(T \ {x})
        <3> HIDE DEF value
        <3> DEFINE x == CHOOSE x \in T : TRUE
        <3>1. x \in T
            BY <2>1
        <3> HIDE DEF x
        <3>2. value(T) = s[x] + value(T \ {x})
            BY <1>4, <3>1
        <3>3. QED
            BY <3>2 DEF x
    <2>2. ASSUME NEW T \in SUBSET (1..m)
          PROVE  value(T) = IF T = {} THEN 0
                            ELSE LET x == CHOOSE x \in T : TRUE
                                 IN  s[x] + sums[T \ {x}]
        <3> HIDE DEF value
        <3>1. \A x : sums[T \ {x}] = value(T \ {x})
            OBVIOUS
        <3>2. QED
            BY <1>3, <2>1, <3>1
    <2> HIDE DEF value
    <2>3. QED
        BY <2>2
<1>6. iter = Step1(iter)
    <2> HIDE DEF sums
    <2>1. \E f : f = Step1(f)
        BY <1>5, Zenon
    <2>2. QED
        BY <2>1, Zenon
<1>7. ASSUME NEW T \in SUBSET (1..m)
      PROVE  iter[T] = value(T)
    <2> HIDE DEF iter, value
    <2> DEFINE Wrong == {U \in SUBSET (1..m) : iter[U] # value(U)}
               Sizes == {Cardinality(U) : U \in Wrong}
    <2> SUFFICES ASSUME Wrong # {} PROVE FALSE
        OBVIOUS
    <2>1. Sizes \in SUBSET Nat /\ Sizes # {}
        BY <1>2
    <2>2. Min(Sizes) \in Sizes /\ \A c \in Sizes : Min(Sizes) <= c
        <3> HIDE DEF Sizes
        <3> QED
            BY <2>1, MinOfNaturals
    <2>3. PICK U \in Wrong : \A V \in Wrong : Cardinality(U) <= Cardinality(V)
        BY <2>2
    <2>4. U # {}
        BY <1>3, <1>6
    <2> DEFINE x == CHOOSE x \in U : TRUE
    <2>5. x \in U
        BY <2>4
    <2>6. iter[U] = s[x] + iter[U \ {x}]
        BY <1>6, <2>4
    <2> HIDE DEF x
    <2>7. value(U) = s[x] + value(U \ {x})
        BY <1>4, <2>5
    <2>8. Cardinality(U \ {x}) < Cardinality(U)
        BY <1>2, <2>5
    <2>9. U \ {x} \notin Wrong
        <3> HIDE DEF Wrong
        <3>1. Cardinality(U) \in Nat /\ Cardinality(U \ {x}) \in Nat
            BY <1>2 DEF Wrong
        <3>2. QED
            BY <2>3, <2>8, <3>1
    <2>10. QED
        BY <2>6, <2>7, <2>9
<1>8. value(1..m) = P * (m - 1) + last
    <2>1. Cardinality(1..m) = m /\ m \in 1..m
        BY FS_Interval
    <2>2. P * m \in Int /\ P * (m - 1) = P * m - P
        BY Multiples
    <2>3. QED
        BY <2>1, <2>2
<1>9. QED
    BY <1>1, <1>7, <1>8
=============================================================================
