----------------------------- MODULE FoldProofs -----------------------------
(***************************************************************************)
(* FoldLeft goes through a list from the left: its value is reached in     *)
(* Len(list) steps of Op.  Op is a parameter of this module, so that what  *)
(* is proved here can be used for every operator a module folds with.      *)
(***************************************************************************)
EXTENDS Integers, SequencesExt, WellFoundedInduction, TLAPS

CONSTANT Op(_, _)

Folded(start, list) == FoldLeft(Op, start, list)

\* A set of natural numbers that is not empty has a least element.
LEMMA Least ==
  ASSUME NEW T, T \subseteq Nat, T # {}
  PROVE  \E x \in T : \A y \in T : x <= y
<1>. DEFINE R == {ss \in Nat \X Nat : ss[1] < ss[2]}
<1>1. IsWellFoundedOn(R, Nat)
  BY NatLessThanWellFounded DEF OpToRel
<1>2. PICK x \in T : \A y \in T : ~ (<<y, x>> \in R)
  <2>. HIDE DEF R
  <2>. QED
    BY <1>1, WFMin
<1>3. ASSUME NEW y \in T PROVE x <= y
  <2>1. x \in Nat /\ y \in Nat /\ ~(<<y, x>> \in R)
    BY <1>2
  <2>. QED
    BY <2>1
<1>. QED
  BY <1>3

\* A set that has 0, and with every number the next, has them all.
LEMMA Induction ==
  ASSUME NEW T, 0 \in T, \A n \in Nat : n \in T => n + 1 \in T
  PROVE  Nat \subseteq T
<1>. DEFINE R == Nat \ T
<1>1. SUFFICES ASSUME R # {} PROVE FALSE
  OBVIOUS
<1>2. PICK x \in R : \A y \in R : x <= y
  BY <1>1, Least
<1>3. x # 0 /\ x - 1 \in Nat /\ ~ (x <= x - 1)
  BY <1>2
<1>4. x - 1 \in T
  BY <1>2, <1>3
<1>5. x - 1 + 1 \in T
  BY <1>3, <1>4
<1>. QED
  BY <1>2, <1>5

-----------------------------------------------------------------------------
(* The recursive function in FoldLeft exists.                              *)

\* What FoldLeft defines: the value for each set of places of the list.
Iterates(it, start, list, n) ==
  it = [s \in SUBSET (1 .. n) |->
          IF s = {} THEN start
          ELSE Op(it[s \ {Max(s)}], list[Max(s)])]

LEMMA MaxIs ==
  ASSUME NEW n \in Nat, NEW s \in SUBSET (1 .. n), n \in s
  PROVE  Max(s) = n
<1>1. \A y \in s : n >= y
  OBVIOUS
<1>2. \A x \in s : (\A y \in s : x >= y) => x = n
  OBVIOUS
<1>3. Max(s) \in s /\ \A y \in s : Max(s) >= y
  BY <1>1 DEF Max
<1>. QED
  BY <1>2, <1>3

LEMMA IterationExists ==
  ASSUME NEW start, NEW list, NEW n \in Nat
  PROVE  \E it : Iterates(it, start, list, n)
<1>. DEFINE T == {m \in Nat : \E it : Iterates(it, start, list, m)}
<1>1. 0 \in T
  <2>. DEFINE it == [s \in SUBSET (1 .. 0) |-> start]
  <2>1. \A s \in SUBSET (1 .. 0) : s = {}
    OBVIOUS
  <2>2. it = [s \in SUBSET (1 .. 0) |->
                IF s = {} THEN start
                ELSE Op(it[s \ {Max(s)}], list[Max(s)])]
    BY <2>1
  <2>. QED
    BY <2>2 DEF Iterates
<1>2. ASSUME NEW m \in Nat, m \in T PROVE m + 1 \in T
  <2>1. PICK it : Iterates(it, start, list, m)
    BY <1>2
  <2>. DEFINE new == [s \in SUBSET (1 .. (m + 1)) |->
                        IF m + 1 \in s THEN Op(it[s \ {m + 1}], list[m + 1]) ELSE it[s]]
              Body(f, s) == IF s = {} THEN start ELSE Op(f[s \ {Max(s)}], list[Max(s)])
  <2>2. ASSUME NEW s \in SUBSET (1 .. (m + 1)) PROVE new[s] = Body(new, s)
    <3>1. CASE m + 1 \in s
      <4>1. Max(s) = m + 1 /\ s # {}
        BY <3>1, MaxIs
      <4>2. s \ {m + 1} \in SUBSET (1 .. (m + 1)) /\ m + 1 \notin s \ {m + 1}
        OBVIOUS
      <4>3. new[s \ {m + 1}] = it[s \ {m + 1}]
        BY <4>2
      <4>. QED
        BY <3>1, <4>1, <4>3
    <3>2. CASE m + 1 \notin s
      <4>1. s \in SUBSET (1 .. m)
        BY <3>2
      <4>2. it[s] = Body(it, s)
        BY <2>1, <4>1 DEF Iterates
      <4>3. ASSUME s # {} PROVE new[s \ {Max(s)}] = it[s \ {Max(s)}]
        <5>1. s \ {Max(s)} \in SUBSET (1 .. (m + 1)) /\ m + 1 \notin s \ {Max(s)}
          BY <3>2
        <5>. QED
          BY <5>1
      <4>. QED
        BY <3>2, <4>2, <4>3
    <3>. QED
      BY <3>1, <3>2
  <2>3. new = [s \in SUBSET (1 .. (m + 1)) |-> Body(new, s)]
    BY <2>2
  <2>4. Iterates(new, start, list, m + 1)
    BY <2>3 DEF Iterates
  <2>. QED
    BY <2>4
<1>3. Nat \subseteq T
  <2>. HIDE DEF T
  <2>. QED
    BY <1>1, <1>2, Induction
<1>. QED
  BY <1>3

-----------------------------------------------------------------------------
\* A row of values: the start, and after each element what Op makes of it and
\* the value before.
Runs(run, start, list) ==
  run[0] = start /\ \A n \in 1 .. Len(list) : run[n] = Op(run[n - 1], list[n])

\* The value of the fold is the last of a row.
LEMMA FoldRuns ==
  ASSUME NEW start, NEW list, Len(list) \in Nat, DOMAIN list = 1 .. Len(list)
  PROVE  \E run : Runs(run, start, list) /\ Folded(start, list) = run[Len(list)]
<1>. DEFINE N == Len(list)
            Choice == CHOOSE it : Iterates(it, start, list, N)
            run == [n \in 0 .. N |-> Choice[1 .. n]]
<1>1. Iterates(Choice, start, list, N)
  BY IterationExists
<1>2. Folded(start, list) = Choice[1 .. N]
  BY Zenon DEF Folded, FoldLeft, MapThenFoldSet, Iterates
<1>. HIDE DEF Choice
<1>3. run[0] = start
  <2>1. Choice[{}] = start
    BY <1>1 DEF Iterates
  <2>2. 1 .. 0 = {}
    OBVIOUS
  <2>. QED
    BY <2>1, <2>2
<1>4. ASSUME NEW n \in 1 .. N PROVE run[n] = Op(run[n - 1], list[n])
  <2>1. Max(1 .. n) = n
    <3>1. 1 .. n \in SUBSET (1 .. n) /\ n \in 1 .. n
      OBVIOUS
    <3>. QED
      BY <3>1, MaxIs
  <2>2. (1 .. n) \ {n} = 1 .. (n - 1) /\ 1 .. n # {}
    <3>1. n \in Nat /\ n >= 1 /\ n - 1 \in Nat
      OBVIOUS
    <3>2. \A y \in Int : (y <= n /\ y # n) <=> y <= n - 1
      BY <3>1
    <3>3. (1 .. n) \ {n} \subseteq 1 .. (n - 1)
      BY <3>1, <3>2
    <3>4. 1 .. (n - 1) \subseteq (1 .. n) \ {n}
      BY <3>1, <3>2
    <3>5. (1 .. n) \ {n} = 1 .. (n - 1)
      BY Zenon, <3>3, <3>4
    <3>6. n \in 1 .. n
      BY <3>1
    <3>. QED
      BY <3>5, <3>6
  <2>3. Choice[1 .. n] = Op(Choice[1 .. (n - 1)], list[n])
    <3>1. 1 .. n \in SUBSET (1 .. N)
      OBVIOUS
    <3>2. Choice[1 .. n] = Op(Choice[(1 .. n) \ {Max(1 .. n)}], list[Max(1 .. n)])
      BY <1>1, <2>2, <3>1 DEF Iterates
    <3>. QED
      BY <2>1, <2>2, <3>2
  <2>4. n \in 0 .. N /\ n - 1 \in 0 .. N
    OBVIOUS
  <2>. QED
    BY <2>3, <2>4
<1>5. run[N] = Choice[1 .. N]
  OBVIOUS
<1>6. Runs(run, start, list)
  BY <1>3, <1>4 DEF Runs
<1>. QED
  BY <1>2, <1>5, <1>6

\* What holds of the start, and is kept by Op from each element of a list to
\* the next, holds of the value of the fold.  T[n] is the set of the values
\* that are possible after n elements.
THEOREM FoldSteps ==
  ASSUME NEW start, NEW list, Len(list) \in Nat, DOMAIN list = 1 .. Len(list),
         NEW T, start \in T[0],
         \A n \in 1 .. Len(list) : \A v \in T[n - 1] : Op(v, list[n]) \in T[n]
  PROVE  Folded(start, list) \in T[Len(list)]
<1>. DEFINE N == Len(list)
<1>1. PICK run : Runs(run, start, list) /\ Folded(start, list) = run[N]
  BY FoldRuns
<1>. DEFINE Good == {n \in Nat : n <= N => run[n] \in T[n]}
<1>2. 0 \in Good
  BY <1>1 DEF Runs
<1>3. ASSUME NEW n \in Nat, n \in Good PROVE n + 1 \in Good
  <2>. SUFFICES ASSUME n + 1 <= N PROVE run[n + 1] \in T[n + 1]
    OBVIOUS
  <2>1. n + 1 \in 1 .. N /\ n + 1 - 1 = n /\ run[n] \in T[n]
    BY <1>3
  <2>2. run[n + 1] = Op(run[n], list[n + 1])
    BY <1>1, <2>1 DEF Runs
  <2>3. Op(run[n], list[n + 1]) \in T[n + 1]
    BY <2>1
  <2>. QED
    BY <2>2, <2>3
<1>4. Nat \subseteq Good
  <2>. HIDE DEF Good
  <2>. QED
    BY <1>2, <1>3, Induction
<1>. QED
  BY <1>1, <1>4
=============================================================================
