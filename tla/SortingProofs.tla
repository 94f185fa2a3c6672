--------------------------- MODULE SortingProofs ---------------------------
(***************************************************************************)
(* A sorted list has the elements of the list it was made of, each once,   *)
(* by their keys.                                                          *)
(***************************************************************************)
EXTENDS Sorting, SequenceTheorems, TLAPS

F == INSTANCE FoldProofs WITH Op <- Inserted

Ordered(list) == \A i, j \in DOMAIN list : i < j => Key(list[i]) <= Key(list[j])

\* A new element finds a place between those that are not greater and those
\* that are not less.
LEMMA PlaceIs ==
  ASSUME NEW S, \A x \in S : Key(x) \in Int,
         NEW list \in Seq(S), Ordered(list), NEW x \in S
  PROVE  /\ Place(list, x) \in 1 .. (Len(list) + 1)
         /\ \A k \in DOMAIN list : k < Place(list, x) => Key(list[k]) <= Key(x)
         /\ \A k \in DOMAIN list : k >= Place(list, x) => Key(x) <= Key(list[k])
<1>. DEFINE places == {Len(list) + 1} \cup {k \in DOMAIN list : Key(x) < Key(list[k])}
            p == Place(list, x)
<1>1. places \subseteq Nat /\ places # {}
  OBVIOUS
<1>2. p \in places /\ \A k \in places : p <= k
  <2>. HIDE DEF places
  <2>1. \E q \in places : \A k \in places : q <= k
    BY <1>1, F!Least
  <2>2. p = CHOOSE q \in places : \A k \in places : q <= k
    BY DEF Place, Min, places
  <2>. QED
    BY <2>1, <2>2
<1>3. ASSUME NEW k \in DOMAIN list, k < p PROVE Key(list[k]) <= Key(x)
  <2>1. k \notin places
    BY <1>2, <1>3
  <2>2. list[k] \in S /\ Key(list[k]) \in Int /\ Key(x) \in Int
    OBVIOUS
  <2>. QED
    BY <2>1, <2>2
<1>4. ASSUME NEW k \in DOMAIN list, k >= p PROVE Key(x) <= Key(list[k])
  <2>1. p # Len(list) + 1
    BY <1>2, <1>4
  <2>2. p \in DOMAIN list /\ Key(x) < Key(list[p])
    BY <1>2, <2>1
  <2>3. Key(list[p]) <= Key(list[k])
    BY <1>4, <2>2 DEF Ordered
  <2>. QED
    BY <2>2, <2>3
<1>5. p \in 1 .. (Len(list) + 1)
  BY <1>2
<1>. QED
  BY <1>3, <1>4, <1>5

\* What InsertAt returns, place by place.
LEMMA InsertIs ==
  ASSUME NEW S, NEW list \in Seq(S), NEW x \in S, NEW p \in 1 .. (Len(list) + 1)
  PROVE  /\ InsertAt(list, p, x) \in Seq(S)
         /\ Len(InsertAt(list, p, x)) = Len(list) + 1
         /\ \A k \in 1 .. (Len(list) + 1) :
              /\ k < p => InsertAt(list, p, x)[k] = list[k]
              /\ k = p => InsertAt(list, p, x)[k] = x
              /\ k > p => InsertAt(list, p, x)[k] = list[k - 1]
<1>. DEFINE N == Len(list)
            left == SubSeq(list, 1, p - 1)
            right == SubSeq(list, p, Len(list))
            both == left \o <<x>>
<1>1. N \in Nat /\ p \in 1 .. (N + 1)
  OBVIOUS
<1>2. /\ left \in Seq(S) /\ Len(left) = p - 1
      /\ \A k \in 1 .. (p - 1) : left[k] = list[k]
  BY <1>1
<1>3. /\ right \in Seq(S) /\ Len(right) = N - p + 1
      /\ \A k \in 1 .. (N - p + 1) : right[k] = list[p + k - 1]
  BY <1>1
<1>. HIDE DEF N, left, right
<1>4. /\ both \in Seq(S) /\ Len(both) = p
      /\ \A k \in 1 .. (p - 1) : both[k] = list[k]
      /\ both[p] = x
  <2>1. <<x>> \in Seq(S) /\ Len(<<x>>) = 1 /\ <<x>>[1] = x
    OBVIOUS
  <2>. QED
    BY <1>1, <1>2, <2>1
<1>. HIDE DEF both
<1>. DEFINE all == both \o right
<1>5. /\ all \in Seq(S) /\ Len(all) = N + 1
      /\ \A k \in 1 .. p : all[k] = both[k]
      /\ \A k \in (p + 1) .. (N + 1) : all[k] = right[k - p]
  <2>1. /\ all \in Seq(S) /\ Len(all) = Len(both) + Len(right)
        /\ \A k \in 1 .. Len(both) : all[k] = both[k]
        /\ \A k \in (Len(both) + 1) .. (Len(both) + Len(right)) : all[k] = right[k - Len(both)]
    <3>1. both \in Seq(S) /\ right \in Seq(S) /\ Len(both) \in Nat /\ Len(right) \in Nat
      BY <1>3, <1>4
    <3>2. /\ all \in Seq(S) /\ Len(all) = Len(both) + Len(right)
          /\ \A k \in 1 .. Len(both) + Len(right) : all[k] =
               IF k <= Len(both) THEN both[k] ELSE right[k - Len(both)]
      BY <3>1, ConcatProperties
    <3>. HIDE DEF all
    <3>3. ASSUME NEW k \in 1 .. Len(both) PROVE all[k] = both[k]
      <4>1. k \in 1 .. Len(both) + Len(right) /\ k <= Len(both)
        BY <3>1
      <4>. QED
        BY Zenon, <3>2, <4>1
    <3>4. ASSUME NEW k \in (Len(both) + 1) .. (Len(both) + Len(right))
          PROVE  all[k] = right[k - Len(both)]
      <4>1. k \in 1 .. Len(both) + Len(right) /\ ~(k <= Len(both))
        BY <3>1
      <4>. QED
        BY Zenon, <3>2, <4>1
    <3>. QED
      BY Zenon, <3>2, <3>3, <3>4
  <2>. HIDE DEF all
  <2>2. Len(both) + Len(right) = N + 1
    BY <1>1, <1>3, <1>4
  <2>. QED
    BY <1>4, <2>1, <2>2
<1>6. InsertAt(list, p, x) = all
  BY DEF InsertAt, left, right, both, N
<1>. HIDE DEF all
<1>7. ASSUME NEW k \in 1 .. (N + 1), k > p PROVE all[k] = list[k - 1]
  <2>1. k - p \in 1 .. (N - p + 1) /\ p + (k - p) - 1 = k - 1 /\ k \in (p + 1) .. (N + 1)
    BY <1>1, <1>7
  <2>. QED
    BY <1>3, <1>5, <2>1
<1>8. \A k \in 1 .. (N + 1) : k < p => all[k] = list[k]
  BY <1>1, <1>4, <1>5
<1>9. all[p] = x
  BY <1>1, <1>4, <1>5
<1>10. \A k \in 1 .. (N + 1) : /\ k < p => all[k] = list[k]
                               /\ k = p => all[k] = x
                               /\ k > p => all[k] = list[k - 1]
  BY <1>7, <1>8, <1>9
<1>11. all \in Seq(S) /\ Len(all) = N + 1
  BY <1>5
<1>. QED
  BY Zenon, <1>6, <1>10, <1>11 DEF N

LEMMA InsertKeepsOrder ==
  ASSUME NEW S, \A x \in S : Key(x) \in Int,
         NEW list \in Seq(S), Ordered(list), IsInjective(list),
         NEW x \in S, x \notin Range(list)
  PROVE  /\ Inserted(list, x) \in Seq(S)
         /\ Len(Inserted(list, x)) = Len(list) + 1
         /\ Ordered(Inserted(list, x))
         /\ IsInjective(Inserted(list, x))
         /\ Range(Inserted(list, x)) = Range(list) \cup {x}
<1>. DEFINE p == Place(list, x)
            new == Inserted(list, x)
            N == Len(list)
<1>1. /\ p \in 1 .. (N + 1)
      /\ \A k \in DOMAIN list : k < p => Key(list[k]) <= Key(x)
      /\ \A k \in DOMAIN list : k >= p => Key(x) <= Key(list[k])
  BY PlaceIs
<1>2. /\ new \in Seq(S) /\ Len(new) = N + 1
      /\ \A k \in 1 .. (N + 1) :
           /\ k < p => new[k] = list[k]
           /\ k = p => new[k] = x
           /\ k > p => new[k] = list[k - 1]
  <2>1. p \in 1 .. (Len(list) + 1)
    BY <1>1
  <2>. HIDE DEF p
  <2>2. /\ InsertAt(list, p, x) \in Seq(S)
        /\ Len(InsertAt(list, p, x)) = Len(list) + 1
        /\ \A k \in 1 .. (Len(list) + 1) :
             /\ k < p => InsertAt(list, p, x)[k] = list[k]
             /\ k = p => InsertAt(list, p, x)[k] = x
             /\ k > p => InsertAt(list, p, x)[k] = list[k - 1]
    BY <2>1, InsertIs
  <2>3. new = InsertAt(list, p, x)
    BY Zenon DEF Inserted, p
  <2>. QED
    BY Zenon, <2>2, <2>3
<1>. HIDE DEF p, new
<1>3. DOMAIN new = 1 .. (N + 1) /\ DOMAIN list = 1 .. N /\ N \in Nat
  BY <1>2
<1>. HIDE DEF N
<1>4. \A k \in 1 .. N : list[k] # x
  BY <1>3 DEF Range
<1>5. \A i, j \in 1 .. N : list[i] = list[j] => i = j
  BY <1>3 DEF IsInjective
<1>6. \A i, j \in 1 .. N : i < j => Key(list[i]) <= Key(list[j])
  BY <1>3 DEF Ordered
<1>7. Key(x) \in Int /\ \A k \in 1 .. N : Key(list[k]) \in Int
  BY <1>3
<1>8. Ordered(new)
  <2>. SUFFICES ASSUME NEW i \in 1 .. (N + 1), NEW j \in 1 .. (N + 1), i < j
                PROVE  Key(new[i]) <= Key(new[j])
    BY <1>3 DEF Ordered
  <2>1. CASE j < p
    <3>1. new[i] = list[i] /\ new[j] = list[j] /\ i \in 1 .. N /\ j \in 1 .. N
      BY <1>1, <1>2, <1>3, <2>1
    <3>. QED
      BY <1>6, <3>1
  <2>2. CASE j = p
    <3>1. new[i] = list[i] /\ new[j] = x /\ i \in 1 .. N /\ i < p
      BY <1>1, <1>2, <1>3, <2>2
    <3>. QED
      BY <1>1, <1>3, <3>1
  <2>3. CASE j > p /\ i < p
    <3>1. new[i] = list[i] /\ new[j] = list[j - 1] /\ i <= j - 1 /\ j - 1 \in 1 .. N
      BY <1>1, <1>2, <1>3, <2>3
    <3>. QED
      BY <1>1, <1>3, <1>6, <1>7, <2>3, <3>1
  <2>4. CASE j > p /\ i = p
    <3>1. new[i] = x /\ new[j] = list[j - 1] /\ j - 1 \in 1 .. N /\ j - 1 >= p
      BY <1>1, <1>2, <1>3, <2>4
    <3>. QED
      BY <1>1, <1>3, <3>1
  <2>5. CASE j > p /\ i > p
    <3>1. new[i] = list[i - 1] /\ new[j] = list[j - 1] /\ i - 1 < j - 1
          /\ i - 1 \in 1 .. N /\ j - 1 \in 1 .. N
      BY <1>1, <1>2, <1>3, <2>5
    <3>. QED
      BY <1>6, <3>1
  <2>. QED
    BY <1>1, <2>1, <2>2, <2>3, <2>4, <2>5
<1>9. IsInjective(new)
  <2>. SUFFICES ASSUME NEW i \in 1 .. (N + 1), NEW j \in 1 .. (N + 1), i < j
                PROVE  new[i] # new[j]
    BY <1>3 DEF IsInjective
  <2>1. CASE j < p
    BY <1>1, <1>2, <1>3, <1>5, <2>1
  <2>2. CASE j = p
    BY <1>1, <1>2, <1>3, <1>4, <2>2
  <2>3. CASE j > p /\ i < p
    <3>1. new[i] = list[i] /\ new[j] = list[j - 1] /\ i # j - 1
          /\ i \in 1 .. N /\ j - 1 \in 1 .. N
      BY <1>1, <1>2, <1>3, <2>3
    <3>. QED
      BY <1>5, <3>1
  <2>4. CASE j > p /\ i = p
    <3>1. new[i] = x /\ new[j] = list[j - 1] /\ j - 1 \in 1 .. N
      BY <1>1, <1>2, <1>3, <2>4
    <3>. QED
      BY <1>4, <3>1
  <2>5. CASE j > p /\ i > p
    <3>1. new[i] = list[i - 1] /\ new[j] = list[j - 1] /\ i - 1 # j - 1
          /\ i - 1 \in 1 .. N /\ j - 1 \in 1 .. N
      BY <1>1, <1>2, <1>3, <2>5
    <3>. QED
      BY <1>5, <3>1
  <2>. QED
    BY <1>1, <2>1, <2>2, <2>3, <2>4, <2>5
<1>10. Range(new) = Range(list) \cup {x}
  <2>1. ASSUME NEW k \in 1 .. (N + 1)
        PROVE  new[k] = x \/ \E l \in 1 .. N : new[k] = list[l]
    <3>1. CASE k < p
      BY <1>1, <1>2, <1>3, <3>1
    <3>2. CASE k = p
      BY <1>1, <1>2, <3>2
    <3>3. CASE k > p
      <4>1. k - 1 \in 1 .. N /\ new[k] = list[k - 1]
        BY <1>1, <1>2, <1>3, <3>3
      <4>. QED
        BY <4>1
    <3>. QED
      BY <1>1, <3>1, <3>2, <3>3
  <2>2. new[p] = x /\ p \in 1 .. (N + 1)
    BY <1>1, <1>2
  <2>3. ASSUME NEW l \in 1 .. N PROVE \E k \in 1 .. (N + 1) : new[k] = list[l]
    <3>1. CASE l < p
      BY <1>1, <1>2, <1>3, <3>1
    <3>2. CASE l >= p
      <4>1. l + 1 \in 1 .. (N + 1) /\ new[l + 1] = list[l]
        BY <1>1, <1>2, <1>3, <3>2
      <4>. QED
        BY <4>1
    <3>. QED
      BY <1>1, <3>1, <3>2
  <2>. QED
    <3>1. Range(list) = {list[l] : l \in 1 .. N} /\ Range(new) = {new[k] : k \in 1 .. (N + 1)}
      BY <1>3 DEF Range
    <3>. HIDE DEF Ordered
    <3>. QED
      BY Zenon, <2>1, <2>2, <2>3, <3>1
<1>. QED
  BY <1>2, <1>8, <1>9, <1>10 DEF new, N

-----------------------------------------------------------------------------
\* A list whose elements are all different has, once it is sorted, the same
\* elements, each once, in the order of their keys (getSymbolTable and
\* getSections sort lists of this kind).
THEOREM SortSorts ==
  ASSUME NEW S, \A x \in S : Key(x) \in Int,
         NEW list \in Seq(S), IsInjective(list)
  PROVE  /\ Sorted(list) \in Seq(S)
         /\ Len(Sorted(list)) = Len(list)
         /\ Ordered(Sorted(list))
         /\ IsInjective(Sorted(list))
         /\ Range(Sorted(list)) = Range(list)
<1>. DEFINE N == Len(list)
            First(n) == {list[i] : i \in 1 .. n}
            After(n) == {v \in Seq(S) : /\ Len(v) = n /\ Ordered(v) /\ IsInjective(v)
                                        /\ Range(v) = First(n)}
            T == [n \in 0 .. N |-> After(n)]
<1>1. <<>> \in T[0]
  BY DEF Ordered, IsInjective, Range
<1>2. ASSUME NEW n \in 1 .. N, NEW v \in T[n - 1] PROVE Inserted(v, list[n]) \in T[n]
  <2>1. /\ v \in Seq(S) /\ Len(v) = n - 1 /\ Ordered(v) /\ IsInjective(v)
        /\ Range(v) = First(n - 1)
    <3>1. n - 1 \in 0 .. N
      OBVIOUS
    <3>2. v \in After(n - 1)
      BY Zenon, <3>1
    <3>. QED
      BY Zenon, <3>2
  <2>2. list[n] \in S /\ list[n] \notin Range(v)
    <3>1. ASSUME NEW i \in 1 .. (n - 1) PROVE list[i] # list[n]
      <4>1. i \in DOMAIN list /\ n \in DOMAIN list /\ i # n
        OBVIOUS
      <4>. QED
        BY Zenon, <4>1 DEF IsInjective
    <3>2. list[n] \in S
      OBVIOUS
    <3>. QED
      BY Zenon, <2>1, <3>1, <3>2
  <2>3. First(n) = First(n - 1) \cup {list[n]}
    OBVIOUS
  <2>. HIDE DEF First
  <2>4. /\ Inserted(v, list[n]) \in Seq(S)
        /\ Len(Inserted(v, list[n])) = n
        /\ Ordered(Inserted(v, list[n]))
        /\ IsInjective(Inserted(v, list[n]))
        /\ Range(Inserted(v, list[n])) = First(n)
    <3>1. Len(v) + 1 = n
      BY <2>1
    <3>. DEFINE e == list[n]
    <3>2. e \in S /\ e \notin Range(v) /\ v \in Seq(S) /\ Ordered(v) /\ IsInjective(v)
      BY <2>1, <2>2
    <3>. HIDE DEF e
    <3>3. /\ Inserted(v, e) \in Seq(S)
          /\ Len(Inserted(v, e)) = Len(v) + 1
          /\ Ordered(Inserted(v, e))
          /\ IsInjective(Inserted(v, e))
          /\ Range(Inserted(v, e)) = Range(v) \cup {e}
      BY Zenon, <3>2, InsertKeepsOrder
    <3>. QED
      BY Zenon, <2>1, <2>3, <3>1, <3>3 DEF e
  <2>. QED
    BY <2>4
<1>3. F!Folded(<<>>, list) \in T[N]
  <2>. HIDE DEF T
  <2>1. Len(list) \in Nat /\ DOMAIN list = 1 .. Len(list)
    OBVIOUS
  <2>2. \A n \in 1 .. Len(list) : \A v \in T[n - 1] : Inserted(v, list[n]) \in T[n]
    BY Zenon, <1>2
  <2>. HIDE DEF N
  <2>3. F!Folded(<<>>, list) \in T[Len(list)]
    BY Zenon, <1>1, <2>1, <2>2, F!FoldSteps
  <2>. QED
    BY Zenon, <2>3 DEF N
<1>4. Sorted(list) = F!Folded(<<>>, list)
  BY Zenon DEF Sorted, F!Folded, FoldLeft, F!FoldLeft, MapThenFoldSet, F!MapThenFoldSet,
               Max, F!Max
<1>5. First(N) = Range(list)
  BY DEF Range
<1>6. T[N] = {v \in Seq(S) : /\ Len(v) = N /\ Ordered(v) /\ IsInjective(v)
                            /\ Range(v) = First(N)}
  <2>1. N \in 0 .. N
    OBVIOUS
  <2>. QED
    BY Zenon, <2>1
<1>. HIDE DEF T, First, N
<1>7. Sorted(list) \in {v \in Seq(S) : /\ Len(v) = N /\ Ordered(v) /\ IsInjective(v)
                                       /\ Range(v) = First(N)}
  BY <1>3, <1>4, <1>6
<1>. QED
  BY Zenon, <1>5, <1>7 DEF N
=============================================================================
