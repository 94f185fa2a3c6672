------------------------ MODULE ExecutableFileProofs ------------------------
(***************************************************************************)
(* Whatever was asked before and wherever a file was moved: who owns its   *)
(* descriptor, what the buffers of the objects hold, and that an owner     *)
(* answers what OpenedFile promises.                                       *)
(***************************************************************************)
EXTENDS ExecutableFile, SequenceTheorems, TLAPS

\* The folds and sorts of getSymbolTable and getSections.
AddSymbols  == INSTANCE FoldProofs WITH Op <- AddSymbol
AddSections == INSTANCE FoldProofs WITH Op <- AddSection
Rise        == INSTANCE SortingProofs WITH Key <- Addr
Fall        == INSTANCE SortingProofs WITH Key <- Depth

-----------------------------------------------------------------------------
(* Lists.                                                                  *)

LEMMA AppendIs ==
  ASSUME NEW S, NEW list \in Seq(S), NEW e \in S
  PROVE  /\ Append(list, e) \in Seq(S)
         /\ Range(Append(list, e)) = Range(list) \cup {e}
         /\ IsInjective(list) /\ e \notin Range(list) => IsInjective(Append(list, e))
<1>. DEFINE N == Len(list)
            new == Append(list, e)
<1>1. /\ new \in Seq(S) /\ Len(new) = N + 1 /\ new[N + 1] = e
      /\ \A k \in 1 .. N : new[k] = list[k]
  OBVIOUS
<1>2. DOMAIN new = 1 .. (N + 1) /\ DOMAIN list = 1 .. N /\ N \in Nat
  BY <1>1
<1>. HIDE DEF N, new
<1>3. Range(new) = Range(list) \cup {e}
  BY <1>1, <1>2 DEF Range
<1>4. ASSUME IsInjective(list), e \notin Range(list) PROVE IsInjective(new)
  BY <1>1, <1>2, <1>4 DEF IsInjective, Range
<1>. QED
  BY <1>1, <1>3, <1>4 DEF new

LEMMA ContainsIs ==
  ASSUME NEW S, NEW list \in Seq(S), NEW e
  PROVE  Contains(list, e) <=> e \in Range(list)
  BY DEF Contains, Range

\* The pairs Max is used for.
LEMMA MaxOfTwo ==
  ASSUME NEW a \in Int, NEW b \in Int
  PROVE  Max({a, b}) \in {a, b} /\ Max({a, b}) >= a /\ Max({a, b}) >= b
<1>1. \E x \in {a, b} : \A y \in {a, b} : x >= y
  <2>1. CASE a >= b
    BY <2>1
  <2>2. CASE b >= a
    BY <2>2
  <2>. QED
    BY <2>1, <2>2
<1>. QED
  BY <1>1 DEF Max

\* Two lists that have nothing in common, one after the other.
LEMMA ConcatIs ==
  ASSUME NEW S, NEW s \in Seq(S), NEW t \in Seq(S)
  PROVE  /\ s \o t \in Seq(S)
         /\ Range(s \o t) = Range(s) \cup Range(t)
         /\ IsInjective(s) /\ IsInjective(t) /\ Range(s) \cap Range(t) = {}
              => IsInjective(s \o t)
<1>. DEFINE M == Len(s)
            N == Len(t)
            all == s \o t
<1>1. M \in Nat /\ N \in Nat /\ DOMAIN s = 1 .. M /\ DOMAIN t = 1 .. N
  OBVIOUS
<1>2. /\ all \in Seq(S) /\ Len(all) = M + N
      /\ \A i \in 1 .. M + N : all[i] = IF i <= M THEN s[i] ELSE t[i - M]
  BY ConcatProperties
<1>3. DOMAIN all = 1 .. (M + N)
  BY <1>1, <1>2
<1>. HIDE DEF M, N, all
<1>4. \A i \in 1 .. (M + N) : i <= M => i \in 1 .. M /\ all[i] = s[i]
  BY <1>1, <1>2
<1>5. \A i \in 1 .. (M + N) : i > M => i - M \in 1 .. N /\ all[i] = t[i - M]
  BY <1>1, <1>2
<1>6. Range(all) = Range(s) \cup Range(t)
  <2>1. ASSUME NEW i \in 1 .. (M + N) PROVE all[i] \in Range(s) \cup Range(t)
    <3>1. CASE i <= M
      BY <1>1, <1>4, <3>1 DEF Range
    <3>2. CASE i > M
      BY <1>1, <1>5, <3>2 DEF Range
    <3>. QED
      BY <1>1, <3>1, <3>2
  <2>2. ASSUME NEW i \in 1 .. M PROVE s[i] \in Range(all)
    <3>1. i \in 1 .. (M + N) /\ all[i] = s[i]
      BY <1>1, <1>4
    <3>. QED
      BY <1>3, <3>1 DEF Range
  <2>3. ASSUME NEW i \in 1 .. N PROVE t[i] \in Range(all)
    <3>1. i + M \in 1 .. (M + N) /\ i + M > M /\ i + M - M = i
      BY <1>1
    <3>2. all[i + M] = t[i]
      <4>. DEFINE j == i + M
      <4>1. j \in 1 .. (M + N) /\ j > M /\ j - M = i
        BY <1>1, <3>1
      <4>. HIDE DEF j
      <4>2. all[j] = t[j - M]
        BY <1>5, <4>1
      <4>. QED
        BY <4>1, <4>2 DEF j
    <3>. QED
      BY <1>3, <3>1, <3>2 DEF Range
  <2>. QED
    BY <1>1, <1>3, <2>1, <2>2, <2>3 DEF Range
<1>7. ASSUME IsInjective(s), IsInjective(t), Range(s) \cap Range(t) = {}
      PROVE  IsInjective(all)
  <2>1. ASSUME NEW i \in 1 .. (M + N), NEW j \in 1 .. (M + N), i < j PROVE all[i] # all[j]
    <3>1. CASE j <= M
      BY <1>1, <1>4, <1>7, <2>1, <3>1 DEF IsInjective
    <3>2. CASE i > M
      <4>1. i - M # j - M /\ i - M \in 1 .. N /\ j - M \in 1 .. N
            /\ all[i] = t[i - M] /\ all[j] = t[j - M]
        BY <1>1, <1>5, <2>1, <3>2
      <4>. QED
        BY <1>1, <1>7, <4>1 DEF IsInjective
    <3>3. CASE i <= M /\ j > M
      <4>1. all[i] \in Range(s) /\ all[j] \in Range(t)
        BY <1>1, <1>4, <1>5, <3>3 DEF Range
      <4>. QED
        BY <1>7, <4>1
    <3>. QED
      BY <1>1, <2>1, <3>1, <3>2, <3>3
  <2>. QED
    BY <1>1, <1>3, <2>1 DEF IsInjective
<1>. QED
  BY Zenon, <1>2, <1>6, <1>7 DEF all

\* A Section is in the buffer once, wherever it came from.
LEMMA AddSectionIs ==
  ASSUME NEW buffer \in Seq(SectionRecord), IsInjective(buffer), NEW s \in SectionRecord
  PROVE  /\ AddSection(buffer, s) \in Seq(SectionRecord)
         /\ IsInjective(AddSection(buffer, s))
         /\ Range(AddSection(buffer, s)) = Range(buffer) \cup {s}
         /\ s \in Range(buffer) => AddSection(buffer, s) = buffer
<1>1. CASE s \in Range(buffer)
  <2>1. AddSection(buffer, s) = buffer
    BY <1>1, ContainsIs DEF AddSection
  <2>. QED
    BY <1>1, <2>1
<1>2. CASE s \notin Range(buffer)
  <2>1. AddSection(buffer, s) = Append(buffer, s)
    BY <1>2, ContainsIs DEF AddSection
  <2>. QED
    BY <1>2, <2>1, AppendIs
<1>. QED
  BY <1>1, <1>2

\* What getSections gathers before it sorts.
LEMMA Gathered ==
  ASSUME NEW start \in Seq(SectionRecord), IsInjective(start),
         NEW list \in Seq(SectionRecord)
  PROVE  LET all == FoldLeft(AddSection, start, list)
         IN  /\ all \in Seq(SectionRecord)
             /\ IsInjective(all)
             /\ Range(all) = Range(start) \cup Range(list)
             /\ Range(list) \subseteq Range(start) => all = start
<1>. DEFINE N == Len(list)
            First(n) == {list[i] : i \in 1 .. n}
            After(n) == {v \in Seq(SectionRecord) :
                           /\ IsInjective(v)
                           /\ Range(v) = Range(start) \cup First(n)
                           /\ First(n) \subseteq Range(start) => v = start}
            T == [n \in 0 .. N |-> After(n)]
<1>1. start \in T[0]
  OBVIOUS
<1>2. ASSUME NEW n \in 1 .. N, NEW v \in T[n - 1] PROVE AddSection(v, list[n]) \in T[n]
  <2>1. /\ v \in Seq(SectionRecord) /\ IsInjective(v)
        /\ Range(v) = Range(start) \cup First(n - 1)
        /\ First(n - 1) \subseteq Range(start) => v = start
    <3>1. n - 1 \in 0 .. N
      OBVIOUS
    <3>2. v \in After(n - 1)
      BY Zenon, <3>1
    <3>. QED
      BY Zenon, <3>2
  <2>2. list[n] \in SectionRecord /\ First(n) = First(n - 1) \cup {list[n]}
    <3>1. First(n) = First(n - 1) \cup {list[n]}
      <4>1. \A i : i \in 1 .. n <=> i \in 1 .. (n - 1) \/ i = n
        OBVIOUS
      <4>. QED
        BY Zenon, <4>1
    <3>2. list[n] \in SectionRecord
      OBVIOUS
    <3>. QED
      BY <3>1, <3>2
  <2>. HIDE DEF First
  <2>3. /\ AddSection(v, list[n]) \in Seq(SectionRecord)
        /\ IsInjective(AddSection(v, list[n]))
        /\ Range(AddSection(v, list[n])) = Range(v) \cup {list[n]}
        /\ list[n] \in Range(v) => AddSection(v, list[n]) = v
    BY Zenon, <2>1, <2>2, AddSectionIs
  <2>4. AddSection(v, list[n]) \in After(n)
    BY <2>1, <2>2, <2>3
  <2>. QED
    BY <2>4
<1>3. AddSections!Folded(start, list) \in T[N]
  <2>. HIDE DEF T
  <2>1. Len(list) \in Nat /\ DOMAIN list = 1 .. Len(list)
    OBVIOUS
  <2>. QED
    BY <1>1, <1>2, <2>1, AddSections!FoldSteps
<1>4. FoldLeft(AddSection, start, list) = AddSections!Folded(start, list)
  BY Zenon DEF AddSections!Folded, FoldLeft, AddSections!FoldLeft, MapThenFoldSet,
               AddSections!MapThenFoldSet, Max, AddSections!Max
<1>5. First(N) = Range(list)
  BY DEF Range
<1>6. T[N] = After(N)
  OBVIOUS
<1>. HIDE DEF T, First, N
<1>. QED
  BY <1>3, <1>4, <1>5, <1>6

-----------------------------------------------------------------------------
(* What a file has.                                                        *)

\* The asymbol an origin stands for in its file, and the Section it is in.
AsymOf(f, r)  == Asymbols(f, r.kind)[r.i]
HomeOf(f, r)  == Section(r.fd, AsymOf(f, r).sec)

\* An origin is a place in a list of the file g.
From(f, g, r) == r \in Origin /\ r.fd = g /\ r.i \in DOMAIN Asymbols(f, r.kind)

\* A Section of BFD, or one of a file that was opened.
Sited(fs, s) ==
  s \in SectionRecord /\ (s.fd # 0 => s.fd \in DOMAIN fs /\ s.s \in DOMAIN fs[s.fd].secs)

\* One of the lists is read from the first to the last entry.
OriginAt(g, kind, i, t) == [fd |-> g, kind |-> kind, i |-> i, table |-> t]
Entries(g, kind, n, t) == {OriginAt(g, kind, i, t) : i \in 1 .. n}

LEMMA OriginsIs ==
  ASSUME NEW g \in Nat, NEW kind \in Kinds, NEW n \in Nat, NEW t \in Nat
  PROVE  /\ Origins(g, kind, n, t) \in Seq(Origin)
         /\ IsInjective(Origins(g, kind, n, t))
         /\ Range(Origins(g, kind, n, t)) = Entries(g, kind, n, t)
<1>. DEFINE all == Origins(g, kind, n, t)
<1>1. all = [i \in 1 .. n |-> OriginAt(g, kind, i, t)]
  BY DEF Origins, OriginAt
<1>2. \A i \in 1 .. n : OriginAt(g, kind, i, t) \in Origin /\ OriginAt(g, kind, i, t).i = i
  BY DEF Origin, OriginAt
<1>. HIDE DEF all
<1>3. all \in Seq(Origin)
  BY <1>1, <1>2
<1>4. DOMAIN all = 1 .. n /\ \A i \in 1 .. n : all[i] = OriginAt(g, kind, i, t)
  BY <1>1
<1>5. IsInjective(all)
  BY <1>2, <1>4 DEF IsInjective
<1>6. Range(all) = Entries(g, kind, n, t)
  BY <1>4 DEF Range, Entries
<1>. QED
  BY <1>3, <1>5, <1>6 DEF all

\* The number of entries BFD reads is not more than there are.
LEMMA ReadIs ==
  ASSUME NEW f, IsFile(f)
  PROVE  /\ Read(f.normal.slots, f.normal.count) \in 0 .. Len(f.normal.syms)
         /\ Read(DynamicSlots(f), f.dynamic.count) \in 0 .. Len(f.dynamic.syms)
         /\ Len(f.synthetic) \in Nat
<1>1. f.normal \in Table /\ f.dynamic \in Table /\ Len(f.synthetic) \in Nat
  BY DEF IsFile
<1>2. \A x \in {f.normal, f.dynamic} : x.slots > 0 => x.count \in {-1, Len(x.syms)}
  BY DEF IsFile
<1>3. f.dynamic.slots \in Int /\ f.normal.slots \in Int
      /\ Len(f.normal.syms) \in Nat /\ Len(f.dynamic.syms) \in Nat
  BY <1>1 DEF Table
<1>4. DynamicSlots(f) \in {f.dynamic.slots, 0} /\ DynamicSlots(f) >= 0
  <2>1. f.dynamic.slots \in Int /\ 0 \in Int
    BY <1>3
  <2>. QED
    BY Zenon, <2>1, MaxOfTwo DEF DynamicSlots
<1>5. ASSUME NEW slots \in Int, NEW count, NEW n \in Nat, slots > 0 => count \in {-1, n}
      PROVE  Read(slots, count) \in 0 .. n
  BY <1>5 DEF Read
<1>6. Read(f.normal.slots, f.normal.count) \in 0 .. Len(f.normal.syms)
  BY <1>2, <1>3, <1>5
<1>7. Read(DynamicSlots(f), f.dynamic.count) \in 0 .. Len(f.dynamic.syms)
  BY <1>2, <1>3, <1>4, <1>5
<1>. QED
  BY <1>1, <1>6, <1>7

\* The symbols that are fetched: every entry that is read, once, and the same
\* ones whichever table the synthetic symbols are copied to.
LEMMA FetchedIs ==
  ASSUME NEW f, IsFile(f), NEW g \in Nat, NEW t \in Nat
  PROVE  /\ Fetched(f, g, t) \in Seq(Origin)
         /\ IsInjective(Fetched(f, g, t))
         /\ \A r \in Range(Fetched(f, g, t)) : From(f, g, r)
         /\ {Place(r) : r \in Range(Fetched(f, g, t))}
              = {Place(r) : r \in Range(Fetched(f, g, 0))}
<1>. DEFINE n1 == Read(f.normal.slots, f.normal.count)
            n2 == Read(DynamicSlots(f), f.dynamic.count)
            n3 == Len(f.synthetic)
            Normal == Origins(g, "normal", n1, 0)
            Dynamic == Origins(g, "dynamic", n2, 0)
            Synthetic(u) == Origins(g, "synthetic", n3, u)
            All(u) == Entries(g, "normal", n1, 0)
                        \cup Entries(g, "dynamic", n2, 0)
                        \cup Entries(g, "synthetic", n3, u)
<1>1. n1 \in 0 .. Len(f.normal.syms) /\ n2 \in 0 .. Len(f.dynamic.syms) /\ n3 \in Nat
  BY ReadIs
<1>2. /\ f.normal.syms \in Seq(Asymbol) /\ f.dynamic.syms \in Seq(Asymbol)
      /\ f.synthetic \in Seq(Asymbol)
  BY DEF IsFile, Table
<1>3. n1 \in Nat /\ n2 \in Nat
  BY <1>1, <1>2
<1>4. ASSUME NEW u \in Nat
      PROVE  /\ Fetched(f, g, u) \in Seq(Origin)
             /\ IsInjective(Fetched(f, g, u))
             /\ Range(Fetched(f, g, u)) = All(u)
  <2>. HIDE DEF n1, n2, n3
  <2>. /\ "normal" \in Kinds /\ "dynamic" \in Kinds /\ "synthetic" \in Kinds
       /\ 0 \in Nat
    BY DEF Kinds
  <2>1. /\ Normal \in Seq(Origin) /\ IsInjective(Normal)
        /\ Range(Normal) = Entries(g, "normal", n1, 0)
    BY <1>3, OriginsIs
  <2>2. /\ Dynamic \in Seq(Origin) /\ IsInjective(Dynamic)
        /\ Range(Dynamic) = Entries(g, "dynamic", n2, 0)
    BY <1>3, OriginsIs
  <2>3. /\ Synthetic(u) \in Seq(Origin) /\ IsInjective(Synthetic(u))
        /\ Range(Synthetic(u)) = Entries(g, "synthetic", n3, u)
    BY ZenonT(30), <1>1, OriginsIs
  <2>4. Fetched(f, g, u) = (Normal \o Dynamic) \o Synthetic(u)
    BY DEF Fetched, n1, n2, n3
  <2>. HIDE DEF Normal, Dynamic, Synthetic
  <2>5. Range(Normal) \cap Range(Dynamic) = {}
    BY <2>1, <2>2 DEF OriginAt, Entries
  <2>6. /\ Normal \o Dynamic \in Seq(Origin) /\ IsInjective(Normal \o Dynamic)
        /\ Range(Normal \o Dynamic) = Range(Normal) \cup Range(Dynamic)
    BY <2>1, <2>2, <2>5, ConcatIs
  <2>7. Range(Normal \o Dynamic) \cap Range(Synthetic(u)) = {}
    BY <2>1, <2>2, <2>3, <2>6 DEF OriginAt, Entries
  <2>8. /\ (Normal \o Dynamic) \o Synthetic(u) \in Seq(Origin)
        /\ IsInjective((Normal \o Dynamic) \o Synthetic(u))
        /\ Range((Normal \o Dynamic) \o Synthetic(u))
             = Range(Normal \o Dynamic) \cup Range(Synthetic(u))
    <3>. DEFINE first == Normal \o Dynamic
                last == Synthetic(u)
    <3>1. /\ first \in Seq(Origin) /\ IsInjective(first)
          /\ last \in Seq(Origin) /\ IsInjective(last)
          /\ Range(first) \cap Range(last) = {}
      BY <2>3, <2>6, <2>7
    <3>. HIDE DEF first, last
    <3>2. /\ first \o last \in Seq(Origin) /\ IsInjective(first \o last)
          /\ Range(first \o last) = Range(first) \cup Range(last)
      BY <3>1, ConcatIs
    <3>. QED
      BY Zenon, <3>2 DEF first, last
  <2>. QED
    BY Zenon, <2>1, <2>2, <2>3, <2>4, <2>6, <2>8
<1>5. ASSUME NEW r \in All(t) PROVE From(f, g, r)
  <2>1. CASE r \in Entries(g, "normal", n1, 0)
    BY <1>1, <1>2, <1>3, <2>1 DEF From, Origin, OriginAt, Entries, Asymbols, Kinds
  <2>2. CASE r \in Entries(g, "dynamic", n2, 0)
    BY <1>1, <1>2, <1>3, <2>2 DEF From, Origin, OriginAt, Entries, Asymbols, Kinds
  <2>3. CASE r \in Entries(g, "synthetic", n3, t)
    BY <1>1, <1>2, <1>3, <2>3 DEF From, Origin, OriginAt, Entries, Asymbols, Kinds
  <2>. QED
    BY <2>1, <2>2, <2>3
<1>6. ASSUME NEW u \in Nat, NEW w \in Nat, NEW r \in All(u)
      PROVE  \E q \in All(w) : Place(q) = Place(r)
  <2>1. CASE r \in Entries(g, "synthetic", n3, u)
    <3>1. PICK i \in 1 .. n3 : r = OriginAt(g, "synthetic", i, u)
      BY <2>1 DEF Entries
    <3>2. Place(OriginAt(g, "synthetic", i, w)) = Place(r)
      BY <3>1 DEF Place, OriginAt
    <3>. QED
      BY <3>2 DEF Entries
  <2>. QED
    BY <2>1
<1>. HIDE DEF All
<1>7. 0 \in Nat
  OBVIOUS
<1>8. {Place(r) : r \in All(t)} = {Place(r) : r \in All(0)}
  BY <1>6, <1>7
<1>. QED
  BY Zenon, <1>4, <1>5, <1>7, <1>8

LEMMA AsymIs ==
  ASSUME NEW f, IsFile(f), NEW r \in Origin, r.i \in DOMAIN Asymbols(f, r.kind)
  PROVE  /\ AsymOf(f, r) \in Asymbol
         /\ AsymOf(f, r).sec \in DOMAIN f.secs \cup Shared \cup {Foreign}
<1>. DEFINE list == Asymbols(f, r.kind)
<1>1. list \in {f.normal.syms, f.dynamic.syms, f.synthetic}
  BY DEF Asymbols, Origin, Kinds
<1>2. list \in Seq(Asymbol)
  BY <1>1 DEF IsFile, Table
<1>3. \A i \in DOMAIN list : list[i].sec \in DOMAIN f.secs \cup Shared \cup {Foreign}
  BY <1>1 DEF IsFile
<1>. QED
  BY <1>2, <1>3 DEF AsymOf

\* The sections a file lists: those all files share, and its own.
LEMMA SectionsAre ==
  ASSUME NEW fs, NEW g \in DOMAIN fs, g \in Nat \ {0}, IsFile(fs[g])
  PROVE  /\ FetchedSections(fs[g], g) \in Seq(SectionRecord)
         /\ FetchedSections(fs[g], g) # <<>>
         /\ \A s \in Range(FetchedSections(fs[g], g)) : Sited(fs, s) /\ s.fd \in {0, g}
         /\ \A s \in DOMAIN fs[g].secs \cup Shared :
              Section(g, s) \in Range(FetchedSections(fs[g], g))
<1>. DEFINE f == fs[g]
            first == [i \in 1 .. 4 |-> Section(g, -i)]
            last == [s \in DOMAIN f.secs |-> Section(g, s)]
<1>1. DOMAIN f.secs = 1 .. Len(f.secs) /\ Len(f.secs) \in Nat
  BY DEF IsFile
<1>2. \A i \in 1 .. 4 : Sited(fs, Section(g, -i)) /\ Section(g, -i).fd = 0
  BY DEF Section, Sited, SectionRecord
<1>3. \A s \in DOMAIN f.secs : Sited(fs, Section(g, s)) /\ Section(g, s).fd = g
  BY <1>1 DEF Section, Sited, SectionRecord
<1>4. /\ first \in Seq(SectionRecord) /\ Len(first) = 4
      /\ Range(first) = {Section(g, -i) : i \in 1 .. 4}
  BY <1>2 DEF Sited, Range
<1>5. /\ last \in Seq(SectionRecord)
      /\ Range(last) = {Section(g, s) : s \in DOMAIN f.secs}
  <2>. DEFINE n == Len(f.secs)
  <2>1. n \in Nat /\ last = [s \in 1 .. n |-> Section(g, s)]
    BY <1>1
  <2>2. \A s \in 1 .. n : Section(g, s) \in SectionRecord
    BY <1>1, <1>3 DEF Sited
  <2>. HIDE DEF n, last
  <2>3. last \in Seq(SectionRecord)
    BY <2>1, <2>2
  <2>. QED
    BY <2>3 DEF Range, last
<1>6. FetchedSections(f, g) = first \o last
  BY DEF FetchedSections
<1>. HIDE DEF first, last
<1>7. /\ first \o last \in Seq(SectionRecord)
      /\ Range(first \o last) = Range(first) \cup Range(last)
      /\ first \o last # <<>>
  <2>1. first \o last \in Seq(SectionRecord) /\ Range(first \o last) = Range(first) \cup Range(last)
    BY <1>4, <1>5, ConcatIs
  <2>2. Len(first \o last) = Len(first) + Len(last) /\ Len(last) \in Nat
    BY Zenon, <1>4, <1>5, ConcatProperties, LenProperties
  <2>3. Len(first \o last) # 0 /\ Len(<<>>) = 0
    BY <1>4, <2>2
  <2>. QED
    BY <2>1, <2>3
<1>8. \A s \in Range(first) \cup Range(last) : Sited(fs, s) /\ s.fd \in {0, g}
  BY <1>2, <1>3, <1>4, <1>5
<1>9. \A s \in DOMAIN f.secs \cup Shared : Section(g, s) \in Range(first) \cup Range(last)
  <2>1. \A s \in Shared : -s \in 1 .. 4 /\ s = -(-s)
    BY DEF Shared
  <2>. QED
    BY <1>4, <1>5, <2>1
<1>. QED
  BY Zenon, <1>6, <1>7, <1>8, <1>9

\* The Section a symbol is in: one of those that are listed, or a foreign one.
LEMMA HomeIsTrue ==
  ASSUME NEW fs, NEW g \in DOMAIN fs, g \in Nat \ {0}, IsFile(fs[g]),
         NEW r, From(fs[g], g, r)
  PROVE  HomeOf(fs[g], r) \in Range(FetchedSections(fs[g], g)) \cup ForeignSections(fs[g])
<1>. DEFINE f == fs[g]
            sec == AsymOf(f, r).sec
            list == Asymbols(f, r.kind)
<1>1. r \in Origin /\ r.fd = g /\ r.i \in DOMAIN list
  BY DEF From
<1>2. sec \in DOMAIN f.secs \cup Shared \cup {Foreign} /\ HomeOf(f, r) = Section(g, sec)
  BY <1>1, AsymIs DEF HomeOf
<1>3. list \in {f.normal.syms, f.dynamic.syms, f.synthetic}
  BY <1>1 DEF Asymbols, Origin, Kinds
<1>4. CASE sec = Foreign
  <2>1. Section(g, Foreign) = Section(0, Foreign)
    BY DEF Section, Foreign
  <2>2. \E i \in DOMAIN list : list[i].sec = Foreign
    BY Zenon, <1>1, <1>4 DEF AsymOf
  <2>3. Section(0, Foreign) \in ForeignSections(f)
    <3>. HIDE DEF f, list
    <3>. QED
      BY <1>3, <2>2 DEF ForeignSections
  <2>. QED
    BY Zenon, <1>2, <1>4, <2>1, <2>3
<1>5. CASE sec # Foreign
  BY <1>2, <1>5, SectionsAre
<1>. QED
  BY <1>4, <1>5

\* It is one of this file, or one that all files share.
LEMMA HomeIs ==
  ASSUME NEW fs, NEW g \in DOMAIN fs, g \in Nat \ {0}, IsFile(fs[g]),
         NEW r, From(fs[g], g, r)
  PROVE  /\ Sited(fs, HomeOf(fs[g], r))
         /\ HomeOf(fs[g], r).fd \in {0, g}
         /\ ForeignSections(fs[g]) = {}
              => HomeOf(fs[g], r) \in Range(FetchedSections(fs[g], g))
<1>. DEFINE f == fs[g]
            sec == AsymOf(f, r).sec
<1>1. r \in Origin /\ r.fd = g /\ r.i \in DOMAIN Asymbols(f, r.kind)
  BY DEF From
<1>2. sec \in DOMAIN f.secs \cup Shared \cup {Foreign} /\ f.secs \in Seq(Nat)
  BY <1>1, AsymIs DEF IsFile
<1>3. HomeOf(f, r) = Section(g, sec)
  BY <1>1 DEF HomeOf
<1>. HIDE DEF sec
<1>4. Sited(fs, HomeOf(f, r)) /\ HomeOf(f, r).fd \in {0, g}
  BY <1>2, <1>3 DEF Section, Sited, SectionRecord, Shared, Foreign
<1>5. ASSUME ForeignSections(f) = {} PROVE Section(g, sec) \in Range(FetchedSections(f, g))
  BY <1>3, <1>5, HomeIsTrue
<1>. QED
  BY <1>3, <1>4, <1>5


-----------------------------------------------------------------------------
(* getSymbolTable: the symbols of a list, by address.                      *)

\* The origins of one symbol.
Held(symbol) == Range(OriginsOf(symbol))

\* A symbol for each address, which hold the origins R, each once.
Grouped(symbols, R) ==
  /\ symbols \in Seq(SymbolRecord)
  /\ \A j, k \in DOMAIN symbols : Addr(symbols[j]) = Addr(symbols[k]) => j = k
  /\ \A k \in DOMAIN symbols : IsInjective(OriginsOf(symbols[k]))
  /\ \A j, k \in DOMAIN symbols : j # k => Held(symbols[j]) \cap Held(symbols[k]) = {}
  /\ \A k \in DOMAIN symbols : Held(symbols[k]) \subseteq R
  /\ \A r \in R : \E k \in DOMAIN symbols : r \in Held(symbols[k])

LEMMA NewSymbol ==
  ASSUME NEW r \in Origin, NEW p \in SectionRecord
  PROVE  LET s == [origin |-> r, parent |-> p, aliases |-> <<>>]
         IN  /\ s \in SymbolRecord
             /\ Held(s) = {r} /\ IsInjective(OriginsOf(s))
<1>. DEFINE s == [origin |-> r, parent |-> p, aliases |-> <<>>]
<1>1. <<>> \in Seq(Origin) /\ <<r>> \in Seq(Origin)
  OBVIOUS
<1>2. s \in SymbolRecord
  BY <1>1 DEF SymbolRecord
<1>3. OriginsOf(s) = <<r>>
  BY <1>1, ConcatEmptySeq DEF OriginsOf
<1>4. Range(<<r>>) = {r} /\ IsInjective(<<r>>)
  BY DEF Range, IsInjective
<1>. QED
  BY <1>2, <1>3, <1>4 DEF Held

\* An alias is put behind the origins a symbol has.
LEMMA AliasOrigins ==
  ASSUME NEW s \in SymbolRecord, NEW r \in Origin
  PROVE  LET t == [s EXCEPT !.aliases = Append(@, r)]
         IN  /\ t.origin = s.origin /\ t.parent = s.parent /\ t \in SymbolRecord
             /\ OriginsOf(s) \in Seq(Origin)
             /\ OriginsOf(t) = Append(OriginsOf(s), r)
<1>. DEFINE t == [s EXCEPT !.aliases = Append(@, r)]
            first == <<s.origin>>
<1>1. s.origin \in Origin /\ s.aliases \in Seq(Origin) /\ s.parent \in SectionRecord
  BY DEF SymbolRecord
<1>2. /\ t.origin = s.origin /\ t.parent = s.parent /\ t.aliases = Append(s.aliases, r)
      /\ t \in SymbolRecord
  BY <1>1 DEF SymbolRecord
<1>3. first \in Seq(Origin) /\ <<r>> \in Seq(Origin)
  BY <1>1
<1>. HIDE DEF first, t
<1>4. OriginsOf(s) = first \o s.aliases /\ OriginsOf(s) \in Seq(Origin)
  BY <1>1, <1>3 DEF OriginsOf, first
<1>5. OriginsOf(t) = first \o Append(s.aliases, r)
  BY <1>2 DEF OriginsOf, first
<1>6. Append(s.aliases, r) = s.aliases \o <<r>>
      /\ Append(OriginsOf(s), r) = OriginsOf(s) \o <<r>>
  BY Zenon, <1>1, <1>4, AppendIsConcat
<1>7. (first \o s.aliases) \o <<r>> = first \o (s.aliases \o <<r>>)
  <2>. DEFINE a == s.aliases
              b == <<r>>
  <2>1. a \in Seq(Origin) /\ b \in Seq(Origin) /\ first \in Seq(Origin)
    BY <1>1, <1>3
  <2>. HIDE DEF a, b
  <2>2. (first \o a) \o b = first \o (a \o b)
    BY <2>1, ConcatAssociative
  <2>. QED
    BY Zenon, <2>2 DEF a, b
<1>8. OriginsOf(t) = Append(OriginsOf(s), r)
  BY Zenon, <1>4, <1>5, <1>6, <1>7
<1>. QED
  BY Zenon, <1>2, <1>4, <1>8 DEF t

LEMMA NewAlias ==
  ASSUME NEW s \in SymbolRecord, NEW r \in Origin
  PROVE  LET t == [s EXCEPT !.aliases = Append(@, r)]
         IN  /\ t \in SymbolRecord
             /\ t.origin = s.origin /\ t.parent = s.parent
             /\ Held(t) = Held(s) \cup {r}
             /\ IsInjective(OriginsOf(s)) /\ r \notin Held(s) => IsInjective(OriginsOf(t))
<1>. DEFINE t == [s EXCEPT !.aliases = Append(@, r)]
            list == OriginsOf(s)
<1>1. /\ t.origin = s.origin /\ t.parent = s.parent /\ t \in SymbolRecord
      /\ list \in Seq(Origin) /\ OriginsOf(t) = Append(list, r)
  BY Zenon, AliasOrigins
<1>. HIDE DEF list, t
<1>2. /\ Range(Append(list, r)) = Range(list) \cup {r}
      /\ IsInjective(list) /\ r \notin Range(list) => IsInjective(Append(list, r))
  BY <1>1, AppendIs
<1>. QED
  BY Zenon, <1>1, <1>2 DEF Held, t, list

\* The first symbol at an address.
LEMMA MinIs ==
  ASSUME NEW T, T \subseteq Nat, T # {}
  PROVE  Min(T) \in T
<1>1. \E x \in T : \A y \in T : x <= y
  BY AddSections!Least
<1>. QED
  BY <1>1 DEF Min

Buffers == [symbols : Seq(SymbolRecord), sections : Seq(SectionRecord)]

\* The parent of every symbol is in the same buffers.
Housed(symbols, sections) ==
  \A k \in DOMAIN symbols : symbols[k].parent \in Range(sections)

\* One symbol more that is at a new address.
LEMMA AppendGroups ==
  ASSUME NEW symbols, NEW R, Grouped(symbols, R), NEW r \in Origin, r \notin R,
         NEW s \in SymbolRecord, Held(s) = {r}, IsInjective(OriginsOf(s)),
         \A k \in DOMAIN symbols : Addr(symbols[k]) # Addr(s)
  PROVE  Grouped(Append(symbols, s), R \cup {r})
<1>. DEFINE N == Len(symbols)
            new == Append(symbols, s)
<1>1. symbols \in Seq(SymbolRecord)
  BY DEF Grouped
<1>2. /\ new \in Seq(SymbolRecord) /\ Len(new) = N + 1 /\ new[N + 1] = s
      /\ \A k \in 1 .. N : new[k] = symbols[k]
  BY <1>1
<1>3. DOMAIN new = 1 .. (N + 1) /\ DOMAIN symbols = 1 .. N /\ N \in Nat
  BY <1>1, <1>2
<1>. HIDE DEF N, new
<1>4. /\ \A j, k \in 1 .. N : Addr(symbols[j]) = Addr(symbols[k]) => j = k
      /\ \A k \in 1 .. N : IsInjective(OriginsOf(symbols[k]))
      /\ \A j, k \in 1 .. N : j # k => Held(symbols[j]) \cap Held(symbols[k]) = {}
      /\ \A k \in 1 .. N : Held(symbols[k]) \subseteq R
      /\ \A q \in R : \E k \in 1 .. N : q \in Held(symbols[k])
  BY <1>3 DEF Grouped
<1>5. \A k \in 1 .. (N + 1) : (k \in 1 .. N /\ new[k] = symbols[k]) \/ (k = N + 1 /\ new[k] = s)
  BY <1>2, <1>3
<1>6. \A k \in 1 .. N : Addr(symbols[k]) # Addr(s)
  BY <1>3
<1>7. \A j, k \in 1 .. (N + 1) : Addr(new[j]) = Addr(new[k]) => j = k
  BY <1>4, <1>5, <1>6
<1>8. \A k \in 1 .. (N + 1) : IsInjective(OriginsOf(new[k])) /\ Held(new[k]) \subseteq R \cup {r}
  BY <1>4, <1>5
<1>9. \A j, k \in 1 .. (N + 1) : j # k => Held(new[j]) \cap Held(new[k]) = {}
  BY <1>4, <1>5
<1>10. \A q \in R \cup {r} : \E k \in 1 .. (N + 1) : q \in Held(new[k])
  <2>1. N + 1 \in 1 .. (N + 1) /\ r \in Held(new[N + 1])
    BY <1>2, <1>3
  <2>2. ASSUME NEW k \in 1 .. N PROVE k \in 1 .. (N + 1) /\ new[k] = symbols[k]
    BY <1>2, <1>3
  <2>. QED
    BY <1>4, <2>1, <2>2
<1>11. Grouped(new, R \cup {r})
  BY <1>2, <1>3, <1>7, <1>8, <1>9, <1>10 DEF Grouped
<1>. QED
  BY <1>11 DEF new

\* One symbol has one alias more.
LEMMA AliasGroups ==
  ASSUME NEW symbols, NEW R, Grouped(symbols, R), NEW r \in Origin, r \notin R,
         NEW i \in DOMAIN symbols,
         NEW s \in SymbolRecord, Held(s) = Held(symbols[i]) \cup {r},
         IsInjective(OriginsOf(s)), Addr(s) = Addr(symbols[i])
  PROVE  Grouped([symbols EXCEPT ![i] = s], R \cup {r})
<1>. DEFINE N == Len(symbols)
            new == [symbols EXCEPT ![i] = s]
<1>1. symbols \in Seq(SymbolRecord)
  BY DEF Grouped
<1>2. /\ new \in Seq(SymbolRecord) /\ Len(new) = N /\ new[i] = s
      /\ \A k \in 1 .. N : k # i => new[k] = symbols[k]
  BY <1>1
<1>3. DOMAIN new = 1 .. N /\ DOMAIN symbols = 1 .. N /\ N \in Nat /\ i \in 1 .. N
  BY <1>1, <1>2
<1>. HIDE DEF N, new
<1>4. /\ \A j, k \in 1 .. N : Addr(symbols[j]) = Addr(symbols[k]) => j = k
      /\ \A k \in 1 .. N : IsInjective(OriginsOf(symbols[k]))
      /\ \A j, k \in 1 .. N : j # k => Held(symbols[j]) \cap Held(symbols[k]) = {}
      /\ \A k \in 1 .. N : Held(symbols[k]) \subseteq R
      /\ \A q \in R : \E k \in 1 .. N : q \in Held(symbols[k])
  BY <1>3 DEF Grouped
<1>5. \A k \in 1 .. N : Addr(new[k]) = Addr(symbols[k])
  BY <1>2, <1>3
<1>6. \A j, k \in 1 .. N : Addr(new[j]) = Addr(new[k]) => j = k
  BY <1>4, <1>5
<1>7. \A k \in 1 .. N : IsInjective(OriginsOf(new[k])) /\ Held(new[k]) \subseteq R \cup {r}
  BY <1>2, <1>3, <1>4
<1>8. \A j, k \in 1 .. N : j # k => Held(new[j]) \cap Held(new[k]) = {}
  <2>1. \A k \in 1 .. N : k # i => Held(new[k]) \cap Held(s) = {}
    BY <1>2, <1>3, <1>4
  <2>. QED
    BY <1>2, <1>3, <1>4, <2>1
<1>9. \A q \in R \cup {r} : \E k \in 1 .. N : q \in Held(new[k])
  <2>1. r \in Held(new[i])
    BY <1>2
  <2>2. \A k \in 1 .. N : Held(symbols[k]) \subseteq Held(new[k])
    BY <1>2, <1>3
  <2>. QED
    BY <1>3, <1>4, <2>1, <2>2
<1>10. Grouped(new, R \cup {r})
  BY <1>2, <1>3, <1>6, <1>7, <1>8, <1>9 DEF Grouped
<1>. QED
  BY <1>10 DEF new

LEMMA AddSymbolIs ==
  ASSUME NEW v \in Buffers, NEW R, Grouped(v.symbols, R), Housed(v.symbols, v.sections),
         IsInjective(v.sections), NEW r \in Origin, r \notin R,
         Section(r.fd, Asym(r).sec) \in SectionRecord
  PROVE  LET w == AddSymbol(v, r)
         IN  /\ w \in Buffers
             /\ Grouped(w.symbols, R \cup {r})
             /\ Housed(w.symbols, w.sections)
             /\ w.sections \in {v.sections, AddSection(v.sections, Section(r.fd, Asym(r).sec))}
<1>. DEFINE home == Section(r.fd, Asym(r).sec)
            same == {k \in DOMAIN v.symbols : Addr(v.symbols[k]) = Asym(r).addr}
            i == Min(same)
            w == AddSymbol(v, r)
<1>1. v.symbols \in Seq(SymbolRecord) /\ v.sections \in Seq(SectionRecord)
  BY DEF Buffers
<1>2. CASE same = {}
  <2>. DEFINE s == [origin |-> r, parent |-> home, aliases |-> <<>>]
              kept == AddSection(v.sections, home)
  <2>1. w = [symbols |-> Append(v.symbols, s), sections |-> kept]
    BY Zenon, <1>2 DEF AddSymbol
  <2>2. s \in SymbolRecord /\ Held(s) = {r} /\ IsInjective(OriginsOf(s))
    BY Zenon, NewSymbol
  <2>3. s.parent = home /\ Addr(s) = Asym(r).addr
    BY DEF Addr
  <2>. HIDE DEF home
  <2>4. kept \in Seq(SectionRecord) /\ Range(kept) = Range(v.sections) \cup {home}
    BY <1>1, AddSectionIs DEF home
  <2>. HIDE DEF s, kept, w
  <2>5. \A k \in DOMAIN v.symbols : Addr(v.symbols[k]) # Addr(s)
    BY <1>2, <2>3
  <2>6. Grouped(Append(v.symbols, s), R \cup {r})
    BY Zenon, <2>2, <2>5, AppendGroups
  <2>7. Housed(Append(v.symbols, s), kept)
    BY <1>1, <2>2, <2>3, <2>4 DEF Housed
  <2>8. w.symbols = Append(v.symbols, s) /\ w.sections = kept
    BY <2>1
  <2>9. w \in Buffers
    BY <1>1, <2>1, <2>2, <2>4 DEF Buffers
  <2>. QED
    BY Zenon, <2>6, <2>7, <2>8, <2>9 DEF kept, home, w
<1>3. CASE same # {}
  <2>. DEFINE s == [v.symbols[i] EXCEPT !.aliases = Append(@, r)]
              new == [v.symbols EXCEPT ![i] = s]
  <2>1. i \in same
    <3>1. same \subseteq Nat
      BY <1>1
    <3>. QED
      BY <1>3, <3>1, MinIs
  <2>2. i \in DOMAIN v.symbols /\ v.symbols[i] \in SymbolRecord
    <3>1. i \in DOMAIN v.symbols
      BY <2>1
    <3>. HIDE DEF i
    <3>. QED
      BY <1>1, <3>1
  <2>. HIDE DEF i
  <2>3. w = [v EXCEPT !.symbols = new]
    BY <1>3 DEF AddSymbol, i
  <2>4. /\ s \in SymbolRecord /\ s.origin = v.symbols[i].origin
        /\ s.parent = v.symbols[i].parent
        /\ Held(s) = Held(v.symbols[i]) \cup {r}
        /\ IsInjective(OriginsOf(v.symbols[i])) /\ r \notin Held(v.symbols[i])
             => IsInjective(OriginsOf(s))
    BY Zenon, <2>2, NewAlias
  <2>. HIDE DEF s, w
  <2>5. IsInjective(OriginsOf(v.symbols[i])) /\ r \notin Held(v.symbols[i])
    BY <2>2 DEF Grouped
  <2>6. Addr(s) = Addr(v.symbols[i])
    BY <2>4 DEF Addr
  <2>7. Grouped(new, R \cup {r})
    BY Zenon, <2>2, <2>4, <2>5, <2>6, AliasGroups
  <2>8. Housed(new, v.sections)
    BY <1>1, <2>2, <2>4 DEF Housed
  <2>9. new \in Seq(SymbolRecord)
    BY <2>7 DEF Grouped
  <2>. HIDE DEF new
  <2>10. w \in Buffers /\ w.symbols = new /\ w.sections = v.sections
    BY <2>3, <2>9 DEF Buffers
  <2>. QED
    BY Zenon, <2>7, <2>8, <2>10 DEF w
<1>. QED
  BY <1>2, <1>3

\* Some of a list, in its order.
Follows(list, some) ==
  \A i, j \in DOMAIN some : i < j =>
    \E m, n \in DOMAIN list : m < n /\ list[m] = some[i] /\ list[n] = some[j]

\* The address and the section of a symbol are those of its origins, which
\* were read one after the other.
Told(symbols, list) ==
  \A k \in DOMAIN symbols :
    /\ \A r \in Held(symbols[k]) : Asym(r).addr = Addr(symbols[k])
    /\ symbols[k].parent = Section(symbols[k].origin.fd, Asym(symbols[k].origin).sec)
    /\ Follows(list, OriginsOf(symbols[k]))

\* A later element of the list is put behind earlier ones.
LEMMA FollowsAppend ==
  ASSUME NEW S, NEW list \in Seq(S), NEW n \in 1 .. Len(list), NEW some \in Seq(S),
         Follows(list, some), \A r \in Range(some) : \E m \in 1 .. (n - 1) : r = list[m]
  PROVE  Follows(list, Append(some, list[n]))
<1>. DEFINE new == Append(some, list[n])
            N == Len(some)
<1>1. /\ N \in Nat /\ DOMAIN some = 1 .. N /\ DOMAIN list = 1 .. Len(list)
      /\ DOMAIN new = 1 .. (N + 1) /\ new[N + 1] = list[n]
      /\ \A k \in 1 .. N : new[k] = some[k]
  <2>1. list[n] \in S
    OBVIOUS
  <2>. QED
    BY <2>1
<1>. HIDE DEF new, N
<1>. SUFFICES ASSUME NEW i \in DOMAIN new, NEW j \in DOMAIN new, i < j
              PROVE  \E a, b \in DOMAIN list : a < b /\ list[a] = new[i] /\ list[b] = new[j]
  BY DEF Follows, new
<1>2. CASE j = N + 1
  <2>1. i \in 1 .. N /\ new[i] = some[i] /\ some[i] \in Range(some)
    BY <1>1, <1>2 DEF Range
  <2>2. PICK m \in 1 .. (n - 1) : some[i] = list[m]
    BY <2>1
  <2>3. m < n /\ m \in DOMAIN list /\ n \in DOMAIN list
    BY <1>1
  <2>. QED
    BY <1>1, <1>2, <2>1, <2>2, <2>3
<1>3. CASE j # N + 1
  <2>1. i \in DOMAIN some /\ j \in DOMAIN some /\ new[i] = some[i] /\ new[j] = some[j]
    BY <1>1, <1>3
  <2>. QED
    BY <2>1 DEF Follows
<1>. QED
  BY <1>2, <1>3

\* One symbol of BFD more, which is put where it belongs.
LEMMA AddSymbolTells ==
  ASSUME NEW v \in Buffers, NEW list \in Seq(Origin), NEW n \in 1 .. Len(list),
         Told(v.symbols, list),
         \A k \in DOMAIN v.symbols : \A r \in Held(v.symbols[k]) :
           \E m \in 1 .. (n - 1) : r = list[m],
         Section(list[n].fd, Asym(list[n]).sec) \in SectionRecord
  PROVE  Told(AddSymbol(v, list[n]).symbols, list)
<1>. DEFINE r == list[n]
            home == Section(r.fd, Asym(r).sec)
            same == {k \in DOMAIN v.symbols : Addr(v.symbols[k]) = Asym(r).addr}
            i == Min(same)
            w == AddSymbol(v, r)
            N == Len(v.symbols)
<1>1. /\ v.symbols \in Seq(SymbolRecord) /\ v.sections \in Seq(SectionRecord) /\ r \in Origin
      /\ N \in Nat /\ DOMAIN v.symbols = 1 .. N
  BY DEF Buffers
<1>2. CASE same = {}
  <2>. DEFINE s == [origin |-> r, parent |-> home, aliases |-> <<>>]
              kept == AddSection(v.sections, home)
  <2>1. w = [symbols |-> Append(v.symbols, s), sections |-> kept]
    BY Zenon, <1>2 DEF AddSymbol
  <2>2. s \in SymbolRecord /\ Held(s) = {r} /\ s.origin = r /\ s.parent = home
    BY Zenon, <1>1, NewSymbol
  <2>3. Follows(list, OriginsOf(s))
    <3>1. <<>> \in Seq(Origin) /\ <<r>> \in Seq(Origin)
      BY <1>1
    <3>2. OriginsOf(s) = <<r>>
      BY <3>1, ConcatEmptySeq DEF OriginsOf
    <3>3. \A a, b \in DOMAIN <<r>> : ~(a < b)
      OBVIOUS
    <3>. QED
      BY Zenon, <3>2, <3>3 DEF Follows
  <2>4. Addr(s) = Asym(r).addr
    BY Zenon, <2>2 DEF Addr
  <2>. HIDE DEF s, kept, w, r, home
  <2>5. w.symbols = Append(v.symbols, s)
    BY <2>1
  <2>6. /\ DOMAIN w.symbols = 1 .. (N + 1) /\ w.symbols[N + 1] = s
        /\ \A k \in 1 .. N : w.symbols[k] = v.symbols[k]
    BY <1>1, <2>2, <2>5
  <2>7. ASSUME NEW k \in 1 .. (N + 1)
        PROVE  \/ w.symbols[k] = s
               \/ k \in DOMAIN v.symbols /\ w.symbols[k] = v.symbols[k]
    BY <1>1, <2>6
  <2>. HIDE DEF N, same
  <2>8. \A q \in Held(s) : Asym(q).addr = Addr(s)
    BY Zenon, <2>2, <2>4
  <2>9. s.parent = Section(s.origin.fd, Asym(s.origin).sec)
    BY Zenon, <2>2 DEF home
  <2>10. Told(w.symbols, list)
    BY Zenon, <2>3, <2>6, <2>7, <2>8, <2>9 DEF Told
  <2>. QED
    BY Zenon, <2>10 DEF w, r
<1>3. CASE same # {}
  <2>. DEFINE s == [v.symbols[i] EXCEPT !.aliases = Append(@, r)]
              new == [v.symbols EXCEPT ![i] = s]
  <2>1. i \in same
    <3>1. same \subseteq Nat
      BY <1>1
    <3>. HIDE DEF same
    <3>. QED
      BY <1>3, <3>1, MinIs
  <2>2. i \in DOMAIN v.symbols /\ v.symbols[i] \in SymbolRecord /\ Addr(v.symbols[i]) = Asym(r).addr
    <3>1. i \in DOMAIN v.symbols /\ Addr(v.symbols[i]) = Asym(r).addr
      BY <2>1
    <3>. HIDE DEF i, r
    <3>. QED
      BY <1>1, <3>1
  <2>. HIDE DEF i
  <2>3. w = [v EXCEPT !.symbols = new]
    BY <1>3 DEF AddSymbol, i
  <2>. DEFINE old == v.symbols[i]
  <2>4. /\ s.origin = old.origin /\ s.parent = old.parent /\ s \in SymbolRecord
        /\ OriginsOf(old) \in Seq(Origin) /\ OriginsOf(s) = Append(OriginsOf(old), r)
    BY Zenon, <1>1, <2>2, AliasOrigins
  <2>5. Held(s) = Held(old) \cup {r}
    BY Zenon, <1>1, <2>2, NewAlias
  <2>6. /\ \A q \in Held(old) : Asym(q).addr = Addr(old)
        /\ old.parent = Section(old.origin.fd, Asym(old.origin).sec)
        /\ Follows(list, OriginsOf(old))
        /\ \A q \in Range(OriginsOf(old)) : \E m \in 1 .. (n - 1) : q = list[m]
    BY Zenon, <2>2 DEF Told, Held
  <2>. HIDE DEF s, w
  <2>7. Follows(list, OriginsOf(s))
    <3>. DEFINE some == OriginsOf(old)
    <3>1. some \in Seq(Origin) /\ Follows(list, some)
          /\ \A q \in Range(some) : \E m \in 1 .. (n - 1) : q = list[m]
      BY Zenon, <2>4, <2>6
    <3>. HIDE DEF some
    <3>2. Follows(list, Append(some, list[n]))
      BY Zenon, <3>1, FollowsAppend
    <3>. QED
      BY Zenon, <2>4, <3>2 DEF some
  <2>8. Addr(s) = Addr(old)
    BY Zenon, <2>4 DEF Addr
  <2>9. /\ \A q \in Held(s) : Asym(q).addr = Addr(s)
        /\ s.parent = Section(s.origin.fd, Asym(s.origin).sec)
    <3>. HIDE DEF r, old
    <3>. QED
      BY Zenon, <2>2, <2>4, <2>5, <2>6, <2>8 DEF old
  <2>10. /\ DOMAIN new = DOMAIN v.symbols /\ new[i] = s
         /\ \A k \in DOMAIN v.symbols : k # i => new[k] = v.symbols[k]
    BY <2>2
  <2>. HIDE DEF new, r, old
  <2>11. w.symbols = new
    BY <2>3 DEF Buffers
  <2>12. Told(new, list)
    BY Zenon, <2>7, <2>9, <2>10 DEF Told
  <2>. QED
    BY Zenon, <2>11, <2>12 DEF w, r
<1>. QED
  BY <1>2, <1>3

\* The sections that were there, and of the others only homes of symbols.
Extended(sections, start, homes) ==
  /\ sections \in Seq(SectionRecord) /\ IsInjective(sections)
  /\ Range(start) \subseteq Range(sections)
  /\ Range(sections) \subseteq Range(start) \cup homes
  /\ homes \subseteq Range(start) => sections = start

LEMMA ExtendedStep ==
  ASSUME NEW sections, NEW start, NEW homes, Extended(sections, start, homes),
         NEW home \in SectionRecord
  PROVE  /\ Extended(sections, start, homes \cup {home})
         /\ Extended(AddSection(sections, home), start, homes \cup {home})
<1>1. Extended(sections, start, homes \cup {home})
  BY DEF Extended
<1>2. Extended(AddSection(sections, home), start, homes \cup {home})
  <2>. DEFINE new == AddSection(sections, home)
  <2>1. sections \in Seq(SectionRecord) /\ IsInjective(sections)
    BY DEF Extended
  <2>2. /\ new \in Seq(SectionRecord) /\ IsInjective(new)
        /\ Range(new) = Range(sections) \cup {home}
        /\ home \in Range(sections) => new = sections
    BY <2>1, AddSectionIs
  <2>. QED
    BY <2>2 DEF Extended
<1>. QED
  BY <1>1, <1>2

\* What getSymbolTable has built before it sorts.
LEMMA Built ==
  ASSUME NEW g \in DOMAIN files, g \in Nat \ {0}, IsFile(files[g]), NEW t \in Nat,
         NEW start \in Seq(SectionRecord), IsInjective(start)
  PROVE  LET list  == Fetched(files[g], g, t)
             built == FoldLeft(AddSymbol, [symbols |-> <<>>, sections |-> start], list)
         IN  /\ built \in Buffers
             /\ Grouped(built.symbols, Range(list)) /\ Told(built.symbols, list)
             /\ Housed(built.symbols, built.sections)
             /\ Extended(built.sections, start, {HomeOf(files[g], r) : r \in Range(list)})
<1>. DEFINE f == files[g]
            list == Fetched(f, g, t)
            base == [symbols |-> <<>>, sections |-> start]
            N == Len(list)
            First(n) == {list[i] : i \in 1 .. n}
            Homes(R) == {HomeOf(f, r) : r \in R}
            After(n) == {v \in Buffers : /\ Grouped(v.symbols, First(n))
                                         /\ Told(v.symbols, list)
                                         /\ Housed(v.symbols, v.sections)
                                         /\ Extended(v.sections, start, Homes(First(n)))}
            T == [n \in 0 .. N |-> After(n)]
<1>1. /\ list \in Seq(Origin) /\ IsInjective(list)
      /\ \A r \in Range(list) : From(f, g, r)
  BY Zenon, FetchedIs
<1>. HIDE DEF list
<1>2. N \in Nat /\ DOMAIN list = 1 .. N
  BY <1>1
<1>3. base \in T[0]
  <2>1. First(0) = {}
    OBVIOUS
  <2>2. base \in Buffers /\ base.symbols = <<>> /\ base.sections = start
    BY DEF Buffers
  <2>3. Grouped(<<>>, {}) /\ Told(<<>>, list) /\ Housed(<<>>, start)
    BY DEF Grouped, Told, Housed
  <2>4. Extended(start, start, {})
    BY DEF Extended
  <2>5. Homes({}) = {}
    OBVIOUS
  <2>. HIDE DEF First, base, Homes
  <2>6. base \in After(0)
    BY <2>1, <2>2, <2>3, <2>4, <2>5
  <2>. QED
    BY <1>2, <2>6
<1>4. ASSUME NEW n \in 1 .. N, NEW v \in T[n - 1] PROVE AddSymbol(v, list[n]) \in T[n]
  <2>. DEFINE r == list[n]
              w == AddSymbol(v, r)
  <2>1. /\ v \in Buffers /\ Grouped(v.symbols, First(n - 1)) /\ Housed(v.symbols, v.sections)
        /\ Told(v.symbols, list) /\ Extended(v.sections, start, Homes(First(n - 1)))
    <3>1. n - 1 \in 0 .. N
      BY <1>2
    <3>2. v \in After(n - 1)
      BY Zenon, <3>1
    <3>. QED
      BY Zenon, <3>2
  <2>2. First(n) = First(n - 1) \cup {r}
    <3>1. \A i : i \in 1 .. n <=> i \in 1 .. (n - 1) \/ i = n
      BY <1>2
    <3>. QED
      BY Zenon, <3>1
  <2>3. r \in Origin /\ r \in Range(list) /\ From(f, g, r)
    BY <1>1, <1>2 DEF Range
  <2>4. r \notin First(n - 1)
    BY <1>1, <1>2, SMTT(30) DEF IsInjective
  <2>5. Homes(First(n)) = Homes(First(n - 1)) \cup {HomeOf(f, r)}
    BY <2>2
  <2>6. HomeOf(f, r) \in SectionRecord /\ HomeOf(f, r) = Section(r.fd, Asym(r).sec)
    <3>1. r.fd = g
      BY <2>3 DEF From
    <3>2. Asym(r) = AsymOf(f, r)
      BY Zenon, <3>1 DEF Asym, AsymOf
    <3>3. Sited(files, HomeOf(f, r))
      BY <2>3, HomeIs
    <3>. QED
      BY Zenon, <3>2, <3>3 DEF HomeOf, Sited
  <2>7. \A k \in DOMAIN v.symbols : \A q \in Held(v.symbols[k]) :
           \E m \in 1 .. (n - 1) : q = list[m]
    <3>1. \A k \in DOMAIN v.symbols : Held(v.symbols[k]) \subseteq First(n - 1)
      BY Zenon, <2>1 DEF Grouped
    <3>2. \A q \in First(n - 1) : \E m \in 1 .. (n - 1) : q = list[m]
      OBVIOUS
    <3>. HIDE DEF First
    <3>. QED
      BY Zenon, <3>1, <3>2
  <2>8. Told(w.symbols, list)
    <3>1. Section(r.fd, Asym(r).sec) \in SectionRecord
      BY Zenon, <2>6
    <3>2. Told(v.symbols, list) /\ v \in Buffers
      BY Zenon, <2>1
    <3>. QED
      BY Zenon, <1>1, <1>2, <2>7, <3>1, <3>2, AddSymbolTells
  <2>. HIDE DEF First, Homes, f, r
  <2>9. IsInjective(v.sections)
    BY <2>1 DEF Extended
  <2>10. /\ w \in Buffers
        /\ Grouped(w.symbols, First(n - 1) \cup {r})
        /\ Housed(w.symbols, w.sections)
        /\ w.sections \in {v.sections, AddSection(v.sections, HomeOf(f, r))}
    BY Zenon, <2>1, <2>3, <2>4, <2>6, <2>9, AddSymbolIs
  <2>11. Extended(w.sections, start, Homes(First(n - 1)) \cup {HomeOf(f, r)})
    <3>. DEFINE h == HomeOf(f, r)
                H == Homes(First(n - 1))
                a == v.sections
                b == w.sections
    <3>1. Extended(a, start, H) /\ h \in SectionRecord /\ b \in {a, AddSection(a, h)}
      BY Zenon, <2>1, <2>6, <2>10
    <3>. HIDE DEF h, H, a, b
    <3>2. Extended(b, start, H \cup {h})
      <4>1. Extended(a, start, H) /\ h \in SectionRecord
        BY <3>1
      <4>2. /\ Extended(a, start, H \cup {h})
            /\ Extended(AddSection(a, h), start, H \cup {h})
        BY <4>1, ExtendedStep
      <4>. QED
        BY <3>1, <4>2
    <3>. QED
      BY Zenon, <3>2 DEF h, H, b
  <2>12. w \in After(n)
    BY Zenon, <2>2, <2>5, <2>10, <2>11, <2>8
  <2>. QED
    BY <1>2, <2>12 DEF r
<1>5. AddSymbols!Folded(base, list) \in T[N]
  <2>. HIDE DEF T, base
  <2>. QED
    BY <1>2, <1>3, <1>4, AddSymbols!FoldSteps
<1>6. FoldLeft(AddSymbol, base, list) = AddSymbols!Folded(base, list)
  BY Zenon DEF AddSymbols!Folded, FoldLeft, AddSymbols!FoldLeft, MapThenFoldSet,
               AddSymbols!MapThenFoldSet, Max, AddSymbols!Max
<1>7. First(N) = Range(list)
  BY <1>2 DEF Range
<1>8. T[N] = After(N)
  BY <1>2
<1>9. FoldLeft(AddSymbol, base, list) \in After(N)
  <2>. HIDE DEF T, base, After, N
  <2>. QED
    BY <1>5, <1>6, <1>8
<1>. HIDE DEF First, N
<1>. QED
  BY Zenon, <1>7, <1>9 DEF list

-----------------------------------------------------------------------------
(* What an object holds.  The files are a parameter: a file that is opened *)
(* is put behind those that are there.                                     *)

AddrIn(f, symbol) == AsymOf(f, symbol.origin).addr

\* The table of the file g: every symbol once, by address.
IsTable(f, g, buffer) ==
  /\ \A j \in DOMAIN buffer : IsInjective(OriginsOf(buffer[j]))
  /\ \A j, k \in DOMAIN buffer : j # k => Held(buffer[j]) \cap Held(buffer[k]) = {}
  /\ \A j \in DOMAIN buffer : buffer[j].origin.fd = g
  /\ \A j, k \in DOMAIN buffer : j < k => /\ AddrIn(f, buffer[j]) \in Nat
                                          /\ AddrIn(f, buffer[k]) \in Nat
                                          /\ AddrIn(f, buffer[j]) < AddrIn(f, buffer[k])
  /\ {Place(r) : r \in UNION {Held(s) : s \in Range(buffer)}}
       = {Place(r) : r \in Range(Fetched(f, g, 0))}

VmaIn(fs, section) == IF section.fd = 0 THEN 0 ELSE fs[section.fd].secs[section.s]

Descending(fs, sections) ==
  \A i, j \in DOMAIN sections : i < j => VmaIn(fs, sections[i]) >= VmaIn(fs, sections[j])

\* g can be the file of x: the one it owns, if it owns one.
Fits(g, x) == x.fd # 0 => g = x.fd

\* The lists of BFD were fetched from one file.
ListsOfFile(fs, x) ==
  /\ x.sections # <<>> =>
       \E g \in DOMAIN fs : Fits(g, x) /\ x.sections = FetchedSections(fs[g], g)
  /\ x.symbol_table # <<>> =>
       \E g \in DOMAIN fs, t \in Nat : Fits(g, x) /\ x.symbol_table = Fetched(fs[g], g, t)

TableOfFile(fs, x) ==
  /\ x.symbol_buffer # <<>> =>
       \E g \in DOMAIN fs : Fits(g, x) /\ IsTable(fs[g], g, x.symbol_buffer)
  /\ Housed(x.symbol_buffer, x.section_buffer)

SectionsOfFile(fs, x) ==
  /\ IsInjective(x.section_buffer)
  /\ \A s \in Range(x.section_buffer) : Sited(fs, s) /\ (x.fd # 0 => s.fd \in {0, x.fd})

\* Sections are only sorted once, but then all sections of the file are there,
\* and only foreign ones can still be added.
OrderOfSections(fs, x) ==
  x.fd # 0 /\ x.sections_sorted =>
    /\ Range(FetchedSections(fs[x.fd], x.fd)) \subseteq Range(x.section_buffer)
    /\ ForeignSections(fs[x.fd]) = {} => Descending(fs, x.section_buffer)

Holds(fs, x) ==
  /\ x \in ObjectRecord
  /\ x.fd \in {0} \cup DOMAIN fs
  /\ ListsOfFile(fs, x) /\ TableOfFile(fs, x)
  /\ SectionsOfFile(fs, x) /\ OrderOfSections(fs, x)

\* A file that is opened changes nothing for those that were there.
LEMMA FilesGrow ==
  ASSUME NEW fs, NEW new, DOMAIN fs \subseteq DOMAIN new, \A g \in DOMAIN fs : new[g] = fs[g],
         NEW x, Holds(fs, x), 0 \notin DOMAIN fs
  PROVE  Holds(new, x)
<1>1. x \in ObjectRecord /\ x.fd \in {0} \cup DOMAIN new
  BY DEF Holds
<1>2. ListsOfFile(new, x)
  BY DEF Holds, ListsOfFile
<1>3. TableOfFile(new, x)
  BY DEF Holds, TableOfFile
<1>4. SectionsOfFile(new, x)
  BY DEF Holds, SectionsOfFile, Sited
<1>5. OrderOfSections(new, x)
  <2>. SUFFICES ASSUME x.fd # 0, x.sections_sorted
                PROVE  /\ Range(FetchedSections(new[x.fd], x.fd)) \subseteq Range(x.section_buffer)
                       /\ ForeignSections(new[x.fd]) = {} => Descending(new, x.section_buffer)
    BY DEF OrderOfSections
  <2>1. x.fd \in DOMAIN fs /\ new[x.fd] = fs[x.fd]
    BY DEF Holds
  <2>2. /\ Range(FetchedSections(fs[x.fd], x.fd)) \subseteq Range(x.section_buffer)
        /\ ForeignSections(fs[x.fd]) = {} => Descending(fs, x.section_buffer)
    BY DEF Holds, OrderOfSections
  <2>3. \A s \in Range(x.section_buffer) : VmaIn(new, s) = VmaIn(fs, s)
    BY DEF Holds, SectionsOfFile, Sited, VmaIn
  <2>4. Descending(fs, x.section_buffer) => Descending(new, x.section_buffer)
    BY <2>3 DEF Descending, Range
  <2>. QED
    BY <2>1, <2>2, <2>4
<1>. QED
  BY <1>1, <1>2, <1>3, <1>4, <1>5 DEF Holds

LEMMA NewHolds ==
  ASSUME NEW fs, NEW fd \in Nat, fd \in {0} \cup DOMAIN fs
  PROVE  Holds(fs, NewObject(fd))
<1>. DEFINE x == NewObject(fd)
<1>1. /\ x.fd = fd /\ x.sections = <<>> /\ x.symbol_table = <<>>
      /\ x.section_buffer = <<>> /\ x.symbol_buffer = <<>> /\ x.sections_sorted = FALSE
      /\ x \in ObjectRecord
  BY DEF NewObject, ObjectRecord
<1>2. Range(<<>>) = {} /\ IsInjective(<<>>) /\ Housed(<<>>, <<>>)
  BY DEF Range, IsInjective, Housed
<1>. HIDE DEF x
<1>3. Holds(fs, x)
  BY <1>1, <1>2 DEF Holds, ListsOfFile, TableOfFile, SectionsOfFile, OrderOfSections
<1>. QED
  BY <1>3 DEF x

\* The lists stay behind without a descriptor, and the buffers are gone.
LEMMA MovedFromHolds ==
  ASSUME NEW fs, NEW x, Holds(fs, x)
  PROVE  Holds(fs, MovedFrom(x))
<1>. DEFINE y == MovedFrom(x)
<1>0. x \in ObjectRecord
  BY DEF Holds
<1>1. /\ y.fd = 0 /\ y.sections = x.sections /\ y.symbol_table = x.symbol_table
      /\ y.section_buffer = <<>> /\ y.symbol_buffer = <<>>
      /\ y \in ObjectRecord
  <2>1. y = [x EXCEPT !.fd = 0, !.section_buffer = <<>>, !.symbol_buffer = <<>>]
    BY DEF MovedFrom
  <2>2. 0 \in Nat /\ <<>> \in Seq(SectionRecord) /\ <<>> \in Seq(SymbolRecord)
    OBVIOUS
  <2>. HIDE DEF y
  <2>. QED
    BY <1>0, <2>1, <2>2 DEF ObjectRecord
<1>2. Range(<<>>) = {} /\ IsInjective(<<>>) /\ Housed(<<>>, <<>>)
  BY DEF Range, IsInjective, Housed
<1>. HIDE DEF y
<1>3. ListsOfFile(fs, y)
  BY <1>1 DEF Holds, ListsOfFile, Fits
<1>4. Holds(fs, y)
  BY <1>1, <1>2, <1>3 DEF Holds, TableOfFile, SectionsOfFile, OrderOfSections
<1>. QED
  BY <1>4 DEF y

\* An object with the descriptor and the buffers of another one, without the
\* lists of BFD.
LEMMA MovedToHolds ==
  ASSUME NEW fs, NEW x, Holds(fs, x), NEW y \in ObjectRecord,
         y.fd = x.fd, y.sections = <<>>, y.symbol_table = <<>>,
         y.section_buffer = x.section_buffer, y.symbol_buffer = x.symbol_buffer,
         y.sections_sorted = x.sections_sorted
  PROVE  Holds(fs, y)
  BY DEF Holds, ListsOfFile, TableOfFile, SectionsOfFile, OrderOfSections, Fits

-----------------------------------------------------------------------------
(* What getSymbolTable and getSections leave.                              *)

\* Files have the types of their descriptions, and places from 1.
Opened(fs) == \A g \in DOMAIN fs : g \in Nat \ {0} /\ IsFile(fs[g])

LEMMA SortingIs ==
  ASSUME NEW list
  PROVE  Rising!Sorted(list) = Rise!Sorted(list) /\ Falling!Sorted(list) = Fall!Sorted(list)
<1>1. Rising!Sorted(list) = Rise!Sorted(list)
  BY Zenon DEF Rising!Sorted, Rise!Sorted, Rising!FoldLeft, Rise!FoldLeft,
     Rising!MapThenFoldSet, Rise!MapThenFoldSet, Rising!Max, Rise!Max, Rising!Inserted,
     Rise!Inserted, Rising!InsertAt, Rise!InsertAt, Rising!Place, Rise!Place,
     Rising!Min, Rise!Min
<1>2. Falling!Sorted(list) = Fall!Sorted(list)
  BY Zenon DEF Falling!Sorted, Fall!Sorted, Falling!FoldLeft, Fall!FoldLeft,
     Falling!MapThenFoldSet, Fall!MapThenFoldSet, Falling!Max, Fall!Max, Falling!Inserted,
     Fall!Inserted, Falling!InsertAt, Fall!InsertAt, Falling!Place, Fall!Place,
     Falling!Min, Fall!Min
<1>. QED
  BY <1>1, <1>2

\* The sorted symbols of a file are its table.
LEMMA SortedTable ==
  ASSUME NEW g \in DOMAIN files, Opened(files), NEW t \in Nat, NEW symbols,
         Grouped(symbols, Range(Fetched(files[g], g, t)))
  PROVE  /\ ByAddress(symbols) \in Seq(SymbolRecord)
         /\ Range(ByAddress(symbols)) = Range(symbols)
         /\ IsTable(files[g], g, ByAddress(symbols))
<1>. DEFINE f == files[g]
            R == Range(Fetched(f, g, t))
            S == Range(symbols)
            buffer == ByAddress(symbols)
<1>1. /\ \A r \in R : From(f, g, r)
      /\ {Place(r) : r \in R} = {Place(r) : r \in Range(Fetched(f, g, 0))}
  <2>1. IsFile(f) /\ g \in Nat
    BY DEF Opened
  <2>. QED
    BY Zenon, <2>1, FetchedIs
<1>. HIDE DEF R
<1>2. /\ symbols \in Seq(SymbolRecord)
      /\ \A j, k \in DOMAIN symbols : Addr(symbols[j]) = Addr(symbols[k]) => j = k
      /\ \A k \in DOMAIN symbols : IsInjective(OriginsOf(symbols[k]))
      /\ \A j, k \in DOMAIN symbols : j # k => Held(symbols[j]) \cap Held(symbols[k]) = {}
      /\ \A k \in DOMAIN symbols : Held(symbols[k]) \subseteq R
      /\ \A r \in R : \E k \in DOMAIN symbols : r \in Held(symbols[k])
  BY Zenon DEF Grouped, R
<1>3. \A s \in SymbolRecord : s.origin \in Held(s)
  <2>. TAKE s \in SymbolRecord
  <2>1. s.origin \in Origin /\ s.aliases \in Seq(Origin)
    BY DEF SymbolRecord
  <2>2. Range(<<s.origin>> \o s.aliases) = Range(<<s.origin>>) \cup Range(s.aliases)
        /\ s.origin \in Range(<<s.origin>>)
    <3>1. <<s.origin>> \in Seq(Origin)
      BY <2>1
    <3>2. s.origin \in Range(<<s.origin>>)
      BY DEF Range
    <3>. QED
      BY ZenonT(30), <2>1, <3>1, <3>2, ConcatIs
  <2>. QED
    BY Zenon, <2>2 DEF Held, OriginsOf
<1>4. ASSUME NEW k \in DOMAIN symbols
      PROVE  /\ symbols[k].origin.fd = g
             /\ Addr(symbols[k]) = AddrIn(f, symbols[k]) /\ AddrIn(f, symbols[k]) \in Nat
  <2>1. symbols[k] \in SymbolRecord
    BY <1>2
  <2>2. From(f, g, symbols[k].origin)
    BY <1>1, <1>2, <1>3, <2>1
  <2>3. AsymOf(f, symbols[k].origin) \in Asymbol
    BY <2>2, AsymIs DEF From, Opened
  <2>4. symbols[k].origin.fd = g
    BY <2>2 DEF From
  <2>. QED
    BY <2>3, <2>4 DEF Addr, AddrIn, Asym, AsymOf, Asymbol
<1>5. \A s \in S : Addr(s) \in Int
  BY <1>4 DEF Range
<1>6. symbols \in Seq(S) /\ IsInjective(symbols)
  BY <1>2 DEF Range, IsInjective
<1>7. /\ buffer \in Seq(S) /\ Rise!Ordered(buffer) /\ IsInjective(buffer) /\ Range(buffer) = S
  <2>. HIDE DEF S
  <2>1. buffer = Rise!Sorted(symbols)
    BY SortingIs DEF ByAddress
  <2>. HIDE DEF buffer
  <2>2. /\ Rise!Sorted(symbols) \in Seq(S) /\ Rise!Ordered(Rise!Sorted(symbols))
        /\ IsInjective(Rise!Sorted(symbols)) /\ Range(Rise!Sorted(symbols)) = S
    <3>1. Range(symbols) = S
      BY DEF S
    <3>2. symbols \in Seq(S) /\ IsInjective(symbols) /\ \A s \in S : Addr(s) \in Int
      BY <1>5, <1>6
    <3>3. \A list : /\ Rise!Range(list) = Range(list)
                     /\ Rise!IsInjective(list) = IsInjective(list)
      BY Zenon DEF Rise!Range, Range, Rise!IsInjective, IsInjective
    <3>. QED
      BY <3>1, <3>2, <3>3, Rise!SortSorts
  <2>. QED
    BY Zenon, <2>1, <2>2
<1>. HIDE DEF buffer, f
<1>8. \A j \in DOMAIN buffer : \E k \in DOMAIN symbols : buffer[j] = symbols[k]
  BY <1>7 DEF Range
<1>9. \A j \in DOMAIN symbols : \E k \in DOMAIN buffer : symbols[j] = buffer[k]
  BY <1>7 DEF Range
<1>10. \A j, k \in DOMAIN buffer : j # k => buffer[j] # buffer[k]
  BY <1>7 DEF IsInjective
<1>11. \A j \in DOMAIN buffer : IsInjective(OriginsOf(buffer[j])) /\ buffer[j].origin.fd = g
  BY <1>2, <1>4, <1>8
<1>12. ASSUME NEW j \in DOMAIN buffer, NEW k \in DOMAIN buffer, j # k
       PROVE  Held(buffer[j]) \cap Held(buffer[k]) = {} /\ Addr(buffer[j]) # Addr(buffer[k])
  <2>1. PICK a \in DOMAIN symbols, b \in DOMAIN symbols :
          buffer[j] = symbols[a] /\ buffer[k] = symbols[b]
    BY <1>8
  <2>2. a # b
    BY <1>10, <1>12, <2>1
  <2>. QED
    BY <1>2, <2>1, <2>2
<1>13. ASSUME NEW j \in DOMAIN buffer, NEW k \in DOMAIN buffer, j < k
       PROVE  /\ AddrIn(f, buffer[j]) \in Nat /\ AddrIn(f, buffer[k]) \in Nat
              /\ AddrIn(f, buffer[j]) < AddrIn(f, buffer[k])
  <2>1. /\ Addr(buffer[j]) = AddrIn(f, buffer[j]) /\ AddrIn(f, buffer[j]) \in Nat
        /\ Addr(buffer[k]) = AddrIn(f, buffer[k]) /\ AddrIn(f, buffer[k]) \in Nat
    BY <1>4, <1>8
  <2>2. Addr(buffer[j]) <= Addr(buffer[k])
    BY <1>7, <1>13 DEF Rise!Ordered
  <2>3. j # k
    BY <1>7, <1>13
  <2>. QED
    BY <1>12, <2>1, <2>2, <2>3
<1>14. UNION {Held(s) : s \in Range(buffer)} = R
  BY <1>2, <1>7 DEF Range
<1>15. IsTable(f, g, buffer)
  BY <1>1, <1>11, <1>12, <1>13, <1>14 DEF IsTable
<1>16. buffer \in Seq(SymbolRecord)
  BY <1>2, <1>7 DEF Range
<1>. QED
  BY <1>7, <1>15, <1>16 DEF buffer, f

\* The first fetch changes nothing but the list of the file that is owned.
LEMMA FetchHolds ==
  ASSUME NEW x, Opened(files), tables \in Nat, Holds(files, x), x.symbol_buffer = <<>>,
         x.fd = 0 => x.symbol_table # <<>>
  PROVE  LET z == FetchSymbolTable(x)
         IN  /\ Holds(files, z)
             /\ z.fd = x.fd /\ z.is_valid = x.is_valid
             /\ z.symbol_buffer = <<>> /\ z.section_buffer = x.section_buffer
             /\ z.synthetic_symbol_table \in {x.synthetic_symbol_table, 0, tables + 1}
<1>. DEFINE z == FetchSymbolTable(x)
<1>1. x \in ObjectRecord /\ x.fd \in {0} \cup DOMAIN files
  BY DEF Holds
<1>2. CASE x.symbol_table # <<>> \/ NoStorage(files[x.fd])
  BY <1>2 DEF FetchSymbolTable
<1>3. CASE ~(x.symbol_table # <<>> \/ NoStorage(files[x.fd]))
  <2>. DEFINE t == IF files[x.fd].synthetic = <<>> THEN 0 ELSE tables + 1
              list == Fetched(files[x.fd], x.fd, t)
  <2>1. x.fd \in DOMAIN files /\ x.fd \in Nat /\ IsFile(files[x.fd])
    BY <1>1, <1>3 DEF Opened
  <2>2. t \in Nat /\ t \in {0, tables + 1}
    OBVIOUS
  <2>3. z = [x EXCEPT !.symbol_table = list, !.synthetic_symbol_table = t]
    BY Zenon, <1>3 DEF FetchSymbolTable
  <2>. HIDE DEF t, z
  <2>4. list \in Seq(Origin)
    BY Zenon, <2>1, <2>2, FetchedIs
  <2>5. /\ z.fd = x.fd /\ z.is_valid = x.is_valid
        /\ z.sections = x.sections /\ z.symbol_table = list
        /\ z.section_buffer = x.section_buffer /\ z.symbol_buffer = x.symbol_buffer
        /\ z.sections_sorted = x.sections_sorted /\ z.synthetic_symbol_table = t
        /\ z \in ObjectRecord
    <3>. HIDE DEF list
    <3>. QED
      BY <1>1, <2>2, <2>3, <2>4 DEF ObjectRecord
  <2>6. ListsOfFile(files, z)
    <3>1. z.sections # <<>> =>
            \E g \in DOMAIN files : Fits(g, z) /\ z.sections = FetchedSections(files[g], g)
      BY <2>5 DEF Holds, ListsOfFile, Fits
    <3>2. \E g \in DOMAIN files, u \in Nat :
            Fits(g, z) /\ z.symbol_table = Fetched(files[g], g, u)
      BY <2>1, <2>2, <2>5 DEF Fits
    <3>. QED
      BY <3>1, <3>2 DEF ListsOfFile
  <2>7. TableOfFile(files, z) /\ SectionsOfFile(files, z) /\ OrderOfSections(files, z)
    BY <2>5 DEF Holds, TableOfFile, SectionsOfFile, OrderOfSections, Fits
  <2>8. Holds(files, z)
    BY <1>1, <2>5, <2>6, <2>7 DEF Holds
  <2>. QED
    BY <2>2, <2>5, <2>8 DEF z
<1>. QED
  BY <1>2, <1>3

\* A list without symbols is built and sorted to nothing.
LEMMA NothingBuilt ==
  ASSUME NEW start \in Seq(SectionRecord)
  PROVE  /\ FoldLeft(AddSymbol, [symbols |-> <<>>, sections |-> start], <<>>)
              = [symbols |-> <<>>, sections |-> start]
         /\ ByAddress(<<>>) = <<>>
<1>. DEFINE base == [symbols |-> <<>>, sections |-> start]
            T == [n \in {0} |-> {base}]
<1>1. Len(<<>>) = 0 /\ DOMAIN <<>> = 1 .. Len(<<>>) /\ Len(<<>>) \in Nat
  OBVIOUS
<1>2. base \in T[0] /\ \A n \in 1 .. Len(<<>>) : \A v \in T[n - 1] : AddSymbol(v, <<>>[n]) \in T[n]
  BY <1>1
<1>3. AddSymbols!Folded(base, <<>>) \in T[0]
  <2>. HIDE DEF T, base
  <2>. QED
    BY <1>1, <1>2, AddSymbols!FoldSteps
<1>4. FoldLeft(AddSymbol, base, <<>>) = AddSymbols!Folded(base, <<>>)
  BY Zenon DEF AddSymbols!Folded, FoldLeft, AddSymbols!FoldLeft, MapThenFoldSet,
               AddSymbols!MapThenFoldSet, Max, AddSymbols!Max
<1>5. ByAddress(<<>>) = <<>>
  <2>1. Rise!IsInjective(<<>>) /\ <<>> \in Seq({}) /\ \A s \in {} : Addr(s) \in Int
    BY DEF Rise!IsInjective
  <2>2. Rise!Sorted(<<>>) \in Seq({}) /\ Len(Rise!Sorted(<<>>)) = Len(<<>>)
    BY Zenon, <2>1, Rise!SortSorts
  <2>3. Rise!Sorted(<<>>) = <<>>
    BY <1>1, <2>2
  <2>. QED
    BY <2>3, SortingIs DEF ByAddress
<1>. QED
  BY <1>3, <1>4, <1>5

\* A list that was fetched is built and sorted to the table of its file.
LEMMA BuildHolds ==
  ASSUME NEW z, Opened(files), Holds(files, z), z.symbol_buffer = <<>>, z.symbol_table # <<>>
  PROVE  LET built == FoldLeft(AddSymbol, [symbols |-> <<>>, sections |-> z.section_buffer],
                               z.symbol_table)
             y == [z EXCEPT !.symbol_buffer = ByAddress(built.symbols),
                            !.section_buffer = built.sections]
         IN  /\ Holds(files, y)
             /\ y.fd = z.fd /\ y.is_valid = z.is_valid
             /\ y.synthetic_symbol_table = z.synthetic_symbol_table
<1>. DEFINE built == FoldLeft(AddSymbol, [symbols |-> <<>>, sections |-> z.section_buffer],
                              z.symbol_table)
            buffer == ByAddress(built.symbols)
            y == [z EXCEPT !.symbol_buffer = buffer, !.section_buffer = built.sections]
<1>1. PICK g \in DOMAIN files, t \in Nat :
        Fits(g, z) /\ z.symbol_table = Fetched(files[g], g, t)
  BY DEF Holds, ListsOfFile
<1>2. g \in Nat \ {0} /\ IsFile(files[g])
  BY DEF Opened
<1>3. z \in ObjectRecord /\ z.section_buffer \in Seq(SectionRecord)
      /\ IsInjective(z.section_buffer) /\ z.fd \in {0} \cup DOMAIN files
  BY DEF Holds, ObjectRecord, SectionsOfFile
<1>. DEFINE R == Range(Fetched(files[g], g, t))
            homes == {HomeOf(files[g], r) : r \in R}
            start == z.section_buffer
<1>4. /\ built \in Buffers
      /\ Grouped(built.symbols, R)
      /\ Housed(built.symbols, built.sections)
      /\ Extended(built.sections, start, homes)
  BY Zenon, <1>1, <1>2, <1>3, Built
<1>. HIDE DEF built
<1>5. buffer \in Seq(SymbolRecord) /\ Range(buffer) = Range(built.symbols)
      /\ IsTable(files[g], g, buffer)
  BY Zenon, <1>4, SortedTable
<1>. HIDE DEF buffer
<1>6. /\ y.fd = z.fd /\ y.is_valid = z.is_valid
      /\ y.sections = z.sections /\ y.symbol_table = z.symbol_table
      /\ y.section_buffer = built.sections /\ y.symbol_buffer = buffer
      /\ y.sections_sorted = z.sections_sorted
      /\ y.synthetic_symbol_table = z.synthetic_symbol_table
      /\ y \in ObjectRecord
  BY <1>3, <1>4, <1>5 DEF ObjectRecord, Extended
<1>. HIDE DEF y
<1>7. ListsOfFile(files, y)
  BY <1>6 DEF Holds, ListsOfFile, Fits
<1>8. TableOfFile(files, y)
  <2>1. Housed(buffer, built.sections)
    BY ZenonT(30), <1>4, <1>5 DEF Housed, Range
  <2>2. Fits(g, y)
    BY <1>1, <1>6 DEF Fits
  <2>. QED
    BY <1>5, <1>6, <2>1, <2>2 DEF TableOfFile
<1>9. \A h \in homes : Sited(files, h) /\ h.fd \in {0, g}
                       /\ (ForeignSections(files[g]) = {} =>
                             h \in Range(FetchedSections(files[g], g)))
  <2>. SUFFICES ASSUME NEW r \in R
                PROVE  LET h == HomeOf(files[g], r) IN
                       Sited(files, h) /\ h.fd \in {0, g}
                       /\ (ForeignSections(files[g]) = {} =>
                             h \in Range(FetchedSections(files[g], g)))
    OBVIOUS
  <2>1. From(files[g], g, r)
    BY <1>2, FetchedIs
  <2>. QED
    BY <1>2, <2>1, HomeIs
<1>. HIDE DEF homes
<1>10. SectionsOfFile(files, y)
  <2>1. IsInjective(built.sections) /\ Range(built.sections) \subseteq Range(start) \cup homes
    BY <1>4 DEF Extended
  <2>2. \A s \in Range(start) : Sited(files, s) /\ (z.fd # 0 => s.fd \in {0, z.fd})
    BY DEF Holds, SectionsOfFile
  <2>3. z.fd # 0 => g = z.fd
    BY <1>1 DEF Fits
  <2>. QED
    BY <1>6, <1>9, <2>1, <2>2, <2>3 DEF SectionsOfFile
<1>11. OrderOfSections(files, y)
  <2>. SUFFICES ASSUME y.fd # 0, y.sections_sorted
                PROVE  /\ Range(FetchedSections(files[y.fd], y.fd)) \subseteq Range(y.section_buffer)
                       /\ ForeignSections(files[y.fd]) = {} => Descending(files, y.section_buffer)
    BY DEF OrderOfSections
  <2>1. g = z.fd /\ y.fd = g /\ z.fd # 0 /\ z.sections_sorted
    BY <1>1, <1>6 DEF Fits
  <2>2. /\ Range(FetchedSections(files[g], g)) \subseteq Range(start)
        /\ ForeignSections(files[g]) = {} => Descending(files, start)
    BY <2>1 DEF Holds, OrderOfSections
  <2>3. /\ Range(start) \subseteq Range(built.sections)
        /\ homes \subseteq Range(start) => built.sections = start
    BY <1>4 DEF Extended
  <2>4. ForeignSections(files[g]) = {} => homes \subseteq Range(start)
    BY <1>9, <2>2
  <2>. QED
    BY <1>6, <2>1, <2>2, <2>3, <2>4
<1>12. Holds(files, y)
  BY <1>3, <1>6, <1>7, <1>8, <1>10, <1>11 DEF Holds
<1>. QED
  BY Zenon, <1>6, <1>12 DEF y, buffer, built

LEMMA ReadSymbolsHolds ==
  ASSUME NEW x, Opened(files), tables \in Nat, Holds(files, x), SymbolsCallable(x)
  PROVE  LET y == ReadSymbols(x)
         IN  /\ Holds(files, y)
             /\ y.fd = x.fd /\ y.is_valid = x.is_valid
             /\ y.synthetic_symbol_table \in {x.synthetic_symbol_table, 0, tables + 1}
<1>. DEFINE y == ReadSymbols(x)
            z == FetchSymbolTable(x)
            built == FoldLeft(AddSymbol, [symbols |-> <<>>, sections |-> z.section_buffer],
                              z.symbol_table)
<1>1. CASE x.symbol_buffer # <<>>
  <2>1. y = x
    BY Zenon, <1>1 DEF ReadSymbols
  <2>. QED
    BY Zenon, <2>1
<1>2. CASE x.symbol_buffer = <<>>
  <2>1. x.fd = 0 => x.symbol_table # <<>>
    BY <1>2 DEF SymbolsCallable
  <2>2. /\ Holds(files, z)
        /\ z.fd = x.fd /\ z.is_valid = x.is_valid
        /\ z.symbol_buffer = <<>> /\ z.section_buffer = x.section_buffer
        /\ z.synthetic_symbol_table \in {x.synthetic_symbol_table, 0, tables + 1}
    BY Zenon, <1>2, <2>1, FetchHolds
  <2>. HIDE DEF z
  <2>3. y = [z EXCEPT !.symbol_buffer = ByAddress(built.symbols),
                      !.section_buffer = built.sections]
    BY Zenon, <1>2, <2>2 DEF ReadSymbols, z
  <2>4. CASE z.symbol_table # <<>>
    <3>1. /\ Holds(files, y)
          /\ y.fd = z.fd /\ y.is_valid = z.is_valid
          /\ y.synthetic_symbol_table = z.synthetic_symbol_table
      BY Zenon, <2>2, <2>3, <2>4, BuildHolds
    <3>. QED
      BY Zenon, <2>2, <3>1
  <2>5. CASE z.symbol_table = <<>>
    <3>1. z \in ObjectRecord /\ z.section_buffer \in Seq(SectionRecord)
      BY <2>2 DEF Holds, ObjectRecord
    <3>2. built = [symbols |-> <<>>, sections |-> z.section_buffer] /\ ByAddress(<<>>) = <<>>
      BY Zenon, <2>5, <3>1, NothingBuilt
    <3>3. built.symbols = <<>> /\ built.sections = z.section_buffer
      BY <3>2
    <3>4. y = [z EXCEPT !.symbol_buffer = z.symbol_buffer,
                        !.section_buffer = z.section_buffer]
      BY Zenon, <2>2, <2>3, <3>2, <3>3
    <3>. HIDE DEF y
    <3>5. y = z
      BY <3>1, <3>4 DEF ObjectRecord
    <3>. QED
      BY Zenon, <2>2, <3>5 DEF y
  <2>. QED
    BY <2>4, <2>5
<1>. QED
  BY <1>1, <1>2

\* The sections of the file are all there, and sorted if they were not yet.
LEMMA ReadSectionsHolds ==
  ASSUME NEW x, Opened(files), Holds(files, x), SectionsCallable(x)
  PROVE  LET y == ReadSections(x)
         IN  /\ Holds(files, y)
             /\ y.fd = x.fd /\ y.is_valid = x.is_valid
             /\ y.synthetic_symbol_table = x.synthetic_symbol_table
             /\ y.symbol_table = x.symbol_table /\ y.symbol_buffer = x.symbol_buffer
             /\ y.sections_sorted /\ y.sections # <<>>
             /\ Range(y.section_buffer) = Range(x.section_buffer) \cup Range(y.sections)
<1>. DEFINE y == ReadSections(x)
            z == FetchSections(x)
            start == x.section_buffer
            all == FoldLeft(AddSection, start, z.sections)
            buffer == IF x.sections_sorted THEN all ELSE Falling!Sorted(all)
<1>1. x \in ObjectRecord /\ x.fd \in {0} \cup DOMAIN files
      /\ start \in Seq(SectionRecord) /\ IsInjective(start)
      /\ \A s \in Range(start) : Sited(files, s) /\ (x.fd # 0 => s.fd \in {0, x.fd})
  BY DEF Holds, SectionsOfFile, ObjectRecord
<1>2. PICK g \in DOMAIN files :
        /\ Fits(g, x)
        /\ z.sections = FetchedSections(files[g], g)
        /\ z = [x EXCEPT !.sections = FetchedSections(files[g], g)]
  <2>1. CASE x.sections # <<>>
    <3>1. PICK g \in DOMAIN files : Fits(g, x) /\ x.sections = FetchedSections(files[g], g)
      BY <2>1 DEF Holds, ListsOfFile
    <3>2. z = x /\ x = [x EXCEPT !.sections = x.sections]
      BY <1>1, <2>1 DEF FetchSections, ObjectRecord
    <3>. QED
      BY Zenon, <3>1, <3>2
  <2>2. CASE x.sections = <<>>
    <3>1. x.fd \in DOMAIN files /\ Fits(x.fd, x)
      BY <1>1, <2>2 DEF SectionsCallable, Fits
    <3>2. z = [x EXCEPT !.sections = FetchedSections(files[x.fd], x.fd)]
      BY Zenon, <2>2 DEF FetchSections
    <3>3. z.sections = FetchedSections(files[x.fd], x.fd)
      <4>. DEFINE list == FetchedSections(files[x.fd], x.fd)
      <4>. HIDE DEF list, z
      <4>. QED
        BY <1>1, <3>2 DEF ObjectRecord, list
    <3>. QED
      BY Zenon, <3>1, <3>2, <3>3
  <2>. QED
    BY <2>1, <2>2
<1>. DEFINE list == FetchedSections(files[g], g)
<1>3. /\ g \in Nat \ {0} /\ IsFile(files[g])
      /\ list \in Seq(SectionRecord) /\ list # <<>>
      /\ \A s \in Range(list) : Sited(files, s) /\ s.fd \in {0, g}
  <2>1. g \in Nat \ {0} /\ IsFile(files[g])
    BY DEF Opened
  <2>. QED
    BY Zenon, <2>1, SectionsAre
<1>. HIDE DEF list, z
<1>4. /\ all \in Seq(SectionRecord) /\ IsInjective(all)
      /\ Range(all) = Range(start) \cup Range(list)
      /\ Range(list) \subseteq Range(start) => all = start
  <2>. DEFINE gathered == FoldLeft(AddSection, start, list)
  <2>1. all = gathered
    BY Zenon, <1>2 DEF list
  <2>. HIDE DEF all
  <2>2. /\ gathered \in Seq(SectionRecord) /\ IsInjective(gathered)
        /\ Range(gathered) = Range(start) \cup Range(list)
        /\ Range(list) \subseteq Range(start) => gathered = start
    BY Zenon, <1>1, <1>3, Gathered
  <2>. QED
    BY Zenon, <2>1, <2>2
<1>. HIDE DEF all
<1>5. /\ Falling!Sorted(all) \in Seq(Range(all)) /\ IsInjective(Falling!Sorted(all))
      /\ Range(Falling!Sorted(all)) = Range(all) /\ Descending(files, Falling!Sorted(all))
  <2>. DEFINE S == Range(all)
              sorted == Falling!Sorted(all)
  <2>1. \A s \in S : Sited(files, s)
    BY <1>1, <1>3, <1>4
  <2>2. ASSUME NEW s \in S PROVE Vma(s) = VmaIn(files, s) /\ Vma(s) \in Int
    <3>1. s.fd # 0 => s.fd \in DOMAIN files /\ s.s \in DOMAIN files[s.fd].secs
      BY <2>1 DEF Sited
    <3>2. \A h \in DOMAIN files : files[h].secs \in Seq(Nat)
      BY DEF Opened, IsFile
    <3>. QED
      BY <3>1, <3>2 DEF Vma, VmaIn
  <2>3. all \in Seq(S)
    BY <1>4 DEF Range
  <2>. HIDE DEF S
  <2>4. \A s \in S : Depth(s) \in Int
    BY <2>2 DEF Depth
  <2>5. /\ Fall!Sorted(all) \in Seq(S) /\ Fall!Ordered(Fall!Sorted(all))
        /\ IsInjective(Fall!Sorted(all)) /\ Range(Fall!Sorted(all)) = Range(all)
    <3>1. \A l : /\ Fall!Range(l) = Range(l)
                 /\ Fall!IsInjective(l) = IsInjective(l)
      BY Zenon DEF Fall!Range, Range, Fall!IsInjective, IsInjective
    <3>. QED
      BY <1>4, <2>3, <2>4, <3>1, Fall!SortSorts
  <2>6. sorted \in Seq(S) /\ Fall!Ordered(sorted)
        /\ IsInjective(sorted) /\ Range(sorted) = Range(all)
    BY Zenon, <2>5, SortingIs
  <2>. HIDE DEF sorted
  <2>7. Descending(files, sorted)
    <3>. SUFFICES ASSUME NEW i \in DOMAIN sorted, NEW j \in DOMAIN sorted, i < j
                  PROVE  VmaIn(files, sorted[i]) >= VmaIn(files, sorted[j])
      BY DEF Descending
    <3>1. Depth(sorted[i]) <= Depth(sorted[j])
      BY <2>6 DEF Fall!Ordered
    <3>2. sorted[i] \in S /\ sorted[j] \in S
      BY <2>6
    <3>. QED
      BY <2>2, <3>1, <3>2 DEF Depth
  <2>. QED
    BY Zenon, <2>6, <2>7 DEF sorted, S
<1>6. buffer \in Seq(SectionRecord) /\ IsInjective(buffer) /\ Range(buffer) = Range(all)
      /\ (~x.sections_sorted => Descending(files, buffer))
      /\ (x.sections_sorted => buffer = all)
  <2>1. Falling!Sorted(all) \in Seq(SectionRecord)
    <3>. DEFINE sorted == Falling!Sorted(all)
    <3>1. sorted \in Seq(Range(all)) /\ Range(all) \subseteq SectionRecord
      BY <1>4, <1>5 DEF Range
    <3>. HIDE DEF sorted
    <3>2. sorted \in Seq(SectionRecord)
      BY <3>1
    <3>. QED
      BY <3>2 DEF sorted
  <2>2. CASE x.sections_sorted
    BY Zenon, <1>4, <2>2
  <2>3. CASE ~x.sections_sorted
    BY Zenon, <1>5, <2>1, <2>3
  <2>. QED
    BY <2>2, <2>3
<1>7. y = [z EXCEPT !.section_buffer = buffer, !.sections_sorted = TRUE]
  BY Zenon DEF ReadSections, z, all
<1>. HIDE DEF buffer, y
<1>8. /\ y \in ObjectRecord /\ y.fd = x.fd /\ y.is_valid = x.is_valid
      /\ y.synthetic_symbol_table = x.synthetic_symbol_table
      /\ y.sections = list /\ y.symbol_table = x.symbol_table
      /\ y.section_buffer = buffer /\ y.symbol_buffer = x.symbol_buffer
      /\ y.sections_sorted = TRUE
  <2>1. z = [x EXCEPT !.sections = list]
    BY Zenon, <1>2 DEF list
  <2>. QED
    BY <1>1, <1>3, <1>6, <1>7, <2>1 DEF ObjectRecord
<1>9. ListsOfFile(files, y)
  <2>1. Fits(g, y)
    BY <1>2, <1>8 DEF Fits
  <2>2. y.symbol_table # <<>> =>
          \E h \in DOMAIN files, u \in Nat : Fits(h, y) /\ y.symbol_table = Fetched(files[h], h, u)
    BY <1>8 DEF Holds, ListsOfFile, Fits
  <2>. QED
    BY <1>8, <2>1, <2>2 DEF ListsOfFile, list
<1>10. TableOfFile(files, y)
  BY <1>4, <1>6, <1>8 DEF Holds, TableOfFile, Housed, Fits
<1>11. SectionsOfFile(files, y)
  <2>1. x.fd # 0 => g = x.fd
    BY <1>2 DEF Fits
  <2>. QED
    BY <1>1, <1>3, <1>4, <1>6, <1>8, <2>1 DEF SectionsOfFile
<1>12. OrderOfSections(files, y)
  <2>. SUFFICES ASSUME y.fd # 0
                PROVE  /\ Range(FetchedSections(files[y.fd], y.fd)) \subseteq Range(y.section_buffer)
                       /\ ForeignSections(files[y.fd]) = {} => Descending(files, y.section_buffer)
    BY DEF OrderOfSections
  <2>1. y.fd = g /\ x.fd = g /\ x.fd # 0
    BY <1>2, <1>8 DEF Fits
  <2>2. Range(list) \subseteq Range(buffer)
    BY <1>4, <1>6
  <2>3. ASSUME x.sections_sorted, ForeignSections(files[g]) = {} PROVE Descending(files, buffer)
    <3>1. Range(list) \subseteq Range(start) /\ Descending(files, start)
      BY <2>1, <2>3 DEF Holds, OrderOfSections, list
    <3>. QED
      BY <1>4, <1>6, <2>3, <3>1
  <2>. QED
    BY <1>6, <1>8, <2>1, <2>2, <2>3 DEF list
<1>13. Holds(files, y)
  BY <1>1, <1>8, <1>9, <1>10, <1>11, <1>12 DEF Holds
<1>14. /\ y.sections # <<>> /\ y.sections_sorted
       /\ Range(y.section_buffer) = Range(start) \cup Range(y.sections)
  BY Zenon, <1>3, <1>4, <1>6, <1>8
<1>. QED
  BY Zenon, <1>8, <1>13, <1>14 DEF y

-----------------------------------------------------------------------------
(* The inductive invariant.                                                *)

Sound(fs, n, x) ==
  /\ Holds(fs, x)
  /\ x.synthetic_symbol_table \in 0 .. n
  /\ x.fd # 0 => x.is_valid

\* Everything but the objects.
Around ==
  /\ files \in Seq(Files) /\ Len(files) <= MaxOpens
  /\ closed \subseteq DOMAIN files
  /\ tables \in 0 .. MaxTables
  /\ answer.by \in Objects \cup {"nobody"} /\ answer.threw \in BOOLEAN
  /\ answer.to \in {"nothing", "symbols", "table", "sections"}

ObjectsSound ==
  /\ DOMAIN objs \subseteq Objects /\ objs \in [DOMAIN objs -> ObjectRecord]
  /\ \A o \in DOMAIN objs : Sound(files, tables, objs[o])

Owners ==
  \A o \in DOMAIN objs : objs[o].fd # 0 =>
    /\ objs[o].fd \notin closed
    /\ \A p \in DOMAIN objs : objs[p].fd = objs[o].fd => p = o

Inv == Around /\ ObjectsSound /\ Owners

LEMMA InvOpened ==
  ASSUME Inv
  PROVE  /\ Opened(files) /\ tables \in Nat /\ DOMAIN files = 1 .. Len(files)
         /\ Len(files) \in Nat
<1>1. files \in Seq(Files) /\ tables \in Nat
  BY BoundsAssumption DEF Inv, Around
<1>2. \A g \in DOMAIN files : files[g] \in Files /\ g \in Nat \ {0}
  BY <1>1
<1>3. Opened(files)
  BY <1>2, FilesAssumption DEF Opened
<1>. QED
  BY <1>1, <1>3

LEMMA SoundFacts ==
  ASSUME Inv, NEW o \in DOMAIN objs
  PROVE  /\ objs[o] \in ObjectRecord /\ o \in Objects
         /\ objs[o].fd \in {0} \cup DOMAIN files
         /\ Holds(files, objs[o])
         /\ objs[o].synthetic_symbol_table \in 0 .. tables
         /\ objs[o].fd # 0 => objs[o].is_valid
  BY DEF Inv, ObjectsSound, Sound, Holds

LEMMA InitInv == Init => Inv
<1>. SUFFICES ASSUME Init PROVE Inv
  OBVIOUS
<1>1. DOMAIN objs = {} /\ objs \in [DOMAIN objs -> ObjectRecord]
  <2>1. objs = <<>> /\ <<>> \in Seq(ObjectRecord) /\ DOMAIN <<>> = {}
    BY DEF Init
  <2>. QED
    BY <2>1
<1>2. Around
  BY BoundsAssumption DEF Init, Around, None
<1>. QED
  BY <1>1, <1>2 DEF Inv, ObjectsSound, Owners

\* The objects that a step leaves alone.
LEMMA StaysSound ==
  ASSUME NEW fs, NEW new, DOMAIN fs \subseteq DOMAIN new, \A g \in DOMAIN fs : new[g] = fs[g],
         0 \notin DOMAIN fs, NEW m \in Nat, NEW n \in Nat, m <= n,
         NEW x, Sound(fs, m, x)
  PROVE  Sound(new, n, x)
<1>1. Holds(fs, x) /\ x.synthetic_symbol_table \in 0 .. n /\ (x.fd # 0 => x.is_valid)
  BY DEF Sound
<1>2. Holds(new, x)
  BY <1>1, FilesGrow
<1>. QED
  BY <1>1, <1>2 DEF Sound

LEMMA NewSound ==
  ASSUME NEW fs, NEW n \in Nat, NEW fd \in Nat, fd \in {0} \cup DOMAIN fs
  PROVE  Sound(fs, n, NewObject(fd)) /\ NewObject(fd).fd = fd
<1>1. Holds(fs, NewObject(fd))
  BY NewHolds
<1>2. /\ NewObject(fd).fd = fd /\ (fd # 0 => NewObject(fd).is_valid)
      /\ NewObject(fd).synthetic_symbol_table = 0
  BY DEF NewObject
<1>. QED
  BY <1>1, <1>2 DEF Sound

LEMMA MovedFromSound ==
  ASSUME NEW fs, NEW n \in Nat, NEW x, Sound(fs, n, x)
  PROVE  Sound(fs, n, MovedFrom(x)) /\ MovedFrom(x).fd = 0
<1>1. x \in ObjectRecord /\ Holds(fs, x) /\ x.synthetic_symbol_table \in 0 .. n
  BY DEF Sound, Holds
<1>2. Holds(fs, MovedFrom(x))
  BY <1>1, MovedFromHolds
<1>3. /\ MovedFrom(x).fd = 0
      /\ MovedFrom(x).synthetic_symbol_table = x.synthetic_symbol_table
  BY <1>1 DEF MovedFrom, ObjectRecord
<1>. QED
  BY <1>1, <1>2, <1>3 DEF Sound

\* What the move constructor and the assignment make of the other object.
LEMMA MovedToSound ==
  ASSUME NEW fs, NEW n \in Nat, NEW x, Sound(fs, n, x)
  PROVE  /\ LET y == [x EXCEPT !.sections = <<>>, !.symbol_table = <<>>,
                               !.synthetic_symbol_table = 0]
            IN  Sound(fs, n, y) /\ y.fd = x.fd
         /\ Sound(fs, n, SelfMoved(x))
         /\ \A w \in ObjectRecord : Sound(fs, n, Assigned(w, x)) /\ Assigned(w, x).fd = x.fd
<1>1. /\ x \in ObjectRecord /\ Holds(fs, x) /\ x.synthetic_symbol_table \in 0 .. n
      /\ x.fd # 0 => x.is_valid
  BY DEF Sound, Holds
<1>2. ASSUME NEW y \in ObjectRecord,
             y.fd = x.fd, y.sections = <<>>, y.symbol_table = <<>>,
             y.section_buffer = x.section_buffer, y.symbol_buffer = x.symbol_buffer,
             y.sections_sorted = x.sections_sorted, y.is_valid = x.is_valid,
             y.synthetic_symbol_table = 0
      PROVE  Sound(fs, n, y)
  <2>1. Holds(fs, y)
    BY <1>1, <1>2, MovedToHolds
  <2>. QED
    BY <1>1, <1>2, <2>1 DEF Sound
<1>3. <<>> \in Seq(SectionRecord) /\ <<>> \in Seq(Origin) /\ 0 \in Nat
  OBVIOUS
<1>4. Sound(fs, n, SelfMoved(x)) /\ SelfMoved(x).fd = x.fd
  <2>. DEFINE y == SelfMoved(x)
  <2>1. y = [x EXCEPT !.sections = <<>>, !.symbol_table = <<>>, !.synthetic_symbol_table = 0]
    BY DEF SelfMoved
  <2>. HIDE DEF y
  <2>2. /\ y \in ObjectRecord
        /\ y.fd = x.fd /\ y.sections = <<>> /\ y.symbol_table = <<>>
        /\ y.section_buffer = x.section_buffer /\ y.symbol_buffer = x.symbol_buffer
        /\ y.sections_sorted = x.sections_sorted /\ y.is_valid = x.is_valid
        /\ y.synthetic_symbol_table = 0
    BY <1>1, <1>3, <2>1 DEF ObjectRecord
  <2>3. Sound(fs, n, y)
    BY <1>2, <2>2
  <2>. QED
    BY <2>2, <2>3 DEF y
<1>5. ASSUME NEW w \in ObjectRecord
      PROVE  Sound(fs, n, Assigned(w, x)) /\ Assigned(w, x).fd = x.fd
  <2>. DEFINE v == SelfMoved(w)
              y == Assigned(w, x)
  <2>1. v = [w EXCEPT !.sections = <<>>, !.symbol_table = <<>>, !.synthetic_symbol_table = 0]
    BY DEF SelfMoved
  <2>2. y = [v EXCEPT !.fd = x.fd, !.is_valid = x.is_valid,
                      !.sections_sorted = x.sections_sorted,
                      !.section_buffer = x.section_buffer, !.symbol_buffer = x.symbol_buffer]
    BY DEF Assigned
  <2>. HIDE DEF v, y
  <2>3. v \in ObjectRecord /\ v.sections = <<>> /\ v.symbol_table = <<>>
        /\ v.synthetic_symbol_table = 0
    BY <1>3, <2>1 DEF ObjectRecord
  <2>4. /\ y \in ObjectRecord
        /\ y.fd = x.fd /\ y.sections = <<>> /\ y.symbol_table = <<>>
        /\ y.section_buffer = x.section_buffer /\ y.symbol_buffer = x.symbol_buffer
        /\ y.sections_sorted = x.sections_sorted /\ y.is_valid = x.is_valid
        /\ y.synthetic_symbol_table = 0
    BY <1>1, <2>2, <2>3 DEF ObjectRecord
  <2>5. Sound(fs, n, y)
    BY <1>2, <2>4
  <2>. QED
    BY <2>4, <2>5 DEF y
<1>. QED
  BY Zenon, <1>4, <1>5 DEF SelfMoved

-----------------------------------------------------------------------------
(* Each operation keeps it.                                                *)

LEMMA OpenInv ==
  ASSUME Inv, NEW o \in Objects, NEW f \in Files, Open(o, f)
  PROVE  Inv'
<1>. DEFINE n == Len(files) + 1
            x == NewObject(n)
<1>1. /\ o \notin DOMAIN objs /\ Len(files) < MaxOpens
      /\ files' = Append(files, f) /\ objs' = Placed(x, o)
      /\ answer' = None /\ closed' = closed /\ tables' = tables
  BY DEF Open
<1>2. /\ Opened(files) /\ tables \in Nat /\ DOMAIN files = 1 .. Len(files)
      /\ Len(files) \in Nat /\ files \in Seq(Files)
  BY InvOpened DEF Inv, Around
<1>3. /\ files' \in Seq(Files) /\ Len(files') = n /\ DOMAIN files' = 1 .. n
      /\ \A g \in DOMAIN files : g \in DOMAIN files' /\ files'[g] = files[g]
  BY <1>1, <1>2
<1>4. n \in Nat \ {0} /\ n \in DOMAIN files' /\ n \notin DOMAIN files /\ 0 \notin DOMAIN files
  BY <1>2, <1>3
<1>5. Sound(files', tables', x) /\ x.fd = n
  BY <1>1, <1>2, <1>4, NewSound
<1>. HIDE DEF x
<1>6. /\ DOMAIN objs' = DOMAIN objs \cup {o}
      /\ objs' = [p \in DOMAIN objs' |-> objs'[p]]
      /\ objs'[o] = x
      /\ \A p \in DOMAIN objs : p # o => objs'[p] = objs[p]
  BY <1>1 DEF Placed
<1>7. ASSUME NEW p \in DOMAIN objs
      PROVE  /\ Sound(files', tables', objs[p]) /\ objs'[p] = objs[p]
             /\ objs[p].fd \in {0} \cup DOMAIN files
  <2>1. Sound(files, tables, objs[p])
    BY DEF Inv, ObjectsSound
  <2>2. Sound(files', tables', objs[p])
    <3>1. DOMAIN files \subseteq DOMAIN files' /\ \A g \in DOMAIN files : files'[g] = files[g]
      BY <1>3
    <3>2. tables \in Nat /\ tables' \in Nat /\ tables <= tables'
      BY <1>1, <1>2
    <3>. QED
      BY Zenon, <1>4, <2>1, <3>1, <3>2, StaysSound
  <2>. QED
    BY <1>1, <1>6, <2>1, <2>2 DEF Sound, Holds
<1>8. Around'
  <2>1. tables \in 0 .. MaxTables /\ closed \subseteq DOMAIN files
    BY DEF Inv, Around
  <2>. QED
    BY <1>1, <1>2, <1>3, <2>1, BoundsAssumption DEF Around, None
<1>9. ObjectsSound'
  <2>1. \A p \in DOMAIN objs' : Sound(files', tables', objs'[p]) /\ objs'[p] \in ObjectRecord
    BY <1>5, <1>6, <1>7 DEF Sound, Holds
  <2>2. DOMAIN objs' \subseteq Objects
    BY <1>6 DEF Inv, ObjectsSound
  <2>. QED
    BY <1>6, <2>1, <2>2 DEF ObjectsSound
<1>10. Owners'
  <2>1. closed \subseteq DOMAIN files
    BY DEF Inv, Around
  <2>. QED
    BY <1>1, <1>4, <1>5, <1>6, <1>7, <2>1 DEF Inv, Owners
<1>. QED
  BY <1>8, <1>9, <1>10 DEF Inv

LEMMA OpenThrowsInv ==
  ASSUME Inv, NEW f \in Files, OpenThrows(f)
  PROVE  Inv'
<1>1. /\ Len(files) < MaxOpens
      /\ files' = IF f.state = "other" THEN Append(files, f) ELSE files
      /\ closed' = closed \cup (DOMAIN files' \ DOMAIN files)
      /\ answer' = None /\ tables' = tables /\ objs' = objs
  BY DEF OpenThrows
<1>2. /\ Opened(files) /\ tables \in Nat /\ DOMAIN files = 1 .. Len(files)
      /\ Len(files) \in Nat /\ files \in Seq(Files) /\ closed \subseteq DOMAIN files
  BY InvOpened DEF Inv, Around
<1>3. /\ files' \in Seq(Files) /\ Len(files') <= MaxOpens
      /\ \A g \in DOMAIN files : g \in DOMAIN files' /\ files'[g] = files[g]
  <2>1. CASE f.state = "other"
    BY <1>1, <1>2, <2>1, BoundsAssumption
  <2>2. CASE f.state # "other"
    BY <1>1, <1>2, <2>2, BoundsAssumption
  <2>. QED
    BY <2>1, <2>2
<1>4. ASSUME NEW p \in DOMAIN objs PROVE Sound(files', tables', objs[p])
  <2>1. Sound(files, tables, objs[p])
    BY DEF Inv, ObjectsSound
  <2>2. /\ DOMAIN files \subseteq DOMAIN files' /\ \A g \in DOMAIN files : files'[g] = files[g]
        /\ 0 \notin DOMAIN files
    BY <1>2, <1>3
  <2>3. tables \in Nat /\ tables' \in Nat /\ tables <= tables'
    BY <1>1, <1>2
  <2>. QED
    BY Zenon, <2>1, <2>2, <2>3, StaysSound
<1>5. Around'
  BY <1>1, <1>2, <1>3 DEF Inv, Around, None
<1>6. ObjectsSound'
  BY <1>1, <1>4 DEF Inv, ObjectsSound
<1>7. Owners'
  BY <1>1, <1>2, SoundFacts DEF Inv, Owners
<1>. QED
  BY <1>5, <1>6, <1>7 DEF Inv

LEMMA WrapInv ==
  ASSUME Inv, NEW o \in Objects, Wrap(o)
  PROVE  Inv'
<1>. DEFINE x == NewObject(0)
<1>1. /\ o \notin DOMAIN objs /\ objs' = Placed(x, o)
      /\ answer' = None /\ files' = files /\ closed' = closed /\ tables' = tables
  BY DEF Wrap
<1>2. tables \in Nat
  BY InvOpened
<1>3. Sound(files', tables', x) /\ x.fd = 0
  BY <1>1, <1>2, NewSound
<1>. HIDE DEF x
<1>4. /\ DOMAIN objs' = DOMAIN objs \cup {o}
      /\ objs' = [p \in DOMAIN objs' |-> objs'[p]]
      /\ objs'[o] = x
      /\ \A p \in DOMAIN objs : p # o => objs'[p] = objs[p]
  BY <1>1 DEF Placed
<1>5. Around'
  BY <1>1 DEF Inv, Around, None
<1>6. ObjectsSound'
  <2>1. \A p \in DOMAIN objs' : Sound(files', tables', objs'[p]) /\ objs'[p] \in ObjectRecord
    BY <1>1, <1>3, <1>4 DEF Inv, ObjectsSound, Sound, Holds
  <2>. QED
    BY <1>4, <2>1 DEF Inv, ObjectsSound
<1>7. Owners'
  BY <1>1, <1>3, <1>4 DEF Inv, Owners
<1>. QED
  BY <1>5, <1>6, <1>7 DEF Inv

LEMMA DestroyInv ==
  ASSUME Inv, NEW o \in Objects, Destroy(o)
  PROVE  Inv'
<1>1. /\ o \in DOMAIN objs
      /\ objs' = [p \in DOMAIN objs \ {o} |-> objs[p]]
      /\ closed' = closed \cup ({objs[o].fd} \ {0})
      /\ answer' = None /\ files' = files /\ tables' = tables
  BY DEF Destroy
<1>2. objs[o].fd \in {0} \cup DOMAIN files
  BY <1>1, SoundFacts
<1>3. Around'
  BY <1>1, <1>2 DEF Inv, Around, None
<1>4. ObjectsSound'
  BY <1>1 DEF Inv, ObjectsSound
<1>5. Owners'
  BY <1>1 DEF Inv, Owners
<1>. QED
  BY <1>3, <1>4, <1>5 DEF Inv

LEMMA MoveConstructInv ==
  ASSUME Inv, NEW o \in Objects, NEW rhs \in Objects, MoveConstruct(o, rhs)
  PROVE  Inv'
<1>. DEFINE x == objs[rhs]
            y == [x EXCEPT !.sections = <<>>, !.symbol_table = <<>>,
                           !.synthetic_symbol_table = 0]
            z == MovedFrom(x)
<1>1. /\ o \notin DOMAIN objs /\ rhs \in DOMAIN objs
      /\ objs' = [Placed(y, o) EXCEPT ![rhs] = MovedFrom(@)]
      /\ answer' = None /\ files' = files /\ closed' = closed /\ tables' = tables
  BY DEF MoveConstruct
<1>2. tables \in Nat /\ Sound(files, tables, x)
  BY <1>1, InvOpened DEF Inv, ObjectsSound
<1>3. /\ Sound(files, tables, y) /\ y.fd = x.fd
      /\ Sound(files, tables, z) /\ z.fd = 0
  BY Zenon, <1>2, MovedToSound, MovedFromSound
<1>4. Placed(y, o)[rhs] = x /\ DOMAIN Placed(y, o) = DOMAIN objs \cup {o}
  BY <1>1 DEF Placed
<1>. HIDE DEF y, z
<1>5. /\ DOMAIN objs' = DOMAIN objs \cup {o}
      /\ objs' = [p \in DOMAIN objs' |-> objs'[p]]
      /\ objs'[o] = y /\ objs'[rhs] = z
      /\ \A p \in DOMAIN objs : p # rhs => objs'[p] = objs[p]
  BY <1>1, <1>4 DEF Placed, z
<1>6. Around'
  BY <1>1 DEF Inv, Around, None
<1>7. ObjectsSound'
  <2>1. \A p \in DOMAIN objs' : Sound(files', tables', objs'[p]) /\ objs'[p] \in ObjectRecord
    BY <1>1, <1>3, <1>5 DEF Inv, ObjectsSound, Sound, Holds
  <2>. QED
    BY <1>5, <2>1 DEF Inv, ObjectsSound
<1>8. Owners'
  BY <1>1, <1>3, <1>5 DEF Inv, Owners
<1>. QED
  BY <1>6, <1>7, <1>8 DEF Inv

LEMMA MoveAssignInv ==
  ASSUME Inv, NEW o \in Objects, NEW rhs \in Objects, MoveAssign(o, rhs)
  PROVE  Inv'
<1>1. /\ o \in DOMAIN objs /\ rhs \in DOMAIN objs
      /\ answer' = None /\ files' = files /\ closed' = closed /\ tables' = tables
  BY DEF MoveAssign
<1>2. tables \in Nat /\ Sound(files, tables, objs[o]) /\ Sound(files, tables, objs[rhs])
      /\ objs[o] \in ObjectRecord /\ objs \in [DOMAIN objs -> ObjectRecord]
  BY <1>1, InvOpened, SoundFacts DEF Inv, ObjectsSound
<1>3. PICK y, z :
        /\ Sound(files, tables, y) /\ Sound(files, tables, z) /\ z.fd = 0
        /\ o # rhs => y.fd = objs[rhs].fd
        /\ o = rhs => y = z
        /\ objs' = [objs EXCEPT ![o] = y, ![rhs] = z]
  <2>1. CASE o = rhs
    <3>. DEFINE z == MovedFrom(SelfMoved(objs[o]))
    <3>1. Sound(files, tables, z) /\ z.fd = 0
      <4>. DEFINE x == SelfMoved(objs[o])
      <4>1. Sound(files, tables, x)
        BY Zenon, <1>2, MovedToSound
      <4>. HIDE DEF x
      <4>2. Sound(files, tables, MovedFrom(x)) /\ MovedFrom(x).fd = 0
        BY Zenon, <1>2, <4>1, MovedFromSound
      <4>. QED
        BY Zenon, <4>2 DEF x
    <3>2. objs' = [objs EXCEPT ![o] = z]
      BY <2>1 DEF MoveAssign
    <3>. HIDE DEF z
    <3>3. objs' = [objs EXCEPT ![o] = z, ![rhs] = z]
      BY <1>1, <1>2, <2>1, <3>2
    <3>. QED
      BY Zenon, <2>1, <3>1, <3>3
  <2>2. CASE o # rhs
    <3>. DEFINE y == Assigned(objs[o], objs[rhs])
                z == MovedFrom(objs[rhs])
    <3>1. Sound(files, tables, z) /\ z.fd = 0 /\ Sound(files, tables, y) /\ y.fd = objs[rhs].fd
      <4>1. Sound(files, tables, z) /\ z.fd = 0
        BY Zenon, <1>2, MovedFromSound
      <4>2. Sound(files, tables, y) /\ y.fd = objs[rhs].fd
        <5>. DEFINE w == objs[o]
                    x == objs[rhs]
        <5>1. tables \in Nat /\ Sound(files, tables, x) /\ w \in ObjectRecord
          BY <1>2
        <5>. HIDE DEF w, x
        <5>2. \A v \in ObjectRecord :
                Sound(files, tables, Assigned(v, x)) /\ Assigned(v, x).fd = x.fd
          BY Zenon, <5>1, MovedToSound
        <5>. QED
          BY Zenon, <5>1, <5>2 DEF w, x
      <4>. QED
        BY Zenon, <4>1, <4>2
    <3>2. objs' = [objs EXCEPT ![o] = y, ![rhs] = z]
      BY <2>2 DEF MoveAssign
    <3>. HIDE DEF y, z
    <3>. QED
      BY Zenon, <2>2, <3>1, <3>2
  <2>. QED
    BY <2>1, <2>2
<1>4. /\ DOMAIN objs' = DOMAIN objs
      /\ objs' = [p \in DOMAIN objs' |-> objs'[p]]
      /\ objs'[o] = y /\ objs'[rhs] = z
      /\ \A p \in DOMAIN objs : p \notin {o, rhs} => objs'[p] = objs[p]
  BY <1>1, <1>2, <1>3
<1>5. Around'
  BY <1>1 DEF Inv, Around, None
<1>6. ObjectsSound'
  <2>1. \A p \in DOMAIN objs' : Sound(files', tables', objs'[p]) /\ objs'[p] \in ObjectRecord
    BY <1>1, <1>3, <1>4 DEF Inv, ObjectsSound, Sound, Holds
  <2>. QED
    BY <1>4, <2>1 DEF Inv, ObjectsSound
<1>7. Owners'
  BY <1>1, <1>3, <1>4 DEF Inv, Owners
<1>. QED
  BY <1>5, <1>6, <1>7 DEF Inv

\* getSymbolTable and generate_table change the same.
LEMMA SymbolsInv ==
  ASSUME Inv, NEW o \in Objects, GetSymbolTable(o) \/ GenerateTable(o)
  PROVE  Inv'
<1>. DEFINE x == objs[o]
            y == ReadSymbols(x)
<1>1. /\ o \in DOMAIN objs /\ SymbolsCallable(x)
      /\ objs' = [objs EXCEPT ![o] = y]
      /\ tables' = Max({tables, objs'[o].synthetic_symbol_table})
      /\ tables' <= MaxTables
      /\ files' = files /\ closed' = closed
  BY DEF GetSymbolTable, GenerateTable
<1>2. /\ answer'.by = o /\ answer'.threw = FALSE /\ answer'.to \in {"symbols", "table"}
  <2>1. CASE GetSymbolTable(o)
    BY <2>1 DEF GetSymbolTable, Answer
  <2>2. CASE GenerateTable(o)
    BY <2>2 DEF GenerateTable, Answer
  <2>. QED
    BY <2>1, <2>2
<1>3. Opened(files) /\ tables \in Nat /\ MaxTables \in Nat
      /\ objs \in [DOMAIN objs -> ObjectRecord]
  BY InvOpened, BoundsAssumption DEF Inv, ObjectsSound
<1>4. /\ x \in ObjectRecord /\ Holds(files, x)
      /\ x.synthetic_symbol_table \in 0 .. tables
      /\ x.fd # 0 => x.is_valid
  BY <1>1, SoundFacts
<1>5. /\ Holds(files, y)
      /\ y.fd = x.fd /\ y.is_valid = x.is_valid
      /\ y.synthetic_symbol_table \in {x.synthetic_symbol_table, 0, tables + 1}
  BY Zenon, <1>1, <1>3, <1>4, ReadSymbolsHolds
<1>. HIDE DEF y
<1>6. /\ DOMAIN objs' = DOMAIN objs
      /\ objs' = [p \in DOMAIN objs' |-> objs'[p]]
      /\ objs'[o] = y
      /\ \A p \in DOMAIN objs : p # o => objs'[p] = objs[p]
  BY <1>1, <1>3
<1>7. tables' \in 0 .. MaxTables /\ tables <= tables' /\ y.synthetic_symbol_table \in 0 .. tables'
  <2>. DEFINE n == y.synthetic_symbol_table
  <2>1. n \in Nat
    BY <1>3, <1>4, <1>5
  <2>2. tables' = Max({tables, n})
    BY <1>1, <1>6
  <2>. HIDE DEF n
  <2>3. tables' \in {tables, n} /\ tables' >= tables /\ tables' >= n
    BY <1>3, <2>1, <2>2, MaxOfTwo
  <2>. QED
    BY <1>1, <1>3, <2>1, <2>3 DEF n
<1>8. ASSUME NEW p \in DOMAIN objs' PROVE Sound(files', tables', objs'[p])
  <2>1. CASE p = o
    BY <1>1, <1>4, <1>5, <1>6, <1>7, <2>1 DEF Sound
  <2>2. CASE p # o
    <3>1. Sound(files, tables, objs[p]) /\ objs'[p] = objs[p]
      BY <1>6, <2>2 DEF Inv, ObjectsSound
    <3>. QED
      BY <1>1, <1>3, <1>7, <3>1 DEF Sound
  <2>. QED
    BY <2>1, <2>2
<1>9. Around'
  BY <1>1, <1>2, <1>7 DEF Inv, Around
<1>10. ObjectsSound'
  <2>1. \A p \in DOMAIN objs' : objs'[p] \in ObjectRecord
    BY <1>8 DEF Sound, Holds
  <2>. QED
    BY <1>6, <1>8, <2>1 DEF Inv, ObjectsSound
<1>11. Owners'
  <2>1. \A p \in DOMAIN objs' : objs'[p].fd = objs[p].fd
    BY <1>5, <1>6
  <2>. QED
    BY <1>1, <1>6, <2>1 DEF Inv, Owners
<1>. QED
  BY <1>9, <1>10, <1>11 DEF Inv

LEMMA SymbolsThrowInv ==
  ASSUME Inv, NEW o \in Objects, NEW q \in {"symbols", "table"}, SymbolsThrow(o, q)
  PROVE  Inv'
<1>1. /\ answer' = [Answer(o, q, <<>>) EXCEPT !.threw = TRUE]
      /\ files' = files /\ closed' = closed /\ tables' = tables /\ objs' = objs
  BY DEF SymbolsThrow
<1>2. answer'.by = o /\ answer'.threw = TRUE /\ answer'.to = q
  BY <1>1 DEF Answer
<1>. QED
  BY <1>1, <1>2 DEF Inv, Around, ObjectsSound, Owners

LEMMA GetSectionsInv ==
  ASSUME Inv, NEW o \in Objects, GetSections(o)
  PROVE  Inv'
<1>. DEFINE x == objs[o]
            y == ReadSections(x)
<1>1. /\ o \in DOMAIN objs /\ SectionsCallable(x)
      /\ objs' = [objs EXCEPT ![o] = y]
      /\ files' = files /\ closed' = closed /\ tables' = tables
  BY DEF GetSections
<1>2. /\ answer'.by = o /\ answer'.threw = FALSE /\ answer'.to = "sections"
  BY DEF GetSections, Answer
<1>3. Opened(files) /\ tables \in Nat /\ objs \in [DOMAIN objs -> ObjectRecord]
  BY InvOpened DEF Inv, ObjectsSound
<1>4. /\ x \in ObjectRecord /\ Holds(files, x)
      /\ x.synthetic_symbol_table \in 0 .. tables
      /\ x.fd # 0 => x.is_valid
  BY <1>1, SoundFacts
<1>5. /\ Holds(files, y)
      /\ y.fd = x.fd /\ y.is_valid = x.is_valid
      /\ y.synthetic_symbol_table = x.synthetic_symbol_table
  BY Zenon, <1>1, <1>3, <1>4, ReadSectionsHolds
<1>. HIDE DEF y
<1>6. /\ DOMAIN objs' = DOMAIN objs
      /\ objs' = [p \in DOMAIN objs' |-> objs'[p]]
      /\ objs'[o] = y
      /\ \A p \in DOMAIN objs : p # o => objs'[p] = objs[p]
  BY <1>1, <1>3
<1>7. \A p \in DOMAIN objs' : Sound(files', tables', objs'[p]) /\ objs'[p] \in ObjectRecord
  BY <1>1, <1>4, <1>5, <1>6 DEF Inv, ObjectsSound, Sound, Holds
<1>8. Around'
  BY <1>1, <1>2 DEF Inv, Around
<1>9. ObjectsSound'
  BY <1>6, <1>7 DEF Inv, ObjectsSound
<1>10. Owners'
  <2>1. \A p \in DOMAIN objs' : objs'[p].fd = objs[p].fd
    BY <1>5, <1>6
  <2>. QED
    BY <1>1, <1>6, <2>1 DEF Inv, Owners
<1>. QED
  BY <1>8, <1>9, <1>10 DEF Inv

LEMMA NextInv == Inv /\ [Next]_vars => Inv'
<1>. SUFFICES ASSUME Inv, [Next]_vars PROVE Inv'
  OBVIOUS
<1>1. ASSUME NEW f \in Files, OpenThrows(f) PROVE Inv'
  BY <1>1, OpenThrowsInv
<1>2. ASSUME NEW f \in Files, NEW o \in Objects, Open(o, f) PROVE Inv'
  BY <1>2, OpenInv
<1>3. ASSUME NEW o \in Objects, Wrap(o) PROVE Inv'
  BY <1>3, WrapInv
<1>4. ASSUME NEW o \in Objects, Destroy(o) PROVE Inv'
  BY <1>4, DestroyInv
<1>5. ASSUME NEW o \in Objects, GetSymbolTable(o) \/ GenerateTable(o) PROVE Inv'
  BY <1>5, SymbolsInv
<1>6. ASSUME NEW o \in Objects, GetSections(o) PROVE Inv'
  BY <1>6, GetSectionsInv
<1>7. ASSUME NEW o \in Objects, NEW q \in {"symbols", "table"}, SymbolsThrow(o, q) PROVE Inv'
  BY Zenon, <1>7, SymbolsThrowInv
<1>8. ASSUME NEW o \in Objects, NEW rhs \in Objects, MoveConstruct(o, rhs) PROVE Inv'
  BY <1>8, MoveConstructInv
<1>9. ASSUME NEW o \in Objects, NEW rhs \in Objects, MoveAssign(o, rhs) PROVE Inv'
  BY <1>9, MoveAssignInv
<1>10. CASE OpenAborts \/ UNCHANGED vars
  BY <1>10 DEF OpenAborts, vars, Inv, Around, ObjectsSound, Owners
<1>. QED
  BY <1>1, <1>2, <1>3, <1>4, <1>5, <1>6, <1>7, <1>8, <1>9, <1>10 DEF Next, Call, Ended

LEMMA Invariance == Spec => []Inv
<1>. QED
  BY InitInv, NextInv, PTL DEF Spec

-----------------------------------------------------------------------------
(* What follows from it.                                                   *)

\* The symbols of a buffer are in one table.
LEMMA BufferIs ==
  ASSUME Inv, NEW o \in DOMAIN objs, objs[o].symbol_buffer # <<>>
  PROVE  LET buffer == objs[o].symbol_buffer
         IN  /\ buffer \in Seq(SymbolRecord) /\ 1 \in DOMAIN buffer
             /\ \E g \in DOMAIN files :
                  /\ Fits(g, objs[o])
                  /\ IsTable(files[g], g, buffer)
                  /\ \A k \in DOMAIN buffer : Addr(buffer[k]) = AddrIn(files[g], buffer[k])
<1>. DEFINE buffer == objs[o].symbol_buffer
<1>1. objs[o] \in ObjectRecord /\ TableOfFile(files, objs[o])
  BY SoundFacts DEF Holds
<1>2. buffer \in Seq(SymbolRecord) /\ buffer # <<>>
  BY <1>1 DEF ObjectRecord
<1>3. 1 \in DOMAIN buffer
  BY <1>2
<1>4. PICK g \in DOMAIN files : Fits(g, objs[o]) /\ IsTable(files[g], g, buffer)
  BY <1>1, <1>2 DEF TableOfFile
<1>. HIDE DEF buffer
<1>5. ASSUME NEW k \in DOMAIN buffer PROVE Addr(buffer[k]) = AddrIn(files[g], buffer[k])
  <2>1. buffer[k].origin.fd = g
    BY <1>4 DEF IsTable
  <2>. QED
    BY <2>1 DEF Addr, AddrIn, Asym, AsymOf
<1>. QED
  BY <1>2, <1>3, <1>4, <1>5 DEF buffer

\* The lists of an owner are those of its own file.
LEMMA ListsAre ==
  ASSUME Inv, NEW o \in DOMAIN objs
  PROVE  LET x == objs[o]
         IN  /\ \A r \in Range(x.symbol_table) :
                  r.fd \in DOMAIN files /\ (x.fd # 0 => r.fd = x.fd)
             /\ \A s \in Range(x.sections) : x.fd # 0 => s.fd \in {0, x.fd}
<1>. DEFINE x == objs[o]
<1>1. ListsOfFile(files, x) /\ Opened(files)
  BY SoundFacts, InvOpened DEF Holds
<1>. HIDE DEF x
<1>2. ASSUME NEW r \in Range(x.symbol_table)
      PROVE  r.fd \in DOMAIN files /\ (x.fd # 0 => r.fd = x.fd)
  <2>1. x.symbol_table # <<>>
    BY <1>2 DEF Range
  <2>2. PICK g \in DOMAIN files, t \in Nat :
          Fits(g, x) /\ x.symbol_table = Fetched(files[g], g, t)
    BY <1>1, <2>1 DEF ListsOfFile
  <2>3. From(files[g], g, r)
    <3>1. IsFile(files[g]) /\ g \in Nat
      BY <1>1 DEF Opened
    <3>. QED
      BY <1>2, <2>2, <3>1, FetchedIs
  <2>. QED
    BY <2>2, <2>3 DEF From, Fits
<1>3. ASSUME NEW s \in Range(x.sections), x.fd # 0 PROVE s.fd \in {0, x.fd}
  <2>1. x.sections # <<>>
    BY <1>3 DEF Range
  <2>2. PICK g \in DOMAIN files : Fits(g, x) /\ x.sections = FetchedSections(files[g], g)
    BY <1>1, <2>1 DEF ListsOfFile
  <2>3. s.fd \in {0, g}
    <3>1. IsFile(files[g]) /\ g \in Nat \ {0}
      BY <1>1 DEF Opened
    <3>. QED
      BY <1>3, <2>2, <3>1, SectionsAre
  <2>. QED
    BY <1>3, <2>2, <2>3 DEF Fits
<1>. QED
  BY Zenon, <1>2, <1>3 DEF x

\* Every variable has its type, and what objects point at was once there.
THEOREM TypeCorrect == Spec => []TypeOK
<1>1. ASSUME Inv, aborted \in BOOLEAN PROVE TypeOK
  <2>1. ASSUME NEW o \in DOMAIN objs
        PROVE  LET x == objs[o] IN
               /\ x.fd \in {0} \cup DOMAIN files
               /\ x.synthetic_symbol_table \in 0 .. tables
               /\ \A i \in DOMAIN x.symbol_table : x.symbol_table[i].fd \in DOMAIN files
    <3>1. \A r \in Range(objs[o].symbol_table) : r.fd \in DOMAIN files
      BY Zenon, <1>1, ListsAre
    <3>2. \A i \in DOMAIN objs[o].symbol_table :
            objs[o].symbol_table[i] \in Range(objs[o].symbol_table)
      BY DEF Range
    <3>. QED
      BY <1>1, <3>1, <3>2, SoundFacts
  <2>. QED
    BY <1>1, <2>1 DEF Inv, Around, ObjectsSound, TypeOK
<1>2. Init => aborted \in BOOLEAN
  BY DEF Init
<1>3. aborted \in BOOLEAN /\ [Next]_vars => (aborted \in BOOLEAN)'
  BY DEF Next, Ended, OpenAborts, vars
<1>. QED
  BY <1>1, <1>2, <1>3, Invariance, PTL DEF Spec

\* Whatever is moved, assigned and destroyed, a descriptor has one owner at
\* most, and is not closed while it has one.
THEOREM OneOwnerAlways == Spec => []OneOwner
<1>1. Inv => OneOwner
  BY DEF Inv, Owners, OneOwner, Owned
<1>. QED
  BY <1>1, Invariance, PTL

\* Every object that has a descriptor says it is valid.
THEOREM OwnersAreValid == Spec => []OwnerIsValid
<1>1. Inv => OwnerIsValid
  BY SoundFacts DEF OwnerIsValid
<1>. QED
  BY <1>1, Invariance, PTL

\* Every table getSymbolTable has filled has its symbols at ascending
\* addresses, and no address twice.
THEOREM TablesAscend == Spec => []TableIsWellFormed
<1>1. ASSUME Inv PROVE TableIsWellFormed
  <2>. SUFFICES ASSUME NEW o \in DOMAIN objs,
                       NEW j \in DOMAIN objs[o].symbol_buffer,
                       NEW k \in DOMAIN objs[o].symbol_buffer, j < k
                PROVE  Addr(objs[o].symbol_buffer[j]) < Addr(objs[o].symbol_buffer[k])
    BY DEF TableIsWellFormed
  <2>. DEFINE buffer == objs[o].symbol_buffer
  <2>1. buffer # <<>>
    OBVIOUS
  <2>2. PICK g \in DOMAIN files :
          /\ IsTable(files[g], g, buffer)
          /\ \A i \in DOMAIN buffer : Addr(buffer[i]) = AddrIn(files[g], buffer[i])
    BY Zenon, <1>1, <2>1, BufferIs
  <2>. HIDE DEF buffer
  <2>3. j \in DOMAIN buffer /\ k \in DOMAIN buffer
    BY DEF buffer
  <2>4. Addr(buffer[j]) < Addr(buffer[k])
    BY <2>2, <2>3 DEF IsTable
  <2>. QED
    BY <2>4 DEF buffer
<1>. QED
  BY <1>1, Invariance, PTL

\* Every table has the symbols BFD has for its file: none is lost where
\* addresses coincide, and none is there twice.
THEOREM EverySymbolIsKept == Spec => []EverySymbolOnce
<1>1. ASSUME Inv PROVE EverySymbolOnce
  <2>. SUFFICES ASSUME NEW o \in DOMAIN objs
                PROVE  LET buffer == objs[o].symbol_buffer IN
                       /\ \A j \in DOMAIN buffer : IsInjective(OriginsOf(buffer[j]))
                       /\ \A j, k \in DOMAIN buffer : j # k =>
                            Range(OriginsOf(buffer[j])) \cap Range(OriginsOf(buffer[k])) = {}
                       /\ buffer # <<>> =>
                            LET fd == buffer[1].origin.fd
                            IN  {Place(r) : r \in UNION {Range(OriginsOf(s)) : s \in Range(buffer)}}
                                  = {Place(r) : r \in Range(Fetched(files[fd], fd, 0))}
    BY Zenon DEF EverySymbolOnce
  <2>. DEFINE buffer == objs[o].symbol_buffer
  <2>1. CASE buffer = <<>>
    BY <2>1
  <2>2. CASE buffer # <<>>
    <3>1. PICK g \in DOMAIN files : IsTable(files[g], g, buffer)
      BY Zenon, <1>1, <2>2, BufferIs
    <3>2. 1 \in DOMAIN buffer
      BY Zenon, <1>1, <2>2, BufferIs
    <3>. HIDE DEF buffer
    <3>3. buffer[1].origin.fd = g
      BY Zenon, <3>1, <3>2 DEF IsTable
    <3>. QED
      BY Zenon, <3>1, <3>3 DEF IsTable, Held, buffer
  <2>. QED
    BY <2>1, <2>2
<1>. QED
  BY <1>1, Invariance, PTL

\* The Section a symbol points at is in the buffer of the object that has the
\* symbol, once.
THEOREM ParentsStayAlive == Spec => []ParentsAlive
<1>1. ASSUME Inv PROVE ParentsAlive
  <2>. SUFFICES ASSUME NEW o \in DOMAIN objs
                PROVE  /\ IsInjective(objs[o].section_buffer)
                       /\ \A s \in Range(objs[o].symbol_buffer) :
                            Contains(objs[o].section_buffer, s.parent)
    BY DEF ParentsAlive
  <2>1. /\ objs[o].section_buffer \in Seq(SectionRecord)
        /\ IsInjective(objs[o].section_buffer)
        /\ Housed(objs[o].symbol_buffer, objs[o].section_buffer)
    BY <1>1, SoundFacts DEF Holds, ObjectRecord, SectionsOfFile, TableOfFile
  <2>2. \A s \in Range(objs[o].symbol_buffer) : s.parent \in Range(objs[o].section_buffer)
    BY <2>1 DEF Housed, Range
  <2>. QED
    BY <2>1, <2>2, ContainsIs
<1>. QED
  BY <1>1, Invariance, PTL

\* No history of moves leaves an object that owns a file with lists or
\* buffers of another one.
THEOREM NoStaleCache == Spec => []OwnerHoldsItsFile
<1>1. ASSUME Inv PROVE OwnerHoldsItsFile
  <2>. SUFFICES ASSUME NEW o \in DOMAIN objs, objs[o].fd # 0
                PROVE  LET x == objs[o] IN
                       /\ \A r \in Range(x.symbol_table) : r.fd = x.fd
                       /\ \A s \in Range(x.symbol_buffer) : s.origin.fd = x.fd
                       /\ \A s \in Range(x.sections \o x.section_buffer) : s.fd \in {0, x.fd}
    BY Zenon DEF OwnerHoldsItsFile
  <2>. DEFINE x == objs[o]
  <2>1. x \in ObjectRecord /\ Holds(files, x)
    BY <1>1, SoundFacts
  <2>2. /\ \A r \in Range(x.symbol_table) : r.fd = x.fd
        /\ \A s \in Range(x.sections) : s.fd \in {0, x.fd}
    BY Zenon, <1>1, ListsAre
  <2>3. x.symbol_buffer # <<>> =>
          \E g \in DOMAIN files : Fits(g, x) /\ IsTable(files[g], g, x.symbol_buffer)
    BY Zenon, <1>1, BufferIs
  <2>. HIDE DEF x
  <2>4. x.fd # 0
    BY DEF x
  <2>5. \A s \in Range(x.symbol_buffer) : s.origin.fd = x.fd
    <3>1. x.symbol_buffer = <<>> => Range(x.symbol_buffer) = {}
      BY DEF Range
    <3>2. ASSUME NEW g, Fits(g, x), IsTable(files[g], g, x.symbol_buffer),
                 NEW k \in DOMAIN x.symbol_buffer
          PROVE  x.symbol_buffer[k].origin.fd = x.fd
      BY <2>4, <3>2 DEF Fits, IsTable
    <3>. QED
      BY <2>3, <3>1, <3>2 DEF Range
  <2>6. Range(x.sections \o x.section_buffer) = Range(x.sections) \cup Range(x.section_buffer)
    <3>. DEFINE a == x.sections
                b == x.section_buffer
    <3>1. a \in Seq(SectionRecord) /\ b \in Seq(SectionRecord)
      BY <2>1 DEF ObjectRecord
    <3>. HIDE DEF a, b
    <3>2. Range(a \o b) = Range(a) \cup Range(b)
      BY <3>1, ConcatIs
    <3>. QED
      BY Zenon, <3>2 DEF a, b
  <2>7. \A s \in Range(x.section_buffer) : s.fd \in {0, x.fd}
    BY <2>1, <2>4 DEF Holds, SectionsOfFile
  <2>. QED
    BY Zenon, <2>2, <2>5, <2>6, <2>7 DEF x
<1>. QED
  BY <1>1, Invariance, PTL

\* An owner that has been asked for its sections has them in descending
\* order, in whatever order it was asked for sections and symbols.
THEOREM SectionsDescend == Spec => []OwnerSectionsDescend
<1>1. ASSUME Inv PROVE OwnerSectionsDescend
  <2>. SUFFICES ASSUME NEW o \in DOMAIN objs, objs[o].fd # 0, objs[o].sections_sorted,
                       ForeignSections(files[objs[o].fd]) = {},
                       NEW i \in DOMAIN objs[o].section_buffer,
                       NEW j \in DOMAIN objs[o].section_buffer, i < j
                PROVE  Vma(objs[o].section_buffer[i]) >= Vma(objs[o].section_buffer[j])
    BY DEF OwnerSectionsDescend
  <2>. DEFINE buffer == objs[o].section_buffer
  <2>1. Descending(files, buffer)
    BY <1>1, SoundFacts DEF Holds, OrderOfSections
  <2>2. \A s : Vma(s) = VmaIn(files, s)
    BY DEF Vma, VmaIn
  <2>. QED
    BY <2>1, <2>2 DEF Descending
<1>. QED
  BY <1>1, Invariance, PTL

\* Only the destructor and an assignment take a descriptor from its owner
\* without giving it to another one: reading and moving never do.
THEOREM OnlyAssignmentLeaks == Spec => LeaksOnlyByAssignment
<1>. DEFINE Lost(o) == objs[o].fd # 0 /\ objs[o].fd \notin Owned' /\ objs[o].fd \notin closed'
            Leak == \A o \in DOMAIN objs : Lost(o) => \E rhs \in DOMAIN objs : MoveAssign(o, rhs)
<1>1. ASSUME Inv, [Next]_vars PROVE Leak
  <2>. SUFFICES ASSUME NEW o \in DOMAIN objs, Lost(o)
                PROVE  \E rhs \in DOMAIN objs : MoveAssign(o, rhs)
    OBVIOUS
  <2>1. objs \in [DOMAIN objs -> ObjectRecord] /\ DOMAIN objs \subseteq Objects
    BY <1>1 DEF Inv, ObjectsSound
  <2>2. \A p \in DOMAIN objs' : objs'[p].fd # objs[o].fd
    BY DEF Owned
  <2>3. ASSUME NEW f \in Files, OpenThrows(f) PROVE FALSE
    BY <2>2, <2>3 DEF OpenThrows
  <2>4. ASSUME NEW f \in Files, NEW p \in Objects, Open(p, f) PROVE FALSE
    BY <2>2, <2>4 DEF Open, Placed
  <2>5. ASSUME NEW p \in Objects, Wrap(p) PROVE FALSE
    BY <2>2, <2>5 DEF Wrap, Placed
  <2>6. ASSUME NEW p \in Objects, Destroy(p) PROVE FALSE
    BY <2>2, <2>6 DEF Destroy
  <2>7. ASSUME NEW p \in Objects, GetSymbolTable(p) \/ GenerateTable(p) PROVE FALSE
    <3>1. p \in DOMAIN objs /\ SymbolsCallable(objs[p])
          /\ objs' = [objs EXCEPT ![p] = ReadSymbols(objs[p])]
      BY <2>7 DEF GetSymbolTable, GenerateTable
    <3>2. Opened(files) /\ tables \in Nat /\ Holds(files, objs[p])
      BY <1>1, <3>1, InvOpened, SoundFacts
    <3>3. ReadSymbols(objs[p]).fd = objs[p].fd
      BY Zenon, <3>1, <3>2, ReadSymbolsHolds
    <3>4. o \in DOMAIN objs' /\ objs'[o].fd = objs[o].fd
      BY <2>1, <3>1, <3>3
    <3>. QED
      BY <2>2, <3>4
  <2>8. ASSUME NEW p \in Objects, GetSections(p) PROVE FALSE
    <3>1. p \in DOMAIN objs /\ SectionsCallable(objs[p])
          /\ objs' = [objs EXCEPT ![p] = ReadSections(objs[p])]
      BY <2>8 DEF GetSections
    <3>2. Opened(files) /\ Holds(files, objs[p])
      BY <1>1, <3>1, InvOpened, SoundFacts
    <3>3. ReadSections(objs[p]).fd = objs[p].fd
      BY Zenon, <3>1, <3>2, ReadSectionsHolds
    <3>4. o \in DOMAIN objs' /\ objs'[o].fd = objs[o].fd
      BY <2>1, <3>1, <3>3
    <3>. QED
      BY <2>2, <3>4
  <2>9. ASSUME NEW p \in Objects, NEW q \in {"symbols", "table"}, SymbolsThrow(p, q) PROVE FALSE
    BY <2>2, <2>9 DEF SymbolsThrow
  <2>10. ASSUME NEW p \in Objects, NEW rhs \in Objects, MoveConstruct(p, rhs) PROVE FALSE
    <3>. DEFINE y == [objs[rhs] EXCEPT !.sections = <<>>, !.symbol_table = <<>>,
                                       !.synthetic_symbol_table = 0]
    <3>1. /\ p \notin DOMAIN objs /\ rhs \in DOMAIN objs
          /\ objs' = [Placed(y, p) EXCEPT ![rhs] = MovedFrom(@)]
      BY <2>10 DEF MoveConstruct
    <3>2. y.fd = objs[rhs].fd
      BY <2>1, <3>1 DEF ObjectRecord
    <3>. HIDE DEF y
    <3>3. /\ DOMAIN objs' = DOMAIN objs \cup {p} /\ objs'[p] = y
          /\ \A a \in DOMAIN objs : a # rhs => objs'[a] = objs[a]
      BY <3>1 DEF Placed
    <3>. QED
      BY <2>2, <3>2, <3>3
  <2>11. ASSUME NEW p \in Objects, NEW rhs \in Objects, MoveAssign(p, rhs)
         PROVE  p = o /\ rhs \in DOMAIN objs
    <3>1. p \in DOMAIN objs /\ rhs \in DOMAIN objs
      BY <2>11 DEF MoveAssign
    <3>2. ASSUME p # o, p # rhs PROVE FALSE
      <4>. DEFINE y == Assigned(objs[p], objs[rhs])
                  z == MovedFrom(objs[rhs])
      <4>1. objs' = [objs EXCEPT ![p] = y, ![rhs] = z]
        BY <3>2, <2>11 DEF MoveAssign
      <4>2. y.fd = objs[rhs].fd
        <5>1. Sound(files, tables, objs[rhs]) /\ tables \in Nat /\ objs[p] \in ObjectRecord
          BY <1>1, <2>1, <3>1, InvOpened DEF Inv, ObjectsSound
        <5>. DEFINE w == objs[p]
                    x == objs[rhs]
        <5>2. Sound(files, tables, x) /\ w \in ObjectRecord
          BY <5>1
        <5>. HIDE DEF w, x
        <5>3. \A v \in ObjectRecord :
                Sound(files, tables, Assigned(v, x)) /\ Assigned(v, x).fd = x.fd
          BY Zenon, <5>1, <5>2, MovedToSound
        <5>. QED
          BY Zenon, <5>2, <5>3 DEF w, x
      <4>. HIDE DEF y, z
      <4>3. o # rhs => o \in DOMAIN objs' /\ objs'[o] = objs[o]
        BY <2>1, <3>1, <3>2, <4>1
      <4>4. p \in DOMAIN objs' /\ objs'[p] = y
        BY <2>1, <3>1, <3>2, <4>1
      <4>. QED
        BY <2>2, <4>2, <4>3, <4>4
    <3>3. ASSUME p # o, p = rhs PROVE FALSE
      <4>. DEFINE z == MovedFrom(SelfMoved(objs[p]))
      <4>1. objs' = [objs EXCEPT ![p] = z]
        BY <3>3, <2>11 DEF MoveAssign
      <4>. HIDE DEF z
      <4>. QED
        BY <2>1, <2>2, <3>3, <4>1
    <3>. QED
      BY <3>1, <3>2, <3>3
  <2>12. CASE OpenAborts \/ UNCHANGED vars
    BY <2>2, <2>12 DEF OpenAborts, vars
  <2>. QED
    BY <1>1, <2>3, <2>4, <2>5, <2>6, <2>7, <2>8, <2>9, <2>10, <2>11, <2>12
    DEF Next, Call, Ended
<1>2. Leak = (\A o \in DOMAIN objs :
                LET fd == objs[o].fd IN
                fd # 0 /\ fd \notin Owned' /\ fd \notin closed' =>
                  \E rhs \in DOMAIN objs : MoveAssign(o, rhs))
  OBVIOUS
<1>. QED
  BY <1>1, Invariance, PTL DEF Spec, LeaksOnlyByAssignment

-----------------------------------------------------------------------------
(* The promise of OpenedFile, which knows of no buffers and no copies.     *)

\* The operators of the promise are those of this module.
LEMMA SameOperators ==
  /\ \A f, fd, t : Promise!Fetched(f, fd, t) = Fetched(f, fd, t)
  /\ \A f, fd : Promise!FetchedSections(f, fd) = FetchedSections(f, fd)
  /\ \A list : Promise!Range(list) = Range(list)
  /\ \A list : Promise!IsInjective(list) = IsInjective(list)
  /\ \A f, kind : Promise!Asymbols(f, kind) = Asymbols(f, kind)
  /\ \A f : Promise!NoStorage(f) = NoStorage(f) /\ Promise!FetchFails(f) = FetchFails(f)
  /\ \A f : Promise!ForeignSections(f) = ForeignSections(f)
  /\ \A fd, s : Promise!Section(fd, s) = Section(fd, s)
<1>1. \A list : Promise!Range(list) = Range(list) /\ Promise!IsInjective(list) = IsInjective(list)
  BY Zenon DEF Promise!Range, Range, Promise!IsInjective, IsInjective
<1>2. \A f, kind : Promise!Asymbols(f, kind) = Asymbols(f, kind)
  BY Zenon DEF Promise!Asymbols, Asymbols
<1>3. \A fd, s : Promise!Section(fd, s) = Section(fd, s)
  BY Zenon DEF Promise!Section, Section
<1>4. \A f : Promise!DynamicSlots(f) = DynamicSlots(f)
  BY Zenon DEF Promise!DynamicSlots, DynamicSlots, Promise!Max, Max
<1>5. \A f : Promise!NoStorage(f) = NoStorage(f) /\ Promise!FetchFails(f) = FetchFails(f)
  BY Zenon, <1>4 DEF Promise!NoStorage, NoStorage, Promise!FetchFails, FetchFails
<1>6. \A f, fd, t : Promise!Fetched(f, fd, t) = Fetched(f, fd, t)
  BY Zenon, <1>4 DEF Promise!Fetched, Fetched, Promise!Origins, Origins, Promise!Read, Read
<1>7. \A f, fd : Promise!FetchedSections(f, fd) = FetchedSections(f, fd)
  BY Zenon DEF Promise!FetchedSections, FetchedSections, Promise!Section, Section
<1>8. \A f : Promise!ForeignSections(f) = ForeignSections(f)
  BY Zenon DEF Promise!ForeignSections, ForeignSections, Promise!Section, Section,
               Promise!Foreign, Foreign
<1>. QED
  BY Zenon, <1>1, <1>2, <1>3, <1>5, <1>6, <1>7, <1>8

\* The same origins in the same order, without the copies they live in.
Copies(list, of) == DOMAIN list = DOMAIN of /\ \A i \in DOMAIN of : list[i] = Place(of[i])

\* Two lists and their copies, one after the other.
LEMMA ConcatCopies ==
  ASSUME NEW S, NEW s \in Seq(S), NEW t \in Seq(S), NEW u \in Seq(S), NEW v \in Seq(S),
         Copies(u, s), Copies(v, t)
  PROVE  Copies(u \o v, s \o t)
<1>1. Len(s) \in Nat /\ Len(t) \in Nat /\ Len(u) = Len(s) /\ Len(v) = Len(t)
      /\ DOMAIN s = 1 .. Len(s) /\ DOMAIN t = 1 .. Len(t)
  BY DEF Copies
<1>2. /\ \A i \in 1 .. Len(s) : u[i] = Place(s[i])
      /\ \A i \in 1 .. Len(t) : v[i] = Place(t[i])
  BY <1>1 DEF Copies
<1>3. /\ s \o t \in Seq(S) /\ Len(s \o t) = Len(s) + Len(t)
      /\ u \o v \in Seq(S) /\ Len(u \o v) = Len(s) + Len(t)
  BY <1>1
<1>4. ASSUME NEW i \in 1 .. (Len(s) + Len(t)) PROVE (u \o v)[i] = Place((s \o t)[i])
  <2>1. CASE i \in 1 .. Len(s)
    <3>1. (s \o t)[i] = s[i] /\ (u \o v)[i] = u[i]
      BY <1>1, <2>1
    <3>. QED
      BY Zenon, <1>2, <2>1, <3>1
  <2>2. CASE i \notin 1 .. Len(s)
    <3>1. (s \o t)[i] = t[i - Len(s)] /\ (u \o v)[i] = v[i - Len(s)] /\ i - Len(s) \in 1 .. Len(t)
      BY <1>1, <2>2
    <3>. QED
      BY Zenon, <1>2, <3>1
  <2>. QED
    BY <2>1, <2>2
<1>. QED
  BY <1>3, <1>4 DEF Copies

\* Whichever table the synthetic symbols are copied to.
LEMMA FetchedCopies ==
  ASSUME NEW f, IsFile(f), NEW g \in Nat, NEW t \in Nat
  PROVE  Copies(Fetched(f, g, 0), Fetched(f, g, t)) /\ Fetched(f, g, 0) \in Seq(Origin)
<1>. DEFINE n1 == Read(f.normal.slots, f.normal.count)
            n2 == Read(DynamicSlots(f), f.dynamic.count)
            n3 == Len(f.synthetic)
            Normal == Origins(g, "normal", n1, 0)
            Dynamic == Origins(g, "dynamic", n2, 0)
            Synthetic(u) == Origins(g, "synthetic", n3, u)
<1>1. n1 \in Nat /\ n2 \in Nat /\ n3 \in Nat
  <2>1. Len(f.normal.syms) \in Nat /\ Len(f.dynamic.syms) \in Nat
    BY DEF IsFile, Table
  <2>. QED
    BY <2>1, ReadIs
<1>2. \A u : Fetched(f, g, u) = Normal \o Dynamic \o Synthetic(u)
  BY Zenon DEF Fetched
<1>. HIDE DEF n1, n2, n3
<1>3. ASSUME NEW kind \in Kinds, NEW n \in Nat, NEW u \in Nat
      PROVE  /\ Origins(g, kind, n, u) \in Seq(Origin)
             /\ Copies(Origins(g, kind, n, 0), Origins(g, kind, n, u))
  <2>1. Origins(g, kind, n, u) \in Seq(Origin)
    BY OriginsIs
  <2>2. \A i \in 1 .. n : /\ Origins(g, kind, n, u)[i] = OriginAt(g, kind, i, u)
                          /\ Origins(g, kind, n, 0)[i] = OriginAt(g, kind, i, 0)
    BY DEF Origins, OriginAt
  <2>3. DOMAIN Origins(g, kind, n, u) = 1 .. n /\ DOMAIN Origins(g, kind, n, 0) = 1 .. n
    BY DEF Origins
  <2>4. \A i \in 1 .. n : OriginAt(g, kind, i, 0) = Place(OriginAt(g, kind, i, u))
    BY DEF Place, OriginAt
  <2>. QED
    BY Zenon, <2>1, <2>2, <2>3, <2>4 DEF Copies
<1>4. 0 \in Nat /\ {"normal", "dynamic", "synthetic"} \subseteq Kinds
  BY DEF Kinds
<1>5. /\ Normal \in Seq(Origin) /\ Copies(Normal, Normal)
      /\ Dynamic \in Seq(Origin) /\ Copies(Dynamic, Dynamic)
      /\ Synthetic(0) \in Seq(Origin) /\ Synthetic(t) \in Seq(Origin)
      /\ Copies(Synthetic(0), Synthetic(t))
  BY <1>1, <1>3, <1>4
<1>. DEFINE a == Normal
            b == Dynamic
            c == Synthetic(0)
            d == Synthetic(t)
<1>6. a \in Seq(Origin) /\ b \in Seq(Origin) /\ c \in Seq(Origin) /\ d \in Seq(Origin)
      /\ Copies(a, a) /\ Copies(b, b) /\ Copies(c, d)
  BY Zenon, <1>5
<1>. HIDE DEF a, b, c, d, Normal, Dynamic, Synthetic
<1>7. a \o b \in Seq(Origin) /\ Copies(a \o b, a \o b)
  BY <1>6, ConcatCopies
<1>8. (a \o b) \o c \in Seq(Origin)
  BY <1>6, <1>7
<1>9. Copies((a \o b) \o c, (a \o b) \o d)
  <2>. DEFINE e == a \o b
  <2>1. e \in Seq(Origin) /\ Copies(e, e)
    BY <1>7
  <2>. HIDE DEF e
  <2>2. Copies(e \o c, e \o d)
    BY <1>6, <2>1, ConcatCopies
  <2>. QED
    BY <2>2 DEF e
<1>. QED
  BY Zenon, <1>2, <1>4, <1>8, <1>9 DEF a, b, c, d

\* A symbol as the promise sees it has its origins in the same order.
LEMMA OriginsCopied ==
  ASSUME NEW s \in SymbolRecord
  PROVE  /\ Copies(<<Uncopied(s).origin>> \o Uncopied(s).aliases, OriginsOf(s))
         /\ Uncopied(s).origin = Place(s.origin) /\ Uncopied(s).parent = s.parent
         /\ OriginsOf(s) \in Seq(Origin)
<1>. DEFINE c == Uncopied(s)
            first == <<s.origin>>
            rest == s.aliases
            few == <<c.origin>>
            more == c.aliases
<1>1. s.origin \in Origin /\ rest \in Seq(Origin)
  BY DEF SymbolRecord
<1>2. \A r \in Origin : Place(r) \in Origin
  BY DEF Place, Origin
<1>3. /\ c.origin = Place(s.origin) /\ c.parent = s.parent
      /\ more = [i \in DOMAIN rest |-> Place(rest[i])]
  BY DEF Uncopied
<1>. HIDE DEF c, rest
<1>4. Copies(more, rest) /\ more \in Seq(Origin)
  <2>1. rest \in Seq(Origin) /\ DOMAIN rest = 1 .. Len(rest) /\ Len(rest) \in Nat
    BY <1>1
  <2>2. \A i \in 1 .. Len(rest) : Place(rest[i]) \in Origin
    BY <1>2, <2>1
  <2>3. more = [i \in 1 .. Len(rest) |-> Place(rest[i])]
    BY <1>3, <2>1
  <2>. HIDE DEF more
  <2>4. more \in Seq(Origin)
    BY <2>1, <2>2, <2>3
  <2>. QED
    BY <2>1, <2>3, <2>4 DEF Copies
<1>5. Copies(few, first) /\ few \in Seq(Origin) /\ first \in Seq(Origin)
  <2>1. Place(s.origin) \in Origin
    BY <1>1, <1>2
  <2>2. /\ few \in Seq(Origin) /\ DOMAIN few = {1} /\ few[1] = Place(s.origin)
        /\ first \in Seq(Origin) /\ DOMAIN first = {1} /\ first[1] = s.origin
    BY <1>1, <1>3, <2>1
  <2>. QED
    BY Zenon, <2>2 DEF Copies
<1>. HIDE DEF few, first, more
<1>6. Copies(few \o more, first \o rest) /\ first \o rest \in Seq(Origin)
  BY <1>1, <1>4, <1>5, ConcatCopies
<1>. QED
  BY Zenon, <1>3, <1>6 DEF few, first, more, rest, c, OriginsOf

\* What the promise says of a symbol, in the words of this module.
LEMMA SymbolAtIs ==
  ASSUME NEW a, NEW c, NEW f, NEW g,
         LET here == <<c.origin>> \o c.aliases
         IN  /\ Range(here) = {r \in Range(Fetched(f, g, 0)) : AsymOf(f, r).addr = a}
             /\ Follows(Fetched(f, g, 0), here)
             /\ c.parent = Section(g, AsymOf(f, c.origin).sec)
  PROVE  Promise!IsSymbolAt(a, c, f, g)
<1>1. /\ Promise!Fetched(f, g, 0) = Fetched(f, g, 0)
      /\ \A list : Promise!Range(list) = Range(list)
      /\ \A fd, s : Promise!Section(fd, s) = Section(fd, s)
      /\ \A r : Promise!Asymbols(f, r.kind)[r.i] = AsymOf(f, r)
  BY Zenon, SameOperators DEF AsymOf
<1>2. \A r : Promise!Address(f, r) = AsymOf(f, r).addr
  BY Zenon, <1>1 DEF Promise!Address
<1>3. \A list, some : Promise!InOrder(list, some) = Follows(list, some)
  BY Zenon DEF Promise!InOrder, Follows
<1>. DEFINE here == <<c.origin>> \o c.aliases
            all == Fetched(f, g, 0)
<1>4. {r \in Range(all) : Promise!Address(f, r) = a} = {r \in Range(all) : AsymOf(f, r).addr = a}
  BY Zenon, <1>2
<1>5. /\ Promise!Range(here) = {r \in Promise!Range(all) : Promise!Address(f, r) = a}
      /\ Promise!InOrder(all, here)
      /\ c.parent = Promise!Section(g, Promise!Asymbols(f, c.origin.kind)[c.origin.i].sec)
  BY Zenon, <1>1, <1>3, <1>4
<1>. HIDE DEF all
<1>6. Promise!Fetched(f, g, 0) = all
  BY Zenon, <1>1 DEF all
<1>. QED
  BY Zenon, <1>5, <1>6 DEF Promise!IsSymbolAt

\* A table as the promise sees it.
Plain(buffer) == [k \in DOMAIN buffer |-> Uncopied(buffer[k])]

\* A table of a file of which the promise speaks the truth.
LEMMA TableIsTrue ==
  ASSUME NEW g \in DOMAIN files, Opened(files), NEW t \in Nat, NEW symbols,
         Grouped(symbols, Range(Fetched(files[g], g, t))),
         Told(symbols, Fetched(files[g], g, t)), ~NoStorage(files[g])
  PROVE  Promise!IsTableOf(files[g], g, Plain(ByAddress(symbols)))
<1>. DEFINE f == files[g]
            list == Fetched(f, g, t)
            all == Fetched(f, g, 0)
            buffer == ByAddress(symbols)
<1>1. IsFile(f) /\ g \in Nat \ {0}
  BY DEF Opened
<1>2. /\ list \in Seq(Origin) /\ all \in Seq(Origin) /\ Copies(all, list)
      /\ \A r \in Range(list) : From(f, g, r)
  <2>1. 0 \in Nat
    OBVIOUS
  <2>. QED
    BY Zenon, <1>1, <2>1, FetchedIs, FetchedCopies
<1>3. /\ buffer \in Seq(SymbolRecord) /\ Range(buffer) = Range(symbols)
      /\ IsTable(f, g, buffer)
  BY Zenon, SortedTable
<1>. HIDE DEF list, all, buffer, f
<1>4. \A s \in Range(buffer) : \E k \in DOMAIN symbols : s = symbols[k]
  BY <1>3 DEF Range
<1>5. \A r \in Range(list) : Asym(r) = AsymOf(f, r) /\ r.fd = g
  BY Zenon, <1>2 DEF From, Asym, AsymOf, f
<1>6. ASSUME NEW k \in DOMAIN buffer
      PROVE  LET s == buffer[k] IN
             /\ s \in SymbolRecord /\ Held(s) \subseteq Range(list)
             /\ \A r \in Held(s) : AsymOf(f, r).addr = AddrIn(f, s)
             /\ s.parent = Section(g, AsymOf(f, s.origin).sec)
             /\ Follows(list, OriginsOf(s))
  <2>. DEFINE s == buffer[k]
  <2>1. s \in SymbolRecord /\ s \in Range(buffer)
    BY <1>3 DEF Range
  <2>. HIDE DEF s
  <2>2. PICK j \in DOMAIN symbols : s = symbols[j]
    BY <1>4, <2>1
  <2>3. /\ Held(s) \subseteq Range(list)
        /\ \A r \in Held(s) : Asym(r).addr = Addr(s)
        /\ s.parent = Section(s.origin.fd, Asym(s.origin).sec)
        /\ Follows(list, OriginsOf(s))
    BY Zenon, <2>2 DEF Grouped, Told, list, f
  <2>4. s.origin \in Held(s)
    <3>1. s.origin \in Origin /\ s.aliases \in Seq(Origin)
      BY <2>1 DEF SymbolRecord
    <3>2. 1 \in DOMAIN (<<s.origin>> \o s.aliases) /\ (<<s.origin>> \o s.aliases)[1] = s.origin
      BY <3>1
    <3>. QED
      BY <3>2 DEF Held, Range, OriginsOf
  <2>5. s.origin \in Range(list) /\ Addr(s) = AddrIn(f, s)
    BY Zenon, <1>5, <2>3, <2>4 DEF Addr, AddrIn
  <2>. QED
    BY Zenon, <1>5, <2>1, <2>3, <2>5 DEF s
<1>7. \A r \in Range(list) : \E k \in DOMAIN buffer : r \in Held(buffer[k])
  <2>. SUFFICES ASSUME NEW r \in Range(list)
                PROVE  \E k \in DOMAIN buffer : r \in Held(buffer[k])
    OBVIOUS
  <2>1. PICK j \in DOMAIN symbols : r \in Held(symbols[j])
    BY Zenon DEF Grouped, list, f
  <2>2. symbols[j] \in Range(buffer)
    BY Zenon, <1>3 DEF Range
  <2>. QED
    BY Zenon, <2>1, <2>2 DEF Range
<1>8. \A j, k \in DOMAIN buffer :
        /\ j < k => AddrIn(f, buffer[j]) < AddrIn(f, buffer[k])
        /\ AddrIn(f, buffer[j]) = AddrIn(f, buffer[k]) => j = k
  <2>1. \A j, k \in DOMAIN buffer : j < k => /\ AddrIn(f, buffer[j]) \in Nat
                                             /\ AddrIn(f, buffer[k]) \in Nat
                                             /\ AddrIn(f, buffer[j]) < AddrIn(f, buffer[k])
    BY Zenon, <1>3 DEF IsTable
  <2>2. \A j, k \in DOMAIN buffer : j < k \/ k < j \/ j = k
    BY <1>3
  <2>. QED
    BY <2>1, <2>2
\* The list without copies.
<1>9. \A r : AsymOf(f, Place(r)) = AsymOf(f, r)
  <2>1. \A r : Place(r).kind = r.kind /\ Place(r).i = r.i
    BY DEF Place
  <2>. QED
    BY Zenon, <2>1 DEF AsymOf
<1>10. /\ \A q \in Range(all) : \E r \in Range(list) : q = Place(r)
       /\ \A r \in Range(list) : Place(r) \in Range(all)
  BY Zenon, <1>2 DEF Copies, Range
<1>. DEFINE here(k) == <<Uncopied(buffer[k]).origin>> \o Uncopied(buffer[k]).aliases
<1>11. ASSUME NEW k \in DOMAIN buffer
       PROVE  /\ Copies(here(k), OriginsOf(buffer[k]))
              /\ Uncopied(buffer[k]).origin = Place(buffer[k].origin)
              /\ Uncopied(buffer[k]).parent = buffer[k].parent
  BY Zenon, <1>6, OriginsCopied
<1>12. ASSUME NEW k \in DOMAIN buffer
       PROVE  Range(here(k)) = {Place(r) : r \in Held(buffer[k])}
  <2>. DEFINE some == OriginsOf(buffer[k])
  <2>1. Copies(here(k), some)
    BY <1>11
  <2>. HIDE DEF some, here
  <2>2. Range(here(k)) = {Place(r) : r \in Range(some)}
    BY <2>1 DEF Copies, Range
  <2>. QED
    BY <2>2 DEF some, Held
<1>13. ASSUME NEW k \in DOMAIN buffer
       PROVE  Range(here(k)) = {q \in Range(all) : AsymOf(f, q).addr = AddrIn(f, buffer[k])}
  <2>1. ASSUME NEW q \in Range(here(k))
        PROVE  q \in Range(all) /\ AsymOf(f, q).addr = AddrIn(f, buffer[k])
    <3>1. PICK r \in Held(buffer[k]) : q = Place(r)
      BY Zenon, <1>12, <2>1
    <3>. QED
      BY Zenon, <1>6, <1>9, <1>10, <3>1
  <2>2. ASSUME NEW q \in Range(all), AsymOf(f, q).addr = AddrIn(f, buffer[k])
        PROVE  q \in Range(here(k))
    <3>1. PICK r \in Range(list) : q = Place(r)
      BY Zenon, <1>10
    <3>2. PICK j \in DOMAIN buffer : r \in Held(buffer[j])
      BY Zenon, <1>7
    <3>3. AddrIn(f, buffer[j]) = AddrIn(f, buffer[k])
      BY Zenon, <1>6, <1>9, <2>2, <3>1, <3>2
    <3>4. j = k
      BY Zenon, <1>8, <3>3
    <3>. QED
      BY Zenon, <1>12, <3>1, <3>2, <3>4
  <2>. HIDE DEF here
  <2>. QED
    BY <2>1, <2>2
<1>14. ASSUME NEW k \in DOMAIN buffer PROVE Follows(all, here(k))
  <2>. DEFINE some == OriginsOf(buffer[k])
  <2>1. Follows(list, some) /\ Copies(here(k), some) /\ Copies(all, list)
    BY Zenon, <1>2, <1>6, <1>11
  <2>. HIDE DEF some, here
  <2>2. ASSUME NEW i \in DOMAIN here(k), NEW j \in DOMAIN here(k), i < j
        PROVE  \E m, n \in DOMAIN all : m < n /\ all[m] = here(k)[i] /\ all[n] = here(k)[j]
    <3>1. /\ i \in DOMAIN some /\ j \in DOMAIN some
          /\ here(k)[i] = Place(some[i]) /\ here(k)[j] = Place(some[j])
      BY Zenon, <2>1 DEF Copies
    <3>2. PICK m, n \in DOMAIN list : m < n /\ list[m] = some[i] /\ list[n] = some[j]
      BY Zenon, <2>1, <2>2, <3>1 DEF Follows
    <3>3. /\ m \in DOMAIN all /\ n \in DOMAIN all
          /\ all[m] = Place(list[m]) /\ all[n] = Place(list[n])
      BY Zenon, <2>1 DEF Copies
    <3>. QED
      BY Zenon, <3>1, <3>2, <3>3
  <2>. QED
    BY Zenon, <2>2 DEF Follows
<1>15. ASSUME NEW k \in DOMAIN buffer
       PROVE  Promise!IsSymbolAt(AddrIn(f, buffer[k]), Uncopied(buffer[k]), f, g)
  <2>1. Uncopied(buffer[k]).parent = Section(g, AsymOf(f, Uncopied(buffer[k]).origin).sec)
    BY Zenon, <1>6, <1>9, <1>11
  <2>. QED
    BY Zenon, <1>13, <1>14, <2>1, SymbolAtIs DEF all
\* The addresses.
<1>. DEFINE plain == Plain(buffer)
            address == [k \in DOMAIN plain |-> Promise!Address(f, plain[k].origin)]
<1>16. DOMAIN plain = DOMAIN buffer /\ \A k \in DOMAIN buffer : plain[k] = Uncopied(buffer[k])
  BY DEF Plain
<1>17. \A r : Promise!Address(f, r) = AsymOf(f, r).addr
  BY Zenon, SameOperators DEF Promise!Address, AsymOf
<1>. HIDE DEF plain
<1>18. DOMAIN address = DOMAIN buffer
       /\ \A k \in DOMAIN buffer : address[k] = AddrIn(f, buffer[k])
  <2>1. \A k \in DOMAIN buffer : plain[k].origin = Place(buffer[k].origin)
    BY Zenon, <1>11, <1>16
  <2>. QED
    BY <1>9, <1>16, <1>17, <2>1 DEF AddrIn
<1>. HIDE DEF address
<1>19. Promise!Range(address) = Promise!AddressesOf(f, g)
  <2>1. Promise!AddressesOf(f, g) = {AsymOf(f, q).addr : q \in Range(all)}
    <3>1. /\ Promise!Fetched(f, g, 0) = all /\ ~Promise!NoStorage(f)
          /\ \A l : Promise!Range(l) = Range(l)
      BY Zenon, SameOperators DEF all, f
    <3>. QED
      BY Zenon, <1>17, <3>1 DEF Promise!AddressesOf
  <2>2. Promise!Range(address) = {AddrIn(f, buffer[k]) : k \in DOMAIN buffer}
    BY Zenon, <1>18 DEF Promise!Range
  <2>3. ASSUME NEW k \in DOMAIN buffer
        PROVE  AddrIn(f, buffer[k]) \in {AsymOf(f, q).addr : q \in Range(all)}
    <3>1. Uncopied(buffer[k]).origin \in Range(here(k))
      <4>1. 1 \in DOMAIN OriginsOf(buffer[k]) /\ OriginsOf(buffer[k])[1] = buffer[k].origin
        <5>. DEFINE s == buffer[k]
        <5>1. s.origin \in Origin /\ s.aliases \in Seq(Origin)
          BY <1>6 DEF SymbolRecord
        <5>. HIDE DEF s
        <5>2. 1 \in DOMAIN (<<s.origin>> \o s.aliases) /\ (<<s.origin>> \o s.aliases)[1] = s.origin
          BY <5>1
        <5>. QED
          BY Zenon, <5>2 DEF OriginsOf, s
      <4>2. buffer[k].origin \in Held(buffer[k])
        BY Zenon, <4>1 DEF Held, Range
      <4>. QED
        BY Zenon, <1>11, <1>12, <4>2
    <3>2. Uncopied(buffer[k]).origin \in Range(all)
          /\ AsymOf(f, Uncopied(buffer[k]).origin).addr = AddrIn(f, buffer[k])
      BY Zenon, <1>13, <3>1
    <3>. QED
      BY Zenon, <3>2
  <2>4. ASSUME NEW q \in Range(all)
        PROVE  AsymOf(f, q).addr \in {AddrIn(f, buffer[k]) : k \in DOMAIN buffer}
    <3>1. PICK r \in Range(list) : q = Place(r)
      BY Zenon, <1>10
    <3>2. PICK k \in DOMAIN buffer : r \in Held(buffer[k])
      BY Zenon, <1>7
    <3>. QED
      BY Zenon, <1>6, <1>9, <3>1, <3>2
  <2>. HIDE DEF here
  <2>. QED
    BY Zenon, <2>1, <2>2, <2>3, <2>4
<1>20. \A j, k \in DOMAIN plain : j < k => address[j] < address[k]
  <2>. HIDE DEF here
  <2>. QED
    BY <1>8, <1>16, <1>18
<1>21. \A k \in DOMAIN plain : Promise!IsSymbolAt(address[k], plain[k], f, g)
  BY Zenon, <1>15, <1>16, <1>18
<1>. QED
  BY Zenon, <1>19, <1>20, <1>21 DEF Promise!IsTableOf, address, plain, buffer, f

-----------------------------------------------------------------------------
(* What an owner remembers is true.                                        *)

\* What an owner has read is the truth about its file.
Honest(fs, x) ==
  x.fd # 0 =>
    /\ x.symbol_table # <<>> \/ x.symbol_buffer # <<>> =>
         ~FetchFails(fs[x.fd]) /\ ~NoStorage(fs[x.fd])
    /\ x.symbol_buffer # <<>> =>
         Promise!IsTableOf(fs[x.fd], x.fd, Plain(x.symbol_buffer))
    /\ Range(x.section_buffer) \subseteq
         Range(FetchedSections(fs[x.fd], x.fd)) \cup ForeignSections(fs[x.fd])

\* A file without storage for symbols has a table without symbols.
LEMMA NoTableIsTrue ==
  ASSUME NEW f, NEW g, NoStorage(f)
  PROVE  Promise!IsTableOf(f, g, Plain(<<>>))
<1>1. DOMAIN Plain(<<>>) = {}
  BY DEF Plain
<1>. DEFINE address == [k \in DOMAIN Plain(<<>>) |-> Promise!Address(f, Plain(<<>>)[k].origin)]
<1>2. DOMAIN address = {}
  BY <1>1
<1>. HIDE DEF address
<1>3. Promise!NoStorage(f)
  BY Zenon, SameOperators
<1>4. Promise!Range(address) = Promise!AddressesOf(f, g)
  BY <1>2, <1>3 DEF Promise!Range, Promise!AddressesOf
<1>. QED
  BY Zenon, <1>1, <1>4 DEF Promise!IsTableOf, address

\* What getSymbolTable returns, remembered or read, is the table of the file.
LEMMA ReadSymbolsTrue ==
  ASSUME NEW x, Opened(files), tables \in Nat, Holds(files, x), Honest(files, x),
         x.fd # 0, ~Throws(x)
  PROVE  LET y == ReadSymbols(x)
         IN  /\ Honest(files, y)
             /\ ~FetchFails(files[x.fd])
             /\ Promise!IsTableOf(files[x.fd], x.fd, Plain(y.symbol_buffer))
<1>. DEFINE y == ReadSymbols(x)
            z == FetchSymbolTable(x)
            g == x.fd
            f == files[g]
            built == FoldLeft(AddSymbol, [symbols |-> <<>>, sections |-> z.section_buffer],
                              z.symbol_table)
<1>1. x \in ObjectRecord /\ g \in DOMAIN files /\ g \in Nat \ {0} /\ IsFile(f)
  BY DEF Holds, Opened
<1>2. /\ x.symbol_table # <<>> \/ x.symbol_buffer # <<>> => ~FetchFails(f) /\ ~NoStorage(f)
      /\ x.symbol_buffer # <<>> => Promise!IsTableOf(f, g, Plain(x.symbol_buffer))
      /\ Range(x.section_buffer) \subseteq Range(FetchedSections(f, g)) \cup ForeignSections(f)
  BY Zenon DEF Honest
<1>3. ~FetchFails(f)
  BY <1>2 DEF Throws
<1>4. CASE x.symbol_buffer # <<>>
  <2>1. y = x
    BY Zenon, <1>4 DEF ReadSymbols
  <2>. QED
    BY Zenon, <1>2, <1>3, <1>4, <2>1
<1>5. CASE x.symbol_buffer = <<>> /\ NoStorage(f)
  <2>1. z = x /\ x.symbol_table = <<>>
    BY Zenon, <1>2, <1>5 DEF FetchSymbolTable
  <2>2. x.section_buffer \in Seq(SectionRecord)
    BY <1>1 DEF ObjectRecord
  <2>3. built = [symbols |-> <<>>, sections |-> x.section_buffer] /\ ByAddress(<<>>) = <<>>
    BY Zenon, <2>1, <2>2, NothingBuilt
  <2>4. built.symbols = <<>> /\ built.sections = x.section_buffer
    BY <2>3
  <2>5. y = [x EXCEPT !.symbol_buffer = x.symbol_buffer, !.section_buffer = x.section_buffer]
    BY Zenon, <1>5, <2>1, <2>3, <2>4 DEF ReadSymbols
  <2>. HIDE DEF y
  <2>6. y = x
    BY <1>1, <2>5 DEF ObjectRecord
  <2>7. Promise!IsTableOf(f, g, Plain(<<>>))
    BY Zenon, <1>5, NoTableIsTrue
  <2>. QED
    BY Zenon, <1>3, <1>5, <2>6, <2>7 DEF y
<1>6. CASE x.symbol_buffer = <<>> /\ ~NoStorage(f)
  <2>1. \E t \in Nat : z.symbol_table = Fetched(f, g, t)
    <3>1. CASE x.symbol_table # <<>>
      <4>1. z = x
        BY Zenon, <3>1 DEF FetchSymbolTable
      <4>2. PICK h \in DOMAIN files, t \in Nat :
              Fits(h, x) /\ x.symbol_table = Fetched(files[h], h, t)
        BY Zenon, <3>1 DEF Holds, ListsOfFile
      <4>3. h = g
        BY Zenon, <4>2 DEF Fits
      <4>. QED
        BY Zenon, <4>1, <4>2, <4>3
    <3>2. CASE x.symbol_table = <<>>
      <4>. DEFINE t == IF f.synthetic = <<>> THEN 0 ELSE tables + 1
                  list == Fetched(f, g, t)
      <4>1. z = [x EXCEPT !.symbol_table = list, !.synthetic_symbol_table = t]
        BY Zenon, <1>6, <3>2 DEF FetchSymbolTable
      <4>2. t \in Nat
        OBVIOUS
      <4>. HIDE DEF z, list, t
      <4>3. z.symbol_table = list
        BY <1>1, <4>1 DEF ObjectRecord
      <4>. QED
        BY Zenon, <4>2, <4>3 DEF list
    <3>. QED
      BY <3>1, <3>2
  <2>2. PICK t \in Nat : z.symbol_table = Fetched(f, g, t)
    BY <2>1
  <2>3. x.fd = 0 => x.symbol_table # <<>>
    OBVIOUS
  <2>4. /\ Holds(files, z) /\ z.fd = x.fd
        /\ z.symbol_buffer = <<>> /\ z.section_buffer = x.section_buffer
    BY Zenon, <1>6, <2>3, FetchHolds
  <2>. HIDE DEF z
  <2>5. /\ z \in ObjectRecord /\ z.section_buffer \in Seq(SectionRecord)
        /\ IsInjective(z.section_buffer)
    BY <2>4 DEF Holds, SectionsOfFile, ObjectRecord
  <2>. DEFINE list == Fetched(f, g, t)
  <2>6. /\ built \in Buffers
        /\ Grouped(built.symbols, Range(list)) /\ Told(built.symbols, list)
        /\ Housed(built.symbols, built.sections)
        /\ Extended(built.sections, z.section_buffer, {HomeOf(f, r) : r \in Range(list)})
    <3>. DEFINE start == z.section_buffer
                gathered == FoldLeft(AddSymbol, [symbols |-> <<>>, sections |-> start], list)
    <3>1. built = gathered
      BY Zenon, <2>2
    <3>2. start \in Seq(SectionRecord) /\ IsInjective(start)
      BY Zenon, <2>5
    <3>3. g \in DOMAIN files /\ g \in Nat \ {0} /\ IsFile(files[g]) /\ t \in Nat
      BY Zenon, <1>1
    <3>. HIDE DEF g, start
    <3>4. /\ gathered \in Buffers
          /\ Grouped(gathered.symbols, Range(list)) /\ Told(gathered.symbols, list)
          /\ Housed(gathered.symbols, gathered.sections)
          /\ Extended(gathered.sections, start, {HomeOf(f, r) : r \in Range(list)})
      BY Zenon, <3>2, <3>3, Built
    <3>. HIDE DEF built, gathered
    <3>. QED
      BY Zenon, <3>1, <3>4 DEF start
  <2>7. y = [z EXCEPT !.symbol_buffer = ByAddress(built.symbols),
                      !.section_buffer = built.sections]
    BY Zenon, <1>6, <2>4 DEF ReadSymbols, z
  <2>. HIDE DEF built
  <2>8. Promise!IsTableOf(f, g, Plain(ByAddress(built.symbols)))
    BY Zenon, <1>1, <1>6, <2>6, TableIsTrue
  <2>9. Range(built.sections) \subseteq Range(FetchedSections(f, g)) \cup ForeignSections(f)
    <3>1. \A r \in Range(list) : From(f, g, r)
      BY Zenon, <1>1, FetchedIs
    <3>2. \A r \in Range(list) :
            HomeOf(f, r) \in Range(FetchedSections(f, g)) \cup ForeignSections(f)
      BY Zenon, <1>1, <3>1, HomeIsTrue
    <3>3. Range(built.sections)
            \subseteq Range(x.section_buffer) \cup {HomeOf(f, r) : r \in Range(list)}
      BY Zenon, <2>4, <2>6 DEF Extended
    <3>. QED
      BY Zenon, <1>2, <3>2, <3>3
  <2>. DEFINE buffer == ByAddress(built.symbols)
              sections == built.sections
  <2>. HIDE DEF y, list, buffer, sections, g, f
  <2>10. y.fd = x.fd /\ y.symbol_buffer = buffer /\ y.section_buffer = sections
    BY <2>4, <2>5, <2>7 DEF ObjectRecord, buffer, sections
  <2>11. Honest(files, y)
    BY Zenon, <1>3, <1>6, <2>8, <2>9, <2>10 DEF Honest, buffer, sections, f, g
  <2>. QED
    BY Zenon, <1>3, <2>8, <2>10, <2>11 DEF buffer, y, f, g
<1>. QED
  BY <1>4, <1>5, <1>6

\* What getSections returns: the sections of the file, and foreign ones that
\* symbols led to.
LEMMA ReadSectionsTrue ==
  ASSUME NEW x, Opened(files), Holds(files, x), Honest(files, x), x.fd # 0
  PROVE  LET y == ReadSections(x)
             f == files[x.fd]
         IN  /\ Honest(files, y)
             /\ IsInjective(y.section_buffer)
             /\ Range(FetchedSections(f, x.fd)) \subseteq Range(y.section_buffer)
             /\ Range(y.section_buffer) \subseteq
                  Range(FetchedSections(f, x.fd)) \cup ForeignSections(f)
<1>. DEFINE y == ReadSections(x)
            f == files[x.fd]
<1>1. SectionsCallable(x)
  BY Zenon DEF SectionsCallable
<1>2. /\ Holds(files, y) /\ y.fd = x.fd
      /\ y.symbol_table = x.symbol_table /\ y.symbol_buffer = x.symbol_buffer
      /\ y.sections_sorted /\ y.sections # <<>>
      /\ Range(y.section_buffer) = Range(x.section_buffer) \cup Range(y.sections)
  BY Zenon, <1>1, ReadSectionsHolds
<1>. HIDE DEF y
<1>3. /\ IsInjective(y.section_buffer)
      /\ Range(FetchedSections(f, x.fd)) \subseteq Range(y.section_buffer)
  BY Zenon, <1>2 DEF Holds, SectionsOfFile, OrderOfSections
<1>4. y.sections = FetchedSections(f, x.fd)
  <2>1. PICK g \in DOMAIN files : Fits(g, y) /\ y.sections = FetchedSections(files[g], g)
    BY Zenon, <1>2 DEF Holds, ListsOfFile
  <2>2. g = x.fd
    BY Zenon, <1>2, <2>1 DEF Fits
  <2>. QED
    BY Zenon, <2>1, <2>2
<1>5. Range(y.section_buffer) \subseteq Range(FetchedSections(f, x.fd)) \cup ForeignSections(f)
  <2>1. Range(x.section_buffer) \subseteq Range(FetchedSections(f, x.fd)) \cup ForeignSections(f)
    BY Zenon DEF Honest
  <2>. QED
    BY Zenon, <1>2, <1>4, <2>1
<1>6. Honest(files, y)
  BY Zenon, <1>2, <1>5 DEF Honest
<1>. QED
  BY Zenon, <1>3, <1>5, <1>6 DEF y

\* A new object remembers nothing.
LEMMA NewHonest ==
  ASSUME NEW fs, NEW fd
  PROVE  Honest(fs, NewObject(fd))
<1>1. /\ NewObject(fd).symbol_table = <<>> /\ NewObject(fd).symbol_buffer = <<>>
      /\ NewObject(fd).section_buffer = <<>>
  BY DEF NewObject
<1>2. Range(<<>>) = {}
  BY DEF Range
<1>. QED
  BY Zenon, <1>1, <1>2 DEF Honest

\* What is left in the other object has no owner any more.
LEMMA MovedHonest ==
  ASSUME NEW fs, NEW x \in ObjectRecord, Honest(fs, x)
  PROVE  /\ Honest(fs, MovedFrom(x)) /\ MovedFrom(x).fd = 0
         /\ LET y == [x EXCEPT !.sections = <<>>, !.symbol_table = <<>>,
                               !.synthetic_symbol_table = 0]
            IN  Honest(fs, y) /\ y.fd = x.fd
         /\ \A w \in ObjectRecord : Honest(fs, Assigned(w, x)) /\ Assigned(w, x).fd = x.fd
<1>1. MovedFrom(x).fd = 0
  BY DEF MovedFrom, ObjectRecord
<1>2. ASSUME NEW y, y.fd = x.fd, y.symbol_table = <<>>,
             y.symbol_buffer = x.symbol_buffer, y.section_buffer = x.section_buffer
      PROVE  Honest(fs, y)
  BY Zenon, <1>2 DEF Honest
<1>. DEFINE y == [x EXCEPT !.sections = <<>>, !.symbol_table = <<>>, !.synthetic_symbol_table = 0]
<1>3. /\ y.fd = x.fd /\ y.symbol_table = <<>>
      /\ y.symbol_buffer = x.symbol_buffer /\ y.section_buffer = x.section_buffer
  BY DEF ObjectRecord
<1>4. ASSUME NEW w \in ObjectRecord
      PROVE  /\ Assigned(w, x).fd = x.fd /\ Assigned(w, x).symbol_table = <<>>
             /\ Assigned(w, x).symbol_buffer = x.symbol_buffer
             /\ Assigned(w, x).section_buffer = x.section_buffer
  <2>. DEFINE v == SelfMoved(w)
  <2>1. v = [w EXCEPT !.sections = <<>>, !.symbol_table = <<>>, !.synthetic_symbol_table = 0]
    BY DEF SelfMoved
  <2>2. <<>> \in Seq(SectionRecord) /\ <<>> \in Seq(Origin) /\ 0 \in Nat
    OBVIOUS
  <2>. HIDE DEF v
  <2>3. v \in ObjectRecord /\ v.symbol_table = <<>>
    BY <2>1, <2>2 DEF ObjectRecord
  <2>4. Assigned(w, x) = [v EXCEPT !.fd = x.fd, !.is_valid = x.is_valid,
                                   !.sections_sorted = x.sections_sorted,
                                   !.section_buffer = x.section_buffer,
                                   !.symbol_buffer = x.symbol_buffer]
    BY Zenon DEF Assigned, v
  <2>. QED
    BY <2>3, <2>4 DEF ObjectRecord
<1>5. Honest(fs, MovedFrom(x))
  BY Zenon, <1>1 DEF Honest
<1>. HIDE DEF y
<1>6. Honest(fs, y)
  BY Zenon, <1>2, <1>3
<1>7. \A w \in ObjectRecord : Honest(fs, Assigned(w, x))
  BY Zenon, <1>2, <1>4
<1>. QED
  BY Zenon, <1>1, <1>3, <1>4, <1>5, <1>6, <1>7 DEF y

\* A file that is opened makes nothing untrue.
LEMMA StaysHonest ==
  ASSUME NEW fs, NEW new, NEW x, Honest(fs, x), x.fd # 0 => new[x.fd] = fs[x.fd]
  PROVE  Honest(new, x)
  BY Zenon DEF Honest

-----------------------------------------------------------------------------
(* Each step is one of the promise.                                        *)

HonestObjects == \A o \in DOMAIN objs : Honest(files, objs[o])

\* A file is opened, or none is.
Grows ==
  \/ files' = files
  \/ Len(files') = Len(files) + 1 /\ SubSeq(files', 1, Len(files)) = files

\* Every descriptor was there before, or is that of the file just opened.
Inherits ==
  \A o \in DOMAIN objs' : objs'[o].fd # 0 =>
    \/ \E p \in DOMAIN objs : objs[p].fd = objs'[o].fd
    \/ objs'[o].fd = Len(files') /\ files' # files

\* A step that nobody is asked anything in.
Changed == Grows /\ Inherits /\ answer' = None /\ HonestObjects'

\* One file more.
LEMMA AppendGrows ==
  ASSUME Inv, NEW f \in Files, files' = Append(files, f)
  PROVE  /\ Grows /\ files' # files /\ Len(files') = Len(files) + 1
         /\ \A g \in DOMAIN files : files'[g] = files[g]
<1>1. files \in Seq(Files) /\ Len(files) \in Nat
  BY DEF Inv, Around
<1>2. /\ files' \in Seq(Files) /\ Len(files') = Len(files) + 1
      /\ \A g \in 1 .. Len(files) : files'[g] = files[g]
  BY <1>1
<1>3. SubSeq(files', 1, Len(files)) = files
  <2>. DEFINE n == Len(files)
              s == SubSeq(files', 1, n)
  <2>1. s \in Seq(Files) /\ Len(s) = n /\ \A i \in 1 .. n : s[i] = files'[i]
    BY <1>1, <1>2
  <2>. HIDE DEF s
  <2>2. s = files
    BY <1>1, <1>2, <2>1
  <2>. QED
    BY <2>2 DEF s
<1>4. files' # files
  BY <1>1, <1>2
<1>5. Grows
  BY Zenon, <1>2, <1>3 DEF Grows
<1>6. \A g \in DOMAIN files : files'[g] = files[g]
  BY <1>1, <1>2
<1>. QED
  BY Zenon, <1>2, <1>4, <1>5, <1>6

LEMMA OpenChanges ==
  ASSUME Inv, HonestObjects, NEW o \in Objects, NEW f \in Files, Open(o, f)
  PROVE  Changed
<1>. DEFINE x == NewObject(Len(files) + 1)
<1>1. files' = Append(files, f) /\ objs' = Placed(x, o) /\ answer' = None
  BY DEF Open
<1>2. /\ Grows /\ files' # files /\ Len(files') = Len(files) + 1
      /\ \A g \in DOMAIN files : files'[g] = files[g]
  BY <1>1, AppendGrows
<1>3. x.fd = Len(files') /\ Honest(files', x)
  <2>1. x.fd = Len(files) + 1
    BY DEF NewObject
  <2>. QED
    BY Zenon, <1>2, <2>1, NewHonest
<1>. HIDE DEF x
<1>4. /\ DOMAIN objs' = DOMAIN objs \cup {o} /\ objs'[o] = x
      /\ \A p \in DOMAIN objs : p # o => objs'[p] = objs[p]
  BY <1>1 DEF Placed
<1>5. \A p \in DOMAIN objs : objs[p].fd # 0 => files'[objs[p].fd] = files[objs[p].fd]
  BY <1>2, SoundFacts
<1>6. \A p \in DOMAIN objs : Honest(files', objs[p])
  BY Zenon, <1>5, StaysHonest DEF HonestObjects
<1>7. HonestObjects'
  BY <1>3, <1>4, <1>6 DEF HonestObjects
<1>8. Inherits
  BY <1>2, <1>3, <1>4 DEF Inherits
<1>. QED
  BY <1>1, <1>2, <1>7, <1>8 DEF Changed

LEMMA OpenThrowsChanges ==
  ASSUME Inv, HonestObjects, NEW f \in Files, OpenThrows(f)
  PROVE  Changed
<1>1. /\ files' = IF f.state = "other" THEN Append(files, f) ELSE files
      /\ answer' = None /\ objs' = objs
  BY DEF OpenThrows
<1>2. Grows /\ \A g \in DOMAIN files : files'[g] = files[g]
  <2>1. CASE f.state = "other"
    BY <1>1, <2>1, AppendGrows
  <2>2. CASE f.state # "other"
    BY <1>1, <2>2 DEF Grows
  <2>. QED
    BY <2>1, <2>2
<1>3. \A p \in DOMAIN objs : objs[p].fd # 0 => files'[objs[p].fd] = files[objs[p].fd]
  BY <1>2, SoundFacts
<1>4. \A p \in DOMAIN objs : Honest(files', objs[p])
  BY Zenon, <1>3, StaysHonest DEF HonestObjects
<1>5. HonestObjects' /\ Inherits
  BY <1>1, <1>4 DEF HonestObjects, Inherits
<1>. QED
  BY <1>1, <1>2, <1>5 DEF Changed

LEMMA WrapChanges ==
  ASSUME Inv, HonestObjects, NEW o \in Objects, Wrap(o)
  PROVE  Changed
<1>. DEFINE x == NewObject(0)
<1>1. files' = files /\ objs' = Placed(x, o) /\ answer' = None
  BY DEF Wrap
<1>2. x.fd = 0 /\ Honest(files, x)
  BY NewHonest DEF NewObject
<1>. HIDE DEF x
<1>3. /\ DOMAIN objs' = DOMAIN objs \cup {o} /\ objs'[o] = x
      /\ \A p \in DOMAIN objs : p # o => objs'[p] = objs[p]
  BY <1>1 DEF Placed
<1>4. HonestObjects' /\ Inherits
  BY <1>1, <1>2, <1>3 DEF HonestObjects, Inherits
<1>. QED
  BY <1>1, <1>4 DEF Changed, Grows

LEMMA DestroyChanges ==
  ASSUME Inv, HonestObjects, NEW o \in Objects, Destroy(o)
  PROVE  Changed
<1>1. /\ files' = files /\ answer' = None
      /\ objs' = [p \in DOMAIN objs \ {o} |-> objs[p]]
  BY DEF Destroy
<1>2. HonestObjects' /\ Inherits
  BY <1>1 DEF HonestObjects, Inherits
<1>. QED
  BY <1>1, <1>2 DEF Changed, Grows

LEMMA MoveConstructChanges ==
  ASSUME Inv, HonestObjects, NEW o \in Objects, NEW rhs \in Objects, MoveConstruct(o, rhs)
  PROVE  Changed
<1>. DEFINE x == objs[rhs]
            y == [x EXCEPT !.sections = <<>>, !.symbol_table = <<>>,
                           !.synthetic_symbol_table = 0]
            z == MovedFrom(x)
<1>1. /\ o \notin DOMAIN objs /\ rhs \in DOMAIN objs
      /\ objs' = [Placed(y, o) EXCEPT ![rhs] = MovedFrom(@)]
      /\ answer' = None /\ files' = files
  BY DEF MoveConstruct
<1>2. x \in ObjectRecord /\ Honest(files, x)
  BY <1>1, SoundFacts DEF HonestObjects
<1>3. Honest(files, y) /\ y.fd = x.fd /\ Honest(files, z) /\ z.fd = 0
  BY Zenon, <1>2, MovedHonest
<1>4. Placed(y, o)[rhs] = x /\ DOMAIN Placed(y, o) = DOMAIN objs \cup {o}
  BY <1>1 DEF Placed
<1>. HIDE DEF y, z
<1>5. /\ DOMAIN objs' = DOMAIN objs \cup {o} /\ objs'[o] = y /\ objs'[rhs] = z
      /\ \A p \in DOMAIN objs : p # rhs => objs'[p] = objs[p]
  BY <1>1, <1>4 DEF Placed, z
<1>6. HonestObjects'
  <2>1. \A p \in DOMAIN objs' : Honest(files, objs'[p])
    BY Zenon, <1>3, <1>5 DEF HonestObjects
  <2>. QED
    BY <1>1, <2>1 DEF HonestObjects
<1>7. Inherits
  <2>1. objs'[o].fd = objs[rhs].fd /\ objs'[rhs].fd = 0
    BY Zenon, <1>3, <1>5
  <2>. QED
    BY <1>1, <1>5, <2>1 DEF Inherits
<1>. QED
  BY <1>1, <1>6, <1>7 DEF Changed, Grows

LEMMA MoveAssignChanges ==
  ASSUME Inv, HonestObjects, NEW o \in Objects, NEW rhs \in Objects, MoveAssign(o, rhs)
  PROVE  Changed
<1>1. {o, rhs} \subseteq DOMAIN objs /\ answer' = None /\ files' = files
  BY DEF MoveAssign
<1>2. /\ objs[o] \in ObjectRecord /\ objs[rhs] \in ObjectRecord
      /\ Honest(files, objs[o]) /\ Honest(files, objs[rhs])
      /\ objs \in [DOMAIN objs -> ObjectRecord]
  BY <1>1, SoundFacts DEF HonestObjects, Inv, ObjectsSound
<1>3. \E y, z : /\ Honest(files, y) /\ Honest(files, z) /\ z.fd = 0
                /\ o # rhs => y.fd = objs[rhs].fd
                /\ o = rhs => y = z
                /\ objs' = [objs EXCEPT ![o] = y, ![rhs] = z]
  <2>1. CASE o = rhs
    <3>. DEFINE x == SelfMoved(objs[o])
                z == MovedFrom(x)
    <3>1. x \in ObjectRecord
      <4>1. <<>> \in Seq(SectionRecord) /\ <<>> \in Seq(Origin) /\ 0 \in Nat
        OBVIOUS
      <4>. QED
        BY <1>2, <4>1 DEF SelfMoved, ObjectRecord
    <3>2. objs' = [objs EXCEPT ![o] = z]
      BY <2>1 DEF MoveAssign
    <3>. HIDE DEF x
    <3>3. z.fd = 0
      BY <3>1 DEF MovedFrom, ObjectRecord
    <3>. HIDE DEF z
    <3>4. Honest(files, z)
      BY Zenon, <3>3 DEF Honest
    <3>5. objs' = [objs EXCEPT ![o] = z, ![rhs] = z]
      BY <1>1, <1>2, <2>1, <3>2
    <3>. QED
      BY Zenon, <2>1, <3>3, <3>4, <3>5
  <2>2. CASE o # rhs
    <3>. DEFINE y == Assigned(objs[o], objs[rhs])
                z == MovedFrom(objs[rhs])
    <3>1. Honest(files, z) /\ z.fd = 0
      BY Zenon, <1>2, MovedHonest
    <3>2. Honest(files, y) /\ y.fd = objs[rhs].fd
      <4>. DEFINE w == objs[o]
                  x == objs[rhs]
      <4>1. Honest(files, x) /\ w \in ObjectRecord /\ x \in ObjectRecord
        BY <1>2
      <4>. HIDE DEF w, x
      <4>2. \A v \in ObjectRecord : Honest(files, Assigned(v, x)) /\ Assigned(v, x).fd = x.fd
        BY Zenon, <4>1, MovedHonest
      <4>. QED
        BY Zenon, <4>1, <4>2 DEF w, x
    <3>3. objs' = [objs EXCEPT ![o] = y, ![rhs] = z]
      BY <2>2 DEF MoveAssign
    <3>. HIDE DEF y, z
    <3>. QED
      BY Zenon, <2>2, <3>1, <3>2, <3>3
  <2>. QED
    BY <2>1, <2>2
<1>4. PICK y, z : /\ Honest(files, y) /\ Honest(files, z) /\ z.fd = 0
                  /\ o # rhs => y.fd = objs[rhs].fd
                  /\ o = rhs => y = z
                  /\ objs' = [objs EXCEPT ![o] = y, ![rhs] = z]
  BY <1>3
<1>5. /\ DOMAIN objs' = DOMAIN objs /\ objs'[o] = y /\ objs'[rhs] = z
      /\ \A p \in DOMAIN objs : p \notin {o, rhs} => objs'[p] = objs[p]
  BY <1>1, <1>2, <1>4
<1>6. HonestObjects'
  <2>1. \A p \in DOMAIN objs' : Honest(files, objs'[p])
    BY <1>4, <1>5 DEF HonestObjects
  <2>. QED
    BY <1>1, <2>1 DEF HonestObjects
<1>7. Inherits
  BY <1>1, <1>4, <1>5 DEF Inherits
<1>. QED
  BY <1>1, <1>6, <1>7 DEF Changed, Grows

\* Such a step is a change of the promise.
LEMMA ChangedIsPromised ==
  ASSUME Inv, Inv', Changed
  PROVE  Promise!Next
<1>1. answer' = None /\ Grows /\ Inherits
  BY DEF Changed
<1>2. \A o, p \in DOMAIN objs' : objs'[o].fd = objs'[p].fd /\ objs'[o].fd # 0 => o = p
  BY DEF Inv, Owners
<1>3. (IF answer.to \notin {"symbols", "table"} THEN answer
       ELSE [answer EXCEPT !.value =
              [k \in DOMAIN answer.value |-> Uncopied(answer.value[k])]])' = Promise!None
  BY <1>1 DEF None, Promise!None
<1>4. Promise!Changes
  <2>. DEFINE owner == [o \in DOMAIN objs |-> objs[o].fd]
  <2>1. \A o \in DOMAIN owner' : owner'[o] # 0 =>
          \/ \E p \in DOMAIN owner : owner[p] = owner'[o]
          \/ owner'[o] = Len(files') /\ files' # files
    BY <1>1 DEF Inherits
  <2>2. \A o, p \in DOMAIN owner' : owner'[o] = owner'[p] /\ owner'[o] # 0 => o = p
    BY <1>2
  <2>. QED
    BY Zenon, <1>1, <1>3, <2>1, <2>2 DEF Promise!Changes, Grows
<1>. QED
  BY Zenon, <1>4 DEF Promise!Next

\* The promise sees an answer about symbols without the copies.
WithoutCopies(a) == IF a.to \notin {"symbols", "table"} THEN a
            ELSE [a EXCEPT !.value = Plain(a.value)]

\* The first symbols for each address are the table of functions.
LEMMA KeysAreTrue ==
  ASSUME NEW g \in DOMAIN files, NEW buffer \in Seq(SymbolRecord),
         \A k \in DOMAIN buffer : buffer[k].origin.fd = g,
         Promise!IsTableOf(files[g], g, Plain(buffer))
  PROVE  LET value == Plain(ByKey(buffer))
         IN  /\ DOMAIN value = Promise!AddressesOf(files[g], g)
             /\ \A a \in DOMAIN value : Promise!IsSymbolAt(a, value[a], files[g], g)
<1>. DEFINE f == files[g]
            plain == Plain(buffer)
            value == Plain(ByKey(buffer))
            address == [k \in DOMAIN plain |-> Promise!Address(f, plain[k].origin)]
            keys == {Addr(s) : s \in Range(buffer)}
            here(a) == {k \in DOMAIN buffer : Addr(buffer[k]) = a}
<1>1. DOMAIN plain = DOMAIN buffer /\ \A k \in DOMAIN buffer : plain[k] = Uncopied(buffer[k])
  BY DEF Plain
<1>2. /\ DOMAIN value = keys
      /\ \A a \in keys : value[a] = Uncopied(buffer[Min(here(a))])
  BY DEF Plain, ByKey
<1>3. /\ Promise!Range(address) = Promise!AddressesOf(f, g)
      /\ \A k \in DOMAIN plain : Promise!IsSymbolAt(address[k], plain[k], f, g)
  BY Zenon DEF Promise!IsTableOf
<1>. HIDE DEF plain, value
<1>4. ASSUME NEW k \in DOMAIN buffer PROVE address[k] = Addr(buffer[k]) /\ k \in DOMAIN address
  <2>1. plain[k].origin = Place(buffer[k].origin) /\ k \in DOMAIN plain
    BY <1>1 DEF Uncopied
  <2>2. Place(buffer[k].origin).kind = buffer[k].origin.kind
        /\ Place(buffer[k].origin).i = buffer[k].origin.i
    BY DEF Place
  <2>3. Promise!Address(f, plain[k].origin)
          = Asymbols(f, buffer[k].origin.kind)[buffer[k].origin.i].addr
    BY Zenon, <2>1, <2>2, SameOperators DEF Promise!Address
  <2>4. Addr(buffer[k]) = Asymbols(f, buffer[k].origin.kind)[buffer[k].origin.i].addr
    BY Zenon DEF Addr, Asym
  <2>. QED
    BY <2>1, <2>3, <2>4
<1>5. DOMAIN address = DOMAIN buffer
  BY <1>1
<1>. HIDE DEF address
<1>6. Promise!Range(address) = keys
  BY Zenon, <1>4, <1>5 DEF Promise!Range, Range
<1>7. ASSUME NEW a \in keys PROVE Promise!IsSymbolAt(a, value[a], f, g)
  <2>. DEFINE k == Min(here(a))
  <2>1. here(a) \subseteq Nat /\ here(a) # {}
    BY DEF Range
  <2>2. k \in here(a)
    <3>. HIDE DEF here
    <3>. QED
      BY <2>1, MinIs
  <2>3. k \in DOMAIN buffer /\ Addr(buffer[k]) = a /\ value[a] = Uncopied(buffer[k])
    BY Zenon, <1>2, <2>2
  <2>. HIDE DEF k
  <2>. QED
    BY Zenon, <1>1, <1>3, <1>4, <2>3
<1>. QED
  BY Zenon, <1>2, <1>3, <1>6, <1>7 DEF value

\* Every origin in the buffer of an owner is in its file.
LEMMA OwnBuffer ==
  ASSUME NEW x, Holds(files, x), x.fd # 0
  PROVE  /\ x.symbol_buffer \in Seq(SymbolRecord)
         /\ \A k \in DOMAIN x.symbol_buffer : x.symbol_buffer[k].origin.fd = x.fd
<1>1. x.symbol_buffer \in Seq(SymbolRecord)
  BY DEF Holds, ObjectRecord
<1>2. ASSUME NEW k \in DOMAIN x.symbol_buffer PROVE x.symbol_buffer[k].origin.fd = x.fd
  <2>1. x.symbol_buffer # <<>>
    OBVIOUS
  <2>2. PICK g \in DOMAIN files : Fits(g, x) /\ IsTable(files[g], g, x.symbol_buffer)
    BY Zenon, <2>1 DEF Holds, TableOfFile
  <2>. QED
    BY Zenon, <2>2 DEF IsTable, Fits
<1>. QED
  BY <1>1, <1>2

\* An answer the promise allows for the file g, which is f.
Asked(a, f, g) == Promise!True(WithoutCopies(a), f, g)

\* getSymbolTable and generate_table answer what is true.
LEMMA SymbolsAnswer ==
  ASSUME Inv, HonestObjects, NEW o \in Objects, GetSymbolTable(o) \/ GenerateTable(o)
  PROVE  /\ HonestObjects'
         /\ o \in DOMAIN objs /\ answer'.by = o
         /\ objs[o].fd # 0 => Asked(answer', files[objs[o].fd], objs[o].fd)
         /\ files' = files /\ DOMAIN objs' = DOMAIN objs
         /\ \A p \in DOMAIN objs : objs'[p].fd = objs[p].fd
<1>. DEFINE x == objs[o]
            y == ReadSymbols(x)
            f == files[x.fd]
<1>1. /\ o \in DOMAIN objs /\ SymbolsCallable(x) /\ ~Throws(x)
      /\ objs' = [objs EXCEPT ![o] = y]
      /\ files' = files
  BY Zenon DEF GetSymbolTable, GenerateTable
<1>2. \/ answer' = Answer(o, "symbols", objs'[o].symbol_buffer)
      \/ answer' = Answer(o, "table", ByKey(objs'[o].symbol_buffer))
  BY Zenon DEF GetSymbolTable, GenerateTable
<1>3. Opened(files) /\ tables \in Nat /\ Holds(files, x) /\ Honest(files, x)
      /\ objs \in [DOMAIN objs -> ObjectRecord]
  BY <1>1, InvOpened, SoundFacts DEF HonestObjects, Inv, ObjectsSound
<1>4. Holds(files, y) /\ y.fd = x.fd
  BY Zenon, <1>1, <1>3, ReadSymbolsHolds
<1>5. ASSUME x.fd # 0
      PROVE  /\ Honest(files, y) /\ ~FetchFails(f)
             /\ Promise!IsTableOf(f, x.fd, Plain(y.symbol_buffer))
  BY Zenon, <1>1, <1>3, <1>5, ReadSymbolsTrue
<1>6. Honest(files, y)
  BY Zenon, <1>4, <1>5 DEF Honest
<1>. HIDE DEF y
<1>7. /\ DOMAIN objs' = DOMAIN objs /\ objs'[o] = y
      /\ \A p \in DOMAIN objs : p # o => objs'[p] = objs[p]
  BY <1>1, <1>3
<1>8. HonestObjects'
  BY <1>1, <1>6, <1>7 DEF HonestObjects
<1>9. answer'.by = o
  BY <1>2 DEF Answer
<1>10. \A p \in DOMAIN objs : objs'[p].fd = objs[p].fd
  BY <1>4, <1>7
<1>11. ASSUME x.fd # 0 PROVE Asked(answer', f, x.fd)
  <2>. DEFINE a == WithoutCopies(answer')
              g == x.fd
  <2>1. ~Promise!FetchFails(f)
    BY Zenon, <1>5, <1>11, SameOperators
  <2>2. Promise!IsTableOf(f, g, Plain(y.symbol_buffer))
    BY Zenon, <1>5, <1>11
  <2>3. CASE answer' = Answer(o, "symbols", objs'[o].symbol_buffer)
    <3>1. a.threw = FALSE /\ a.to = "symbols" /\ a.value = Plain(y.symbol_buffer)
      BY <1>7, <2>3 DEF Answer, WithoutCopies
    <3>. HIDE DEF a, f, g
    <3>2. Promise!IsTableOf(f, g, a.value)
      BY Zenon, <2>2, <3>1
    <3>. QED
      BY <2>1, <3>1, <3>2 DEF Asked, Promise!True, a, g
  <2>4. CASE answer' = Answer(o, "table", ByKey(objs'[o].symbol_buffer))
    <3>1. a.threw = FALSE /\ a.to = "table" /\ a.value = Plain(ByKey(y.symbol_buffer))
      BY <1>7, <2>4 DEF Answer, WithoutCopies
    <3>2. g \in DOMAIN files
      BY <1>3, <1>11 DEF Holds
    <3>3. /\ y.symbol_buffer \in Seq(SymbolRecord)
          /\ \A k \in DOMAIN y.symbol_buffer : y.symbol_buffer[k].origin.fd = g
      BY Zenon, <1>4, <1>11, OwnBuffer
    <3>. HIDE DEF a, g
    <3>4. LET value == Plain(ByKey(y.symbol_buffer))
          IN  /\ DOMAIN value = Promise!AddressesOf(files[g], g)
              /\ \A b \in DOMAIN value : Promise!IsSymbolAt(b, value[b], files[g], g)
      BY Zenon, <2>2, <3>2, <3>3, KeysAreTrue DEF g
    <3>5. /\ DOMAIN a.value = Promise!AddressesOf(f, g)
          /\ \A b \in DOMAIN a.value : Promise!IsSymbolAt(b, a.value[b], f, g)
      BY Zenon, <3>1, <3>4 DEF g
    <3>. HIDE DEF f
    <3>. QED
      BY <2>1, <3>1, <3>5 DEF Asked, Promise!True, a, g
  <2>. QED
    BY <1>2, <2>3, <2>4
<1>. QED
  BY Zenon, <1>1, <1>7, <1>8, <1>9, <1>10, <1>11

\* They only throw when the tables of the file cannot be read.
LEMMA SymbolsThrowAnswer ==
  ASSUME Inv, HonestObjects, NEW o \in Objects, NEW q \in {"symbols", "table"},
         SymbolsThrow(o, q)
  PROVE  /\ HonestObjects'
         /\ o \in DOMAIN objs /\ answer'.by = o
         /\ objs[o].fd # 0 => Asked(answer', files[objs[o].fd], objs[o].fd)
         /\ files' = files /\ DOMAIN objs' = DOMAIN objs
         /\ \A p \in DOMAIN objs : objs'[p].fd = objs[p].fd
<1>. DEFINE f == files[objs[o].fd]
            a == WithoutCopies(answer')
<1>1. /\ o \in DOMAIN objs /\ FetchFails(f)
      /\ answer' = [Answer(o, q, <<>>) EXCEPT !.threw = TRUE]
      /\ files' = files /\ objs' = objs
  BY DEF SymbolsThrow, Throws
<1>2. answer'.by = o /\ a.threw = TRUE /\ a.to = q
  BY <1>1 DEF Answer, WithoutCopies
<1>3. Promise!FetchFails(f)
  BY Zenon, <1>1, SameOperators
<1>4. Asked(answer', f, objs[o].fd)
  <2>. HIDE DEF a, f
  <2>. QED
    BY <1>2, <1>3 DEF Asked, Promise!True, a
<1>. QED
  BY <1>1, <1>2, <1>4 DEF HonestObjects

\* getSections answers what is true.
LEMMA SectionsAnswer ==
  ASSUME Inv, HonestObjects, NEW o \in Objects, GetSections(o)
  PROVE  /\ HonestObjects'
         /\ o \in DOMAIN objs /\ answer'.by = o
         /\ objs[o].fd # 0 => Asked(answer', files[objs[o].fd], objs[o].fd)
         /\ files' = files /\ DOMAIN objs' = DOMAIN objs
         /\ \A p \in DOMAIN objs : objs'[p].fd = objs[p].fd
<1>. DEFINE x == objs[o]
            y == ReadSections(x)
            f == files[x.fd]
<1>1. /\ o \in DOMAIN objs /\ SectionsCallable(x)
      /\ objs' = [objs EXCEPT ![o] = y]
      /\ files' = files
      /\ answer' = Answer(o, "sections", objs'[o].section_buffer)
  BY Zenon DEF GetSections
<1>2. Opened(files) /\ Holds(files, x) /\ Honest(files, x)
      /\ objs \in [DOMAIN objs -> ObjectRecord]
  BY <1>1, InvOpened, SoundFacts DEF HonestObjects, Inv, ObjectsSound
<1>3. y.fd = x.fd
  BY Zenon, <1>1, <1>2, ReadSectionsHolds
<1>4. ASSUME x.fd # 0
      PROVE  /\ Honest(files, y)
             /\ IsInjective(y.section_buffer)
             /\ Range(FetchedSections(f, x.fd)) \subseteq Range(y.section_buffer)
             /\ Range(y.section_buffer) \subseteq
                  Range(FetchedSections(f, x.fd)) \cup ForeignSections(f)
  BY Zenon, <1>2, <1>4, ReadSectionsTrue
<1>5. Honest(files, y)
  BY Zenon, <1>3, <1>4 DEF Honest
<1>. HIDE DEF y
<1>6. /\ DOMAIN objs' = DOMAIN objs /\ objs'[o] = y
      /\ \A p \in DOMAIN objs : p # o => objs'[p] = objs[p]
  BY <1>1, <1>2
<1>7. HonestObjects'
  BY <1>1, <1>5, <1>6 DEF HonestObjects
<1>8. \A p \in DOMAIN objs : objs'[p].fd = objs[p].fd
  BY <1>3, <1>6
<1>. DEFINE a == WithoutCopies(answer')
<1>9. answer'.by = o /\ a.threw = FALSE /\ a.to = "sections" /\ a.value = y.section_buffer
  BY <1>1, <1>6 DEF Answer, WithoutCopies
<1>10. ASSUME x.fd # 0 PROVE Asked(answer', f, x.fd)
  <2>. DEFINE g == x.fd
  <2>. HIDE DEF a, f, g
  <2>1. /\ Promise!IsInjective(a.value)
        /\ Promise!Sections(f, g) \subseteq Promise!Range(a.value)
        /\ Promise!Range(a.value) \subseteq Promise!Sections(f, g) \cup Promise!ForeignSections(f)
    BY Zenon, <1>4, <1>9, <1>10, SameOperators DEF Promise!Sections, g
  <2>. QED
    BY <1>9, <2>1 DEF Asked, Promise!True, a, g
<1>. QED
  BY Zenon, <1>1, <1>6, <1>7, <1>8, <1>9, <1>10

\* An answer that is true is one of the promise.
LEMMA AnswerIsPromised ==
  ASSUME NEW o \in DOMAIN objs, answer'.by = o,
         objs[o].fd # 0 => Asked(answer', files[objs[o].fd], objs[o].fd),
         files' = files, DOMAIN objs' = DOMAIN objs,
         \A p \in DOMAIN objs : objs'[p].fd = objs[p].fd
  PROVE  Promise!Next
<1>. DEFINE owner == [p \in DOMAIN objs |-> objs[p].fd]
            a == WithoutCopies(answer')
<1>1. owner' = owner /\ DOMAIN owner = DOMAIN objs /\ owner[o] = objs[o].fd
  OBVIOUS
<1>2. a.by = o
  BY DEF WithoutCopies
<1>3. owner[o] # 0 => Promise!True(a, files[owner[o]], owner[o])
  BY Zenon, <1>1 DEF Asked
<1>4. Promise!Answers
  BY Zenon, <1>1, <1>2, <1>3 DEF Promise!Answers, WithoutCopies, Plain
<1>. QED
  BY Zenon, <1>4 DEF Promise!Next

\* Every step keeps what is remembered true, and is a step of the promise.
LEMMA StepIsPromised ==
  ASSUME Inv, Inv', HonestObjects, [Next]_vars
  PROVE  HonestObjects' /\ [Promise!Next]_(Promise!vars)
<1>1. ASSUME Changed PROVE HonestObjects' /\ Promise!Next
  BY Zenon, <1>1, ChangedIsPromised DEF Changed
<1>2. ASSUME NEW f \in Files, OpenThrows(f) PROVE Changed
  BY Zenon, <1>2, OpenThrowsChanges
<1>3. ASSUME NEW f \in Files, NEW o \in Objects, Open(o, f) PROVE Changed
  BY Zenon, <1>3, OpenChanges
<1>4. ASSUME NEW o \in Objects, Wrap(o) PROVE Changed
  BY Zenon, <1>4, WrapChanges
<1>5. ASSUME NEW o \in Objects, Destroy(o) PROVE Changed
  BY Zenon, <1>5, DestroyChanges
<1>6. ASSUME NEW o \in Objects, NEW rhs \in Objects, MoveConstruct(o, rhs) PROVE Changed
  BY Zenon, <1>6, MoveConstructChanges
<1>7. ASSUME NEW o \in Objects, NEW rhs \in Objects, MoveAssign(o, rhs) PROVE Changed
  BY Zenon, <1>7, MoveAssignChanges
<1>8. ASSUME NEW o \in Objects, GetSymbolTable(o) \/ GenerateTable(o)
      PROVE  HonestObjects' /\ Promise!Next
  BY Zenon, <1>8, SymbolsAnswer, AnswerIsPromised
<1>9. ASSUME NEW o \in Objects, NEW q \in {"symbols", "table"}, SymbolsThrow(o, q)
      PROVE  HonestObjects' /\ Promise!Next
  BY Zenon, <1>9, SymbolsThrowAnswer, AnswerIsPromised
<1>10. ASSUME NEW o \in Objects, GetSections(o) PROVE HonestObjects' /\ Promise!Next
  BY Zenon, <1>10, SectionsAnswer, AnswerIsPromised
<1>11. CASE OpenAborts \/ UNCHANGED vars
  <2>1. HonestObjects'
    BY <1>11 DEF OpenAborts, vars, HonestObjects
  <2>2. UNCHANGED Promise!vars
    BY <1>11 DEF OpenAborts, vars, Promise!vars
  <2>. QED
    BY <2>1, <2>2
<1>12. CASE Call
  <2>1. HonestObjects' /\ Promise!Next
    BY Zenon, <1>1, <1>2, <1>3, <1>4, <1>5, <1>6, <1>7, <1>8, <1>9, <1>10, <1>12 DEF Call
  <2>. QED
    BY Zenon, <2>1
<1>. QED
  BY <1>11, <1>12 DEF Next, Ended

\* An owner answers for its file as OpenedFile promises: for every file, in
\* every order of calls, moves and assignments, the symbols by address with
\* their aliases in the order they are read and each in its own section, the
\* table of functions made of them, and the sections, each once; and it throws
\* exactly when the tables of its file cannot be read.
THEOREM AnswersAreTrue == Spec => ImplementsOpenedFile
<1>1. Init => HonestObjects /\ Promise!Init
  <2>. SUFFICES ASSUME Init PROVE HonestObjects /\ Promise!Init
    OBVIOUS
  <2>1. files = <<>> /\ objs = <<>> /\ answer = None
    BY DEF Init
  <2>2. DOMAIN objs = {}
    BY <2>1
  <2>3. HonestObjects
    BY <2>2 DEF HonestObjects
  <2>4. [o \in DOMAIN objs |-> objs[o].fd] = <<>>
    BY <2>2
  <2>5. (IF answer.to \notin {"symbols", "table"} THEN answer
         ELSE [answer EXCEPT !.value =
                [k \in DOMAIN answer.value |-> Uncopied(answer.value[k])]]) = Promise!None
    BY <2>1 DEF None, Promise!None
  <2>. QED
    BY Zenon, <2>1, <2>3, <2>4, <2>5 DEF Promise!Init
<1>2. Inv /\ Inv' /\ HonestObjects /\ [Next]_vars => HonestObjects' /\ [Promise!Next]_(Promise!vars)
  BY StepIsPromised
<1>. QED
  BY <1>1, <1>2, Invariance, PTL DEF Spec, ImplementsOpenedFile, Promise!Spec
=============================================================================
