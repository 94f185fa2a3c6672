---------------------------- MODULE SymbolTables ----------------------------
(***************************************************************************)
(* Files as BFD answers for them when their symbol tables and sections are *)
(* read: three lists of symbols, the sizes BFD announces for two of them,  *)
(* and the sections.  Everything here is constant.                         *)
(***************************************************************************)
EXTENDS Integers, Sequences, FiniteSetsExt, SequencesExt

\* A symbol belongs to a section of its file, or to one of the sections BFD
\* shares between all files, which are negative: com, und, abs, ind, and
\* others that fetchSections does not list.
Shared  == {-1, -2, -3, -4}
Foreign == -5

Asymbol == [addr : Nat, sec : Int]

\* What BFD says of one table: the slots it needs (-1: an error; one is for a
\* final null), and how many symbols it then reads (-1: an error).
Table == [slots : Int, count : Int, syms : Seq(Asymbol)]

IsFile(f) ==
  /\ f \in [state : {"object", "missing", "other"}, secs : Seq(Nat), dynamic_flag : BOOLEAN,
            normal : Table, dynamic : Table, synthetic : Seq(Asymbol)]
  /\ \A t \in {f.normal, f.dynamic} :
       t.slots > 0 => /\ t.count \in {-1, Len(t.syms)}
                      /\ Len(t.syms) < t.slots
  /\ \A t \in {f.normal.syms, f.dynamic.syms, f.synthetic} : \A i \in DOMAIN t :
       t[i].sec \in DOMAIN f.secs \cup Shared \cup {Foreign}

\* bfd_get_symtab_upper_bound and its dynamic twin, as fetchSymbolTable takes
\* their errors: only a file that says it is dynamic must have the second.
FetchFails(f)   == f.normal.slots < 0 \/ (f.dynamic.slots < 0 /\ f.dynamic_flag)
DynamicSlots(f) == Max({f.dynamic.slots, 0})
NoStorage(f)    == f.normal.slots = 0 /\ DynamicSlots(f) = 0

\* Where a symbol was read from: its descriptor, list and place; table is the
\* copy a synthetic symbol lives in (0: in memory of BFD).
Kinds  == {"normal", "dynamic", "synthetic"}
Origin == [fd : Nat, kind : Kinds, i : Nat, table : Nat]

Origins(fd, kind, n, table) ==
  [i \in 1 .. n |-> [fd |-> fd, kind |-> kind, i |-> i, table |-> table]]

Asymbols(f, kind) ==
  CASE kind = "normal" -> f.normal.syms
    [] kind = "dynamic" -> f.dynamic.syms
    [] kind = "synthetic" -> f.synthetic

\* The number of symbols read; an error of the reader counts as none.
Read(slots, count) == IF slots <= 0 \/ count < 0 THEN 0 ELSE count

\* The table of a file in the order its parts are read.
Fetched(f, fd, table) ==
  Origins(fd, "normal", Read(f.normal.slots, f.normal.count), 0)
    \o Origins(fd, "dynamic", Read(DynamicSlots(f), f.dynamic.count), 0)
    \o Origins(fd, "synthetic", Len(f.synthetic), table)

\* The value types: a Section and a Symbol, which has aliases at its address.
SectionRecord == [fd : Nat, s : Int]
SymbolRecord  == [origin : Origin, parent : SectionRecord, aliases : Seq(Origin)]

Section(fd, s) == [fd |-> IF s < 0 THEN 0 ELSE fd, s |-> s]

\* com, und, abs, ind, and the sections of the file.
FetchedSections(f, fd) ==
  [i \in 1 .. 4 |-> Section(fd, -i)] \o [s \in DOMAIN f.secs |-> Section(fd, s)]

\* Sections that only a symbol leads to.
ForeignSections(f) ==
  {Section(0, Foreign) : t \in {x \in {f.normal.syms, f.dynamic.syms, f.synthetic} :
                                  \E i \in DOMAIN x : x[i].sec = Foreign}}
=============================================================================
