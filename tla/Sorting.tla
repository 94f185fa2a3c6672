------------------------------ MODULE Sorting ------------------------------
(***************************************************************************)
(* std::sort with a comparison of keys, which a module that sorts gives as *)
(* Key.  Elements with the same key keep their order here; std::sort       *)
(* leaves it open, and nothing that is said of a sorted list depends on it.*)
(***************************************************************************)
EXTENDS Integers, FiniteSetsExt, SequencesExt

CONSTANT Key(_)

\* Before the first element with a greater key, or at the end.
Place(list, x) == Min({Len(list) + 1} \cup {k \in DOMAIN list : Key(x) < Key(list[k])})

Inserted(list, x) == InsertAt(list, Place(list, x), x)

Sorted(list) == FoldLeft(Inserted, <<>>, list)
=============================================================================
