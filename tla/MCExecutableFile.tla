-------------------------- MODULE MCExecutableFile --------------------------
(***************************************************************************)
(* Files for the model checker.                                            *)
(***************************************************************************)
EXTENDS ExecutableFile

Syms(addrs, secs) == [i \in DOMAIN addrs |-> [addr |-> addrs[i], sec |-> secs[i]]]
NoTable           == [slots |-> 0, count |-> 0, syms |-> <<>>]
Tab(syms)         == [slots |-> Len(syms) + 1, count |-> Len(syms), syms |-> syms]

File(secs, normal, dynamic, synthetic) ==
  [state |-> "object", secs |-> secs, dynamic_flag |-> dynamic # NoTable,
   normal |-> normal, dynamic |-> dynamic, synthetic |-> synthetic]

\* A dynamic executable: symbols at one address in all three lists, with
\* addresses out of order, and an undefined symbol.
Executable == File(<<4, 8>>, Tab(Syms(<<8, 4, 8>>, <<2, 1, 2>>)),
                   Tab(Syms(<<0, 8>>, <<-2, 2>>)), Syms(<<5, 4>>, <<1, 1>>))
\* An object file with a symbol in a section only the symbol knows; that it
\* has no dynamic table is not an error.
Relocatable == [File(<<3>>, Tab(Syms(<<3, 7>>, <<1, Foreign>>)), NoTable, <<>>)
                  EXCEPT !.dynamic.slots = -1, !.dynamic_flag = FALSE]
\* The reader fails, and only the synthetic symbols are left.
Damaged == [Executable EXCEPT !.normal.count = -1, !.dynamic.count = -1]
\* For a dynamic file the missing table is an error.
NoUpperBound == [Executable EXCEPT !.dynamic.slots = -1]
\* Nothing to read, and nothing to open.
Empty   == File(<<>>, NoTable, NoTable, <<>>)
Missing == [Empty EXCEPT !.state = "missing"]
Archive == [Empty EXCEPT !.state = "other"]

SomeFiles == {Executable, Relocatable, Damaged, NoUpperBound, Empty, Missing, Archive}

AnyObject == Permutations(Objects)
=============================================================================
