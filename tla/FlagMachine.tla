---------------------------- MODULE FlagMachine ----------------------------
(***************************************************************************)
(* What a reader of the decompiled stream may take for granted: every      *)
(* instruction is given to all factories of a list, one after another, and *)
(* executed by a machine with two flags, which each factory of comparisons *)
(* sets and each factory of jumps reads.  No symbols, no table, no         *)
(* temporaries, no stream.                                                 *)
(***************************************************************************)
EXTENDS Integers, Sequences

CONSTANTS
  Above, NotAbove   \* the mnemonics of the branches there are

VARIABLES
  held,       \* what the operands hold, numbers of two bits; it never changes
  list,       \* the factories
  name, args, \* the mnemonic and the operands of the current instruction
  todo,       \* the factories it is still to be given to, in their order
  cf, zf,     \* the flags, 0 or 1
  taken       \* for each branch so far, 1 if it is taken

vars == <<held, list, name, args, todo, cf, zf, taken>>

Bit(b) == IF b THEN 1 ELSE 0

\* The conjunction of two numbers of two bits.
And(x, y) == (x % 2) * (y % 2) + 2 * ((x \div 2) * (y \div 2))

Init == todo = <<>> /\ cf = 0 /\ zf = 0 /\ taken = <<>>

\* Both only when the last instruction was given to all factories.
NextInstruction == todo = <<>> /\ todo' = list /\ UNCHANGED <<held, list, cf, zf, taken>>
ListChanges     == todo = <<>> /\ UNCHANGED <<held, name, args, todo, cf, zf, taken>>

\* A factory is given the instruction, and is done with it.
Given(kind) == todo # <<>> /\ Head(todo).kind = kind
Done        == todo' = Tail(todo) /\ UNCHANGED <<held, list, name>>

Compare ==
  /\ Given("compare") /\ name = "cmp"
  /\ cf' = Bit(held[args[1]] < held[args[2]])
  /\ zf' = Bit(held[args[1]] = held[args[2]])
  /\ Done /\ UNCHANGED <<args, taken>>

\* The carry flag keeps what the last comparison left there.
Test ==
  /\ Given("compare") /\ name = "test"
  /\ zf' = Bit(And(held[args[1]], held[args[2]]) = 0)
  /\ Done /\ UNCHANGED <<args, cf, taken>>

Branch ==
  /\ Given("jump")
  /\ \/ name \in Above /\ taken' = Append(taken, Bit(cf = 0 /\ zf = 0))
     \/ name \in NotAbove /\ taken' = Append(taken, Bit(cf = 1 \/ zf = 1))
  /\ Done /\ UNCHANGED <<args, cf, zf>>

\* A factory that neither compares nor branches leaves the flags; what the
\* operands denote may change when a call makes its result.
Other ==
  /\ \/ Given("call")
     \/ Given("compare") /\ name \notin {"cmp", "test"}
     \/ Given("jump") /\ name \notin Above \cup NotAbove
  /\ Done /\ UNCHANGED <<cf, zf, taken>>

Next == NextInstruction \/ ListChanges \/ Compare \/ Test \/ Branch \/ Other

Spec == Init /\ [][Next]_vars
=============================================================================
