------------------------------ MODULE Visitors ------------------------------
(***************************************************************************)
(* Double dispatch over the symbols of the assembly and the instructions   *)
(* of the IR: which classes a visitor made of a lambda is called for.  A   *)
(* class template stands for all its sizes.                                *)
(***************************************************************************)
EXTENDS FiniteSets

\* The bases of the classes of symbols.
SymbolBases ==
  [Symbol         |-> {},
   Variable       |-> {"Symbol"},
   Define         |-> {"Variable"},
   Use            |-> {"Variable"},
   SizedSymbol    |-> {"Symbol"},
   Temporary      |-> {"Symbol"},
   SizedTemporary |-> {"SizedSymbol", "Temporary"},
   RegisterBase   |-> {"Symbol"},
   Register       |-> {"RegisterBase", "SizedSymbol"},
   Function       |-> {"Symbol"},
   Immidiate      |-> {"Symbol"}]

\* The bases of the classes of the IR.
InstructionBases ==
  [Serializable          |-> {},
   Definer               |-> {},
   User                  |-> {},
   Instruction           |-> {"Serializable"},
   Operation             |-> {"Definer", "User"},
   Assignment            |-> {"Definer", "User", "Serializable"},
   UnaryInstruction      |-> {"Assignment", "Operation", "Instruction"},
   BinaryOperation       |-> {"Assignment", "Operation", "Instruction"},
   CallInstruction       |-> {"UnaryInstruction"},
   CmpInstruction        |-> {"BinaryOperation"},
   TerminatorInstruction |-> {"Instruction", "Serializable"},
   JumpInstruction       |-> {"TerminatorInstruction", "User"},
   BranchInstruction     |-> {"JumpInstruction"}]

\* The class and everything it is converted to.
Generalizations(bases, class) ==
  LET all[c \in DOMAIN bases] == {c} \cup UNION {all[b] : b \in bases[c]}
  IN  all[class]

-----------------------------------------------------------------------------
(* The classes that visitors have a function for.                          *)

ASM_REGISTER_LIST     == {"Register"}
ASM_TEMPORARY_LIST    == {"SizedTemporary"}
ASM_SIZED_SYMBOL_LIST == {"SizedSymbol"}
ASM_SIZED_LIST        == ASM_REGISTER_LIST \cup ASM_TEMPORARY_LIST
ASM_SYMBOLS_LIST ==
  {"Temporary", "RegisterBase", "Function", "Immidiate", "Symbol", "Variable"}
    \cup ASM_SIZED_LIST \cup ASM_SIZED_SYMBOL_LIST

LLVM_OPERATION_LIST   == {"UnaryInstruction", "BinaryOperation"}
LLVM_BRANCH_LIST      == {"JumpInstruction", "BranchInstruction"}
LLVM_INSTRUCTION_LIST ==
  {"CallInstruction", "CmpInstruction"} \cup LLVM_BRANCH_LIST \cup LLVM_OPERATION_LIST
LLVM_VISITABLES ==
  {"Instruction", "Serializable", "Definer", "User", "Assignment", "Operation",
   "TerminatorInstruction"} \cup LLVM_INSTRUCTION_LIST

\* The overload that accept chooses.  Define and Use have none of their own,
\* and are taken for a Variable.
accept(class) == IF class \in {"Define", "Use"} THEN "Variable" ELSE class

-----------------------------------------------------------------------------
(* LambdaGeneralizer: the lambda takes the base, and is called for a list. *)

LambdaGeneralizer(base, list) == [base |-> base, list |-> list]

SizedSymbolVisitorL  == LambdaGeneralizer("SizedSymbol", ASM_SIZED_LIST)
RegisterVisitorL     == LambdaGeneralizer("RegisterBase", ASM_REGISTER_LIST)
TemporaryVisitorL    == LambdaGeneralizer("Temporary", ASM_TEMPORARY_LIST)
SymbolVisitorL       == LambdaGeneralizer("Symbol", ASM_SYMBOLS_LIST)

BranchVisitorL       == LambdaGeneralizer("TerminatorInstruction", LLVM_BRANCH_LIST)
AssignmentVisitorL   == LambdaGeneralizer("Assignment", LLVM_OPERATION_LIST)
OperationVisitorL    == LambdaGeneralizer("Operation", LLVM_OPERATION_LIST)
InstructionVisitorL  == LambdaGeneralizer("Instruction", LLVM_INSTRUCTION_LIST)
UsesVisitorL         == LambdaGeneralizer("User", LLVM_INSTRUCTION_LIST)
DefinesVisitorL      == LambdaGeneralizer("Definer", LLVM_INSTRUCTION_LIST)
SerializableVisitorL ==
  LambdaGeneralizer("Serializable", LLVM_INSTRUCTION_LIST \cup {"Serializable", "Instruction"})

\* invoke_accept: the classes the lambda is called for.
Visits(visitor, class) == accept(class) \in visitor.list

\* What the lambda is called with is a base, or the program does not compile.
Compiles(visitor, bases) ==
  \A class \in visitor.list : visitor.base \in Generalizations(bases, class)

ASSUME VisitorsCompile ==
  /\ \A visitor \in {SizedSymbolVisitorL, RegisterVisitorL, TemporaryVisitorL, SymbolVisitorL} :
       /\ Compiles(visitor, SymbolBases)
       /\ visitor.list \subseteq ASM_SYMBOLS_LIST
  /\ \A visitor \in {BranchVisitorL, AssignmentVisitorL, OperationVisitorL,
                     InstructionVisitorL, UsesVisitorL, SerializableVisitorL} :
       /\ Compiles(visitor, InstructionBases)
       /\ visitor.list \subseteq LLVM_VISITABLES
  \* Jumps define nothing: this one cannot be made, and nobody makes one.
  /\ ~Compiles(DefinesVisitorL, InstructionBases)

\* No symbol and no instruction of the IR is missed by the most general ones.
ASSUME NothingIsMissed ==
  /\ \A class \in DOMAIN SymbolBases : Visits(SymbolVisitorL, class)
  /\ \A class \in LLVM_INSTRUCTION_LIST : Visits(SerializableVisitorL, class)
=============================================================================
