----------------------------- MODULE Decompiler -----------------------------
(***************************************************************************)
(* llvm::InstructionMapper with its factories: every instruction of the    *)
(* assembly is offered to each factory in the order of registration, and a *)
(* factory sends what it makes of it to the stream of IR.                  *)
(***************************************************************************)
EXTENDS Sequences, SequencesExt, SymTable

CONSTANTS
  Instructions,   \* what the assembly may hold
  Tables,         \* the maps a SymTable can be made of
  Registered,     \* the lists of factories registered before the reduction
  Names,          \* of symbols
  Valuations,     \* what the compared symbols may hold: numbers of two bits
  MaxCount,       \* bound on the instructions reduced
  MaxFactories,   \* bound on the length of the list of factories
  MaxChanges      \* bound on the changes to it during the reduction

VARIABLES
  table,       \* the map of the symbol table
  factories,   \* the list of factories
  changes,     \* how often it was changed
  count,       \* the number of instructions the reduction was given
  instr,       \* the last one
  at,          \* the place in the list of the factory that is next, 0: none
  stream,      \* the IR created so far
  status,      \* of the reduction: running, completed, or the failed assertion
  held,        \* what the compared symbols hold before the program runs
  env, taken   \* what all symbols hold after the stream, and which branches it
               \* takes; no action looks at these three

core    == <<table, factories, changes, count, instr, at, stream, status>>
meaning == <<held, env, taken>>
vars    == <<core, meaning>>

\* CmpInstruction::jumps; str_to_jmp is its inverse.
jumps ==
  [GT |-> {"ja", "jg", "jnbe", "jnle"}, GE |-> {"jae", "jge", "jnb", "jnl"},
   LT |-> {"jb", "jl", "jnae", "jnge"}, LE |-> {"jbe", "jle", "jna", "jng"},
   EQ |-> {"je"},                       NE |-> {"jne"}]

ASSUME BoundsAssumption ==
  MaxCount \in Nat /\ MaxFactories \in Nat /\ MaxChanges \in Nat

Kinds == {"call", "compare", "jump"}

ASSUME RegisteredAssumption == \A list \in Registered :
  list \in Seq([kind : Kinds]) /\ Len(list) <= MaxFactories

\* The mapper gives some names; only the constructor of Function is given an
\* address.
ASSUME NamesAssumption ==
  {"0", "1", "ResultOfTheCall", "Temporary", "TempResult", "Temp2Result"} \subseteq Names

Symbols ==
  {s \in [class : DOMAIN SymbolBases, name : Names, address : Nat \cup {NoAddress}, id : Nat] :
     s.address # NoAddress => s.class = "Function"}

\* A symbol that is no temporary of the IR.
Lasting == {s \in Symbols : s.id = 0}

ASSUME TablesAssumption == \A map \in Tables :
  map \in [DOMAIN map -> Lasting] /\ DOMAIN map \subseteq Nat

\* An operand is what the parser makes of it without a table, and the number
\* it is as an address.  The disassembler prints all operands of a mnemonic.
NotAnAddress == -2
Operands     == [addr : {NotAnAddress, NoAddress} \cup Nat, symbol : Lasting]

ASSUME InstructionsAssumption == \A i \in Instructions :
  /\ i.args \in Seq(Operands)
  /\ i.name \in {"cmp", "test"} => Len(i.args) >= 2
  /\ i.name \in {"call"} \cup jumps.GT \cup jumps.LE => Len(i.args) >= 1

-----------------------------------------------------------------------------
(* IR.                                                                     *)

\* One instruction of IR: target := lhs operator rhs.  A branch has no target
\* and its condition as lhs.
IR(class, target, lhs, operator, rhs) ==
  [class |-> class, target |-> target, lhs |-> lhs, operator |-> operator, rhs |-> rhs,
   assembly |-> count]
Cmp(target, lhs, operator, rhs)    == IR("CmpInstruction", target, lhs, operator, rhs)
Binary(target, lhs, operator, rhs) == IR("BinaryOperation", target, lhs, operator, rhs)
Unary(target, operator, operand)   == IR("UnaryInstruction", target, operand, operator, Null)
Call(target, operand)              == IR("CallInstruction", target, operand, "call", Null)
Br(condition, destination)         == IR("BranchInstruction", Null, condition, "br", destination)

Operators == {"eq", "lt", "AND", "OR", "MSB", "BitwiseXNOR", "call", "br"}
IRs ==
  [class : DOMAIN InstructionBases, target : Symbols \cup {Null}, lhs : Symbols \cup {Null},
   operator : Operators, rhs : Symbols \cup {Null}, assembly : 1 .. MaxCount]

\* Definer and User: what the IR defines, and what it uses.
getDefinitions(ir) == IF ir.class = "BranchInstruction" THEN {} ELSE {ir.target}
getUsedSymbols(ir) == {ir.lhs, ir.rhs} \ {Null}

Zero            == Symbol("Immidiate", "0", 0)
One             == Symbol("Immidiate", "1", 0)
ResultOfTheCall == Symbol("SizedTemporary", "ResultOfTheCall", 0)

\* What an operand means with a table of functions by address.
Denoted(map, operand) ==
  IF operand.addr \in DOMAIN ToMap(map) THEN ToMap(map)[operand.addr] ELSE operand.symbol

\* A plausible bug: the functions are one address too low for a factory.
BugOffByOne(k) == Denoted(table, [instr.args[k] EXCEPT !.addr = @ + 1])

Arg(k) == Denoted(table, instr.args[k])

FlagNames  == {"_cf", "_zf", "_sf", "_pf"}
Flag(part) == FindName(table, part)

-----------------------------------------------------------------------------
(* The meaning of the stream, for what the compared symbols hold at first.  *)

Bit(b)    == IF b THEN 1 ELSE 0
And(x, y) == (x % 2) * (y % 2) + 2 * ((x \div 2) * (y \div 2))

\* A symbol nothing was assigned to is 0, and so is a flag the table lacks.
Value(memory, s) ==
  CASE s = One -> 1
    [] s # One /\ s \in DOMAIN memory -> memory[s]
    [] OTHER -> 0

\* Signs, parities and results of calls are not looked at.
Result(operator, x, y) ==
  CASE operator = "eq" -> Bit(x = y)
    [] operator = "lt" -> Bit(x < y)
    [] operator = "AND" -> And(x, y)
    [] operator = "OR" -> Bit(x # 0 \/ y # 0)
    [] OTHER -> 0

\* What is compared with a table.
Compared(map) ==
  {Denoted(map, i.args[k]) : i \in {j \in Instructions : j.name \in {"cmp", "test"}}, k \in 1 .. 2}

\* No symbol is found as two flags, and what the mapper makes is none.
ASSUME FlagsAssumption ==
  /\ \A part \in FlagNames : \A name \in {"0", "1", "ResultOfTheCall"} : <<part, name>> \notin PartOf
  /\ \A map \in Tables : \A part \in FlagNames :
       /\ \A other \in FlagNames \ {part} :
            FindName(map, part) = FindName(map, other) => FindName(map, part) = Null
       /\ TemporaryKey \in DOMAIN map => map[TemporaryKey] # FindName(map, part)

\* Every symbol that is compared holds something, and is no flag.  Before the
\* program runs, the flags and the result of the calls are 0.
ASSUME ValuationsAssumption == \A memory \in Valuations, map \in Tables :
  /\ \A s \in Compared(map) \cup {ResultOfTheCall} :
       /\ s \in DOMAIN memory /\ memory[s] = Value(memory, s)
       /\ \A part \in FlagNames : s # FindName(map, part)
  /\ Value(memory, Zero) = 0 /\ Value(memory, ResultOfTheCall) = 0
  /\ \A part \in FlagNames : Value(memory, FindName(map, part)) = 0
  /\ TemporaryKey \in DOMAIN map => Value(memory, map[TemporaryKey]) = 0

IsBranch(ir) == ir.class = "BranchInstruction"

\* A branch is taken or not, the others assign to their target.
Execute(state, ir) ==
  LET memory == state[1] IN
  IF IsBranch(ir) THEN <<memory, Append(state[2], Value(memory, ir.lhs))>>
  ELSE <<[s \in DOMAIN memory \cup getDefinitions(ir) |->
            IF s = ir.target
            THEN Result(ir.operator, Value(memory, ir.lhs), Value(memory, ir.rhs))
            ELSE memory[s]], state[2]>>

\* Plausible bugs, one for each property of the passing runs.  Each stands
\* before the definition it is a mutation of and is not used by Spec.

-----------------------------------------------------------------------------
Init ==
  /\ table \in Tables
  /\ factories \in Registered
  /\ changes = 0 /\ count = 0 /\ instr = <<>> /\ at = 0
  /\ stream = <<>>
  /\ status = "running"
  /\ held \in Valuations /\ env = held /\ taken = <<>>

\* The list may change between two instructions.
Idle == at = 0 /\ status = "running"

RegisterFactory(f) ==
  /\ Idle
  /\ Len(factories) < MaxFactories /\ changes < MaxChanges
  /\ factories' = Append(factories, f)
  /\ changes' = changes + 1
  /\ UNCHANGED <<table, count, instr, at, stream, status>>

\* Every entry of the list that is the pointer is removed, and the others keep
\* their order.
RemoveFactory(f) ==
  /\ Idle
  /\ changes < MaxChanges
  /\ LET others == {k \in DOMAIN factories : factories[k] # f} IN
     \E order \in Bijection(1 .. Cardinality(others), others) :
       /\ \A j, k \in DOMAIN order : j < k => order[j] < order[k]
       /\ factories' = [k \in DOMAIN order |-> factories[order[k]]]
  /\ changes' = changes + 1
  /\ UNCHANGED <<table, count, instr, at, stream, status>>

\* The stream of assembly has a next instruction.
OnNext(i) ==
  /\ Idle
  /\ count < MaxCount
  /\ instr' = i /\ count' = count + 1
  /\ at' = IF factories = <<>> THEN 0 ELSE 1
  /\ UNCHANGED <<table, factories, changes, stream, status>>

\* It has an end: the reduction gives out the symbol table.
OnCompleted ==
  /\ Idle
  /\ status' = "completed"
  /\ UNCHANGED <<table, factories, changes, count, instr, at, stream>>

\* The factory whose turn it is.
Turn(kind) == at # 0 /\ status = "running" /\ factories[at].kind = kind

\* What tells the objects a factory makes in its turn from all others.
Fresh == (count - 1) * MaxFactories + at

\* The loop goes one past the end of the list.
BugRunsOver == IF at <= Len(factories) THEN at + 1 ELSE 0

\* The iterator is not incremented for the last factory.
BugStops == IF at < Len(factories) THEN at + 1 ELSE at

NextTurn == IF at < Len(factories) THEN at + 1 ELSE 0

\* A factory is done; irs go to the stream.
Emit(irs) ==
  /\ stream' = stream \o irs
  /\ at' = NextTurn
  /\ UNCHANGED <<factories, changes, count, instr, status>>

\* An assertion of a factory fires: nothing handles it, and the program ends.
Fail(assertion) ==
  /\ status' = assertion
  /\ UNCHANGED <<table, factories, changes, count, instr, at, stream>>

-----------------------------------------------------------------------------
(* CallFactory, with get_or_create and add_symbol.                         *)

CallWithKnownResult ==
  /\ Turn("call") /\ instr.name = "call"
  /\ TemporaryKey \in DOMAIN table
  /\ Emit(<<Call(table[TemporaryKey], Arg(1))>>)
  /\ UNCHANGED table

\* operator[] instead of emplace: the result of an earlier call is replaced.
BugOverwrites ==
  /\ Turn("call") /\ instr.name = "call"
  /\ TemporaryKey \notin DOMAIN table
  /\ table' = Inserted(table, [ResultOfTheCall EXCEPT !.id = Fresh])
  /\ Emit(<<Call([ResultOfTheCall EXCEPT !.id = Fresh], Arg(1))>>)

CallCreatesResult ==
  /\ Turn("call") /\ instr.name = "call"
  /\ TemporaryKey \notin DOMAIN table
  /\ Insertable(table, ResultOfTheCall)
  /\ table' = Inserted(table, ResultOfTheCall)
  /\ Emit(<<Call(ResultOfTheCall, Arg(1))>>)

CallFails ==
  /\ Turn("call") /\ instr.name = "call"
  /\ TemporaryKey \notin DOMAIN table
  /\ ~Insertable(table, ResultOfTheCall)
  /\ Fail("insert")

-----------------------------------------------------------------------------
(* CompareFactory.                                                         *)

Compare ==
  /\ Turn("compare") /\ instr.name = "cmp"
  /\ Null \notin {Flag("_zf"), Flag("_cf")}
  /\ Emit(<<Cmp(Flag("_zf"), Arg(1), "eq", Arg(2)), Cmp(Flag("_cf"), Arg(1), "lt", Arg(2))>>)
  /\ UNCHANGED table

Test ==
  /\ Turn("compare") /\ instr.name = "test"
  /\ Null \notin {Flag("_zf"), Flag("_sf"), Flag("_pf")}
  /\ LET temporary == Symbol("Symbol", "Temporary", Fresh)
     IN  Emit(<<Binary(temporary, Arg(1), "AND", Arg(2)),
                Unary(Flag("_sf"), "MSB", temporary),
                Cmp(Flag("_zf"), temporary, "eq", Zero),
                Unary(Flag("_pf"), "BitwiseXNOR", temporary)>>)
  /\ UNCHANGED table

FlagsFail ==
  /\ Turn("compare")
  /\ \/ instr.name = "cmp" /\ Null \in {Flag("_zf"), Flag("_cf")}
     \/ instr.name = "test" /\ Null \in {Flag("_zf"), Flag("_sf"), Flag("_pf")}
  /\ Fail("flags")

-----------------------------------------------------------------------------
(* JumpFactory.  Only two families of jumps become branches.  The flags are *)
(* looked up without an assertion, the operand without a table.            *)

\* The conjunction is sent before the comparison it uses.
BugConjunctionFirst(flagValue, operator) ==
  LET result == Symbol("Symbol", "TempResult", Fresh)
      temp   == Symbol("Symbol", "Temp2Result", Fresh)
  IN  Emit(<<Cmp(result, Flag("_cf"), "eq", flagValue),
             Binary(result, temp, operator, result),
             Cmp(temp, Flag("_zf"), "eq", flagValue),
             Br(result, instr.args[1].symbol)>>)

\* A condition over both flags, and a branch on it.
Jump(flagValue, operator) ==
  LET result == Symbol("Symbol", "TempResult", Fresh)
      temp   == Symbol("Symbol", "Temp2Result", Fresh)
  IN  Emit(<<Cmp(result, Flag("_cf"), "eq", flagValue),
             Cmp(temp, Flag("_zf"), "eq", flagValue),
             Binary(result, temp, operator, result),
             Br(result, instr.args[1].symbol)>>)

JumpAbove ==
  /\ Turn("jump") /\ instr.name \in jumps.GT
  /\ Jump(Zero, "AND")
  /\ UNCHANGED table

\* A family more that makes nothing.
BugLosesBranch ==
  /\ Turn("jump") /\ instr.name \in jumps.LE
  /\ Emit(<<>>)
  /\ UNCHANGED table

JumpNotAbove ==
  /\ Turn("jump") /\ instr.name \in jumps.LE
  /\ Jump(One, "OR")
  /\ UNCHANGED table

\* Nothing comes of the other jumps, and of instructions of other factories.
Skip ==
  /\ \/ Turn("call") /\ instr.name # "call"
     \/ Turn("compare") /\ instr.name \notin {"cmp", "test"}
     \/ Turn("jump") /\ instr.name \notin jumps.GT \cup jumps.LE
  /\ Emit(<<>>)
  /\ UNCHANGED table

-----------------------------------------------------------------------------
Step ==
  \/ CallWithKnownResult \/ CallCreatesResult \/ CallFails
  \/ Compare \/ Test \/ FlagsFail
  \/ JumpAbove \/ JumpNotAbove \/ Skip

\* The IR that was created is executed.
Execution ==
  LET state ==
        FoldLeft(Execute, <<env, taken>>, SubSeq(stream', Len(stream) + 1, Len(stream')))
  IN  env' = state[1] /\ taken' = state[2] /\ UNCHANGED held

Between ==
  \/ OnCompleted
  \/ \E i \in Instructions : OnNext(i)
  \/ \E f \in UNION {Range(l) : l \in Registered} : RegisterFactory(f) \/ RemoveFactory(f)

Next ==
  \/ Step /\ Execution
  \/ Between /\ UNCHANGED meaning

Spec     == Init /\ [][Next]_vars
\* A factory runs to its end in the thread that feeds the reduction.
FairSpec == Spec /\ WF_core(Step)

-----------------------------------------------------------------------------
(* Properties.                                                             *)

\* Every variable has its type, and the turn is at a place of the list.
TypeOK ==
  /\ table \in [DOMAIN table -> Lasting] /\ DOMAIN table \subseteq Nat
  /\ factories \in Seq([kind : Kinds]) /\ Len(factories) <= MaxFactories
  /\ changes \in 0 .. MaxChanges /\ count \in 0 .. MaxCount
  /\ count > 0 => instr \in Instructions
  /\ at \in 0 .. Len(factories) /\ (count = 0 => at = 0)
  /\ stream \in Seq(IRs)
  /\ status \in {"running", "completed", "insert", "flags"}

\* A temporary of the IR is defined before it is used, by the same factory for
\* the same assembly instruction (it is an object of that turn), whatever the
\* factories did before and in which order.
TemporariesDefined ==
  \A i \in DOMAIN stream : \A s \in getUsedSymbols(stream[i]) :
    s.id # 0 => \E j \in 1 .. i - 1 : /\ s \in getDefinitions(stream[j])
                                     /\ stream[j].assembly = stream[i].assembly

\* All calls give their result to one symbol, and it is in the table: what a
\* later factory finds there is what the calls before have set.
CallsShareResult ==
  \A i, j \in DOMAIN stream :
    stream[i].class = "CallInstruction" /\ stream[j].class = "CallInstruction" =>
      /\ stream[i].target = stream[j].target
      /\ stream[i].target \in Range(table)

\* A comparison has the operands that were parsed, or the function that is at
\* the address an operand gives.  Only for the number (bfd_vma)-1, which is the
\* address of all symbols without one, the table may give anything.
FunctionsByAddress ==
  \A i \in DOMAIN stream :
    stream[i].assembly = count /\ stream[i].operator = "lt" =>
      LET compared == <<stream[i].lhs, stream[i].rhs>>
      IN  \A k \in 1 .. 2 : LET operand == instr.args[k] IN
            operand.addr # NoAddress =>
              \/ compared[k] = operand.symbol
              \/ compared[k].class = "Function" /\ compared[k].address = operand.addr

\* Every instruction is offered to all factories, or an assertion fires.
InstructionEnds == (at # 0 /\ status = "running") ~> (at = 0 \/ status # "running")

Meaning == INSTANCE FlagMachine WITH
  Above <- jumps.GT, NotAbove <- jumps.LE,
  list  <- factories,
  todo  <- IF at = 0 THEN <<>> ELSE SubSeq(factories, at, Len(factories)),
  name  <- IF count = 0 THEN "none" ELSE instr.name,
  args  <- IF count = 0 THEN <<>> ELSE [k \in DOMAIN instr.args |-> Arg(k)],
  cf    <- Value(env, Flag("_cf")),
  zf    <- Value(env, Flag("_zf"))

\* The stream does what a machine with two flags does: no factory of comparisons
\* is passed over or sends nothing, no jump of the two families loses its branch
\* or sends two, and a branch is taken as its mnemonic says of the last
\* comparison, also when other factories, calls or a changed list came between,
\* and although symbols of the table may hide the flags.
ImplementsFlagMachine == Meaning!Spec

-----------------------------------------------------------------------------
(* What the code asserts, and does not hold.                               *)

\* add_symbol: "Failed to insert symbol into symbol table" never fires.
InsertSucceeds == status # "insert"
=============================================================================
