-------------------------- MODULE OperandMeaning --------------------------
(***************************************************************************)
(* What an operand means as it is written, what the symbol means that is   *)
(* made of it, and what its printed name means.                            *)
(***************************************************************************)
EXTENDS InstructionParser

CONSTANTS
  Held           \* what the registers hold

-----------------------------------------------------------------------------
(* Names.  A size is printed as a cast, which is one token.                *)

\* No parentheses around the operands.
BugBareOperands(lhs, op, rhs) ==
  IF lhs = <<>> /\ op # <<>> THEN op \o <<"(">> \o rhs \o <<")">>
  ELSE lhs \o op \o rhs

\* Temporary::fetchName, of the names of its operands.
fetchName(lhs, op, rhs) ==
  CASE lhs = <<>> /\ op # <<>> -> op \o <<"(">> \o rhs \o <<")">>
    [] lhs # <<>> /\ op # <<>> -> <<"(">> \o lhs \o <<")">> \o op \o <<"(">> \o rhs \o <<")">>
    [] OTHER -> lhs \o op \o rhs

Cast(name) == <<"(", "(size)">> \o name \o <<")">>

RECURSIVE getName(_)
getName(symbol) ==
  CASE symbol.class = "Immidiate"      -> <<symbol.value>>
    [] symbol.class = "Register"       -> Cast(<<"_" \o symbol.name>>)
    [] symbol.class = "Symbol"         -> symbol.text
    [] symbol.class = "Function"       -> <<"@" \o symbol.name>>
    [] symbol.class = "Temporary"      ->
         fetchName(getName(symbol.lhs), <<symbol.op>>, getName(symbol.rhs))
    [] symbol.class = "SizedTemporary" ->
         Cast(fetchName(<<>>, <<symbol.op>>, getName(symbol.rhs)))

-----------------------------------------------------------------------------
(* Meanings.                                                               *)

\* The memory; any function will do that tells the addresses apart.
Memory(address) == address * address + 1

Number(word) == IF word \in registers THEN Held[word] ELSE Numeral[word]

\* The usual precedence, which is also the one handle_expression notes:
\* products before sums, both from the left.
Evaluated(content) ==
  LET Step(state, t) ==
        CASE t \in {"+", "-"} -> [sum     |-> state.sum + state.product,
                                 product |-> IF t = "+" THEN 1 ELSE -1]
          [] t = "*"          -> state
          [] OTHER            -> [state EXCEPT !.product = @ * Number(t)]
      end == FoldLeft(Step, [sum |-> 0, product |-> 1], content)
  IN  end.sum + end.product

Written(operand) ==
  IF Opening(operand) # 0 THEN Memory(Evaluated(Inside(operand)))
  ELSE Evaluated(Inside(operand))

Apply(op, x, y) ==
  CASE op = "+" -> x + y
    [] op = "-" -> x - y
    [] op = "*" -> x * y

\* What a symbol means.
RECURSIVE Value(_)
Value(symbol) ==
  CASE symbol.class = "Immidiate"      -> Numeral[symbol.value]
    [] symbol.class = "Register"       -> Held[symbol.name]
    [] symbol.class = "Function"       -> Functions[symbol.name]
    [] symbol.class = "Temporary"      -> Apply(symbol.op, Value(symbol.lhs), Value(symbol.rhs))
    [] symbol.class = "SizedTemporary" -> Memory(Value(symbol.rhs))
    [] OTHER -> 0

\* What a printed name means to a reader who knows the usual precedence: casts
\* and the star of a dereference bind most, then products, then sums.
RECURSIVE Read(_)
Read(name) ==
  LET Count(t, i) == Len(SelectSeq(SubSeq(name, 1, i), LAMBDA u : u = t))
      Binary(operators) ==
        {i \in 2 .. Len(name) - 1 : /\ name[i] \in operators /\ name[i - 1] # "(size)"
                                    /\ Count("(", i) = Count(")", i)}
      At(i) == Apply(name[i], Read(SubSeq(name, 1, i - 1)),
                     Read(SubSeq(name, i + 1, Len(name))))
      Leaf  == {Numeral[t] : t \in {Head(name)} \cap DOMAIN Numeral}
                 \cup {Held[r] : r \in {s \in DOMAIN Held : "_" \o s = Head(name)}}
                 \cup {Functions[f] : f \in {g \in DOMAIN Functions : "@" \o g = Head(name)}}
  IN  CASE Binary({"+", "-"}) # {} -> At(Max(Binary({"+", "-"})))
        [] Binary({"+", "-"}) = {} /\ Binary({"*"}) # {} -> At(Max(Binary({"*"})))
        [] Binary({"+", "-", "*"}) = {} /\ Head(name) = "(size)" -> Read(Tail(name))
        [] Binary({"+", "-", "*"}) = {} /\ Head(name) = "*" -> Memory(Read(Tail(name)))
        [] Binary({"+", "-", "*"}) = {} /\ Head(name) = "(" ->
             Read(SubSeq(name, 2, Len(name) - 1))
        [] OTHER -> CHOOSE n \in Leaf : TRUE

-----------------------------------------------------------------------------
(* Properties.                                                             *)

\* Products beside sums.
Mixed(operand) ==
  "*" \in Range(Inside(operand)) /\ Range(Inside(operand)) \cap {"+", "-"} # {}

\* A symbol has the value of the operand it stands for, whatever functions were
\* added to the table before it was parsed: the precedence that
\* handle_expression notes, multiplication before addition and subtraction.
MeansAsWritten ==
  \A k \in DOMAIN subs : IsOrdinary /\ subs[k].skip = 1 =>
    \A i \in DOMAIN subs[k].got : Value(subs[k].got[i]) = Written(instr.operands[i])

\* So it is where precedence does not matter: in words, and in sums or products
\* alone, which group from the left, with a size or without.
UnmixedMeansAsWritten ==
  \A k \in DOMAIN subs : IsOrdinary /\ subs[k].skip = 1 =>
    \A i \in DOMAIN subs[k].got :
      Mixed(instr.operands[i]) \/ Value(subs[k].got[i]) = Written(instr.operands[i])

\* The printed name of a symbol has the value of the symbol: a reader who knows
\* the usual precedence finds the grouping of the parser in the parentheses.
NamesMeanTheSame ==
  \A k \in DOMAIN subs : IsOrdinary /\ subs[k].skip = 1 =>
    \A i \in DOMAIN subs[k].got : Read(getName(subs[k].got[i])) = Value(subs[k].got[i])
=============================================================================
