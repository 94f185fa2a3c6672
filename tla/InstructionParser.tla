------------------------- MODULE InstructionParser -------------------------
(***************************************************************************)
(* getArgs and getName of an instruction: cold streams that parse the text *)
(* again for every subscription, one piece at a time.  What a subscriber   *)
(* does with a piece may be another subscription, which then runs to its   *)
(* end first, or a change of the table of functions.                       *)
(***************************************************************************)
EXTENDS OperandParser

CONSTANTS
  Instructions,  \* a name and operands, each a sequence of tokens
  Functions,     \* the addresses of the functions, by name
  MaxDepth       \* bound on the subscriptions inside each other

VARIABLES
  instr,      \* the instruction
  functions,  \* the table it was given: names by address
  subs,       \* the subscriptions that run, the innermost last
  status      \* running, or the error that ended the program

vars == <<instr, functions, subs, status>>

\* The name is a word, and no numeral with 0x.
ASSUME InstructionsAssumption == \A i \in Instructions :
  i.name \in Words \ DOMAIN Bare /\ i.operands \in Seq(Texts)

ASSUME FunctionsAssumption == IsInjective(Functions)
ASSUME DepthAssumption     == MaxDepth \in Nat

-----------------------------------------------------------------------------
\* The text libopcodes printed.
Printed(text, operand) == text \o operand \o <<",">>
decoded == FoldLeft(Printed, <<instr.name>>, instr.operands)

\* The three streams: all arguments, the first one, the name.
All == Len(decoded)
Streams == {[skip |-> 1, wanted |-> All], [skip |-> 1, wanted |-> 1], [skip |-> 0, wanted |-> 1]}

Init ==
  /\ instr \in Instructions
  /\ functions \in {<<>>} \cup {[a \in {Functions[f]} |-> f] : f \in DOMAIN Functions}
  /\ subs = <<>>
  /\ status = "running"

Top == Last(subs)

Subscribe(stream) ==
  /\ status = "running"
  /\ Len(subs) < MaxDepth
  /\ subs' = Append(subs, [skip |-> stream.skip, wanted |-> stream.wanted,
                           seen |-> 0, input |-> Pieces(decoded), got |-> <<>>])
  /\ UNCHANGED <<instr, functions, status>>

\* Plausible bugs, one for each property of the passing run.  Each stands
\* before the definition it is a mutation of and is not used by Spec.

\* first() does not end the subscription.
BugNeverEnds(sub) == sub.seen >= sub.skip

\* Pieces before the arguments are skipped; first() takes no second one.
Listens(sub) == sub.seen >= sub.skip /\ Len(sub.got) < sub.wanted

\* The position in the text is kept for the instruction.
BugSharedInput(sub) ==
  [k \in DOMAIN subs |->
     IF k = Len(subs) THEN sub ELSE [subs[k] EXCEPT !.input = sub.input]]

\* Only the innermost subscription goes on: its position is its own.
Advanced(sub) == [subs EXCEPT ![Len(subs)] = sub]

\* What the subscriber is given for the next piece; for getName its text.
Delivered ==
  IF Top.skip = 0 THEN UnknownSymbol(Head(Top.input)) ELSE handle_expression(Head(Top.input), functions)

Running == status = "running" /\ subs # <<>>

\* The filter asserts that there is a symbol.
OnNext ==
  /\ Running /\ Top.input # <<>>
  /\ Listens(Top)
  /\ status' = IF Delivered = nullptr THEN "failed to create symbol/expression" ELSE status
  /\ subs' = Advanced([Top EXCEPT !.seen = @ + 1, !.input = Tail(@),
                                  !.got = IF Delivered = nullptr THEN @
                                          ELSE Append(@, Delivered)])
  /\ UNCHANGED <<instr, functions>>

OnNextIgnored ==
  /\ Running /\ Top.input # <<>>
  /\ ~Listens(Top)
  /\ subs' = Advanced([Top EXCEPT !.seen = @ + 1, !.input = Tail(@)])
  /\ UNCHANGED <<instr, functions, status>>

OnCompleted ==
  /\ Running /\ Top.input = <<>>
  /\ Top.wanted = 1 => Top.got # <<>>
  /\ subs' = Front(subs)
  /\ UNCHANGED <<instr, functions, status>>

\* first() of nothing is an error, and nothing handles it.
OnError ==
  /\ Running /\ Top.input = <<>>
  /\ Top.wanted = 1 /\ Top.got = <<>>
  /\ status' = "EmptyError"
  /\ UNCHANGED <<instr, functions, subs>>

\* The owner of the table adds a function.
Insert(f) ==
  /\ status = "running"
  /\ Functions[f] \notin DOMAIN functions
  /\ functions' = [a \in DOMAIN functions \cup {Functions[f]} |->
                    IF a = Functions[f] THEN f ELSE functions[a]]
  /\ UNCHANGED <<instr, subs, status>>

Next ==
  \/ \E stream \in Streams : Subscribe(stream)
  \/ OnNext \/ OnNextIgnored \/ OnCompleted \/ OnError
  \/ \E f \in DOMAIN Functions : Insert(f)

Spec == Init /\ [][Next]_vars

-----------------------------------------------------------------------------
(* Operands.                                                               *)

\* An operand the parser is made for: a word, or sums and products in
\* brackets.  The others are FS:0x28 without brackets, comments, sizes that
\* create_dereference does not know, and numerals like 0xac, which without 0x
\* are the names of flags.
Inside(operand) ==
  CASE Opening(operand) # 0 -> SubSeq(operand, Opening(operand) + 1, Len(operand) - 1)
    [] Opening(operand) = 0 /\ Head(operand) = "[" -> SubSeq(operand, 2, Len(operand) - 1)
    [] OTHER -> operand

Ordinary(operand) ==
  /\ operand # <<>> /\ Inside(operand) # <<>>
  /\ Range(Inside(operand)) \subseteq registers \cup DOMAIN Numeral \cup {"+", "-", "*"}
  /\ Opening(operand) # 0 => Head(operand) \in SizedTemporaries
  /\ Len(operand) = 1 => /\ Head(operand) \notin {"+", "-", "*"}
                         /\ Head(operand) \in DOMAIN Bare => Bare[Head(operand)] \notin registers
  /\ Len(operand) > 1 => Last(operand) = "]"

IsOrdinary == \A k \in DOMAIN instr.operands : Ordinary(instr.operands[k])

-----------------------------------------------------------------------------
(* Properties.                                                             *)

\* Every variable has its type, and nobody gets more than was asked for.
TypeOK ==
  /\ instr \in Instructions
  /\ \A a \in DOMAIN functions : Functions[functions[a]] = a
  /\ Len(subs) <= MaxDepth
  /\ \A k \in DOMAIN subs : Len(subs[k].got) <= subs[k].wanted
  /\ status \in {"running", "EmptyError", "failed to create symbol/expression"}

\* The assertion "failed to create symbol/expression" never fires: an operand
\* that cannot be parsed becomes a symbol of that name, and every size the
\* regular expression lets through has its temporary.
OperandsHaveSymbols == status # "failed to create symbol/expression"

\* What the parser makes of an ordinary operand: without brackets it is the
\* content, and a number loses 0x.
Stripped(operand) ==
  IF Head(operand) = "[" THEN SubSeq(operand, 2, Len(operand) - 1)
  ELSE IF Len(operand) = 1 /\ Head(operand) \in DOMAIN Bare THEN <<Bare[Head(operand)]>>
  ELSE operand

\* The symbols of a piece in the table as it is or as it was: it only grows.
Answers(piece, table) ==
  {handle_expression(piece, Restrict(table, known)) : known \in SUBSET DOMAIN table}

\* Whoever subscribes gets the name, or the symbols of the arguments in their
\* order, none twice and none left out before another; at the end these are all
\* arguments, or the one that was asked for.  Also if others subscribed to the
\* same instruction meanwhile, or functions were added.
EverySubscriberGetsAll ==
  \A k \in DOMAIN subs : IsOrdinary =>
    LET sub == subs[k] IN
    IF sub.skip = 0 THEN sub.input = <<>> => sub.got = <<UnknownSymbol(<<instr.name>>)>>
    ELSE /\ sub.input = <<>> => Len(sub.got) = Min({sub.wanted, Len(instr.operands)})
         /\ \A i \in DOMAIN sub.got :
              /\ i \in DOMAIN instr.operands
              /\ sub.got[i] \in Answers(Stripped(instr.operands[i]), functions)
=============================================================================
