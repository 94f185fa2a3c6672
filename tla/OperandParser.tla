--------------------------- MODULE OperandParser ---------------------------
(***************************************************************************)
(* The pure part of instruction_parser: how the text of an instruction is  *)
(* cut into pieces, and what symbol a piece is.                            *)
(* A text is a sequence of tokens: words, numerals and punctuation.        *)
(***************************************************************************)
EXTENDS Integers, SequencesExt

CONSTANTS
  Words,     \* the tokens that are no punctuation
  Numeral,   \* the words made of hexadecimal digits, with or without 0x, and
             \* the numbers they are
  Bare       \* those with 0x, and what follows it

-----------------------------------------------------------------------------
(* The register table.                                                     *)

Legacy   == {"ax", "bx", "cx", "dx", "di", "si", "sp", "bp", "ip",
             "cs", "ds", "es", "fs", "gs", "ss"}
Numbered == {"r8", "r9", "r10", "r11", "r12", "r13", "r14", "r15"}

\* The names by size.  The key is what the parser looks up.
Sized ==
  [QWORD |-> {"r" \o r : r \in Legacy} \cup Numbered,
   DWORD |-> {"e" \o r : r \in Legacy} \cup {r \o "d" : r \in Numbered},
   WORD  |-> Legacy \cup {r \o "w" : r \in Numbered},
   BYTE  |-> {x \o part : x \in {"a", "b", "c", "d"} \cup Numbered, part \in {"h"}}
               \cup {x \o "l" : x \in {"a", "b", "c", "d"}} \cup {r \o "b" : r \in Numbered},
   BIT   |-> {"cf", "pf", "af", "zf", "sf", "tf", "if", "df", "of", "iopl", "nt", "rf",
              "vm", "ac", "vif", "vip", "id"},
   XMM   |-> {"xmm0", "xmm1", "xmm2", "xmm3", "xmm4", "xmm5", "xmm6", "xmm7"}]

registers == UNION Range(Sized)

-----------------------------------------------------------------------------
(* Instruction::parse: the pieces that parse_regex finds, from left to     *)
(* right.                                                                  *)

Punctuation == {"[", "]", "*", "+", "-", ":", ",", "#"}
IsWord(t)   == t \notin Punctuation
Tokens      == Words \cup Punctuation
Texts       == Seq(Tokens)

ASSUME WordsAssumption ==
  /\ \A t \in Words : IsWord(t)
  /\ registers \cup DOMAIN Numeral \subseteq Words \ {"PTR"}
  /\ Bare \in [DOMAIN Bare -> Words] /\ DOMAIN Bare \subseteq Words

\* The place that closes the bracket at open, if there is something in it.
Closing(text, open) ==
  LET closed == {i \in open + 1 .. Len(text) : text[i] = "]"}
  IN  IF closed = {} \/ open + 1 \in closed THEN 0 ELSE Min(closed)

\* Where the bracket of a memory operand with a size is opened, or 0.
Opening(text) ==
  CASE Len(text) > 3 /\ IsWord(text[1]) /\ text[2] = "PTR" /\ text[3] = "[" -> 3
    [] Len(text) > 5 /\ IsWord(text[1]) /\ text[2] = "PTR" /\ IsWord(text[3])
         /\ text[4] = ":" /\ text[5] = "[" -> 5
    [] OTHER -> 0

\* What the expression finds at the beginning of a text, if anything, and how
\* much is consumed: the comment, the memory operand with its size, the one
\* without, which loses its brackets, the number, which loses 0x, the word.
Found(piece, length) == [pieces |-> <<piece>>, length |-> length]

FindAndConsume(text) ==
  LET sized == IF Opening(text) = 0 THEN 0 ELSE Closing(text, Opening(text))
  IN  IF Head(text) = "#" /\ Len(text) > 1 /\ text[2] \in DOMAIN Bare THEN Found(<<>>, 2)
      ELSE IF sized # 0 THEN Found(SubSeq(text, 1, sized), sized)
      ELSE IF Head(text) = "[" /\ Closing(text, 1) # 0
        THEN Found(SubSeq(text, 2, Closing(text, 1) - 1), Closing(text, 1))
      ELSE IF Head(text) \in DOMAIN Bare THEN Found(<<Bare[Head(text)]>>, 1)
      ELSE IF IsWord(Head(text)) THEN Found(<<Head(text)>>, 1)
      ELSE [pieces |-> <<>>, length |-> 1]

\* One token further: it was consumed already, or the search goes on there.
Split(state, rest) ==
  IF state.consumed > 0 THEN [state EXCEPT !.consumed = @ - 1]
  ELSE [consumed |-> FindAndConsume(rest).length - 1,
        pieces   |-> state.pieces \o FindAndConsume(rest).pieces]

Rests(text) == [i \in DOMAIN text |-> SubSeq(text, i, Len(text))]

Pieces(text) == FoldLeft(Split, [consumed |-> 0, pieces |-> <<>>], Rests(text)).pieces

-----------------------------------------------------------------------------
(* Symbols of operands.                                                    *)

nullptr == [class |-> "nullptr"]
Immidiate(value)         == [class |-> "Immidiate", value |-> value]
Register(name)           == [class |-> "Register", name |-> name]
UnknownSymbol(text)      == [class |-> "Symbol", text |-> text]
Function(name)           == [class |-> "Function", name |-> name]
Temporary(lhs, op, rhs)  == [class |-> "Temporary", lhs |-> lhs, op |-> op, rhs |-> rhs]
SizedTemporary(size, op, rhs) ==
  [class |-> "SizedTemporary", size |-> size, op |-> op, rhs |-> rhs]

\* size_trait::name of the types create_dereference knows.
SizedTemporaries == {"BYTE", "WORD", "DWORD", "QWORD", "XMMWORD"}

\* Plausible bugs, one for each property of the passing run.  Each stands
\* before the definition it is a mutation of and is not used by the others.

\* The regular expressions are not greedy: the text is split at the first.
BugFirstOperator(text, operators) ==
  LET at == {i \in 2 .. Len(text) - 1 : text[i] \in operators}
  IN  IF at = {} THEN 0 ELSE Min(at)

\* The operator where text is split: (.+)(op)(.+) leaves as much as it can on the left.
Operator(text, operators) ==
  LET at == {i \in 2 .. Len(text) - 1 : text[i] \in operators}
  IN  IF at = {} THEN 0 ELSE Max(at)

\* The groups of the regular expression dereference, or <<>>.
Dereference(text) ==
  LET open == Opening(text)
  IN  IF open # 0 /\ Head(text) \in {"XMMWORD", "BYTE", "WORD", "DWORD", "QWORD"}
           /\ Last(text) = "]"
        THEN <<Head(text), SubSeq(text, open + 1, Len(text) - 1)>>
        ELSE <<>>

\* XMMWORD is matched by the regular expression and was forgotten here.
BugForgottenSize(size, rhs) ==
  IF size \in SizedTemporaries \ {"XMMWORD"} /\ rhs # nullptr
    THEN SizedTemporary(size, "*", rhs) ELSE nullptr

create_dereference(size, rhs) ==
  IF size \in SizedTemporaries /\ rhs # nullptr THEN SizedTemporary(size, "*", rhs) ELSE nullptr

create_operation(lhs, op, rhs) ==
  IF nullptr \in {lhs, rhs} THEN nullptr ELSE Temporary(lhs, op, rhs)

\* What expr is, when symbols has what its parts are.  functions maps addresses
\* to the names of the functions there.
Handle(symbols, expr, functions) ==
  LET group    == Dereference(expr)
      multiply == Operator(expr, {"*"})
      add      == Operator(expr, {"+", "-"})
      Operation(at) ==
        create_operation(symbols[SubSeq(expr, 1, at - 1)], expr[at],
                         symbols[SubSeq(expr, at + 1, Len(expr))])
      IsNumeral == Len(expr) = 1 /\ Head(expr) \in DOMAIN Numeral
  IN  IF IsNumeral /\ Numeral[Head(expr)] \in DOMAIN functions
        THEN Function(functions[Numeral[Head(expr)]])
      ELSE IF Len(expr) = 1 /\ Head(expr) \in registers THEN Register(Head(expr))
      ELSE IF IsNumeral THEN Immidiate(Head(expr))
      ELSE IF group # <<>> THEN create_dereference(group[1], symbols[group[2]])
      ELSE IF multiply # 0 THEN Operation(multiply)
      ELSE IF add # 0 THEN Operation(add)
      ELSE UnknownSymbol(expr)

handle_expression(expr, functions) ==
  LET symbols[text \in Texts] == Handle(symbols, text, functions) IN symbols[expr]
=============================================================================
