--------------------------- MODULE MCDisassembly ---------------------------
(***************************************************************************)
(* Images for the model checker.                                           *)
(***************************************************************************)
EXTENDS Disassembly

Jumps(operands) == [jump : {TRUE}, operand : operands]
Plain           == [jump |-> FALSE, operand |-> NoNumber]
JumpTo(a)       == [jump |-> TRUE, operand |-> a]

Function(a, s) == [addr |-> a, sec |-> s, func |-> TRUE,  alias |-> FALSE]
Aliased(a, s)  == [addr |-> a, sec |-> s, func |-> FALSE, alias |-> TRUE]
Object(a, s)   == [addr |-> a, sec |-> s, func |-> FALSE, alias |-> FALSE]

Bytes(sizes, texts) ==
  [o \in DOMAIN sizes |-> [size |-> sizes[o], text |-> texts[o]]]

Sec(v, code)     == [vma |-> v, size |-> Len(code), code |-> code]
Code(v, texts)   == Sec(v, Bytes([i \in DOMAIN texts |-> 1], texts))
File(secs, syms) == [secs |-> secs, syms |-> syms, supported |-> TRUE, readable |-> TRUE]

-----------------------------------------------------------------------------
(* Exhaustive: one section of four bytes at address 4, every division into *)
(* instructions of one or two bytes, and up to two jumps to anywhere: into *)
(* the section, below it, just behind it, or to no number.                 *)

Targets == {2, 4, 5, 6, 7, 8, NoNumber}

Sizes == {sizes \in [1 .. 4 -> 1 .. 2] : sizes[4] = 1}

TextsUpToTwoJumps ==
  {texts \in [1 .. 4 -> {Plain} \cup Jumps(Targets)] :
     Cardinality({o \in 1 .. 4 : texts[o].jump}) <= 2}

SmallTables ==
  { <<Function(4, 1)>>,
    <<Function(4, 1), Function(6, 1)>>,
    <<Object(4, 1), Function(5, 1)>> }

SmallImages ==
  { File(<<Sec(4, Bytes(sizes, texts))>>, syms) :
      sizes \in Sizes, texts \in TextsUpToTwoJumps, syms \in SmallTables }

-----------------------------------------------------------------------------
(* Chosen layouts: what real files have.                                   *)

Und     == Sec(0, <<>>)
Comment == Sec(0, Bytes(<<2, 1, 1>>, <<JumpTo(2), Plain, Plain>>))

LayoutImages == {
  \* undefined functions at address 0, then a function that calls back
  File(<<Und, Code(4, <<Plain, JumpTo(4), Plain>>)>>,
       <<Function(0, 1), Function(4, 2), Function(6, 2)>>),
  \* the symbol at 0 is a section, a function only by an alias; .init; .plt
  File(<<Comment, Code(4, <<Plain, JumpTo(6), Plain>>),
              Code(8, <<Plain, JumpTo(8), JumpTo(30)>>)>>,
       <<Aliased(0, 1), Aliased(4, 2), Function(9, 3), Object(10, 3)>>),
  \* the first function jumps below itself: the assertion fires
  File(<<Code(4, <<Plain, JumpTo(4), Plain, Plain>>)>>,
       <<Function(5, 1), Function(7, 1)>>),
  \* an alias-only function inside the range of another one
  File(<<Code(4, <<Plain, Plain, JumpTo(NoNumber), Plain>>)>>,
       <<Function(4, 1), Aliased(6, 1)>>),
  \* the next function is as far away as an int can and cannot measure
  File(<<Code(2, <<Plain, JumpTo(3), Plain>>), Code(9, <<Plain, Plain>>)>>,
       <<Function(2, 1), Function(9, 2)>>),
  File(<<Code(2, <<Plain, JumpTo(3), Plain>>), Code(20, <<Plain, Plain>>)>>,
       <<Function(2, 1), Function(20, 2), Function(21, 2)>>),
  File(<<Code(2, <<Plain, JumpTo(3), Plain>>), Code(12, <<Plain, Plain>>)>>,
       <<Function(2, 1), Function(12, 2)>>),
  \* the jump of the second function leads into the first one
  File(<<Code(4, <<Plain, Plain, Plain, JumpTo(4), Plain, Plain>>)>>,
       <<Function(4, 1), Function(6, 1), Function(9, 1)>>),
  \* a file without functions
  File(<<Code(4, <<Plain>>)>>, <<Object(4, 1)>>),
  \* nothing can be decoded in the middle of two functions: size 0 and -1
  File(<<Sec(4, Bytes(<<1, 0, 1, 1, -1, 1>>, <<Plain, Plain, Plain, JumpTo(7), Plain, Plain>>))>>,
       <<Function(4, 1), Function(6, 1)>>),
  \* functions below and above their section, and an absolute one: the distance
  \* of the last to the end of its section wraps
  File(<<Und, Code(6, <<Plain, JumpTo(6), Plain>>)>>,
       <<Function(3, 2), Function(6, 2), Function(9, 1), Function(12, 2)>>),
  \* a section whose size loses its high bit when it is copied
  File(<<[vma |-> 4, size |-> 18, code |-> Bytes(<<1, 1>>, <<JumpTo(5), Plain>>)]>>,
       <<Function(4, 1), Object(6, 1), Function(7, 1)>>),
  \* no disassembler for the file, with and without a function
  [File(<<Code(4, <<Plain, Plain>>)>>, <<Object(4, 1), Function(5, 1)>>) EXCEPT !.supported = FALSE],
  [File(<<Code(4, <<Plain, Plain>>)>>, <<Object(4, 1)>>) EXCEPT !.supported = FALSE],
  \* symbols that cannot be read
  [File(<<Code(4, <<Plain, Plain>>)>>, <<Function(4, 1)>>) EXCEPT !.readable = FALSE] }

-----------------------------------------------------------------------------
AllImages == SmallImages \cup LayoutImages
=============================================================================
