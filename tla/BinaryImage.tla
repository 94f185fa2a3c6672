---------------------------- MODULE BinaryImage ----------------------------
(***************************************************************************)
(* What a binary file answers when it is asked: its sections, the table    *)
(* that getSymbolTable makes of its symbols, and the questions that        *)
(* runDisassembler and fetch put to them.                                  *)
(***************************************************************************)
EXTENDS Integers, Sequences, FiniteSetsExt

CONSTANTS
  IntRange,   \* number of values of a 32-bit int: 2^32, smaller in models
  Top         \* the greatest bfd_vma: 2^64 - 1, smaller in models

ASSUME WidthAssumption == IntRange \in Nat \ {0} /\ Top \in Nat \ {0}

-----------------------------------------------------------------------------
(* bfd_vma and int.                                                        *)

Addresses == 0 .. Top
Minus1    == Top          \* (uint64_t) -1
Minus2    == Top - 1      \* (uint64_t) -2

\* (int) of a bfd_vma keeps the low bits and reads them as two's complement.
ToInt(n) == LET low == n % IntRange
            IN  IF 2 * low < IntRange THEN low ELSE low - IntRange

-----------------------------------------------------------------------------
(* Images.  The bytes of a section that runDisassembler copies are given   *)
(* decoded: code[o + 1] is what libopcodes makes of the bytes at offset o, *)
(* with a size that may be 0 or -1 when it cannot make anything of them.   *)
(* Of a text only what match_jump sees is kept: whether there is a jump    *)
(* mnemonic in it, and the number its operand starts with (NoNumber for a  *)
(* register or a memory operand whose first letter is not a hexadecimal    *)
(* digit).                                                                 *)

NoNumber == -1
Text     == [jump : BOOLEAN, operand : Addresses \cup {NoNumber}]
Decoded  == [size : Nat \cup {-1}, text : Text]
Section  == [vma : Addresses, size : Addresses, code : Seq(Decoded)]

\* func: the symbol read first at this address has BSF_FUNCTION;
\* alias: one of the symbols read later at the address has it.
Symbol   == [addr : Addresses, sec : Nat, func : BOOLEAN, alias : BOOLEAN]

\* supported: libopcodes has a disassembler for the file; readable: BFD can
\* read its symbol tables.
Image    == [secs : Seq(Section), syms : Seq(Symbol), supported : BOOLEAN, readable : BOOLEAN]

\* getSymbolTable leaves one symbol per address and sorts them; of a section
\* as many bytes are copied as the size keeps in 32 bits; an instruction that
\* would cross the end of the copy is printed byte by byte instead.
WellFormed(im) ==
  /\ im \in Image
  /\ \A s \in DOMAIN im.secs :
       LET sec == im.secs[s]
       IN  /\ sec.vma + Len(sec.code) < Minus2
           /\ Len(sec.code) = sec.size % IntRange
           /\ \A o \in DOMAIN sec.code : o - 1 + sec.code[o].size <= Len(sec.code)
  /\ \A k \in DOMAIN im.syms : im.syms[k].sec \in DOMAIN im.secs
  /\ \A j, k \in DOMAIN im.syms : j < k => im.syms[j].addr < im.syms[k].addr

-----------------------------------------------------------------------------
(* What the code asks about the k-th symbol of an image.                   *)

Parent(im, k)  == im.secs[im.syms[k].sec]
Address(im, k) == im.syms[k].addr

\* hasFlags(BSF_FUNCTION) also looks at the aliases, getFlags() does not.
HasFunctionFlag(im, k) == im.syms[k].func \/ im.syms[k].alias

LaterFunctions(im, k) ==
  {j \in k .. Len(im.syms) : im.syms[j].func /\ Address(im, k) < Address(im, j)}

\* From the symbol to the end of its section; the difference wraps when the
\* symbol is not in the section.
ToSectionEnd(im, k) ==
  (Parent(im, k).size - (Address(im, k) - Parent(im, k).vma)) % (Top + 1)

\* A plausible bug: the farthest function instead of the closest.
BugFarthest(im, k) ==
  IF LaterFunctions(im, k) = {}
  THEN ToSectionEnd(im, k)
  ELSE Address(im, Max(LaterFunctions(im, k))) - Address(im, k)

\* getDistance, to the closest function or to the end of the section.
SymbolSize(im, k) ==
  IF LaterFunctions(im, k) = {}
  THEN ToSectionEnd(im, k)
  ELSE Address(im, Min(LaterFunctions(im, k))) - Address(im, k)

\* _dis_asm at address a with the copied bytes of a section: -1 outside of them.
Readable(sec, a)    == sec.vma <= a /\ a < sec.vma + Len(sec.code)
DecodedSize(sec, a) == IF Readable(sec, a) THEN sec.code[a - sec.vma + 1].size ELSE -1
DecodedText(sec, a) == IF Readable(sec, a) THEN <<sec.code[a - sec.vma + 1].text>> ELSE <<>>

\* The printed text is searched as a whole: the first jump in it counts.
MatchJump(texts) ==
  IF \E i \in DOMAIN texts : texts[i].jump
  THEN LET first == Min({i \in DOMAIN texts : texts[i].jump})
       IN  IF texts[first].operand = NoNumber THEN Minus2 ELSE texts[first].operand
  ELSE Minus1
=============================================================================
