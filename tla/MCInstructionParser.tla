------------------------ MODULE MCInstructionParser ------------------------
(***************************************************************************)
(* Instructions for the model checker.                                     *)
(***************************************************************************)
EXTENDS OperandMeaning

MCNumeral ==
  ("0x8" :> 8) @@ ("8" :> 8) @@ ("0x666" :> 5) @@ ("666" :> 5) @@ ("4009b0" :> 7)
    @@ ("0xac" :> 3) @@ ("ac" :> 3) @@ ("0x28" :> 4) @@ ("28" :> 4)
MCBare == ("0x8" :> "8") @@ ("0x666" :> "666") @@ ("0xac" :> "ac") @@ ("0x28" :> "28")

MCFunctions == ("main" :> 7) @@ ("beast" :> 5)
MCHeld == ("eax" :> 2) @@ ("rbp" :> 3) @@ ("ds" :> 0) @@ ("fs" :> 0) @@ ("ac" :> 1)

Sum(size)  == <<size, "PTR", "[", "eax", "-", "rbp", "-", "0x666", "]">>
Product    == <<"eax", "*", "0x8", "+", "0x666">>
Segment    == <<"QWORD", "PTR", "ds", ":", "[", "0x8", "]">>

Asm(name, operands) == [name |-> name, operands |-> operands]

SomeInstructions ==
  {Asm("mov", <<<<"DWORD", "PTR", "[">> \o Product \o <<"]">>, <<"eax">>>>),
   Asm("movaps", <<<<"XMMWORD", "PTR", "[">> \o Product \o <<"]">>, <<"0x8">>>>),
   Asm("lea", <<<<"eax">>, <<"[", "rbp", "+", "eax", "*", "0x8", "]">>>>),
   Asm("lea", <<<<"rbp">>, <<"[", "eax", "*", "0x8", "]">>>>),
   Asm("cmp", <<Sum("BYTE"), Segment>>),
   Asm("imul", <<<<"eax">>, Sum("WORD"), <<"0x666">>>>),
   Asm("jne", <<<<"4009b0">>>>),
   Asm("ret", <<>>),
   Asm("mov", <<<<"eax">>, <<"QWORD", "PTR", "fs", ":", "0x28">>>>),
   Asm("fld", <<Sum("TBYTE")>>),
   Asm("add", <<<<"eax">>, <<"0xac">>, <<"#", "0x28">>>>)}

MCWords ==
  registers \cup SizedTemporaries \cup DOMAIN MCNumeral \cup DOMAIN MCHeld
    \cup {"PTR", "TBYTE"} \cup {i.name : i \in SomeInstructions}
=============================================================================
