------------------------ MODULE MCInstructionStream ------------------------
(***************************************************************************)
(* Files for the model checker.                                            *)
(***************************************************************************)
EXTENDS InstructionStream

Instr(name, section, symbol, block) ==
  [name |-> name, section |-> section, symbol |-> symbol, block |-> block]

\* A sequence that begins twice, one that is interrupted, and one over two
\* runs; functions of two blocks, of the same name, and of the same address in
\* two sections, as a relocatable file has them.
SomeFiles ==
  {<<Instr("push", ".text", "f", "#1"), Instr("push", ".text", "f", "#1"),
     Instr("mov", ".text", "f", "#2"), Instr("pop", ".text", "g", "#3")>>,
   <<Instr("push", ".text", "f", "#0"), Instr("ret", ".text.startup", "main", "#0"),
     Instr("pop", ".text.startup", "main", "#1")>>,
   <<Instr("mov", ".text", "f", "#1"), Instr("pop", ".text", "f", "#2"),
     Instr("push", ".fini", "f", "#3")>>}

MCSequence == <<"push", "mov", "pop">>
MCSeed     == [section |-> "", symbol |-> "", block |-> "#-1"]
=============================================================================
