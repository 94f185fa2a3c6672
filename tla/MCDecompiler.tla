---------------------------- MODULE MCDecompiler ----------------------------
(***************************************************************************)
(* Tables and instructions for the model checker.                          *)
(***************************************************************************)
EXTENDS Decompiler

Reg(name)          == Symbol("Register", name, 0)
Fun(name, address) == [Symbol("Function", name, 0) EXCEPT !.address = address]

\* Keys in the order of ac, cf, get_zf, pf, printf, sf, zf.
Registers == (97001 :> Reg("ac")) @@ (99001 :> Reg("cf")) @@ (112001 :> Reg("pf"))
               @@ (115001 :> Reg("sf")) @@ (122001 :> Reg("zf"))
Printf    == 112002 :> Fun("@printf", 64)
Known     == Symbol("SizedTemporary", "result", 0)

SomeTables ==
  {Printf @@ Registers,
   Registers @@ (103001 :> Fun("@get_zf", 65)) @@ Printf,
   Registers @@ (TemporaryKey :> Known),
   Printf}

MCNames ==
  {"ac", "cf", "pf", "sf", "zf", "@printf", "@get_zf", "result", "eax", "ebx", "number",
   "0", "1", "ResultOfTheCall", "Temporary", "TempResult", "Temp2Result"}

MCPartOf == {<<"_cf", "cf">>, <<"_zf", "zf">>, <<"_sf", "sf">>, <<"_pf", "pf">>,
             <<"_zf", "@get_zf">>}

Eax    == [addr |-> NotAnAddress, symbol |-> Symbol("Register", "eax", 0)]
Ebx    == [addr |-> NotAnAddress, symbol |-> Symbol("Register", "ebx", 0)]
Num(a) == [addr |-> a, symbol |-> Symbol("Immidiate", "number", 0)]

Asm(name, args) == [name |-> name, args |-> args]

SomeInstructions ==
  {Asm("cmp", <<Eax, Ebx>>), Asm("cmp", <<Num(NoAddress), Num(64)>>), Asm("test", <<Eax, Ebx>>),
   Asm("ja", <<Num(64)>>), Asm("jng", <<Num(66)>>), Asm("jge", <<Num(66)>>),
   Asm("call", <<Num(64)>>)}

\* Below without a common bit, equal, above with a common bit.  The result
\* of a call is what (bfd_vma)-1 denotes where it comes first in the table.
SomeValuations ==
  {(Eax.symbol :> x[1]) @@ (Ebx.symbol :> x[2]) @@ (Num(64).symbol :> 1)
     @@ (Reg("ac") :> 2) @@ (ResultOfTheCall :> 0) @@ (Known :> 0) @@ (Fun("@printf", 64) :> 1) :
     x \in {<<1, 2>>, <<1, 1>>, <<3, 1>>}}

CallF    == [kind |-> "call"]
CompareF == [kind |-> "compare"]
JumpF    == [kind |-> "jump"]
SomeLists == {<<CallF, CompareF, JumpF>>, <<JumpF, CompareF>>}
=============================================================================
