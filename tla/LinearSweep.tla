---------------------------- MODULE LinearSweep ----------------------------
(***************************************************************************)
(* What runDisassembler promises of its stream, whatever it does inside:   *)
(* every call emits, for each function of the symbol table in order, the   *)
(* linear sweep of the function, and then returns; or it fails before      *)
(* anything was ever emitted.  A file whose symbols cannot be read is      *)
(* refused, one without a disassembler fails at its first function.  No    *)
(* blocks, no copies of sections, no loops.                                *)
(***************************************************************************)
EXTENDS BinaryImage

CONSTANT MaxRuns   \* bound on the calls

VARIABLES
  image,    \* the file, fixed
  run,      \* number of calls so far
  running,  \* a call is in progress
  stream    \* what was emitted: [run, sym, addr]

vars == <<image, run, running, stream>>

\* The sweep of function k stays in its section, ends where nothing can be
\* decoded, and before the next function as far as an int can measure.
InSweep(k, a) ==
  DecodedSize(Parent(image, k), a) > 0 /\ a - Address(image, k) < ToInt(SymbolSize(image, k))

Start(k) == HasFunctionFlag(image, k) /\ InSweep(k, Address(image, k))

\* There is a function, and nothing to disassemble it with.
Unsupported == ~image.supported /\ \E k \in DOMAIN image.syms : HasFunctionFlag(image, k)

NoneYet == stream = <<>> \/ stream[Len(stream)].run # run

\* The symbol and the address that may still be swept after the last
\* instruction of this call.
LastSym == IF NoneYet THEN 0 ELSE stream[Len(stream)].sym
After   == LET last == stream[Len(stream)]
           IN  last.addr + DecodedSize(Parent(image, last.sym), last.addr)

Continues == ~NoneYet /\ InSweep(LastSym, After)

\* What this call has to emit next is of symbol k, and where it is.
IsNext(k) ==
  \/ Continues /\ k = LastSym
  \/ /\ ~Continues
     /\ k > LastSym /\ Start(k)
     /\ \A j \in LastSym + 1 .. k - 1 : ~Start(j)

NextAddress(k) == IF k = LastSym THEN After ELSE Address(image, k)

Init ==
  /\ WellFormed(image)
  /\ run = 0 /\ running = FALSE /\ stream = <<>>

Call ==
  /\ ~running /\ run < MaxRuns
  /\ image.readable
  /\ running' = TRUE /\ run' = run + 1
  /\ UNCHANGED <<image, stream>>

Refuse ==
  /\ ~running /\ run < MaxRuns
  /\ ~image.readable
  /\ run' = run + 1
  /\ UNCHANGED <<image, running, stream>>

Emit ==
  /\ running
  /\ image.supported
  /\ \E k \in DOMAIN image.syms :
       /\ IsNext(k)
       /\ stream' = Append(stream, [run |-> run, sym |-> k, addr |-> NextAddress(k)])
  /\ UNCHANGED <<image, run, running>>

Return ==
  /\ running
  /\ ~Unsupported
  /\ ~Continues
  /\ \A k \in DOMAIN image.syms : k > LastSym => ~Start(k)
  /\ running' = FALSE
  /\ UNCHANGED <<image, run, stream>>

Fail ==
  /\ running
  /\ stream = <<>>
  /\ Unsupported \/ \E k \in DOMAIN image.syms : Start(k)
  /\ running' = FALSE
  /\ UNCHANGED <<image, run, stream>>

Next == Call \/ Refuse \/ Emit \/ Return \/ Fail

Spec     == Init /\ [][Next]_vars
FairSpec == Spec /\ WF_vars(Emit \/ Return \/ Fail)
=============================================================================
