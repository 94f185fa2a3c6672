---------------------------- MODULE Disassembly ----------------------------
(***************************************************************************)
(* ExecutableFile::runDisassembler and SymbolDataLoader::fetch: the walk   *)
(* over the symbol table, the linear sweep of one function, its division   *)
(* into basic blocks, and the stream of instructions that on_next feeds to *)
(* the subscribers.                                                        *)
(*                                                                         *)
(* The binary is an image: what BFD and libopcodes answer about a file.    *)
(* One function is fetched in two loops, as in the code: the first decodes *)
(* every instruction and collects the leaders (the addresses at which a    *)
(* basic block shall begin), the second emits the instructions and opens   *)
(* the blocks with a cursor into the ordered set of leaders.               *)
(***************************************************************************)
EXTENDS BinaryImage

CONSTANTS
  Images,     \* the binaries a run may be about
  MaxRuns     \* bound on the calls of runDisassembler on one file

VARIABLES
  image,                  \* the file, fixed
  pc,                     \* where the one thread of the program is
  run,                    \* number of calls of runDisassembler so far
  sym,                    \* sym_ite, an index of image.syms
  shared_buffer,          \* the copies of sections, by section index
  fake_file,              \* the texts printed since the last reset()
  basic_block_buffer,     \* every block of the file, oldest first
  stream,                 \* everything given to on_next, oldest first
  (* local variables of fetch *)
  max_offset,             \* (int) sym_size
  offset,                 \* offset of the next instruction from the symbol
  i_size,                 \* what the last call of _dis_asm returned
  instructions,           \* what the first loop collected
  basic_block_addresses,  \* the leaders, an ordered set
  bba_begin,              \* the leaders from the cursor on
  next                    \* index of the instruction to emit next

fetchVars == <<max_offset, offset, i_size, instructions,
               basic_block_addresses, bba_begin, next>>
fileVars  == <<shared_buffer, fake_file, basic_block_buffer, stream>>
vars      == <<image, pc, run, sym, fileVars, fetchVars>>

ASSUME RunsAssumption   == MaxRuns \in Nat
ASSUME ImagesAssumption == \A im \in Images : WellFormed(im)

-----------------------------------------------------------------------------
Init ==
  /\ image \in Images
  /\ pc = "idle" /\ run = 0 /\ sym = 1
  /\ shared_buffer = <<>> /\ fake_file = <<>>
  /\ basic_block_buffer = <<>> /\ stream = <<>>
  /\ max_offset = 0 /\ offset = 0 /\ i_size = 0 /\ next = 1
  /\ instructions = <<>> /\ basic_block_addresses = {} /\ bba_begin = {}

\* The local variables of fetch end with it.
LeaveFetch ==
  /\ max_offset' = 0 /\ offset' = 0 /\ i_size' = 0 /\ next' = 1
  /\ instructions' = <<>> /\ basic_block_addresses' = {} /\ bba_begin' = {}

\* The user calls runDisassembler; nothing is cleared from an earlier call.
RunDisassembler ==
  /\ pc = "idle"
  /\ run < MaxRuns
  /\ image.readable
  /\ pc' = "symbols" /\ run' = run + 1 /\ sym' = 1
  /\ UNCHANGED <<image, fileVars, fetchVars>>

\* getSymbolTable throws: BFD cannot read the symbols of the file.
RunThrows ==
  /\ pc = "idle"
  /\ run < MaxRuns
  /\ ~image.readable
  /\ run' = run + 1
  /\ UNCHANGED <<image, pc, sym, fileVars, fetchVars>>

\* Plausible bugs, one for each property of the passing runs.  Each stands
\* before the definition it is a mutation of and is not used by Spec.

\* sym_ite is not advanced past a symbol that is not a function.
BugSkipStays ==
  /\ pc = "symbols"
  /\ sym \in DOMAIN image.syms
  /\ ~HasFunctionFlag(image, sym)
  /\ UNCHANGED <<image, pc, run, sym, fileVars, fetchVars>>

SkipSymbol ==
  /\ pc = "symbols"
  /\ sym \in DOMAIN image.syms
  /\ ~HasFunctionFlag(image, sym)
  /\ sym' = sym + 1
  /\ UNCHANGED <<image, pc, run, fileVars, fetchVars>>

\* reset() is forgotten: what was printed before is still there.
BugNoReset(a) ==
  /\ fake_file' = fake_file \o DecodedText(Parent(image, sym), a)
  /\ i_size' = DecodedSize(Parent(image, sym), a)

\* _dis_asm prints into the fake file, which reset() has emptied before.
Disassemble(a) ==
  /\ fake_file' = DecodedText(Parent(image, sym), a)
  /\ i_size' = DecodedSize(Parent(image, sym), a)

\* Copies the section of the symbol and enters fetch: the first instruction
\* is decoded before the loop, the address of the symbol is a leader.
FetchSymbol ==
  /\ pc = "symbols"
  /\ sym \in DOMAIN image.syms
  /\ HasFunctionFlag(image, sym)
  /\ image.supported
  /\ shared_buffer' = Append(shared_buffer, image.syms[sym].sec)
  /\ max_offset' = ToInt(SymbolSize(image, sym))
  /\ offset' = 0
  /\ Disassemble(Address(image, sym))
  /\ instructions' = <<>>
  /\ basic_block_addresses' = {Address(image, sym)}
  /\ bba_begin' = {}
  /\ next' = 1
  /\ pc' = "decode"
  /\ UNCHANGED <<image, run, sym, basic_block_buffer, stream>>

\* There is no disassembler for the file: assert_ex throws through fetch and
\* runDisassembler, after the section was copied and the fake file emptied.
FetchThrows ==
  /\ pc = "symbols"
  /\ sym \in DOMAIN image.syms
  /\ HasFunctionFlag(image, sym)
  /\ ~image.supported
  /\ shared_buffer' = Append(shared_buffer, image.syms[sym].sec)
  /\ fake_file' = <<>>
  /\ pc' = "idle"
  /\ UNCHANGED <<image, run, sym, basic_block_buffer, stream, fetchVars>>

\* Off by one: the first instruction of the next function is decoded too.
BugOneTooMany == i_size > 0 /\ offset <= max_offset

\* The last instruction must end before the size does.
BugOneTooFew == i_size > 0 /\ offset + i_size < max_offset

DecodeGuard == i_size > 0 /\ offset < max_offset

\* The offset of the view is taken after the instruction.
BugViewAfter(o) == o + i_size

\* Where a view of the bytes of the instruction at this offset of the symbol
\* begins in the copy of the section.
ViewOffset(o) == o

\* The body of the first loop and the advance of its header.
Decode ==
  /\ pc = "decode"
  /\ DecodeGuard
  /\ LET i_address == Address(image, sym) + offset
         target    == MatchJump(fake_file)
     IN  /\ basic_block_addresses' =
              IF target # Minus1
              THEN basic_block_addresses \cup {target, i_address + i_size}
              ELSE basic_block_addresses
         /\ instructions' =
              Append(instructions, [addr |-> i_address, size |-> i_size,
                                    text |-> fake_file, at |-> ViewOffset(offset)])
         /\ offset' = offset + i_size
         /\ Disassemble(Address(image, sym) + offset + i_size)
  /\ UNCHANGED <<image, pc, run, sym, shared_buffer, basic_block_buffer, stream,
                 max_offset, bba_begin, next>>

\* The first loop is over: the cursor is put on the least leader.
DecodeStops ==
  /\ pc = "decode"
  /\ ~DecodeGuard
  /\ bba_begin' = basic_block_addresses
  /\ next' = 1
  /\ pc' = "emit"
  /\ UNCHANGED <<image, run, sym, fileVars, max_offset, offset, i_size,
                 instructions, basic_block_addresses>>

\* The cursor is not at the end and stands on address a.
AtCursor(a) == a \in bba_begin /\ \A leader \in bba_begin : a <= leader

\* The last block is asked for before the new one is pushed.
BugBlockBeforePush(instr) ==
  stream' = Append(stream, [addr  |-> instr.addr, size |-> instr.size,
                            text  |-> instr.text, at |-> instr.at,
                            buf   |-> Len(shared_buffer),
                            block |-> Len(basic_block_buffer),
                            run   |-> run, sym |-> sym])

\* on_next: an instruction with a view into the copy of its section and a
\* pointer to the last block.  run and sym are kept here to speak about the
\* stream; the program does not store them.
OnNext(instr) ==
  stream' = Append(stream, [addr  |-> instr.addr, size |-> instr.size,
                            text  |-> instr.text, at |-> instr.at,
                            buf   |-> Len(shared_buffer),
                            block |-> Len(basic_block_buffer'),
                            run   |-> run, sym |-> sym])

\* ++bba_begin is forgotten.
BugCursorStays ==
  /\ pc = "emit"
  /\ next \in DOMAIN instructions
  /\ AtCursor(instructions[next].addr)
  /\ basic_block_buffer' =
       Append(basic_block_buffer, [id |-> instructions[next].addr, parent |-> sym])
  /\ OnNext(instructions[next])
  /\ next' = next + 1
  /\ UNCHANGED <<image, pc, run, sym, shared_buffer, fake_file, max_offset,
                 offset, i_size, instructions, basic_block_addresses, bba_begin>>

EmitIntoNewBlock ==
  /\ pc = "emit"
  /\ next \in DOMAIN instructions
  /\ AtCursor(instructions[next].addr)
  /\ basic_block_buffer' =
       Append(basic_block_buffer, [id |-> instructions[next].addr, parent |-> sym])
  /\ bba_begin' = bba_begin \ {instructions[next].addr}
  /\ OnNext(instructions[next])
  /\ next' = next + 1
  /\ UNCHANGED <<image, pc, run, sym, shared_buffer, fake_file, max_offset,
                 offset, i_size, instructions, basic_block_addresses>>

\* The assertion is compiled out: the last block of no blocks.
BugNoAssertion ==
  /\ pc = "emit"
  /\ next \in DOMAIN instructions
  /\ ~AtCursor(instructions[next].addr)
  /\ UNCHANGED basic_block_buffer
  /\ OnNext(instructions[next])
  /\ next' = next + 1
  /\ UNCHANGED <<image, pc, run, sym, shared_buffer, fake_file, max_offset,
                 offset, i_size, instructions, basic_block_addresses, bba_begin>>

EmitIntoLastBlock ==
  /\ pc = "emit"
  /\ next \in DOMAIN instructions
  /\ ~AtCursor(instructions[next].addr)
  /\ basic_block_buffer # <<>>
  /\ UNCHANGED basic_block_buffer
  /\ OnNext(instructions[next])
  /\ next' = next + 1
  /\ UNCHANGED <<image, pc, run, sym, shared_buffer, fake_file, max_offset,
                 offset, i_size, instructions, basic_block_addresses, bba_begin>>

\* assert_ex throws through fetch and runDisassembler; the file keeps what it
\* has, and may be asked again.
EmitThrows ==
  /\ pc = "emit"
  /\ next \in DOMAIN instructions
  /\ ~AtCursor(instructions[next].addr)
  /\ basic_block_buffer = <<>>
  /\ pc' = "idle"
  /\ LeaveFetch
  /\ UNCHANGED <<image, run, sym, fileVars>>

\* The blocks are cleared with each function.
BugClearBlocks ==
  /\ pc = "emit"
  /\ next \notin DOMAIN instructions
  /\ pc' = "symbols" /\ sym' = sym + 1
  /\ LeaveFetch
  /\ basic_block_buffer' = <<>>
  /\ UNCHANGED <<image, run, shared_buffer, fake_file, stream>>

SymbolDone ==
  /\ pc = "emit"
  /\ next \notin DOMAIN instructions
  /\ pc' = "symbols" /\ sym' = sym + 1
  /\ LeaveFetch
  /\ UNCHANGED <<image, run, fileVars>>

RunReturns ==
  /\ pc = "symbols"
  /\ sym \notin DOMAIN image.syms
  /\ pc' = "idle"
  /\ UNCHANGED <<image, run, sym, fileVars, fetchVars>>

\* What the program does by itself once it was called.
Step ==
  \/ SkipSymbol \/ FetchSymbol \/ FetchThrows
  \/ Decode \/ DecodeStops
  \/ EmitIntoNewBlock \/ EmitIntoLastBlock \/ EmitThrows
  \/ SymbolDone \/ RunReturns

Next == RunDisassembler \/ RunThrows \/ Step

Spec     == Init /\ [][Next]_vars
FairSpec == Spec /\ WF_vars(Step)

-----------------------------------------------------------------------------
(* Properties.                                                             *)

Instruction == [addr : Addresses, size : Nat, text : Seq(Text), at : Nat]
Block       == [id : Addresses, parent : Nat]
Emitted     == [addr : Addresses, size : Nat, text : Seq(Text), at : Nat,
                buf : Nat, block : Nat, run : Nat, sym : Nat]

\* Every variable has its type, and pointers point at something.
TypeOK ==
  /\ WellFormed(image)
  /\ pc \in {"idle", "symbols", "decode", "emit"}
  /\ run \in 0 .. MaxRuns
  /\ sym \in 1 .. Len(image.syms) + 1
  /\ shared_buffer \in Seq(DOMAIN image.secs)
  /\ fake_file \in Seq(Text)
  /\ basic_block_buffer \in Seq(Block)
  /\ stream \in Seq(Emitted)
  /\ max_offset \in Int /\ offset \in Nat /\ i_size \in Int
  /\ instructions \in Seq(Instruction)
  /\ basic_block_addresses \in SUBSET Addresses
  /\ bba_begin \in SUBSET Addresses
  /\ next \in 1 .. Len(instructions) + 1
  /\ pc \in {"decode", "emit"} => sym \in DOMAIN image.syms
  /\ \A i \in DOMAIN stream :
       /\ stream[i].buf \in DOMAIN shared_buffer
       /\ stream[i].block \in DOMAIN basic_block_buffer

\* The bytes of an emitted instruction lie inside the copy of the section
\* that its view points into (fetch builds the view from an offset relative
\* to the symbol; nothing checks it against buffer_length).
ViewsInsideBuffers ==
  \A i \in DOMAIN stream :
    stream[i].at + stream[i].size
      <= Len(image.secs[shared_buffer[stream[i].buf]].code)

\* A symbol that counts as a function because of an alias only.
AliasOnly(k) == image.syms[k].alias /\ ~image.syms[k].func

\* One call never emits an address twice, and emits addresses in ascending
\* order, when no symbol is a function by its alias only: closest_ite then
\* sees every symbol the walk disassembles.
AscendingStream ==
  (\A k \in DOMAIN image.syms : ~AliasOnly(k)) =>
    \A i, j \in DOMAIN stream :
      i < j /\ stream[i].run = stream[j].run => stream[i].addr < stream[j].addr

Starts == {instructions[i].addr : i \in DOMAIN instructions}

\* A leader between the instructions: the target of a jump out of the symbol
\* to a lower address, or into the middle of an instruction.  The cursor
\* cannot get past it.
Misaligned == {leader \in basic_block_addresses \ Starts :
                 \E a \in Starts : leader < a}

\* The entry of the stream for the i-th instruction of the current symbol.
EmittedNow(i) == stream[Len(stream) - (next - 1) + i]

\* Below the first misaligned leader every instruction of the function is in
\* the block of the greatest leader that is not above it, and that block
\* belongs to the function: the cursor and the sweep keep step.
BlocksFollowLeaders ==
  pc = "emit" =>
    \A i \in 1 .. next - 1 :
      (\A leader \in Misaligned : instructions[i].addr < leader) =>
        LET block == basic_block_buffer[EmittedNow(i).block]
        IN  /\ EmittedNow(i).addr = instructions[i].addr
            /\ block.parent = sym
            /\ block.id \in basic_block_addresses
            /\ block.id <= instructions[i].addr
            /\ \A leader \in basic_block_addresses :
                 leader <= block.id \/ instructions[i].addr < leader

\* The id of a block is the address of its first instruction, no block is
\* empty, and its instructions are consecutive in the stream (the consumers
\* print a header when the block changes).
BlockBeginsAtItsId ==
  /\ \A b \in DOMAIN basic_block_buffer :
       \E i \in DOMAIN stream :
         /\ stream[i].block = b
         /\ stream[i].addr = basic_block_buffer[b].id
         /\ \A j \in 1 .. i - 1 : stream[j].block < b
  /\ \A i, j \in DOMAIN stream : i < j => stream[i].block <= stream[j].block

\* The text of an instruction is what was printed for its own bytes: nothing
\* is left in the fake file from the instruction before.
TextIsOfAddress ==
  \A i \in DOMAIN stream :
    stream[i].text = DecodedText(Parent(image, stream[i].sym), stream[i].addr)

\* A call that ends before its walk does has thrown, and this can only happen
\* before the first instruction of the file was emitted: a subscriber that has
\* got one gets the rest of the call.
ThrowsBeforeFirstInstruction ==
  [][pc # "idle" /\ pc' = "idle" /\ sym \in DOMAIN image.syms => stream = <<>>]_vars

\* A call of runDisassembler ends: the sweep of a function cannot go on
\* forever, whatever jumps and sizes the image has.
CallReturns == (pc # "idle") ~> (pc = "idle")

\* The stream is the one LinearSweep promises.
Promise == INSTANCE LinearSweep WITH
  running <- pc # "idle",
  stream  <- [i \in DOMAIN stream |-> [run  |-> stream[i].run, sym |-> stream[i].sym,
                                       addr |-> stream[i].addr]]

\* Every step of the two loops is a step or a stutter of LinearSweep.
ImplementsPromise == Promise!Spec

\* The same with progress: what is promised is also delivered.
DeliversPromise == Promise!FairSpec

-----------------------------------------------------------------------------
(* What the documentation says, and the code does not do.                  *)

\* instruction.hpp: the parent of an instruction is the "Basic block to which
\* instruction belongs", so it is a block of the instruction's own function.
ParentIsOwnBlock ==
  \A i \in DOMAIN stream :
    basic_block_buffer[stream[i].block].parent = stream[i].sym

\* decompiler.cpp asserts "Duplicate instruction" when an address of the
\* stream comes twice.
NoDuplicateInstruction ==
  \A i, j \in DOMAIN stream :
    i # j /\ stream[i].run = stream[j].run => stream[i].addr # stream[j].addr

\* instruction.hpp: bytes are the "Raw data" of the instruction, so the view
\* begins at its address.
BytesOfInstruction ==
  \A i \in DOMAIN stream :
    image.secs[shared_buffer[stream[i].buf]].vma + stream[i].at = stream[i].addr
=============================================================================
