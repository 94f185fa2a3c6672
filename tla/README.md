# BEFA-Library in TLA+

BEFA opens a binary file with BFD, disassembles its functions with libopcodes
into a stream of instructions (rxcpp), divides the functions into basic blocks,
parses the operands, and maps instructions to an LLVM-like form. The library is
single-threaded: its hard behaviour is not in threads but in state that outlives
a call (blocks, buffers, caches, subjects), in the order of callbacks, in what a
throw leaves behind, and in loops driven by what an external decoder answers.

Paths below are relative to the repository (`src/` holds its sources).

## The system

| Component | State | Operations | Interacts with |
|---|---|---|---|
| Disassembly: `runDisassembler`, `SymbolDataLoader::fetch`, `match_jump` (`src/assembly/disassembler.cpp`) | `shared_buffer`, `fake_file`, `basic_block_buffer`, `assembly_subject`; the locals of `fetch` | walk over the symbols, decode loop, emit loop | symbol table; libopcodes through `disassemble_info`; subscribers through `on_next` |
| Fake file: `ffile`, `ffprintf` | `buffer`, `pos` | `ffprintf`, `reset` | called back by libopcodes, read by `fetch` |
| `ExecutableFile` and `disassembler_impl` (`src/assembly/executable_file.cpp`, `include/befa.hpp`) | `_fd`, `is_valid`, `symbol_table`, `synthetic_symbol_table`, `sections`, `symbol_buffer`, `section_buffer`, `sections_sorted` | `open`, move, destroy, `getSymbolTable`, `getSections`, `generate_table` | BFD; hands out weak pointers |
| Value types: `Section`, `Symbol`, `BasicBlock`, `Instruction` | origin, parent, aliases, id, bytes | getters, `addAlias`, `hasFlags`, `getDistance` | chains of weak pointers up to the file |
| Instruction parser: `getArgs`, `handle_expression` (`src/assembly/decoder.cpp`) | none (shared register objects) | parse one operand, lazily | table of functions by reference |
| Instruction mapper, factories, `SymTable` (`src/llvm/decompiler.cpp`, `include/befa/llvm/`) | `factories`, `symbol_map`, `created_instructions` | `reduce_instr`, `register_factory`, `remove_factory`, `add_symbol`, `get_or_create`, `find_symbol` | consumes the stream, emits another |
| Visitors (`include/befa/utils/visitor.hpp`) | none | dispatch by class | used by mapper and consumers |
| Consumers (`main.cpp`, `examples/`) | last section, symbol and block | print headers and instructions | consume the stream |

What makes each one correct, and what is hard about it:

- Disassembly: each function is swept once, in order, and neither over its end
  nor short of it; every instruction has the text, the bytes and the block of its
  own address; the walk ends. Hard: the cursor into the set of leaders, buffers
  that are kept from function to function and call to call, sizes cut to `int`,
  an assertion that throws through two frames.
- Fake file: the buffer holds what was printed, whatever its size. Hard: a retry
  loop driven by the result of `vsnprintf`.
- `ExecutableFile`: one descriptor, closed once; one symbol per address; the
  caches and the objects they point to live as long as each other. Hard: moves.
- Parser: an operand becomes the tree its precedence says. Hard: precedence by
  order of regular expressions; a lazy stream over a captured reference, parsed
  again for every subscriber.
- Mapper: each instruction is offered to each factory once, a symbol found is the
  one stored, and the IR does what the assembly does. Hard: the key by which a
  symbol is stored, a search by part of a name, flags that one instruction sets
  and a later one reads, a list of factories that changes.
- Consumers: a hot stream gives everyone the rest of what is emitted. Hard:
  subscriptions made and ended while an instruction is given out.

`PROJECT.json` lists every hazard at its line with the properties that would
catch it.

## Modules

| Module | What it is |
|---|---|
| `BinaryImage` | what a file answers: sections, symbol table, `SymbolSize`, `MatchJump`, the external decoder |
| `Disassembly` | the two loops of `fetch` inside the walk of `runDisassembler`, one action per branch, with its properties |
| `LinearSweep` | the abstract specification: what the stream is, without buffers, blocks and loops |
| `DisassemblyProofs` | facts about the questions asked of an image; the inductive invariant, the theorems, the refinement of `LinearSweep` |
| `FakeFile` | `ffile` and `ffprintf`: the buffer, `pos` and the retries of `vsnprintf` |
| `PrintedText` | its abstract specification: a call that returns has printed its whole output behind the others, one that throws nothing |
| `FakeFileProofs` | the theorems about the fake file |
| `SymbolTables` | constant: a file as BFD answers for it, its symbols and sections in the order they are read |
| `ExecutableFile` | objects with all their members: `open`, moves, destruction, the cached tables |
| `Sorting` | constant: `std::sort` by a key, which the module that sorts gives |
| `OpenedFile` | its abstract specification: the owner of a descriptor answers for its file, whatever came before |
| `FoldProofs`, `SortingProofs` | what holds of every fold over a list, of every sorted list |
| `ExecutableFileProofs` | what moves, destruction and caches do to objects; the theorems, the refinement of `OpenedFile` |
| `OperandParser` | constant: `Instruction::parse`, `handle_expression`, the symbols |
| `InstructionParser` | the cold streams `getArgs` and `getName`, subscriptions inside each other, the captured table |
| `OperandMeaning` | constant: the names of symbols; what operands, symbols and names mean |
| `InstructionParserProofs` | what the parser makes of every text; the theorems about its subscribers |
| `Visitors` | constant: the classes of symbols and of IR, the visitors made of lambdas and whom they are called for |
| `SymTable` | constant: the map of the reduction, its searches, its keys |
| `Decompiler` | `reduce_instr` and the three factories; what the IR computes |
| `FlagMachine` | its abstract specification: every instruction given to a list of factories, and a machine with two flags |
| `DecompilerProofs` | the theorems about the mapper; the refinement of `FlagMachine` |
| `InstructionStream` | the hot stream, the listing of `main.cpp`, the matcher of the tests, `runDecompiler` |
| `InstructionStreamProofs` | the theorems about the subject and its observers |
| `MC...` | for each state machine: the instances TLC uses |

The modules meet where the parts of the program do. `Disassembly` takes from
`FakeFile` that the text of an instruction is the one printed since the reset,
and from `ExecutableFile` that the symbol table is sorted and has one symbol per
address (`TableIsWellFormed` there is a conjunct of `WellFormed` here).
`InstructionStream` takes an emitted stream as given, `Decompiler` takes
instructions whose operands are parsed, `SymTable` asks `Visitors` whom a
`SymbolVisitorL` is called for.

### How `Disassembly` corresponds to the code

The state is the fields of the file (`shared_buffer`, `fake_file`,
`basic_block_buffer`), the locals of `fetch` (`max_offset`, `offset`, `i_size`,
`instructions`, `basic_block_addresses`, `bba_begin`), the iterator `sym` of
the walk, and `stream`: everything that was given to `on_next`. `pc` says where
the thread is: not in a call, in the walk, in the first or in the second loop.

| Action | Code in `disassembler.cpp` |
|---|---|
| `RunDisassembler`, `RunReturns` | 152-156, 198-199 |
| `RunThrows` | 155: `getSymbolTable` throws (`executable_file.cpp` 222-228) |
| `SkipSymbol` | 161-162, the early return of the lambda |
| `FetchSymbol` | 164-197 and 76-97: size, copy of the section, first decode |
| `FetchThrows` | 83-87: no disassembler for the file, `assert_ex` throws after the section was copied and the fake file emptied |
| `Decode` | 99-118: the body of the first loop and the advance in its header |
| `DecodeStops` | 100 false, 119-120 |
| `EmitIntoNewBlock` | 122-139, the leader is reached |
| `EmitIntoLastBlock` | 122-139, it is not, and there is a block |
| `EmitThrows` | 131-134: `assert_ex` throws out of `runDisassembler` |
| `SymbolDone` | 140-142 |

What is abstracted, and why it does not matter to the properties:

- A binary is an *image*: its sections, their bytes already decoded at every
  offset, and the table `getSymbolTable` returns. libopcodes answers by table
  lookup, and -1 outside of the copy. An image also says whether libopcodes has
  a disassembler for it (`supported`) and whether BFD can read its symbols
  (`readable`). `WellFormed` says what every image has: addresses sorted and
  distinct (`executable_file.cpp` 63-113), and instructions inside of the copy
  (libopcodes prints the remaining bytes one by one instead of crossing the
  end). It says nothing of where a symbol lies: an absolute one is outside of its
  section, and `ToSectionEnd` wraps as the unsigned difference does. A decoded
  size may be 0 or -1.
- The copy of a section has `size % IntRange` bytes (line 180 keeps the size in
  32 bits), while the distance to the end of the section is computed from the
  whole size.
- What `bfd_get_section_contents` returns is ignored (line 189). The bytes of a
  section are fixed per image, whichever they are.
- Of a text only what `match_jump` reads is kept: whether a jump mnemonic is in
  it and which number its operand starts with. Because the expression is
  searched in the whole buffer, the fake file is a sequence of texts and the
  first jump in it counts.
- `ToInt` is the conversion of line 92. The bounds `IntRange` and `Top` are
  2^32 and 2^64 - 1 in the program; the proofs hold for all values.
- An address past `Top` is never used: the sections of an image end below it.
- A view of bytes is an offset (`at`) and a size into the `buf`-th copy.
- `run` and `sym` of an entry of the stream are there to speak about it; the
  program does not store them.
- `on_next` calls the subscribers synchronously; here they are the stream. What
  they do with it is `InstructionStream`. A subscriber that throws or calls
  `runDisassembler` is not modelled.

`LinearSweep`, the abstract specification, has the file, the number of the call, whether one is in progress,
and the stream of (call, symbol, address). Its one interesting step emits *the*
next instruction: the one after the last if the sweep of that function goes on,
or else the first of the next function that has one. A call on a file whose
symbols cannot be read is refused (`Refuse`); a call may fail (`Fail`) only before
anything was ever emitted, and one without a disassembler fails at its first
function. `Disassembly` implements it with `running <- pc # "idle"` and the stream
projected; the first loop, the blocks and the copies are stutters.

### How `FakeFile` corresponds to the code

`buffer` and `pos` are the members of `ffile`; `call` and `alloc` are the
arguments and the local of a `ffprintf` under way. `Reset` is lines 203-206,
`Ffprintf` and one action for each way through the loop of 208-233: `Retry`
(the result did not fit), `Return`, `Throw` (`resize` has no memory). A character
is known by the call that printed it and its place, so that a lost, doubled or
stale one shows. `vsnprintf` answers the same length for the same arguments, or -1.
`PrintedText` is implemented with `text <- SubSeq(buffer, 1, pos)` and the call
under way as what was asked: `Ffprintf` is its `Asked`; `Return` its `Printed`,
which appends exactly the output of that call, all of it; `Throw` its `Thrown`,
which appends nothing and happens only when there is no output or no room
(`NoRoom`); `Retry` is a stutter. So a cut tail is no step of it, which
`BugCutOutput` shows.

### How `ExecutableFile` corresponds to the code

An object is a record of its members; `fd` is a place in `files` or 0 for the
null pointer. An origin (`asymbol *`) is a descriptor, one of the three lists and
a place; for a synthetic symbol also the vector it was copied into. So "alive"
can be said: `OriginAlive`, `SectionAlive`.

| Action | Code |
|---|---|
| `Open`, `OpenThrows`, `Wrap` | `open` and the constructors; `open` moves its result, the temporary dies without a descriptor |
| `OpenAborts` | the assertion on a bad target (36-42) ends the program, no destructor runs; with `NDEBUG` the same file goes on to `OpenThrows` |
| `Destroy` | `~disassembler_impl` |
| `MoveConstruct`, `MoveAssign` | both move operations, member by member, those that are moved from themselves included |
| `GetSymbolTable`, `SymbolsThrow` | `getSymbolTable` with `fetchSymbolTable`, `addAlias`, the sort |
| `GenerateTable` | `generate_table` of `main.cpp` and the example |
| `GetSections` | `getSections` with `fetchSections`, sorted the first time only |

The members have the types `ObjectRecord`, `SymbolRecord` and `SectionRecord`.
`FetchSections` and `AddSection` are the loop of `fetchSections` and the search
before a section is added; `AddSymbol` is the body of the loop of `getSymbolTable`.
Both tables are sorted by an instance of `Sorting`: `Rising` by `Addr`, `Falling`
by `Depth`. It inserts one element after another; equal keys keep their order,
which `std::sort` leaves open.

Abstracted: names and flags of symbols, the contents of sections; the order of
sections of equal address (nothing that is stated depends on it). A call that would pass a null pointer to BFD or read what is gone
is excluded by `SymbolsCallable` and `SectionsCallable`: such a call is undefined
behaviour and has no next state. `OpenedFile` is implemented with
`owner <- fd of each object` and the answer as given, except that a symbol does not
say in which copy of the synthetic table it lives (`Uncopied`); it has no caches at
all. Its `IsTableOf` says what a table must be (one symbol for each address, by
address, with the first one read as its origin and the others as aliases in the
order they were read), not how the code makes it.

### How the parser corresponds to the code

A text is a sequence of tokens: `Words`, which a run chooses, and punctuation.
`FindAndConsume` is what `parse_regex` finds at the beginning of a text, with
what each alternative strips; `Pieces` goes on with what is left, as a fold over
the places of the text that skips what was consumed. `Operator` is the greedy
`(.+)(op)(.+)` of the operations, so the last operator splits. `Handle` tries the
cases of `decoder.cpp` 372-449 in their order, with what the parts of the text
are; `handle_expression` is the function on texts that it determines.
`InstructionParser` has a stack of
subscriptions, since what a subscriber does in its callback may be to subscribe
to the same instruction: `Subscribe`, `OnNext` (with the assertion of the
filter), `OnNextIgnored` (before the arguments, or after `first()`),
`OnCompleted`, `OnError` (`first()` of nothing), `Insert` into the captured
table of functions. `EverySubscriberGetsAll` names each argument: the i-th one
given is the symbol of the i-th operand, in a table the subscription may have
seen, and none is missing at the end.

`OperandMeaning` is beside the state machine: `getName` of every class, and
three ways to evaluate. `Written` is the operand as an assembler reads it, with
the usual precedence, which is also the one the comment at `decoder.cpp` 422-425
notes; `Value` is the symbol; `Read` is its printed name. `MeansAsWritten` compares
the first two and is violated (finding 6). `UnmixedMeansAsWritten` is what remains:
operands without products beside sums. `NamesMeanTheSame` compares the last two for
all operands. The module is recursive, and only TLC's runs use it.

### How the mapper corresponds to the code

`factories` is the list, `at` the place of the factory `reduce_instr` is at,
`table` the map of the `SymTable`. `RegisterFactory`, `RemoveFactory`, `OnNext`,
`OnCompleted` are the operations; `CallWithKnownResult`, `CallCreatesResult`,
`CallFails`, `Compare`, `Test`, `FlagsFail`, `JumpAbove`, `JumpNotAbove` and `Skip` are
the branches of the three factories. `RemoveFactory` erases every entry that is
the given pointer: an order-preserving bijection leads from the places that are
left to the old ones. `held`, `env` and `taken` are about the IR, not of the
program: `Execute` runs what was created, assignments and branches in their
order, for every valuation of the operands. A temporary is known by its `id`:
`Fresh`, the number of the instruction and the place of the factory, since each
turn of a factory makes objects of its own (`decompiler.cpp` 569, 624).

`FlagMachine` is implemented with `list <- factories`, `todo <-` the factories the
instruction is still to be given to, and the flags read off that memory. Its
`Next` has no way around an instruction: a factory of comparisons that is given
`cmp` or `test` sets the flags, one of jumps that is given a branch it knows takes
or does not take it, and only what is neither leaves both alone. A comparison or
branch that the mapper loses or repeats is no step of it, as `BugLosesBranch` shows.

`SymTable` keeps the keys as numbers in the order of the strings, because
`find_symbol` returns the first that matches in the order of the map, and the
pairs (part, name) where `std::string::find` succeeds as a constant.

### How `InstructionStream` corresponds to the code

`OnNext` takes the list of the observers and `Deliver` calls them one after
another, as a subject of rxcpp does; `Pass` is an observer that unsubscribed
meanwhile. `Subscribe`, `Unsubscribe`, `runDisassembler`, `runDecompiler` are the
calls of a user. Kinds of observers: `listing` (`main.cpp`, the example), `finder`
and `matcher` (`tests/disassembler.cpp`), `empty` (`runDecompiler`). The
`unsubscribe` of the matcher is applied to a copy of an empty subscription, so it
has no effect and is not an action of the model; what follows from that is
said under the findings. `observers` is what the subject
knows of them (who is active, what was given to whom), `results` what their own
callbacks make of it: the lines of a listing, the index of a matcher. A line
keeps its place in the emitted stream, so that a header can be compared with the
instruction below it.

## Runs

| Run | Instance | Shows |
|---|---|---|
| `disassembly` | 7752 images of one section of four bytes (all divisions into instructions of one or two bytes, up to two jumps to anywhere: in the section, below, behind, no number; three symbol tables) and fifteen layouts with up to three sections (sizes of 0 and -1, symbols outside of their section, a section too large for 32 bits, no disassembler, no symbols); two calls; `FairSpec` | blocks follow the leaders, views, order and texts are right, throws are early, every call returns, and the linear sweep is delivered (`ImplementsPromise`, `DeliversPromise`) |
| `fake_file` | formats of 0 to 3 characters, outputs of 0 to 4 or failing, twelve characters of memory, three calls between two resets | the buffer is the text and NULs, one retry is enough, every call ends, `ImplementsPrintedText` |
| `executable_file` | two objects (symmetric), two calls of `open`, seven files: dynamic, relocatable, damaged, without an upper bound, empty, missing, not an object | who owns a descriptor, what the tables hold, what leaks, `ImplementsOpenedFile` |
| `instruction_parser` | eleven instructions: sums, products, both, segments, all sizes, comments; two subscriptions inside each other; a table that grows | everyone gets every argument at its place, unmixed operands mean what is written, names mean what the symbols mean |
| `decompiler` | streams of three instructions out of seven, four tables, two lists of factories that change once | temporaries are defined, calls share a result, operands are the functions at their addresses, `InstructionEnds`; no comparison and no branch is lost or wrong (`ImplementsFlagMachine`) |
| `instruction_stream` | two runs over three files, three observers | everyone sees the rest, sequences are found, headers are right |
| `parent_is_own_block` | the layouts, one call | finding: instructions of one function in a block of another |
| `no_duplicate_instruction` | the layouts, one call | finding: one call emits an address twice |
| `bytes_of_instruction` | the layouts, one call | finding: the view begins at other bytes |
| `origins_alive` | as `executable_file` | finding: symbols outlive what they point at |
| `insert_succeeds` | as `decompiler` | finding: the second call fails |
| `means_as_written` | as `instruction_parser` | finding: a sum behind a product is added first |

Bounds of `Disassembly`. `IntRange = 16` and `Top = 31` are small enough that the layouts hold
distances that an `int` gets right, gets wrong and reads as negative, and large
enough that leaders such as -2 are not addresses of code. Two jumps and four bytes are
enough for every way a leader can relate to the instructions: at one, in the
middle of one, below the symbol, at its end, behind it. Two calls show what is
kept from one call to the next.

Bounds of the others. `FakeFile`: an output can be shorter than, as long as and
longer than its format by one and more, three calls leave text of two others
behind, and twelve characters end inside a retry of the third. `ExecutableFile`:
two objects are what a move is between, and two opens what an assignment
overwrites; the tables hold addresses out of order and one address in all three
lists. `Decompiler`: a comparison, a test or call between it and a jump, and the
jump; tables where a function's name contains that of a flag, where the flags are
missing, and where the result is known. `InstructionParser`: three operators in
one operand, which is where precedence and grouping differ. `InstructionStream`:
a sequence that begins twice, is interrupted, and spans two runs.

`CHECK_DEADLOCK FALSE` is set for `Disassembly`, `Decompiler`,
`InstructionParser` and `InstructionStream`, and only there: the user may stop
calling (the bounds on calls end the model), a reduction completes, and a failed
assertion or an unhandled error ends the program.

The runs without fairness check safety. `disassembly` uses `WF_vars(Step)`: once
`runDisassembler` was called, nothing in the library waits for anything, so the
thread goes on as long as it has a next step. `fake_file` uses `WF_vars(Step)` and
`decompiler` `WF_core(Step)` for the same reason: a call of `ffprintf` and a
factory run to their end in the thread that called them. There is no fairness on
the calls themselves.

### Findings

1. `ParentIsOwnBlock`. The cursor advances past a leader only on equality. A jump
   to an address below the symbol puts a leader at the front of the set that no
   instruction reaches; the whole function then goes into
   `basic_block_buffer.back()`, a block of an earlier function (the listing in
   the repository's own `README.md` shows `.plt` entries this way). With no
   earlier block the assertion throws (`EmitThrows`).
2. `NoDuplicateInstruction`. `hasFlags` sees aliases, `getFlags` does not, so
   the range of a function does not end at one that is a function by an alias.
   The quoted assertion belongs to `create_traversal`, which the mapper
   constructs but does not subscribe; subscribed, it would throw.
3. `BytesOfInstruction`. The view is relative to the symbol, the copy to the
   section.
4. `OriginsAlive`. A move constructs `sections`, `symbol_table` and
   `synthetic_symbol_table` from the new object itself, so the copies of the
   synthetic symbols die with the object that was moved from, while the symbols
   that point at them move on.
5. `InsertSucceeds`. `add_symbol` stores a symbol under its address assigned to a
   string, one character; `get_or_create` looks for `"Temporary"`. The second
   `call` of a stream does not find the result of the first, cannot insert its
   own, and the assertion fires.
6. `MeansAsWritten`. `handle_expression` splits at a multiplication before it
   looks for sums, so what stands on both sides of it are sums: `eax*0x8+0x666`
   becomes `eax*(0x8+0x666)`. The comment above it (422-425) says
   multiplication comes before addition; the test of it (`tests/decoder.cpp` 86)
   expects what the code does.

What remains true in spite of them is stated with exactly the condition the code
needs: `BlocksFollowLeaders` and `AscendingStream` (1, 2), `ViewsInsideBuffers` (3),
`OwnerHoldsItsFile` (4), `CallsShareResult` (5), `UnmixedMeansAsWritten` and
`NamesMeanTheSame` (6).

Two more disagreements are visible in the text of the code and have no run. A move
copies `is_valid` and clears `_fd`, so an object that was moved from says it is valid
and has no descriptor (`befa.hpp` 135 and 208 say otherwise); `OwnerIsValid` is the
direction that holds. The matcher of `tests/disassembler.cpp` is to "stop iteration" at a
mnemonic that differs (26), but unsubscribes a copy of an empty subscription, goes on,
and may count a sequence that is not there; `SequencesAreFound` is the direction that
holds. `PROJECT.json` has both as hazards.

## Proofs

`DisassemblyProofs` proves for every set of well-formed images, every number of
calls and every width of `int` and address:

| Theorem | Property |
|---|---|
| `TypeCorrect` | `TypeOK` |
| `ViewsSafe` | `ViewsInsideBuffers` |
| `TextsRight` | `TextIsOfAddress` |
| `StreamAscends` | `AscendingStream` |
| `BlockIds` | `BlockBeginsAtItsId` |
| `BlocksRight` | `BlocksFollowLeaders` |
| `ThrowsEarly` | `ThrowsBeforeFirstInstruction` |
| `SweepsEveryFunction` | `ImplementsPromise` |

Assumptions: `WidthAssumption`, `RunsAssumption`, `ImagesAssumption` (every image
is well-formed), and nothing else.

None of the properties is inductive alone. `SafetyInv` joins them with

- `FetchInv`: while a function is fetched, its symbol has the function flag, the
  size used is at most its real size (`ToInt` never enlarges), its section was
  copied last, and in the first loop `i_size` and the fake file are the answer
  for the address that is next. Without it nothing is known of what is decoded.
- `SweepInv`: the instructions collected are ascending from the address of the
  symbol, end by `offset`, start below `max_offset`, lie in the section and have
  the text of their address. It carries the views and the texts into the stream.
- `FrontierInv`: what this call has emitted lies before what it may emit next.
  Its step from one function to the next rests on `BelowLaterFunctions`: a size
  never reaches beyond the next function, which needs that no function is one by
  an alias only.
- `CursorInv`: as long as no leader has stopped it, the cursor's set is exactly
  the leaders above the last emitted instruction, and that instruction is in the
  last block. `CursorReaches` derives from it that the cursor stands on the next
  instruction if and only if that is a leader.
- `SupportInv`: without a disassembler the stream is empty, and the walk has met no
  function before `sym`, so the one at which `FetchThrows` happens is the first.

Each of these has a step lemma with one case per action; the theorems are
temporal corollaries of `SafetyInvariant`.

`SweepsEveryFunction` is the refinement of `LinearSweep`, and needs to know what
the stream still lacks, which no safety property says:

- `ChainInv`: each instruction the first loop has collected is swept, and ends
  where the next one begins; the last one ends at `offset`.
- `PlaceInv`: while the walk is at `sym`, or its first loop runs, what was emitted
  last in this call is of an earlier function whose sweep is over, and no function
  between them has one (`Before`); in the second loop the last entry of the stream
  is the instruction before `next`, and the sweep ends at `offset`.

`GuardIsSwept` says that the condition of the first loop is exactly the condition
of the sweep; `EmitIsNext`, that what is emitted is what is due; `StepRefines`
maps the two emitting actions to `Emit`, `EmitThrows` and `FetchThrows` to `Fail`,
`RunThrows` to `Refuse`, and all others but the call and its return to a stutter.

`FakeFileProofs` proves for every set of calls (formats and outputs of any length),
every size of the memory and every number of calls:

| Theorem | Property |
|---|---|
| `TypeCorrect` | `TypeOK` |
| `TailIsClean` | `TextThenNuls` |
| `RetriesOnce` | `OneRetrySuffices` |
| `PrintsText` | `ImplementsPrintedText` |

Assumptions: `CallsAssumption`, `BoundsAssumption`. `TextThenNuls` is not inductive:
`resize` keeps what the buffer held behind `pos`, so it must be known that a retry
writes over all of it. `PrintingInv` says so: while a call prints, it either tries
the size of its format and there are only NULs behind the text, or it tries exactly
one more than the size of its output, or `vsnprintf` fails. `PrintsText` is not
liveness: its step lemma maps `Ffprintf` to `Asked`; `Return` to `Printed`, by
comparing the text with the old one and the whole output of the call, character
by character; `Throw` to `Thrown`, because `PrintingInv` says that the size that
did not fit was that of the format or of the output; `Reset` to `Reset`, and
`Retry` to a stutter.

`FoldProofs` and `SortingProofs` are about constants. `FoldLeft` is defined by a
recursive function over sets of places. `IterationExists` shows that there is
such a function for every list, and `FoldSteps` that a fold reaches its value in
`Len(list)` steps, each of which may be used as one step of an argument. The
operator that folds is a `CONSTANT` of the module, so an instance of it
(`AddSymbols`, `AddSections`, the insertion of `Sorting`) has the theorem for its
own operator; the induction rests on `Least`, that a set of naturals has a least
element. `SortSorts` says of every list of different elements with integer keys:
sorted, it has the same elements, each once, by their keys.

`ExecutableFileProofs` proves for every set of files, every set of objects, and
every number of opens and tables:

| Theorem | Property |
|---|---|
| `TypeCorrect` | `TypeOK` |
| `OneOwnerAlways` | `OneOwner` |
| `OwnersAreValid` | `OwnerIsValid` |
| `TablesAscend` | `TableIsWellFormed` |
| `EverySymbolIsKept` | `EverySymbolOnce` |
| `ParentsStayAlive` | `ParentsAlive` |
| `NoStaleCache` | `OwnerHoldsItsFile` |
| `SectionsDescend` | `OwnerSectionsDescend` |
| `OnlyAssignmentLeaks` | `LeaksOnlyByAssignment` |
| `AnswersAreTrue` | `ImplementsOpenedFile` |

Assumptions: `FilesAssumption`, `BoundsAssumption`. None of the invariants holds of
a step alone, because a cache is filled by one call, moved by another and read by
a third. `Inv` says of the objects together who owns which descriptor (`Around`,
`Owners`), and of each of them (`Holds`):

- `ListsOfFile`: the lists of BFD come from one call for one file, and for the
  object's own if it owns one; a move keeps the lists with the object they were
  moved from, which has no file any more.
- `TableOfFile`: the table is that of one file, grouped and sorted by address
  (`IsTable`), and the sections its symbols point at are in the buffer (`Housed`).
- `SectionsOfFile`: no section is in the buffer twice, and each is of the object's
  own file or of none.
- `OrderOfSections`: once the sections were sorted, all of the file are there. The
  code sorts only once, while `getSymbolTable` adds the sections of symbols at any
  time; so the order survives exactly because there is nothing left to add, unless
  a symbol is in a section of no file, which `OwnerSectionsDescend` excludes.

The grouping and the sorting are where `FoldSteps` and `SortSorts` come in:
`Gathered` and the lemmas about `AddSymbol` say what a fold makes of any list.

`AnswersAreTrue` needs a second inductive invariant beside `Inv`. An answer is often
what was remembered several moves ago, and `Inv` says only which symbols are in a
buffer, not that their order, their aliases and their sections are right.
`HonestObjects` says that what an owner remembers is true of its file: a symbol buffer is the
table `OpenedFile` promises, the file whose symbols are remembered can be read, and the
section buffer has sections of the file and of no file only. The steps of the argument:

- `Told`: while the buffer grows, a symbol has the address of all its origins, the
  section of the first, and its origins in the order of the list (`Follows`); it
  is a part of what the fold keeps (`Built`), and sorting does not disturb it.
- `FetchedCopies`, `OriginsCopied`: two readings of a file differ only in the copy
  their synthetic symbols live in, element by element, so a table made from
  one of them is the promised one without the copies (`TableIsTrue`).
- `Changed`: a step without an answer hands descriptors on and keeps the objects
  honest; an object that was moved from has no descriptor, so nothing is asked of
  what it still remembers. `ChangedIsPromised` makes it a step of `Changes`.
- `SymbolsAnswer`, `SymbolsThrowAnswer`, `SectionsAnswer`: each operation answers with
  the truth, whether it reads the file or remembers (`KeysAreTrue` for the table of
  functions), which is a step of `Answers`.

`InstructionStreamProofs` proves for every stream, every number of runs and
observers, and every sequence a test may look for:

| Theorem | Property |
|---|---|
| `TypeCorrect` | `TypeOK` |
| `EveryoneSeesTheRest` | `EverySubscriberSeesTheRest` |
| `SequencesFound` | `SequencesAreFound` |
| `HeadersRight` | `HeadersNameTheInstruction` |

Assumptions: `FilesAssumption`, `BoundsAssumption`, `SequenceAssumption`,
`SeedAssumption`. `Inv` says of every observer (`InOrder`) what it received, up to
the one instruction it still waits for while the subject goes through its list
(`Observed`); that the index of a matcher counts what it received (`Matched`);
and that what a listing compares with is what its last headers say (`Listed`).

`DecompilerProofs` proves for every set of tables, lists of factories, programs
and valuations, and every bound:

| Theorem | Property |
|---|---|
| `TypeCorrect` | `TypeOK` |
| `TemporariesAreDefined` | `TemporariesDefined` |
| `CallsShareTheirResult` | `CallsShareResult` |
| `OperandsAreFunctions` | `FunctionsByAddress` |
| `FlagMachineImplemented` | `ImplementsFlagMachine` |

Assumptions: `BoundsAssumption`, `RegisteredAssumption`, `NamesAssumption`,
`TablesAssumption` and `InstructionsAssumption` are types, and that the
disassembler prints all operands of a mnemonic. The refinement needs two more,
which say what it is about: `FlagsAssumption`, that no symbol of a table is found
as two flags, and `ValuationsAssumption`, that no operand that is compared is a
flag, and that flags and the result of the calls are 0 at first. A table of which
they are false (a function whose name contains `_cf`, and is an operand) has
another meaning as IR than as assembly.

The first four follow from `Inv`, which joins them with two facts. `CallsAgree`
strengthens `CallsShareResult`: what a call defines is what the table holds under
the key of the result, now and forever (`ResultStays`), so that it is what the
next call finds. `Assembled` says that no IR is of an instruction that is still to
come; with it a temporary, whose `id` is that of its turn (`FreshIs`), can only be the
one this turn defined. `FunctionsRight` speaks of the operands
themselves, because the table may have grown since.

For `FlagMachineImplemented`, `Meant` says what the memory of the IR holds in the
meantime: what is compared has the value it had at first (`Watches`), and the
table is still the initial one or that with the result of the calls (`Grown`),
which hides no flag. Each branch of a factory sends between none and four
instructions; `FoldSteps` makes `Execute` on them a chain of single steps, and the
result is compared with the step of the machine, one case per action. `RestIs`
and `DoneIs` say that a branch that ends a turn takes exactly the first factory
off what is still to be done, so no turn is skipped or taken twice; `OtherIs` is
for the turns that leave the flags, `StutterIs` for `FlagsFail`, `CallFails` and
what happens between instructions.

`InstructionParserProofs` proves for every set of words, numerals, instructions
and functions, and every depth of subscriptions:

| Theorem | Property |
|---|---|
| `NeverNull` | every text has a symbol |
| `TypeCorrect` | `TypeOK` |
| `AssertionHolds` | `OperandsHaveSymbols` |
| `SubscribersGetAll` | `EverySubscriberGetsAll` |

Assumptions: `WordsAssumption` (words are no punctuation, registers and numerals
are words), `InstructionsAssumption`, `FunctionsAssumption` (no two functions at
one address), `DepthAssumption`.

`handle_expression` is a recursive function over texts of any length, and nothing
says at first that there is such a function. `HandleLocal` shows that `Handle`
looks only at shorter texts, so there is exactly one function for texts up to each
length (`HandlesExists`, `HandlesUnique`), and together they are one for all
(`SymbolsExist`). `NeverNull` then takes a shortest text without a symbol: its
parts are shorter, so they have symbols, and `create_operation` and
`create_dereference` fail for no other reason, since the expression lets no size
through that has no temporary. The assertion follows at once.

Which arguments a subscriber gets depends on what the expression finds in what
libopcodes prints. `Reads(name, text, k)` says that of a text of a name and `k`
ordinary operands the search finds one piece for the name and one for each
operand, and stands at its end, *whatever follows*; it is proved along the
operands (`ReadsName`, `ReadsOperand`), by `FoldRuns` and `FoldSteps`. `Right` is
the invariant of one subscription: what is left of its input is the part of the
pieces from the place it has seen to, and it got one symbol for each piece after
those it skips, up to as many as were wanted. That the others on the stack keep it
when one goes on, is what `BugSharedInput` breaks. A second invariant, `Given`,
says of each symbol a subscription got that it is that of the piece at its place,
in a table between the first one and the present one; with what `Reads` says of
the pieces of an ordinary instruction it names the operand.

Only model-checked:

- `CallReturns`, `DeliversPromise`, `CallEnds`, `InstructionEnds`: liveness is out of
  the prover's reach.
- `UnmixedMeansAsWritten` and `NamesMeanTheSame`: they are about recursive definitions
  over symbols, and what those compute for every symbol needs an induction over
  data that the prover does not have.

## Plan

In this order; `[x]` is done.

1. [x] `BinaryImage`, `Disassembly`, `LinearSweep`: the disassembler.
2. [x] `DisassemblyProofs`: types, views, texts, order, blocks.
3. [x] `FakeFile`, `PrintedText`.
4. [x] `ExecutableFile`, `OpenedFile`, `SymbolTables`.
5. [x] `Visitors`, `SymTable`, `Decompiler`, `FlagMachine`.
6. [x] `OperandParser`, `InstructionParser`, `OperandMeaning`.
7. [x] `InstructionStream`.
8. [x] `FakeFileProofs`: the buffer and `PrintedText` for all formats and outputs.
9. [x] The refinement of `LinearSweep` by `Disassembly` as a theorem.
10. [x] `InstructionStreamProofs`.
11. [x] `FoldProofs`, `Sorting`, `SortingProofs`, `ExecutableFileProofs`.
12. [x] `DecompilerProofs`, with the refinement of `FlagMachine`.
13. [x] `InstructionParserProofs`.
14. [x] The refinement of `OpenedFile` by `ExecutableFile`.

## Not modelled

- `backward.hpp` (vendored stack traces), `types.hpp` and `range.hpp` (names of
  types at compile time, no state), the build files, and everything libopcodes,
  BFD and rxcpp do inside: their answers are constants of an image or a file, and
  a subject is modelled by how the repository uses it.
- Of `ExecutableFile`: `_syn_sym_table`, the memory BFD allocates for synthetic
  symbols. Line 289 adopts it with `free` as its deleter, so it goes with the next
  one or with the object, also when there were no synthetic symbols and the
  pointer is what BFD left in it; the model has the copies only. Also the static
  `bfd_was_init`; moves of what the disassembler fills (blocks, buffers, fake file,
  subject, mapper). Calls with undefined behaviour: a null descriptor, origins and
  tables that are gone.
- Of the value types: copies, comparisons by name, `getAliases`, whose results nobody
  uses. `successors` of a block is never written by the code.
- Of the mapper: `get_address`, `create_traversal` and `append_traversed_addr`,
  which nothing calls; `DummyInstruction`; the copy of a mapper; `toString`; a change
  of the list of factories from inside a factory or a subscriber of the IR.
  A visitor of definitions cannot be made of a lambda (`DefinesVisitorL` does not
  compile for jumps, which `VisitorsCompile` states), and the default of
  `map_visitable` is not used.
- Of the parser: the properties that say what an operand means speak of `Ordinary`
  operands. Outside are `fs:0x28` without brackets, comments, sizes without a
  temporary and `0xac`, which is taken for a flag; TLC still runs them for
  `OperandsHaveSymbols`. A table or an instruction that dies before a lazy
  subscription to it is undefined behaviour and is outside.
- A `ptr_lock` of an expired pointer, a subscriber that throws, and a call of
  `runDisassembler` from inside one.
- Jumps by signed conditions are treated as by unsigned ones in the table of the
  code; the reference machine says what the code's families mean and no more.
