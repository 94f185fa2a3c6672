--------------------------- MODULE ExecutableFile ---------------------------
(***************************************************************************)
(* ExecutableFile and its base disassembler_impl: opening, moving and      *)
(* destroying files, and the symbols and sections they read once and keep. *)
(*                                                                         *)
(* The move operations hand over some members, forget some, and move some  *)
(* from themselves: the state of an object is therefore kept in full, also *)
(* after something was moved out of it.                                    *)
(***************************************************************************)
EXTENDS SymbolTables

CONSTANTS
  Objects,    \* the places of a program that can hold an ExecutableFile
  Files,      \* the files that can be opened
  MaxOpens,   \* bound on the calls of open
  MaxTables   \* bound on the tables of synthetic symbols copied

VARIABLES
  files,      \* the files opened so far, by descriptor
  closed,     \* the descriptors that were closed
  tables,     \* number of tables of synthetic symbols copied so far
  objs,       \* the living objects and their members
  answer,     \* what the last call returned
  aborted     \* an assertion has ended the program

vars == <<files, closed, tables, objs, answer, aborted>>

ASSUME FilesAssumption  == \A f \in Files : IsFile(f)
ASSUME BoundsAssumption == MaxOpens \in Nat /\ MaxTables \in Nat

-----------------------------------------------------------------------------
(* Objects.  A descriptor is a place in files; 0 is the null pointer.      *)

ObjectRecord ==
  [fd : Nat, is_valid : BOOLEAN,
   sections : Seq(SectionRecord), symbol_table : Seq(Origin), synthetic_symbol_table : Nat,
   section_buffer : Seq(SectionRecord), symbol_buffer : Seq(SymbolRecord),
   sections_sorted : BOOLEAN]

\* The objects after x was put in the place o.
Placed(x, o) == [p \in DOMAIN objs \cup {o} |-> IF p = o THEN x ELSE objs[p]]

NewObject(fd) ==
  [fd |-> fd, is_valid |-> fd # 0,
   sections |-> <<>>, symbol_table |-> <<>>, synthetic_symbol_table |-> 0,
   section_buffer |-> <<>>, symbol_buffer |-> <<>>, sections_sorted |-> FALSE]

None == [by |-> "nobody", to |-> "nothing", threw |-> FALSE, value |-> <<>>]

Asym(origin)    == Asymbols(files[origin.fd], origin.kind)[origin.i]
Addr(symbol)    == Asym(symbol.origin).addr
Vma(section)    == IF section.fd = 0 THEN 0 ELSE files[section.fd].secs[section.s]
Depth(section)  == -Vma(section)

\* The memory a symbol or a section is read from still exists.
TablesAlive     == {0} \cup {objs[o].synthetic_symbol_table : o \in DOMAIN objs}
OriginAlive(x)  == x.fd \notin closed /\ x.table \in TablesAlive
SectionAlive(x) == x.fd \notin closed

-----------------------------------------------------------------------------
Init ==
  /\ files = <<>> /\ closed = {} /\ tables = 0
  /\ objs = <<>> /\ answer = None
  /\ aborted = FALSE

\* Plausible bugs, one for each property of the passing runs.  Each stands
\* before the definition it is a mutation of and is not used by Spec.

\* open: the descriptor is wrapped in a temporary, which is moved into the
\* result and dies without a descriptor.
Open(o, f) ==
  /\ o \notin DOMAIN objs
  /\ Len(files) < MaxOpens
  /\ f.state = "object"
  /\ files' = Append(files, f)
  /\ objs' = Placed(NewObject(Len(files) + 1), o)
  /\ answer' = None
  /\ UNCHANGED <<closed, tables>>

\* The assertion on a target that BFD does not list: no destructor runs.  A
\* build without assertions gets no file from bfd_openr, see OpenThrows.
OpenAborts ==
  /\ aborted' = TRUE
  /\ UNCHANGED <<files, closed, tables, objs, answer>>

\* bfd_openr fails, or the format is not an object and the file is closed.
OpenThrows(f) ==
  /\ Len(files) < MaxOpens
  /\ f.state # "object"
  /\ files' = IF f.state = "other" THEN Append(files, f) ELSE files
  /\ closed' = closed \cup (DOMAIN files' \ DOMAIN files)
  /\ answer' = None
  /\ UNCHANGED <<tables, objs>>

\* The public constructor, with a null pointer.
Wrap(o) ==
  /\ o \notin DOMAIN objs
  /\ objs' = Placed(NewObject(0), o)
  /\ answer' = None
  /\ UNCHANGED <<files, closed, tables>>

\* The null pointer is closed as well.
BugClosesNull(o) ==
  /\ o \in DOMAIN objs
  /\ objs' = [p \in DOMAIN objs \ {o} |-> objs[p]]
  /\ closed' = closed \cup {objs[o].fd}
  /\ answer' = None
  /\ UNCHANGED <<files, tables>>

\* The destructor is left to the compiler.
BugDefaultDestructor(o) ==
  /\ o \in DOMAIN objs
  /\ objs' = [p \in DOMAIN objs \ {o} |-> objs[p]]
  /\ answer' = None
  /\ UNCHANGED <<files, closed, tables>>

\* ~disassembler_impl closes what the object has.
Destroy(o) ==
  /\ o \in DOMAIN objs
  /\ objs' = [p \in DOMAIN objs \ {o} |-> objs[p]]
  /\ closed' = closed \cup ({objs[o].fd} \ {0})
  /\ answer' = None
  /\ UNCHANGED <<files, tables>>

\* rhs._fd is not cleared.
BugKeepsDescriptor(x) == [x EXCEPT !.section_buffer = <<>>, !.symbol_buffer = <<>>]

\* What an object has left after another one was moved out of it: the base
\* forgets only its descriptor, and flags are copied.
MovedFrom(x) == [x EXCEPT !.fd = 0, !.section_buffer = <<>>, !.symbol_buffer = <<>>]

\* The members of the base are moved from the new object itself, which leaves
\* them empty; the lists of BFD stay behind.
MoveConstruct(o, rhs) ==
  /\ o \notin DOMAIN objs
  /\ rhs \in DOMAIN objs
  /\ objs' = [Placed([objs[rhs] EXCEPT !.sections = <<>>, !.symbol_table = <<>>,
                                     !.synthetic_symbol_table = 0], o)
              EXCEPT ![rhs] = MovedFrom(@)]
  /\ answer' = None
  /\ UNCHANGED <<files, closed, tables>>

\* Each vector keeps what it had, as if the assignments were not there.
BugSelfMoved(x) == x

\* A vector that is moved to itself is empty afterwards.
SelfMoved(x) == [x EXCEPT !.sections = <<>>, !.symbol_table = <<>>,
                          !.synthetic_symbol_table = 0]

\* is_valid is not assigned.
BugAssigned(x, y) ==
  [SelfMoved(x) EXCEPT
     !.fd = y.fd, !.sections_sorted = y.sections_sorted,
     !.section_buffer = y.section_buffer, !.symbol_buffer = y.symbol_buffer]

\* x after y was moved into it: the lists of BFD are moved to themselves, the
\* descriptor of x is overwritten.
Assigned(x, y) ==
  [SelfMoved(x) EXCEPT
     !.fd = y.fd, !.is_valid = y.is_valid, !.sections_sorted = y.sections_sorted,
     !.section_buffer = y.section_buffer, !.symbol_buffer = y.symbol_buffer]

\* o and rhs may be the same object.
MoveAssign(o, rhs) ==
  /\ {o, rhs} \subseteq DOMAIN objs
  /\ objs' = IF o = rhs
             THEN [objs EXCEPT ![o] = MovedFrom(SelfMoved(objs[o]))]
             ELSE [objs EXCEPT ![o] = Assigned(objs[o], objs[rhs]),
                               ![rhs] = MovedFrom(objs[rhs])]
  /\ answer' = None
  /\ UNCHANGED <<files, closed, tables>>

-----------------------------------------------------------------------------
(* getSymbolTable, getSections and generate_table.                         *)

\* A Section that is not in the buffer yet is appended.
AddSection(buffer, section) ==
  IF Contains(buffer, section) THEN buffer ELSE Append(buffer, section)

\* Only the first symbol at an address is kept.
BugNoAlias(buffers, origin) ==
  LET section == Section(origin.fd, Asym(origin).sec)
  IN  IF \E k \in DOMAIN buffers.symbols :
           Addr(buffers.symbols[k]) = Asym(origin).addr THEN buffers
      ELSE [symbols  |-> Append(buffers.symbols,
                                [origin |-> origin, parent |-> section, aliases |-> <<>>]),
            sections |-> AddSection(buffers.sections, section)]

\* The section of a new symbol is not looked up in the buffer.
BugNoLookup(buffers, origin) ==
  LET section == Section(origin.fd, Asym(origin).sec)
      same    == {k \in DOMAIN buffers.symbols :
                    Addr(buffers.symbols[k]) = Asym(origin).addr}
  IN  IF same # {}
      THEN [buffers EXCEPT !.symbols[Min(same)].aliases = Append(@, origin)]
      ELSE [symbols  |-> Append(buffers.symbols,
                                [origin |-> origin, parent |-> section, aliases |-> <<>>]),
            sections |-> Append(buffers.sections, section)]

\* One symbol of BFD: an alias of the symbol at its address, or a new symbol
\* in its section, which is found in the buffer or put there.
AddSymbol(buffers, origin) ==
  LET asym    == Asym(origin)
      section == Section(origin.fd, asym.sec)
      same    == {k \in DOMAIN buffers.symbols : Addr(buffers.symbols[k]) = asym.addr}
  IN  IF same # {}
      THEN [buffers EXCEPT !.symbols[Min(same)].aliases = Append(@, origin)]
      ELSE [symbols  |-> Append(buffers.symbols,
                                [origin |-> origin, parent |-> section, aliases |-> <<>>]),
            sections |-> AddSection(buffers.sections, section)]

\* x after fetchSymbolTable: read once, unless there was nothing.
FetchSymbolTable(x) ==
  IF x.symbol_table # <<>> \/ NoStorage(files[x.fd]) THEN x
  ELSE LET synthetic == IF files[x.fd].synthetic = <<>> THEN 0 ELSE tables + 1
       IN  [x EXCEPT !.symbol_table = Fetched(files[x.fd], x.fd, synthetic),
                     !.synthetic_symbol_table = synthetic]

Rising  == INSTANCE Sorting WITH Key <- Addr
Falling == INSTANCE Sorting WITH Key <- Depth

\* Sorted as the comment above the sort says.
BugDescending(buffer) == Reverse(Rising!Sorted(buffer))

ByAddress(buffer) == Rising!Sorted(buffer)

\* x after getSymbolTable.
ReadSymbols(x) ==
  IF x.symbol_buffer # <<>> THEN x
  ELSE LET fetched == FetchSymbolTable(x)
           built   == FoldLeft(AddSymbol, [symbols |-> <<>>, sections |-> x.section_buffer],
                               fetched.symbol_table)
       IN  [fetched EXCEPT
              !.symbol_buffer  = ByAddress(built.symbols),
              !.section_buffer = built.sections]

\* x after fetchSections.
FetchSections(x) ==
  IF x.sections # <<>> THEN x ELSE [x EXCEPT !.sections = FetchedSections(files[x.fd], x.fd)]

\* The sections are sorted before those that were just read are added.
BugSortedBefore(x) ==
  LET fetched == FetchSections(x)
  IN  [fetched EXCEPT
         !.section_buffer  = FoldLeft(AddSection, Falling!Sorted(@), fetched.sections),
         !.sections_sorted = TRUE]

\* A buffer that is not empty is taken for complete, as by getSymbolTable.
BugBufferIsComplete(x) ==
  IF x.section_buffer # <<>> THEN x
  ELSE LET fetched == FetchSections(x)
       IN  [fetched EXCEPT !.section_buffer = Falling!Sorted(fetched.sections),
                           !.sections_sorted = TRUE]

\* x after getSections; sorted by the first call only.
ReadSections(x) ==
  LET fetched == FetchSections(x)
      all     == FoldLeft(AddSection, x.section_buffer, fetched.sections)
  IN  [fetched EXCEPT
         !.section_buffer  = IF x.sections_sorted THEN all ELSE Falling!Sorted(all),
         !.sections_sorted = TRUE]

\* An object may be asked if it has a descriptor, or what it once read and
\* is still there: without either BFD would be called with a null pointer.
SymbolsCallable(x) ==
  x.fd = 0 /\ x.symbol_buffer = <<>> =>
    /\ x.symbol_table # <<>>
    /\ \A r \in Range(x.symbol_table) : OriginAlive(r)
SectionsCallable(x) ==
  x.fd = 0 =>
    /\ x.sections # <<>>
    /\ \A s \in Range(x.sections \o x.section_buffer) : SectionAlive(s)

Throws(x) == x.symbol_buffer = <<>> /\ x.symbol_table = <<>> /\ FetchFails(files[x.fd])

Answer(o, q, value) == [by |-> o, to |-> q, threw |-> FALSE, value |-> value]

GetSymbolTable(o) ==
  /\ o \in DOMAIN objs
  /\ SymbolsCallable(objs[o])
  /\ ~Throws(objs[o])
  /\ objs' = [objs EXCEPT ![o] = ReadSymbols(@)]
  /\ tables' = Max({tables, objs'[o].synthetic_symbol_table})
  /\ tables' <= MaxTables
  /\ answer' = Answer(o, "symbols", objs'[o].symbol_buffer)
  /\ UNCHANGED <<files, closed>>

\* The first symbol for each address.
ByKey(buffer) ==
  [a \in {Addr(s) : s \in Range(buffer)} |->
     buffer[Min({k \in DOMAIN buffer : Addr(buffer[k]) = a})]]

\* A table of functions by address, made of what getSymbolTable returns: the
\* address of each symbol is read from its origin.
GenerateTable(o) ==
  /\ o \in DOMAIN objs
  /\ SymbolsCallable(objs[o])
  /\ \A s \in Range(objs[o].symbol_buffer) : OriginAlive(s.origin)
  /\ ~Throws(objs[o])
  /\ objs' = [objs EXCEPT ![o] = ReadSymbols(@)]
  /\ tables' = Max({tables, objs'[o].synthetic_symbol_table})
  /\ tables' <= MaxTables
  /\ answer' = Answer(o, "table", ByKey(objs'[o].symbol_buffer))
  /\ UNCHANGED <<files, closed>>

\* fetchSymbolTable throws before anything is changed.
SymbolsThrow(o, q) ==
  /\ o \in DOMAIN objs
  /\ objs[o].fd # 0
  /\ Throws(objs[o])
  /\ answer' = [Answer(o, q, <<>>) EXCEPT !.threw = TRUE]
  /\ UNCHANGED <<files, closed, tables, objs>>

GetSections(o) ==
  /\ o \in DOMAIN objs
  /\ SectionsCallable(objs[o])
  /\ objs' = [objs EXCEPT ![o] = ReadSections(@)]
  /\ answer' = Answer(o, "sections", objs'[o].section_buffer)
  /\ UNCHANGED <<files, closed, tables>>

Call ==
  \/ \E f \in Files : OpenThrows(f) \/ \E o \in Objects : Open(o, f)
  \/ \E o \in Objects :
       \/ Wrap(o) \/ Destroy(o)
       \/ GetSymbolTable(o) \/ GenerateTable(o) \/ GetSections(o)
       \/ \E q \in {"symbols", "table"} : SymbolsThrow(o, q)
       \/ \E rhs \in Objects : MoveConstruct(o, rhs) \/ MoveAssign(o, rhs)

\* Nothing comes after an abort.
Ended == aborted /\ UNCHANGED vars

Next ==
  \/ /\ ~aborted
     /\ \/ Call /\ UNCHANGED aborted
        \/ OpenAborts
  \/ Ended

Spec == Init /\ [][Next]_vars

-----------------------------------------------------------------------------
(* Properties.                                                             *)

Owned == {objs[o].fd : o \in DOMAIN objs} \ {0}

\* Every variable has its type, and what objects point at was once there.
TypeOK ==
  /\ files \in Seq(Files) /\ Len(files) <= MaxOpens
  /\ closed \subseteq DOMAIN files
  /\ tables \in 0 .. MaxTables
  /\ DOMAIN objs \subseteq Objects /\ objs \in [DOMAIN objs -> ObjectRecord]
  /\ \A o \in DOMAIN objs : LET x == objs[o] IN
       /\ x.fd \in {0} \cup DOMAIN files
       /\ x.synthetic_symbol_table \in 0 .. tables
       /\ \A i \in DOMAIN x.symbol_table : x.symbol_table[i].fd \in DOMAIN files
  /\ answer.by \in Objects \cup {"nobody"} /\ answer.threw \in BOOLEAN
  /\ answer.to \in {"nothing", "symbols", "table", "sections"}
  /\ aborted \in BOOLEAN

\* A descriptor has at most one owner, and is open as long as it has one: no
\* sequence of moves makes two destructors close it, or leaves an object with
\* a descriptor that another one closed.
OneOwner ==
  /\ Owned \cap closed = {}
  /\ \A o, p \in DOMAIN objs : objs[o].fd = objs[p].fd /\ objs[o].fd # 0 => o = p

\* The public flag never denies a descriptor the object has, however the
\* object was filled.
OwnerIsValid == \A o \in DOMAIN objs : objs[o].fd # 0 => objs[o].is_valid

\* The table of every object, moved or not, has one symbol for each address
\* and is in ascending order (which the disassembler takes for granted).
TableIsWellFormed ==
  \A o \in DOMAIN objs : LET buffer == objs[o].symbol_buffer IN
    \A j, k \in DOMAIN buffer : j < k => Addr(buffer[j]) < Addr(buffer[k])

\* What BFD calls one symbol: the origin, whichever table it was copied to.
Place(origin)     == [origin EXCEPT !.table = 0]
OriginsOf(symbol) == <<symbol.origin>> \o symbol.aliases

\* No symbol of BFD is lost or doubled: the origins and aliases of a table
\* are the symbols its file has, each once, whenever it was read and
\* whoever has it now.
EverySymbolOnce ==
  \A o \in DOMAIN objs : LET buffer == objs[o].symbol_buffer IN
    /\ \A j \in DOMAIN buffer : IsInjective(OriginsOf(buffer[j]))
    /\ \A j, k \in DOMAIN buffer : j # k =>
         Range(OriginsOf(buffer[j])) \cap Range(OriginsOf(buffer[k])) = {}
    /\ buffer # <<>> =>
         LET fd == buffer[1].origin.fd
         IN  {Place(r) : r \in UNION {Range(OriginsOf(s)) : s \in Range(buffer)}}
               = {Place(r) : r \in Range(Fetched(files[fd], fd, 0))}

\* The parent of every symbol is alive as long as its own object is: one
\* Section for each asection, in the same object as the symbol.
ParentsAlive ==
  \A o \in DOMAIN objs :
    /\ IsInjective(objs[o].section_buffer)
    /\ \A s \in Range(objs[o].symbol_buffer) : Contains(objs[o].section_buffer, s.parent)

\* An object with a descriptor has nothing of another file in its lists and
\* buffers, whatever it was before: assignments leave no stale cache.
OwnerHoldsItsFile ==
  \A o \in DOMAIN objs : LET x == objs[o] IN x.fd # 0 =>
    /\ \A r \in Range(x.symbol_table) : r.fd = x.fd
    /\ \A s \in Range(x.symbol_buffer) : s.origin.fd = x.fd
    /\ \A s \in Range(x.sections \o x.section_buffer) : s.fd \in {0, x.fd}

\* The sections an owner returns are in descending order, although they are
\* sorted once and added by two operations, if every symbol lies in a section
\* that fetchSections lists.
OwnerSectionsDescend ==
  \A o \in DOMAIN objs : LET x == objs[o] IN
    x.fd # 0 /\ x.sections_sorted /\ ForeignSections(files[x.fd]) = {} =>
      \A i, j \in DOMAIN x.section_buffer :
        i < j => Vma(x.section_buffer[i]) >= Vma(x.section_buffer[j])

\* A descriptor only loses its owner by being closed, or by an assignment to
\* the object that has it.
LeaksOnlyByAssignment ==
  [][\A o \in DOMAIN objs :
       LET fd == objs[o].fd IN
       fd # 0 /\ fd \notin Owned' /\ fd \notin closed' =>
         \E rhs \in DOMAIN objs : MoveAssign(o, rhs)]_vars

\* A symbol without the copies its origins may live in.
Uncopied(symbol) ==
  [origin  |-> Place(symbol.origin), parent |-> symbol.parent,
   aliases |-> [i \in DOMAIN symbol.aliases |-> Place(symbol.aliases[i])]]

\* An owner answers what its file holds, in every order of calls and moves.
Promise == INSTANCE OpenedFile WITH
  owner  <- [o \in DOMAIN objs |-> objs[o].fd],
  answer <- IF answer.to \notin {"symbols", "table"} THEN answer
            ELSE [answer EXCEPT !.value =
                   [k \in DOMAIN answer.value |-> Uncopied(answer.value[k])]]

ImplementsOpenedFile == Promise!Spec

-----------------------------------------------------------------------------
(* What the documentation says, and the code does not do.                  *)

\* symbol.hpp: "lifetime of this is bound to lifetime of its bfd counterpart":
\* the symbols of a file with a descriptor have origins that exist.
OriginsAlive ==
  \A o \in DOMAIN objs : objs[o].fd # 0 =>
    \A s \in Range(objs[o].symbol_buffer) : OriginAlive(s.origin)
=============================================================================
