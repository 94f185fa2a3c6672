----------------------------- MODULE OpenedFile -----------------------------
(***************************************************************************)
(* What a user may rely on: the object that owns the descriptor of a file  *)
(* answers for that file, the same whatever was asked before and however   *)
(* often the file was moved.  No caches and no buffers.  An object without *)
(* a descriptor promises nothing.                                          *)
(***************************************************************************)
EXTENDS SymbolTables

VARIABLES
  files,    \* the files opened so far, by descriptor
  owner,    \* the descriptor of each living object, 0 for none
  answer    \* the last answer: who gave it, to which question

vars == <<files, owner, answer>>

None == [by |-> "nobody", to |-> "nothing", threw |-> FALSE, value |-> <<>>]

\* The addresses at which a file has symbols.
Address(f, r) == Asymbols(f, r.kind)[r.i].addr
AddressesOf(f, fd) == IF NoStorage(f) THEN {} ELSE {Address(f, r) : r \in Range(Fetched(f, fd, 0))}

\* A list of some symbols in the order they are read.
InOrder(list, some) ==
  \A i, j \in DOMAIN some : i < j =>
    \E m, n \in DOMAIN list : m < n /\ list[m] = some[i] /\ list[n] = some[j]

\* The one symbol for the address a: the first that is read there, in its
\* section, and the others as its aliases.
IsSymbolAt(a, symbol, f, fd) ==
  LET all  == Fetched(f, fd, 0)
      here == <<symbol.origin>> \o symbol.aliases
  IN  /\ Range(here) = {r \in Range(all) : Address(f, r) = a}
      /\ InOrder(all, here)
      /\ symbol.parent = Section(fd, Asymbols(f, symbol.origin.kind)[symbol.origin.i].sec)

\* One symbol for each address, by address.
IsTableOf(f, fd, symbols) ==
  LET address == [k \in DOMAIN symbols |-> Address(f, symbols[k].origin)]
  IN  /\ \A j, k \in DOMAIN symbols : j < k => address[j] < address[k]
      /\ Range(address) = AddressesOf(f, fd)
      /\ \A k \in DOMAIN symbols : IsSymbolAt(address[k], symbols[k], f, fd)

Sections(f, fd) == Range(FetchedSections(f, fd))

-----------------------------------------------------------------------------
Init == files = <<>> /\ owner = <<>> /\ answer = None

\* Objects come, go, and hand descriptors over; each file has one owner.
Changes ==
  /\ \/ files' = files
     \/ Len(files') = Len(files) + 1 /\ SubSeq(files', 1, Len(files)) = files
  /\ \A o \in DOMAIN owner' : owner'[o] # 0 =>
       \/ \E p \in DOMAIN owner : owner[p] = owner'[o]
       \/ owner'[o] = Len(files') /\ files' # files
  /\ \A o, p \in DOMAIN owner' : owner'[o] = owner'[p] /\ owner'[o] # 0 => o = p
  /\ answer' = None

\* Symbols and the table of functions by address are determined by the file;
\* of the sections only which they are, each once.
True(ans, f, fd) ==
  /\ ans.threw <=> ans.to # "sections" /\ FetchFails(f)
  /\ ~ans.threw =>
       CASE ans.to = "symbols" -> IsTableOf(f, fd, ans.value)
         [] ans.to = "table" ->
              /\ DOMAIN ans.value = AddressesOf(f, fd)
              /\ \A a \in DOMAIN ans.value : IsSymbolAt(a, ans.value[a], f, fd)
         [] ans.to = "sections" ->
              /\ IsInjective(ans.value)
              /\ Sections(f, fd) \subseteq Range(ans.value)
              /\ Range(ans.value) \subseteq Sections(f, fd) \cup ForeignSections(f)

Answers ==
  /\ \E o \in DOMAIN owner :
       /\ answer'.by = o
       /\ owner[o] # 0 => True(answer', files[owner[o]], owner[o])
  /\ UNCHANGED <<files, owner>>

Next == Changes \/ Answers

Spec == Init /\ [][Next]_vars
=============================================================================
