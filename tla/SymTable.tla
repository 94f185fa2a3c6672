------------------------------ MODULE SymTable ------------------------------
(***************************************************************************)
(* llvm::SymTable, the accumulator of the reduction: a map from names to   *)
(* symbols, searched by a part of a symbol's name and by its address.      *)
(* Everything here is constant: the operators take the map as parameter.   *)
(***************************************************************************)
EXTENDS Integers, FiniteSetsExt, Functions, Visitors

CONSTANTS
  PartOf    \* the pairs <<part, name>> where std::string::find succeeds

\* (bfd_vma)-1, the address of every symbol that was not given another one.
NoAddress == -1

\* A symbol is an object: id tells apart the temporaries that factories make,
\* anew in each turn and with the same names; 0 for the others.
Symbol(class, name, id) == [class |-> class, name |-> name, address |-> NoAddress, id |-> id]
Null == Symbol("nullptr", "", 0)

\* Keys are strings.  Here they are numbers in the order of the strings; the
\* string of one character c is 1000 * c, others begin with their first.
KeyOfCharacter(c) == 1000 * c
TemporaryKey      == KeyOfCharacter(84) + 1

\* The first of some keys in the order std::map is iterated.
First(map, keys) == IF keys = {} THEN Null ELSE map[Min(keys)]

\* The symbols a SymbolVisitorL is called for; the result stays false for others.
Visited(map) == {k \in DOMAIN map : Visits(SymbolVisitorL, map[k].class)}

\* find_symbol by name: a symbol whose name only contains the part will do.
FindName(map, part) ==
  First(map, {k \in Visited(map) : <<part, map[k].name>> \in PartOf})

\* find_symbol by address.
FindAddress(map, a) == First(map, {k \in Visited(map) : map[k].address = a})

\* to_map: the first symbol inserted at an address stays, as with find_symbol.
ToMap(map) == [a \in {map[k].address : k \in Visited(map)} |-> FindAddress(map, a)]

\* The name a new symbol is stored under: its address, assigned to a string,
\* is the character of the low byte.
NewKey(symbol) == KeyOfCharacter(symbol.address % 256)

\* The map add_symbol leaves, if emplace succeeds.
Insertable(map, symbol) == NewKey(symbol) \notin DOMAIN map
Inserted(map, symbol) ==
  [k \in DOMAIN map \cup {NewKey(symbol)} |->
     IF k = NewKey(symbol) THEN symbol ELSE map[k]]
=============================================================================
