-------------------------- MODULE DecompilerProofs --------------------------
(***************************************************************************)
(* What the mapper promises for all tables, programs and lists of          *)
(* factories: the types of its state, that its temporaries are defined,    *)
(* that calls share their result, that operands denote functions by their  *)
(* address, and that its stream implements the machine with two flags.     *)
(***************************************************************************)
EXTENDS Decompiler, FiniteSetTheorems, SequenceTheorems, TLAPS

F == INSTANCE FoldProofs WITH Op <- Execute

-----------------------------------------------------------------------------
(* Tables.                                                                 *)

LEMMA Classes ==
  /\ \A s \in Symbols : Visits(SymbolVisitorL, s.class)
  /\ Null \notin Symbols
  /\ \A s \in Symbols \cup {Null} : s.address \in Nat \cup {NoAddress} /\ s.id \in Nat
<1>1. \A s \in Symbols : s.class \in DOMAIN SymbolBases
  BY DEF Symbols
<1>2. "nullptr" \notin DOMAIN SymbolBases
  BY DEF SymbolBases
<1>3. Null.class = "nullptr" /\ Null.address = NoAddress /\ Null.id = 0
  BY DEF Null, Symbol
<1>4. \A s \in Symbols : s.address \in Nat \cup {NoAddress} /\ s.id \in Nat
  BY DEF Symbols
<1>. QED
  BY <1>1, <1>2, <1>3, <1>4, NothingIsMissed

LEMMA VisitedIs ==
  ASSUME NEW map, map \in [DOMAIN map -> Symbols]
  PROVE  Visited(map) = DOMAIN map
BY Classes DEF Visited

LEMMA LeastKey ==
  ASSUME NEW keys, keys \subseteq Nat, keys # {}
  PROVE  Min(keys) \in keys /\ \A k \in keys : Min(keys) <= k
<1>1. \E x \in keys : \A y \in keys : x <= y
  BY F!Least
<1>. QED
  BY <1>1 DEF Min

LEMMA FirstIs ==
  ASSUME NEW map, NEW keys, keys \subseteq DOMAIN map, DOMAIN map \subseteq Nat, keys # {}
  PROVE  \E k \in keys : First(map, keys) = map[k] /\ \A l \in keys : k <= l
BY LeastKey DEF First

\* A least key stays the least when a key is added that is not looked for.
LEMMA SameFirst ==
  ASSUME NEW map, NEW other, NEW keys, keys \subseteq DOMAIN map,
         DOMAIN map \subseteq Nat, \A k \in keys : other[k] = map[k]
  PROVE  First(other, keys) = First(map, keys)
<1>1. CASE keys = {}
  BY <1>1 DEF First
<1>2. CASE keys # {}
  BY <1>2, LeastKey DEF First
<1>. QED
  BY <1>1, <1>2

\* A symbol that is found by a part of its name has it.
LEMMA FindNameIs ==
  ASSUME NEW map, map \in [DOMAIN map -> Lasting], DOMAIN map \subseteq Nat, NEW part
  PROVE  /\ FindName(map, part) \in Lasting \cup {Null}
         /\ FindName(map, part) # Null => <<part, FindName(map, part).name>> \in PartOf
<1>. DEFINE keys == {k \in Visited(map) : <<part, map[k].name>> \in PartOf}
<1>1. keys \subseteq DOMAIN map
  BY DEF Visited
<1>2. CASE keys = {}
  BY <1>2 DEF FindName, First
<1>3. CASE keys # {}
  <2>1. PICK k \in keys : First(map, keys) = map[k]
    <3>. HIDE DEF keys
    <3>. QED
      BY <1>1, <1>3, FirstIs
  <2>. QED
    BY <1>1, <2>1 DEF FindName
<1>. QED
  BY <1>2, <1>3

LEMMA FindAddressIs ==
  ASSUME NEW map, map \in [DOMAIN map -> Lasting], DOMAIN map \subseteq Nat,
         NEW a \in {map[k].address : k \in Visited(map)}
  PROVE  FindAddress(map, a) \in Lasting /\ FindAddress(map, a).address = a
<1>. DEFINE keys == {k \in Visited(map) : map[k].address = a}
<1>1. keys \subseteq DOMAIN map /\ keys # {}
  BY DEF Visited
<1>2. PICK k \in keys : First(map, keys) = map[k]
  <2>. HIDE DEF keys
  <2>. QED
    BY <1>1, FirstIs
<1>. QED
  BY <1>1, <1>2 DEF FindAddress

\* An operand denotes itself, or the symbol with the number as its address.
LEMMA DenotedIs ==
  ASSUME NEW map, map \in [DOMAIN map -> Lasting], DOMAIN map \subseteq Nat,
         NEW operand \in Operands
  PROVE  /\ Denoted(map, operand) \in Lasting
         /\ \/ Denoted(map, operand) = operand.symbol
            \/ Denoted(map, operand).address = operand.addr
<1>. DEFINE addresses == {map[k].address : k \in Visited(map)}
<1>1. DOMAIN ToMap(map) = addresses /\ \A a \in addresses : ToMap(map)[a] = FindAddress(map, a)
  BY DEF ToMap
<1>2. operand.symbol \in Lasting
  BY DEF Operands
<1>3. CASE operand.addr \in addresses
  <2>1. FindAddress(map, operand.addr) \in Lasting /\ FindAddress(map, operand.addr).address = operand.addr
    BY <1>3, FindAddressIs
  <2>. QED
    BY <1>1, <1>3, <2>1 DEF Denoted
<1>4. CASE operand.addr \notin addresses
  BY <1>1, <1>2, <1>4 DEF Denoted
<1>. QED
  BY <1>3, <1>4

-----------------------------------------------------------------------------
(* The table after the result of the calls was added to it.                *)

LEMMA Constants ==
  /\ Zero \in Lasting /\ One \in Lasting /\ ResultOfTheCall \in Lasting
  /\ Zero.name = "0" /\ One.name = "1" /\ ResultOfTheCall.name = "ResultOfTheCall"
  /\ Zero # One /\ Null.id = 0 /\ Null # One /\ Null # Zero /\ Null # ResultOfTheCall
  /\ ResultOfTheCall # One /\ ResultOfTheCall # Zero
  /\ ResultOfTheCall.address = NoAddress
<1>1. {"Immidiate", "SizedTemporary"} \subseteq DOMAIN SymbolBases
  BY DEF SymbolBases
<1>2. \A class \in DOMAIN SymbolBases, name \in Names : Symbol(class, name, 0) \in Lasting
  BY DEF Symbol, Symbols, Lasting, NoAddress
<1>3. Null.class = "nullptr" /\ Null.id = 0
  BY DEF Null, Symbol
<1>4. Zero.class = "Immidiate" /\ One.class = "Immidiate" /\ ResultOfTheCall.class = "SizedTemporary"
  BY DEF Zero, One, ResultOfTheCall, Symbol
<1>5. Zero.name = "0" /\ One.name = "1" /\ ResultOfTheCall.name = "ResultOfTheCall"
  BY DEF Zero, One, ResultOfTheCall, Symbol
<1>6. Zero \in Lasting /\ One \in Lasting /\ ResultOfTheCall \in Lasting
  BY <1>1, <1>2, NamesAssumption, Zenon DEF Zero, One, ResultOfTheCall
<1>7. ResultOfTheCall.address = NoAddress
  BY DEF ResultOfTheCall, Symbol
<1>8. Zero # One
  BY <1>5
<1>. QED
  BY <1>3, <1>4, <1>5, <1>6, <1>7, <1>8

LEMMA LowByte ==
  ASSUME NEW x \in Int
  PROVE  \E q \in Int : x = 256 * q + (x % 256) /\ x % 256 \in 0 .. 255
OBVIOUS

LEMMA NewKeyIs == NewKey(ResultOfTheCall) \in Nat /\ NewKey(ResultOfTheCall) # TemporaryKey
<1>. DEFINE byte == ResultOfTheCall.address % 256
<1>1. ResultOfTheCall.address \in Int
  BY Constants DEF NoAddress
<1>2. byte \in 0 .. 255
  BY <1>1, LowByte
<1>. HIDE DEF byte
<1>3. 1000 * byte \in Nat /\ 1000 * byte # 1000 * 84 + 1
  BY <1>2
<1>. QED
  BY <1>3 DEF NewKey, KeyOfCharacter, TemporaryKey, byte

\* The map grows by one symbol.
LEMMA InsertedIs ==
  ASSUME NEW map, map \in [DOMAIN map -> Lasting], DOMAIN map \subseteq Nat,
         Insertable(map, ResultOfTheCall)
  PROVE  LET other == Inserted(map, ResultOfTheCall)
             key   == NewKey(ResultOfTheCall)
         IN  /\ DOMAIN other = DOMAIN map \cup {key} /\ key \notin DOMAIN map
             /\ \A k \in DOMAIN map : other[k] = map[k]
             /\ other[key] = ResultOfTheCall
             /\ other \in [DOMAIN other -> Lasting] /\ DOMAIN other \subseteq Nat
<1>. DEFINE key   == NewKey(ResultOfTheCall)
            other == Inserted(map, ResultOfTheCall)
<1>1. key \notin DOMAIN map
  BY DEF Insertable
<1>2. other = [k \in DOMAIN map \cup {key} |-> IF k = key THEN ResultOfTheCall ELSE map[k]]
  BY DEF Inserted
<1>. HIDE DEF key, other
<1>3. /\ DOMAIN other = DOMAIN map \cup {key}
      /\ \A k \in DOMAIN map : other[k] = map[k]
      /\ other[key] = ResultOfTheCall
  BY <1>1, <1>2
<1>4. \A k \in DOMAIN other : other[k] \in Lasting
  BY <1>3, Constants
<1>5. other \in [DOMAIN other -> Lasting]
  BY <1>2, <1>4
<1>6. DOMAIN other \subseteq Nat
  BY <1>3, NewKeyIs DEF key
<1>. QED
  BY <1>1, <1>3, <1>5, <1>6 DEF key, other

\* The flags are found as before.
LEMMA InsertedFindName ==
  ASSUME NEW map, map \in [DOMAIN map -> Lasting], DOMAIN map \subseteq Nat,
         Insertable(map, ResultOfTheCall), NEW part \in FlagNames
  PROVE  FindName(Inserted(map, ResultOfTheCall), part) = FindName(map, part)
<1>. DEFINE key   == NewKey(ResultOfTheCall)
            other == Inserted(map, ResultOfTheCall)
            keys  == {k \in DOMAIN map : <<part, map[k].name>> \in PartOf}
<1>1. /\ DOMAIN other = DOMAIN map \cup {key}
      /\ \A k \in DOMAIN map : other[k] = map[k]
      /\ other[key] = ResultOfTheCall
      /\ other \in [DOMAIN other -> Lasting]
  BY InsertedIs
<1>2. <<part, ResultOfTheCall.name>> \notin PartOf
  BY FlagsAssumption, Constants
<1>. HIDE DEF key, other
<1>3. {k \in DOMAIN other : <<part, other[k].name>> \in PartOf} = keys
  BY <1>1, <1>2
<1>4. Visited(map) = DOMAIN map /\ Visited(other) = DOMAIN other
  BY <1>1, VisitedIs DEF Lasting
<1>5. FindName(map, part) = First(map, keys) /\ FindName(other, part) = First(other, keys)
  BY <1>3, <1>4 DEF FindName
<1>6. First(other, keys) = First(map, keys)
  BY <1>1, SameFirst
<1>. QED
  BY <1>5, <1>6 DEF other

\* An operand denotes what it denoted before, or the new symbol.
LEMMA InsertedDenoted ==
  ASSUME NEW map, map \in [DOMAIN map -> Lasting], DOMAIN map \subseteq Nat,
         Insertable(map, ResultOfTheCall), NEW operand
  PROVE  Denoted(Inserted(map, ResultOfTheCall), operand)
           \in {Denoted(map, operand), ResultOfTheCall}
<1>. DEFINE key   == NewKey(ResultOfTheCall)
            other == Inserted(map, ResultOfTheCall)
            a     == operand.addr
            At(m) == {k \in DOMAIN m : m[k].address = a}
<1>1. /\ DOMAIN other = DOMAIN map \cup {key}
      /\ \A k \in DOMAIN map : other[k] = map[k]
      /\ other[key] = ResultOfTheCall
      /\ other \in [DOMAIN other -> Lasting] /\ DOMAIN other \subseteq Nat
  BY InsertedIs
<1>2. Visited(map) = DOMAIN map /\ Visited(other) = DOMAIN other
  BY <1>1, VisitedIs DEF Lasting
<1>. HIDE DEF key, other
<1>3. ASSUME NEW m, Visited(m) = DOMAIN m
      PROVE  Denoted(m, operand) = IF At(m) = {} THEN operand.symbol ELSE First(m, At(m))
  <2>1. /\ DOMAIN ToMap(m) = {m[k].address : k \in DOMAIN m}
        /\ \A b \in DOMAIN ToMap(m) : ToMap(m)[b] = FindAddress(m, b)
    BY <1>3 DEF ToMap
  <2>2. a \in DOMAIN ToMap(m) <=> At(m) # {}
    BY <2>1
  <2>3. FindAddress(m, a) = First(m, At(m))
    BY <1>3 DEF FindAddress
  <2>. QED
    BY <2>1, <2>2, <2>3 DEF Denoted
<1>4. CASE ResultOfTheCall.address # a
  <2>1. At(other) = At(map)
    BY <1>1, <1>4
  <2>2. First(other, At(map)) = First(map, At(map))
    BY <1>1, SameFirst
  <2>. QED
    BY <1>2, <1>3, <2>1, <2>2 DEF other
<1>5. CASE ResultOfTheCall.address = a
  <2>1. At(other) = At(map) \cup {key} /\ At(other) # {}
    BY <1>1, <1>5
  <2>2. PICK k \in At(other) : First(other, At(other)) = other[k] /\ \A l \in At(other) : k <= l
    <3>. HIDE DEF At
    <3>1. At(other) \subseteq DOMAIN other
      BY DEF At
    <3>. QED
      BY <1>1, <2>1, <3>1, FirstIs
  <2>3. CASE k = key
    BY <1>1, <1>2, <1>3, <2>1, <2>2, <2>3 DEF other
  <2>4. CASE k # key
    <3>1. k \in At(map) /\ \A l \in At(map) : k <= l
      BY <2>1, <2>2, <2>4
    <3>2. First(map, At(map)) = map[k]
      <4>1. PICK j \in At(map) : First(map, At(map)) = map[j] /\ \A l \in At(map) : j <= l
        <5>. HIDE DEF At
        <5>1. At(map) \subseteq DOMAIN map
          BY DEF At
        <5>. QED
          BY <3>1, <5>1, FirstIs
      <4>2. j \in Nat /\ k \in Nat /\ j <= k /\ k <= j
        BY <3>1, <4>1
      <4>. QED
        BY <4>1, <4>2
    <3>3. other[k] = map[k] /\ At(map) # {}
      BY <1>1, <3>1
    <3>. QED
      BY <1>2, <1>3, <2>1, <2>2, <3>2, <3>3 DEF other
  <2>. QED
    BY <2>3, <2>4
<1>. QED
  BY <1>4, <1>5

-----------------------------------------------------------------------------
(* The stream.                                                             *)

LEMMA Appended ==
  ASSUME NEW S, NEW s \in Seq(S), NEW t \in Seq(S)
  PROVE  /\ s \o t \in Seq(S) /\ Len(s \o t) = Len(s) + Len(t)
         /\ \A i \in 1 .. Len(s) : (s \o t)[i] = s[i]
         /\ \A k \in 1 .. Len(t) : (s \o t)[Len(s) + k] = t[k]
         /\ \A i \in DOMAIN (s \o t) :
              i \in DOMAIN s \/ \E k \in DOMAIN t : i = Len(s) + k /\ (s \o t)[i] = t[k]
<1>1. s \o t \in Seq(S) /\ Len(s \o t) = Len(s) + Len(t)
  OBVIOUS
<1>2. /\ \A i \in 1 .. Len(s) : (s \o t)[i] = s[i]
      /\ \A k \in 1 .. Len(t) : (s \o t)[Len(s) + k] = t[k]
  OBVIOUS
<1>3. ASSUME NEW i \in DOMAIN (s \o t), i \notin DOMAIN s
      PROVE  \E k \in DOMAIN t : i = Len(s) + k /\ (s \o t)[i] = t[k]
  <2>1. i \in 1 .. (Len(s) + Len(t)) /\ i \notin 1 .. Len(s)
    BY <1>1, <1>3
  <2>2. i - Len(s) \in 1 .. Len(t) /\ i = Len(s) + (i - Len(s))
    BY <2>1
  <2>. QED
    BY <1>2, <2>2
<1>. QED
  BY <1>1, <1>2, <1>3

\* The key calls find their result under.
ResultKey(map) == IF TemporaryKey \in DOMAIN map THEN TemporaryKey ELSE NewKey(ResultOfTheCall)
IsResult(map, s) == ResultKey(map) \in DOMAIN map /\ s = map[ResultKey(map)]

\* Calls give their result to the symbol that is there.
CallsAgree ==
  \A i \in DOMAIN stream :
    stream[i].class = "CallInstruction" => IsResult(table, stream[i].target)

\* The IR is made of the instructions that were reduced.
Assembled == \A i \in DOMAIN stream : stream[i].assembly <= count

\* What FunctionsByAddress says of the two operands of a comparison.
Right(s, operand) ==
  operand.addr # NoAddress =>
    s = operand.symbol \/ (s.class = "Function" /\ s.address = operand.addr)
RightOperands(ir, args) == Right(ir.lhs, args[1]) /\ Right(ir.rhs, args[2])

FunctionsRight ==
  \A i \in DOMAIN stream :
    stream[i].assembly = count /\ stream[i].operator = "lt" => RightOperands(stream[i], instr.args)

LEMMA FunctionsRightIs == FunctionsRight <=> FunctionsByAddress
BY DEF FunctionsRight, FunctionsByAddress, RightOperands, Right

Inv == TypeOK /\ TemporariesDefined /\ CallsAgree /\ Assembled /\ FunctionsRight

\* What a factory may send, so that all this is kept.
Defined(irs) ==
  \A k \in DOMAIN irs : \A s \in getUsedSymbols(irs[k]) :
    s.id # 0 => \E j \in 1 .. k - 1 : s \in getDefinitions(irs[j])

Sound(irs) ==
  /\ irs \in Seq(IRs) /\ Defined(irs)
  /\ \A k \in DOMAIN irs :
       /\ irs[k].assembly = count
       /\ irs[k].class = "CallInstruction" => IsResult(table', irs[k].target)
       /\ irs[k].operator = "lt" => RightOperands(irs[k], instr.args)

\* The table may grow, but the result of the calls stays.
ResultStays == \A s : IsResult(table, s) => IsResult(table', s)

LEMMA EmittedDefined ==
  ASSUME TypeOK, TemporariesDefined, NEW irs, Emit(irs), Sound(irs)
  PROVE  TemporariesDefined'
<1>1. stream \in Seq(IRs) /\ irs \in Seq(IRs) /\ stream' = stream \o irs
  BY DEF TypeOK, Sound, Emit
<1>2. /\ \A i \in 1 .. Len(stream) : stream'[i] = stream[i]
      /\ \A k \in 1 .. Len(irs) : stream'[Len(stream) + k] = irs[k]
      /\ \A i \in DOMAIN stream' :
           i \in DOMAIN stream \/ \E k \in DOMAIN irs : i = Len(stream) + k /\ stream'[i] = irs[k]
  BY <1>1, Appended
<1>3. DOMAIN stream = 1 .. Len(stream) /\ DOMAIN irs = 1 .. Len(irs) /\ Len(stream) \in Nat
  BY <1>1
<1>. SUFFICES ASSUME NEW i \in DOMAIN stream', NEW s \in getUsedSymbols(stream'[i]), s.id # 0
              PROVE  \E j \in 1 .. i - 1 : /\ s \in getDefinitions(stream'[j])
                                          /\ stream'[j].assembly = stream'[i].assembly
  BY DEF TemporariesDefined, getUsedSymbols, getDefinitions
<1>4. CASE i \in DOMAIN stream
  <2>1. stream'[i] = stream[i]
    BY <1>2, <1>3, <1>4
  <2>2. PICK j \in 1 .. i - 1 : /\ s \in getDefinitions(stream[j])
                                /\ stream[j].assembly = stream[i].assembly
    BY <1>4, <2>1 DEF TemporariesDefined
  <2>3. stream'[j] = stream[j]
    BY <1>2, <1>3, <1>4, <2>2
  <2>. QED
    BY <2>1, <2>2, <2>3
<1>5. CASE i \notin DOMAIN stream
  <2>1. PICK k \in DOMAIN irs : i = Len(stream) + k /\ stream'[i] = irs[k]
    BY <1>2, <1>5
  <2>2. PICK j \in 1 .. k - 1 : s \in getDefinitions(irs[j])
    BY <2>1 DEF Sound, Defined
  <2>3. j \in DOMAIN irs /\ Len(stream) + j \in 1 .. i - 1
    BY <1>3, <2>1, <2>2
  <2>4. stream'[Len(stream) + j] = irs[j]
    BY <1>2, <1>3, <2>3
  <2>5. irs[j].assembly = irs[k].assembly
    BY <2>1, <2>3 DEF Sound
  <2>. QED
    BY <2>1, <2>2, <2>3, <2>4, <2>5
<1>. QED
  BY <1>4, <1>5

LEMMA EmittedKeeps ==
  ASSUME Inv, NEW irs, Emit(irs), Sound(irs), ResultStays
  PROVE  TemporariesDefined' /\ CallsAgree' /\ Assembled' /\ FunctionsRight' /\ stream' \in Seq(IRs)
<1>1. stream \in Seq(IRs) /\ irs \in Seq(IRs) /\ stream' = stream \o irs
  BY DEF Inv, TypeOK, Sound, Emit
<1>2. stream' \in Seq(IRs)
  BY <1>1, Appended
<1>3. \A i \in DOMAIN stream' : \/ i \in DOMAIN stream /\ stream'[i] = stream[i]
                                \/ \E k \in DOMAIN irs : stream'[i] = irs[k]
  <2>1. /\ \A i \in 1 .. Len(stream) : stream'[i] = stream[i]
        /\ \A i \in DOMAIN stream' :
             i \in DOMAIN stream \/ \E k \in DOMAIN irs : i = Len(stream) + k /\ stream'[i] = irs[k]
    BY <1>1, Appended
  <2>2. DOMAIN stream = 1 .. Len(stream)
    BY <1>1
  <2>. QED
    BY <2>1, <2>2
<1>4. count' = count /\ instr' = instr /\ count \in Nat
  BY DEF Emit, Inv, TypeOK
<1>5. TemporariesDefined'
  BY EmittedDefined DEF Inv
<1>6. Assembled'
  <2>1. \A k \in DOMAIN irs : irs[k].assembly = count
    BY DEF Sound
  <2>2. \A i \in DOMAIN stream : stream[i].assembly <= count
    BY DEF Inv, Assembled
  <2>. QED
    BY <1>3, <1>4, <2>1, <2>2 DEF Assembled
<1>7. CallsAgree'
  <2>1. \A k \in DOMAIN irs : irs[k].class = "CallInstruction" => IsResult(table', irs[k].target)
    BY DEF Sound
  <2>2. \A i \in DOMAIN stream :
          stream[i].class = "CallInstruction" => IsResult(table', stream[i].target)
    BY DEF Inv, CallsAgree, ResultStays
  <2>. QED
    BY <1>3, <2>1, <2>2 DEF CallsAgree
<1>8. FunctionsRight'
  <2>1. \A k \in DOMAIN irs : irs[k].operator = "lt" => RightOperands(irs[k], instr.args)
    BY DEF Sound
  <2>2. \A i \in DOMAIN stream : stream[i].assembly = count /\ stream[i].operator = "lt"
                                   => RightOperands(stream[i], instr.args)
    BY DEF Inv, FunctionsRight
  <2>. QED
    BY <1>3, <1>4, <2>1, <2>2 DEF FunctionsRight
<1>. QED
  BY <1>2, <1>5, <1>6, <1>7, <1>8

-----------------------------------------------------------------------------
(* What each factory sends.                                                *)

IRClasses == {"CmpInstruction", "BinaryOperation", "UnaryInstruction", "CallInstruction",
             "BranchInstruction"}
Places == Symbols \cup {Null}

\* What an instruction of IR has.
Made(ir, class, target, lhs, operator, rhs) ==
  /\ ir \in IRs /\ ir.class = class /\ ir.operator = operator
  /\ ir.target = target /\ ir.lhs = lhs /\ ir.rhs = rhs /\ ir.assembly = count
  /\ getUsedSymbols(ir) = {lhs, rhs} \ {Null}
  /\ getDefinitions(ir) = IF class = "BranchInstruction" THEN {} ELSE {target}

LEMMA IRIs ==
  ASSUME count \in 1 .. MaxCount, NEW class \in IRClasses, NEW target \in Places,
         NEW lhs \in Places, NEW operator \in Operators, NEW rhs \in Places
  PROVE  Made(IR(class, target, lhs, operator, rhs), class, target, lhs, operator, rhs)
<1>1. IRClasses \subseteq DOMAIN InstructionBases
  BY DEF IRClasses, InstructionBases
<1>. DEFINE ir == IR(class, target, lhs, operator, rhs)
<1>2. ir = [class |-> class, target |-> target, lhs |-> lhs, operator |-> operator, rhs |-> rhs,
            assembly |-> count]
  BY DEF IR
<1>3. ir \in IRs
  BY <1>1, <1>2 DEF IRs, Places
<1>4. /\ ir.class = class /\ ir.operator = operator /\ ir.target = target
      /\ ir.lhs = lhs /\ ir.rhs = rhs /\ ir.assembly = count
  BY <1>2
<1>. HIDE DEF ir
<1>. QED
  BY <1>3, <1>4 DEF getUsedSymbols, getDefinitions, Made, ir

LEMMA MadeIs ==
  ASSUME count \in 1 .. MaxCount, NEW target \in Places, NEW lhs \in Places,
         NEW operator \in Operators, NEW rhs \in Places
  PROVE  /\ Made(Cmp(target, lhs, operator, rhs), "CmpInstruction", target, lhs, operator, rhs)
         /\ Made(Binary(target, lhs, operator, rhs), "BinaryOperation", target, lhs, operator, rhs)
         /\ Made(Unary(target, operator, lhs), "UnaryInstruction", target, lhs, operator, Null)
         /\ Made(Call(target, lhs), "CallInstruction", target, lhs, "call", Null)
         /\ Made(Br(lhs, rhs), "BranchInstruction", Null, lhs, "br", rhs)
<1>1. {"CmpInstruction", "BinaryOperation", "UnaryInstruction", "CallInstruction",
       "BranchInstruction"} \subseteq IRClasses
  BY DEF IRClasses
<1>2. {"call", "br"} \subseteq Operators /\ Null \in Places
  BY DEF Operators, Places
<1>. QED
  BY <1>1, <1>2, IRIs, Zenon DEF Cmp, Binary, Unary, Call, Br

\* While a factory has its turn there is an instruction.
LEMMA TurnIs ==
  ASSUME TypeOK, NEW kind, Turn(kind)
  PROVE  /\ count \in 1 .. MaxCount /\ instr \in Instructions
         /\ table \in [DOMAIN table -> Lasting] /\ DOMAIN table \subseteq Nat
         /\ at \in 1 .. Len(factories)
BY DEF TypeOK, Turn

\* What a factory makes in its turn has a number, and not that of the lasting
\* symbols.
LEMMA FreshIs ==
  ASSUME TypeOK, NEW kind, Turn(kind)
  PROVE  Fresh \in Nat /\ Fresh # 0
<1>1. count - 1 \in Nat /\ MaxFactories \in Nat /\ at \in Nat /\ at # 0
  BY TurnIs, BoundsAssumption DEF Turn, TypeOK
<1>2. \A m, n \in Nat : m * n \in Nat
  OBVIOUS
<1>3. (count - 1) * MaxFactories \in Nat
  BY <1>1, <1>2
<1>. DEFINE before == (count - 1) * MaxFactories
<1>. HIDE DEF before
<1>4. before \in Nat
  BY <1>3 DEF before
<1>5. Fresh = before + at
  BY DEF Fresh, before
<1>. QED
  BY <1>1, <1>4, <1>5

LEMMA ArgIs ==
  ASSUME TypeOK, NEW kind, Turn(kind), NEW k \in 1 .. Len(instr.args)
  PROVE  /\ Arg(k) \in Lasting /\ Right(Arg(k), instr.args[k])
         /\ instr.args[k].symbol \in Lasting
<1>1. /\ instr.args \in Seq(Operands)
      /\ table \in [DOMAIN table -> Lasting] /\ DOMAIN table \subseteq Nat
  BY TurnIs, InstructionsAssumption
<1>2. instr.args[k] \in Operands
  BY <1>1
<1>3. /\ Arg(k) \in Lasting
      /\ Arg(k) = instr.args[k].symbol \/ Arg(k).address = instr.args[k].addr
  BY <1>1, <1>2, DenotedIs DEF Arg
<1>4. Arg(k).address # NoAddress => Arg(k).class = "Function"
  BY <1>3 DEF Lasting, Symbols
<1>5. instr.args[k].symbol \in Lasting
  BY <1>2 DEF Operands
<1>. QED
  BY <1>3, <1>4, <1>5 DEF Right

LEMMA FlagIs ==
  ASSUME TypeOK, NEW part
  PROVE  Flag(part) \in Lasting \cup {Null}
BY FindNameIs DEF TypeOK, Flag

\* Symbols of the table, operands and constants are no temporaries.
LEMMA LastingIs ==
  \A s \in Lasting \cup {Null} : s \in Places /\ s.id = 0
BY Constants DEF Lasting, Places

LEMMA OwnSymbol ==
  ASSUME NEW id \in Nat, NEW name \in {"Temporary", "TempResult", "Temp2Result"}
  PROVE  Symbol("Symbol", name, id) \in Places
<1>1. name \in Names /\ "Symbol" \in DOMAIN SymbolBases
  BY NamesAssumption DEF SymbolBases
<1>. QED
  BY <1>1 DEF Symbol, Symbols, Places, NoAddress

\* One call, given a result that is in the table.
LEMMA CallSound ==
  ASSUME TypeOK, Turn("call"), instr.name = "call", NEW result \in Lasting, IsResult(table', result)
  PROVE  Sound(<<Call(result, Arg(1))>>)
<1>. DEFINE a == Call(result, Arg(1))
<1>1. 1 \in 1 .. Len(instr.args)
  BY TurnIs, InstructionsAssumption
<1>2. Arg(1) \in Lasting
  BY <1>1, ArgIs
<1>3. Made(a, "CallInstruction", result, Arg(1), "call", Null)
  BY <1>2, TurnIs, LastingIs, MadeIs DEF Operators
<1>. HIDE DEF a
<1>4. \A s \in getUsedSymbols(a) : s.id = 0
  BY <1>2, <1>3, LastingIs DEF Made
<1>. QED
  BY <1>3, <1>4 DEF Sound, Defined, Made, a

\* Two comparisons of the operands.
LEMMA CompareSound ==
  ASSUME TypeOK, Turn("compare"), instr.name = "cmp"
  PROVE  Sound(<<Cmp(Flag("_zf"), Arg(1), "eq", Arg(2)), Cmp(Flag("_cf"), Arg(1), "lt", Arg(2))>>)
<1>. DEFINE a == Cmp(Flag("_zf"), Arg(1), "eq", Arg(2))
            b == Cmp(Flag("_cf"), Arg(1), "lt", Arg(2))
<1>1. 1 \in 1 .. Len(instr.args) /\ 2 \in 1 .. Len(instr.args)
  <2>1. Len(instr.args) >= 2 /\ Len(instr.args) \in Nat
    BY TurnIs, InstructionsAssumption
  <2>. QED
    BY <2>1
<1>2. /\ Arg(1) \in Lasting /\ Right(Arg(1), instr.args[1])
      /\ Arg(2) \in Lasting /\ Right(Arg(2), instr.args[2])
  BY <1>1, ArgIs
<1>3. Flag("_zf") \in Places /\ Flag("_cf") \in Places /\ Arg(1) \in Places /\ Arg(2) \in Places
  BY <1>2, FlagIs, LastingIs
<1>4. Made(a, "CmpInstruction", Flag("_zf"), Arg(1), "eq", Arg(2))
  BY <1>3, TurnIs, MadeIs DEF Operators
<1>5. Made(b, "CmpInstruction", Flag("_cf"), Arg(1), "lt", Arg(2))
  BY <1>3, TurnIs, MadeIs DEF Operators
<1>. HIDE DEF a, b
<1>6. \A s \in {Arg(1), Arg(2)} : s.id = 0
  BY <1>2, LastingIs
<1>7. <<a, b>> \in Seq(IRs) /\ Defined(<<a, b>>)
  BY <1>4, <1>5, <1>6 DEF Defined, Made
<1>8. RightOperands(b, instr.args)
  BY <1>2, <1>5 DEF RightOperands, Made
<1>. QED
  BY <1>4, <1>5, <1>7, <1>8 DEF Sound, Made, a, b

\* A temporary, which the three that follow use, and two flags.
LEMMA TestSound ==
  ASSUME TypeOK, Turn("compare"), instr.name = "test"
  PROVE  LET temporary == Symbol("Symbol", "Temporary", Fresh)
         IN  Sound(<<Binary(temporary, Arg(1), "AND", Arg(2)),
                     Unary(Flag("_sf"), "MSB", temporary),
                     Cmp(Flag("_zf"), temporary, "eq", Zero),
                     Unary(Flag("_pf"), "BitwiseXNOR", temporary)>>)
<1>. DEFINE temporary == Symbol("Symbol", "Temporary", Fresh)
            a == Binary(temporary, Arg(1), "AND", Arg(2))
            b == Unary(Flag("_sf"), "MSB", temporary)
            c == Cmp(Flag("_zf"), temporary, "eq", Zero)
            d == Unary(Flag("_pf"), "BitwiseXNOR", temporary)
<1>1. Len(instr.args) >= 2 /\ Len(instr.args) \in Nat
  BY TurnIs, InstructionsAssumption
<1>2. Arg(1) \in Lasting /\ Arg(2) \in Lasting
  <2>1. 1 \in 1 .. Len(instr.args) /\ 2 \in 1 .. Len(instr.args)
    BY <1>1
  <2>. QED
    BY <2>1, ArgIs
<1>3. temporary \in Places
  <2>1. Fresh \in Nat
    BY FreshIs
  <2>. QED
    BY <2>1, OwnSymbol
<1>4. /\ Flag("_zf") \in Places /\ Flag("_sf") \in Places /\ Flag("_pf") \in Places
      /\ Arg(1) \in Places /\ Arg(2) \in Places /\ Zero \in Places
  BY <1>2, FlagIs, LastingIs, Constants
<1>. HIDE DEF temporary
<1>5. {"AND", "MSB", "eq", "BitwiseXNOR"} \subseteq Operators
  BY DEF Operators
<1>6. /\ Made(a, "BinaryOperation", temporary, Arg(1), "AND", Arg(2))
      /\ Made(b, "UnaryInstruction", Flag("_sf"), temporary, "MSB", Null)
      /\ Made(c, "CmpInstruction", Flag("_zf"), temporary, "eq", Zero)
      /\ Made(d, "UnaryInstruction", Flag("_pf"), temporary, "BitwiseXNOR", Null)
  BY <1>3, <1>4, <1>5, TurnIs, MadeIs, Zenon
<1>. HIDE DEF a, b, c, d
<1>. DEFINE irs == <<a, b, c, d>>
<1>7. irs \in Seq(IRs) /\ DOMAIN irs = 1 .. 4
  BY <1>6 DEF Made
<1>8. irs[1] = a /\ \A k \in 1 .. 4 : irs[k] \in {a, b, c, d} /\ (irs[k] = a \/ k > 1)
  OBVIOUS
<1>. HIDE DEF irs
<1>9. \A s \in getUsedSymbols(a) : s.id = 0
  BY <1>2, <1>6, LastingIs DEF Made
<1>10. \A ir \in {b, c, d} : \A s \in getUsedSymbols(ir) : s.id = 0 \/ s = temporary
  BY <1>6, LastingIs, Constants DEF Made
<1>11. temporary \in getDefinitions(a)
  BY <1>6 DEF Made
<1>12. Defined(irs)
  <2>. SUFFICES ASSUME NEW k \in 1 .. 4, NEW s \in getUsedSymbols(irs[k]), s.id # 0
                PROVE  \E j \in 1 .. k - 1 : s \in getDefinitions(irs[j])
    BY <1>7 DEF Defined
  <2>1. irs[k] # a
    BY <1>9
  <2>2. k > 1 /\ s = temporary
    BY <1>8, <1>10, <2>1
  <2>3. 1 \in 1 .. k - 1
    BY <2>2
  <2>. QED
    BY <1>8, <1>11, <2>2, <2>3
<1>13. \A ir \in {a, b, c, d} : /\ ir.assembly = count
                                /\ ir.class # "CallInstruction" /\ ir.operator # "lt"
  BY <1>6 DEF Made
<1>14. Sound(irs)
  BY <1>7, <1>8, <1>12, <1>13 DEF Sound
<1>. QED
  BY <1>14 DEF irs, a, b, c, d, temporary

\* Two conditions, what is made of both, and the branch.
LEMMA JumpSound ==
  ASSUME TypeOK, Turn("jump"), instr.name \in jumps.GT \cup jumps.LE,
         NEW flagValue \in {Zero, One}, NEW operator \in {"AND", "OR"},
         Jump(flagValue, operator)
  PROVE  \E irs : Emit(irs) /\ Sound(irs)
<1>. DEFINE result == Symbol("Symbol", "TempResult", Fresh)
            temp   == Symbol("Symbol", "Temp2Result", Fresh)
            target == instr.args[1].symbol
            a == Cmp(result, Flag("_cf"), "eq", flagValue)
            b == Cmp(temp, Flag("_zf"), "eq", flagValue)
            c == Binary(result, temp, operator, result)
            d == Br(result, target)
            irs == <<a, b, c, d>>
<1>1. Emit(irs)
  BY DEF Jump
<1>2. target \in Lasting
  <2>1. Len(instr.args) >= 1 /\ Len(instr.args) \in Nat
    BY TurnIs, InstructionsAssumption
  <2>2. 1 \in 1 .. Len(instr.args)
    BY <2>1
  <2>. QED
    BY <2>2, ArgIs
<1>3. result \in Places /\ temp \in Places
  <2>1. Fresh \in Nat
    BY FreshIs
  <2>. QED
    BY <2>1, OwnSymbol
<1>4. /\ Flag("_zf") \in Places /\ Flag("_zf").id = 0
      /\ Flag("_cf") \in Places /\ Flag("_cf").id = 0
      /\ flagValue \in Places /\ flagValue.id = 0
      /\ target \in Places /\ target.id = 0
  BY <1>2, FlagIs, LastingIs, Constants
<1>. HIDE DEF result, temp, target
<1>5. "eq" \in Operators /\ operator \in Operators
  BY DEF Operators
<1>6. /\ Made(a, "CmpInstruction", result, Flag("_cf"), "eq", flagValue)
      /\ Made(b, "CmpInstruction", temp, Flag("_zf"), "eq", flagValue)
      /\ Made(c, "BinaryOperation", result, temp, operator, result)
      /\ Made(d, "BranchInstruction", Null, result, "br", target)
  BY <1>3, <1>4, <1>5, TurnIs, MadeIs, Zenon
<1>. HIDE DEF a, b, c, d
<1>7. irs \in Seq(IRs) /\ DOMAIN irs = 1 .. 4
  BY <1>6 DEF Made
<1>8. /\ irs[1] = a /\ irs[2] = b
      /\ \A k \in 1 .. 4 : irs[k] \in {a, b, c, d} /\ (irs[k] \in {a, b} \/ k > 2)
  OBVIOUS
<1>. HIDE DEF irs
<1>9. \A ir \in {a, b} : \A s \in getUsedSymbols(ir) : s.id = 0
  BY <1>4, <1>6 DEF Made
<1>10. \A ir \in {c, d} : \A s \in getUsedSymbols(ir) : s.id = 0 \/ s \in {result, temp}
  BY <1>4, <1>6 DEF Made
<1>11. result \in getDefinitions(a) /\ temp \in getDefinitions(b)
  BY <1>6 DEF Made
<1>12. Defined(irs)
  <2>. SUFFICES ASSUME NEW k \in 1 .. 4, NEW s \in getUsedSymbols(irs[k]), s.id # 0
                PROVE  \E j \in 1 .. k - 1 : s \in getDefinitions(irs[j])
    BY <1>7 DEF Defined
  <2>1. irs[k] \notin {a, b}
    BY <1>9
  <2>2. k > 2 /\ s \in {result, temp}
    BY <1>8, <1>10, <2>1
  <2>3. 1 \in 1 .. k - 1 /\ 2 \in 1 .. k - 1
    BY <2>2
  <2>. QED
    BY <1>8, <1>11, <2>2, <2>3
<1>13. \A ir \in {a, b, c, d} : /\ ir.assembly = count
                                /\ ir.class # "CallInstruction" /\ ir.operator # "lt"
  BY <1>6 DEF Made
<1>14. Sound(irs)
  BY <1>7, <1>8, <1>12, <1>13 DEF Sound
<1>. QED
  BY <1>1, <1>14

-----------------------------------------------------------------------------
(* The invariant.                                                          *)

\* What is left of the list is a list of factories, and not longer.
LEMMA Removed ==
  ASSUME TypeOK, NEW f, RemoveFactory(f)
  PROVE  factories' \in Seq([kind : Kinds]) /\ Len(factories') <= Len(factories)
<1>. DEFINE others == {k \in DOMAIN factories : factories[k] # f}
            n      == Cardinality(others)
<1>1. factories \in Seq([kind : Kinds])
  BY DEF TypeOK
<1>2. IsFiniteSet(1 .. Len(factories)) /\ Cardinality(1 .. Len(factories)) = Len(factories)
  <2>1. Len(factories) \in Nat /\ 1 \in Int
    BY <1>1
  <2>2. /\ IsFiniteSet(1 .. Len(factories))
        /\ Cardinality(1 .. Len(factories)) =
             IF 1 > Len(factories) THEN 0 ELSE Len(factories) - 1 + 1
    <3>1. Len(factories) \in Int
      BY <2>1
    <3>. QED
      BY <2>1, <3>1, FS_Interval, Zenon
  <2>. QED
    BY <2>1, <2>2
<1>3. others \subseteq 1 .. Len(factories)
  BY <1>1
<1>4. n \in Nat /\ n <= Len(factories)
  <2>. HIDE DEF others
  <2>. QED
    BY <1>2, <1>3, FS_Subset, FS_CardinalityType
<1>5. PICK order \in Bijection(1 .. n, others) :
        factories' = [k \in DOMAIN order |-> factories[order[k]]]
  BY DEF RemoveFactory
<1>6. order \in [1 .. n -> others]
  BY <1>5 DEF Bijection, Injection
<1>7. factories' = [k \in 1 .. n |-> factories[order[k]]]
  BY <1>5, <1>6
<1>8. \A k \in 1 .. n : factories[order[k]] \in [kind : Kinds]
  <2>1. \A k \in 1 .. Len(factories) : factories[k] \in [kind : Kinds]
    <3>. DEFINE S == [kind : Kinds]
    <3>1. factories \in Seq(S)
      BY <1>1
    <3>. HIDE DEF S
    <3>2. \A k \in 1 .. Len(factories) : factories[k] \in S
      BY <3>1
    <3>. QED
      BY <3>2 DEF S
  <2>2. \A k \in 1 .. n : order[k] \in 1 .. Len(factories)
    BY <1>3, <1>6, Zenon
  <2>. QED
    BY <2>1, <2>2, Zenon
<1>9. factories' \in [1 .. n -> [kind : Kinds]]
  BY <1>7, <1>8
<1>. HIDE DEF n
<1>10. factories' \in Seq([kind : Kinds]) /\ Len(factories') = n
  <2>. DEFINE S == [kind : Kinds]
  <2>1. factories' \in [1 .. n -> S]
    BY <1>9
  <2>. HIDE DEF S
  <2>2. factories' \in Seq(S) /\ Len(factories') = n
    BY <1>4, <2>1
  <2>. QED
    BY <2>2 DEF S
<1>. QED
  BY <1>4, <1>10

LEMMA Initially == Init => Inv
<1>. SUFFICES ASSUME Init PROVE Inv
  OBVIOUS
<1>1. table \in [DOMAIN table -> Lasting] /\ DOMAIN table \subseteq Nat
  BY TablesAssumption DEF Init
<1>2. factories \in Seq([kind : Kinds]) /\ Len(factories) <= MaxFactories
  BY RegisteredAssumption DEF Init
<1>3. changes = 0 /\ count = 0 /\ at = 0 /\ stream = <<>> /\ status = "running"
  BY DEF Init
<1>4. TypeOK
  BY <1>1, <1>2, <1>3, BoundsAssumption DEF TypeOK
<1>. QED
  BY <1>3, <1>4 DEF Inv, TemporariesDefined, CallsAgree, Assembled, FunctionsRight

\* A factory that sends something keeps all this.
LEMMA EmitKeeps ==
  ASSUME Inv, NEW kind, Turn(kind), NEW irs, Emit(irs), Sound(irs), ResultStays,
         table' \in [DOMAIN table' -> Lasting], DOMAIN table' \subseteq Nat
  PROVE  Inv'
<1>1. TypeOK /\ count \in 1 .. MaxCount /\ at \in 1 .. Len(factories)
  BY TurnIs DEF Inv
<1>2. /\ at' = NextTurn
      /\ UNCHANGED <<factories, changes, count, instr, status>>
  BY DEF Emit
<1>3. at' \in 0 .. Len(factories)
  <2>1. Len(factories) \in Nat
    BY <1>1 DEF TypeOK
  <2>. QED
    BY <1>1, <1>2, <2>1 DEF NextTurn
<1>4. /\ TemporariesDefined' /\ CallsAgree' /\ Assembled' /\ FunctionsRight'
      /\ stream' \in Seq(IRs)
  BY EmittedKeeps
<1>5. TypeOK'
  BY <1>1, <1>2, <1>3, <1>4 DEF TypeOK
<1>. QED
  BY <1>4, <1>5 DEF Inv

LEMMA FactoryStep == Inv /\ Step => Inv'
<1>. SUFFICES ASSUME Inv, Step PROVE Inv'
  OBVIOUS
<1>1. TypeOK /\ table \in [DOMAIN table -> Lasting] /\ DOMAIN table \subseteq Nat
  BY DEF Inv, TypeOK
<1>2. ASSUME UNCHANGED table
      PROVE  /\ ResultStays /\ table' \in [DOMAIN table' -> Lasting] /\ DOMAIN table' \subseteq Nat
  BY <1>1, <1>2 DEF ResultStays
<1>3. ASSUME NEW assertion \in {"insert", "flags"}, Fail(assertion) PROVE Inv'
  BY <1>3 DEF Inv, Fail, TypeOK, TemporariesDefined, CallsAgree, Assembled, FunctionsRight
<1>4. CASE CallWithKnownResult
  <2>1. /\ Turn("call") /\ instr.name = "call" /\ TemporaryKey \in DOMAIN table
        /\ Emit(<<Call(table[TemporaryKey], Arg(1))>>) /\ table' = table
    BY <1>4 DEF CallWithKnownResult
  <2>2. table[TemporaryKey] \in Lasting /\ IsResult(table', table[TemporaryKey])
    BY <1>1, <2>1 DEF IsResult, ResultKey
  <2>3. Sound(<<Call(table[TemporaryKey], Arg(1))>>)
    BY <1>1, <2>1, <2>2, CallSound
  <2>. QED
    BY <1>2, <2>1, <2>3, EmitKeeps
<1>5. CASE CallCreatesResult
  <2>1. /\ Turn("call") /\ instr.name = "call" /\ TemporaryKey \notin DOMAIN table
        /\ Insertable(table, ResultOfTheCall) /\ table' = Inserted(table, ResultOfTheCall)
        /\ Emit(<<Call(ResultOfTheCall, Arg(1))>>)
    BY <1>5 DEF CallCreatesResult
  <2>2. /\ DOMAIN table' = DOMAIN table \cup {NewKey(ResultOfTheCall)}
        /\ NewKey(ResultOfTheCall) \notin DOMAIN table
        /\ table'[NewKey(ResultOfTheCall)] = ResultOfTheCall
        /\ table' \in [DOMAIN table' -> Lasting] /\ DOMAIN table' \subseteq Nat
    BY <1>1, <2>1, InsertedIs
  <2>3. ResultKey(table) = NewKey(ResultOfTheCall) /\ ResultKey(table') = NewKey(ResultOfTheCall)
    BY <2>1, <2>2, NewKeyIs DEF ResultKey
  <2>4. IsResult(table', ResultOfTheCall) /\ ResultStays
    BY <2>2, <2>3 DEF IsResult, ResultStays
  <2>5. Sound(<<Call(ResultOfTheCall, Arg(1))>>)
    BY <1>1, <2>1, <2>4, CallSound, Constants
  <2>. QED
    BY <2>1, <2>2, <2>4, <2>5, EmitKeeps
<1>6. CASE CallFails
  BY <1>3, <1>6 DEF CallFails
<1>7. CASE Compare
  <2>1. Turn("compare") /\ instr.name = "cmp" /\ UNCHANGED table
    BY <1>7 DEF Compare
  <2>. DEFINE irs == <<Cmp(Flag("_zf"), Arg(1), "eq", Arg(2)), Cmp(Flag("_cf"), Arg(1), "lt", Arg(2))>>
  <2>2. Emit(irs)
    BY <1>7 DEF Compare
  <2>3. Sound(irs)
    BY <1>1, <2>1, CompareSound
  <2>. HIDE DEF irs
  <2>. QED
    BY <1>2, <2>1, <2>2, <2>3, EmitKeeps
<1>8. CASE Test
  <2>1. Turn("compare") /\ instr.name = "test" /\ UNCHANGED table
    BY <1>8 DEF Test
  <2>. DEFINE temporary == Symbol("Symbol", "Temporary", Fresh)
              irs == <<Binary(temporary, Arg(1), "AND", Arg(2)),
                       Unary(Flag("_sf"), "MSB", temporary),
                       Cmp(Flag("_zf"), temporary, "eq", Zero),
                       Unary(Flag("_pf"), "BitwiseXNOR", temporary)>>
  <2>2. Emit(irs)
    BY <1>8 DEF Test
  <2>3. Sound(irs)
    BY <1>1, <2>1, TestSound
  <2>. HIDE DEF irs
  <2>. QED
    BY <1>2, <2>1, <2>2, <2>3, EmitKeeps
<1>9. CASE FlagsFail
  BY <1>3, <1>9 DEF FlagsFail
<1>10. CASE JumpAbove
  <2>1. Turn("jump") /\ instr.name \in jumps.GT /\ Jump(Zero, "AND") /\ UNCHANGED table
    BY <1>10 DEF JumpAbove
  <2>2. PICK irs : Emit(irs) /\ Sound(irs)
    BY <1>1, <2>1, JumpSound
  <2>. QED
    BY <1>2, <2>1, <2>2, EmitKeeps
<1>11. CASE JumpNotAbove
  <2>1. Turn("jump") /\ instr.name \in jumps.LE /\ Jump(One, "OR") /\ UNCHANGED table
    BY <1>11 DEF JumpNotAbove
  <2>2. PICK irs : Emit(irs) /\ Sound(irs)
    BY <1>1, <2>1, JumpSound
  <2>. QED
    BY <1>2, <2>1, <2>2, EmitKeeps
<1>12. CASE Skip
  <2>1. PICK kind \in Kinds : Turn(kind)
    BY <1>12 DEF Skip, Kinds
  <2>2. Emit(<<>>) /\ UNCHANGED table
    BY <1>12 DEF Skip
  <2>3. Sound(<<>>)
    BY DEF Sound, Defined
  <2>. QED
    BY <1>2, <2>1, <2>2, <2>3, EmitKeeps
<1>. QED
  BY <1>4, <1>5, <1>6, <1>7, <1>8, <1>9, <1>10, <1>11, <1>12 DEF Step

\* A change of the list, the next instruction, and the end.
LEMMA BetweenStep == Inv /\ Between => Inv'
<1>. SUFFICES ASSUME Inv, Between PROVE Inv'
  OBVIOUS
<1>1. TypeOK
  BY DEF Inv
<1>2. CASE OnCompleted
  BY <1>2 DEF Inv, OnCompleted, TypeOK, TemporariesDefined, CallsAgree, Assembled, FunctionsRight
<1>3. ASSUME NEW i \in Instructions, OnNext(i) PROVE Inv'
  <2>1. /\ instr' = i /\ count' = count + 1 /\ count < MaxCount
        /\ at' = (IF factories = <<>> THEN 0 ELSE 1)
        /\ UNCHANGED <<table, factories, changes, stream, status>>
    BY <1>3 DEF OnNext
  <2>2. TypeOK'
    <3>1. count' \in 0 .. MaxCount /\ count' # 0
      BY <1>1, <2>1, BoundsAssumption DEF TypeOK
    <3>2. at' \in 0 .. Len(factories)
      BY <1>1, <2>1 DEF TypeOK
    <3>. QED
      BY <1>1, <2>1, <3>1, <3>2 DEF TypeOK
  <2>3. \A j \in DOMAIN stream : stream[j].assembly <= count /\ stream[j].assembly \in Nat
    <3>1. \A j \in DOMAIN stream : stream[j] \in IRs
      BY <1>1 DEF TypeOK
    <3>. QED
      BY <3>1 DEF Inv, Assembled, IRs
  <2>4. count \in Nat
    BY <1>1 DEF TypeOK
  <2>5. Assembled' /\ FunctionsRight'
    BY <2>1, <2>3, <2>4 DEF Assembled, FunctionsRight
  <2>6. TemporariesDefined' /\ CallsAgree'
    BY <2>1 DEF Inv, TemporariesDefined, CallsAgree
  <2>. QED
    BY <2>2, <2>5, <2>6 DEF Inv
<1>4. ASSUME NEW list \in Registered, NEW f \in Range(list), RegisterFactory(f) \/ RemoveFactory(f)
      PROVE  Inv'
  <2>1. /\ at = 0 /\ changes < MaxChanges /\ changes' = changes + 1
        /\ UNCHANGED <<table, count, instr, at, stream, status>>
    BY <1>4 DEF RegisterFactory, RemoveFactory, Idle
  <2>2. f \in [kind : Kinds]
    <3>. DEFINE S == [kind : Kinds]
    <3>1. list \in Seq(S)
      BY RegisteredAssumption
    <3>. HIDE DEF S
    <3>2. \A k \in DOMAIN list : list[k] \in S
      BY <3>1
    <3>. QED
      BY <3>2 DEF Range, S
  <2>3. factories' \in Seq([kind : Kinds]) /\ Len(factories') <= MaxFactories
    <3>. DEFINE S == [kind : Kinds]
    <3>1. factories \in Seq(S) /\ Len(factories) <= MaxFactories
      BY <1>1 DEF TypeOK
    <3>2. CASE RegisterFactory(f)
      <4>1. factories' = Append(factories, f) /\ Len(factories) < MaxFactories
        BY <3>2 DEF RegisterFactory
      <4>2. f \in S
        BY <2>2
      <4>. HIDE DEF S
      <4>3. factories' \in Seq(S) /\ Len(factories') = Len(factories) + 1
        BY <3>1, <4>1, <4>2
      <4>4. Len(factories') <= MaxFactories
        BY <3>1, <4>1, <4>3, BoundsAssumption
      <4>. QED
        BY <4>3, <4>4 DEF S
    <3>3. CASE RemoveFactory(f)
      <4>1. factories' \in Seq(S) /\ Len(factories') <= Len(factories)
        BY <1>1, <3>3, Removed
      <4>. HIDE DEF S
      <4>2. Len(factories') <= MaxFactories
        BY <3>1, <4>1, BoundsAssumption
      <4>. QED
        BY <4>1, <4>2 DEF S
    <3>. QED
      BY <1>4, <3>2, <3>3
  <2>4. at' \in 0 .. Len(factories')
    <3>. HIDE DEF Kinds
    <3>1. Len(factories') \in Nat
      BY <2>3
    <3>. QED
      BY <2>1, <3>1
  <2>5. TypeOK'
    <3>1. changes' \in 0 .. MaxChanges
      BY <1>1, <2>1, BoundsAssumption DEF TypeOK
    <3>. QED
      BY <1>1, <2>1, <2>3, <2>4, <3>1 DEF TypeOK
  <2>6. TemporariesDefined' /\ CallsAgree' /\ Assembled' /\ FunctionsRight'
    BY <2>1 DEF Inv, TemporariesDefined, CallsAgree, Assembled, FunctionsRight
  <2>. QED
    BY <2>5, <2>6 DEF Inv
<1>. QED
  BY <1>2, <1>3, <1>4 DEF Between

LEMMA Inductive == Inv /\ [Next]_vars => Inv'
<1>1. ASSUME Inv, UNCHANGED vars PROVE Inv'
  BY <1>1 DEF Inv, vars, core, TypeOK, TemporariesDefined, CallsAgree, Assembled, FunctionsRight
<1>. QED
  BY <1>1, FactoryStep, BetweenStep DEF Next

LEMMA Invariant == Spec => []Inv
BY Initially, Inductive, PTL DEF Spec

-----------------------------------------------------------------------------
(* What the runs check.                                                    *)

\* Every variable keeps its type, and the turn stays in the list, for every
\* number of factories, changes and instructions.
THEOREM TypeCorrect == Spec => []TypeOK
<1>1. Inv => TypeOK
  BY DEF Inv
<1>. QED
  BY <1>1, Invariant, PTL

\* No factory sends IR that uses a temporary before it sends the IR that
\* defines it, and none uses a temporary of another instruction.
THEOREM TemporariesAreDefined == Spec => []TemporariesDefined
<1>1. Inv => TemporariesDefined
  BY DEF Inv
<1>. QED
  BY <1>1, Invariant, PTL

\* However many factories make calls and whatever the table held at first, all
\* calls of a program give their result to one symbol of the table.
THEOREM CallsShareTheirResult == Spec => []CallsShareResult
<1>1. CallsAgree => CallsShareResult
  BY DEF CallsAgree, CallsShareResult, IsResult, Range
<1>2. Inv => CallsShareResult
  BY <1>1 DEF Inv
<1>. QED
  BY <1>2, Invariant, PTL

\* An operand that is the address of a function means that function, also
\* after the table has grown.
THEOREM OperandsAreFunctions == Spec => []FunctionsByAddress
<1>1. Inv => FunctionsByAddress
  BY FunctionsRightIs DEF Inv
<1>. QED
  BY <1>1, Invariant, PTL

-----------------------------------------------------------------------------
(* The meaning of the stream.                                              *)

LEMMA ValueIs ==
  ASSUME NEW memory, NEW s
  PROVE  /\ Value(memory, One) = 1
         /\ s # One /\ s \in DOMAIN memory => Value(memory, s) = memory[s]
         /\ s # One /\ s \notin DOMAIN memory => Value(memory, s) = 0
BY Zenon DEF Value

LEMMA ResultIs ==
  ASSUME NEW x, NEW y
  PROVE  /\ Result("eq", x, y) = Bit(x = y)
         /\ Result("lt", x, y) = Bit(x < y)
         /\ Result("AND", x, y) = And(x, y)
         /\ Result("OR", x, y) = Bit(x # 0 \/ y # 0)
         /\ \A operator \in {"MSB", "BitwiseXNOR", "call"} : Result(operator, x, y) = 0
BY DEF Result

LEMMA BitIs == \A b \in BOOLEAN : Bit(b) = IF b THEN 1 ELSE 0
BY DEF Bit

LEMMA AndBits ==
  ASSUME NEW p \in BOOLEAN, NEW q \in BOOLEAN
  PROVE  And(Bit(q), Bit(p)) = Bit(p /\ q)
<1>1. And(0, 0) = 0 /\ And(0, 1) = 0 /\ And(1, 0) = 0 /\ And(1, 1) = 1
  BY DEF And
<1>. QED
  BY <1>1 DEF Bit

LEMMA OrBits ==
  ASSUME NEW p \in BOOLEAN, NEW q \in BOOLEAN
  PROVE  Bit(Bit(q) # 0 \/ Bit(p) # 0) = Bit(p \/ q)
BY DEF Bit

\* One assignment: the target gets the result, and nothing else changes.
LEMMA Assigned ==
  ASSUME NEW memory, NEW outcomes, NEW ir, ~IsBranch(ir), ir.target # One
  PROVE  \E m : /\ Execute(<<memory, outcomes>>, ir) = <<m, outcomes>>
                /\ Value(m, ir.target) =
                     Result(ir.operator, Value(memory, ir.lhs), Value(memory, ir.rhs))
                /\ \A s : s # ir.target => Value(m, s) = Value(memory, s)
<1>. DEFINE result == Result(ir.operator, Value(memory, ir.lhs), Value(memory, ir.rhs))
            m == [s \in DOMAIN memory \cup {ir.target} |-> IF s = ir.target THEN result ELSE memory[s]]
<1>1. getDefinitions(ir) = {ir.target}
  BY DEF getDefinitions, IsBranch
<1>2. Execute(<<memory, outcomes>>, ir) = <<m, outcomes>>
  BY <1>1 DEF Execute
<1>3. Value(m, ir.target) = result
  <2>. HIDE DEF result
  <2>1. ir.target \in DOMAIN m /\ m[ir.target] = result
    OBVIOUS
  <2>. HIDE DEF m
  <2>. QED
    BY <2>1, ValueIs
<1>4. ASSUME NEW s, s # ir.target PROVE Value(m, s) = Value(memory, s)
  <2>. HIDE DEF result
  <2>1. s \in DOMAIN m <=> s \in DOMAIN memory
    BY <1>4
  <2>2. s \in DOMAIN memory => m[s] = memory[s]
    BY <1>4
  <2>. HIDE DEF m
  <2>. QED
    BY <2>1, <2>2, ValueIs
<1>. HIDE DEF m, result
<1>. QED
  BY <1>2, <1>3, <1>4 DEF result

LEMMA Branched ==
  ASSUME NEW memory, NEW outcomes, NEW ir, IsBranch(ir)
  PROVE  Execute(<<memory, outcomes>>, ir) = <<memory, Append(outcomes, Value(memory, ir.lhs))>>
BY DEF Execute

\* The fold goes through the IR of one factory.
After(state, n, irs) ==
  IF n = 0 THEN state
  ELSE IF n = 1 THEN Execute(state, irs[1])
  ELSE IF n = 2 THEN Execute(Execute(state, irs[1]), irs[2])
  ELSE IF n = 3 THEN Execute(Execute(Execute(state, irs[1]), irs[2]), irs[3])
  ELSE Execute(Execute(Execute(Execute(state, irs[1]), irs[2]), irs[3]), irs[4])

LEMMA AfterFour ==
  ASSUME NEW state, NEW irs
  PROVE  After(state, 4, irs) =
           Execute(Execute(Execute(Execute(state, irs[1]), irs[2]), irs[3]), irs[4])
BY DEF After

LEMMA FoldedIs ==
  ASSUME NEW state, NEW irs, Len(irs) \in 0 .. 4, DOMAIN irs = 1 .. Len(irs)
  PROVE  FoldLeft(Execute, state, irs) = After(state, Len(irs), irs)
<1>1. After(state, 0, irs) = state
  BY DEF After
<1>2. /\ After(state, 1, irs) = Execute(After(state, 0, irs), irs[1])
      /\ After(state, 2, irs) = Execute(After(state, 1, irs), irs[2])
      /\ After(state, 3, irs) = Execute(After(state, 2, irs), irs[3])
      /\ After(state, 4, irs) = Execute(After(state, 3, irs), irs[4])
  BY DEF After
<1>. DEFINE T == [n \in 0 .. 4 |-> {After(state, n, irs)}]
<1>3. state \in T[0]
  BY <1>1
<1>4. \A n \in 1 .. Len(irs) : \A v \in T[n - 1] : Execute(v, irs[n]) \in T[n]
  <2>. SUFFICES ASSUME NEW n \in 1 .. Len(irs)
                PROVE  Execute(After(state, n - 1, irs), irs[n]) = After(state, n, irs)
    OBVIOUS
  <2>1. n = 1 \/ n = 2 \/ n = 3 \/ n = 4
    OBVIOUS
  <2>. QED
    BY <1>2, <2>1
<1>5. F!Folded(state, irs) \in T[Len(irs)]
  <2>1. Len(irs) \in Nat
    OBVIOUS
  <2>. HIDE DEF T
  <2>. QED
    BY <1>3, <1>4, <2>1, F!FoldSteps, Zenon
<1>6. FoldLeft(Execute, state, irs) = F!Folded(state, irs)
  BY Zenon DEF F!Folded, FoldLeft, F!FoldLeft, MapThenFoldSet, F!MapThenFoldSet, Max, F!Max
<1>. QED
  BY <1>5, <1>6

\* What a step adds to the stream is what is executed.
LEMMA LastPart ==
  ASSUME NEW S, NEW s \in Seq(S), NEW t \in Seq(S)
  PROVE  SubSeq(s \o t, Len(s) + 1, Len(s \o t)) = t
<1>1. Len(s \o t) = Len(s) + Len(t) /\ Len(s) \in Nat /\ Len(t) \in Nat /\ s \o t \in Seq(S)
  OBVIOUS
<1>. DEFINE part == SubSeq(s \o t, Len(s) + 1, Len(s \o t))
<1>2. part \in Seq(S) /\ Len(part) = Len(t)
  BY <1>1
<1>3. \A k \in 1 .. Len(t) : part[k] = t[k]
  <2>. SUFFICES ASSUME NEW k \in 1 .. Len(t) PROVE part[k] = t[k]
    OBVIOUS
  <2>1. part[k] = (s \o t)[Len(s) + 1 + k - 1]
    BY <1>1, <1>2
  <2>2. (s \o t)[Len(s) + k] = t[k]
    BY Appended
  <2>3. Len(s) + 1 + k - 1 = Len(s) + k
    BY <1>1
  <2>. QED
    BY <2>1, <2>2, <2>3
<1>. HIDE DEF part
<1>4. part = t
  BY <1>2, <1>3, SeqEqual
<1>. QED
  BY <1>4 DEF part

LEMMA ExecutedIs ==
  ASSUME TypeOK, NEW irs \in Seq(IRs), Len(irs) \in 0 .. 4, stream' = stream \o irs, Execution,
         NEW m, NEW t, After(<<env, taken>>, Len(irs), irs) = <<m, t>>
  PROVE  env' = m /\ taken' = t /\ held' = held
<1>1. stream \in Seq(IRs)
  BY DEF TypeOK
<1>2. SubSeq(stream', Len(stream) + 1, Len(stream')) = irs
  BY <1>1, LastPart
<1>3. DOMAIN irs = 1 .. Len(irs)
  OBVIOUS
<1>4. FoldLeft(Execute, <<env, taken>>, irs) = <<m, t>>
  BY <1>3, FoldedIs
<1>5. /\ env' = FoldLeft(Execute, <<env, taken>>, irs)[1]
      /\ taken' = FoldLeft(Execute, <<env, taken>>, irs)[2]
      /\ held' = held
  BY <1>2 DEF Execution
<1>. QED
  BY <1>4, <1>5

-----------------------------------------------------------------------------
(* The machine with two flags.                                             *)

\* The table is one it can be made of, or that and the result of the calls.
Grown(map) ==
  /\ TemporaryKey \notin DOMAIN map /\ Insertable(map, ResultOfTheCall)
  /\ table = Inserted(map, ResultOfTheCall)

\* What a comparison may look at.
Watched(map) == Compared(map) \cup {ResultOfTheCall}

\* No flag, temporary or call changes what is compared.
Watches(map) ==
  /\ map \in Tables
  /\ table = map \/ Grown(map)
  /\ \A s \in Watched(map) : Value(env, s) = held[s]

Meant == held \in Valuations /\ Value(env, Zero) = 0 /\ \E map \in Tables : Watches(map)

\* The flags stay where they were found at first.
LEMMA FlagStays ==
  ASSUME NEW map \in Tables, table = map \/ Grown(map), NEW part \in FlagNames
  PROVE  Flag(part) = FindName(map, part)
BY TablesAssumption, InsertedFindName DEF Grown, Flag

LEMMA FlagStaysPrimed ==
  ASSUME NEW map \in Tables, table' = map \/ Grown(map)', NEW part \in FlagNames
  PROVE  Flag(part)' = FindName(map, part)
BY TablesAssumption, InsertedFindName DEF Grown, Flag

\* A flag is nothing else.
LEMMA FlagIsFlag ==
  ASSUME NEW map \in Tables, NEW memory \in Valuations, NEW part \in FlagNames
  PROVE  LET flag == FindName(map, part)
         IN  /\ flag \in Lasting \cup {Null} /\ flag # Zero /\ flag # One
             /\ \A s \in Watched(map) : s # flag
             /\ TemporaryKey \in DOMAIN map => map[TemporaryKey] # flag
             /\ \A other \in FlagNames \ {part} : flag = FindName(map, other) => flag = Null
             /\ Value(memory, flag) = 0
<1>. DEFINE flag == FindName(map, part)
<1>1. flag \in Lasting \cup {Null} /\ (flag # Null => <<part, flag.name>> \in PartOf)
  BY TablesAssumption, FindNameIs
<1>2. flag # Zero /\ flag # One
  <2>1. <<part, "0">> \notin PartOf /\ <<part, "1">> \notin PartOf
    BY FlagsAssumption
  <2>. HIDE DEF flag
  <2>. QED
    BY <1>1, <2>1, Constants
<1>. QED
  BY <1>1, <1>2, FlagsAssumption, ValuationsAssumption DEF Watched

\* What is compared is no temporary, and the operands are among it.
LEMMA WatchedIs ==
  ASSUME NEW map \in Tables
  PROVE  \A s \in Watched(map) : s \in Lasting
<1>. SUFFICES ASSUME NEW s \in Compared(map) PROVE s \in Lasting
  BY Constants DEF Watched
<1>1. PICK i \in {j \in Instructions : j.name \in {"cmp", "test"}}, k \in 1 .. 2 :
        s = Denoted(map, i.args[k])
  BY DEF Compared
<1>2. i.args \in Seq(Operands) /\ Len(i.args) >= 2
  BY <1>1, InstructionsAssumption
<1>3. i.args[k] \in Operands
  BY <1>2
<1>. QED
  BY <1>1, <1>3, TablesAssumption, DenotedIs

LEMMA ArgWatched ==
  ASSUME TypeOK, NEW kind, Turn(kind), instr.name \in {"cmp", "test"}, NEW map, Watches(map),
         NEW k \in 1 .. 2
  PROVE  Arg(k) \in Watched(map) /\ Value(env, Arg(k)) = held[Arg(k)]
<1>1. instr \in {j \in Instructions : j.name \in {"cmp", "test"}}
  BY TurnIs
<1>2. Denoted(map, instr.args[k]) \in Compared(map)
  BY <1>1 DEF Compared
<1>3. CASE table = map
  BY <1>2, <1>3 DEF Arg, Watched, Watches
<1>4. CASE Grown(map)
  <2>1. map \in [DOMAIN map -> Lasting] /\ DOMAIN map \subseteq Nat
    BY TablesAssumption DEF Watches
  <2>2. Arg(k) \in {Denoted(map, instr.args[k]), ResultOfTheCall}
    BY <1>4, <2>1, InsertedDenoted DEF Arg, Grown
  <2>. QED
    BY <1>2, <2>2 DEF Watched, Watches
<1>. QED
  BY <1>3, <1>4 DEF Watches

\* Another table or memory will do, if nothing that is looked at differs.
LEMMA MeantStays ==
  ASSUME NEW map, Watches(map), held \in Valuations, held' = held,
         table' = map \/ Grown(map)',
         \A s \in Watched(map) : Value(env', s) = Value(env, s),
         Value(env', Zero) = 0
  PROVE  Meant'
<1>1. map \in Tables /\ \A s \in Watched(map) : Value(env', s) = held'[s]
  BY DEF Watches
<1>2. Watches(map)'
  BY <1>1 DEF Watches
<1>. QED
  BY <1>1, <1>2 DEF Meant

\* What the temporaries of an instruction are not.
LEMMA OwnIs ==
  ASSUME NEW id \in Nat, id # 0, NEW name \in {"Temporary", "TempResult", "Temp2Result"}
  PROVE  LET own == Symbol("Symbol", name, id)
         IN  own.name = name /\ own \notin Lasting /\ own # Null /\ own # Zero /\ own # One
<1>. DEFINE own == Symbol("Symbol", name, id)
<1>1. own.id # 0 /\ own.name = name
  BY DEF Symbol
<1>. HIDE DEF own
<1>2. own \notin Lasting /\ own # Null
  BY <1>1, Constants DEF Lasting
<1>. QED
  BY <1>1, <1>2, Constants DEF own

LEMMA MeantInitially == Init => Meant
<1>. SUFFICES ASSUME Init PROVE Meant
  OBVIOUS
<1>1. PICK map \in Tables : table = map
  BY DEF Init
<1>2. held \in Valuations /\ env = held
  BY DEF Init
<1>3. \A s \in Watched(map) : Value(held, s) = held[s]
  BY <1>2, ValuationsAssumption DEF Watched
<1>4. Value(env, Zero) = 0
  BY <1>2, ValuationsAssumption
<1>5. Watches(map)
  BY <1>1, <1>2, <1>3 DEF Watches
<1>. QED
  BY <1>2, <1>4, <1>5 DEF Meant

\* The flags as the machine sees them, the branches and what is held stay.
FlagsStay ==
  /\ held' = held /\ taken' = taken
  /\ Value(env', Flag("_cf")') = Value(env, Flag("_cf"))
  /\ Value(env', Flag("_zf")') = Value(env, Flag("_zf"))

LEMMA Quiet ==
  ASSUME NEW map, Watches(map), table' = map \/ Grown(map)', held' = held, taken' = taken,
         \A part \in {"_cf", "_zf"} :
           Value(env', FindName(map, part)) = Value(env, FindName(map, part))
  PROVE  FlagsStay
<1>1. \A part \in {"_cf", "_zf"} : part \in FlagNames
  BY DEF FlagNames
<1>2. \A part \in {"_cf", "_zf"} : Flag(part) = FindName(map, part)
  BY <1>1, FlagStays DEF Watches
<1>3. \A part \in {"_cf", "_zf"} : Flag(part)' = FindName(map, part)
  BY <1>1, FlagStaysPrimed DEF Watches
<1>4. Value(env', Flag("_cf")') = Value(env, Flag("_cf")) /\ Value(env', Flag("_zf")') = Value(env, Flag("_zf"))
  BY <1>2, <1>3
<1>. QED
  BY <1>4 DEF FlagsStay

\* No IR was sent.
LEMMA NothingMeant ==
  ASSUME TypeOK, Meant, stream' = stream, table' = table, Execution
  PROVE  Meant' /\ FlagsStay
<1>1. stream' = stream \o <<>> /\ <<>> \in Seq(IRs) /\ Len(<<>>) = 0
  BY DEF TypeOK
<1>2. After(<<env, taken>>, Len(<<>>), <<>>) = <<env, taken>>
  BY <1>1 DEF After
<1>3. env' = env /\ taken' = taken /\ held' = held
  <2>1. Len(<<>>) \in 0 .. 4
    BY <1>1
  <2>. QED
    BY <1>1, <1>2, <2>1, ExecutedIs
<1>4. PICK map : Watches(map)
  BY DEF Meant
<1>5. table' = map \/ Grown(map)'
  BY <1>4 DEF Watches, Grown
<1>. QED
  BY <1>3, <1>4, <1>5, Quiet, MeantStays DEF Meant

\* The result of the calls is 0 and nothing else changes.
LEMMA CallMeant ==
  ASSUME TypeOK, Meant, Execution, Turn("call"), instr.name = "call",
         NEW map, Watches(map), table' = map \/ Grown(map)',
         NEW result \in Lasting, Value(held, result) = 0,
         \A part \in FlagNames : result # FindName(map, part),
         Emit(<<Call(result, Arg(1))>>)
  PROVE  Meant' /\ FlagsStay
<1>. DEFINE a == Call(result, Arg(1))
            irs == <<a>>
<1>0. 1 \in 1 .. Len(instr.args)
  BY TurnIs, InstructionsAssumption
<1>1. Made(a, "CallInstruction", result, Arg(1), "call", Null)
  BY <1>0, ArgIs, TurnIs, LastingIs, MadeIs DEF Operators
<1>. HIDE DEF a
<1>2. irs \in Seq(IRs) /\ Len(irs) = 1 /\ irs[1] = a
  BY <1>1 DEF Made
<1>3. stream' = stream \o irs
  BY DEF Emit, a
<1>. HIDE DEF irs
<1>4. result # One
  <2>1. Value(held, One) = 1
    BY ValueIs
  <2>. QED
    BY <2>1
<1>5. PICK m : /\ Execute(<<env, taken>>, a) = <<m, taken>>
               /\ Value(m, result) = Result("call", Value(env, Arg(1)), Value(env, Null))
               /\ \A s : s # result => Value(m, s) = Value(env, s)
  <2>1. ~IsBranch(a) /\ a.target = result /\ a.operator = "call" /\ a.lhs = Arg(1) /\ a.rhs = Null
    BY <1>1 DEF IsBranch, Made
  <2>. QED
    BY <1>4, <2>1, Assigned
<1>6. Value(m, result) = 0
  BY <1>5, ResultIs
<1>7. After(<<env, taken>>, Len(irs), irs) = <<m, taken>>
  BY <1>2, <1>5 DEF After
<1>8. env' = m /\ taken' = taken /\ held' = held
  <2>1. Len(irs) \in 0 .. 4
    BY <1>2
  <2>. QED
    BY <1>2, <1>3, <1>7, <2>1, ExecutedIs
<1>9. held \in Valuations /\ map \in Tables /\ Value(env, Zero) = 0
  BY DEF Meant, Watches
<1>10. Value(env', Zero) = 0
  BY <1>5, <1>6, <1>8, <1>9
<1>11. ASSUME NEW s \in Watched(map) PROVE Value(env', s) = Value(env, s)
  <2>1. CASE s = result
    <3>1. held[s] = Value(held, s)
      BY <1>9, ValuationsAssumption DEF Watched
    <3>2. Value(env, s) = held[s]
      BY DEF Watches
    <3>. QED
      BY <1>6, <1>8, <2>1, <3>1, <3>2
  <2>2. CASE s # result
    BY <1>5, <1>8, <2>2
  <2>. QED
    BY <2>1, <2>2
<1>12. Meant'
  BY <1>8, <1>9, <1>10, <1>11, MeantStays
<1>13. \A part \in {"_cf", "_zf"} :
         Value(env', FindName(map, part)) = Value(env, FindName(map, part))
  BY <1>5, <1>8 DEF FlagNames
<1>14. FlagsStay
  BY <1>8, <1>13, Quiet
<1>. QED
  BY <1>12, <1>14

\* The instruction of the machine is the one the factories were given, and it
\* is to be given to those that did not have their turn.
Todo == IF at = 0 THEN <<>> ELSE SubSeq(factories, at, Len(factories))
Name == IF count = 0 THEN "none" ELSE instr.name
Args == IF count = 0 THEN <<>> ELSE [k \in DOMAIN instr.args |-> Arg(k)]

LEMMA CurrentIs ==
  ASSUME TypeOK, NEW kind, Turn(kind)
  PROVE  /\ Name = instr.name
         /\ instr.name \in {"cmp", "test"} => Args[1] = Arg(1) /\ Args[2] = Arg(2)
<1>1. count # 0
  BY TurnIs
<1>2. ASSUME instr.name \in {"cmp", "test"} PROVE 1 \in DOMAIN instr.args /\ 2 \in DOMAIN instr.args
  <2>1. instr.args \in Seq(Operands) /\ Len(instr.args) >= 2
    BY <1>2, TurnIs, InstructionsAssumption
  <2>. QED
    BY <2>1
<1>. QED
  BY <1>1, <1>2 DEF Name, Args

\* The rest of a list begins with the place it begins at.
LEMMA RestIs ==
  ASSUME NEW S, NEW list \in Seq(S), NEW k \in 1 .. Len(list)
  PROVE  LET rest == SubSeq(list, k, Len(list))
         IN  /\ rest # <<>> /\ Head(rest) = list[k]
             /\ Tail(rest) = IF k < Len(list) THEN SubSeq(list, k + 1, Len(list)) ELSE <<>>
<1>. DEFINE rest  == SubSeq(list, k, Len(list))
            after == SubSeq(list, k + 1, Len(list))
<1>1. Len(list) \in Nat /\ k \in Nat /\ \A j \in 1 .. Len(list) : list[j] \in S
  OBVIOUS
<1>2. /\ rest \in Seq(S) /\ Len(rest) = Len(list) - k + 1
      /\ \A j \in 1 .. Len(list) - k + 1 : rest[j] = list[j + k - 1]
  BY <1>1
<1>3. CASE k < Len(list)
  <2>1. /\ after \in Seq(S) /\ Len(after) = Len(list) - k
        /\ \A j \in 1 .. Len(list) - k : after[j] = list[j + k]
    BY <1>1, <1>3
  <2>. HIDE DEF rest, after
  <2>2. /\ rest # <<>> /\ Head(rest) = list[k]
        /\ Tail(rest) \in Seq(S) /\ Len(Tail(rest)) = Len(list) - k
        /\ \A j \in 1 .. Len(list) - k : Tail(rest)[j] = list[j + k]
    BY <1>1, <1>2, <1>3
  <2>3. Tail(rest) = after
    BY <1>1, <2>1, <2>2
  <2>. QED
    BY <1>3, <2>2, <2>3 DEF rest, after
<1>4. CASE ~(k < Len(list))
  <2>. HIDE DEF rest
  <2>1. Len(rest) = 1 /\ rest # <<>> /\ Head(rest) = list[k] /\ Tail(rest) = <<>>
    BY <1>1, <1>2, <1>4
  <2>. QED
    BY <1>4, <2>1 DEF rest
<1>. QED
  BY <1>3, <1>4

\* A factory that sends something, or nothing, is done with the instruction.
LEMMA DoneIs ==
  ASSUME TypeOK, NEW kind, Turn(kind), NEW irs, Emit(irs)
  PROVE  /\ Todo # <<>> /\ Head(Todo).kind = kind
         /\ Todo' = Tail(Todo) /\ factories' = factories /\ Name' = Name
<1>1. /\ factories \in Seq([kind : Kinds]) /\ Len(factories) \in Nat
      /\ at \in 1 .. Len(factories) /\ factories[at].kind = kind
  BY TurnIs DEF TypeOK, Turn
<1>2. /\ factories' = factories /\ instr' = instr /\ count' = count
      /\ at' = IF at < Len(factories) THEN at + 1 ELSE 0
  BY DEF Emit, NextTurn
<1>. DEFINE rest == SubSeq(factories, at, Len(factories))
<1>3. /\ rest # <<>> /\ Head(rest) = factories[at]
      /\ Tail(rest) = IF at < Len(factories) THEN SubSeq(factories, at + 1, Len(factories)) ELSE <<>>
  BY <1>1, RestIs
<1>4. Todo = rest
  BY <1>1 DEF Todo
<1>5. Todo' = IF at < Len(factories) THEN SubSeq(factories, at + 1, Len(factories)) ELSE <<>>
  BY <1>1, <1>2 DEF Todo
<1>6. Name' = Name
  BY <1>2 DEF Name
<1>. HIDE DEF rest
<1>. QED
  BY <1>1, <1>2, <1>3, <1>4, <1>5, <1>6

LEMMA ArgsStay ==
  ASSUME table' = table, instr' = instr, count' = count
  PROVE  Name' = Name /\ Args' = Args
BY DEF Name, Args, Arg

\* A comparison sets both flags to what it finds.
LEMMA CompareMeant ==
  ASSUME TypeOK, Meant, Execution, Compare
  PROVE  Meant' /\ Meaning!Compare
<1>. DEFINE cf == Flag("_cf")
            zf == Flag("_zf")
            x  == Arg(1)
            y  == Arg(2)
            a  == Cmp(zf, x, "eq", y)
            b  == Cmp(cf, x, "lt", y)
            irs == <<a, b>>
<1>1. /\ Turn("compare") /\ instr.name = "cmp" /\ Null \notin {zf, cf} /\ table' = table
      /\ Emit(irs)
  BY DEF Compare
<1>2. stream' = stream \o irs /\ instr' = instr /\ count' = count
  BY <1>1 DEF Emit
<1>3. PICK map : Watches(map)
  BY DEF Meant
<1>4. map \in Tables /\ held \in Valuations /\ Value(env, Zero) = 0
  BY <1>3 DEF Meant, Watches
<1>5. /\ x \in Watched(map) /\ Value(env, x) = held[x]
      /\ y \in Watched(map) /\ Value(env, y) = held[y]
  BY <1>1, <1>3, ArgWatched
<1>6. /\ cf = FindName(map, "_cf") /\ zf = FindName(map, "_zf")
      /\ Flag("_cf")' = cf /\ Flag("_zf")' = zf
  <2>1. "_cf" \in FlagNames /\ "_zf" \in FlagNames
    BY DEF FlagNames
  <2>2. cf = FindName(map, "_cf") /\ zf = FindName(map, "_zf")
    BY <1>3, <2>1, FlagStays DEF Watches
  <2>3. Flag("_cf")' = cf /\ Flag("_zf")' = zf
    BY <1>1 DEF Flag
  <2>. QED
    BY <2>2, <2>3
<1>7. /\ cf \in Lasting /\ cf # Zero /\ cf # One /\ \A s \in Watched(map) : s # cf
      /\ zf \in Lasting /\ zf # Zero /\ zf # One /\ \A s \in Watched(map) : s # zf
      /\ cf # zf
  <2>1. "_cf" \in FlagNames /\ "_zf" \in FlagNames \ {"_cf"}
    BY DEF FlagNames
  <2>. HIDE DEF cf, zf
  <2>. QED
    BY <1>1, <1>4, <1>6, <2>1, FlagIsFlag
<1>8. /\ Made(a, "CmpInstruction", zf, x, "eq", y)
      /\ Made(b, "CmpInstruction", cf, x, "lt", y)
  <2>1. cf \in Places /\ zf \in Places /\ x \in Places /\ y \in Places
    BY <1>4, <1>5, <1>7, WatchedIs, LastingIs
  <2>2. {"eq", "lt"} \subseteq Operators
    BY DEF Operators
  <2>. HIDE DEF cf, zf, x, y
  <2>. QED
    BY <1>1, <2>1, <2>2, TurnIs, MadeIs, Zenon
<1>. HIDE DEF a, b
<1>10. irs \in Seq(IRs) /\ Len(irs) = 2 /\ irs[1] = a /\ irs[2] = b /\ Len(irs) \in 0 .. 4
  BY <1>8 DEF Made
<1>. HIDE DEF irs, cf, zf, x, y
<1>11. PICK m1 : /\ Execute(<<env, taken>>, a) = <<m1, taken>>
                 /\ Value(m1, zf) = Result("eq", Value(env, x), Value(env, y))
                 /\ \A s : s # zf => Value(m1, s) = Value(env, s)
  <2>1. ~IsBranch(a) /\ a.target = zf /\ a.operator = "eq" /\ a.lhs = x /\ a.rhs = y
    BY <1>8 DEF IsBranch, Made
  <2>. QED
    BY <1>7, <2>1, Assigned
<1>12. PICK m2 : /\ Execute(<<m1, taken>>, b) = <<m2, taken>>
                 /\ Value(m2, cf) = Result("lt", Value(m1, x), Value(m1, y))
                 /\ \A s : s # cf => Value(m2, s) = Value(m1, s)
  <2>1. ~IsBranch(b) /\ b.target = cf /\ b.operator = "lt" /\ b.lhs = x /\ b.rhs = y
    BY <1>8 DEF IsBranch, Made
  <2>. QED
    BY <1>7, <2>1, Assigned
<1>13. After(<<env, taken>>, Len(irs), irs) = <<m2, taken>>
  BY <1>10, <1>11, <1>12 DEF After
<1>14. env' = m2 /\ taken' = taken /\ held' = held
  BY <1>2, <1>10, <1>13, ExecutedIs
<1>15. Value(env', zf) = Bit(held[x] = held[y]) /\ Value(env', cf) = Bit(held[x] < held[y])
  <2>1. Value(m1, x) = held[x] /\ Value(m1, y) = held[y]
    BY <1>5, <1>7, <1>11
  <2>2. Value(m2, zf) = Value(m1, zf)
    BY <1>7, <1>12
  <2>. QED
    BY <1>5, <1>11, <1>12, <1>14, <2>1, <2>2, ResultIs
<1>16. Meant'
  <2>1. \A s \in Watched(map) : Value(env', s) = Value(env, s)
    BY <1>7, <1>11, <1>12, <1>14
  <2>2. Value(env', Zero) = 0
    BY <1>4, <1>7, <1>11, <1>12, <1>14
  <2>3. table' = map \/ Grown(map)'
    BY <1>1, <1>3 DEF Watches, Grown
  <2>. QED
    BY <1>3, <1>4, <1>14, <2>1, <2>2, <2>3, MeantStays
<1>17. Meaning!Compare
  <2>1. Name = "cmp" /\ Args[1] = x /\ Args[2] = y
    BY <1>1, CurrentIs DEF x, y
  <2>2. Name' = Name /\ Args' = Args
    BY <1>1, <1>2, ArgsStay
  <2>3. Value(env', Flag("_cf")') = Bit(held[Args[1]] < held[Args[2]])
    BY <1>6, <1>15, <2>1
  <2>4. Value(env', Flag("_zf")') = Bit(held[Args[1]] = held[Args[2]])
    BY <1>6, <1>15, <2>1
  <2>5. /\ Todo # <<>> /\ Head(Todo).kind = "compare"
        /\ Todo' = Tail(Todo) /\ factories' = factories
    BY <1>1, DoneIs
  <2>. QED
    BY <1>14, <2>1, <2>2, <2>3, <2>4, <2>5, Zenon
    DEF Meaning!Compare, Meaning!Given, Meaning!Done, Meaning!Bit, Bit, Todo, Name, Args
<1>. QED
  BY <1>16, <1>17

\* A test sets the zero flag to what it finds, and leaves the carry flag.
LEMMA TestMeant ==
  ASSUME TypeOK, Meant, Execution, Test
  PROVE  Meant' /\ Meaning!Test
<1>. DEFINE cf == Flag("_cf")
            zf == Flag("_zf")
            sf == Flag("_sf")
            pf == Flag("_pf")
            x  == Arg(1)
            y  == Arg(2)
            own == Symbol("Symbol", "Temporary", Fresh)
            a  == Binary(own, x, "AND", y)
            b  == Unary(sf, "MSB", own)
            c  == Cmp(zf, own, "eq", Zero)
            d  == Unary(pf, "BitwiseXNOR", own)
            irs == <<a, b, c, d>>
<1>1. /\ Turn("compare") /\ instr.name = "test" /\ Null \notin {zf, sf, pf} /\ table' = table
      /\ Emit(irs)
  BY DEF Test
<1>2. stream' = stream \o irs /\ instr' = instr /\ count' = count
  BY <1>1 DEF Emit
<1>3. PICK map : Watches(map)
  BY DEF Meant
<1>4. map \in Tables /\ held \in Valuations /\ Value(env, Zero) = 0
  BY <1>3 DEF Meant, Watches
<1>5. /\ x \in Watched(map) /\ Value(env, x) = held[x]
      /\ y \in Watched(map) /\ Value(env, y) = held[y]
  BY <1>1, <1>3, ArgWatched
<1>6. /\ cf = FindName(map, "_cf") /\ zf = FindName(map, "_zf")
      /\ sf = FindName(map, "_sf") /\ pf = FindName(map, "_pf")
      /\ Flag("_cf")' = cf /\ Flag("_zf")' = zf
  <2>1. "_cf" \in FlagNames /\ "_zf" \in FlagNames /\ "_sf" \in FlagNames /\ "_pf" \in FlagNames
    BY DEF FlagNames
  <2>2. /\ cf = FindName(map, "_cf") /\ zf = FindName(map, "_zf")
        /\ sf = FindName(map, "_sf") /\ pf = FindName(map, "_pf")
    BY <1>3, <2>1, FlagStays DEF Watches
  <2>3. Flag("_cf")' = cf /\ Flag("_zf")' = zf
    BY <1>1 DEF Flag
  <2>. QED
    BY <2>2, <2>3
<1>7. /\ cf \in Lasting \cup {Null}
      /\ \A f \in {zf, sf, pf} : /\ f \in Lasting /\ f # Zero /\ f # One /\ f # cf
                                 /\ \A s \in Watched(map) : s # f
      /\ zf # pf /\ zf # sf
  <2>1. /\ "_cf" \in FlagNames
        /\ "_zf" \in FlagNames /\ "_cf" \in FlagNames \ {"_zf"}
        /\ "_sf" \in FlagNames /\ "_cf" \in FlagNames \ {"_sf"} /\ "_zf" \in FlagNames \ {"_sf"}
        /\ "_pf" \in FlagNames /\ "_cf" \in FlagNames \ {"_pf"} /\ "_zf" \in FlagNames \ {"_pf"}
    BY DEF FlagNames
  <2>. HIDE DEF cf, zf, sf, pf
  <2>2. cf \in Lasting \cup {Null}
    BY <1>4, <1>6, <2>1, FlagIsFlag
  <2>3. zf \in Lasting /\ zf # Zero /\ zf # One /\ zf # cf /\ \A s \in Watched(map) : s # zf
    BY <1>1, <1>4, <1>6, <2>1, FlagIsFlag
  <2>4. sf \in Lasting /\ sf # Zero /\ sf # One /\ sf # cf /\ sf # zf /\ \A s \in Watched(map) : s # sf
    BY <1>1, <1>4, <1>6, <2>1, FlagIsFlag
  <2>5. pf \in Lasting /\ pf # Zero /\ pf # One /\ pf # cf /\ pf # zf /\ \A s \in Watched(map) : s # pf
    BY <1>1, <1>4, <1>6, <2>1, FlagIsFlag
  <2>. QED
    BY <2>2, <2>3, <2>4, <2>5
<1>8. own \notin Lasting /\ own # Null /\ own # Zero /\ own # One /\ own \in Places
  <2>1. Fresh \in Nat /\ Fresh # 0
    BY <1>1, FreshIs
  <2>. QED
    BY <2>1, OwnIs, OwnSymbol
<1>. HIDE DEF own
<1>9. \A s \in Watched(map) : s \in Lasting
  BY <1>4, WatchedIs
<1>10. /\ Made(a, "BinaryOperation", own, x, "AND", y)
       /\ Made(b, "UnaryInstruction", sf, own, "MSB", Null)
       /\ Made(c, "CmpInstruction", zf, own, "eq", Zero)
       /\ Made(d, "UnaryInstruction", pf, own, "BitwiseXNOR", Null)
  <2>1. zf \in Places /\ sf \in Places /\ pf \in Places /\ x \in Places /\ y \in Places /\ Zero \in Places
    BY <1>5, <1>7, <1>9, LastingIs, Constants
  <2>2. {"AND", "MSB", "eq", "BitwiseXNOR"} \subseteq Operators
    BY DEF Operators
  <2>. HIDE DEF sf, zf, pf, x, y
  <2>. QED
    BY <1>1, <1>8, <2>1, <2>2, TurnIs, MadeIs, Zenon
<1>. HIDE DEF a, b, c, d
<1>11. /\ irs \in Seq(IRs) /\ Len(irs) = 4 /\ Len(irs) \in 0 .. 4
       /\ irs[1] = a /\ irs[2] = b /\ irs[3] = c /\ irs[4] = d
  BY <1>10 DEF Made
<1>. HIDE DEF irs, cf, zf, sf, pf, x, y
<1>12. PICK m1 : /\ Execute(<<env, taken>>, a) = <<m1, taken>>
                 /\ Value(m1, own) = Result("AND", Value(env, x), Value(env, y))
                 /\ \A s : s # own => Value(m1, s) = Value(env, s)
  <2>1. ~IsBranch(a) /\ a.target = own /\ a.operator = "AND" /\ a.lhs = x /\ a.rhs = y
    BY <1>10 DEF IsBranch, Made
  <2>. QED
    BY <1>8, <2>1, Assigned
<1>13. PICK m2 : /\ Execute(<<m1, taken>>, b) = <<m2, taken>>
                 /\ \A s : s # sf => Value(m2, s) = Value(m1, s)
  <2>1. ~IsBranch(b) /\ b.target = sf
    BY <1>10 DEF IsBranch, Made
  <2>. QED
    BY <1>7, <2>1, Assigned
<1>14. PICK m3 : /\ Execute(<<m2, taken>>, c) = <<m3, taken>>
                 /\ Value(m3, zf) = Result("eq", Value(m2, own), Value(m2, Zero))
                 /\ \A s : s # zf => Value(m3, s) = Value(m2, s)
  <2>1. ~IsBranch(c) /\ c.target = zf /\ c.operator = "eq" /\ c.lhs = own /\ c.rhs = Zero
    BY <1>10 DEF IsBranch, Made
  <2>. QED
    BY <1>7, <2>1, Assigned
<1>15. PICK m4 : /\ Execute(<<m3, taken>>, d) = <<m4, taken>>
                 /\ \A s : s # pf => Value(m4, s) = Value(m3, s)
  <2>1. ~IsBranch(d) /\ d.target = pf
    BY <1>10 DEF IsBranch, Made
  <2>. QED
    BY <1>7, <2>1, Assigned
<1>16. After(<<env, taken>>, Len(irs), irs) = <<m4, taken>>
  BY <1>11, <1>12, <1>13, <1>14, <1>15, AfterFour, Zenon
<1>17. env' = m4 /\ taken' = taken /\ held' = held
  BY <1>2, <1>11, <1>16, ExecutedIs
<1>18. ASSUME NEW s, s \notin {own, sf, zf, pf} PROVE Value(env', s) = Value(env, s)
  BY <1>12, <1>13, <1>14, <1>15, <1>17, <1>18
<1>19. Value(env', zf) = Bit(And(held[x], held[y]) = 0)
  <2>1. Value(m1, own) = And(held[x], held[y])
    BY <1>5, <1>12, ResultIs
  <2>2. Value(m2, own) = Value(m1, own) /\ Value(m2, Zero) = 0
    BY <1>4, <1>7, <1>8, <1>12, <1>13
  <2>3. Value(m3, zf) = Bit(And(held[x], held[y]) = 0)
    BY <1>14, <2>1, <2>2, ResultIs
  <2>. QED
    BY <1>7, <1>15, <1>17, <2>3
<1>20. Value(env', cf) = Value(env, cf)
  BY <1>7, <1>8, <1>18
<1>21. Meant'
  <2>1. \A s \in Watched(map) : Value(env', s) = Value(env, s)
    BY <1>7, <1>8, <1>9, <1>18
  <2>2. Value(env', Zero) = 0
    BY <1>4, <1>7, <1>8, <1>18
  <2>3. table' = map \/ Grown(map)'
    BY <1>1, <1>3 DEF Watches, Grown
  <2>. QED
    BY <1>3, <1>4, <1>17, <2>1, <2>2, <2>3, MeantStays
<1>22. Meaning!Test
  <2>1. Name = "test" /\ Args[1] = x /\ Args[2] = y
    BY <1>1, CurrentIs DEF x, y
  <2>2. Name' = Name /\ Args' = Args
    BY <1>1, <1>2, ArgsStay
  <2>3. Value(env', Flag("_zf")') = Bit(And(held[Args[1]], held[Args[2]]) = 0)
    BY <1>6, <1>19, <2>1
  <2>4. Value(env', Flag("_cf")') = Value(env, Flag("_cf"))
    BY <1>6, <1>20 DEF cf
  <2>5. /\ Todo # <<>> /\ Head(Todo).kind = "compare"
        /\ Todo' = Tail(Todo) /\ factories' = factories
    BY <1>1, DoneIs
  <2>. QED
    BY <1>17, <2>1, <2>2, <2>3, <2>4, <2>5, Zenon
    DEF Meaning!Test, Meaning!Given, Meaning!Done, Meaning!Bit, Bit, Meaning!And, And, Todo, Name, Args
<1>. QED
  BY <1>21, <1>22

\* A jump leaves both flags, and its branch is taken for what is made of them.
LEMMA JumpMeant ==
  ASSUME TypeOK, Meant, Execution, Turn("jump"), instr.name \in jumps.GT \cup jumps.LE,
         NEW flagValue \in {Zero, One}, NEW operator \in {"AND", "OR"},
         Jump(flagValue, operator), table' = table
  PROVE  LET v == Value(env, flagValue)
         IN  /\ Meant' /\ held' = held /\ Name' = Name /\ Args' = Args
             /\ Todo # <<>> /\ Head(Todo).kind = "jump"
             /\ Todo' = Tail(Todo) /\ factories' = factories
             /\ Value(env', Flag("_cf")') = Value(env, Flag("_cf"))
             /\ Value(env', Flag("_zf")') = Value(env, Flag("_zf"))
             /\ taken' = Append(taken, Result(operator, Bit(Value(env, Flag("_zf")) = v),
                                                        Bit(Value(env, Flag("_cf")) = v)))
<1>. DEFINE cf == Flag("_cf")
            zf == Flag("_zf")
            v  == Value(env, flagValue)
            result == Symbol("Symbol", "TempResult", Fresh)
            temp   == Symbol("Symbol", "Temp2Result", Fresh)
            target == instr.args[1].symbol
            a == Cmp(result, cf, "eq", flagValue)
            b == Cmp(temp, zf, "eq", flagValue)
            c == Binary(result, temp, operator, result)
            d == Br(result, target)
            irs == <<a, b, c, d>>
<1>1. Emit(irs)
  BY DEF Jump
<1>2. stream' = stream \o irs /\ instr' = instr /\ count' = count
  BY <1>1 DEF Emit
<1>3. PICK map : Watches(map)
  BY DEF Meant
<1>4. map \in Tables /\ held \in Valuations /\ Value(env, Zero) = 0
  BY <1>3 DEF Meant, Watches
<1>5. /\ cf \in Lasting \cup {Null} /\ zf \in Lasting \cup {Null}
      /\ Flag("_cf")' = cf /\ Flag("_zf")' = zf
  BY FlagIs DEF Flag
<1>6. target \in Lasting
  <2>1. Len(instr.args) >= 1 /\ Len(instr.args) \in Nat
    BY TurnIs, InstructionsAssumption
  <2>2. 1 \in 1 .. Len(instr.args)
    BY <2>1
  <2>. QED
    BY <2>2, ArgIs
<1>7. /\ result \notin Lasting /\ result # Null /\ result # Zero /\ result # One /\ result \in Places
      /\ temp \notin Lasting /\ temp # Null /\ temp # Zero /\ temp # One /\ temp \in Places
      /\ result # temp
  <2>1. Fresh \in Nat /\ Fresh # 0
    BY FreshIs
  <2>2. result.name = "TempResult" /\ temp.name = "Temp2Result"
    BY DEF Symbol
  <2>3. /\ result \notin Lasting /\ result # Null /\ result # Zero /\ result # One
        /\ temp \notin Lasting /\ temp # Null /\ temp # Zero /\ temp # One
    BY <2>1, OwnIs
  <2>4. result \in Places /\ temp \in Places
    BY <2>1, OwnSymbol
  <2>. HIDE DEF result, temp
  <2>. QED
    BY <2>2, <2>3, <2>4
<1>. HIDE DEF result, temp, target
<1>8. \A s \in Watched(map) : s \in Lasting
  BY <1>4, WatchedIs
<1>9. /\ Made(a, "CmpInstruction", result, cf, "eq", flagValue)
      /\ Made(b, "CmpInstruction", temp, zf, "eq", flagValue)
      /\ Made(c, "BinaryOperation", result, temp, operator, result)
      /\ Made(d, "BranchInstruction", Null, result, "br", target)
  <2>1. cf \in Places /\ zf \in Places /\ target \in Places /\ flagValue \in Places
    BY <1>5, <1>6, LastingIs, Constants
  <2>2. "eq" \in Operators /\ operator \in Operators
    BY DEF Operators
  <2>. HIDE DEF cf, zf
  <2>. QED
    BY <1>7, <2>1, <2>2, TurnIs, MadeIs, Zenon
<1>. HIDE DEF a, b, c, d
<1>10. /\ irs \in Seq(IRs) /\ Len(irs) = 4 /\ Len(irs) \in 0 .. 4
       /\ irs[1] = a /\ irs[2] = b /\ irs[3] = c /\ irs[4] = d
  BY <1>9 DEF Made
<1>. HIDE DEF irs, cf, zf
<1>11. PICK m1 : /\ Execute(<<env, taken>>, a) = <<m1, taken>>
                 /\ Value(m1, result) = Result("eq", Value(env, cf), v)
                 /\ \A s : s # result => Value(m1, s) = Value(env, s)
  <2>1. ~IsBranch(a) /\ a.target = result /\ a.operator = "eq" /\ a.lhs = cf /\ a.rhs = flagValue
    BY <1>9 DEF IsBranch, Made
  <2>. QED
    BY <1>7, <2>1, Assigned
<1>12. PICK m2 : /\ Execute(<<m1, taken>>, b) = <<m2, taken>>
                 /\ Value(m2, temp) = Result("eq", Value(m1, zf), Value(m1, flagValue))
                 /\ \A s : s # temp => Value(m2, s) = Value(m1, s)
  <2>1. ~IsBranch(b) /\ b.target = temp /\ b.operator = "eq" /\ b.lhs = zf /\ b.rhs = flagValue
    BY <1>9 DEF IsBranch, Made
  <2>. QED
    BY <1>7, <2>1, Assigned
<1>13. PICK m3 : /\ Execute(<<m2, taken>>, c) = <<m3, taken>>
                 /\ Value(m3, result) = Result(operator, Value(m2, temp), Value(m2, result))
                 /\ \A s : s # result => Value(m3, s) = Value(m2, s)
  <2>1. ~IsBranch(c) /\ c.target = result /\ c.operator = operator /\ c.lhs = temp /\ c.rhs = result
    BY <1>9 DEF IsBranch, Made
  <2>. QED
    BY <1>7, <2>1, Assigned
<1>14. Execute(<<m3, taken>>, d) = <<m3, Append(taken, Value(m3, result))>>
  <2>1. IsBranch(d) /\ d.lhs = result
    BY <1>9 DEF IsBranch, Made
  <2>. QED
    BY <2>1, Branched
<1>15. After(<<env, taken>>, Len(irs), irs) = <<m3, Append(taken, Value(m3, result))>>
  BY <1>10, <1>11, <1>12, <1>13, <1>14, AfterFour, Zenon
<1>16. env' = m3 /\ taken' = Append(taken, Value(m3, result)) /\ held' = held
  BY <1>2, <1>10, <1>15, ExecutedIs
<1>17. ASSUME NEW s, s \notin {result, temp} PROVE Value(env', s) = Value(env, s)
  BY <1>11, <1>12, <1>13, <1>16, <1>17
<1>18. Value(m3, result) = Result(operator, Bit(Value(env, zf) = v), Bit(Value(env, cf) = v))
  <2>1. Value(m2, result) = Bit(Value(env, cf) = v)
    BY <1>7, <1>11, <1>12, ResultIs
  <2>2. Value(m1, zf) = Value(env, zf) /\ Value(m1, flagValue) = v
    BY <1>5, <1>7, <1>11
  <2>3. Value(m2, temp) = Bit(Value(env, zf) = v)
    BY <1>12, <2>2, ResultIs
  <2>. QED
    BY <1>13, <2>1, <2>3
<1>19. Value(env', cf) = Value(env, cf) /\ Value(env', zf) = Value(env, zf)
  BY <1>5, <1>7, <1>17
<1>20. Meant'
  <2>1. \A s \in Watched(map) : Value(env', s) = Value(env, s)
    BY <1>7, <1>8, <1>17
  <2>2. Value(env', Zero) = 0
    BY <1>4, <1>7, <1>17
  <2>3. table' = map \/ Grown(map)'
    BY <1>3 DEF Watches, Grown
  <2>. QED
    BY <1>3, <1>4, <1>16, <2>1, <2>2, <2>3, MeantStays
<1>21. Name' = Name /\ Args' = Args
  BY <1>2, ArgsStay
<1>22. /\ Todo # <<>> /\ Head(Todo).kind = "jump"
       /\ Todo' = Tail(Todo) /\ factories' = factories
  BY <1>1, DoneIs
<1>. QED
  BY <1>5, <1>16, <1>18, <1>19, <1>20, <1>21, <1>22 DEF cf, zf

\* Above: no flag is set.
LEMMA JumpAboveMeant ==
  ASSUME TypeOK, Meant, Execution, JumpAbove
  PROVE  Meant' /\ Meaning!Branch
<1>1. Turn("jump") /\ instr.name \in jumps.GT /\ Jump(Zero, "AND") /\ table' = table
  BY DEF JumpAbove
<1>2. Value(env, Zero) = 0
  BY DEF Meant
<1>. DEFINE c == Value(env, Flag("_cf"))
            z == Value(env, Flag("_zf"))
<1>3. /\ Meant' /\ held' = held /\ Name' = Name /\ Args' = Args
      /\ Todo # <<>> /\ Head(Todo).kind = "jump"
      /\ Todo' = Tail(Todo) /\ factories' = factories
      /\ Value(env', Flag("_cf")') = c /\ Value(env', Flag("_zf")') = z
      /\ taken' = Append(taken, Result("AND", Bit(z = 0), Bit(c = 0)))
  BY <1>1, <1>2, JumpMeant
<1>4. Result("AND", Bit(z = 0), Bit(c = 0)) = Bit(c = 0 /\ z = 0)
  <2>. HIDE DEF c, z
  <2>1. Result("AND", Bit(z = 0), Bit(c = 0)) = And(Bit(z = 0), Bit(c = 0))
    BY ResultIs
  <2>2. (z = 0) \in BOOLEAN /\ (c = 0) \in BOOLEAN
    OBVIOUS
  <2>. QED
    BY <2>1, <2>2, AndBits
<1>5. Name \in jumps.GT
  BY <1>1, CurrentIs
<1>. QED
  BY <1>3, <1>4, <1>5, Zenon
  DEF Meaning!Branch, Meaning!Given, Meaning!Done, Meaning!Bit, Bit, Todo, Name, Args

\* Not above: one is.
LEMMA JumpNotAboveMeant ==
  ASSUME TypeOK, Meant, Execution, JumpNotAbove
  PROVE  Meant' /\ Meaning!Branch
<1>1. Turn("jump") /\ instr.name \in jumps.LE /\ Jump(One, "OR") /\ table' = table
  BY DEF JumpNotAbove
<1>2. Value(env, One) = 1
  BY ValueIs
<1>. DEFINE c == Value(env, Flag("_cf"))
            z == Value(env, Flag("_zf"))
<1>3. /\ Meant' /\ held' = held /\ Name' = Name /\ Args' = Args
      /\ Todo # <<>> /\ Head(Todo).kind = "jump"
      /\ Todo' = Tail(Todo) /\ factories' = factories
      /\ Value(env', Flag("_cf")') = c /\ Value(env', Flag("_zf")') = z
      /\ taken' = Append(taken, Result("OR", Bit(z = 1), Bit(c = 1)))
  BY <1>1, <1>2, JumpMeant
<1>4. Result("OR", Bit(z = 1), Bit(c = 1)) = Bit(c = 1 \/ z = 1)
  <2>. HIDE DEF c, z
  <2>1. Result("OR", Bit(z = 1), Bit(c = 1)) = Bit(Bit(z = 1) # 0 \/ Bit(c = 1) # 0)
    BY ResultIs
  <2>2. (z = 1) \in BOOLEAN /\ (c = 1) \in BOOLEAN
    OBVIOUS
  <2>. QED
    BY <2>1, <2>2, OrBits
<1>5. Name \in jumps.LE
  BY <1>1, CurrentIs
<1>. QED
  BY <1>3, <1>4, <1>5, Zenon
  DEF Meaning!Branch, Meaning!Given, Meaning!Done, Meaning!Bit, Bit, Todo, Name, Args

\* The steps of the machine, and none.
MeaningStep == Meaning!Next \/ UNCHANGED Meaning!vars

\* A factory that leaves the flags and the branches alone.
LEMMA OtherIs ==
  ASSUME TypeOK, NEW kind, Turn(kind), NEW irs, Emit(irs), FlagsStay,
         \/ kind = "call"
         \/ kind = "compare" /\ instr.name \notin {"cmp", "test"}
         \/ kind = "jump" /\ instr.name \notin jumps.GT \cup jumps.LE
  PROVE  Meaning!Other
<1>1. /\ Todo # <<>> /\ Head(Todo).kind = kind
      /\ Todo' = Tail(Todo) /\ factories' = factories /\ Name' = Name
  BY DoneIs
<1>2. Name = instr.name
  BY CurrentIs
<1>3. \/ Head(Todo).kind = "call"
      \/ Head(Todo).kind = "compare" /\ Name \notin {"cmp", "test"}
      \/ Head(Todo).kind = "jump" /\ Name \notin jumps.GT \cup jumps.LE
  BY <1>1, <1>2
<1>. QED
  BY <1>1, <1>3, Zenon DEF FlagsStay, Meaning!Other, Meaning!Given, Meaning!Done, Todo, Name, Args

\* A step that leaves the table, the memory and the branches alone.
LEMMA Unseen ==
  ASSUME Meant, UNCHANGED <<table, held, env, taken>>
  PROVE  Meant' /\ FlagsStay
<1>1. PICK map : Watches(map)
  BY DEF Meant
<1>2. table' = map \/ Grown(map)'
  BY <1>1 DEF Watches, Grown
<1>3. held \in Valuations /\ Value(env', Zero) = 0
  BY DEF Meant
<1>. QED
  BY <1>1, <1>2, <1>3, MeantStays, Quiet

\* A step that leaves the list, the place in it and the instruction alone as
\* well is none of the machine.
LEMMA StutterIs ==
  ASSUME FlagsStay, UNCHANGED <<table, factories, count, instr, at>>
  PROVE  UNCHANGED Meaning!vars
<1>1. Name' = Name /\ Args' = Args
  BY ArgsStay
<1>2. Todo' = Todo /\ factories' = factories
  BY DEF Todo
<1>. QED
  BY <1>1, <1>2, Zenon DEF FlagsStay, Meaning!vars, Todo, Name, Args

\* A call finds its result only in a table that held it from the start, and
\* adds one only to a table that was not changed yet.
LEMMA CallsMeant ==
  ASSUME TypeOK, Meant, Execution, CallWithKnownResult \/ CallCreatesResult
  PROVE  Meant' /\ FlagsStay
<1>1. PICK map : Watches(map)
  BY DEF Meant
<1>2. /\ map \in Tables /\ held \in Valuations
      /\ map \in [DOMAIN map -> Lasting] /\ DOMAIN map \subseteq Nat
  BY <1>1, TablesAssumption DEF Meant, Watches
<1>3. ASSUME Grown(map)
      PROVE  TemporaryKey \notin DOMAIN table /\ ~Insertable(table, ResultOfTheCall)
  <2>1. TemporaryKey \notin DOMAIN map /\ DOMAIN table = DOMAIN map \cup {NewKey(ResultOfTheCall)}
    BY <1>2, <1>3, InsertedIs DEF Grown
  <2>. QED
    BY <2>1, NewKeyIs DEF Insertable
<1>4. CASE CallWithKnownResult
  <2>. DEFINE result == table[TemporaryKey]
  <2>1. /\ Turn("call") /\ instr.name = "call" /\ TemporaryKey \in DOMAIN table
        /\ Emit(<<Call(result, Arg(1))>>) /\ table' = table
    BY <1>4 DEF CallWithKnownResult
  <2>2. table = map /\ table' = map
    BY <1>1, <1>3, <2>1 DEF Watches
  <2>3. result \in Lasting
    BY <1>2, <2>1, <2>2
  <2>4. Value(held, result) = 0
    BY <1>2, <2>1, <2>2, ValuationsAssumption
  <2>5. \A part \in FlagNames : result # FindName(map, part)
    BY <1>2, <2>1, <2>2, FlagsAssumption
  <2>. HIDE DEF result
  <2>. QED
    BY <1>1, <2>1, <2>2, <2>3, <2>4, <2>5, CallMeant
<1>5. CASE CallCreatesResult
  <2>1. /\ Turn("call") /\ instr.name = "call" /\ TemporaryKey \notin DOMAIN table
        /\ Insertable(table, ResultOfTheCall) /\ table' = Inserted(table, ResultOfTheCall)
        /\ Emit(<<Call(ResultOfTheCall, Arg(1))>>)
    BY <1>5 DEF CallCreatesResult
  <2>2. table = map
    BY <1>1, <1>3, <2>1 DEF Watches
  <2>3. Grown(map)'
    BY <2>1, <2>2 DEF Grown
  <2>4. ResultOfTheCall \in Lasting /\ Value(held, ResultOfTheCall) = 0
    BY <1>2, Constants, ValuationsAssumption
  <2>5. \A part \in FlagNames : ResultOfTheCall # FindName(map, part)
    BY <1>2, ValuationsAssumption
  <2>. QED
    BY <1>1, <2>1, <2>3, <2>4, <2>5, CallMeant
<1>. QED
  BY <1>4, <1>5

LEMMA FactoryMeant ==
  ASSUME TypeOK, Meant, Step, Execution
  PROVE  Meant' /\ MeaningStep
<1>1. CASE CallWithKnownResult \/ CallCreatesResult
  <2>1. Turn("call") /\ \E irs : Emit(irs)
    BY <1>1 DEF CallWithKnownResult, CallCreatesResult
  <2>2. Meant' /\ FlagsStay
    BY <1>1, CallsMeant
  <2>. QED
    BY <2>1, <2>2, OtherIs DEF MeaningStep, Meaning!Next
<1>2. CASE CallFails \/ FlagsFail
  <2>1. UNCHANGED <<table, factories, count, instr, at, stream>>
    BY <1>2 DEF CallFails, FlagsFail, Fail
  <2>2. Meant' /\ FlagsStay
    BY <2>1, NothingMeant
  <2>. QED
    BY <2>1, <2>2, StutterIs DEF MeaningStep
<1>3. CASE Skip
  <2>1. table' = table /\ Emit(<<>>)
    BY <1>3 DEF Skip
  <2>2. stream' = stream
    BY <2>1 DEF TypeOK, Emit
  <2>3. Meant' /\ FlagsStay
    BY <2>1, <2>2, NothingMeant
  <2>4. PICK kind \in Kinds :
          /\ Turn(kind)
          /\ \/ kind = "call"
             \/ kind = "compare" /\ instr.name \notin {"cmp", "test"}
             \/ kind = "jump" /\ instr.name \notin jumps.GT \cup jumps.LE
    BY <1>3 DEF Skip, Kinds
  <2>. QED
    BY <2>1, <2>3, <2>4, OtherIs DEF MeaningStep, Meaning!Next
<1>4. CASE Compare
  BY <1>4, CompareMeant DEF MeaningStep, Meaning!Next
<1>5. CASE Test
  BY <1>5, TestMeant DEF MeaningStep, Meaning!Next
<1>6. CASE JumpAbove
  BY <1>6, JumpAboveMeant DEF MeaningStep, Meaning!Next
<1>7. CASE JumpNotAbove
  BY <1>7, JumpNotAboveMeant DEF MeaningStep, Meaning!Next
<1>. QED
  BY <1>1, <1>2, <1>3, <1>4, <1>5, <1>6, <1>7 DEF Step

\* Between two instructions: the end, the next one, or a change of the list.
LEMMA BetweenMeant ==
  ASSUME TypeOK, Meant, Between, UNCHANGED meaning
  PROVE  Meant' /\ MeaningStep
<1>1. table' = table /\ at = 0
  BY DEF Between, OnCompleted, OnNext, RegisterFactory, RemoveFactory, Idle
<1>2. Meant' /\ FlagsStay
  BY <1>1, Unseen DEF meaning
<1>3. Todo = <<>>
  BY <1>1 DEF Todo
<1>4. CASE OnCompleted
  <2>1. UNCHANGED <<table, factories, count, instr, at>>
    BY <1>4 DEF OnCompleted
  <2>. QED
    BY <1>2, <2>1, StutterIs DEF MeaningStep
<1>5. CASE \E i \in Instructions : OnNext(i)
  <2>1. factories' = factories /\ at' = IF factories = <<>> THEN 0 ELSE 1
    BY <1>5 DEF OnNext
  <2>2. Todo' = factories
    <3>1. CASE factories = <<>>
      BY <2>1, <3>1 DEF Todo
    <3>2. CASE factories # <<>>
      <4>1. SubSeq(factories, 1, Len(factories)) = factories
        BY DEF TypeOK
      <4>. QED
        BY <2>1, <3>2, <4>1 DEF Todo
    <3>. QED
      BY <3>1, <3>2
  <2>3. Meaning!NextInstruction
    BY <1>2, <1>3, <2>1, <2>2, Zenon DEF FlagsStay, Meaning!NextInstruction, Todo
  <2>. QED
    BY <1>2, <2>3 DEF MeaningStep, Meaning!Next
<1>6. CASE \E f \in UNION {Range(l) : l \in Registered} : RegisterFactory(f) \/ RemoveFactory(f)
  <2>1. UNCHANGED <<table, count, instr, at>>
    BY <1>6 DEF RegisterFactory, RemoveFactory
  <2>2. Name' = Name /\ Args' = Args
    BY <2>1, ArgsStay
  <2>3. Todo' = <<>>
    BY <1>1, <2>1 DEF Todo
  <2>4. Meaning!ListChanges
    BY <1>2, <1>3, <2>2, <2>3, Zenon DEF FlagsStay, Meaning!ListChanges, Todo, Name, Args
  <2>. QED
    BY <1>2, <2>4 DEF MeaningStep, Meaning!Next
<1>. QED
  BY <1>4, <1>5, <1>6 DEF Between

\* Every step is one of the machine.
LEMMA StepMeant ==
  ASSUME Inv, Meant, [Next]_vars
  PROVE  Meant' /\ MeaningStep
<1>1. TypeOK
  BY DEF Inv
<1>2. CASE Step /\ Execution
  BY <1>1, <1>2, FactoryMeant
<1>3. CASE Between /\ UNCHANGED meaning
  BY <1>1, <1>3, BetweenMeant
<1>4. CASE UNCHANGED vars
  <2>1. UNCHANGED <<table, factories, count, instr, at>> /\ UNCHANGED <<held, env, taken>>
    BY <1>4 DEF vars, core, meaning
  <2>2. Meant' /\ FlagsStay
    BY <2>1, Unseen
  <2>. QED
    BY <2>1, <2>2, StutterIs DEF MeaningStep
<1>. QED
  BY <1>2, <1>3, <1>4 DEF Next

LEMMA MeaningStarts == Init => Meaning!Init
<1>. SUFFICES ASSUME Init PROVE Meaning!Init
  OBVIOUS
<1>1. PICK map \in Tables : table = map
  BY DEF Init
<1>2. held \in Valuations /\ env = held /\ taken = <<>> /\ at = 0
  BY DEF Init
<1>3. \A part \in {"_cf", "_zf"} : part \in FlagNames
  BY DEF FlagNames
<1>4. \A part \in {"_cf", "_zf"} : Value(env, Flag(part)) = 0
  BY <1>1, <1>2, <1>3, ValuationsAssumption DEF Flag
<1>. QED
  BY <1>2, <1>4 DEF Meaning!Init

\* Nothing that is compared is changed by the stream, and the flags stay where
\* they are found, in every program.
LEMMA AlwaysMeant == Spec => []Meant
<1>1. Inv /\ Meant /\ [Next]_vars => Meant'
  BY StepMeant
<1>. QED
  BY <1>1, MeantInitially, Invariant, PTL DEF Spec

\* The stream does what the machine with two flags does, and loses and repeats
\* no comparison and no branch, for every program, every table of symbols, and
\* every list of factories and change of it.
THEOREM FlagMachineImplemented == Spec => ImplementsFlagMachine
<1>1. Inv /\ Meant /\ [Next]_vars => [Meaning!Next]_(Meaning!vars)
  BY StepMeant, Zenon DEF MeaningStep
<1>. QED
  BY <1>1, MeaningStarts, AlwaysMeant, Invariant, PTL
  DEF Spec, ImplementsFlagMachine, Meaning!Spec
=============================================================================
