------------------------- MODULE DisassemblyProofs -------------------------
(***************************************************************************)
(* Theorems about Disassembly.                                             *)
(***************************************************************************)
EXTENDS Disassembly, FiniteSetTheorems, SequenceTheorems, TLAPS

-----------------------------------------------------------------------------
(* Arithmetic and sets.                                                    *)

\* A non-empty set of natural numbers has a least element, and Min finds it.
LEMMA MinOfNats ==
  ASSUME NEW S \in SUBSET Nat, S # {}
  PROVE  Min(S) \in S /\ \A y \in S : Min(S) <= y
<1>. DEFINE T == {0 .. n : n \in S}
<1>1. T \subseteq FiniteSubsetsOf(Nat)
  <2>1. SUFFICES ASSUME NEW n \in S PROVE 0 .. n \in FiniteSubsetsOf(Nat)
    OBVIOUS
  <2>2. n \in Int /\ 0 .. n \in SUBSET Nat
    OBVIOUS
  <2>3. IsFiniteSet(0 .. n)
    BY <2>2, FS_Interval
  <2>. QED
    BY <2>2, <2>3 DEF FiniteSubsetsOf
<1>2. PICK X \in T : \A Y \in T : ~(<<Y, X>> \in StrictSubsetOrdering(Nat))
  <2>1. T # {}
    OBVIOUS
  <2>. HIDE DEF T
  <2>. QED
    BY <1>1, <2>1, FS_StrictSubsetOrderingWellFounded, WFMin
<1>3. PICK x \in S : X = 0 .. x
  OBVIOUS
<1>4. \A y \in S : x <= y
  <2>1. SUFFICES ASSUME NEW y \in S, y < x PROVE FALSE
    OBVIOUS
  <2>2. 0 .. y \subseteq 0 .. x /\ 0 .. y # 0 .. x
    <3>1. x \in 0 .. x /\ x \notin 0 .. y
      BY <2>1
    <3>. QED
      BY <2>1, <3>1
  <2>3. 0 .. y \in SUBSET Nat /\ 0 .. x \in SUBSET Nat
    OBVIOUS
  <2>4. <<0 .. y, 0 .. x>> \in StrictSubsetOrdering(Nat)
    BY <2>2, <2>3, Zenon DEF StrictSubsetOrdering
  <2>5. 0 .. y \in T
    BY <2>1
  <2>. QED
    BY <1>2, <1>3, <2>4, <2>5, Zenon
<1>. QED
  BY <1>4 DEF Min

\* The conversion to int yields an int, and never a larger number.
LEMMA ToIntBound ==
  ASSUME NEW n \in Nat
  PROVE  ToInt(n) \in Int /\ ToInt(n) <= n
<1>1. n % IntRange \in Nat /\ n % IntRange <= n
  BY WidthAssumption, SMT
<1>. QED
  BY <1>1, WidthAssumption DEF ToInt

-----------------------------------------------------------------------------
(* Symbols and sections.                                                   *)

\* What a well-formed image says of one symbol and of its section.
LEMMA SymbolType ==
  ASSUME NEW im, WellFormed(im), NEW k \in DOMAIN im.syms
  PROVE  /\ k \in Nat \ {0} /\ k <= Len(im.syms) /\ DOMAIN im.syms = 1 .. Len(im.syms)
         /\ im.syms[k].sec \in DOMAIN im.secs
         /\ Address(im, k) \in Addresses
         /\ Parent(im, k) \in Section
         /\ Parent(im, k).vma + Len(Parent(im, k).code) < Minus2
<1>1. im.syms \in Seq(Symbol) /\ im.secs \in Seq(Section)
  BY DEF WellFormed, Image
<1>2. im.syms[k] \in Symbol /\ im.syms[k].sec \in DOMAIN im.secs
  BY <1>1 DEF WellFormed
<1>3. im.secs[im.syms[k].sec] \in Section
  BY <1>1, <1>2
<1>4. k \in Nat \ {0} /\ k <= Len(im.syms) /\ DOMAIN im.syms = 1 .. Len(im.syms)
  BY <1>1
<1>. QED
  BY <1>2, <1>3, <1>4 DEF WellFormed, Symbol, Address, Parent

\* The size of a symbol is a natural number, and a function with this size
\* does not reach into a later one.
LEMMA SymbolSizeBound ==
  ASSUME NEW im, WellFormed(im), NEW k \in DOMAIN im.syms
  PROVE  /\ SymbolSize(im, k) \in Nat
         /\ \A j \in DOMAIN im.syms :
              k < j /\ im.syms[j].func
                => Address(im, k) + SymbolSize(im, k) <= Address(im, j)
<1>. DEFINE L == LaterFunctions(im, k)
<1>1. /\ k \in Nat /\ DOMAIN im.syms = 1 .. Len(im.syms) /\ Len(im.syms) \in Nat
      /\ \A j \in DOMAIN im.syms : Address(im, j) \in Nat
  <2>1. k \in Nat /\ DOMAIN im.syms = 1 .. Len(im.syms)
    BY SymbolType
  <2>2. Len(im.syms) \in Nat
    BY DEF WellFormed, Image
  <2>3. ASSUME NEW j \in DOMAIN im.syms PROVE Address(im, j) \in Nat
    BY SymbolType DEF Addresses
  <2>. QED
    BY <2>1, <2>2, <2>3
<1>2. \A i, j \in DOMAIN im.syms : i < j => Address(im, i) < Address(im, j)
  BY DEF WellFormed, Address
<1>3. L \in SUBSET Nat /\ L \subseteq DOMAIN im.syms
      /\ \A j \in L : Address(im, k) < Address(im, j)
  BY <1>1 DEF LaterFunctions
<1>4. \A j \in DOMAIN im.syms : k < j /\ im.syms[j].func => j \in L
  BY <1>1, <1>2 DEF LaterFunctions
<1>5. CASE L = {}
  <2>. DEFINE d == Parent(im, k).size - (Address(im, k) - Parent(im, k).vma)
  <2>1. SymbolSize(im, k) = d % (Top + 1)
    BY <1>5 DEF SymbolSize, ToSectionEnd
  <2>2. Parent(im, k).vma \in Nat /\ Parent(im, k).size \in Nat
    BY SymbolType DEF Section, Addresses
  <2>3. d \in Int
    BY <2>2, <1>1
  <2>. HIDE DEF d
  <2>4. d % (Top + 1) \in Nat
    BY <2>3, WidthAssumption
  <2>5. \A j \in DOMAIN im.syms : ~(k < j /\ im.syms[j].func)
    BY <1>4, <1>5
  <2>. QED
    BY <2>1, <2>4, <2>5
<1>6. CASE L # {}
  <2>. DEFINE m == Min(L)
  <2>1. m \in L /\ \A j \in L : m <= j
    BY <1>3, <1>6, MinOfNats
  <2>2. SymbolSize(im, k) = Address(im, m) - Address(im, k)
    BY <1>6 DEF SymbolSize
  <2>. HIDE DEF m, L
  <2>3. SymbolSize(im, k) \in Nat
    <3>1. Address(im, k) < Address(im, m) /\ m \in DOMAIN im.syms
      BY <2>1, <1>3, Zenon
    <3>2. Address(im, k) \in Nat /\ Address(im, m) \in Nat
      BY <3>1, <1>1, Zenon
    <3>. QED
      BY <3>1, <3>2, <2>2
  <2>4. ASSUME NEW j \in DOMAIN im.syms, k < j, im.syms[j].func
        PROVE  Address(im, m) <= Address(im, j)
    BY <2>1, <2>4, <1>1, <1>2, <1>3, <1>4
  <2>. QED
    BY <2>2, <2>3, <2>4, <1>1, <1>3, <2>1
<1>. QED
  BY <1>5, <1>6

\* What the disassembler returns is positive only inside the copy of the
\* section, and then the instruction ends inside it.
LEMMA DecodedType ==
  ASSUME NEW im, WellFormed(im), NEW k \in DOMAIN im.syms, NEW a \in Nat
  PROVE  LET sec == Parent(im, k)
         IN  /\ DecodedSize(sec, a) \in Int
             /\ DecodedText(sec, a) \in Seq(Text)
             /\ DecodedSize(sec, a) > 0 => Readable(sec, a)
             /\ DecodedSize(sec, a) > 0 =>
                  /\ sec.vma <= a
                  /\ a + DecodedSize(sec, a) <= sec.vma + Len(sec.code)
<1>. DEFINE sec == Parent(im, k)
            o   == a - sec.vma + 1
<1>1. sec \in Section /\ sec.vma \in Nat /\ sec.code \in Seq(Decoded)
  <2>1. sec \in Section
    BY SymbolType
  <2>. HIDE DEF sec
  <2>. QED
    BY <2>1 DEF Section, Addresses
<1>2. Readable(sec, a) => o \in DOMAIN sec.code
  BY <1>1 DEF Readable
<1>3. Readable(sec, a) => sec.code[o] \in Decoded
  <2>. HIDE DEF sec, o
  <2>. QED
    BY <1>1, <1>2
<1>4. Readable(sec, a) => o - 1 + sec.code[o].size <= Len(sec.code)
  BY <1>2, SymbolType DEF WellFormed, Parent
<1>. HIDE DEF sec
<1>. QED
  <2>1. CASE Readable(sec, a)
    <3>1. DecodedSize(sec, a) = sec.code[o].size /\ DecodedText(sec, a) = <<sec.code[o].text>>
      BY <2>1 DEF DecodedSize, DecodedText
    <3>2. DecodedSize(sec, a) \in Int /\ DecodedText(sec, a) \in Seq(Text)
      BY <3>1, <1>3, <2>1 DEF Decoded
    <3>3. sec.vma <= a
      BY <2>1 DEF Readable
    <3>4. a + DecodedSize(sec, a) <= sec.vma + Len(sec.code)
      <4>1. o = a - sec.vma + 1 /\ sec.vma \in Nat /\ Len(sec.code) \in Nat
        BY <1>1
      <4>2. o - 1 + DecodedSize(sec, a) <= Len(sec.code)
        BY <3>1, <1>4, <2>1
      <4>. HIDE DEF o
      <4>. QED
        BY <4>1, <4>2, <3>2, SMTT(30)
    <3>. QED
      BY <3>2, <3>3, <3>4, <2>1 DEF sec
  <2>2. CASE ~Readable(sec, a)
    BY <2>2 DEF DecodedSize, DecodedText, sec
  <2>. QED
    BY <2>1, <2>2

\* What match_jump returns is a bfd_vma.
LEMMA MatchJumpType ==
  ASSUME NEW texts \in Seq(Text)
  PROVE  MatchJump(texts) \in Addresses
<1>. DEFINE J == {i \in DOMAIN texts : texts[i].jump}
<1>1. Minus1 \in Addresses /\ Minus2 \in Addresses
  BY WidthAssumption DEF Minus1, Minus2, Addresses
<1>2. CASE J = {}
  BY <1>1, <1>2 DEF MatchJump
<1>3. CASE J # {}
  <2>1. J \in SUBSET Nat
    OBVIOUS
  <2>2. Min(J) \in J
    BY <1>3, <2>1, MinOfNats
  <2>3. texts[Min(J)] \in Text
    BY <2>2
  <2>4. texts[Min(J)].operand \in Addresses \cup {NoNumber}
    BY <2>3 DEF Text
  <2>. QED
    BY <1>1, <1>3, <2>4 DEF MatchJump
<1>. QED
  BY <1>2, <1>3

-----------------------------------------------------------------------------
\* What Append does to a sequence, in the form the steps use it.
LEMMA AppendFacts ==
  ASSUME NEW S, NEW s \in Seq(S), NEW e \in S, NEW t, t = Append(s, e)
  PROVE  /\ t \in Seq(S) /\ t # <<>>
         /\ Len(s) \in Nat /\ Len(t) = Len(s) + 1
         /\ DOMAIN s = 1 .. Len(s) /\ DOMAIN t = 1 .. Len(s) + 1
         /\ DOMAIN s \subseteq DOMAIN t
         /\ t[Len(t)] = e
         /\ \A i \in DOMAIN s : t[i] = s[i]
  OBVIOUS

-----------------------------------------------------------------------------
(* Types.                                                                  *)

\* A fetch is about a function of a file with a disassembler, does not look beyond its size, and has copied
\* its section last.  In the first loop i_size and the fake file are what
\* _dis_asm made of the address that is next: nothing was decoded in between.
FetchInv ==
  /\ pc \in {"decode", "emit"} =>
       /\ HasFunctionFlag(image, sym) /\ image.supported
       /\ max_offset <= SymbolSize(image, sym)
       /\ shared_buffer # <<>>
       /\ shared_buffer[Len(shared_buffer)] = image.syms[sym].sec
  /\ pc = "decode" =>
       /\ i_size = DecodedSize(Parent(image, sym), Address(image, sym) + offset)
       /\ fake_file = DecodedText(Parent(image, sym), Address(image, sym) + offset)

\* The facts about the image and the current symbol that most steps need.
LEMMA Here ==
  ASSUME TypeOK
  PROVE  /\ Len(image.syms) \in Nat /\ DOMAIN image.syms = 1 .. Len(image.syms)
         /\ sym \in Nat \ {0}
         /\ sym \in DOMAIN image.syms =>
              /\ Address(image, sym) \in Nat
              /\ Address(image, sym) \in Addresses
              /\ image.syms[sym].sec \in DOMAIN image.secs
              /\ Address(image, sym) + offset \in Nat
<1>1. Len(image.syms) \in Nat /\ DOMAIN image.syms = 1 .. Len(image.syms)
  BY DEF TypeOK, WellFormed, Image
<1>2. sym \in Nat \ {0}
  BY <1>1 DEF TypeOK
<1>3. sym \in DOMAIN image.syms =>
        /\ Address(image, sym) \in Nat
        /\ Address(image, sym) \in Addresses
        /\ image.syms[sym].sec \in DOMAIN image.secs
        /\ Address(image, sym) + offset \in Nat
  <2>1. WellFormed(image) /\ offset \in Nat
    BY DEF TypeOK
  <2>2. sym \in DOMAIN image.syms =>
          Address(image, sym) \in Addresses /\ image.syms[sym].sec \in DOMAIN image.secs
    BY <2>1, SymbolType
  <2>. QED
    BY <2>1, <2>2 DEF Addresses
<1>. QED
  BY <1>1, <1>2, <1>3

\* In the first loop the next instruction, if there is one, ends at an address.
LEMMA NextAddress ==
  ASSUME TypeOK, FetchInv, pc = "decode", i_size > 0
  PROVE  /\ i_size \in Nat
         /\ Address(image, sym) + offset \in Addresses
         /\ Address(image, sym) + offset + i_size \in Addresses
<1>1. sym \in DOMAIN image.syms /\ i_size \in Nat /\ offset \in Nat
  BY DEF TypeOK
<1>. DEFINE sec == Parent(image, sym)
            a   == Address(image, sym) + offset
<1>2. a \in Nat /\ WellFormed(image)
  BY <1>1, Here DEF TypeOK
<1>3. DecodedSize(sec, a) = i_size
  BY DEF FetchInv
<1>4. a + i_size <= sec.vma + Len(sec.code)
  BY <1>1, <1>2, <1>3, DecodedType
<1>5. sec.vma + Len(sec.code) < Minus2
  BY <1>1, <1>2, SymbolType
<1>6. sec.vma + Len(sec.code) \in Nat
  BY <1>1, <1>2, SymbolType DEF Section, Addresses
<1>. HIDE DEF a, sec
<1>7. a + i_size \in Addresses /\ a \in Addresses
  BY <1>1, <1>2, <1>4, <1>5, <1>6, WidthAssumption DEF Minus2, Addresses
<1>. QED
  BY <1>1, <1>7 DEF a

LEMMA InitType == Init => TypeOK /\ FetchInv
<1>. SUFFICES ASSUME Init PROVE TypeOK /\ FetchInv
  OBVIOUS
<1>1. WellFormed(image)
  BY ImagesAssumption DEF Init
<1>2. Len(image.syms) \in Nat
  BY <1>1 DEF WellFormed, Image
<1>. QED
  BY <1>1, <1>2, RunsAssumption DEF Init, TypeOK, FetchInv

\* OnNext gives the stream one more entry of the right type.
LEMMA OnNextType ==
  ASSUME TypeOK, pc = "emit", NEW i \in DOMAIN instructions, OnNext(instructions[i]),
         basic_block_buffer' \in Seq(Block), basic_block_buffer' # <<>>,
         Len(basic_block_buffer') >= Len(basic_block_buffer),
         shared_buffer # <<>>
  PROVE  /\ stream' \in Seq(Emitted)
         /\ Len(stream') = Len(stream) + 1
         /\ \A j \in DOMAIN stream' :
              /\ stream'[j].buf \in DOMAIN shared_buffer
              /\ stream'[j].block \in DOMAIN basic_block_buffer'
<1>. DEFINE e == [addr  |-> instructions[i].addr, size |-> instructions[i].size,
                  text  |-> instructions[i].text, at |-> instructions[i].at,
                  buf   |-> Len(shared_buffer),
                  block |-> Len(basic_block_buffer'),
                  run   |-> run, sym |-> sym]
<1>1. instructions[i] \in Instruction
  BY DEF TypeOK
<1>2. run \in Nat /\ sym \in Nat
  BY Here, RunsAssumption DEF TypeOK
<1>3. Len(shared_buffer) \in DOMAIN shared_buffer /\ Len(shared_buffer) \in Nat
  BY DEF TypeOK
<1>4. Len(basic_block_buffer') \in DOMAIN basic_block_buffer' /\ Len(basic_block_buffer') \in Nat
  OBVIOUS
<1>5. e \in Emitted
  BY <1>1, <1>2, <1>3, <1>4 DEF Emitted, Instruction
<1>6. e.buf \in DOMAIN shared_buffer /\ e.block \in DOMAIN basic_block_buffer'
  BY <1>3, <1>4
<1>7. stream' = Append(stream, e) /\ stream \in Seq(Emitted)
  BY DEF OnNext, TypeOK
<1>. HIDE DEF e
<1>8. stream' \in Seq(Emitted) /\ Len(stream') = Len(stream) + 1
  BY <1>5, <1>7
<1>9. ASSUME NEW j \in DOMAIN stream'
      PROVE  /\ stream'[j].buf \in DOMAIN shared_buffer
             /\ stream'[j].block \in DOMAIN basic_block_buffer'
  <2>1. CASE j \in DOMAIN stream
    <3>1. stream'[j] = stream[j]
      BY <1>5, <1>7, <2>1
    <3>2. DOMAIN basic_block_buffer \subseteq DOMAIN basic_block_buffer'
      BY DEF TypeOK
    <3>. QED
      BY <2>1, <3>1, <3>2 DEF TypeOK
  <2>2. CASE j = Len(stream) + 1
    BY <1>5, <1>6, <1>7, <2>2
  <2>. QED
    BY <1>5, <1>7, <1>8, <2>1, <2>2
<1>. QED
  BY <1>8, <1>9

\* The types and the facts about a fetch are inductive together.
LEMMA TypeStep ==
  ASSUME TypeOK, FetchInv, [Next]_vars
  PROVE  TypeOK' /\ FetchInv'
<1>1. CASE RunDisassembler
  <2>1. run + 1 \in 0 .. MaxRuns
    <3>1. run < MaxRuns /\ run \in 0 .. MaxRuns
      BY <1>1 DEF RunDisassembler, TypeOK
    <3>. QED
      BY <3>1, RunsAssumption
  <2>2. 1 \in 1 .. Len(image.syms) + 1
    BY Here
  <2>. QED
    BY <1>1, <2>1, <2>2 DEF RunDisassembler, TypeOK, FetchInv, fileVars, fetchVars
<1>2. CASE SkipSymbol
  <2>1. sym + 1 \in 1 .. Len(image.syms) + 1
    BY <1>2, Here DEF SkipSymbol
  <2>. QED
    BY <1>2, <2>1 DEF SkipSymbol, TypeOK, FetchInv, fileVars, fetchVars
<1>3. CASE FetchSymbol
  <2>1. sym \in DOMAIN image.syms /\ image.syms[sym].sec \in DOMAIN image.secs
    BY <1>3, Here DEF FetchSymbol
  <2>2. SymbolSize(image, sym) \in Nat
    BY <2>1, SymbolSizeBound DEF TypeOK
  <2>3. max_offset' \in Int /\ max_offset' <= SymbolSize(image, sym)
    BY <1>3, <2>2, ToIntBound DEF FetchSymbol
  <2>4. i_size' \in Int /\ fake_file' \in Seq(Text)
    BY <1>3, <2>1, Here, DecodedType DEF FetchSymbol, Disassemble, TypeOK
  <2>5. /\ shared_buffer' \in Seq(DOMAIN image.secs) /\ shared_buffer' # <<>>
        /\ shared_buffer'[Len(shared_buffer')] = image.syms[sym].sec
        /\ DOMAIN shared_buffer \subseteq DOMAIN shared_buffer'
    <3>. DEFINE S == DOMAIN image.secs
                e == image.syms[sym].sec
    <3>1. shared_buffer' = Append(shared_buffer, e) /\ shared_buffer \in Seq(S) /\ e \in S
      BY <1>3, <2>1 DEF FetchSymbol, TypeOK
    <3>. HIDE DEF S, e
    <3>2. /\ shared_buffer' \in Seq(S) /\ shared_buffer' # <<>>
          /\ shared_buffer'[Len(shared_buffer')] = e
          /\ DOMAIN shared_buffer \subseteq DOMAIN shared_buffer'
      BY <3>1, AppendFacts
    <3>. QED
      BY <3>2 DEF S, e
  <2>6. TypeOK'
    <3>1. basic_block_addresses' \in SUBSET Addresses
      BY <1>3, <2>1, Here DEF FetchSymbol
    <3>2. next' \in 1 .. Len(instructions') + 1 /\ instructions' \in Seq(Instruction)
      BY <1>3 DEF FetchSymbol
    <3>3. \A i \in DOMAIN stream' :
            /\ stream'[i].buf \in DOMAIN shared_buffer'
            /\ stream'[i].block \in DOMAIN basic_block_buffer'
      BY <1>3, <2>5 DEF FetchSymbol, TypeOK
    <3>. QED
      BY <1>3, <2>1, <2>3, <2>4, <2>5, <3>1, <3>2, <3>3 DEF FetchSymbol, TypeOK
  <2>7. Address(image, sym) + 0 = Address(image, sym)
    BY <2>1, Here
  <2>8. FetchInv'
    BY <1>3, <2>3, <2>5, <2>7 DEF FetchSymbol, FetchInv, Disassemble
  <2>. QED
    BY <2>6, <2>8
<1>4. CASE Decode
  <2>. DEFINE a == Address(image, sym) + offset
              e == [addr |-> a, size |-> i_size, text |-> fake_file,
                    at |-> ViewOffset(offset)]
  <2>1. pc = "decode" /\ i_size > 0 /\ sym \in DOMAIN image.syms
    BY <1>4 DEF Decode, DecodeGuard, TypeOK
  <2>2. i_size \in Nat /\ a \in Addresses /\ a + i_size \in Addresses
    BY <2>1, NextAddress
  <2>3. e \in Instruction
    BY <2>2 DEF Instruction, TypeOK, ViewOffset
  <2>4. instructions' = Append(instructions, e)
    BY <1>4 DEF Decode
  <2>. HIDE DEF e
  <2>5. instructions' \in Seq(Instruction) /\ next \in 1 .. Len(instructions') + 1
    BY <2>3, <2>4 DEF TypeOK
  <2>6. MatchJump(fake_file) \in Addresses
    BY MatchJumpType DEF TypeOK
  <2>7. basic_block_addresses' \in SUBSET Addresses
    BY <1>4, <2>2, <2>6 DEF Decode, TypeOK
  <2>8. offset' = offset + i_size /\ offset' \in Nat
    BY <1>4, <2>2 DEF Decode, TypeOK
  <2>9. a + i_size \in Nat /\ a + i_size = Address(image, sym) + (offset + i_size)
    <3>1. offset \in Nat /\ Address(image, sym) \in Nat
      BY <2>1, Here DEF TypeOK
    <3>. QED
      BY <2>2, <3>1
  <2>10. /\ i_size' = DecodedSize(Parent(image, sym), a + i_size)
         /\ fake_file' = DecodedText(Parent(image, sym), a + i_size)
    BY <1>4 DEF Decode, Disassemble
  <2>11. i_size' \in Int /\ fake_file' \in Seq(Text)
    BY <2>1, <2>9, <2>10, DecodedType DEF TypeOK
  <2>12. TypeOK'
    BY <1>4, <2>5, <2>7, <2>8, <2>11 DEF Decode, TypeOK
  <2>13. FetchInv'
    BY <1>4, <2>8, <2>9, <2>10 DEF Decode, FetchInv
  <2>. QED
    BY <2>12, <2>13
<1>5. CASE DecodeStops
  BY <1>5 DEF DecodeStops, TypeOK, FetchInv, fileVars
<1>6. CASE EmitIntoNewBlock
  <2>. DEFINE b == [id |-> instructions[next].addr, parent |-> sym]
  <2>1. next \in DOMAIN instructions /\ instructions[next] \in Instruction
    BY <1>6 DEF EmitIntoNewBlock, TypeOK
  <2>2. b \in Block
    BY <2>1, Here DEF Block, Instruction
  <2>3. basic_block_buffer' = Append(basic_block_buffer, b)
    BY <1>6 DEF EmitIntoNewBlock
  <2>. HIDE DEF b
  <2>4. /\ basic_block_buffer' \in Seq(Block) /\ basic_block_buffer' # <<>>
        /\ Len(basic_block_buffer') >= Len(basic_block_buffer)
    <3>1. basic_block_buffer \in Seq(Block)
      BY DEF TypeOK
    <3>2. /\ basic_block_buffer' \in Seq(Block) /\ basic_block_buffer' # <<>>
          /\ Len(basic_block_buffer) \in Nat
          /\ Len(basic_block_buffer') = Len(basic_block_buffer) + 1
      BY <2>2, <2>3, <3>1, AppendFacts
    <3>. QED
      BY <3>2
  <2>5. pc = "emit" /\ OnNext(instructions[next]) /\ shared_buffer # <<>>
    BY <1>6 DEF EmitIntoNewBlock, FetchInv
  <2>6. /\ stream' \in Seq(Emitted)
        /\ \A j \in DOMAIN stream' :
             /\ stream'[j].buf \in DOMAIN shared_buffer
             /\ stream'[j].block \in DOMAIN basic_block_buffer'
    BY <2>1, <2>4, <2>5, OnNextType
  <2>7. next + 1 \in 1 .. Len(instructions) + 1
    BY <2>1 DEF TypeOK
  <2>8. TypeOK'
    BY <1>6, <2>4, <2>6, <2>7 DEF EmitIntoNewBlock, TypeOK
  <2>9. FetchInv'
    BY <1>6 DEF EmitIntoNewBlock, FetchInv
  <2>. QED
    BY <2>8, <2>9
<1>7. CASE EmitIntoLastBlock
  <2>1. next \in DOMAIN instructions /\ pc = "emit"
    BY <1>7 DEF EmitIntoLastBlock
  <2>2. /\ basic_block_buffer' \in Seq(Block) /\ basic_block_buffer' # <<>>
        /\ Len(basic_block_buffer') >= Len(basic_block_buffer)
    BY <1>7 DEF EmitIntoLastBlock, TypeOK
  <2>3. OnNext(instructions[next]) /\ shared_buffer # <<>>
    BY <1>7 DEF EmitIntoLastBlock, FetchInv
  <2>4. /\ stream' \in Seq(Emitted)
        /\ \A j \in DOMAIN stream' :
             /\ stream'[j].buf \in DOMAIN shared_buffer
             /\ stream'[j].block \in DOMAIN basic_block_buffer'
    BY <2>1, <2>2, <2>3, OnNextType
  <2>5. next + 1 \in 1 .. Len(instructions) + 1
    BY <2>1 DEF TypeOK
  <2>6. TypeOK'
    BY <1>7, <2>2, <2>4, <2>5 DEF EmitIntoLastBlock, TypeOK
  <2>7. FetchInv'
    BY <1>7 DEF EmitIntoLastBlock, FetchInv
  <2>. QED
    BY <2>6, <2>7
<1>8. CASE EmitThrows
  BY <1>8 DEF EmitThrows, LeaveFetch, TypeOK, FetchInv, fileVars
<1>9. CASE SymbolDone
  <2>1. sym + 1 \in 1 .. Len(image.syms) + 1
    <3>1. sym \in DOMAIN image.syms
      BY <1>9 DEF SymbolDone, TypeOK
    <3>. QED
      BY <3>1, Here
  <2>. QED
    BY <1>9, <2>1 DEF SymbolDone, LeaveFetch, TypeOK, FetchInv, fileVars
<1>10. CASE RunReturns
  BY <1>10 DEF RunReturns, TypeOK, FetchInv, fileVars, fetchVars
<1>11. CASE UNCHANGED vars
  BY <1>11 DEF vars, fileVars, fetchVars, TypeOK, FetchInv
<1>12. CASE RunThrows
  <2>1. run + 1 \in 0 .. MaxRuns
    <3>1. run < MaxRuns /\ run \in 0 .. MaxRuns
      BY <1>12 DEF RunThrows, TypeOK
    <3>. QED
      BY <3>1, RunsAssumption
  <2>. QED
    BY <1>12, <2>1 DEF RunThrows, TypeOK, FetchInv, fileVars, fetchVars
<1>13. CASE FetchThrows
  <2>1. image.syms[sym].sec \in DOMAIN image.secs
    BY <1>13, Here DEF FetchThrows
  <2>2. /\ shared_buffer' \in Seq(DOMAIN image.secs)
        /\ DOMAIN shared_buffer \subseteq DOMAIN shared_buffer'
    <3>. DEFINE S == DOMAIN image.secs
                e == image.syms[sym].sec
    <3>1. shared_buffer' = Append(shared_buffer, e) /\ shared_buffer \in Seq(S) /\ e \in S
      BY <1>13, <2>1 DEF FetchThrows, TypeOK
    <3>. HIDE DEF S, e
    <3>2. shared_buffer' \in Seq(S) /\ DOMAIN shared_buffer \subseteq DOMAIN shared_buffer'
      BY <3>1, AppendFacts
    <3>. QED
      BY <3>2 DEF S
  <2>3. \A i \in DOMAIN stream' :
          /\ stream'[i].buf \in DOMAIN shared_buffer'
          /\ stream'[i].block \in DOMAIN basic_block_buffer'
    BY <1>13, <2>2 DEF FetchThrows, TypeOK
  <2>4. fake_file' \in Seq(Text)
    BY <1>13 DEF FetchThrows
  <2>. QED
    BY <1>13, <2>2, <2>3, <2>4 DEF FetchThrows, TypeOK, FetchInv, fetchVars
<1>. QED
  BY <1>1, <1>2, <1>3, <1>4, <1>5, <1>6, <1>7, <1>8, <1>9, <1>10, <1>11, <1>12, <1>13
  DEF Next, Step

\* Every variable of runDisassembler and fetch keeps its type, and every
\* pointer of an emitted instruction points at something, in every file.
THEOREM TypeCorrect == Spec => []TypeOK
<1>1. Init => TypeOK /\ FetchInv
  BY InitType
<1>2. TypeOK /\ FetchInv /\ [Next]_vars => TypeOK' /\ FetchInv'
  BY TypeStep
<1>. QED
  BY <1>1, <1>2, PTL DEF Spec

-----------------------------------------------------------------------------
(* The sweep.                                                              *)

\* What the first loop has collected: instructions of the section of the
\* symbol, in ascending order, from its address on and before its size ends.
SweepInv ==
  pc \in {"decode", "emit"} =>
    /\ \A i \in DOMAIN instructions :
         LET n == instructions[i]
         IN  /\ n.addr = Address(image, sym) + n.at
             /\ n.size > 0
             /\ n.at + n.size <= offset
             /\ n.at < max_offset
             /\ n.addr + n.size <= Parent(image, sym).vma + Len(Parent(image, sym).code)
             /\ n.text = DecodedText(Parent(image, sym), n.addr)
    /\ \A i, j \in DOMAIN instructions :
         i < j => instructions[i].addr < instructions[j].addr
    /\ instructions = <<>> => offset = 0
    /\ instructions # <<>> => /\ instructions[1].addr = Address(image, sym)
                              /\ Parent(image, sym).vma <= Address(image, sym)

LEMMA SweepDecode ==
  ASSUME TypeOK, FetchInv, SweepInv, Decode
  PROVE  SweepInv'
<1>. DEFINE sec == Parent(image, sym)
            a   == Address(image, sym) + offset
            e   == [addr |-> a, size |-> i_size, text |-> fake_file,
                    at |-> ViewOffset(offset)]
<1>1. /\ pc = "decode" /\ i_size > 0 /\ offset < max_offset /\ sym \in DOMAIN image.syms
      /\ instructions \in Seq(Instruction)
      /\ offset \in Nat /\ max_offset \in Int
  BY DEF Decode, DecodeGuard, TypeOK
<1>2. i_size \in Nat /\ a \in Nat /\ a \in Addresses /\ Address(image, sym) \in Nat
  BY <1>1, NextAddress, Here
<1>3. e \in Instruction
  BY <1>1, <1>2 DEF Instruction, TypeOK, ViewOffset
<1>4. instructions' = Append(instructions, e) /\ offset' = offset + i_size
      /\ UNCHANGED <<image, sym, pc, max_offset>>
  BY DEF Decode
<1>5. /\ e.addr = Address(image, sym) + e.at /\ e.at = offset
      /\ e.size = i_size /\ e.text = DecodedText(sec, e.addr)
  BY <1>1 DEF ViewOffset, FetchInv
<1>6. e.addr + e.size <= sec.vma + Len(sec.code) /\ sec.vma <= e.addr
  <2>1. DecodedSize(sec, a) = i_size /\ WellFormed(image)
    BY <1>1 DEF FetchInv, TypeOK
  <2>2. a + i_size <= sec.vma + Len(sec.code) /\ sec.vma <= a
    BY <1>1, <1>2, <2>1, DecodedType
  <2>. QED
    BY <2>2
<1>. DEFINE old == DOMAIN instructions
            L   == Len(instructions) + 1
<1>. HIDE DEF e
<1>7. /\ instructions' \in Seq(Instruction) /\ instructions' # <<>>
      /\ old = 1 .. Len(instructions) /\ Len(instructions) \in Nat
      /\ DOMAIN instructions' = 1 .. L
      /\ instructions'[L] = e
      /\ \A i \in old : instructions'[i] = instructions[i]
  BY <1>1, <1>3, <1>4, AppendFacts
<1>8. \A i \in old : instructions[i].addr \in Nat /\ instructions[i].at \in Nat
                    /\ instructions[i].size \in Nat
  <2>1. \A i \in old : instructions[i] \in Instruction
    BY <1>1
  <2>. QED
    BY <2>1 DEF Instruction, Addresses
<1>9. ASSUME NEW i \in DOMAIN instructions'
      PROVE  LET n == instructions'[i]
             IN  /\ n.addr = Address(image, sym) + n.at
                 /\ n.size > 0
                 /\ n.at + n.size <= offset'
                 /\ n.at < max_offset
                 /\ n.addr + n.size <= sec.vma + Len(sec.code)
                 /\ n.text = DecodedText(sec, n.addr)
  <2>1. CASE i \in old
    <3>1. instructions'[i] = instructions[i]
      BY <1>7, <2>1
    <3>2. instructions[i].at + instructions[i].size <= offset'
      BY <1>1, <1>2, <1>4, <1>8, <2>1 DEF SweepInv
    <3>. QED
      BY <1>1, <2>1, <3>1, <3>2 DEF SweepInv
  <2>2. CASE i = L
    <3>1. instructions'[i] = e
      BY <1>7, <2>2
    <3>2. e.size > 0 /\ e.at + e.size <= offset' /\ e.at < max_offset
      BY <1>1, <1>2, <1>4, <1>5
    <3>. QED
      BY <1>5, <1>6, <3>1, <3>2
  <2>. QED
    BY <1>7, <2>1, <2>2
<1>10. ASSUME NEW i \in DOMAIN instructions', NEW j \in DOMAIN instructions', i < j
       PROVE  instructions'[i].addr < instructions'[j].addr
  <2>1. i \in old
    BY <1>7, <1>10
  <2>2. CASE j \in old
    BY <1>1, <1>7, <1>10, <2>1, <2>2 DEF SweepInv
  <2>3. CASE j = L
    <3>1. instructions[i].at < offset
      BY <1>1, <1>8, <2>1 DEF SweepInv
    <3>2. instructions[i].addr = Address(image, sym) + instructions[i].at
      BY <1>1, <2>1 DEF SweepInv
    <3>3. e.addr = Address(image, sym) + offset
      BY <1>5
    <3>4. instructions[i].addr < e.addr
      BY <3>1, <3>2, <3>3, <1>1, <1>2, <1>8, <2>1
    <3>. QED
      BY <1>7, <2>1, <2>3, <3>4
  <2>. QED
    BY <1>7, <2>2, <2>3
<1>11. instructions'[1].addr = Address(image, sym) /\ sec.vma <= Address(image, sym)
  <2>1. CASE instructions = <<>>
    <3>1. offset = 0 /\ L = 1
      BY <1>1, <2>1 DEF SweepInv
    <3>2. instructions'[1] = e /\ e.addr = Address(image, sym)
      BY <1>2, <1>5, <1>7, <3>1
    <3>. QED
      BY <1>6, <3>2
  <2>2. CASE instructions # <<>>
    <3>1. 1 \in old
      BY <1>1, <1>7, <2>2
    <3>. QED
      BY <1>1, <1>7, <2>2, <3>1 DEF SweepInv
  <2>. QED
    BY <2>1, <2>2
<1>. QED
  BY <1>4, <1>7, <1>9, <1>10, <1>11 DEF SweepInv

LEMMA SweepStep ==
  ASSUME TypeOK, FetchInv, SweepInv, [Next]_vars
  PROVE  SweepInv'
<1>1. CASE Decode
  BY <1>1, SweepDecode
<1>2. CASE FetchSymbol
  BY <1>2 DEF FetchSymbol, SweepInv
<1>3. CASE RunDisassembler \/ SkipSymbol \/ SymbolDone \/ EmitThrows \/ RunReturns
          \/ RunThrows \/ FetchThrows
  BY <1>3 DEF RunDisassembler, SkipSymbol, SymbolDone, EmitThrows, RunReturns, RunThrows,
     FetchThrows, SweepInv
<1>4. CASE DecodeStops
  BY <1>4 DEF DecodeStops, SweepInv
<1>5. CASE EmitIntoNewBlock \/ EmitIntoLastBlock
  BY <1>5 DEF EmitIntoNewBlock, EmitIntoLastBlock, SweepInv
<1>6. CASE UNCHANGED vars
  BY <1>6 DEF vars, fetchVars, SweepInv
<1>. QED
  BY <1>1, <1>2, <1>3, <1>4, <1>5, <1>6 DEF Next, Step

-----------------------------------------------------------------------------
(* The stream.                                                             *)

Emits == EmitIntoNewBlock \/ EmitIntoLastBlock

\* What one step of the second loop does to the stream.
LEMMA Emission ==
  ASSUME TypeOK, Emits
  PROVE  LET n == instructions[next]
             L == Len(stream) + 1
         IN  /\ pc = "emit" /\ next \in DOMAIN instructions /\ next \in Nat \ {0}
             /\ sym \in DOMAIN image.syms
             /\ n \in Instruction
             /\ next' = next + 1
             /\ UNCHANGED <<image, pc, run, sym, shared_buffer, instructions,
                            max_offset, offset, basic_block_addresses>>
             /\ DOMAIN stream = 1 .. Len(stream) /\ Len(stream) \in Nat
             /\ DOMAIN stream' = 1 .. L /\ Len(stream') = L
             /\ \A i \in DOMAIN stream : stream'[i] = stream[i]
             /\ stream'[L].addr = n.addr /\ stream'[L].size = n.size
             /\ stream'[L].text = n.text /\ stream'[L].at = n.at
             /\ stream'[L].buf = Len(shared_buffer)
             /\ stream'[L].block = Len(basic_block_buffer')
             /\ stream'[L].run = run /\ stream'[L].sym = sym
<1>1. /\ pc = "emit" /\ next \in DOMAIN instructions /\ OnNext(instructions[next])
      /\ next' = next + 1
      /\ UNCHANGED <<image, pc, run, sym, shared_buffer, instructions,
                     max_offset, offset, basic_block_addresses>>
  BY DEF Emits, EmitIntoNewBlock, EmitIntoLastBlock
<1>2. /\ instructions[next] \in Instruction /\ next \in Nat \ {0}
      /\ sym \in DOMAIN image.syms /\ stream \in Seq(Emitted)
  BY <1>1 DEF TypeOK
<1>3. DOMAIN stream = 1 .. Len(stream) /\ Len(stream) \in Nat
  BY <1>2
<1>. DEFINE e == [addr  |-> instructions[next].addr, size |-> instructions[next].size,
                  text  |-> instructions[next].text, at |-> instructions[next].at,
                  buf   |-> Len(shared_buffer),
                  block |-> Len(basic_block_buffer'),
                  run   |-> run, sym |-> sym]
<1>4. stream' = Append(stream, e)
  BY <1>1 DEF OnNext
<1>5. /\ e.addr = instructions[next].addr /\ e.size = instructions[next].size
      /\ e.text = instructions[next].text /\ e.at = instructions[next].at
      /\ e.buf = Len(shared_buffer) /\ e.block = Len(basic_block_buffer')
      /\ e.run = run /\ e.sym = sym
  OBVIOUS
<1>. HIDE DEF e
<1>6. /\ DOMAIN stream' = 1 .. Len(stream) + 1 /\ Len(stream') = Len(stream) + 1
      /\ \A i \in DOMAIN stream : stream'[i] = stream[i]
      /\ stream'[Len(stream) + 1] = e
  BY <1>2, <1>4
<1>. QED
  BY <1>1, <1>2, <1>3, <1>5, <1>6

\* Only the second loop touches the stream.
LEMMA StreamUnchanged ==
  ASSUME [Next]_vars, ~Emits
  PROVE  UNCHANGED <<image, stream>>
BY DEF Emits, Next, Step, RunDisassembler, SkipSymbol, FetchSymbol, Decode, DecodeStops,
       EmitThrows, SymbolDone, RunReturns, RunThrows, FetchThrows, vars, fileVars

\* The copies of sections are only added to.
LEMMA BuffersKept ==
  ASSUME TypeOK, [Next]_vars
  PROVE  \A b \in DOMAIN shared_buffer : shared_buffer'[b] = shared_buffer[b]
<1>1. CASE FetchSymbol \/ FetchThrows
  <2>. DEFINE S == DOMAIN image.secs
              e == image.syms[sym].sec
  <2>1. shared_buffer' = Append(shared_buffer, e) /\ shared_buffer \in Seq(S) /\ e \in S
    BY <1>1, Here DEF FetchSymbol, FetchThrows, TypeOK
  <2>. HIDE DEF S, e
  <2>. QED
    BY <2>1, AppendFacts
<1>2. CASE ~(FetchSymbol \/ FetchThrows)
  BY <1>2 DEF Next, Step, RunDisassembler, SkipSymbol, Decode, DecodeStops,
     EmitIntoNewBlock, EmitIntoLastBlock, EmitThrows, SymbolDone, RunReturns, RunThrows,
     vars, fileVars
<1>. QED
  BY <1>1, <1>2

LEMMA ViewsStep ==
  ASSUME TypeOK, FetchInv, SweepInv, ViewsInsideBuffers, [Next]_vars
  PROVE  ViewsInsideBuffers'
<1>1. \A i \in DOMAIN stream : stream[i].buf \in DOMAIN shared_buffer
  BY DEF TypeOK
<1>2. CASE Emits
  <2>. DEFINE n   == instructions[next]
              L   == Len(stream) + 1
              sec == Parent(image, sym)
  <2>1. /\ DOMAIN stream = 1 .. Len(stream) /\ DOMAIN stream' = 1 .. L /\ Len(stream) \in Nat
        /\ \A i \in DOMAIN stream : stream'[i] = stream[i]
        /\ stream'[L].size = n.size /\ stream'[L].at = n.at
        /\ stream'[L].buf = Len(shared_buffer)
        /\ image' = image /\ shared_buffer' = shared_buffer
    BY <1>2, Emission
  <2>2. /\ pc = "emit" /\ next \in DOMAIN instructions /\ n \in Instruction
        /\ sym \in DOMAIN image.syms
    BY <1>2, Emission
  <2>3. shared_buffer[Len(shared_buffer)] = image.syms[sym].sec
    BY <2>2 DEF FetchInv
  <2>4. image.secs[shared_buffer[Len(shared_buffer)]] = sec
    BY <2>3 DEF Parent
  <2>5. n.addr = Address(image, sym) + n.at /\ n.addr + n.size <= sec.vma + Len(sec.code)
    BY <2>2 DEF SweepInv
  <2>6. sec.vma <= Address(image, sym) /\ Address(image, sym) \in Nat
        /\ sec.vma \in Nat /\ Len(sec.code) \in Nat
    <3>1. WellFormed(image)
      BY DEF TypeOK
    <3>2. sec \in Section /\ Address(image, sym) \in Addresses
      BY <2>2, <3>1, SymbolType
    <3>3. sec.vma <= Address(image, sym)
      <4>1. instructions # <<>>
        BY <2>2
      <4>. QED
        BY <2>2, <4>1 DEF SweepInv
    <3>. HIDE DEF sec
    <3>. QED
      BY <3>2, <3>3 DEF Section, Addresses
  <2>7. n.at \in Nat /\ n.size \in Nat
    BY <2>2 DEF Instruction
  <2>. HIDE DEF n, sec
  <2>8. n.at + n.size <= Len(sec.code)
    BY <2>5, <2>6, <2>7
  <2>. QED
    BY <2>1, <2>4, <2>8 DEF ViewsInsideBuffers
<1>3. CASE ~Emits
  BY <1>1, <1>3, StreamUnchanged, BuffersKept DEF ViewsInsideBuffers
<1>. QED
  BY <1>2, <1>3

LEMMA TextStep ==
  ASSUME TypeOK, FetchInv, SweepInv, TextIsOfAddress, [Next]_vars
  PROVE  TextIsOfAddress'
<1>1. CASE Emits
  <2>1. /\ pc = "emit" /\ next \in DOMAIN instructions
    BY <1>1, Emission
  <2>2. instructions[next].text = DecodedText(Parent(image, sym), instructions[next].addr)
    BY <2>1 DEF SweepInv
  <2>. QED
    BY <1>1, <2>2, Emission DEF TextIsOfAddress
<1>2. CASE ~Emits
  BY <1>2, StreamUnchanged DEF TextIsOfAddress
<1>. QED
  BY <1>1, <1>2

-----------------------------------------------------------------------------
(* The order of the stream.                                                *)

NoAliasOnly == \A k \in DOMAIN image.syms : ~AliasOnly(k)

\* What this call has emitted lies below every function it has not finished,
\* and below the instruction that is next.
FrontierInv ==
  /\ \A i \in DOMAIN stream : stream[i].run <= run
  /\ NoAliasOnly =>
       \A i \in DOMAIN stream : stream[i].run = run =>
         /\ pc \in {"symbols", "decode"} =>
              \A k \in DOMAIN image.syms :
                sym <= k /\ image.syms[k].func => stream[i].addr < Address(image, k)
         /\ pc = "emit" =>
              /\ \A k \in DOMAIN image.syms :
                   sym < k /\ image.syms[k].func => stream[i].addr < Address(image, k)
              /\ next \in DOMAIN instructions => stream[i].addr < instructions[next].addr

OrderInv == FrontierInv /\ AscendingStream

\* An instruction of a function lies below every later function.
LEMMA BelowLaterFunctions ==
  ASSUME TypeOK, FetchInv, SweepInv, pc = "emit", NEW i \in DOMAIN instructions,
         NEW k \in DOMAIN image.syms, sym < k, image.syms[k].func
  PROVE  instructions[i].addr < Address(image, k)
<1>1. sym \in DOMAIN image.syms /\ WellFormed(image) /\ instructions[i] \in Instruction
      /\ max_offset \in Int
  BY DEF TypeOK
<1>2. instructions[i].at \in Nat /\ instructions[i].at < max_offset
      /\ instructions[i].addr = Address(image, sym) + instructions[i].at
  BY <1>1 DEF SweepInv, Instruction
<1>3. max_offset <= SymbolSize(image, sym)
  BY DEF FetchInv
<1>4. /\ SymbolSize(image, sym) \in Nat
      /\ Address(image, sym) + SymbolSize(image, sym) <= Address(image, k)
  BY <1>1, SymbolSizeBound
<1>5. Address(image, sym) \in Nat /\ Address(image, k) \in Nat
  BY <1>1, SymbolType DEF Addresses
<1>. QED
  BY <1>1, <1>2, <1>3, <1>4, <1>5

LEMMA OrderEmits ==
  ASSUME TypeOK, FetchInv, SweepInv, OrderInv, Emits
  PROVE  OrderInv'
<1>. DEFINE n == instructions[next]
            L == Len(stream) + 1
<1>1. /\ pc = "emit" /\ next \in DOMAIN instructions /\ next \in Nat
      /\ next' = next + 1
      /\ UNCHANGED <<image, pc, run, sym, instructions>>
      /\ DOMAIN stream = 1 .. Len(stream) /\ Len(stream) \in Nat
      /\ DOMAIN stream' = 1 .. L
      /\ \A i \in DOMAIN stream : stream'[i] = stream[i]
      /\ stream'[L].addr = n.addr /\ stream'[L].run = run
  BY Emission
<1>2. /\ run \in Nat
      /\ \A i \in DOMAIN stream : stream[i].run \in Nat /\ stream[i].addr \in Nat
      /\ \A i \in DOMAIN instructions : instructions[i].addr \in Nat
      /\ NoAliasOnly' <=> NoAliasOnly
  <2>1. \A i \in DOMAIN stream : stream[i] \in Emitted
    BY DEF TypeOK
  <2>2. \A i \in DOMAIN instructions : instructions[i] \in Instruction
    BY DEF TypeOK
  <2>3. run \in Nat
    BY RunsAssumption DEF TypeOK
  <2>4. NoAliasOnly' <=> NoAliasOnly
    BY <1>1 DEF NoAliasOnly, AliasOnly
  <2>. QED
    BY <2>1, <2>2, <2>3, <2>4 DEF Emitted, Instruction, Addresses
<1>3. \A i \in DOMAIN stream' : stream'[i].run <= run'
  BY <1>1, <1>2 DEF OrderInv, FrontierInv
<1>4. ASSUME NoAliasOnly, NEW i \in DOMAIN stream', stream'[i].run = run,
             NEW k \in DOMAIN image.syms, sym < k, image.syms[k].func
      PROVE  stream'[i].addr < Address(image, k)
  <2>1. CASE i \in DOMAIN stream
    BY <1>1, <1>4, <2>1 DEF OrderInv, FrontierInv
  <2>2. CASE i = L
    BY <1>1, <1>4, <2>2, BelowLaterFunctions
  <2>. QED
    BY <1>1, <2>1, <2>2
<1>5. ASSUME NoAliasOnly, NEW i \in DOMAIN stream', stream'[i].run = run,
             next + 1 \in DOMAIN instructions
      PROVE  stream'[i].addr < instructions[next + 1].addr
  <2>1. n.addr < instructions[next + 1].addr
    BY <1>1, <1>5 DEF SweepInv
  <2>2. CASE i \in DOMAIN stream
    <3>1. stream[i].addr < n.addr /\ stream'[i] = stream[i]
      BY <1>1, <1>5, <2>2 DEF OrderInv, FrontierInv
    <3>. QED
      BY <1>1, <1>2, <1>5, <2>1, <2>2, <3>1
  <2>3. CASE i = L
    BY <1>1, <2>1, <2>3
  <2>. QED
    BY <1>1, <2>2, <2>3
<1>6. FrontierInv'
  BY <1>1, <1>2, <1>3, <1>4, <1>5 DEF FrontierInv
<1>7. ASSUME NoAliasOnly, NEW i \in DOMAIN stream', NEW j \in DOMAIN stream', i < j,
             stream'[i].run = stream'[j].run
      PROVE  stream'[i].addr < stream'[j].addr
  <2>1. i \in DOMAIN stream
    BY <1>1, <1>7
  <2>2. CASE j \in DOMAIN stream
    BY <1>1, <1>7, <2>1, <2>2 DEF OrderInv, AscendingStream, NoAliasOnly
  <2>3. CASE j = L
    BY <1>1, <1>7, <2>1, <2>3 DEF OrderInv, FrontierInv
  <2>. QED
    BY <1>1, <2>2, <2>3
<1>8. AscendingStream'
  BY <1>2, <1>7 DEF AscendingStream, NoAliasOnly
<1>. QED
  BY <1>6, <1>8 DEF OrderInv

LEMMA OrderStep ==
  ASSUME TypeOK, FetchInv, SweepInv, OrderInv, [Next]_vars
  PROVE  OrderInv'
<1>1. CASE Emits
  BY <1>1, OrderEmits
<1>2. CASE ~Emits
  <2>1. UNCHANGED <<image, stream>>
    BY <1>2, StreamUnchanged
  <2>2. AscendingStream'
    BY <2>1 DEF OrderInv, AscendingStream, AliasOnly
  <2>3. /\ run \in Nat /\ sym \in Nat /\ DOMAIN image.syms \subseteq Nat
        /\ \A i \in DOMAIN stream : stream[i].run \in Nat
        /\ NoAliasOnly' <=> NoAliasOnly
    <3>1. \A i \in DOMAIN stream : stream[i] \in Emitted
      BY DEF TypeOK
    <3>2. NoAliasOnly' <=> NoAliasOnly
      BY <2>1 DEF NoAliasOnly, AliasOnly
    <3>3. \A i \in DOMAIN stream : stream[i].run \in Nat
      BY <3>1 DEF Emitted
    <3>4. run \in Nat
      BY RunsAssumption DEF TypeOK
    <3>5. sym \in Nat /\ DOMAIN image.syms = 1 .. Len(image.syms)
      BY Here
    <3>. QED
      BY <3>2, <3>3, <3>4, <3>5
  <2>4. FrontierInv'
    <3>1. CASE RunDisassembler
      BY <3>1, <2>1, <2>3 DEF RunDisassembler, OrderInv, FrontierInv
    <3>2. CASE SkipSymbol \/ SymbolDone
      <4>1. /\ run' = run /\ sym' = sym + 1 /\ pc' = "symbols" /\ pc \in {"symbols", "emit"}
        BY <3>2 DEF SkipSymbol, SymbolDone
      <4>. QED
        BY <4>1, <2>1, <2>3 DEF OrderInv, FrontierInv
    <3>3. CASE FetchSymbol \/ Decode
      BY <3>3, <2>1, <2>3 DEF FetchSymbol, Decode, OrderInv, FrontierInv
    <3>4. CASE DecodeStops
      <4>1. /\ pc = "decode" /\ pc' = "emit" /\ run' = run /\ sym' = sym /\ next' = 1
            /\ instructions' = instructions /\ instructions \in Seq(Instruction)
            /\ sym \in DOMAIN image.syms
        BY <3>4 DEF DecodeStops, TypeOK
      <4>2. 1 \in DOMAIN instructions => instructions[1].addr = Address(image, sym)
        BY <4>1 DEF SweepInv
      <4>3. NoAliasOnly => image.syms[sym].func
        BY <4>1 DEF NoAliasOnly, AliasOnly, FetchInv, HasFunctionFlag
      <4>. QED
        BY <4>1, <4>2, <4>3, <2>1, <2>3 DEF OrderInv, FrontierInv
    <3>5. CASE EmitThrows \/ RunReturns \/ FetchThrows
      BY <3>5, <2>1, <2>3 DEF EmitThrows, RunReturns, FetchThrows, OrderInv, FrontierInv
    <3>7. CASE RunThrows
      BY <3>7, <2>1, <2>3 DEF RunThrows, OrderInv, FrontierInv
    <3>6. CASE UNCHANGED vars
      BY <3>6, <2>1, <2>3 DEF vars, fetchVars, OrderInv, FrontierInv
    <3>. QED
      BY <1>2, <3>1, <3>2, <3>3, <3>4, <3>5, <3>6, <3>7 DEF Next, Step, Emits
  <2>. QED
    BY <2>2, <2>4 DEF OrderInv
<1>. QED
  BY <1>1, <1>2

-----------------------------------------------------------------------------
(* The blocks.                                                             *)

\* What one step of the second loop does to the blocks.
LEMMA BlockEmission ==
  ASSUME TypeOK, Emits
  PROVE  /\ Len(basic_block_buffer) \in Nat /\ DOMAIN basic_block_buffer = 1 .. Len(basic_block_buffer)
         /\ \A b \in DOMAIN basic_block_buffer : basic_block_buffer'[b] = basic_block_buffer[b]
         /\ EmitIntoNewBlock =>
              /\ DOMAIN basic_block_buffer' = 1 .. Len(basic_block_buffer) + 1
              /\ Len(basic_block_buffer') = Len(basic_block_buffer) + 1
              /\ basic_block_buffer'[Len(basic_block_buffer')].id = instructions[next].addr
              /\ basic_block_buffer'[Len(basic_block_buffer')].parent = sym
              /\ bba_begin' = bba_begin \ {instructions[next].addr}
              /\ AtCursor(instructions[next].addr)
         /\ EmitIntoLastBlock =>
              /\ basic_block_buffer' = basic_block_buffer
              /\ Len(basic_block_buffer) > 0
              /\ bba_begin' = bba_begin
              /\ ~AtCursor(instructions[next].addr)
<1>1. basic_block_buffer \in Seq(Block)
  BY DEF TypeOK
<1>2. CASE EmitIntoNewBlock
  <2>. DEFINE b == [id |-> instructions[next].addr, parent |-> sym]
  <2>1. instructions[next] \in Instruction /\ sym \in Nat
    BY Emission, Here
  <2>2. b \in Block /\ b.id = instructions[next].addr /\ b.parent = sym
    BY <2>1 DEF Block, Instruction
  <2>3. basic_block_buffer' = Append(basic_block_buffer, b)
        /\ bba_begin' = bba_begin \ {instructions[next].addr}
        /\ AtCursor(instructions[next].addr)
    BY <1>2 DEF EmitIntoNewBlock
  <2>. HIDE DEF b
  <2>4. /\ Len(basic_block_buffer) \in Nat /\ Len(basic_block_buffer') = Len(basic_block_buffer) + 1
        /\ DOMAIN basic_block_buffer = 1 .. Len(basic_block_buffer)
        /\ DOMAIN basic_block_buffer' = 1 .. Len(basic_block_buffer) + 1
        /\ basic_block_buffer'[Len(basic_block_buffer')] = b
        /\ \A c \in DOMAIN basic_block_buffer : basic_block_buffer'[c] = basic_block_buffer[c]
    BY <1>1, <2>2, <2>3, AppendFacts
  <2>5. ~EmitIntoLastBlock
    BY Zenon, <2>3 DEF EmitIntoLastBlock
  <2>. QED
    BY <2>2, <2>3, <2>4, <2>5
<1>3. CASE EmitIntoLastBlock
  <2>1. /\ basic_block_buffer' = basic_block_buffer /\ basic_block_buffer # <<>>
        /\ bba_begin' = bba_begin /\ ~AtCursor(instructions[next].addr)
    BY <1>3 DEF EmitIntoLastBlock
  <2>2. ~EmitIntoNewBlock
    BY <2>1 DEF EmitIntoNewBlock
  <2>3. /\ Len(basic_block_buffer) \in Nat /\ DOMAIN basic_block_buffer = 1 .. Len(basic_block_buffer)
        /\ Len(basic_block_buffer) > 0
    BY <1>1, <2>1
  <2>. QED
    BY <2>1, <2>2, <2>3
<1>. QED
  BY <1>2, <1>3 DEF Emits

LEMMA BlockIdsEmit ==
  ASSUME TypeOK, BlockBeginsAtItsId, Emits
  PROVE  BlockBeginsAtItsId'
<1>. DEFINE L == Len(stream) + 1
            B == Len(basic_block_buffer)
<1>1. /\ DOMAIN stream = 1 .. Len(stream) /\ Len(stream) \in Nat /\ DOMAIN stream' = 1 .. L
      /\ \A i \in DOMAIN stream : stream'[i] = stream[i]
      /\ stream'[L].addr = instructions[next].addr
      /\ stream'[L].block = Len(basic_block_buffer')
  BY Emission
<1>2. /\ B \in Nat /\ DOMAIN basic_block_buffer = 1 .. B
      /\ \A b \in DOMAIN basic_block_buffer : basic_block_buffer'[b] = basic_block_buffer[b]
      /\ \/ /\ DOMAIN basic_block_buffer' = 1 .. B + 1 /\ Len(basic_block_buffer') = B + 1
            /\ basic_block_buffer'[B + 1].id = instructions[next].addr
         \/ basic_block_buffer' = basic_block_buffer
  BY BlockEmission DEF Emits
<1>3. \A i \in DOMAIN stream : stream[i].block \in DOMAIN basic_block_buffer
  BY DEF TypeOK
<1>4. ASSUME NEW i \in DOMAIN stream', NEW j \in DOMAIN stream', i < j
      PROVE  stream'[i].block <= stream'[j].block
  <2>1. i \in DOMAIN stream /\ (j \in DOMAIN stream \/ j = L)
    BY <1>1, <1>4
  <2>2. CASE j \in DOMAIN stream
    BY <1>1, <1>4, <2>1, <2>2 DEF BlockBeginsAtItsId
  <2>3. CASE j = L
    BY <1>1, <1>2, <1>3, <2>1, <2>3
  <2>. QED
    BY <2>1, <2>2, <2>3
<1>5. ASSUME NEW b \in DOMAIN basic_block_buffer'
      PROVE  \E i \in DOMAIN stream' :
               /\ stream'[i].block = b
               /\ stream'[i].addr = basic_block_buffer'[b].id
               /\ \A j \in 1 .. i - 1 : stream'[j].block < b
  <2>1. CASE b \in DOMAIN basic_block_buffer
    <3>1. PICK i \in DOMAIN stream : /\ stream[i].block = b
                                     /\ stream[i].addr = basic_block_buffer[b].id
                                     /\ \A j \in 1 .. i - 1 : stream[j].block < b
      BY <2>1 DEF BlockBeginsAtItsId
    <3>2. i \in DOMAIN stream' /\ \A j \in 1 .. i - 1 : j \in DOMAIN stream
      BY <1>1
    <3>. QED
      BY <1>1, <1>2, <2>1, <3>1, <3>2
  <2>2. CASE b \notin DOMAIN basic_block_buffer
    <3>1. /\ b = B + 1 /\ Len(basic_block_buffer') = b
          /\ basic_block_buffer'[b].id = instructions[next].addr
      BY <1>2, <2>2
    <3>2. L \in DOMAIN stream' /\ \A j \in 1 .. L - 1 : j \in DOMAIN stream
      BY <1>1
    <3>3. \A j \in 1 .. L - 1 : stream'[j].block < b
      BY <1>1, <1>2, <1>3, <3>1, <3>2
    <3>. QED
      BY <1>1, <3>1, <3>2, <3>3
  <2>. QED
    BY <2>1, <2>2
<1>. QED
  BY <1>4, <1>5 DEF BlockBeginsAtItsId

\* Only the second loop opens blocks.
LEMMA BlocksUnchanged ==
  ASSUME [Next]_vars, ~Emits
  PROVE  UNCHANGED basic_block_buffer
BY DEF Emits, Next, Step, RunDisassembler, SkipSymbol, FetchSymbol, Decode, DecodeStops,
       EmitThrows, SymbolDone, RunReturns, RunThrows, FetchThrows, vars, fileVars

LEMMA BlockIdsStep ==
  ASSUME TypeOK, BlockBeginsAtItsId, [Next]_vars
  PROVE  BlockBeginsAtItsId'
<1>1. CASE Emits
  BY <1>1, BlockIdsEmit
<1>2. CASE ~Emits
  BY <1>2, StreamUnchanged, BlocksUnchanged DEF BlockBeginsAtItsId
<1>. QED
  BY <1>1, <1>2

-----------------------------------------------------------------------------
(* The cursor.                                                             *)

\* No leader up to address a stops the cursor.
Clear(a) == \A leader \in Misaligned : a < leader

\* As long as nothing has stopped it, the cursor is behind the instruction
\* that was emitted last, and that one is in the last block.
CursorInv ==
  /\ pc \in {"decode", "emit"} => Address(image, sym) \in basic_block_addresses
  /\ pc = "emit" =>
       /\ next - 1 <= Len(stream)
       /\ next = 1 => bba_begin = basic_block_addresses
       /\ next > 1 =>
            /\ EmittedNow(next - 1).block = Len(basic_block_buffer)
            /\ Clear(instructions[next - 1].addr) =>
                 bba_begin = {leader \in basic_block_addresses :
                                instructions[next - 1].addr < leader}

BlocksInv == CursorInv /\ BlocksFollowLeaders

\* With a clear way to the next instruction, the cursor has no leader below
\* it, and stands on it if and only if it is a leader.
LEMMA CursorReaches ==
  ASSUME TypeOK, SweepInv, CursorInv, pc = "emit", next \in DOMAIN instructions,
         Clear(instructions[next].addr)
  PROVE  LET a == instructions[next].addr
         IN  /\ bba_begin \subseteq basic_block_addresses
             /\ \A leader \in bba_begin : a <= leader
             /\ AtCursor(a) <=> a \in basic_block_addresses
             /\ \A leader \in basic_block_addresses : leader \in bba_begin \/ leader < a
             /\ next = 1 => a \in basic_block_addresses
             /\ next > 1 => /\ instructions[next - 1].addr < a
                            /\ Clear(instructions[next - 1].addr)
                            /\ \A leader \in basic_block_addresses :
                                 leader \in bba_begin <=> instructions[next - 1].addr < leader
<1>. DEFINE a == instructions[next].addr
            p == instructions[next - 1].addr
<1>1. /\ instructions \in Seq(Instruction) /\ next \in 1 .. Len(instructions)
      /\ basic_block_addresses \subseteq Nat
  BY DEF TypeOK, Addresses
<1>2. \A i \in DOMAIN instructions : instructions[i].addr \in Nat
  <2>1. \A i \in DOMAIN instructions : instructions[i] \in Instruction
    BY <1>1
  <2>. QED
    BY <2>1 DEF Instruction, Addresses
<1>3. \A i, j \in DOMAIN instructions : i < j => instructions[i].addr < instructions[j].addr
  BY DEF SweepInv
<1>4. Misaligned \subseteq Nat /\ \A leader \in Misaligned : a < leader
  BY <1>1 DEF Misaligned, Clear
<1>5. next > 1 => next - 1 \in DOMAIN instructions /\ p < a /\ Clear(p)
  <2>1. next > 1 => next - 1 \in DOMAIN instructions /\ next - 1 < next
    BY <1>1
  <2>2. next > 1 => p < a
    BY <1>3, <2>1
  <2>3. next > 1 => \A leader \in Misaligned : p < leader
    BY <1>2, <1>4, <2>1, <2>2
  <2>. QED
    BY <2>1, <2>2, <2>3 DEF Clear
<1>6. bba_begin = {leader \in basic_block_addresses : next > 1 => p < leader}
  <2>1. CASE next = 1
    BY <1>1, <2>1 DEF CursorInv
  <2>2. CASE next > 1
    BY <1>5, <2>2 DEF CursorInv
  <2>. QED
    BY <1>1, <2>1, <2>2
<1>7. ASSUME NEW leader \in bba_begin, leader < a
      PROVE  FALSE
  <2>1. leader \notin Starts
    <3>1. SUFFICES ASSUME NEW i \in DOMAIN instructions, leader = instructions[i].addr
                   PROVE  FALSE
      BY DEF Starts
    <3>2. i \in Nat /\ i >= next => a <= instructions[i].addr
      BY <1>1, <1>2, <1>3
    <3>3. i < next
      BY <1>1, <1>2, <1>7, <3>1, <3>2
    <3>4. next > 1 /\ (i = next - 1 \/ i < next - 1)
      BY <1>1, <3>3
    <3>5. instructions[i].addr <= p
      BY <1>2, <1>3, <1>5, <3>4
    <3>6. p < leader
      BY <1>6, <1>7, <3>4
    <3>. QED
      BY <1>2, <1>5, <3>1, <3>4, <3>5, <3>6
  <2>2. a \in Starts
    BY DEF Starts
  <2>3. leader \in Misaligned
    BY <1>6, <1>7, <2>1, <2>2 DEF Misaligned
  <2>4. a < leader /\ leader \in Nat
    BY <1>4, <2>3
  <2>5. a \in Nat
    BY <1>2
  <2>. HIDE DEF a
  <2>. QED
    BY <1>7, <2>4, <2>5
<1>8. bba_begin \subseteq basic_block_addresses /\ bba_begin \subseteq Nat /\ a \in Nat
  BY <1>1, <1>2, <1>6
<1>9. ASSUME NEW leader \in bba_begin
      PROVE  a <= leader
  <2>1. leader \in Nat /\ a \in Nat /\ ~(leader < a)
    BY <1>7, <1>8
  <2>. HIDE DEF a
  <2>. QED
    BY <2>1
<1>10. a \in basic_block_addresses <=> a \in bba_begin
  BY <1>5, <1>6, <1>8
<1>11. AtCursor(a) <=> a \in basic_block_addresses
  BY <1>9, <1>10 DEF AtCursor
<1>12. next = 1 => a \in basic_block_addresses
  <2>1. instructions # <<>>
    BY <1>1
  <2>2. next = 1 => a = Address(image, sym)
    BY <2>1 DEF SweepInv
  <2>. QED
    BY <2>2 DEF CursorInv
<1>13. ASSUME NEW leader \in basic_block_addresses, leader \notin bba_begin
       PROVE  leader < a
  <2>1. next > 1 /\ ~(p < leader)
    BY <1>6, <1>13
  <2>. QED
    BY <1>1, <1>2, <1>5, <2>1
<1>14. next > 1 => \A leader \in basic_block_addresses : leader \in bba_begin <=> p < leader
  BY <1>6
<1>. QED
  BY <1>5, <1>8, <1>9, <1>11, <1>12, <1>13, <1>14

\* Where the instructions of the current symbol are in the stream, before and
\* after one more of them is emitted.
LEMMA EmittedThen ==
  ASSUME TypeOK, CursorInv, Emits
  PROVE  /\ \A i \in 1 .. next - 1 : /\ EmittedNow(i)' = EmittedNow(i)
                                     /\ EmittedNow(i).block \in DOMAIN basic_block_buffer
         /\ \A i \in Nat : i = next => EmittedNow(i)' = stream'[Len(stream) + 1]
<1>1. /\ next \in Nat \ {0} /\ next' = next + 1 /\ pc = "emit"
      /\ DOMAIN stream = 1 .. Len(stream) /\ Len(stream) \in Nat
      /\ Len(stream') = Len(stream) + 1
      /\ \A i \in DOMAIN stream : stream'[i] = stream[i]
  BY Emission
<1>2. next - 1 <= Len(stream)
  BY <1>1 DEF CursorInv
<1>3. ASSUME NEW i \in 1 .. next - 1
      PROVE  EmittedNow(i)' = EmittedNow(i) /\ EmittedNow(i).block \in DOMAIN basic_block_buffer
  <2>. DEFINE x == Len(stream) - (next - 1) + i
  <2>1. x \in 1 .. Len(stream) /\ Len(stream') - (next' - 1) + i = x
    BY <1>1, <1>2
  <2>2. EmittedNow(i)' = stream'[x] /\ EmittedNow(i) = stream[x]
    BY <2>1 DEF EmittedNow
  <2>. HIDE DEF x
  <2>3. x \in DOMAIN stream
    BY <1>1, <2>1
  <2>. QED
    BY <1>1, <2>2, <2>3 DEF TypeOK
<1>4. ASSUME NEW i \in Nat, i = next
      PROVE  EmittedNow(i)' = stream'[Len(stream) + 1]
  <2>1. Len(stream') - (next' - 1) + i = Len(stream) + 1
    BY <1>1, <1>4
  <2>. QED
    BY <2>1 DEF EmittedNow
<1>. QED
  BY <1>3, <1>4

LEMMA CursorEmits ==
  ASSUME TypeOK, SweepInv, CursorInv, Emits
  PROVE  CursorInv'
<1>. DEFINE a == instructions[next].addr
<1>1. /\ pc = "emit" /\ next \in DOMAIN instructions /\ next \in Nat \ {0} /\ next' = next + 1
      /\ UNCHANGED <<image, pc, sym, instructions, basic_block_addresses>>
      /\ Len(stream) \in Nat /\ Len(stream') = Len(stream) + 1
      /\ stream'[Len(stream) + 1].block = Len(basic_block_buffer')
      /\ a \in Nat
  <2>1. instructions[next] \in Instruction
    BY Emission
  <2>. QED
    BY <2>1, Emission DEF Instruction, Addresses
<1>2. Address(image, sym)' = Address(image, sym) /\ Misaligned' = Misaligned
  BY <1>1 DEF Address, Misaligned, Starts
<1>3. next - 1 <= Len(stream) /\ Address(image, sym) \in basic_block_addresses
  BY <1>1 DEF CursorInv
<1>4. next' - 1 <= Len(stream') /\ next' > 1 /\ next' - 1 = next
  BY <1>1, <1>3
<1>5. stream'[Len(stream') - (next' - 1) + (next' - 1)].block = Len(basic_block_buffer')
  <2>1. Len(stream') - (next' - 1) + (next' - 1) = Len(stream) + 1
    BY <1>1
  <2>. QED
    BY <1>1, <2>1
<1>6. ASSUME Clear(a)
      PROVE  bba_begin' = {leader \in basic_block_addresses : a < leader}
  <2>1. /\ bba_begin \subseteq basic_block_addresses /\ basic_block_addresses \subseteq Nat
        /\ \A leader \in bba_begin : a <= leader
        /\ AtCursor(a) <=> a \in basic_block_addresses
        /\ \A leader \in basic_block_addresses : leader \in bba_begin \/ leader < a
    <3>1. basic_block_addresses \subseteq Nat
      BY DEF TypeOK, Addresses
    <3>. HIDE DEF a
    <3>2. a = instructions[next].addr
      BY DEF a
    <3>3. Clear(instructions[next].addr)
      BY <1>6, <3>2
    <3>. QED
      BY <1>1, <3>1, <3>2, <3>3, CursorReaches
  <2>2. \/ bba_begin' = bba_begin \ {a}
        \/ bba_begin' = bba_begin /\ ~AtCursor(a)
    BY BlockEmission DEF Emits
  <2>3. a \notin bba_begin'
    BY <2>1, <2>2
  <2>4. \A leader : leader \in bba_begin' => leader \in bba_begin
    BY <2>2
  <2>5. \A leader \in bba_begin : leader # a => leader \in bba_begin'
    BY <2>2
  <2>. HIDE DEF a
  <2>6. \A leader : leader \in bba_begin' => leader \in basic_block_addresses /\ a < leader
    <3>1. SUFFICES ASSUME NEW leader \in bba_begin'
                   PROVE  leader \in basic_block_addresses /\ a < leader
      OBVIOUS
    <3>2. leader \in bba_begin /\ leader \in Nat /\ leader # a
      BY <2>1, <2>3, <2>4
    <3>. QED
      BY <1>1, <2>1, <3>2
  <2>7. \A leader \in basic_block_addresses : a < leader => leader \in bba_begin'
    <3>1. SUFFICES ASSUME NEW leader \in basic_block_addresses, a < leader
                   PROVE  leader \in bba_begin'
      OBVIOUS
    <3>2. leader \in Nat /\ ~(leader < a) /\ leader # a
      BY <1>1, <2>1, <3>1
    <3>. QED
      BY <2>1, <2>5, <3>2
  <2>. QED
    BY <2>6, <2>7
<1>7. Clear(a) => bba_begin' = {leader \in basic_block_addresses : a < leader}
  BY <1>6
<1>8. instructions'[next' - 1].addr = a
  BY <1>1, <1>4
<1>. HIDE DEF a
<1>. QED
  BY <1>1, <1>2, <1>3, <1>4, <1>5, <1>7, <1>8 DEF CursorInv, EmittedNow, Clear

LEMMA BlocksEmit ==
  ASSUME TypeOK, SweepInv, BlocksInv, Emits
  PROVE  BlocksFollowLeaders'
<1>. DEFINE a == instructions[next].addr
            B == Len(basic_block_buffer)
<1>1. /\ pc = "emit" /\ next \in DOMAIN instructions /\ next \in Nat \ {0} /\ next' = next + 1
      /\ UNCHANGED <<image, pc, sym, instructions, basic_block_addresses>>
      /\ stream'[Len(stream) + 1].block = Len(basic_block_buffer')
      /\ stream'[Len(stream) + 1].addr = a
      /\ a \in Nat
  <2>1. instructions[next] \in Instruction
    BY Emission
  <2>. QED
    BY <2>1, Emission DEF Instruction, Addresses
<1>2. Misaligned' = Misaligned /\ CursorInv /\ BlocksFollowLeaders
  BY <1>1 DEF Misaligned, Starts, BlocksInv
<1>3. ASSUME NEW i \in 1 .. next - 1, Clear(instructions[i].addr)
      PROVE  LET block == basic_block_buffer[EmittedNow(i).block]
             IN  /\ EmittedNow(i).addr = instructions[i].addr
                 /\ block.parent = sym
                 /\ block.id \in basic_block_addresses
                 /\ block.id <= instructions[i].addr
                 /\ \A leader \in basic_block_addresses :
                      leader <= block.id \/ instructions[i].addr < leader
  BY <1>1, <1>2, <1>3 DEF BlocksFollowLeaders, Clear
<1>4. ASSUME NEW i \in 1 .. next - 1, Clear(instructions[i].addr)
      PROVE  LET block == basic_block_buffer'[EmittedNow(i)'.block]
             IN  /\ EmittedNow(i)'.addr = instructions[i].addr
                 /\ block.parent = sym
                 /\ block.id \in basic_block_addresses
                 /\ block.id <= instructions[i].addr
                 /\ \A leader \in basic_block_addresses :
                      leader <= block.id \/ instructions[i].addr < leader
  <2>1. /\ EmittedNow(i)' = EmittedNow(i)
        /\ EmittedNow(i).block \in DOMAIN basic_block_buffer
    BY <1>2, EmittedThen
  <2>2. basic_block_buffer'[EmittedNow(i)'.block] = basic_block_buffer[EmittedNow(i).block]
    BY <2>1, BlockEmission
  <2>. QED
    BY <1>3, <1>4, <2>1, <2>2
<1>5. ASSUME Clear(a)
      PROVE  LET block == basic_block_buffer'[Len(basic_block_buffer')]
             IN  /\ block.parent = sym
                 /\ block.id \in basic_block_addresses
                 /\ block.id <= a
                 /\ \A leader \in basic_block_addresses : leader <= block.id \/ a < leader
  <2>1. /\ basic_block_addresses \subseteq Nat
        /\ \A leader \in bba_begin : a <= leader
        /\ AtCursor(a) <=> a \in basic_block_addresses
        /\ next = 1 => a \in basic_block_addresses
        /\ next > 1 => /\ instructions[next - 1].addr < a
                       /\ Clear(instructions[next - 1].addr)
                       /\ \A leader \in basic_block_addresses :
                            leader \in bba_begin <=> instructions[next - 1].addr < leader
    <3>1. basic_block_addresses \subseteq Nat
      BY DEF TypeOK, Addresses
    <3>. HIDE DEF a
    <3>2. a = instructions[next].addr
      BY DEF a
    <3>3. CursorInv /\ pc = "emit" /\ next \in DOMAIN instructions
          /\ Clear(instructions[next].addr)
      BY <1>1, <1>2, <1>5, <3>2
    <3>. QED
      BY <3>1, <3>2, <3>3, CursorReaches
  <2>2. CASE EmitIntoNewBlock
    <3>. DEFINE b == basic_block_buffer'[Len(basic_block_buffer')]
    <3>1. b.id = a /\ b.parent = sym /\ AtCursor(a)
      BY <2>2, BlockEmission
    <3>. HIDE DEF a, b
    <3>2. a \in basic_block_addresses
      BY <2>1, <3>1
    <3>3. \A leader \in basic_block_addresses : leader <= a \/ a < leader
      BY <1>1, <2>1
    <3>4. b.parent = sym /\ b.id \in basic_block_addresses
      BY <3>1, <3>2
    <3>5. \A leader \in basic_block_addresses : leader <= b.id \/ a < leader
      BY <3>1, <3>3
    <3>6. a \in Nat
      BY <1>1
    <3>7. b.id <= a
      BY <3>1, <3>6
    <3>. QED
      BY <3>4, <3>5, <3>7 DEF b
  <2>3. CASE EmitIntoLastBlock
    <3>. DEFINE b == basic_block_buffer[B]
                p == instructions[next - 1].addr
    <3>1. basic_block_buffer' = basic_block_buffer /\ ~AtCursor(a)
      BY <2>3, BlockEmission
    <3>2. a \notin basic_block_addresses /\ next > 1
      BY <1>1, <2>1, <3>1
    <3>3. EmittedNow(next - 1).block = B /\ next - 1 \in 1 .. next - 1
      BY <1>1, <1>2, <3>2 DEF CursorInv
    <3>4. /\ b.parent = sym /\ b.id \in basic_block_addresses /\ b.id <= p
          /\ \A leader \in basic_block_addresses : leader <= b.id \/ p < leader
      BY <1>3, <2>1, <3>2, <3>3
    <3>5. p < a /\ p \in Nat
      <4>1. next - 1 \in DOMAIN instructions
        BY <1>1, <3>2 DEF TypeOK
      <4>2. instructions[next - 1] \in Instruction
        BY <4>1 DEF TypeOK
      <4>. QED
        BY <2>1, <3>2, <4>2 DEF Instruction, Addresses
    <3>6. \A leader \in basic_block_addresses : p < leader => a <= leader
      BY <2>1, <3>2
    <3>. HIDE DEF a, b, p
    <3>7. \A leader \in basic_block_addresses : leader <= b.id \/ a < leader
      <4>1. SUFFICES ASSUME NEW leader \in basic_block_addresses, p < leader
                     PROVE  a < leader
        BY <3>4
      <4>2. a <= leader /\ leader # a /\ leader \in Nat
        BY <2>1, <3>2, <3>6, <4>1
      <4>. QED
        BY <1>1, <4>2
    <3>8. b.id \in Nat
      BY <2>1, <3>4
    <3>9. b.id <= p /\ p \in Nat /\ p < a /\ a \in Nat
      BY <1>1, <3>4, <3>5
    <3>10. b.id <= a
      BY <3>8, <3>9
    <3>. QED
      BY Zenon, <3>1, <3>4, <3>7, <3>10 DEF b
  <2>. QED
    BY <2>2, <2>3 DEF Emits
<1>6. ASSUME NEW i \in 1 .. next, Clear(instructions[i].addr)
      PROVE  LET block == basic_block_buffer'[EmittedNow(i)'.block]
             IN  /\ EmittedNow(i)'.addr = instructions[i].addr
                 /\ block.parent = sym
                 /\ block.id \in basic_block_addresses
                 /\ block.id <= instructions[i].addr
                 /\ \A leader \in basic_block_addresses :
                      leader <= block.id \/ instructions[i].addr < leader
  <2>1. CASE i = next
    <3>1. EmittedNow(i)' = stream'[Len(stream) + 1]
      BY <1>1, <1>2, <2>1, EmittedThen
    <3>. QED
      BY <1>1, <1>5, <1>6, <2>1, <3>1
  <2>2. CASE i # next
    <3>1. i \in 1 .. next - 1
      BY <1>1, <2>2
    <3>. QED
      BY <1>4, <1>6, <3>1
  <2>. QED
    BY <2>1, <2>2
<1>7. 1 .. next' - 1 = 1 .. next
  BY <1>1
<1>. QED
  BY <1>1, <1>2, <1>6, <1>7 DEF BlocksFollowLeaders, Clear

LEMMA BlocksStep ==
  ASSUME TypeOK, SweepInv, BlocksInv, [Next]_vars
  PROVE  BlocksInv'
<1>1. CASE Emits
  BY <1>1, CursorEmits, BlocksEmit DEF BlocksInv
<1>2. CASE FetchSymbol
  BY <1>2 DEF FetchSymbol, BlocksInv, CursorInv, BlocksFollowLeaders, Address
<1>3. CASE Decode
  <2>1. /\ pc = "decode" /\ pc' = "decode" /\ UNCHANGED <<image, sym>>
        /\ basic_block_addresses \subseteq basic_block_addresses'
    BY <1>3 DEF Decode
  <2>2. Address(image, sym)' = Address(image, sym)
    BY <2>1 DEF Address
  <2>. QED
    BY <2>1, <2>2 DEF BlocksInv, CursorInv, BlocksFollowLeaders
<1>4. CASE DecodeStops
  <2>1. /\ pc = "decode" /\ pc' = "emit" /\ UNCHANGED <<image, sym, stream, basic_block_addresses>>
        /\ bba_begin' = basic_block_addresses /\ next' = 1
    BY <1>4 DEF DecodeStops, fileVars
  <2>2. Address(image, sym)' = Address(image, sym)
    BY <2>1 DEF Address
  <2>3. Len(stream) \in Nat
    BY DEF TypeOK
  <2>. QED
    BY <2>1, <2>2, <2>3 DEF BlocksInv, CursorInv, BlocksFollowLeaders
<1>5. CASE RunDisassembler \/ SkipSymbol \/ SymbolDone \/ EmitThrows \/ RunReturns
          \/ RunThrows \/ FetchThrows
  BY <1>5 DEF RunDisassembler, SkipSymbol, SymbolDone, EmitThrows, RunReturns, RunThrows,
     FetchThrows, BlocksInv, CursorInv, BlocksFollowLeaders
<1>6. CASE UNCHANGED vars
  BY <1>6 DEF vars, fetchVars, fileVars, BlocksInv, CursorInv, BlocksFollowLeaders,
     EmittedNow, Misaligned, Starts, Clear, Address
<1>. QED
  BY <1>1, <1>2, <1>3, <1>4, <1>5, <1>6 DEF Next, Step, Emits

-----------------------------------------------------------------------------
(* A file without a disassembler.                                          *)

\* Nothing was ever emitted of it, and the walk has met no function yet.
SupportInv ==
  ~image.supported =>
    /\ stream = <<>>
    /\ pc = "symbols" => \A k \in DOMAIN image.syms : k < sym => ~HasFunctionFlag(image, k)

LEMMA SupportStep ==
  ASSUME TypeOK, FetchInv, SupportInv, [Next]_vars
  PROVE  SupportInv'
<1>1. CASE Emits
  BY <1>1, Emission DEF FetchInv, SupportInv
<1>2. CASE ~Emits
  <2>. SUFFICES ASSUME ~image'.supported
                PROVE  /\ stream' = <<>>
                       /\ pc' = "symbols" =>
                            \A k \in DOMAIN image'.syms :
                              k < sym' => ~HasFunctionFlag(image', k)
    BY DEF SupportInv, HasFunctionFlag
  <2>1. image' = image /\ stream' = stream /\ ~image.supported /\ stream = <<>>
    BY <1>2, StreamUnchanged DEF SupportInv
  <2>2. pc = "symbols" => \A k \in DOMAIN image.syms : k < sym => ~HasFunctionFlag(image, k)
    BY <2>1 DEF SupportInv
  <2>3. CASE RunDisassembler
    <3>1. sym' = 1 /\ \A k \in DOMAIN image.syms : ~(k < 1)
      BY <2>3, Here DEF RunDisassembler
    <3>. QED
      BY <2>1, <3>1
  <2>4. CASE SkipSymbol
    <3>1. sym' = sym + 1 /\ pc = "symbols" /\ ~HasFunctionFlag(image, sym)
      BY <2>4 DEF SkipSymbol
    <3>2. \A k \in DOMAIN image.syms : k < sym + 1 => k < sym \/ k = sym
      BY Here
    <3>. QED
      BY <2>1, <2>2, <3>1, <3>2
  <2>5. CASE RunThrows
    BY <2>1, <2>2, <2>5 DEF RunThrows
  <2>6. CASE FetchSymbol \/ Decode \/ DecodeStops \/ SymbolDone
    <3>1. image.supported
      BY <2>6 DEF FetchSymbol, Decode, DecodeStops, SymbolDone, FetchInv
    <3>. QED
      BY <2>1, <3>1
  <2>7. CASE EmitThrows \/ FetchThrows \/ RunReturns
    BY <2>1, <2>7 DEF EmitThrows, FetchThrows, RunReturns
  <2>8. CASE UNCHANGED vars
    BY <2>1, <2>2, <2>8 DEF vars
  <2>. QED
    BY <1>2, <2>3, <2>4, <2>5, <2>6, <2>7, <2>8 DEF Next, Step, Emits
<1>. QED
  BY <1>1, <1>2

-----------------------------------------------------------------------------
(* Theorems.                                                               *)

SafetyInv ==
  /\ TypeOK /\ FetchInv /\ SweepInv /\ SupportInv
  /\ ViewsInsideBuffers /\ TextIsOfAddress /\ OrderInv
  /\ BlockBeginsAtItsId /\ BlocksInv

LEMMA SafetyInvariant == Spec => []SafetyInv
<1>1. Init => SafetyInv
  <2>1. Init => TypeOK /\ FetchInv
    BY InitType
  <2>2. Init => /\ SweepInv /\ SupportInv
                /\ ViewsInsideBuffers /\ TextIsOfAddress /\ OrderInv
    BY DEF Init, SweepInv, SupportInv, ViewsInsideBuffers, TextIsOfAddress, OrderInv, FrontierInv,
       AscendingStream
  <2>3. Init => BlockBeginsAtItsId /\ BlocksInv
    BY DEF Init, BlockBeginsAtItsId, BlocksInv, CursorInv, BlocksFollowLeaders
  <2>. QED
    BY <2>1, <2>2, <2>3 DEF SafetyInv
<1>2. SafetyInv /\ [Next]_vars => SafetyInv'
  <2>. SUFFICES ASSUME SafetyInv, [Next]_vars PROVE SafetyInv'
    OBVIOUS
  <2>1. /\ TypeOK /\ FetchInv /\ SweepInv /\ ViewsInsideBuffers /\ TextIsOfAddress /\ OrderInv
        /\ BlockBeginsAtItsId /\ BlocksInv /\ SupportInv
    BY DEF SafetyInv
  <2>2. TypeOK' /\ FetchInv'
    BY <2>1, TypeStep
  <2>3. SweepInv'
    BY <2>1, SweepStep
  <2>4. ViewsInsideBuffers'
    BY <2>1, ViewsStep
  <2>5. TextIsOfAddress'
    BY <2>1, TextStep
  <2>6. OrderInv'
    BY <2>1, OrderStep
  <2>7. BlockBeginsAtItsId'
    BY <2>1, BlockIdsStep
  <2>8. BlocksInv'
    BY <2>1, BlocksStep
  <2>9. SupportInv'
    BY <2>1, SupportStep
  <2>. QED
    BY <2>2, <2>3, <2>4, <2>5, <2>6, <2>7, <2>8, <2>9 DEF SafetyInv
<1>. QED
  BY <1>1, <1>2, PTL DEF Spec

\* No view of an emitted instruction leaves the copy of its section, in any
\* file: fetch needs no check of offset against buffer_length.
THEOREM ViewsSafe == Spec => []ViewsInsideBuffers
BY SafetyInvariant, PTL DEF SafetyInv

\* The text of an emitted instruction is that of its own address, in any file:
\* the fake file was emptied at the right moments.
THEOREM TextsRight == Spec => []TextIsOfAddress
BY SafetyInvariant, PTL DEF SafetyInv

\* Each call emits strictly ascending addresses, in any file in which no
\* function is one by an alias only: closest_ite is enough to keep the sweeps
\* of the functions apart.
THEOREM StreamAscends == Spec => []AscendingStream
BY SafetyInvariant, PTL DEF SafetyInv, OrderInv

\* In any file every block begins with the instruction at its id, has one, and
\* is not left and entered again: a consumer that compares each block with the
\* one before prints each header once.
THEOREM BlockIds == Spec => []BlockBeginsAtItsId
BY SafetyInvariant, PTL DEF SafetyInv

\* In any file, below the first leader that stops the cursor, every
\* instruction is in the block of its own function that begins at the greatest
\* leader not above it: fetch divides functions without such leaders rightly.
THEOREM BlocksRight == Spec => []BlocksFollowLeaders
BY SafetyInvariant, PTL DEF SafetyInv, BlocksInv

\* In any file a call can end before its walk, by one of the assertions of
\* fetch, only before the file has emitted its first instruction.
THEOREM ThrowsEarly == Spec => ThrowsBeforeFirstInstruction
<1>1. ASSUME TypeOK, SupportInv, [Next]_vars, pc # "idle", pc' = "idle", sym \in DOMAIN image.syms
      PROVE  stream = <<>>
  <2>1. EmitThrows \/ FetchThrows
    BY <1>1 DEF Next, Step, RunDisassembler, RunThrows, SkipSymbol, FetchSymbol, Decode,
       DecodeStops, EmitIntoNewBlock, EmitIntoLastBlock, SymbolDone, RunReturns, vars
  <2>2. CASE FetchThrows
    BY <1>1, <2>2 DEF FetchThrows, SupportInv
  <2>3. CASE EmitThrows
    <3>1. basic_block_buffer = <<>>
      BY <2>3 DEF EmitThrows
    <3>2. \A i \in DOMAIN stream : FALSE
      BY <1>1, <3>1 DEF TypeOK
    <3>3. stream \in Seq(Emitted)
      BY <1>1 DEF TypeOK
    <3>4. Len(stream) \in Nat /\ DOMAIN stream = 1 .. Len(stream)
      BY <3>3
    <3>5. Len(stream) = 0
      BY <3>2, <3>4
    <3>. QED
      BY <3>3, <3>5, EmptySeq
  <2>. QED
    BY <2>1, <2>2, <2>3
<1>. QED
  BY <1>1, SafetyInvariant, PTL DEF Spec, SafetyInv, ThrowsBeforeFirstInstruction

-----------------------------------------------------------------------------
(* The linear sweep.                                                       *)

\* An address that the sweep of function k visits if it gets there, and the
\* functions that have something to sweep.
Swept(k, a) ==
  DecodedSize(Parent(image, k), a) > 0 /\ a - Address(image, k) < ToInt(SymbolSize(image, k))
Begins(k) == HasFunctionFlag(image, k) /\ Swept(k, Address(image, k))

\* This call has emitted something; what it emitted last, and what is behind.
Mine      == stream # <<>> /\ stream[Len(stream)].run = run
MineSym   == IF Mine THEN stream[Len(stream)].sym ELSE 0
MineAfter == LET last == stream[Len(stream)]
             IN  last.addr + DecodedSize(Parent(image, last.sym), last.addr)

\* What is next, if anything, is in function n or in a later one.
Before(n) ==
  /\ MineSym < n
  /\ Mine => ~Swept(MineSym, MineAfter)
  /\ \A j \in DOMAIN image.syms : MineSym < j /\ j < n => ~Begins(j)

\* The instructions collected are those of the sweep, each where the one
\* before it ends.
ChainInv ==
  pc \in {"decode", "emit"} =>
    /\ max_offset = ToInt(SymbolSize(image, sym))
    /\ \A i \in DOMAIN instructions :
         LET n == instructions[i]
         IN  /\ n.size = DecodedSize(Parent(image, sym), n.addr)
             /\ Swept(sym, n.addr)
             /\ i = Len(instructions) => n.addr + n.size = Address(image, sym) + offset
             /\ i < Len(instructions) => n.addr + n.size = instructions[i + 1].addr

\* Where the walk and the loops are in the sweep of the file.
PlaceInv ==
  /\ \A i \in DOMAIN stream : stream[i].run <= run
  /\ pc \in {"symbols", "decode"} => Before(sym)
  /\ pc = "emit" =>
       /\ ~Swept(sym, Address(image, sym) + offset)
       /\ next = 1 => Before(sym)
       /\ next > 1 => /\ Mine /\ stream[Len(stream)].sym = sym
                      /\ stream[Len(stream)].addr = instructions[next - 1].addr

\* LinearSweep asks the same questions of the same image.
LEMMA PromiseAsks ==
  ASSUME NEW k, NEW a
  PROVE  /\ Promise!InSweep(k, a) <=> Swept(k, a)
         /\ Promise!Start(k) <=> Begins(k)
         /\ Promise!DecodedSize(Promise!Parent(image, k), a) = DecodedSize(Parent(image, k), a)
<1>1. /\ Promise!Parent(image, k) = Parent(image, k)
      /\ Promise!Address(image, k) = Address(image, k)
      /\ Promise!HasFunctionFlag(image, k) = HasFunctionFlag(image, k)
  BY Zenon DEF Promise!Parent, Parent, Promise!Address, Address, Promise!HasFunctionFlag,
     HasFunctionFlag
<1>2. /\ \A s : Promise!Readable(s, a) = Readable(s, a)
      /\ \A s : Promise!DecodedSize(s, a) = DecodedSize(s, a)
  BY Zenon DEF Promise!Readable, Readable, Promise!DecodedSize, DecodedSize
<1>3. Promise!SymbolSize(image, k) = SymbolSize(image, k)
  BY Zenon DEF Promise!SymbolSize, SymbolSize, Promise!LaterFunctions, LaterFunctions,
     Promise!ToSectionEnd, ToSectionEnd, Promise!Parent, Parent, Promise!Address, Address,
     Promise!Min, Min
<1>4. \A n : Promise!ToInt(n) = ToInt(n)
  BY Zenon DEF Promise!ToInt, ToInt
<1>5. \A b : Promise!InSweep(k, b) = Swept(k, b)
  <2>1. \A b : Promise!DecodedSize(Parent(image, k), b) = DecodedSize(Parent(image, k), b)
    BY Zenon DEF Promise!Readable, Readable, Promise!DecodedSize, DecodedSize
  <2>. QED
    BY Zenon, <1>1, <1>3, <1>4, <2>1 DEF Promise!InSweep, Swept
<1>6. Promise!Start(k) = Begins(k)
  BY Zenon, <1>1, <1>5 DEF Promise!Start, Begins
<1>. QED
  BY Zenon, <1>1, <1>2, <1>5, <1>6

\* What LinearSweep sees of the stream.
Seen == [i \in DOMAIN stream |-> [run  |-> stream[i].run, sym |-> stream[i].sym,
                                  addr |-> stream[i].addr]]

LEMMA SeenIs ==
  ASSUME TypeOK
  PROVE  /\ Len(stream) \in Nat /\ Len(Seen) = Len(stream) /\ DOMAIN Seen = DOMAIN stream
         /\ Seen = <<>> <=> stream = <<>>
         /\ stream # <<>> => Len(stream) \in DOMAIN stream
         /\ \A i \in DOMAIN stream : /\ Seen[i].run = stream[i].run
                                     /\ Seen[i].sym = stream[i].sym
                                     /\ Seen[i].addr = stream[i].addr
<1>1. stream \in Seq(Emitted) /\ Len(stream) \in Nat /\ DOMAIN stream = 1 .. Len(stream)
  BY DEF TypeOK
<1>. DEFINE S == {[run |-> stream[i].run, sym |-> stream[i].sym, addr |-> stream[i].addr] :
                    i \in DOMAIN stream}
<1>2. DOMAIN Seen = 1 .. Len(stream) /\ Seen \in Seq(S)
  BY <1>1 DEF Seen
<1>3. Len(Seen) = Len(stream)
  BY <1>1, <1>2
<1>4. Seen = <<>> <=> stream = <<>>
  BY <1>1, <1>2, <1>3
<1>5. \A i \in DOMAIN stream : /\ Seen[i].run = stream[i].run
                               /\ Seen[i].sym = stream[i].sym
                               /\ Seen[i].addr = stream[i].addr
  BY DEF Seen
<1>. QED
  BY <1>1, <1>2, <1>3, <1>4, <1>5

LEMMA PromiseSees ==
  ASSUME TypeOK
  PROVE  /\ Promise!NoneYet <=> ~Mine
         /\ Promise!LastSym = MineSym
         /\ Promise!Continues <=> Mine /\ Swept(MineSym, MineAfter)
         /\ Mine => Promise!After = MineAfter
<1>1. Promise!NoneYet <=> ~Mine
  BY SeenIs DEF Promise!NoneYet, Mine, Seen
<1>2. Promise!LastSym = MineSym
  <2>1. Promise!LastSym = IF Promise!NoneYet THEN 0 ELSE Seen[Len(Seen)].sym
    BY Zenon DEF Promise!LastSym, Seen
  <2>. QED
    BY <1>1, <2>1, SeenIs DEF MineSym, Mine
<1>3. ASSUME Mine PROVE Promise!After = MineAfter
  <2>1. Promise!After = Seen[Len(Seen)].addr
          + Promise!DecodedSize(Promise!Parent(image, Seen[Len(Seen)].sym), Seen[Len(Seen)].addr)
    BY Zenon DEF Promise!After, Seen
  <2>2. /\ Seen[Len(Seen)].addr = stream[Len(stream)].addr
        /\ Seen[Len(Seen)].sym = stream[Len(stream)].sym
    BY <1>3, SeenIs DEF Mine
  <2>. QED
    BY Zenon, <2>1, <2>2, PromiseAsks DEF MineAfter
<1>4. Promise!Continues <=> Mine /\ Swept(MineSym, MineAfter)
  <2>1. Promise!Continues <=> ~Promise!NoneYet /\ Promise!InSweep(Promise!LastSym, Promise!After)
    BY Zenon DEF Promise!Continues
  <2>2. \A k, a : Promise!InSweep(k, a) <=> Swept(k, a)
    BY Zenon, PromiseAsks
  <2>. QED
    BY Zenon, <1>1, <1>2, <1>3, <2>1, <2>2
<1>. QED
  BY <1>1, <1>2, <1>3, <1>4

\* The guard of the first loop is the condition of the sweep.
LEMMA GuardIsSwept ==
  ASSUME TypeOK, FetchInv, ChainInv, pc = "decode"
  PROVE  DecodeGuard <=> Swept(sym, Address(image, sym) + offset)
<1>. DEFINE a == Address(image, sym) + offset
<1>1. /\ sym \in DOMAIN image.syms /\ WellFormed(image) /\ offset \in Nat /\ i_size \in Int
      /\ i_size = DecodedSize(Parent(image, sym), a)
      /\ max_offset = ToInt(SymbolSize(image, sym))
  BY DEF TypeOK, FetchInv, ChainInv
<1>2. Address(image, sym) \in Nat /\ a \in Nat
  BY <1>1, Here
<1>4. a - Address(image, sym) = offset
  BY <1>1, <1>2
<1>. HIDE DEF a
<1>5. DecodeGuard <=> Swept(sym, a)
  BY <1>1, <1>4 DEF DecodeGuard, Swept
<1>. QED
  BY <1>5 DEF a

\* Nothing of the sweep depends on the local variables of fetch.
LEMMA BeforeKept ==
  ASSUME NEW n, Before(n), stream' = stream, run' = run, image' = image
  PROVE  Before(n)'
  BY DEF Before, MineSym, MineAfter, Mine, Swept, Begins

LEMMA ChainStep ==
  ASSUME TypeOK, FetchInv, SweepInv, ChainInv, [Next]_vars
  PROVE  ChainInv'
<1>1. CASE Decode
  <2>. DEFINE a == Address(image, sym) + offset
              e == [addr |-> a, size |-> i_size, text |-> fake_file, at |-> ViewOffset(offset)]
              N == Len(instructions)
  <2>1. /\ pc = "decode" /\ DecodeGuard /\ instructions' = Append(instructions, e)
        /\ offset' = offset + i_size /\ max_offset' = max_offset /\ pc' = pc
        /\ image' = image /\ sym' = sym
    BY <1>1 DEF Decode
  <2>2. Swept(sym, a) /\ i_size = DecodedSize(Parent(image, sym), a)
    BY <2>1, GuardIsSwept DEF FetchInv
  <2>3. instructions \in Seq(Instruction) /\ offset \in Nat /\ i_size \in Nat
        /\ sym \in DOMAIN image.syms
    BY <2>1 DEF TypeOK, DecodeGuard
  <2>4. Address(image, sym) \in Nat
    BY <2>3, Here
  <2>5. /\ e.addr = a /\ e.size = i_size
        /\ a + i_size = Address(image, sym) + (offset + i_size)
    BY <2>3, <2>4
  <2>6. N > 0 => instructions[N].addr + instructions[N].size = a
    BY <2>1, <2>3 DEF ChainInv
  <2>7. /\ N \in Nat /\ DOMAIN instructions = 1 .. N
        /\ DOMAIN instructions' = 1 .. (N + 1) /\ Len(instructions') = N + 1
        /\ instructions'[N + 1] = e
        /\ \A i \in 1 .. N : instructions'[i] = instructions[i]
    BY <2>1, <2>3
  <2>8. /\ max_offset = ToInt(SymbolSize(image, sym))
        /\ \A i \in 1 .. N :
             /\ instructions[i].size = DecodedSize(Parent(image, sym), instructions[i].addr)
             /\ Swept(sym, instructions[i].addr)
             /\ i < N => instructions[i].addr + instructions[i].size = instructions[i + 1].addr
    BY <2>1, <2>7 DEF ChainInv
  <2>9. \A b : Swept(sym, b)' <=> Swept(sym, b)
    BY <2>1 DEF Swept
  <2>. HIDE DEF e, N, a
  <2>10. ASSUME NEW i \in 1 .. (N + 1)
         PROVE  LET n == instructions'[i]
                IN  /\ n.size = DecodedSize(Parent(image, sym), n.addr)
                    /\ Swept(sym, n.addr)
                    /\ i = N + 1 => n.addr + n.size = Address(image, sym) + (offset + i_size)
                    /\ i < N + 1 => n.addr + n.size = instructions'[i + 1].addr
    <3>1. CASE i = N + 1
      BY <2>2, <2>5, <2>7, <3>1
    <3>2. CASE i = N
      BY <2>5, <2>6, <2>7, <2>8, <3>2
    <3>3. CASE i < N
      <4>1. i \in 1 .. N /\ i + 1 \in 1 .. N
        BY <2>7, <3>3
      <4>. QED
        BY <2>7, <2>8, <3>3, <4>1
    <3>. QED
      BY <2>7, <3>1, <3>2, <3>3
  <2>. QED
    BY <2>1, <2>7, <2>8, <2>10 DEF ChainInv, Swept
<1>2. CASE FetchSymbol
  BY <1>2 DEF FetchSymbol, ChainInv
<1>3. CASE DecodeStops
  BY <1>3 DEF DecodeStops, ChainInv, Swept
<1>4. CASE EmitIntoNewBlock \/ EmitIntoLastBlock
  BY <1>4 DEF EmitIntoNewBlock, EmitIntoLastBlock, ChainInv, Swept
<1>5. CASE RunDisassembler \/ SkipSymbol \/ EmitThrows \/ SymbolDone \/ RunReturns
          \/ RunThrows \/ FetchThrows
  BY <1>5 DEF RunDisassembler, SkipSymbol, EmitThrows, SymbolDone, RunReturns, RunThrows,
     FetchThrows, ChainInv
<1>6. CASE UNCHANGED vars
  BY <1>6 DEF vars, fetchVars, ChainInv, Swept
<1>. QED
  BY <1>1, <1>2, <1>3, <1>4, <1>5, <1>6 DEF Next, Step

LEMMA MineType ==
  ASSUME TypeOK
  PROVE  MineSym \in Nat /\ run \in Nat /\ (Mine => Len(stream) \in DOMAIN stream)
<1>1. run \in Nat
  BY RunsAssumption DEF TypeOK
<1>2. stream # <<>> => Len(stream) \in DOMAIN stream
  BY DEF TypeOK
<1>3. \A i \in DOMAIN stream : stream[i].sym \in Nat
  <2>1. \A i \in DOMAIN stream : stream[i] \in Emitted
    BY DEF TypeOK
  <2>. QED
    BY <2>1 DEF Emitted
<1>. QED
  BY <1>1, <1>2, <1>3 DEF MineSym, Mine

LEMMA BeforeNext ==
  ASSUME TypeOK, NEW n \in Nat, Before(n), ~Begins(n)
  PROVE  Before(n + 1)
<1>1. MineSym \in Nat /\ DOMAIN image.syms \subseteq Nat
  BY MineType, Here
<1>2. \A j \in DOMAIN image.syms : j < n + 1 => j < n \/ j = n
  BY <1>1
<1>. QED
  BY <1>1, <1>2 DEF Before

LEMMA PlaceStep ==
  ASSUME TypeOK, FetchInv, SweepInv, ChainInv, PlaceInv, [Next]_vars
  PROVE  PlaceInv'
<1>1. CASE RunDisassembler
  <2>1. /\ pc' = "symbols" /\ sym' = 1 /\ run' = run + 1 /\ stream' = stream /\ image' = image
    BY <1>1 DEF RunDisassembler, fileVars
  <2>2. run \in Nat /\ stream \in Seq(Emitted) /\ \A i \in DOMAIN stream : stream[i].run \in Nat
    <3>1. stream \in Seq(Emitted) /\ \A i \in DOMAIN stream : stream[i] \in Emitted
      BY DEF TypeOK
    <3>. QED
      BY <3>1, MineType DEF Emitted
  <2>3. \A i \in DOMAIN stream : stream[i].run <= run
    BY DEF PlaceInv
  <2>4. \A i \in DOMAIN stream : stream[i].run <= run + 1 /\ stream[i].run # run + 1
    BY <2>2, <2>3
  <2>5. ~Mine'
    <3>1. stream # <<>> => Len(stream) \in DOMAIN stream
      BY <2>2
    <3>. QED
      BY <2>1, <2>4, <3>1 DEF Mine
  <2>6. MineSym' = 0
    BY <2>5 DEF MineSym
  <2>7. \A j \in DOMAIN image.syms : ~(0 < j /\ j < 1)
    BY Here
  <2>8. Before(sym)'
    BY <2>1, <2>5, <2>6, <2>7 DEF Before
  <2>. QED
    BY <2>1, <2>4, <2>8 DEF PlaceInv
<1>2. CASE SkipSymbol
  <2>1. /\ pc = "symbols" /\ pc' = "symbols" /\ sym' = sym + 1 /\ run' = run /\ stream' = stream
        /\ image' = image /\ ~HasFunctionFlag(image, sym) /\ sym \in Nat
    BY <1>2, Here DEF SkipSymbol, fileVars
  <2>2. Before(sym + 1)
    <3>1. Before(sym) /\ ~Begins(sym)
      BY <2>1 DEF PlaceInv, Begins
    <3>. QED
      BY <2>1, <3>1, BeforeNext
  <2>3. Before(sym)'
    BY <2>1, <2>2 DEF Before, MineSym, MineAfter, Mine, Swept, Begins
  <2>. QED
    BY <2>1, <2>3 DEF PlaceInv
<1>3. CASE FetchSymbol \/ Decode
  <2>1. /\ pc \in {"symbols", "decode"} /\ pc' = "decode"
        /\ UNCHANGED <<sym, run, stream, image>>
    BY <1>3 DEF FetchSymbol, Decode
  <2>2. Before(sym)
    BY <2>1 DEF PlaceInv
  <2>3. Before(sym)'
    BY <2>1, <2>2 DEF Before, MineSym, MineAfter, Mine, Swept, Begins
  <2>. QED
    BY <2>1, <2>3 DEF PlaceInv
<1>4. CASE DecodeStops
  <2>1. /\ pc = "decode" /\ pc' = "emit" /\ next' = 1 /\ ~DecodeGuard
        /\ UNCHANGED <<sym, run, stream, image, offset>>
    BY <1>4 DEF DecodeStops, fileVars
  <2>2. Before(sym) /\ ~Swept(sym, Address(image, sym) + offset)
    BY <2>1, GuardIsSwept DEF PlaceInv
  <2>3. Before(sym)'
    BY <2>1, <2>2 DEF Before, MineSym, MineAfter, Mine, Swept, Begins
  <2>4. ~Swept(sym, Address(image, sym) + offset)'
    BY <2>1, <2>2 DEF Swept
  <2>. QED
    BY <2>1, <2>3, <2>4 DEF PlaceInv
<1>5. CASE Emits
  <2>. DEFINE L == Len(stream) + 1
  <2>1. /\ pc = "emit" /\ pc' = "emit" /\ next \in Nat \ {0} /\ next' = next + 1
        /\ UNCHANGED <<image, sym, run, instructions, offset>>
        /\ DOMAIN stream = 1 .. Len(stream) /\ Len(stream) \in Nat
        /\ DOMAIN stream' = 1 .. L /\ Len(stream') = L
        /\ \A i \in DOMAIN stream : stream'[i] = stream[i]
        /\ stream'[L].run = run /\ stream'[L].sym = sym
        /\ stream'[L].addr = instructions[next].addr
    BY <1>5, Emission
  <2>2. run \in Nat
    BY MineType
  <2>3. \A i \in DOMAIN stream' : stream'[i].run <= run'
    <3>1. \A i \in DOMAIN stream' : i \in DOMAIN stream \/ i = L
      BY <2>1
    <3>2. \A i \in DOMAIN stream : stream[i].run <= run
      BY DEF PlaceInv
    <3>. QED
      BY <2>1, <2>2, <3>1, <3>2
  <2>4. ~Swept(sym, Address(image, sym) + offset)'
    <3>1. ~Swept(sym, Address(image, sym) + offset)
      BY <2>1 DEF PlaceInv
    <3>. QED
      BY <2>1, <3>1 DEF Swept
  <2>5. Mine' /\ stream'[Len(stream')].sym = sym' /\ stream'[Len(stream')].addr = instructions'[next' - 1].addr
    <3>1. stream' # <<>>
      BY <2>1
    <3>2. next' - 1 = next
      BY <2>1
    <3>. QED
      BY <2>1, <3>1, <3>2 DEF Mine
  <2>6. next' # 1
    BY <2>1
  <2>. QED
    BY <2>1, <2>3, <2>4, <2>5, <2>6 DEF PlaceInv
<1>6. CASE SymbolDone
  <2>. DEFINE N == Len(instructions)
  <2>1. /\ pc = "emit" /\ next \notin DOMAIN instructions /\ pc' = "symbols" /\ sym' = sym + 1
        /\ UNCHANGED <<image, run, stream>>
        /\ sym \in Nat
    BY <1>6, Here DEF SymbolDone, fileVars
  <2>2. next = N + 1 /\ N \in Nat /\ DOMAIN instructions = 1 .. N /\ offset \in Nat
    <3>1. next \in 1 .. N + 1 /\ instructions \in Seq(Instruction) /\ offset \in Nat
      BY DEF TypeOK
    <3>. QED
      BY <2>1, <3>1
  <2>3. ~Swept(sym, Address(image, sym) + offset) /\ sym \in DOMAIN image.syms
    BY <2>1 DEF PlaceInv, TypeOK
  <2>4. ASSUME N = 0 PROVE Before(sym + 1)
    <3>1. instructions = <<>>
      BY <2>4 DEF TypeOK
    <3>2. offset = 0 /\ Address(image, sym) \in Nat
      BY <2>1, <2>3, <3>1, Here DEF SweepInv
    <3>3. ~Begins(sym)
      <4>1. Address(image, sym) + offset = Address(image, sym)
        BY <3>2
      <4>. QED
        BY <2>3, <4>1 DEF Begins
    <3>4. Before(sym)
      BY <2>1, <2>2, <2>4 DEF PlaceInv
    <3>. QED
      BY <2>1, <3>3, <3>4, BeforeNext
  <2>5. ASSUME N # 0 PROVE Before(sym + 1)
    <3>1. next > 1 /\ next - 1 = N /\ N \in DOMAIN instructions
      BY <2>2, <2>5
    <3>2. /\ Mine /\ stream[Len(stream)].sym = sym
          /\ stream[Len(stream)].addr = instructions[N].addr
      BY <2>1, <3>1 DEF PlaceInv
    <3>3. /\ instructions[N].size = DecodedSize(Parent(image, sym), instructions[N].addr)
          /\ instructions[N].addr + instructions[N].size = Address(image, sym) + offset
      BY <2>1, <3>1 DEF ChainInv
    <3>4. MineSym = sym /\ MineAfter = Address(image, sym) + offset
      BY <3>2, <3>3 DEF MineSym, MineAfter
    <3>5. ~Swept(MineSym, MineAfter)
      BY <2>3, <3>4
    <3>6. \A j \in DOMAIN image.syms : ~(sym < j /\ j < sym + 1)
      BY <2>1, Here
    <3>7. sym < sym + 1
      BY <2>1
    <3>. QED
      BY <3>4, <3>5, <3>6, <3>7 DEF Before
  <2>6. Before(sym + 1)
    BY <2>4, <2>5
  <2>7. Before(sym)'
    BY <2>1, <2>6 DEF Before, MineSym, MineAfter, Mine, Swept, Begins
  <2>. QED
    BY <2>1, <2>7 DEF PlaceInv
<1>7. CASE EmitThrows \/ RunReturns \/ FetchThrows
  BY <1>7 DEF EmitThrows, RunReturns, FetchThrows, fileVars, PlaceInv
<1>8. CASE UNCHANGED vars
  BY <1>8 DEF vars, fileVars, fetchVars, PlaceInv, Before, MineSym, MineAfter, Mine, Swept, Begins
<1>9. CASE RunThrows
  <2>1. pc = "idle" /\ pc' = "idle" /\ run' = run + 1 /\ stream' = stream
    BY <1>9 DEF RunThrows, fileVars
  <2>2. \A i \in DOMAIN stream : stream[i].run \in Nat /\ stream[i].run <= run
    <3>1. \A i \in DOMAIN stream : stream[i] \in Emitted
      BY DEF TypeOK
    <3>. QED
      BY <3>1 DEF Emitted, PlaceInv
  <2>3. \A i \in DOMAIN stream : stream[i].run <= run + 1
    BY <2>2, MineType
  <2>. QED
    BY <2>1, <2>3 DEF PlaceInv
<1>. QED
  BY <1>1, <1>2, <1>3, <1>4, <1>5, <1>6, <1>7, <1>8, <1>9 DEF Next, Step, Emits

\* What one step of the second loop gives LinearSweep to see.
LEMMA SeenGrows ==
  ASSUME TypeOK, Emits
  PROVE  Seen' = Append(Seen, [run |-> run, sym |-> sym, addr |-> instructions[next].addr])
<1>. DEFINE R == [run : Nat, sym : Nat, addr : Addresses]
            e == [run |-> run, sym |-> sym, addr |-> instructions[next].addr]
            t == Append(Seen, e)
            L == Len(stream) + 1
<1>1. \A i \in DOMAIN stream :
        stream[i].run \in Nat /\ stream[i].sym \in Nat /\ stream[i].addr \in Addresses
  <2>1. \A i \in DOMAIN stream : stream[i] \in Emitted
    BY DEF TypeOK
  <2>. QED
    BY <2>1 DEF Emitted
<1>2. /\ instructions[next].addr \in Addresses /\ sym \in Nat /\ run \in Nat
      /\ DOMAIN stream = 1 .. Len(stream) /\ Len(stream) \in Nat /\ DOMAIN stream' = 1 .. L
      /\ \A i \in DOMAIN stream : stream'[i] = stream[i]
      /\ stream'[L].run = run /\ stream'[L].sym = sym /\ stream'[L].addr = instructions[next].addr
  <2>1. instructions[next] \in Instruction /\ sym \in Nat /\ run \in Nat
    BY Emission, Here, MineType
  <2>2. instructions[next].addr \in Addresses
    BY <2>1 DEF Instruction
  <2>. QED
    BY <2>1, <2>2, Emission
<1>3. e \in R /\ e.run = run /\ e.sym = sym /\ e.addr = instructions[next].addr
  BY <1>2
<1>4. Seen \in Seq(R)
  BY <1>1, <1>2 DEF Seen
<1>5. Len(Seen) = Len(stream) /\ DOMAIN Seen = 1 .. Len(stream)
  BY <1>2, SeenIs
<1>6. Seen' = [i \in 1 .. L |-> [run |-> stream'[i].run, sym |-> stream'[i].sym,
                                 addr |-> stream'[i].addr]]
  BY <1>2 DEF Seen
<1>7. \A i \in 1 .. Len(stream) :
        [run |-> stream'[i].run, sym |-> stream'[i].sym, addr |-> stream'[i].addr] = Seen[i]
  BY <1>2 DEF Seen
<1>8. [run |-> stream'[L].run, sym |-> stream'[L].sym, addr |-> stream'[L].addr] = e
  BY <1>2
<1>. HIDE DEF e, R
<1>9. /\ t \in Seq(R) /\ Len(t) = L
      /\ \A i \in 1 .. Len(stream) : t[i] = Seen[i]
      /\ t[L] = e
  BY <1>2, <1>3, <1>4, <1>5
<1>10. \A i \in 1 .. L : i \in 1 .. Len(stream) \/ i = L
  BY <1>2
<1>. HIDE DEF t
<1>11. \A i \in 1 .. L :
         [run |-> stream'[i].run, sym |-> stream'[i].sym, addr |-> stream'[i].addr] = t[i]
  BY <1>7, <1>8, <1>9, <1>10
<1>12. t = [i \in 1 .. L |-> t[i]]
  BY <1>2, <1>9
<1>13. Seen' = [i \in 1 .. L |-> t[i]]
  BY <1>6, <1>11
<1>. QED
  BY <1>12, <1>13 DEF t, e

\* The instruction that is emitted is the one that is due.
LEMMA EmitIsNext ==
  ASSUME TypeOK, FetchInv, SweepInv, ChainInv, PlaceInv, Emits
  PROVE  Promise!IsNext(sym) /\ Promise!NextAddress(sym) = instructions[next].addr
<1>. DEFINE a == instructions[next].addr
<1>1. pc = "emit" /\ next \in DOMAIN instructions /\ next \in Nat \ {0} /\ sym \in DOMAIN image.syms
  BY Emission
<1>2. Swept(sym, a)
  BY <1>1 DEF ChainInv
<1>3. CASE next = 1
  <2>1. a = Address(image, sym)
    <3>1. instructions # <<>>
      BY <1>1
    <3>. QED
      BY <1>1, <1>3, <3>1 DEF SweepInv
  <2>2. Begins(sym)
    BY <1>1, <1>2, <2>1 DEF Begins, FetchInv
  <2>3. Before(sym)
    BY <1>1, <1>3 DEF PlaceInv
  <2>4. ~Promise!Continues /\ Promise!LastSym = MineSym
    BY <2>3, PromiseSees DEF Before
  <2>5. MineSym < sym /\ \A j \in MineSym + 1 .. sym - 1 : ~Begins(j)
    <3>1. MineSym < sym /\ \A j \in DOMAIN image.syms : MineSym < j /\ j < sym => ~Begins(j)
      BY <2>3 DEF Before
    <3>2. MineSym \in Nat /\ sym \in Nat /\ Len(image.syms) \in Nat /\ sym <= Len(image.syms)
          /\ DOMAIN image.syms = 1 .. Len(image.syms)
      BY <1>1, MineType, Here
    <3>3. \A j \in MineSym + 1 .. sym - 1 : j \in DOMAIN image.syms /\ MineSym < j /\ j < sym
      BY <3>2
    <3>. QED
      BY <3>1, <3>3
  <2>6. sym > MineSym
    BY <2>5
  <2>7. Promise!Address(image, sym) = Address(image, sym)
    BY Zenon DEF Promise!Address, Address
  <2>8. \A j : Promise!Start(j) <=> Begins(j)
    BY Zenon, PromiseAsks
  <2>. HIDE DEF a
  <2>9. /\ ~Promise!Continues
        /\ sym > Promise!LastSym /\ Promise!Start(sym) /\ a = Promise!Address(image, sym)
        /\ \A j \in Promise!LastSym + 1 .. sym - 1 : ~Promise!Start(j)
    BY Zenon, <2>1, <2>2, <2>4, <2>5, <2>6, <2>7, <2>8
  <2>10. Promise!IsNext(sym)
    BY Zenon, <2>9 DEF Promise!IsNext
  <2>11. sym # Promise!LastSym
    BY <2>4, <2>5, <1>1, MineType, Here
  <2>12. Promise!NextAddress(sym) = a
    BY Zenon, <2>9, <2>11 DEF Promise!NextAddress
  <2>. QED
    BY Zenon, <2>10, <2>12 DEF a
<1>4. CASE next # 1
  <2>1. next > 1 /\ next - 1 \in DOMAIN instructions /\ next - 1 < Len(instructions)
        /\ (next - 1) + 1 = next
    <3>1. instructions \in Seq(Instruction)
      BY DEF TypeOK
    <3>. QED
      BY <1>1, <1>4, <3>1
  <2>2. /\ Mine /\ stream[Len(stream)].sym = sym
        /\ stream[Len(stream)].addr = instructions[next - 1].addr
    BY <1>1, <2>1 DEF PlaceInv
  <2>3. /\ instructions[next - 1].size = DecodedSize(Parent(image, sym), instructions[next - 1].addr)
        /\ instructions[next - 1].addr + instructions[next - 1].size = a
    BY <1>1, <2>1 DEF ChainInv
  <2>4. MineSym = sym /\ MineAfter = a
    BY <2>2, <2>3 DEF MineSym, MineAfter
  <2>5. Promise!Continues /\ Promise!LastSym = sym /\ Promise!After = a
    BY Zenon, <1>2, <2>2, <2>4, PromiseSees
  <2>6. Promise!IsNext(sym) /\ Promise!NextAddress(sym) = a
    BY Zenon, <2>5 DEF Promise!IsNext, Promise!NextAddress
  <2>. QED
    BY <2>6
<1>. QED
  BY <1>3, <1>4

\* Every step of the program is a step of the linear sweep, or nothing that it
\* sees: all calls, failures and returns happen when they should.
LEMMA StepRefines ==
  ASSUME TypeOK, FetchInv, SweepInv, SupportInv, ChainInv, PlaceInv, [Next]_vars
  PROVE  [Promise!Next]_(Promise!vars)
<1>1. CASE RunDisassembler
  <2>1. Promise!Call
    BY <1>1 DEF RunDisassembler, Promise!Call, fileVars
  <2>. QED
    BY Zenon, <2>1 DEF Promise!Next
<1>2. CASE Emits
  <2>1. /\ pc = "emit" /\ pc' = "emit" /\ image' = image /\ run' = run
        /\ sym \in DOMAIN image.syms
    BY <1>2, Emission
  <2>2. Promise!IsNext(sym) /\ image.supported
    BY <1>2, <2>1, EmitIsNext DEF FetchInv
  <2>3. Promise!NextAddress(sym) = instructions[next].addr
    BY <1>2, EmitIsNext
  <2>4. Seen' = Append(Seen, [run |-> run, sym |-> sym, addr |-> instructions[next].addr])
    BY <1>2, SeenGrows
  <2>5. pc # "idle" /\ (pc # "idle")' = (pc # "idle")
    BY <2>1
  <2>6. Promise!Emit
    BY Zenon, <2>1, <2>2, <2>3, <2>4, <2>5 DEF Promise!Emit, Seen
  <2>. QED
    BY Zenon, <2>6 DEF Promise!Next
<1>3. CASE EmitThrows
  <2>1. /\ pc = "emit" /\ pc' = "idle" /\ next \in DOMAIN instructions
        /\ basic_block_buffer = <<>> /\ sym \in DOMAIN image.syms
        /\ image' = image /\ run' = run /\ stream' = stream
    BY <1>3 DEF EmitThrows, fileVars, TypeOK
  <2>2. stream = <<>>
    <3>1. \A i \in DOMAIN stream : FALSE
      BY <2>1 DEF TypeOK
    <3>2. stream \in Seq(Emitted)
      BY DEF TypeOK
    <3>. QED
      BY <3>1, <3>2
  <2>3. Begins(sym)
    <3>1. instructions # <<>> /\ 1 \in DOMAIN instructions
      <4>1. instructions \in Seq(Instruction)
        BY DEF TypeOK
      <4>. QED
        BY <2>1, <4>1
    <3>2. instructions[1].addr = Address(image, sym) /\ HasFunctionFlag(image, sym)
      BY <2>1, <3>1 DEF SweepInv, FetchInv
    <3>3. Swept(sym, instructions[1].addr)
      BY <2>1, <3>1 DEF ChainInv
    <3>. QED
      BY <3>2, <3>3 DEF Begins
  <2>4. Seen = <<>> /\ Seen' = Seen
    <3>1. Seen = <<>>
      BY <2>2, SeenIs
    <3>. QED
      BY <2>1, <3>1 DEF Seen
  <2>5. \E k \in DOMAIN image.syms : Promise!Start(k)
    BY Zenon, <2>1, <2>3, PromiseAsks
  <2>6. pc # "idle" /\ (pc # "idle")' = FALSE
    BY <2>1
  <2>7. Promise!Fail
    BY Zenon, <2>1, <2>4, <2>5, <2>6 DEF Promise!Fail, Seen
  <2>. QED
    BY Zenon, <2>7 DEF Promise!Next
<1>4. CASE RunReturns
  <2>1. /\ pc = "symbols" /\ pc' = "idle" /\ sym \notin DOMAIN image.syms
        /\ image' = image /\ run' = run /\ stream' = stream
    BY <1>4 DEF RunReturns, fileVars
  <2>2. Before(sym)
    BY <2>1 DEF PlaceInv
  <2>9. ~Promise!Unsupported
    <3>1. \A k \in DOMAIN image.syms : k < sym
      BY <2>1, Here DEF TypeOK
    <3>2. ~image.supported => \A k \in DOMAIN image.syms : ~HasFunctionFlag(image, k)
      BY <2>1, <3>1 DEF SupportInv
    <3>. QED
      BY Zenon, <3>2 DEF Promise!Unsupported, Promise!HasFunctionFlag, HasFunctionFlag
  <2>3. \A k \in DOMAIN image.syms : k > MineSym => ~Begins(k)
    <3>1. sym \in 1 .. Len(image.syms) + 1
      BY DEF TypeOK
    <3>2. \A k \in DOMAIN image.syms : k < sym
      BY <2>1, <3>1, Here
    <3>3. MineSym \in Nat
      BY MineType
    <3>. QED
      BY <2>2, <3>2, <3>3, Here DEF Before
  <2>4. ~Promise!Continues /\ Promise!LastSym = MineSym
    BY <2>2, PromiseSees DEF Before
  <2>5. \A k \in DOMAIN image.syms : k > Promise!LastSym => ~Promise!Start(k)
    BY Zenon, <2>3, <2>4, PromiseAsks
  <2>6. pc # "idle" /\ (pc # "idle")' = FALSE
    BY <2>1
  <2>7. Seen' = Seen
    BY <2>1 DEF Seen
  <2>8. Promise!Return
    BY Zenon, <2>1, <2>4, <2>5, <2>6, <2>7, <2>9 DEF Promise!Return, Seen
  <2>. QED
    BY Zenon, <2>8 DEF Promise!Next
<1>5. CASE SkipSymbol \/ FetchSymbol \/ Decode \/ DecodeStops \/ SymbolDone \/ UNCHANGED vars
  <2>1. UNCHANGED <<image, run, stream>> /\ (pc # "idle")' = (pc # "idle")
    BY <1>5 DEF SkipSymbol, FetchSymbol, Decode, DecodeStops, SymbolDone, vars, fileVars
  <2>2. Seen' = Seen
    BY <2>1 DEF Seen
  <2>3. UNCHANGED Promise!vars
    BY Zenon, <2>1, <2>2 DEF Promise!vars, Seen
  <2>. QED
    BY <2>3
<1>6. CASE RunThrows
  <2>1. /\ pc = "idle" /\ pc' = "idle" /\ run < MaxRuns /\ run' = run + 1 /\ ~image.readable
        /\ image' = image /\ stream' = stream
    BY <1>6 DEF RunThrows, fileVars
  <2>2. (pc # "idle") = FALSE /\ (pc # "idle")' = (pc # "idle")
    BY <2>1
  <2>3. Seen' = Seen
    BY <2>1 DEF Seen
  <2>4. Promise!Refuse
    BY Zenon, <2>1, <2>2, <2>3 DEF Promise!Refuse, Seen
  <2>. QED
    BY Zenon, <2>4 DEF Promise!Next
<1>7. CASE FetchThrows
  <2>1. /\ pc = "symbols" /\ pc' = "idle" /\ sym \in DOMAIN image.syms
        /\ HasFunctionFlag(image, sym) /\ ~image.supported
        /\ image' = image /\ run' = run /\ stream' = stream
    BY <1>7 DEF FetchThrows
  <2>2. Seen = <<>> /\ Seen' = Seen
    <3>1. Seen = <<>>
      BY <2>1, SeenIs DEF SupportInv
    <3>. QED
      BY <2>1, <3>1 DEF Seen
  <2>3. Promise!Unsupported
    BY Zenon, <2>1 DEF Promise!Unsupported, Promise!HasFunctionFlag, HasFunctionFlag
  <2>4. pc # "idle" /\ (pc # "idle")' = FALSE
    BY <2>1
  <2>5. Promise!Fail
    BY Zenon, <2>1, <2>2, <2>3, <2>4 DEF Promise!Fail, Seen
  <2>. QED
    BY Zenon, <2>5 DEF Promise!Next
<1>. QED
  BY <1>1, <1>2, <1>3, <1>4, <1>5, <1>6, <1>7 DEF Next, Step, Emits

LEMMA RefinementInvariant == Spec => [](SafetyInv /\ ChainInv /\ PlaceInv)
<1>1. Init => ChainInv /\ PlaceInv
  BY DEF Init, ChainInv, PlaceInv
<1>2. SafetyInv /\ ChainInv /\ PlaceInv /\ [Next]_vars => ChainInv' /\ PlaceInv'
  BY ChainStep, PlaceStep DEF SafetyInv
<1>. QED
  BY <1>1, <1>2, SafetyInvariant, PTL DEF Spec

\* In any file every call emits the linear sweep of each function in the order
\* of the table, nothing twice and nothing left out, before it returns; it
\* fails only when the file has emitted nothing yet.
THEOREM SweepsEveryFunction == Spec => ImplementsPromise
<1>1. Init => Promise!Init
  <2>1. Init => WellFormed(image) /\ run = 0 /\ pc = "idle" /\ stream = <<>>
    BY ImagesAssumption DEF Init
  <2>2. WellFormed(image) => Promise!WellFormed(image)
    BY Zenon DEF WellFormed, Promise!WellFormed, Promise!Image, Image, Promise!Section, Section, Promise!Symbol, Symbol,
       Promise!Minus2, Minus2, Promise!Addresses, Addresses, Promise!Decoded, Decoded,
       Promise!Text, Text, Promise!NoNumber, NoNumber
  <2>3. stream = <<>> => Seen = <<>>
    BY DEF Seen
  <2>. QED
    BY Zenon, <2>1, <2>2, <2>3 DEF Promise!Init, Seen
<1>2. SafetyInv /\ ChainInv /\ PlaceInv /\ [Next]_vars => [Promise!Next]_(Promise!vars)
  BY StepRefines DEF SafetyInv
<1>. QED
  BY <1>1, <1>2, RefinementInvariant, PTL DEF Spec, ImplementsPromise, Promise!Spec
=============================================================================
