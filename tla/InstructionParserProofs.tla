---------------------- MODULE InstructionParserProofs ----------------------
(***************************************************************************)
(* What the parser promises for every text: each piece of it becomes a     *)
(* symbol, and every subscriber gets all arguments of an instruction, also *)
(* if it subscribes while another subscription runs.                       *)
(***************************************************************************)
EXTENDS InstructionParser, SequenceTheorems, TLAPS

\* The folds of the parser.
Scanning == INSTANCE FoldProofs WITH Op <- Split
Printing == INSTANCE FoldProofs WITH Op <- Printed

-----------------------------------------------------------------------------
(* Numbers and texts.                                                      *)

LEMMA MinIs ==
  ASSUME NEW T, T \subseteq Nat, T # {}
  PROVE  Min(T) \in T /\ \A y \in T : Min(T) <= y
<1>1. \E x \in T : \A y \in T : x <= y
  BY Scanning!Least
<1>. QED
  BY <1>1 DEF Min

LEMMA MaxIs ==
  ASSUME NEW n \in Nat, NEW T, T \subseteq 0 .. n, T # {}
  PROVE  Max(T) \in T
<1>. DEFINE U == {n - x : x \in T}
<1>1. U \subseteq Nat /\ U # {}
  <2>1. \A x \in T : x \in Nat /\ x <= n
    OBVIOUS
  <2>2. U \subseteq Nat
    BY <2>1
  <2>3. PICK x \in T : TRUE
    OBVIOUS
  <2>4. n - x \in U
    OBVIOUS
  <2>. QED
    BY <2>2, <2>4
<1>2. PICK u \in U : \A v \in U : u <= v
  BY <1>1, Scanning!Least
<1>3. \E x \in T : \A y \in T : x >= y
  <2>1. PICK x \in T : u = n - x
    OBVIOUS
  <2>2. ASSUME NEW y \in T PROVE x >= y
    <3>1. u <= n - y
      <4>1. n - y \in U
        OBVIOUS
      <4>. QED
        BY <1>2, <4>1
    <3>. QED
      BY <2>1, <3>1
  <2>. QED
    BY <2>2
<1>. QED
  BY <1>3 DEF Max

\* A part of a text.
LEMMA PartIs ==
  ASSUME NEW text \in Texts, NEW i \in Nat, NEW j \in Nat, i > 0, j <= Len(text)
  PROVE  /\ SubSeq(text, i, j) \in Texts
         /\ Len(SubSeq(text, i, j)) = IF i <= j THEN j - i + 1 ELSE 0
         /\ \A k \in 1 .. j - i + 1 : SubSeq(text, i, j)[k] = text[i + k - 1]
<1>. DEFINE S == Tokens
<1>1. text \in Seq(S)
  BY DEF Texts
<1>. HIDE DEF S
<1>2. \A k \in i .. j : text[k] \in S
  BY <1>1
<1>3. SubSeq(text, i, j) \in Seq(S) /\ Len(SubSeq(text, i, j)) = IF i <= j THEN j - i + 1 ELSE 0
  BY <1>2, SubSeqProperties
<1>4. \A k \in 1 .. j - i + 1 : SubSeq(text, i, j)[k] = text[i + k - 1]
  BY <1>1, <1>2, SubSeqProperties
<1>. QED
  BY <1>3, <1>4 DEF Texts, S

LEMMA TextIs ==
  ASSUME NEW text \in Texts
  PROVE  /\ Len(text) \in Nat /\ DOMAIN text = 1 .. Len(text)
         /\ \A k \in 1 .. Len(text) : text[k] \in Tokens
         /\ text # <<>> => Len(text) > 0 /\ Head(text) = text[1]
<1>. DEFINE S == Tokens
<1>1. text \in Seq(S)
  BY DEF Texts
<1>. HIDE DEF S
<1>. QED
  BY <1>1 DEF S

\* Two texts, as one operator.
Both(s, t) == s \o t

LEMMA BothAre ==
  ASSUME NEW s \in Texts, NEW t \in Texts
  PROVE  /\ Both(s, t) \in Texts /\ Len(Both(s, t)) = Len(s) + Len(t)
         /\ \A k \in 1 .. Len(s) : Both(s, t)[k] = s[k]
         /\ \A k \in 1 .. Len(t) : Both(s, t)[Len(s) + k] = t[k]
<1>. DEFINE S == Tokens
<1>1. s \in Seq(S) /\ t \in Seq(S)
  BY DEF Texts
<1>. HIDE DEF S
<1>2. s \o t \in Seq(S) /\ Len(s \o t) = Len(s) + Len(t)
  BY <1>1
<1>3. \A k \in 1 .. Len(s) : (s \o t)[k] = s[k]
  BY <1>1
<1>4. \A k \in 1 .. Len(t) : (s \o t)[Len(s) + k] = t[k]
  BY <1>1
<1>. QED
  BY <1>2, <1>3, <1>4 DEF Texts, S, Both

LEMMA BothAssociative ==
  ASSUME NEW s \in Texts, NEW t \in Texts, NEW u \in Texts
  PROVE  Both(Both(s, t), u) = Both(s, Both(t, u))
<1>. DEFINE S == Tokens
<1>1. s \in Seq(S) /\ t \in Seq(S) /\ u \in Seq(S)
  BY DEF Texts
<1>. HIDE DEF S
<1>. QED
  BY <1>1, ConcatAssociative DEF Both

LEMMA BothEmpty ==
  ASSUME NEW text \in Texts
  PROVE  <<>> \in Texts /\ Both(text, <<>>) = text
<1>. DEFINE S == Tokens
<1>1. text \in Seq(S)
  BY DEF Texts
<1>. HIDE DEF S
<1>2. text \o <<>> = text /\ <<>> \in Seq(S)
  BY <1>1
<1>. QED
  BY <1>2 DEF Both, Texts, S

LEMMA SameText ==
  ASSUME NEW s \in Texts, NEW t \in Texts, Len(s) = Len(t),
         \A k \in 1 .. Len(s) : s[k] = t[k]
  PROVE  s = t
<1>. DEFINE S == Tokens
<1>1. s \in Seq(S) /\ t \in Seq(S)
  BY DEF Texts
<1>. HIDE DEF S
<1>. QED
  BY <1>1, SeqEqual

-----------------------------------------------------------------------------
(* handle_expression.                                                      *)

\* The places where an operator may be.
LEMMA OperatorIs ==
  ASSUME NEW text \in Texts, NEW operators, Operator(text, operators) # 0
  PROVE  Operator(text, operators) \in 2 .. Len(text) - 1
<1>. DEFINE at == {i \in 2 .. Len(text) - 1 : text[i] \in operators}
<1>1. at # {} /\ Operator(text, operators) = Max(at)
  BY DEF Operator
<1>2. Len(text) \in Nat /\ at \subseteq 0 .. Len(text)
  BY TextIs
<1>. QED
  BY <1>1, <1>2, MaxIs

Three(text) == Len(text) > 3 /\ IsWord(text[1]) /\ text[2] = "PTR" /\ text[3] = "["
Five(text)  == Len(text) > 5 /\ IsWord(text[1]) /\ text[2] = "PTR" /\ IsWord(text[3])
                 /\ text[4] = ":" /\ text[5] = "["

LEMMA OpeningCases ==
  ASSUME NEW text
  PROVE  /\ Three(text) => Opening(text) = 3
         /\ Five(text) => Opening(text) = 5
         /\ ~Three(text) /\ ~Five(text) => Opening(text) = 0
<1>1. Opening(text) = CASE Three(text) -> 3 [] Five(text) -> 5 [] OTHER -> 0
  BY Zenon DEF Opening, Three, Five
<1>2. ~(Three(text) /\ Five(text))
  BY DEF IsWord, Punctuation, Three, Five
<1>. QED
  BY Zenon, <1>1, <1>2

LEMMA OpeningIs ==
  ASSUME NEW text \in Texts
  PROVE  /\ Opening(text) \in {0, 3, 5}
         /\ Opening(text) # 0 => Opening(text) < Len(text) /\ text[Opening(text)] = "["
<1>1. Len(text) \in Nat
  BY TextIs
<1>2. /\ Three(text) => 3 < Len(text) /\ text[3] = "["
      /\ Five(text) => 5 < Len(text) /\ text[5] = "["
  BY <1>1 DEF Three, Five
<1>. QED
  BY <1>2, OpeningCases

\* The parts of an expression are shorter, and sizes are known.
LEMMA DereferenceIs ==
  ASSUME NEW expr \in Texts, Dereference(expr) # <<>>
  PROVE  /\ Dereference(expr)[1] \in SizedTemporaries
         /\ Dereference(expr)[2] \in Texts /\ Len(Dereference(expr)[2]) < Len(expr)
<1>. DEFINE open == Opening(expr)
            part == SubSeq(expr, open + 1, Len(expr) - 1)
<1>1. /\ open # 0 /\ Head(expr) \in {"XMMWORD", "BYTE", "WORD", "DWORD", "QWORD"}
      /\ Dereference(expr) = <<Head(expr), part>>
  BY DEF Dereference
<1>2. open \in {3, 5} /\ open < Len(expr) /\ Len(expr) \in Nat
  BY <1>1, OpeningIs, TextIs
<1>. HIDE DEF open
<1>3. part \in Texts /\ Len(part) = IF open + 1 <= Len(expr) - 1 THEN Len(expr) - 1 - (open + 1) + 1 ELSE 0
  <2>1. open + 1 \in Nat /\ Len(expr) - 1 \in Nat /\ open + 1 > 0 /\ Len(expr) - 1 <= Len(expr)
    BY <1>2
  <2>. QED
    BY <2>1, PartIs
<1>4. Len(part) < Len(expr)
  BY <1>2, <1>3
<1>5. Dereference(expr)[1] = Head(expr) /\ Dereference(expr)[2] = part
  <2>. HIDE DEF part
  <2>. QED
    BY <1>1
<1>6. Head(expr) \in SizedTemporaries
  BY <1>1 DEF SizedTemporaries
<1>. HIDE DEF part
<1>. QED
  BY Zenon, <1>3, <1>4, <1>5, <1>6

LEMMA OperandsAre ==
  ASSUME NEW expr \in Texts, NEW at \in 2 .. Len(expr) - 1
  PROVE  /\ SubSeq(expr, 1, at - 1) \in Texts /\ Len(SubSeq(expr, 1, at - 1)) < Len(expr)
         /\ SubSeq(expr, at + 1, Len(expr)) \in Texts
         /\ Len(SubSeq(expr, at + 1, Len(expr))) < Len(expr)
<1>1. Len(expr) \in Nat
  BY TextIs
<1>2. at - 1 \in Nat /\ at + 1 \in Nat /\ at - 1 <= Len(expr) /\ at + 1 <= Len(expr)
  BY <1>1
<1>. QED
  BY <1>1, <1>2, PartIs

\* Handle looks only at the symbols of shorter texts.
LEMMA HandleLocal ==
  ASSUME NEW expr \in Texts, NEW g, NEW h, NEW names,
         \A text \in Texts : Len(text) < Len(expr) => g[text] = h[text]
  PROVE  Handle(g, expr, names) = Handle(h, expr, names)
<1>. DEFINE group    == Dereference(expr)
            multiply == Operator(expr, {"*"})
            add      == Operator(expr, {"+", "-"})
            Lhs(at)  == SubSeq(expr, 1, at - 1)
            Rhs(at)  == SubSeq(expr, at + 1, Len(expr))
<1>1. group # <<>> => g[group[2]] = h[group[2]]
  BY DereferenceIs
<1>2. \A at \in 2 .. Len(expr) - 1 : g[Lhs(at)] = h[Lhs(at)] /\ g[Rhs(at)] = h[Rhs(at)]
  BY OperandsAre
<1>3. multiply # 0 => g[Lhs(multiply)] = h[Lhs(multiply)] /\ g[Rhs(multiply)] = h[Rhs(multiply)]
  BY <1>2, OperatorIs
<1>4. add # 0 => g[Lhs(add)] = h[Lhs(add)] /\ g[Rhs(add)] = h[Rhs(add)]
  BY <1>2, OperatorIs
<1>. QED
  BY Zenon, <1>1, <1>3, <1>4 DEF Handle

\* h is what handle_expression says, for the texts up to a length.
Handles(h, names, n) ==
  \A text \in Texts : Len(text) <= n => h[text] = Handle(h, text, names)

LEMMA HandlesExists ==
  ASSUME NEW names, NEW n \in Nat
  PROVE  \E h : Handles(h, names, n)
<1>. DEFINE T == {m \in Nat : \E h : Handles(h, names, m)}
<1>1. 0 \in T
  <2>. DEFINE none == [text \in Texts |-> nullptr]
              h == [text \in Texts |-> Handle(none, text, names)]
  <2>1. ASSUME NEW text \in Texts, Len(text) <= 0
        PROVE  h[text] = Handle(h, text, names)
    <3>1. \A u \in Texts : ~(Len(u) < Len(text))
      BY <2>1, TextIs
    <3>2. Handle(none, text, names) = Handle(h, text, names)
      <4>. HIDE DEF none, h
      <4>. QED
        BY <3>1, HandleLocal
    <3>. QED
      BY <3>2
  <2>2. Handles(h, names, 0)
    BY <2>1 DEF Handles
  <2>. QED
    BY <2>2
<1>2. ASSUME NEW m \in Nat, m \in T PROVE m + 1 \in T
  <2>1. PICK g : Handles(g, names, m)
    BY <1>2
  <2>. DEFINE h == [text \in Texts |-> IF Len(text) <= m THEN g[text] ELSE Handle(g, text, names)]
  <2>2. \A text \in Texts : Len(text) <= m => h[text] = g[text]
    OBVIOUS
  <2>3. ASSUME NEW text \in Texts, Len(text) <= m + 1
        PROVE  h[text] = Handle(h, text, names)
    <3>1. \A u \in Texts : Len(u) < Len(text) => g[u] = h[u]
      <4>1. \A u \in Texts : Len(u) < Len(text) => Len(u) <= m
        BY <2>3, TextIs
      <4>. QED
        BY <2>2, <4>1
    <3>2. Handle(g, text, names) = Handle(h, text, names)
      <4>. HIDE DEF h
      <4>. QED
        BY <3>1, HandleLocal
    <3>3. h[text] = Handle(g, text, names)
      BY <2>1 DEF Handles
    <3>. QED
      BY <3>2, <3>3
  <2>4. Handles(h, names, m + 1)
    <3>. HIDE DEF h
    <3>. QED
      BY <2>3 DEF Handles
  <2>. QED
    BY <2>4
<1>3. Nat \subseteq T
  <2>. HIDE DEF T
  <2>. QED
    BY <1>1, <1>2, Scanning!Induction
<1>. QED
  BY <1>3

\* A text that has a property is preceded by the shortest that has it.
LEMMA Shortest ==
  ASSUME NEW T, T \subseteq Texts, T # {}
  PROVE  \E text \in T : \A u \in Texts : Len(u) < Len(text) => u \notin T
<1>. DEFINE U == {Len(text) : text \in T}
<1>1. U \subseteq Nat /\ U # {}
  BY TextIs
<1>2. PICK l \in U : \A m \in U : l <= m
  BY <1>1, Scanning!Least
<1>3. PICK text \in T : l = Len(text)
  OBVIOUS
<1>4. ASSUME NEW u \in Texts, Len(u) < Len(text), u \in T PROVE FALSE
  <2>1. Len(u) \in U /\ Len(u) \in Nat /\ Len(text) \in Nat
    BY <1>4, TextIs
  <2>2. Len(text) <= Len(u)
    BY <1>2, <1>3, <2>1
  <2>. QED
    BY <1>4, <2>1, <2>2
<1>. QED
  BY <1>4

LEMMA HandlesUnique ==
  ASSUME NEW names, NEW n \in Nat, NEW g, NEW h, Handles(g, names, n), Handles(h, names, n)
  PROVE  \A text \in Texts : Len(text) <= n => g[text] = h[text]
<1>. DEFINE T == {text \in Texts : Len(text) <= n /\ g[text] # h[text]}
<1>1. SUFFICES ASSUME T # {} PROVE FALSE
  OBVIOUS
<1>2. PICK text \in T : \A u \in Texts : Len(u) < Len(text) => u \notin T
  BY <1>1, Shortest
<1>3. text \in Texts /\ Len(text) <= n /\ Len(text) \in Nat
  BY TextIs
<1>4. \A u \in Texts : Len(u) < Len(text) => g[u] = h[u]
  <2>1. \A u \in Texts : Len(u) < Len(text) => Len(u) <= n
    BY <1>3, TextIs
  <2>. QED
    BY <1>2, <2>1
<1>5. Handle(g, text, names) = Handle(h, text, names)
  BY <1>3, <1>4, HandleLocal
<1>. QED
  BY <1>3, <1>5 DEF Handles

\* There is a function that maps every text to its symbol.
LEMMA SymbolsExist ==
  ASSUME NEW names
  PROVE  \E symbols : symbols = [text \in Texts |-> Handle(symbols, text, names)]
<1>. DEFINE h(n) == CHOOSE g : Handles(g, names, n)
            symbols == [text \in Texts |-> h(Len(text))[text]]
<1>1. \A n \in Nat : Handles(h(n), names, n)
  BY HandlesExists
<1>. HIDE DEF h
<1>2. ASSUME NEW text \in Texts PROVE symbols[text] = Handle(symbols, text, names)
  <2>. DEFINE n == Len(text)
  <2>1. n \in Nat
    BY TextIs
  <2>2. ASSUME NEW u \in Texts, Len(u) < n PROVE symbols[u] = h(n)[u]
    <3>1. Len(u) \in Nat /\ Len(u) <= Len(u)
      BY TextIs
    <3>2. Handles(h(n), names, Len(u))
      <4>1. \A v \in Texts : Len(v) <= Len(u) => Len(v) <= n
        BY <2>1, <2>2, <3>1, TextIs
      <4>2. Handles(h(n), names, n)
        BY <1>1, <2>1
      <4>. QED
        BY <4>1, <4>2 DEF Handles
    <3>3. Handles(h(Len(u)), names, Len(u))
      BY <1>1, <3>1
    <3>4. h(Len(u))[u] = h(n)[u]
      BY <3>1, <3>2, <3>3, HandlesUnique
    <3>. QED
      BY <3>4
  <2>3. Handle(symbols, text, names) = Handle(h(n), text, names)
    <3>. HIDE DEF symbols
    <3>. QED
      BY <2>2, HandleLocal
  <2>4. h(n)[text] = Handle(h(n), text, names)
    <3>1. Handles(h(n), names, n) /\ n <= n
      BY <1>1, <2>1
    <3>. QED
      BY <3>1 DEF Handles
  <2>5. symbols[text] = h(n)[text]
    OBVIOUS
  <2>. QED
    BY <2>3, <2>4, <2>5
<1>3. symbols = [text \in Texts |-> Handle(symbols, text, names)]
  <2>1. symbols = [text \in Texts |-> symbols[text]]
    OBVIOUS
  <2>. HIDE DEF symbols
  <2>. QED
    BY Zenon, <1>2, <2>1
<1>. QED
  BY <1>3

\* Every text is a symbol: the operands of an operation are shorter texts, and
\* create_dereference knows the sizes the regular expression lets through.
THEOREM NeverNull ==
  ASSUME NEW expr \in Texts, NEW names
  PROVE  handle_expression(expr, names) # nullptr
<1>. DEFINE symbols == CHOOSE s : s = [text \in Texts |-> Handle(s, text, names)]
<1>1. symbols = [text \in Texts |-> Handle(symbols, text, names)]
  BY SymbolsExist
<1>2. handle_expression(expr, names) = symbols[expr]
  BY Zenon DEF handle_expression
<1>. HIDE DEF symbols
<1>3. \A text \in Texts : symbols[text] = Handle(symbols, text, names)
  BY <1>1
<1>. DEFINE T == {text \in Texts : symbols[text] = nullptr}
<1>4. SUFFICES ASSUME T # {} PROVE FALSE
  BY <1>2
<1>5. PICK text \in T : \A u \in Texts : Len(u) < Len(text) => u \notin T
  BY <1>4, Shortest
<1>6. \A u \in Texts : Len(u) < Len(text) => symbols[u] # nullptr
  BY <1>5
<1>7. Handle(symbols, text, names) = nullptr /\ text \in Texts
  BY <1>3
<1>. DEFINE group    == Dereference(text)
            multiply == Operator(text, {"*"})
            add      == Operator(text, {"+", "-"})
            Lhs(at)  == SubSeq(text, 1, at - 1)
            Rhs(at)  == SubSeq(text, at + 1, Len(text))
            Operation(at) == create_operation(symbols[Lhs(at)], text[at], symbols[Rhs(at)])
<1>8. group # <<>> => create_dereference(group[1], symbols[group[2]]) # nullptr
  <2>1. group # <<>> => group[1] \in SizedTemporaries /\ symbols[group[2]] # nullptr
    BY <1>6, <1>7, DereferenceIs
  <2>. HIDE DEF group
  <2>. QED
    BY <2>1 DEF create_dereference, SizedTemporary, nullptr
<1>9. ASSUME NEW at \in 2 .. Len(text) - 1 PROVE Operation(at) # nullptr
  <2>1. symbols[Lhs(at)] # nullptr /\ symbols[Rhs(at)] # nullptr
    BY <1>6, <1>7, OperandsAre
  <2>. QED
    BY <2>1 DEF create_operation, Temporary, nullptr
<1>10. /\ multiply # 0 => Operation(multiply) # nullptr
       /\ add # 0 => Operation(add) # nullptr
  BY <1>7, <1>9, OperatorIs
<1>11. /\ \A x : Function(x) # nullptr
       /\ \A x : Register(x) # nullptr
       /\ \A x : Immidiate(x) # nullptr
       /\ \A x : UnknownSymbol(x) # nullptr
  BY DEF Function, Register, Immidiate, UnknownSymbol, nullptr
<1>. QED
  BY Zenon, <1>7, <1>8, <1>10, <1>11 DEF Handle

-----------------------------------------------------------------------------
(* The pieces of a text.                                                   *)

\* What is found has a length, and is a text.
LEMMA ClosingIs ==
  ASSUME NEW text \in Texts, NEW open \in Nat, Closing(text, open) # 0
  PROVE  Closing(text, open) \in open + 1 .. Len(text)
<1>. DEFINE closed == {i \in open + 1 .. Len(text) : text[i] = "]"}
<1>1. closed # {} /\ Closing(text, open) = Min(closed)
  BY DEF Closing
<1>2. Len(text) \in Nat /\ closed \subseteq Nat
  BY TextIs
<1>. QED
  BY <1>1, <1>2, MinIs

\* The first closing bracket, if there is something before it.
LEMMA ClosingFirst ==
  ASSUME NEW text \in Texts, NEW open \in Nat, NEW place \in open + 2 .. Len(text),
         text[place] = "]", \A i \in open + 1 .. place - 1 : text[i] # "]"
  PROVE  Closing(text, open) = place
<1>. DEFINE closed == {i \in open + 1 .. Len(text) : text[i] = "]"}
<1>1. Len(text) \in Nat /\ closed \subseteq Nat
  BY TextIs
<1>2. place \in closed /\ open + 1 \in open + 1 .. place - 1
  BY <1>1
<1>3. closed # {} /\ open + 1 \notin closed
  BY <1>2
<1>4. Closing(text, open) = Min(closed)
  BY <1>3 DEF Closing
<1>5. Min(closed) \in closed /\ Min(closed) <= place
  BY <1>1, <1>2, MinIs
<1>6. Min(closed) \notin open + 1 .. place - 1
  BY <1>5
<1>. QED
  BY <1>1, <1>4, <1>5, <1>6

IsFound(found) == found.length \in Nat \ {0} /\ found.pieces \in Seq(Texts)

LEMMA FoundIs ==
  ASSUME NEW piece \in Texts, NEW length \in Nat \ {0}
  PROVE  IsFound(Found(piece, length))
<1>. DEFINE S == Texts
<1>1. piece \in S
  OBVIOUS
<1>2. <<piece>> \in Seq(S)
  <2>. HIDE DEF S
  <2>. QED
    BY <1>1
<1>. QED
  BY <1>2 DEF Found, IsFound

LEMMA TokenIs ==
  ASSUME NEW t \in Tokens
  PROVE  <<t>> \in Texts
<1>. DEFINE S == Tokens
<1>1. t \in S
  OBVIOUS
<1>2. <<t>> \in Seq(S)
  <2>. HIDE DEF S
  <2>. QED
    BY <1>1
<1>. QED
  BY <1>2 DEF Texts

SizedPart(text) == IF Opening(text) = 0 THEN 0 ELSE Closing(text, Opening(text))
IsComment(text) == Head(text) = "#" /\ Len(text) > 1 /\ text[2] \in DOMAIN Bare
IsMemory(text)  == Head(text) = "[" /\ Closing(text, 1) # 0

LEMMA FindCases ==
  ASSUME NEW text
  PROVE  FindAndConsume(text) =
           IF IsComment(text) THEN Found(<<>>, 2)
           ELSE IF SizedPart(text) # 0 THEN Found(SubSeq(text, 1, SizedPart(text)), SizedPart(text))
           ELSE IF IsMemory(text)
             THEN Found(SubSeq(text, 2, Closing(text, 1) - 1), Closing(text, 1))
           ELSE IF Head(text) \in DOMAIN Bare THEN Found(<<Bare[Head(text)]>>, 1)
           ELSE IF IsWord(Head(text)) THEN Found(<<Head(text)>>, 1)
           ELSE [pieces |-> <<>>, length |-> 1]
BY Zenon DEF FindAndConsume, SizedPart, IsComment, IsMemory

LEMMA FindAndConsumeIs ==
  ASSUME NEW text \in Texts, text # <<>>
  PROVE  IsFound(FindAndConsume(text))
<1>. DEFINE sized  == SizedPart(text)
            memory == IsMemory(text)
<1>1. Len(text) \in Nat /\ Len(text) > 0 /\ Head(text) \in Tokens
  BY TextIs
<1>2. IsFound(Found(<<>>, 2))
  <2>1. <<>> \in Texts
    BY DEF Texts
  <2>. QED
    BY <2>1, FoundIs
<1>3. sized # 0 => IsFound(Found(SubSeq(text, 1, sized), sized))
  <2>1. SUFFICES ASSUME sized # 0 PROVE IsFound(Found(SubSeq(text, 1, sized), sized))
    OBVIOUS
  <2>2. sized = Closing(text, Opening(text)) /\ Opening(text) \in Nat
    BY <2>1, OpeningIs DEF SizedPart
  <2>3. sized \in Nat \ {0} /\ sized <= Len(text)
    <3>. HIDE DEF sized
    <3>. QED
      BY <1>1, <2>1, <2>2, ClosingIs
  <2>. HIDE DEF sized
  <2>4. SubSeq(text, 1, sized) \in Texts
    BY <2>3, PartIs
  <2>. QED
    BY <2>3, <2>4, FoundIs
<1>4. memory => IsFound(Found(SubSeq(text, 2, Closing(text, 1) - 1), Closing(text, 1)))
  <2>1. SUFFICES ASSUME Closing(text, 1) # 0
        PROVE IsFound(Found(SubSeq(text, 2, Closing(text, 1) - 1), Closing(text, 1)))
    BY DEF IsMemory
  <2>. DEFINE place == Closing(text, 1)
  <2>2. place \in 2 .. Len(text)
    BY <2>1, ClosingIs
  <2>. HIDE DEF place
  <2>3. place \in Nat \ {0} /\ place - 1 \in Nat /\ place - 1 <= Len(text)
    BY <1>1, <2>2
  <2>4. SubSeq(text, 2, place - 1) \in Texts
    BY <2>3, PartIs
  <2>5. IsFound(Found(SubSeq(text, 2, place - 1), place))
    BY <2>3, <2>4, FoundIs
  <2>. QED
    BY <2>5 DEF place
<1>5. Head(text) \in DOMAIN Bare => IsFound(Found(<<Bare[Head(text)]>>, 1))
  <2>1. Head(text) \in DOMAIN Bare => Bare[Head(text)] \in Tokens
    BY WordsAssumption DEF Tokens
  <2>. QED
    BY <2>1, TokenIs, FoundIs
<1>6. IsFound(Found(<<Head(text)>>, 1))
  BY <1>1, TokenIs, FoundIs
<1>7. IsFound([pieces |-> <<>>, length |-> 1])
  BY DEF IsFound
<1>. HIDE DEF sized, memory
<1>. QED
  BY Zenon, <1>2, <1>3, <1>4, <1>5, <1>6, <1>7, FindCases DEF sized, memory

LEMMA RestsIs ==
  ASSUME NEW text \in Texts
  PROVE  /\ DOMAIN Rests(text) = 1 .. Len(text) /\ Len(Rests(text)) = Len(text)
         /\ \A i \in 1 .. Len(text) :
              /\ Rests(text)[i] = SubSeq(text, i, Len(text))
              /\ Rests(text)[i] \in Texts /\ Rests(text)[i] # <<>>
              /\ Len(Rests(text)[i]) = Len(text) - i + 1
              /\ \A k \in 1 .. Len(text) - i + 1 : Rests(text)[i][k] = text[i + k - 1]
<1>1. Len(text) \in Nat /\ DOMAIN text = 1 .. Len(text)
  BY TextIs
<1>2. DOMAIN Rests(text) = 1 .. Len(text) /\ Len(Rests(text)) = Len(text)
  BY <1>1 DEF Rests
<1>3. ASSUME NEW i \in 1 .. Len(text)
      PROVE  LET rest == SubSeq(text, i, Len(text)) IN
             /\ rest \in Texts /\ rest # <<>> /\ Len(rest) = Len(text) - i + 1
             /\ \A k \in 1 .. Len(text) - i + 1 : rest[k] = text[i + k - 1]
  <2>. DEFINE rest == SubSeq(text, i, Len(text))
  <2>1. i \in Nat /\ i > 0 /\ i <= Len(text)
    BY <1>1
  <2>2. /\ rest \in Texts /\ Len(rest) = Len(text) - i + 1
        /\ \A k \in 1 .. Len(text) - i + 1 : rest[k] = text[i + k - 1]
    BY <1>1, <2>1, PartIs
  <2>3. Len(rest) > 0
    BY <1>1, <2>1, <2>2
  <2>. HIDE DEF rest
  <2>4. rest # <<>>
    BY <2>3
  <2>. QED
    BY <2>2, <2>4 DEF rest
<1>4. \A i \in 1 .. Len(text) : Rests(text)[i] = SubSeq(text, i, Len(text))
  BY <1>1 DEF Rests
<1>. QED
  BY Zenon, <1>2, <1>3, <1>4

Start == [consumed |-> 0, pieces |-> <<>>]

LEMMA PiecesIsFold ==
  ASSUME NEW text
  PROVE  Pieces(text) = Scanning!Folded(Start, Rests(text)).pieces
BY Zenon DEF Pieces, Start, Scanning!Folded, FoldLeft, Scanning!FoldLeft, MapThenFoldSet,
   Scanning!MapThenFoldSet, Max, Scanning!Max

\* The pieces are texts.
LEMMA PiecesAre ==
  ASSUME NEW text \in Texts
  PROVE  Pieces(text) \in Seq(Texts)
<1>. DEFINE S == Texts
            States == [consumed : Nat, pieces : Seq(S)]
            T == [n \in Nat |-> States]
<1>1. Start \in States
  BY DEF Start
<1>2. ASSUME NEW n \in 1 .. Len(text), NEW v \in States
      PROVE  Split(v, Rests(text)[n]) \in States
  <2>1. IsFound(FindAndConsume(Rests(text)[n]))
    BY RestsIs, FindAndConsumeIs
  <2>. DEFINE found == FindAndConsume(Rests(text)[n])
  <2>2. found.length - 1 \in Nat /\ found.pieces \in Seq(S)
    BY <2>1 DEF IsFound
  <2>. HIDE DEF found, S
  <2>3. v.consumed \in Nat /\ v.pieces \in Seq(S) /\ v.pieces \o found.pieces \in Seq(S)
    BY <2>2
  <2>4. CASE v.consumed > 0
    <3>1. Split(v, Rests(text)[n]) = [v EXCEPT !.consumed = v.consumed - 1]
      BY <2>4 DEF Split
    <3>. QED
      BY <2>3, <2>4, <3>1
  <2>5. CASE ~(v.consumed > 0)
    <3>1. Split(v, Rests(text)[n]) =
            [consumed |-> found.length - 1, pieces |-> v.pieces \o found.pieces]
      BY <2>5 DEF Split, found
    <3>. QED
      BY <2>2, <2>3, <3>1
  <2>. QED
    BY <2>4, <2>5
<1>3. Len(Rests(text)) \in Nat /\ DOMAIN Rests(text) = 1 .. Len(Rests(text))
      /\ Len(Rests(text)) = Len(text)
  BY RestsIs, TextIs
<1>. HIDE DEF States
<1>4. \A n \in Nat : T[n] = States
  OBVIOUS
<1>. HIDE DEF T
<1>5. \A n \in 1 .. Len(Rests(text)) : \A v \in T[n - 1] : Split(v, Rests(text)[n]) \in T[n]
  BY <1>2, <1>3, <1>4
<1>6. Scanning!Folded(Start, Rests(text)) \in T[Len(Rests(text))]
  BY <1>1, <1>3, <1>4, <1>5, Scanning!FoldSteps
<1>7. Scanning!Folded(Start, Rests(text)) \in States
  BY <1>3, <1>4, <1>6
<1>. QED
  BY <1>7, PiecesIsFold DEF States

-----------------------------------------------------------------------------
(* What is found at the beginning of what libopcodes prints.               *)

\* A word, which the token after it does not make a size.
LEMMA FindWord ==
  ASSUME NEW text \in Texts, text # <<>>, text[1] \in Words, Len(text) > 1 => text[2] # "PTR"
  PROVE  /\ FindAndConsume(text) = Found(IF text[1] \in DOMAIN Bare THEN <<Bare[text[1]]>>
                                         ELSE <<text[1]>>, 1)
         /\ <<text[1]>> \in Texts /\ (text[1] \in DOMAIN Bare => <<Bare[text[1]]>> \in Texts)
<1>1. Len(text) \in Nat /\ Len(text) > 0 /\ Head(text) = text[1]
  BY TextIs
<1>2. IsWord(text[1]) /\ text[1] # "#" /\ text[1] # "["
  BY Zenon, WordsAssumption DEF IsWord, Punctuation
<1>3. ~Three(text) /\ ~Five(text)
  BY <1>1 DEF Three, Five
<1>4. SizedPart(text) = 0 /\ ~IsComment(text) /\ ~IsMemory(text)
  BY <1>1, <1>2, <1>3, OpeningCases DEF SizedPart, IsComment, IsMemory
<1>5. FindAndConsume(text) = IF text[1] \in DOMAIN Bare THEN Found(<<Bare[text[1]]>>, 1)
                             ELSE Found(<<text[1]>>, 1)
  BY Zenon, <1>1, <1>2, <1>4, FindCases
<1>6. <<text[1]>> \in Texts
  BY <1>1, TextIs, TokenIs
<1>7. text[1] \in DOMAIN Bare => <<Bare[text[1]]>> \in Texts
  <2>1. text[1] \in DOMAIN Bare => Bare[text[1]] \in Tokens
    BY WordsAssumption DEF Tokens
  <2>. QED
    BY <2>1, TokenIs
<1>. QED
  BY Zenon, <1>5, <1>6, <1>7

\* The operands are separated by it.
Comma == ","

LEMMA CommaIs ==
  /\ Comma \in Tokens /\ ~IsWord(Comma)
  /\ Comma # "#" /\ Comma # "[" /\ Comma # "PTR"
BY Zenon DEF Comma, Tokens, IsWord, Punctuation

LEMMA FindComma ==
  ASSUME NEW text \in Texts, text # <<>>, text[1] = Comma
  PROVE  FindAndConsume(text) = [pieces |-> <<>>, length |-> 1]
<1>1. Head(text) = Comma
  BY TextIs
<1>2. ~IsWord(Comma) /\ Comma # "#" /\ Comma # "["
  BY CommaIs
<1>3. Comma \notin DOMAIN Bare
  BY <1>2, WordsAssumption
<1>4. SizedPart(text) = 0 /\ ~IsComment(text) /\ ~IsMemory(text)
  BY <1>1, <1>2, OpeningCases DEF SizedPart, IsComment, IsMemory, Three, Five
<1>. QED
  BY Zenon, <1>1, <1>2, <1>3, <1>4, FindCases

\* How an ordinary operand looks.
WithSize(operand) ==
  /\ Opening(operand) # 0 /\ Opening(operand) + 2 <= Len(operand)
  /\ operand[1] # "#" /\ operand[1] # "PTR"
  /\ operand[Len(operand)] = "]"
  /\ \A i \in Opening(operand) + 1 .. Len(operand) - 1 : operand[i] # "]"

InBrackets(operand) ==
  /\ operand[1] = "[" /\ 3 <= Len(operand)
  /\ operand[Len(operand)] = "]"
  /\ \A i \in 2 .. Len(operand) - 1 : operand[i] # "]"

OneWord(operand) == Len(operand) = 1 /\ operand[1] \in Words \ {"PTR"}

LEMMA OrdinaryIs ==
  ASSUME NEW operand \in Texts, Ordinary(operand)
  PROVE  WithSize(operand) \/ InBrackets(operand) \/ OneWord(operand)
<1>. DEFINE N == Len(operand)
            open == Opening(operand)
            Known == registers \cup DOMAIN Numeral \cup {"+", "-", "*"}
<1>1. /\ N \in Nat /\ N > 0 /\ DOMAIN operand = 1 .. N
      /\ Head(operand) = operand[1] /\ Last(operand) = operand[N]
  BY TextIs DEF Ordinary, Last
<1>2. open \in {0, 3, 5} /\ (open # 0 => open < N)
  BY OpeningIs
<1>3. "]" \notin Known
  BY WordsAssumption DEF IsWord, Punctuation
<1>4. /\ open # 0 => Inside(operand) = SubSeq(operand, open + 1, N - 1)
      /\ open = 0 /\ Head(operand) = "[" => Inside(operand) = SubSeq(operand, 2, N - 1)
      /\ open = 0 /\ Head(operand) # "[" => Inside(operand) = operand
  BY Zenon DEF Inside
<1>5. Inside(operand) # <<>> /\ Range(Inside(operand)) \subseteq Known
  BY Zenon DEF Ordinary
<1>. HIDE DEF open, Known
\* The part from a place to the last token but one.
<1>6. ASSUME NEW i \in Nat, i > 0, Inside(operand) = SubSeq(operand, i, N - 1)
      PROVE  i <= N - 1 /\ \A k \in i .. N - 1 : operand[k] \in Known
  <2>. DEFINE part == SubSeq(operand, i, N - 1)
  <2>1. /\ part \in Texts /\ Len(part) = IF i <= N - 1 THEN N - 1 - i + 1 ELSE 0
        /\ \A k \in 1 .. N - 1 - i + 1 : part[k] = operand[i + k - 1]
    <3>1. N - 1 \in Nat /\ N - 1 <= N
      BY <1>1
    <3>. QED
      BY <3>1, <1>6, PartIs
  <2>2. part # <<>> /\ Range(part) \subseteq Known
    BY <1>5, <1>6
  <2>. HIDE DEF part
  <2>3. i <= N - 1
    <3>1. Len(part) > 0
      BY <2>1, <2>2, TextIs
    <3>2. Len(part) = IF i <= N - 1 THEN N - 1 - i + 1 ELSE 0
      BY <2>1
    <3>. HIDE DEF N
    <3>. QED
      BY <3>1, <3>2
  <2>4. ASSUME NEW k \in i .. N - 1 PROVE operand[k] \in Known
    <3>1. k - i + 1 \in 1 .. N - 1 - i + 1 /\ i + (k - i + 1) - 1 = k /\ Len(part) = N - 1 - i + 1
      BY <1>1, <2>1, <2>3
    <3>2. part[k - i + 1] \in Range(part)
      BY <2>1, <3>1, TextIs DEF Range
    <3>. QED
      BY <2>1, <2>2, <3>1, <3>2
  <2>. QED
    BY <2>3, <2>4
<1>7. CASE open # 0
  <2>1. open + 1 <= N - 1 /\ \A k \in open + 1 .. N - 1 : operand[k] \in Known
    <3>1. open + 1 \in Nat /\ open + 1 > 0 /\ Inside(operand) = SubSeq(operand, open + 1, N - 1)
      BY <1>2, <1>4, <1>7
    <3>. QED
      BY <3>1, <1>6
  <2>2. operand[1] \in SizedTemporaries
    BY <1>1, <1>7 DEF Ordinary, open
  <2>3. operand[1] # "#" /\ operand[1] # "PTR"
    BY <2>2 DEF SizedTemporaries
  <2>4. operand[N] = "]"
    BY <1>1, <1>2, <1>7 DEF Ordinary
  <2>5. open + 2 <= N
    BY <1>1, <1>2, <2>1
  <2>. QED
    BY <1>3, <1>7, <2>1, <2>3, <2>4, <2>5 DEF WithSize, open
<1>8. CASE open = 0 /\ Head(operand) = "["
  <2>1. 2 <= N - 1 /\ \A k \in 2 .. N - 1 : operand[k] \in Known
    <3>1. 2 \in Nat /\ 2 > 0 /\ Inside(operand) = SubSeq(operand, 2, N - 1)
      BY <1>4, <1>8
    <3>. QED
      BY <3>1, <1>6
  <2>2. operand[N] = "]" /\ 3 <= N
    BY <1>1, <2>1 DEF Ordinary
  <2>. QED
    BY <1>1, <1>3, <1>8, <2>1, <2>2 DEF InBrackets
<1>9. CASE open = 0 /\ Head(operand) # "["
  <2>1. \A k \in 1 .. N : operand[k] \in Known
    BY <1>1, <1>4, <1>5, <1>9 DEF Range
  <2>2. N = 1
    BY <1>1, <1>3, <2>1 DEF Ordinary
  <2>3. operand[1] \in registers \cup DOMAIN Numeral
    BY <1>1, <2>1, <2>2 DEF Ordinary, Known
  <2>. QED
    BY <2>2, <2>3, WordsAssumption DEF OneWord
<1>. QED
  BY <1>7, <1>8, <1>9

\* The text begins with the operand and a comma.
BeginsWith(text, operand) ==
  /\ Len(operand) < Len(text) /\ text[Len(operand) + 1] = Comma
  /\ \A k \in 1 .. Len(operand) : text[k] = operand[k]

LEMMA FindOrdinary ==
  ASSUME NEW operand \in Texts, Ordinary(operand), NEW text \in Texts, BeginsWith(text, operand)
  PROVE  /\ Len(operand) > 0 /\ operand[1] # "PTR"
         /\ Stripped(operand) \in Texts
         /\ FindAndConsume(text) = Found(Stripped(operand), Len(operand))
<1>. DEFINE N == Len(operand)
<1>1. N \in Nat /\ N > 0 /\ Len(text) \in Nat /\ N < Len(text) /\ text[N + 1] = Comma
  BY TextIs DEF Ordinary, BeginsWith
<1>2. text[1] = operand[1] /\ Head(text) = text[1] /\ text # <<>>
  <2>1. text # <<>>
    BY <1>1
  <2>. QED
    BY <1>1, <2>1, TextIs DEF BeginsWith
<1>3. \A k \in 1 .. N : text[k] = operand[k]
  BY DEF BeginsWith
<1>. HIDE DEF N
<1>0. N = Len(operand) /\ N - 1 \in Nat /\ N - 1 <= Len(text) /\ 1 \in 1 .. N
  BY <1>1 DEF N
<1>4. CASE WithSize(operand)
  <2>. DEFINE open == Opening(operand)
  <2>1. /\ open \in {3, 5} /\ open + 2 <= N
        /\ \A i \in open + 1 .. N - 1 : operand[i] # "]"
        /\ operand[N] = "]" /\ operand[1] # "#" /\ operand[1] # "PTR"
    BY <1>0, <1>4, OpeningIs DEF WithSize
  <2>2. Three(operand) => Three(text)
    <3>1. open = 3 => 1 \in 1 .. N /\ 2 \in 1 .. N /\ 3 \in 1 .. N
      BY <1>1, <2>1
    <3>2. SUFFICES ASSUME Three(operand) PROVE Three(text)
      OBVIOUS
    <3>3. open = 3 /\ N > 3
      BY <3>2, OpeningCases DEF Three, N
    <3>. QED
      BY <1>1, <1>3, <3>1, <3>2, <3>3 DEF Three
  <2>3. Five(operand) => Five(text)
    <3>1. open = 5 => \A k \in 1 .. 5 : k \in 1 .. N
      BY <1>1, <2>1
    <3>2. SUFFICES ASSUME Five(operand) PROVE Five(text)
      OBVIOUS
    <3>3. open = 5 /\ N > 5
      BY <3>2, OpeningCases DEF Five, N
    <3>4. \A k \in 1 .. 5 : text[k] = operand[k]
      BY <1>3, <3>1, <3>3
    <3>5. text[1] = operand[1] /\ text[2] = operand[2] /\ text[3] = operand[3]
          /\ text[4] = operand[4] /\ text[5] = operand[5]
      BY <3>4
    <3>. QED
      BY <1>1, <3>2, <3>3, <3>5 DEF Five
  <2>4. Opening(text) = open
    BY <2>1, <2>2, <2>3, OpeningCases
  <2>. HIDE DEF open
  <2>5. Closing(text, open) = N
    <3>1. N \in open + 2 .. Len(text) /\ open \in Nat
      BY <1>1, <2>1
    <3>2. \A i \in open + 1 .. N : i \in 1 .. N
      BY <1>1, <2>1
    <3>3. text[N] = "]" /\ \A i \in open + 1 .. N - 1 : text[i] # "]"
      BY <1>1, <1>3, <2>1, <3>2
    <3>. QED
      BY <3>1, <3>3, ClosingFirst
  <2>6. SizedPart(text) = N /\ N # 0 /\ ~IsComment(text)
    BY <1>1, <1>2, <2>1, <2>4, <2>5 DEF SizedPart, IsComment
  <2>7. FindAndConsume(text) = Found(SubSeq(text, 1, N), N)
    <3>. QED
      BY Zenon, <2>6, FindCases
  <2>8. SubSeq(text, 1, N) = operand
    <3>. DEFINE part == SubSeq(text, 1, N)
    <3>1. /\ part \in Texts /\ Len(part) = IF 1 <= N THEN N - 1 + 1 ELSE 0
          /\ \A k \in 1 .. N - 1 + 1 : part[k] = text[1 + k - 1]
      <4>1. 1 \in Nat /\ 1 > 0 /\ N \in Nat /\ N <= Len(text)
        BY <1>1
      <4>. QED
        BY <4>1, PartIs
    <3>. HIDE DEF part
    <3>2. Len(part) = N /\ \A k \in 1 .. N : part[k] = text[k]
      <4>1. N - 1 + 1 = N /\ 1 <= N /\ \A k \in 1 .. N : 1 + k - 1 = k
        BY <1>1
      <4>. QED
        BY <3>1, <4>1
    <3>3. part = operand
      BY <1>0, <1>3, <3>1, <3>2, SameText
    <3>. QED
      BY <3>3 DEF part
  <2>9. Stripped(operand) = operand
    <3>1. Three(operand) \/ Five(operand)
      BY <2>1, OpeningCases DEF open
    <3>2. operand[1] # "["
      BY <3>1 DEF Three, Five, IsWord, Punctuation
    <3>. QED
      BY <1>0, <1>1, <1>2, <2>1, <3>2 DEF Stripped
  <2>. QED
    BY Zenon, <1>0, <1>1, <2>1, <2>7, <2>8, <2>9
<1>5. CASE InBrackets(operand)
  <2>1. text[1] = "[" /\ Head(text) = "[" /\ ~IsWord("[") /\ "[" # "#" /\ "[" # "PTR"
    BY <1>2, <1>5 DEF InBrackets, IsWord, Punctuation
  <2>2. SizedPart(text) = 0 /\ ~IsComment(text)
    BY <2>1, OpeningCases DEF SizedPart, IsComment, Three, Five
  <2>3. Closing(text, 1) = N
    <3>1. N \in 1 + 2 .. Len(text) /\ 1 \in Nat
      BY <1>1, <1>5 DEF InBrackets, N
    <3>2. text[N] = "]" /\ \A i \in 1 + 1 .. N - 1 : text[i] # "]"
      BY <1>1, <1>3, <1>5 DEF InBrackets, N
    <3>. QED
      BY <3>1, <3>2, ClosingFirst
  <2>4. IsMemory(text)
    BY <1>1, <2>1, <2>3 DEF IsMemory
  <2>5. FindAndConsume(text) = Found(SubSeq(text, 2, N - 1), N)
    <3>. QED
      BY Zenon, <2>2, <2>3, <2>4, FindCases
  <2>6. SubSeq(text, 2, N - 1) \in Texts
    <3>1. 2 \in Nat /\ 2 > 0 /\ N - 1 \in Nat /\ N - 1 <= Len(text)
      BY <1>0
    <3>. QED
      BY <3>1, PartIs
  <2>7. SubSeq(text, 2, N - 1) = SubSeq(operand, 2, N - 1)
    <3>. DEFINE part == SubSeq(text, 2, N - 1)
                same == SubSeq(operand, 2, N - 1)
    <3>1. 2 \in Nat /\ 2 > 0 /\ N - 1 \in Nat /\ N - 1 <= Len(text) /\ N - 1 <= Len(operand)
      BY <1>0, <1>1
    <3>2. /\ part \in Texts /\ Len(part) = IF 2 <= N - 1 THEN N - 1 - 2 + 1 ELSE 0
          /\ \A k \in 1 .. N - 1 - 2 + 1 : part[k] = text[2 + k - 1]
      BY <3>1, PartIs
    <3>3. /\ same \in Texts /\ Len(same) = IF 2 <= N - 1 THEN N - 1 - 2 + 1 ELSE 0
          /\ \A k \in 1 .. N - 1 - 2 + 1 : same[k] = operand[2 + k - 1]
      BY <3>1, PartIs
    <3>. HIDE DEF part, same
    <3>4. 2 <= N - 1
      BY <1>0, <1>5 DEF InBrackets
    <3>5. \A k \in 1 .. N - 1 - 2 + 1 : part[k] = same[k]
      <4>1. \A k \in 1 .. N - 1 - 2 + 1 : 2 + k - 1 \in 1 .. N
        BY <1>1
      <4>. QED
        BY <1>3, <3>2, <3>3, <4>1
    <3>6. Len(part) = Len(same) /\ Len(part) = N - 1 - 2 + 1
      BY <3>2, <3>3, <3>4
    <3>7. part = same
      BY <3>2, <3>3, <3>5, <3>6, SameText
    <3>. QED
      BY <3>7 DEF part, same
  <2>8. Stripped(operand) = SubSeq(operand, 2, N - 1)
    <3>1. Head(operand) = "["
      BY <1>0, <1>1, <1>5, TextIs DEF InBrackets, Ordinary
    <3>. QED
      BY Zenon, <1>0, <3>1 DEF Stripped
  <2>. QED
    BY Zenon, <1>0, <1>1, <1>2, <2>1, <2>5, <2>6, <2>7, <2>8
<1>6. CASE OneWord(operand)
  <2>1. N = 1 /\ text[1] \in Words /\ text[2] # "PTR" /\ operand[1] # "PTR"
    <3>1. Comma # "PTR" /\ N = 1 /\ 1 + 1 = 2
      BY <1>0, <1>6, CommaIs DEF OneWord
    <3>. QED
      BY <1>1, <1>2, <1>6, <3>1 DEF OneWord
  <2>. QED
    <3>1. /\ FindAndConsume(text) = Found(IF text[1] \in DOMAIN Bare THEN <<Bare[text[1]]>>
                                          ELSE <<text[1]>>, 1)
          /\ <<text[1]>> \in Texts /\ (text[1] \in DOMAIN Bare => <<Bare[text[1]]>> \in Texts)
      BY <1>2, <2>1, FindWord
    <3>2. Head(operand) = operand[1] /\ operand[1] # "["
      <4>1. operand # <<>>
        BY DEF Ordinary
      <4>2. IsWord(operand[1])
        BY <1>2, <2>1, WordsAssumption
      <4>. QED
        BY <4>1, <4>2, TextIs DEF IsWord, Punctuation
    <3>3. operand = <<text[1]>>
      <4>. DEFINE one == <<text[1]>>
      <4>1. one \in Texts /\ Len(one) = 1 /\ one[1] = operand[1]
        BY <1>2, <3>1
      <4>. HIDE DEF one
      <4>2. Len(operand) = 1 /\ \A k \in 1 .. Len(operand) : operand[k] = one[k]
        BY <1>0, <2>1, <4>1
      <4>3. operand = one
        BY <4>1, <4>2, SameText
      <4>. QED
        BY <4>3 DEF one
    <3>4. Stripped(operand) = IF text[1] \in DOMAIN Bare THEN <<Bare[text[1]]>> ELSE <<text[1]>>
      <4>1. Stripped(operand) = IF operand[1] \in DOMAIN Bare THEN <<Bare[operand[1]]>>
                                ELSE operand
        BY Zenon, <1>0, <2>1, <3>2 DEF Stripped
      <4>. QED
        BY Zenon, <1>2, <3>3, <4>1
    <3>. QED
      BY Zenon, <1>0, <1>1, <2>1, <3>1, <3>4
<1>. QED
  BY <1>4, <1>5, <1>6, OrdinaryIs

-----------------------------------------------------------------------------
(* The text is read from left to right.                                    *)

\* run has the state before the first token and after each.
Scan(run, text) == Scanning!Runs(run, Start, Rests(text))

Reading(consumed, pieces) == [consumed |-> consumed, pieces |-> pieces]

LEMMA SplitIs ==
  ASSUME NEW pieces, NEW rest
  PROVE  /\ Split(Reading(0, pieces), rest) =
              Reading(FindAndConsume(rest).length - 1, pieces \o FindAndConsume(rest).pieces)
         /\ \A n \in Nat : n > 0 => Split(Reading(n, pieces), rest) = Reading(n - 1, pieces)
<1>1. Split(Reading(0, pieces), rest) =
        Reading(FindAndConsume(rest).length - 1, pieces \o FindAndConsume(rest).pieces)
  BY DEF Split, Reading
<1>2. ASSUME NEW n \in Nat, n > 0 PROVE Split(Reading(n, pieces), rest) = Reading(n - 1, pieces)
  BY <1>2 DEF Split, Reading
<1>. QED
  BY <1>1, <1>2

\* These pieces were found in the first tokens, and nothing more is consumed.
IsRead(run, at, pieces) == run[at] = Reading(0, pieces)

\* What the expression finds after the first tokens.
Finds(text, at, new, length) ==
  FindAndConsume(Rests(text)[at + 1]) = [pieces |-> new, length |-> length]

\* What is found at a place is read, and its tokens are consumed.
LEMMA ReadsFound ==
  ASSUME NEW text \in Texts, NEW run, Scan(run, text), NEW at \in Nat, NEW pieces,
         IsRead(run, at, pieces), NEW length \in Nat \ {0}, NEW new,
         at + length <= Len(text), Finds(text, at, new, length)
  PROVE  IsRead(run, at + length, Both(pieces, new))
<1>. DEFINE both == pieces \o new
            T == {j \in Nat : j + 1 <= length => run[at + j + 1] = Reading(length - (j + 1), both)}
<1>1. Len(text) \in Nat /\ Len(Rests(text)) = Len(text)
  BY TextIs, RestsIs
<1>2. \A n \in Nat : n + 1 <= at + length => run[n + 1] = Split(run[n], Rests(text)[n + 1])
  <2>1. ASSUME NEW n \in Nat, n + 1 <= at + length
        PROVE  run[n + 1] = Split(run[n], Rests(text)[n + 1])
    <3>1. n + 1 \in 1 .. Len(Rests(text)) /\ n + 1 - 1 = n
      BY <1>1, <2>1
    <3>. QED
      BY <3>1 DEF Scan, Scanning!Runs
  <2>. QED
    BY <2>1
<1>3. 0 \in T
  <2>1. run[at + 1] = Split(Reading(0, pieces), Rests(text)[at + 1])
    BY <1>2 DEF IsRead
  <2>2. run[at + 1] = Reading(length - 1, both)
    BY <2>1, SplitIs DEF Finds
  <2>. HIDE DEF both
  <2>. QED
    BY <2>2
<1>4. ASSUME NEW j \in Nat, j \in T PROVE j + 1 \in T
  <2>. HIDE DEF both
  <2>. SUFFICES ASSUME j + 1 + 1 <= length
                PROVE  run[at + (j + 1) + 1] = Reading(length - (j + 1 + 1), both)
    OBVIOUS
  <2>. DEFINE n == at + j + 1
              left == length - (j + 1)
  <2>1. run[n] = Reading(left, both)
    BY <1>4
  <2>2. n \in Nat /\ n + 1 <= at + length /\ n + 1 = at + (j + 1) + 1
        /\ left \in Nat /\ left > 0 /\ left - 1 = length - (j + 1 + 1)
    OBVIOUS
  <2>. HIDE DEF n, left
  <2>3. run[n + 1] = Split(run[n], Rests(text)[n + 1])
    BY <1>2, <2>2
  <2>4. run[n + 1] = Reading(left - 1, both)
    <3>. DEFINE rest == Rests(text)[n + 1]
    <3>1. Split(Reading(left, both), rest) = Reading(left - 1, both)
      BY <2>2, SplitIs
    <3>. HIDE DEF rest
    <3>. QED
      BY <2>1, <2>3, <3>1 DEF rest
  <2>. QED
    BY <2>2, <2>4
<1>5. Nat \subseteq T
  <2>. HIDE DEF T
  <2>. QED
    BY <1>3, <1>4, Scanning!Induction
<1>6. length - 1 \in Nat /\ length - 1 + 1 = length /\ at + (length - 1) + 1 = at + length
      /\ length - length = 0
  OBVIOUS
<1>7. length - 1 \in T
  <2>. HIDE DEF T
  <2>. QED
    BY <1>5, <1>6
<1>. QED
  BY <1>6, <1>7 DEF IsRead, Both

\* After this text a number of operands was read, whatever follows: every
\* operand is one piece, and the name is the first.
Continuations == {c \in Texts : c # <<>> => c[1] # "PTR"}

\* The pieces are the name and the first operands, stripped.
AreOperands(pieces, name, ops, k) ==
  /\ Len(pieces) = k + 1 /\ pieces[1] = <<name>>
  /\ \A i \in 1 .. k : pieces[i + 1] = Stripped(ops[i])

Operands(name, ops, run, at, k) ==
  \E pieces \in Seq(Texts) : IsRead(run, at, pieces) /\ AreOperands(pieces, name, ops, k)

Reads(name, ops, text, k) ==
  \A c \in Continuations : \A run :
    Scan(run, Both(text, c)) => Operands(name, ops, run, Len(text), k)

LEMMA ReadsName ==
  ASSUME NEW name \in Words \ DOMAIN Bare, NEW ops
  PROVE  <<name>> \in Texts /\ Reads(name, ops, <<name>>, 0)
<1>. DEFINE n == <<name>>
<1>1. n \in Texts /\ Len(n) = 1 /\ n[1] = name
  <2>1. name \in Tokens
    BY DEF Tokens
  <2>. QED
    BY <2>1, TokenIs
<1>. HIDE DEF n
<1>2. ASSUME NEW c \in Continuations, NEW run, Scan(run, Both(n, c))
      PROVE  Operands(name, ops, run, 1, 0)
  <2>. DEFINE text == Both(n, c)
              rest == Rests(text)[1]
  <2>1. c \in Texts /\ Len(c) \in Nat
    BY TextIs DEF Continuations
  <2>2. /\ text \in Texts /\ Len(text) = 1 + Len(c)
        /\ text[1] = name
        /\ \A k \in 1 .. Len(c) : text[1 + k] = c[k]
    <3>1. /\ text \in Texts /\ Len(text) = Len(n) + Len(c)
          /\ \A j \in 1 .. Len(n) : text[j] = n[j]
          /\ \A j \in 1 .. Len(c) : text[Len(n) + j] = c[j]
      BY Zenon, <1>1, <2>1, BothAre
    <3>. HIDE DEF text
    <3>. QED
      BY <1>1, <2>1, <3>1
  <2>. HIDE DEF text
  <2>3. 1 \in 1 .. Len(text)
    BY <2>1, <2>2
  <2>4. /\ rest \in Texts /\ rest # <<>> /\ Len(rest) = Len(text) - 1 + 1
        /\ \A k \in 1 .. Len(text) - 1 + 1 : rest[k] = text[1 + k - 1]
    BY <2>2, <2>3, RestsIs
  <2>. HIDE DEF rest
  <2>5. rest[1] = name
    <3>1. 1 \in 1 .. Len(text) - 1 + 1 /\ 1 + 1 - 1 = 1
      BY <2>1, <2>2
    <3>. QED
      BY <2>2, <2>4, <3>1
  <2>6. Len(rest) > 1 => rest[2] # "PTR"
    <3>1. SUFFICES ASSUME Len(rest) > 1 PROVE rest[2] # "PTR"
      OBVIOUS
    <3>2. 2 \in 1 .. Len(text) - 1 + 1 /\ 1 + 2 - 1 = 1 + 1 /\ 1 \in 1 .. Len(c)
      BY <2>1, <2>2, <2>4, <3>1
    <3>3. rest[2] = c[1] /\ c # <<>>
      BY <2>2, <2>4, <3>2
    <3>. QED
      BY <3>3 DEF Continuations
  <2>. DEFINE new == <<n>>
              none == <<>>
  <2>7. Finds(text, 0, new, 1)
    <3>1. FindAndConsume(rest) = Found(n, 1)
      BY <2>4, <2>5, <2>6, FindWord DEF n
    <3>. QED
      BY <3>1 DEF Found, Finds, rest
  <2>8. IsRead(run, 0, none)
    BY <1>2 DEF Scan, Scanning!Runs, Start, Reading, IsRead
  <2>9. Both(none, new) \in Seq(Texts) /\ Len(Both(none, new)) = 0 + 1 /\ Both(none, new)[1] = n
    <3>. DEFINE S == Texts
    <3>1. n \in S
      BY <1>1
    <3>. HIDE DEF S
    <3>2. LET all == none \o new IN all \in Seq(S) /\ Len(all) = 0 + 1 /\ all[1] = n
      BY <3>1
    <3>. QED
      BY <3>2 DEF S, Both
  <2>. HIDE DEF new, none
  <2>10. IsRead(run, 0 + 1, Both(none, new))
    <3>1. Scan(run, text) /\ 0 \in Nat /\ 1 \in Nat \ {0} /\ 0 + 1 <= Len(text)
      BY <1>2, <2>1, <2>2 DEF text
    <3>. QED
      BY Zenon, <2>2, <2>7, <2>8, <3>1, ReadsFound
  <2>11. IsRead(run, 1, Both(none, new))
    BY <2>10
  <2>12. AreOperands(Both(none, new), name, ops, 0)
    BY <2>9 DEF AreOperands, n
  <2>. QED
    BY Zenon, <2>9, <2>11, <2>12 DEF Operands
<1>3. Reads(name, ops, n, 0)
  BY <1>1, <1>2 DEF Reads
<1>. QED
  BY <1>1, <1>3 DEF n

\* An ordinary operand and its comma are read as one piece.
LEMMA ReadsOperand ==
  ASSUME NEW name, NEW text \in Texts, NEW k \in Nat, NEW ops,
         Reads(name, ops, text, k), NEW operand \in Texts, Ordinary(operand), operand = ops[k + 1]
  PROVE  Printed(text, operand) \in Texts /\ Reads(name, ops, Printed(text, operand), k + 1)
<1>. DEFINE comma == <<Comma>>
            printed == Printed(text, operand)
            N == Len(operand)
            L == Len(text)
            separated == Both(operand, comma)
<1>1. comma \in Texts /\ Len(comma) = 1 /\ comma[1] = Comma
  BY CommaIs, TokenIs
<1>2. /\ L \in Nat /\ N \in Nat \ {0}
      /\ L = Len(text) /\ N = Len(operand)
  BY TextIs DEF Ordinary
<1>3. printed = Both(Both(text, operand), comma)
  BY Zenon DEF Printed, Comma, Both
<1>. HIDE DEF comma, printed, N, L
<1>4. /\ separated \in Texts /\ Len(separated) = N + 1
      /\ separated[N + 1] = Comma
      /\ \A i \in 1 .. N : separated[i] = operand[i]
  <2>1. /\ separated \in Texts /\ Len(separated) = Len(operand) + Len(comma)
        /\ \A j \in 1 .. Len(operand) : separated[j] = operand[j]
        /\ \A j \in 1 .. Len(comma) : separated[Len(operand) + j] = comma[j]
    BY Zenon, <1>1, BothAre
  <2>. HIDE DEF separated
  <2>. QED
    BY <1>1, <1>2, <2>1
<1>5. printed = Both(text, separated)
  BY <1>1, <1>3, BothAssociative
<1>. HIDE DEF separated
<1>6. printed \in Texts /\ Len(printed) = L + (N + 1)
  <2>1. /\ Both(text, separated) \in Texts /\ Len(Both(text, separated)) = Len(text) + Len(separated)
        /\ \A j \in 1 .. Len(text) : Both(text, separated)[j] = text[j]
        /\ \A j \in 1 .. Len(separated) : Both(text, separated)[Len(text) + j] = separated[j]
    BY Zenon, <1>4, BothAre
  <2>. QED
    BY <1>2, <1>4, <1>5, <2>1
<1>7. ASSUME NEW c \in Continuations, NEW run, Scan(run, Both(printed, c))
      PROVE  Operands(name, ops, run, L + (N + 1), k + 1)
  <2>. DEFINE rest == Both(separated, c)
              all  == Both(text, rest)
              M    == Len(c)
  <2>1. c \in Texts /\ M \in Nat /\ M = Len(c)
    BY TextIs DEF Continuations
  <2>2. Both(printed, c) = all
    BY <1>4, <1>5, <2>1, BothAssociative
  <2>. HIDE DEF M
  <2>3. /\ rest \in Texts /\ Len(rest) = N + 1 + M
        /\ \A i \in 1 .. N + 1 : rest[i] = separated[i]
    <3>1. /\ rest \in Texts /\ Len(rest) = Len(separated) + Len(c)
          /\ \A j \in 1 .. Len(separated) : rest[j] = separated[j]
          /\ \A j \in 1 .. Len(c) : rest[Len(separated) + j] = c[j]
      BY Zenon, <1>4, <2>1, BothAre
    <3>. HIDE DEF rest
    <3>. QED
      BY <1>4, <2>1, <3>1
  <2>. HIDE DEF rest
  <2>4. /\ rest[N + 1] = Comma
        /\ \A i \in 1 .. N : rest[i] = operand[i]
    <3>1. N + 1 \in 1 .. N + 1 /\ \A i \in 1 .. N : i \in 1 .. N + 1
      BY <1>2
    <3>. QED
      BY <1>4, <2>3, <3>1
  <2>5. /\ all \in Texts /\ Len(all) = L + (N + 1 + M)
        /\ \A i \in 1 .. N + 1 + M : all[L + i] = rest[i]
    <3>1. /\ all \in Texts /\ Len(all) = Len(text) + Len(rest)
          /\ \A j \in 1 .. Len(text) : all[j] = text[j]
          /\ \A j \in 1 .. Len(rest) : all[Len(text) + j] = rest[j]
      BY Zenon, <2>3, BothAre
    <3>. HIDE DEF all
    <3>. QED
      BY <1>2, <2>3, <3>1
  <2>. HIDE DEF all
  <2>6. BeginsWith(rest, operand)
    BY <1>2, <2>1, <2>3, <2>4 DEF BeginsWith
  <2>. DEFINE piece == Stripped(operand)
  <2>7. operand[1] # "PTR"
    BY <1>2, <2>3, <2>6, FindOrdinary
  <2>8. piece \in Texts /\ FindAndConsume(rest) = Found(piece, N)
    BY <1>2, <2>3, <2>6, FindOrdinary
  <2>. HIDE DEF piece
  <2>9. rest \in Continuations
    <3>1. rest[1] = operand[1]
      BY <1>2, <2>4
    <3>. QED
      BY <2>3, <2>7, <3>1 DEF Continuations
  <2>10. Operands(name, ops, run, L, k) /\ Scan(run, all)
    <3>1. Scan(run, Both(text, rest))
      BY <1>7, <2>2 DEF all
    <3>. QED
      BY <1>2, <2>9, <3>1 DEF Reads, all
  <2>11. PICK pieces \in Seq(Texts) :
           IsRead(run, L, pieces) /\ AreOperands(pieces, name, ops, k)
    BY Zenon, <2>10 DEF Operands
  <2>. DEFINE new  == <<piece>>
              both == Both(pieces, new)
              none == <<>>
  <2>12. Finds(all, L, new, N)
    <3>. DEFINE there == Rests(all)[L + 1]
    <3>1. L + 1 \in 1 .. Len(all) /\ Len(all) - (L + 1) + 1 = N + 1 + M
      BY <1>2, <2>1, <2>5
    <3>2. /\ there \in Texts /\ Len(there) = N + 1 + M
          /\ \A i \in 1 .. N + 1 + M : there[i] = all[(L + 1) + i - 1]
      <4>1. /\ there \in Texts /\ Len(there) = Len(all) - (L + 1) + 1
            /\ \A i \in 1 .. Len(all) - (L + 1) + 1 : there[i] = all[(L + 1) + i - 1]
        BY Zenon, <2>5, <3>1, RestsIs
      <4>. HIDE DEF there
      <4>. QED
        BY <3>1, <4>1
    <3>. HIDE DEF there
    <3>3. \A i \in 1 .. N + 1 + M : there[i] = rest[i]
      <4>1. \A i \in 1 .. N + 1 + M : (L + 1) + i - 1 = L + i
        BY <1>2
      <4>. QED
        BY <2>5, <3>2, <4>1
    <3>4. there = rest
      BY <2>3, <3>2, <3>3, SameText
    <3>. QED
      BY <2>8, <3>4 DEF Finds, Found, there
  <2>13. IsRead(run, L + N, both)
    <3>1. L + N <= Len(all)
      BY <1>2, <2>1, <2>5
    <3>. HIDE DEF new
    <3>. QED
      BY Zenon, <1>2, <2>5, <2>10, <2>11, <2>12, <3>1, ReadsFound
  <2>14. Finds(all, L + N, none, 1)
    <3>. DEFINE last == Rests(all)[L + N + 1]
    <3>1. /\ L + N + 1 \in 1 .. Len(all) /\ 1 \in 1 .. Len(all) - (L + N + 1) + 1
          /\ (L + N + 1) + 1 - 1 = L + (N + 1) /\ N + 1 \in 1 .. N + 1 + M
      BY <1>2, <2>1, <2>5
    <3>2. /\ last \in Texts /\ last # <<>>
          /\ \A i \in 1 .. Len(all) - (L + N + 1) + 1 : last[i] = all[(L + N + 1) + i - 1]
      BY <2>5, <3>1, RestsIs
    <3>. HIDE DEF last
    <3>3. last[1] = Comma
      BY <2>4, <2>5, <3>1, <3>2
    <3>. QED
      BY <3>2, <3>3, FindComma DEF last, Finds
  <2>15. both \in Seq(Texts) /\ AreOperands(both, name, ops, k + 1)
    <3>. DEFINE S == Texts
    <3>1. piece \in S /\ pieces \in Seq(S) /\ Len(pieces) = k + 1
      BY <2>8, <2>11 DEF AreOperands
    <3>. HIDE DEF S
    <3>2. LET b == pieces \o <<piece>> IN
          /\ b \in Seq(S) /\ Len(b) = k + 1 + 1 /\ b[k + 2] = piece
          /\ \A i \in 1 .. k + 1 : b[i] = pieces[i]
      BY <3>1
    <3>3. /\ both \in Seq(S) /\ Len(both) = k + 1 + 1 /\ both[k + 2] = piece
          /\ \A i \in 1 .. k + 1 : both[i] = pieces[i]
      BY <3>2 DEF Both
    <3>. HIDE DEF both
    <3>4. both[1] = <<name>> /\ \A i \in 1 .. k : both[i + 1] = Stripped(ops[i])
      <4>1. 1 \in 1 .. k + 1 /\ \A i \in 1 .. k : i + 1 \in 1 .. k + 1
        OBVIOUS
      <4>. QED
        BY <2>11, <3>3, <4>1 DEF AreOperands
    <3>5. both[k + 1 + 1] = Stripped(ops[k + 1])
      <4>1. k + 1 + 1 = k + 2
        OBVIOUS
      <4>. QED
        BY <3>3, <4>1 DEF piece
    <3>6. \A i \in 1 .. k + 1 : both[i + 1] = Stripped(ops[i])
      <4>1. \A i \in 1 .. k + 1 : i \in 1 .. k \/ i = k + 1
        OBVIOUS
      <4>. QED
        BY <3>4, <3>5, <4>1
    <3>. QED
      BY <3>3, <3>4, <3>6 DEF S, AreOperands
  <2>. HIDE DEF both
  <2>16. Both(both, none) = both
    <3>. DEFINE S == Texts
    <3>1. both \in Seq(S)
      BY <2>15
    <3>. HIDE DEF S
    <3>. QED
      BY <3>1 DEF Both
  <2>. HIDE DEF none
  <2>17. IsRead(run, L + N + 1, both)
    <3>1. L + N \in Nat /\ L + N + 1 <= Len(all) /\ 1 \in Nat \ {0}
      BY <1>2, <2>1, <2>5
    <3>2. IsRead(run, L + N + 1, Both(both, none))
      BY Zenon, <2>5, <2>10, <2>13, <2>14, <3>1, ReadsFound
    <3>. QED
      BY <2>16, <3>2
  <2>18. L + N + 1 = L + (N + 1)
    BY <1>2
  <2>. QED
    BY Zenon, <2>15, <2>17, <2>18 DEF Operands
<1>8. Reads(name, ops, printed, k + 1)
  BY Zenon, <1>6, <1>7 DEF Reads
<1>. QED
  BY <1>6, <1>8 DEF printed

\* The whole text is read.
LEMMA PiecesRead ==
  ASSUME NEW name, NEW ops, NEW text \in Texts, NEW k \in Nat, Reads(name, ops, text, k)
  PROVE  AreOperands(Pieces(text), name, ops, k)
<1>1. /\ Len(Rests(text)) \in Nat /\ DOMAIN Rests(text) = 1 .. Len(Rests(text))
      /\ Len(Rests(text)) = Len(text)
  BY RestsIs, TextIs
<1>2. PICK run : /\ Scanning!Runs(run, Start, Rests(text))
                 /\ Scanning!Folded(Start, Rests(text)) = run[Len(Rests(text))]
  BY <1>1, Scanning!FoldRuns
<1>3. Scan(run, Both(text, <<>>))
  BY <1>2, BothEmpty DEF Scan
<1>4. <<>> \in Continuations
  BY BothEmpty DEF Continuations
<1>5. Operands(name, ops, run, Len(text), k)
  BY Zenon, <1>3, <1>4 DEF Reads
<1>6. Pieces(text) = run[Len(text)].pieces
  BY <1>1, <1>2, PiecesIsFold
<1>. QED
  BY <1>5, <1>6 DEF Operands, Reading, IsRead

-----------------------------------------------------------------------------
(* The text of an instruction.                                             *)

LEMMA PrintedIs ==
  ASSUME NEW text \in Texts, NEW operand \in Texts
  PROVE  Printed(text, operand) \in Texts
<1>. DEFINE comma == <<Comma>>
<1>1. comma \in Texts
  BY CommaIs, TokenIs
<1>2. Printed(text, operand) = Both(Both(text, operand), comma)
  BY Zenon DEF Printed, Comma, Both
<1>. HIDE DEF comma
<1>. QED
  BY <1>1, <1>2, BothAre

LEMMA DecodedIsFold ==
  decoded = Printing!Folded(<<instr.name>>, instr.operands)
BY Zenon DEF decoded, Printing!Folded, FoldLeft, Printing!FoldLeft, MapThenFoldSet,
   Printing!MapThenFoldSet, Max, Printing!Max

LEMMA DecodedIs ==
  ASSUME instr \in Instructions
  PROVE  /\ decoded \in Texts
         /\ IsOrdinary =>
              AreOperands(Pieces(decoded), instr.name, instr.operands, Len(instr.operands))
<1>. DEFINE name == instr.name
            operands == instr.operands
            N == Len(operands)
<1>1. name \in Words \ DOMAIN Bare /\ operands \in Seq(Texts)
  BY InstructionsAssumption
<1>2. N \in Nat /\ DOMAIN operands = 1 .. N /\ \A k \in 1 .. N : operands[k] \in Texts
  <2>. DEFINE S == Texts
  <2>1. operands \in Seq(S)
    BY <1>1
  <2>. HIDE DEF S, operands
  <2>. QED
    BY <2>1 DEF S
<1>3. <<name>> \in Texts /\ Reads(name, operands, <<name>>, 0)
  BY <1>1, ReadsName
<1>4. decoded \in Texts
  <2>. DEFINE T == [n \in Nat |-> Texts]
  <2>1. \A n \in 1 .. N : \A v \in T[n - 1] : Printed(v, operands[n]) \in T[n]
    BY <1>2, PrintedIs
  <2>2. <<name>> \in T[0] /\ T[N] = Texts
    BY <1>2, <1>3
  <2>. HIDE DEF T
  <2>3. Printing!Folded(<<name>>, operands) \in T[N]
    BY <1>2, <2>1, <2>2, Printing!FoldSteps
  <2>. QED
    BY <2>2, <2>3, DecodedIsFold
<1>5. ASSUME IsOrdinary PROVE Reads(name, operands, decoded, N)
  <2>. DEFINE T == [n \in Nat |-> {t \in Texts : Reads(name, operands, t, n)}]
  <2>1. ASSUME NEW n \in 1 .. N, NEW v \in T[n - 1] PROVE Printed(v, operands[n]) \in T[n]
    <3>1. n - 1 \in Nat /\ n - 1 + 1 = n /\ n \in Nat
      BY <1>2
    <3>2. v \in Texts /\ Reads(name, operands, v, n - 1)
      BY <3>1
    <3>3. operands[n] \in Texts /\ Ordinary(operands[n])
      BY <1>2, <1>5 DEF IsOrdinary
    <3>4. Printed(v, operands[n]) \in Texts /\ Reads(name, operands, Printed(v, operands[n]), n - 1 + 1)
      BY <3>1, <3>2, <3>3, ReadsOperand
    <3>. QED
      BY <3>1, <3>4
  <2>2. <<name>> \in T[0] /\ T[N] = {t \in Texts : Reads(name, operands, t, N)}
    BY <1>2, <1>3
  <2>. HIDE DEF T
  <2>3. Printing!Folded(<<name>>, operands) \in T[N]
    BY <1>2, <2>1, <2>2, Printing!FoldSteps
  <2>. QED
    BY <2>2, <2>3, DecodedIsFold
<1>6. IsOrdinary => AreOperands(Pieces(decoded), name, operands, N)
  BY <1>2, <1>4, <1>5, PiecesRead
<1>. QED
  BY <1>4, <1>6

-----------------------------------------------------------------------------
(* Lists of anything.                                                      *)

Listing(s) == \E n \in Nat : s = [i \in 1 .. n |-> s[i]]

LEMMA ListingIs ==
  ASSUME NEW s, Listing(s)
  PROVE  Len(s) \in Nat /\ DOMAIN s = 1 .. Len(s) /\ s \in Seq(Range(s))
<1>1. PICK n \in Nat : s = [i \in 1 .. n |-> s[i]]
  BY DEF Listing
<1>2. DOMAIN s = 1 .. n /\ \A i \in 1 .. n : s[i] \in Range(s)
  BY <1>1 DEF Range
<1>. DEFINE S == Range(s)
<1>. HIDE DEF S
<1>3. s \in [1 .. n -> S]
  BY <1>1, <1>2 DEF S
<1>4. s \in Seq(S) /\ Len(s) = n
  BY <1>3, IsASeq
<1>. QED
  BY <1>2, <1>4 DEF S

LEMMA ListOf ==
  ASSUME NEW S, NEW s \in Seq(S)
  PROVE  Listing(s)
<1>1. Len(s) \in Nat /\ s = [i \in 1 .. Len(s) |-> s[i]]
  BY LenProperties
<1>. QED
  BY <1>1 DEF Listing

LEMMA ListEmpty == Listing(<<>>) /\ Len(<<>>) = 0
<1>1. <<>> \in Seq({})
  OBVIOUS
<1>. QED
  BY <1>1, ListOf

LEMMA ListAppend ==
  ASSUME NEW s, Listing(s), NEW x
  PROVE  /\ Listing(Append(s, x)) /\ Len(Append(s, x)) = Len(s) + 1
         /\ \A k \in 1 .. Len(s) : Append(s, x)[k] = s[k]
         /\ Append(s, x)[Len(s) + 1] = x
<1>. DEFINE S == Range(s) \cup {x}
<1>1. s \in Seq(Range(s)) /\ Range(s) \subseteq S /\ x \in S
  BY ListingIs
<1>. HIDE DEF S
<1>2. s \in Seq(S)
  BY <1>1, SeqMonotonic
<1>3. /\ Append(s, x) \in Seq(S) /\ Len(Append(s, x)) = Len(s) + 1
      /\ \A k \in 1 .. Len(s) : Append(s, x)[k] = s[k]
      /\ Append(s, x)[Len(s) + 1] = x
  BY <1>1, <1>2, AppendProperties
<1>. QED
  BY <1>3, ListOf

LEMMA ListFront ==
  ASSUME NEW s, Listing(s), s # <<>>
  PROVE  /\ Listing(Front(s)) /\ Len(Front(s)) = Len(s) - 1
         /\ \A k \in 1 .. Len(s) - 1 : Front(s)[k] = s[k]
<1>. DEFINE S == Range(s)
            n == Len(s) - 1
<1>1. s \in Seq(S) /\ Len(s) \in Nat
  BY ListingIs
<1>. HIDE DEF S
<1>2. Len(s) > 0
  BY <1>1
<1>3. n \in Nat /\ n <= Len(s) /\ \A i \in 1 .. n : s[i] \in S
  BY <1>1, <1>2
<1>4. Front(s) = SubSeq(s, 1, n)
  BY DEF Front
<1>. HIDE DEF n
<1>5. SubSeq(s, 1, n) \in Seq(S) /\ Len(SubSeq(s, 1, n)) = n /\ \A k \in 1 .. n : SubSeq(s, 1, n)[k] = s[k]
  BY <1>1, <1>3
<1>. QED
  BY <1>4, <1>5, ListOf DEF n

Replaced(t, s, at, x) == t = [s EXCEPT ![at] = x]

LEMMA ListExcept ==
  ASSUME NEW s, Listing(s), NEW at \in 1 .. Len(s), NEW x, NEW t, Replaced(t, s, at, x)
  PROVE  /\ Listing(t) /\ Len(t) = Len(s)
         /\ t[at] = x /\ \A k \in 1 .. Len(s) : k # at => t[k] = s[k]
<1>. DEFINE S == Range(s) \cup {x}
<1>1. s \in Seq(Range(s)) /\ Range(s) \subseteq S /\ x \in S
  BY ListingIs
<1>. HIDE DEF S
<1>2. s \in Seq(S)
  BY <1>1, SeqMonotonic
<1>3. /\ t \in Seq(S) /\ Len(t) = Len(s)
      /\ t[at] = x /\ \A k \in 1 .. Len(s) : k # at => t[k] = s[k]
  BY <1>1, <1>2 DEF Replaced
<1>4. Listing(t)
  BY <1>3, ListOf
<1>. QED
  BY <1>3, <1>4

-----------------------------------------------------------------------------
(* The subscriptions.                                                      *)

\* A subscription is at its own place in the pieces of the text, and was given
\* what is before that place and what it asked for.
Right(sub, pieces) ==
  /\ sub = [skip |-> sub.skip, wanted |-> sub.wanted, seen |-> sub.seen, input |-> sub.input,
            got |-> sub.got]
  /\ sub.skip \in {0, 1} /\ sub.wanted \in Nat /\ (sub.skip = 0 => sub.wanted = 1)
  /\ sub.seen \in 0 .. Len(pieces) /\ sub.input = SubSeq(pieces, sub.seen + 1, Len(pieces))
  /\ Listing(sub.got)
  /\ Len(sub.got) = IF sub.seen <= sub.skip THEN 0
                    ELSE IF sub.seen - sub.skip <= sub.wanted THEN sub.seen - sub.skip
                    ELSE sub.wanted
  /\ sub.skip = 0 /\ sub.seen > 0 => sub.got = <<UnknownSymbol(pieces[1])>>

Subscriptions ==
  /\ Listing(subs) /\ Len(subs) <= MaxDepth
  /\ \A k \in 1 .. Len(subs) : Right(subs[k], Pieces(decoded))

ByAddress == \A a \in DOMAIN functions : Functions[functions[a]] = a

Inv ==
  /\ instr \in Instructions
  /\ ByAddress
  /\ Subscriptions
  /\ status \in {"running", "EmptyError"}

LEMMA PiecesLength ==
  ASSUME Inv
  PROVE  Pieces(decoded) \in Seq(Texts) /\ Len(Pieces(decoded)) \in Nat
<1>. DEFINE S == Texts
            pieces == Pieces(decoded)
<1>1. pieces \in Seq(S)
  BY DecodedIs, PiecesAre DEF Inv
<1>. HIDE DEF S, pieces
<1>2. Len(pieces) \in Nat
  BY <1>1
<1>. QED
  BY <1>1, <1>2 DEF S, pieces

LEMMA TopIs ==
  ASSUME Inv, subs # <<>>
  PROVE  /\ Len(subs) \in Nat /\ Len(subs) \in 1 .. Len(subs)
         /\ Top = subs[Len(subs)] /\ Right(Top, Pieces(decoded))
<1>1. Len(subs) \in Nat /\ subs \in Seq(Range(subs))
  BY ListingIs DEF Inv, Subscriptions
<1>. DEFINE S == Range(subs)
<1>. HIDE DEF S
<1>2. Len(subs) > 0
  BY <1>1 DEF S
<1>. QED
  BY <1>1, <1>2 DEF Inv, Subscriptions, Top, Last

\* The pieces that are left.
LEMMA InputIs ==
  ASSUME NEW pieces \in Seq(Texts), NEW sub, Right(sub, pieces)
  PROVE  /\ sub.input = <<>> <=> sub.seen = Len(pieces)
         /\ sub.seen < Len(pieces) =>
              /\ Head(sub.input) = pieces[sub.seen + 1] /\ Head(sub.input) \in Texts
              /\ Tail(sub.input) = SubSeq(pieces, sub.seen + 2, Len(pieces))
<1>. DEFINE S == Texts
            N == Len(pieces)
            n == sub.seen
            rest == SubSeq(pieces, n + 1, N)
<1>1. pieces \in Seq(S) /\ n \in 0 .. N /\ sub.input = rest
  BY DEF Right
<1>. HIDE DEF S, n
<1>2. N \in Nat
  BY <1>1
<1>. HIDE DEF N
<1>3. n = N => rest = <<>>
  BY <1>1, <1>2 DEF N
<1>4. ASSUME n < N
      PROVE  rest # <<>> /\ Head(rest) = pieces[n + 1] /\ Head(rest) \in S
             /\ Tail(rest) = SubSeq(pieces, n + 2, N)
  <2>1. n + 1 \in 1 .. N /\ N \in n + 1 .. N /\ n + 1 + 1 = n + 2
    BY <1>1, <1>2, <1>4
  <2>2. Head(rest) = pieces[n + 1] /\ Tail(rest) = SubSeq(pieces, n + 1 + 1, N)
    BY <1>1, <2>1, HeadTailOfSubSeq DEF N
  <2>3. pieces[n + 1] \in S
    BY <1>1, <2>1, ElementOfSeq DEF N
  <2>4. Len(rest) = N - (n + 1) + 1
    BY <1>1, <1>2, <2>1 DEF N
  <2>5. rest # <<>>
    <3>. HIDE DEF rest
    <3>. QED
      BY <1>1, <1>2, <2>1, <2>4
  <2>. QED
    BY <2>1, <2>2, <2>3, <2>5
<1>5. n = N \/ n < N
  BY <1>1, <1>2
<1>. QED
  BY <1>1, <1>3, <1>4, <1>5 DEF N, n, S

LEMMA InitInv == Init => Inv
<1>. SUFFICES ASSUME Init PROVE Inv
  OBVIOUS
<1>1. ByAddress
  <2>1. functions = <<>> \/ \E f \in DOMAIN Functions : functions = [a \in {Functions[f]} |-> f]
    BY DEF Init
  <2>2. CASE functions = <<>>
    BY <2>2 DEF ByAddress
  <2>3. ASSUME NEW f \in DOMAIN Functions, functions = [a \in {Functions[f]} |-> f]
        PROVE  ByAddress
    BY <2>3 DEF ByAddress
  <2>. QED
    BY <2>1, <2>2, <2>3
<1>2. Subscriptions
  <2>1. Listing(<<>>) /\ Len(<<>>) = 0
    BY ListEmpty
  <2>. QED
    BY <2>1, DepthAssumption DEF Init, Subscriptions
<1>. QED
  BY <1>1, <1>2 DEF Init, Inv

\* A new subscription begins at the beginning.
LEMMA SubscribeInv ==
  ASSUME Inv, NEW stream \in Streams, Subscribe(stream)
  PROVE  Inv'
<1>. DEFINE pieces == Pieces(decoded)
            sub == [skip |-> stream.skip, wanted |-> stream.wanted, seen |-> 0,
                    input |-> pieces, got |-> <<>>]
<1>1. /\ subs' = Append(subs, sub) /\ Len(subs) < MaxDepth
      /\ instr' = instr /\ functions' = functions /\ status' = status
  BY Zenon DEF Subscribe
<1>2. pieces \in Seq(Texts) /\ Len(decoded) \in Nat
  BY DecodedIs, PiecesAre, TextIs DEF Inv
<1>3. stream.skip \in {0, 1} /\ stream.wanted \in Nat /\ (stream.skip = 0 => stream.wanted = 1)
  BY <1>2 DEF Streams, All
<1>4. Pieces(decoded)' = pieces
  BY <1>1 DEF decoded
<1>. HIDE DEF pieces
<1>5. Right(sub, pieces)
  <2>1. Listing(<<>>) /\ Len(<<>>) = 0
    BY ListEmpty
  <2>2. Len(pieces) \in Nat /\ SubSeq(pieces, 0 + 1, Len(pieces)) = pieces
    <3>. DEFINE S == Texts
    <3>1. pieces \in Seq(S)
      BY <1>2
    <3>. HIDE DEF S
    <3>. QED
      BY <3>1, SubSeqFull
  <2>. QED
    BY <1>3, <2>1, <2>2 DEF Right
<1>. HIDE DEF sub
<1>6. Listing(subs) /\ Len(subs) \in Nat
  BY ListingIs DEF Inv, Subscriptions
<1>7. /\ Listing(subs') /\ Len(subs') = Len(subs) + 1
      /\ \A k \in 1 .. Len(subs) : subs'[k] = subs[k]
      /\ subs'[Len(subs) + 1] = sub
  BY <1>1, <1>6, ListAppend
<1>8. \A k \in 1 .. Len(subs) : Right(subs[k], pieces)
  BY DEF Inv, Subscriptions, pieces
<1>9. ASSUME NEW k \in 1 .. Len(subs') PROVE Right(subs'[k], pieces)
  <2>1. k \in 1 .. Len(subs) \/ k = Len(subs) + 1
    BY <1>6, <1>7
  <2>. QED
    BY <1>5, <1>7, <1>8, <2>1
<1>10. Subscriptions'
  BY <1>1, <1>4, <1>6, <1>7, <1>9, DepthAssumption DEF Subscriptions
<1>. QED
  BY <1>1, <1>10 DEF Inv, ByAddress

LEMMA ExceptIs ==
  ASSUME NEW sub, NEW skip, NEW wanted, NEW before, NEW left, NEW had,
         sub = [skip |-> skip, wanted |-> wanted, seen |-> before, input |-> left, got |-> had],
         NEW seen, NEW input, NEW got
  PROVE  /\ [sub EXCEPT !.seen = seen, !.input = input] =
              [skip |-> skip, wanted |-> wanted, seen |-> seen, input |-> input, got |-> had]
         /\ [sub EXCEPT !.seen = seen, !.input = input, !.got = got] =
              [skip |-> skip, wanted |-> wanted, seen |-> seen, input |-> input, got |-> got]
<1>. DEFINE one == [sub EXCEPT !.seen = seen]
            two == [sub EXCEPT !.seen = seen, !.input = input]
<1>1. one = [skip |-> skip, wanted |-> wanted, seen |-> seen, input |-> left, got |-> had]
  OBVIOUS
<1>2. two = [one EXCEPT !.input = input]
  OBVIOUS
<1>3. [sub EXCEPT !.seen = seen, !.input = input, !.got = got] = [two EXCEPT !.got = got]
  OBVIOUS
<1>. HIDE DEF one, two
<1>4. two = [skip |-> skip, wanted |-> wanted, seen |-> seen, input |-> input, got |-> had]
  BY <1>1, <1>2
<1>5. [two EXCEPT !.got = got] =
        [skip |-> skip, wanted |-> wanted, seen |-> seen, input |-> input, got |-> got]
  BY <1>4
<1>. QED
  BY Zenon, <1>3, <1>4, <1>5 DEF two

\* The innermost subscription goes on, and no other is disturbed.
LEMMA AdvancedInv ==
  ASSUME Inv, subs # <<>>, NEW sub, Right(sub, Pieces(decoded)), subs' = Advanced(sub),
         instr' = instr, functions' = functions, status' = status
  PROVE  Inv'
<1>. DEFINE pieces == Pieces(decoded)
            at == Len(subs)
<1>1. at \in 1 .. Len(subs) /\ Listing(subs) /\ subs' = [subs EXCEPT ![at] = sub]
  BY TopIs DEF Inv, Subscriptions, Advanced
<1>2. Pieces(decoded)' = pieces
  BY DEF decoded
<1>3. Right(sub, pieces) /\ \A k \in 1 .. Len(subs) : Right(subs[k], pieces)
  BY DEF Inv, Subscriptions
<1>. HIDE DEF pieces, at
<1>4. /\ Listing(subs') /\ Len(subs') = Len(subs) /\ subs'[at] = sub
      /\ \A k \in 1 .. Len(subs) : k # at => subs'[k] = subs[k]
  <2>. DEFINE old == subs
              new == subs'
  <2>1. at \in 1 .. Len(old) /\ Listing(old) /\ Replaced(new, old, at, sub)
    BY <1>1 DEF Replaced
  <2>. HIDE DEF old, new
  <2>2. /\ Listing(new) /\ Len(new) = Len(old) /\ new[at] = sub
        /\ \A k \in 1 .. Len(old) : k # at => new[k] = old[k]
    BY <2>1, ListExcept
  <2>. QED
    BY <2>2 DEF old, new
<1>5. \A k \in 1 .. Len(subs') : Right(subs'[k], pieces)
  BY <1>3, <1>4
<1>6. Subscriptions'
  BY <1>2, <1>4, <1>5, DepthAssumption DEF Subscriptions, Inv
<1>. QED
  BY <1>6 DEF Inv, ByAddress

\* Every piece is a symbol: the assertion does not fire.
LEMMA DeliveredIs ==
  ASSUME Inv, subs # <<>>, Top.input # <<>>
  PROVE  /\ Delivered # nullptr
         /\ Top.skip = 0 => Delivered = UnknownSymbol(Head(Top.input))
         /\ Top.seen < Len(Pieces(decoded))
         /\ Head(Top.input) = Pieces(decoded)[Top.seen + 1]
         /\ Tail(Top.input) = SubSeq(Pieces(decoded), Top.seen + 2, Len(Pieces(decoded)))
<1>. DEFINE pieces == Pieces(decoded)
            sub == Top
<1>1. pieces \in Seq(Texts) /\ Right(sub, pieces) /\ Len(pieces) \in Nat
  BY PiecesLength, TopIs
<1>2. sub.seen \in 0 .. Len(pieces)
  BY <1>1 DEF Right
<1>3. sub.input # <<>>
  OBVIOUS
<1>. HIDE DEF pieces, sub
<1>4. sub.seen < Len(pieces)
  BY <1>1, <1>2, <1>3, InputIs
<1>5. /\ Head(sub.input) = pieces[sub.seen + 1] /\ Head(sub.input) \in Texts
      /\ Tail(sub.input) = SubSeq(pieces, sub.seen + 2, Len(pieces))
  BY <1>1, <1>4, InputIs
<1>6. Delivered = IF sub.skip = 0 THEN UnknownSymbol(Head(sub.input))
                  ELSE handle_expression(Head(sub.input), functions)
  BY DEF Delivered, sub
<1>7. handle_expression(Head(sub.input), functions) # nullptr
  BY <1>5, NeverNull
<1>8. UnknownSymbol(Head(sub.input)) # nullptr
  BY DEF UnknownSymbol, nullptr
<1>. QED
  BY <1>4, <1>5, <1>6, <1>7, <1>8 DEF sub, pieces

LEMMA Counting ==
  ASSUME NEW before \in Nat, NEW skip \in Nat, NEW wanted \in Nat, NEW n \in Nat,
         before < n, before >= skip, before - skip < wanted
  PROVE  /\ before + 1 \in 0 .. n /\ before + 1 + 1 = before + 2 /\ ~(before + 1 <= skip)
         /\ before + 1 - skip <= wanted /\ before - skip + 1 = before + 1 - skip
OBVIOUS

LEMMA OnNextInv ==
  ASSUME Inv, OnNext
  PROVE  Inv'
<1>. DEFINE pieces == Pieces(decoded)
            sub == Top
            given == Delivered
            new == [sub EXCEPT !.seen = sub.seen + 1, !.input = Tail(sub.input),
                               !.got = Append(sub.got, given)]
<1>1. subs # <<>> /\ Top.input # <<>> /\ Listens(Top)
  BY DEF OnNext, Running
<1>2. /\ Delivered # nullptr
      /\ sub.skip = 0 => given = UnknownSymbol(Head(sub.input))
      /\ sub.seen < Len(pieces)
      /\ Head(sub.input) = pieces[sub.seen + 1]
      /\ Tail(sub.input) = SubSeq(pieces, sub.seen + 2, Len(pieces))
  BY <1>1, DeliveredIs
<1>3. /\ subs' = Advanced(new) /\ status' = status /\ instr' = instr /\ functions' = functions
  BY <1>2 DEF OnNext
<1>4. Right(sub, pieces) /\ sub.seen >= sub.skip /\ Len(sub.got) < sub.wanted
  BY <1>1, TopIs DEF Listens
<1>0. Len(pieces) \in Nat
  BY PiecesLength
<1>. HIDE DEF pieces, sub, given
<1>5. /\ sub = [skip |-> sub.skip, wanted |-> sub.wanted, seen |-> sub.seen,
                input |-> sub.input, got |-> sub.got]
      /\ sub.skip \in {0, 1} /\ sub.wanted \in Nat /\ (sub.skip = 0 => sub.wanted = 1)
      /\ sub.seen \in 0 .. Len(pieces)
      /\ Listing(sub.got)
      /\ Len(sub.got) = IF sub.seen <= sub.skip THEN 0
                        ELSE IF sub.seen - sub.skip <= sub.wanted THEN sub.seen - sub.skip
                        ELSE sub.wanted
  BY <1>4 DEF Right
<1>6. new = [skip |-> sub.skip, wanted |-> sub.wanted, seen |-> sub.seen + 1,
             input |-> Tail(sub.input), got |-> Append(sub.got, given)]
  <2>. DEFINE skip   == sub.skip
              wanted == sub.wanted
              before == sub.seen
              left   == sub.input
              had    == sub.got
              seen   == sub.seen + 1
              input  == Tail(sub.input)
              got    == Append(sub.got, given)
  <2>1. sub = [skip |-> skip, wanted |-> wanted, seen |-> before, input |-> left, got |-> had]
    BY <1>5
  <2>2. new = [sub EXCEPT !.seen = seen, !.input = input, !.got = got]
    OBVIOUS
  <2>. HIDE DEF new, skip, wanted, before, left, had, seen, input, got
  <2>3. new = [skip |-> skip, wanted |-> wanted, seen |-> seen, input |-> input, got |-> got]
    BY Zenon, <2>1, <2>2, ExceptIs
  <2>. QED
    BY <2>3 DEF skip, wanted, seen, input, got
<1>7. Len(sub.got) = sub.seen - sub.skip
  BY <1>4, <1>5
<1>8. /\ Listing(Append(sub.got, given)) /\ Len(Append(sub.got, given)) = Len(sub.got) + 1
      /\ Append(sub.got, given)[Len(sub.got) + 1] = given
  BY <1>5, ListAppend
<1>9. sub.skip = 0 => Append(sub.got, given) = <<UnknownSymbol(pieces[1])>>
  <2>1. SUFFICES ASSUME sub.skip = 0 PROVE Append(sub.got, given) = <<UnknownSymbol(pieces[1])>>
    OBVIOUS
  <2>2. Len(sub.got) = 0 /\ sub.seen = 0
    BY <1>4, <1>5, <1>7, <2>1
  <2>3. given = UnknownSymbol(pieces[1])
    BY <1>2, <2>1, <2>2
  <2>4. sub.got = <<>>
    <3>1. sub.got \in Seq(Range(sub.got))
      BY <1>5, ListingIs
    <3>. QED
      BY <2>2, <3>1, EmptySeq
  <2>. QED
    BY <2>3, <2>4
<1>10. Right(new, pieces)
  <2>. DEFINE seen == sub.seen + 1
              got  == Append(sub.got, given)
  <2>1. seen \in 0 .. Len(pieces) /\ seen + 1 = sub.seen + 2 /\ ~(seen <= sub.skip)
        /\ seen - sub.skip <= sub.wanted /\ Len(got) = seen - sub.skip
    <3>1. /\ sub.seen \in Nat /\ sub.skip \in Nat /\ sub.wanted \in Nat /\ Len(pieces) \in Nat
          /\ sub.seen < Len(pieces) /\ sub.seen >= sub.skip
      BY <1>0, <1>2, <1>4, <1>5
    <3>2. Len(got) = sub.seen - sub.skip + 1 /\ sub.seen - sub.skip < sub.wanted
      <4>1. Len(got) = Len(sub.got) + 1 /\ Len(sub.got) < sub.wanted
        BY <1>4, <1>8
      <4>. HIDE DEF got
      <4>. QED
        BY <1>7, <4>1
    <3>. HIDE DEF got
    <3>. QED
      BY <3>1, <3>2, Counting
  <2>. HIDE DEF seen, got, new
  <2>2. new = [skip |-> sub.skip, wanted |-> sub.wanted, seen |-> seen,
               input |-> Tail(sub.input), got |-> got]
    BY <1>6 DEF seen, got
  <2>3. /\ new.skip = sub.skip /\ new.wanted = sub.wanted /\ new.seen = seen
        /\ new.input = SubSeq(pieces, seen + 1, Len(pieces)) /\ new.got = got
    BY <1>2, <2>1, <2>2
  <2>4. new = [skip |-> new.skip, wanted |-> new.wanted, seen |-> new.seen,
               input |-> new.input, got |-> new.got]
    BY <2>2
  <2>5. Listing(got) /\ (sub.skip = 0 => got = <<UnknownSymbol(pieces[1])>>)
    BY <1>8, <1>9 DEF got
  <2>6. Len(new.got) = IF new.seen <= new.skip THEN 0
                       ELSE IF new.seen - new.skip <= new.wanted THEN new.seen - new.skip
                       ELSE new.wanted
    BY <2>1, <2>3
  <2>. QED
    BY <1>5, <2>1, <2>3, <2>4, <2>5, <2>6 DEF Right
<1>. QED
  BY <1>1, <1>3, <1>10, AdvancedInv DEF pieces

LEMMA OnNextIgnoredInv ==
  ASSUME Inv, OnNextIgnored
  PROVE  Inv'
<1>. DEFINE pieces == Pieces(decoded)
            sub == Top
            new == [sub EXCEPT !.seen = sub.seen + 1, !.input = Tail(sub.input)]
<1>1. subs # <<>> /\ Top.input # <<>> /\ ~Listens(Top)
  BY DEF OnNextIgnored, Running
<1>2. /\ sub.seen < Len(pieces)
      /\ Tail(sub.input) = SubSeq(pieces, sub.seen + 2, Len(pieces))
  BY <1>1, DeliveredIs
<1>3. /\ subs' = Advanced(new) /\ status' = status /\ instr' = instr /\ functions' = functions
  BY DEF OnNextIgnored
<1>4. Right(sub, pieces) /\ ~(sub.seen >= sub.skip /\ Len(sub.got) < sub.wanted)
  BY <1>1, TopIs DEF Listens
<1>. HIDE DEF pieces, sub
<1>5. /\ sub = [skip |-> sub.skip, wanted |-> sub.wanted, seen |-> sub.seen,
                input |-> sub.input, got |-> sub.got]
      /\ sub.skip \in {0, 1} /\ sub.wanted \in Nat /\ (sub.skip = 0 => sub.wanted = 1)
      /\ sub.seen \in 0 .. Len(pieces)
      /\ Listing(sub.got)
      /\ Len(sub.got) = IF sub.seen <= sub.skip THEN 0
                        ELSE IF sub.seen - sub.skip <= sub.wanted THEN sub.seen - sub.skip
                        ELSE sub.wanted
      /\ sub.skip = 0 /\ sub.seen > 0 => sub.got = <<UnknownSymbol(pieces[1])>>
  BY <1>4 DEF Right
<1>6. Right(new, pieces)
  <2>. DEFINE seen == sub.seen + 1
  <2>1. seen \in 0 .. Len(pieces) /\ seen + 1 = sub.seen + 2
    BY <1>2, <1>5
  <2>2. Len(sub.got) = IF seen <= sub.skip THEN 0
                       ELSE IF seen - sub.skip <= sub.wanted THEN seen - sub.skip
                       ELSE sub.wanted
    BY <1>4, <1>5
  <2>3. sub.skip = 0 => sub.seen > 0
    BY <1>4, <1>5
  <2>4. new = [skip |-> sub.skip, wanted |-> sub.wanted, seen |-> seen,
               input |-> Tail(sub.input), got |-> sub.got]
    <3>. DEFINE skip   == sub.skip
                wanted == sub.wanted
                before == sub.seen
                left   == sub.input
                had    == sub.got
                input  == Tail(sub.input)
    <3>1. sub = [skip |-> skip, wanted |-> wanted, seen |-> before, input |-> left, got |-> had]
      BY <1>5
    <3>2. new = [sub EXCEPT !.seen = seen, !.input = input]
      OBVIOUS
    <3>. HIDE DEF new, skip, wanted, before, left, had, seen, input
    <3>3. new = [skip |-> skip, wanted |-> wanted, seen |-> seen, input |-> input, got |-> had]
      BY Zenon, <3>1, <3>2, ExceptIs
    <3>. QED
      BY <3>3 DEF skip, wanted, input, had
  <2>. HIDE DEF seen, new
  <2>5. /\ new.skip = sub.skip /\ new.wanted = sub.wanted /\ new.seen = seen
        /\ new.input = SubSeq(pieces, seen + 1, Len(pieces)) /\ new.got = sub.got
    BY <1>2, <2>1, <2>4
  <2>6. new = [skip |-> new.skip, wanted |-> new.wanted, seen |-> new.seen,
               input |-> new.input, got |-> new.got]
    BY <2>4
  <2>. QED
    BY <1>5, <2>1, <2>2, <2>3, <2>5, <2>6 DEF Right
<1>. QED
  BY <1>1, <1>3, <1>6, AdvancedInv DEF pieces

LEMMA OnCompletedInv ==
  ASSUME Inv, OnCompleted
  PROVE  Inv'
<1>1. /\ subs # <<>> /\ subs' = Front(subs)
      /\ instr' = instr /\ functions' = functions /\ status' = status
  BY DEF OnCompleted, Running
<1>2. Listing(subs) /\ Len(subs) \in Nat
  BY ListingIs DEF Inv, Subscriptions
<1>3. /\ Listing(subs') /\ Len(subs') = Len(subs) - 1
      /\ \A k \in 1 .. Len(subs) - 1 : subs'[k] = subs[k]
  BY <1>1, <1>2, ListFront
<1>4. \A k \in 1 .. Len(subs) - 1 : k \in 1 .. Len(subs)
  BY <1>2
<1>5. Pieces(decoded)' = Pieces(decoded)
  BY <1>1 DEF decoded
<1>6. Subscriptions'
  BY <1>2, <1>3, <1>4, <1>5, DepthAssumption DEF Subscriptions, Inv
<1>. QED
  BY <1>1, <1>6 DEF Inv, ByAddress

LEMMA NextInv == Inv /\ [Next]_vars => Inv'
<1>. SUFFICES ASSUME Inv, [Next]_vars PROVE Inv'
  OBVIOUS
<1>1. ASSUME NEW stream \in Streams, Subscribe(stream) PROVE Inv'
  BY <1>1, SubscribeInv
<1>2. CASE OnNext
  BY <1>2, OnNextInv
<1>3. CASE OnNextIgnored
  BY <1>3, OnNextIgnoredInv
<1>4. CASE OnCompleted
  BY <1>4, OnCompletedInv
<1>5. CASE OnError
  BY <1>5 DEF OnError, Inv, ByAddress, Subscriptions, decoded
<1>6. ASSUME NEW f \in DOMAIN Functions, Insert(f) PROVE Inv'
  <2>1. ByAddress'
    BY <1>6 DEF Insert, Inv, ByAddress
  <2>. QED
    BY <1>6, <2>1 DEF Insert, Inv, Subscriptions, decoded
<1>7. CASE UNCHANGED vars
  BY <1>7 DEF vars, Inv, ByAddress, Subscriptions, decoded
<1>. QED
  BY <1>1, <1>2, <1>3, <1>4, <1>5, <1>6, <1>7 DEF Next

\* Inv holds in every reachable state.
THEOREM Invariant == Spec => []Inv
BY InitInv, NextInv, PTL DEF Spec

-----------------------------------------------------------------------------
(* What the subscribers were given.                                        *)

IsTable(table) == table = [a \in DOMAIN table |-> table[a]]

\* The symbols of the pieces after the name, in their order.
Told(sub, pieces, table) ==
  sub.skip = 1 => \A i \in 1 .. Len(sub.got) : sub.got[i] \in Answers(pieces[i + 1], table)

Given ==
  /\ IsTable(functions)
  /\ \A k \in 1 .. Len(subs) : Told(subs[k], Pieces(decoded), functions)

\* The table as it is is one of those it was.
LEMMA AnswersNow ==
  ASSUME NEW piece, NEW table, IsTable(table)
  PROVE  handle_expression(piece, table) \in Answers(piece, table)
<1>1. Restrict(table, DOMAIN table) = table
  BY DEF Restrict, IsTable
<1>2. DOMAIN table \in SUBSET DOMAIN table
  OBVIOUS
<1>. QED
  BY Zenon, <1>1, <1>2 DEF Answers

\* A table that grows has been what it was.
LEMMA AnswersGrow ==
  ASSUME NEW piece, NEW table, NEW larger, DOMAIN table \subseteq DOMAIN larger,
         \A a \in DOMAIN table : larger[a] = table[a]
  PROVE  Answers(piece, table) \subseteq Answers(piece, larger)
<1>1. ASSUME NEW known \in SUBSET DOMAIN table
      PROVE  known \in SUBSET DOMAIN larger /\ Restrict(larger, known) = Restrict(table, known)
  BY DEF Restrict
<1>. QED
  BY Zenon, <1>1 DEF Answers

\* Steps that keep the table, and give nobody but the innermost subscription
\* anything.
LEMMA GivenTop ==
  ASSUME Inv, Given, subs # <<>>, NEW sub, Told(sub, Pieces(decoded), functions),
         subs' = Advanced(sub), instr' = instr, functions' = functions
  PROVE  Given'
<1>. DEFINE old == subs
            new == subs'
            at == Len(subs)
            pieces == Pieces(decoded)
<1>1. at \in 1 .. Len(old) /\ Listing(old) /\ Replaced(new, old, at, sub)
  BY TopIs DEF Inv, Subscriptions, Advanced, Replaced
<1>2. Pieces(decoded)' = pieces
  BY DEF decoded
<1>3. IsTable(functions)' /\ \A k \in 1 .. Len(old) : Told(old[k], pieces, functions)
  BY DEF Given, IsTable
<1>. HIDE DEF old, new, at, pieces
<1>4. /\ Len(new) = Len(old) /\ new[at] = sub
      /\ \A k \in 1 .. Len(old) : k # at => new[k] = old[k]
  BY <1>1, ListExcept
<1>5. \A k \in 1 .. Len(new) : Told(new[k], pieces, functions)
  BY <1>3, <1>4 DEF pieces
<1>. QED
  BY <1>2, <1>3, <1>5 DEF Given, new

LEMMA GivenNext == Inv /\ Given /\ [Next]_vars => Given'
<1>. SUFFICES ASSUME Inv, Given, [Next]_vars PROVE Given'
  OBVIOUS
<1>1. ASSUME NEW stream \in Streams, Subscribe(stream) PROVE Given'
  <2>. DEFINE pieces == Pieces(decoded)
              sub == [skip |-> stream.skip, wanted |-> stream.wanted, seen |-> 0,
                      input |-> pieces, got |-> <<>>]
  <2>1. subs' = Append(subs, sub) /\ instr' = instr /\ functions' = functions
    BY Zenon, <1>1 DEF Subscribe
  <2>2. Pieces(decoded)' = pieces /\ IsTable(functions)'
    BY <2>1 DEF decoded, Given, IsTable
  <2>3. Told(sub, pieces, functions)
    BY ListEmpty DEF Told
  <2>. HIDE DEF sub, pieces
  <2>4. Listing(subs) /\ Len(subs) \in Nat
    BY ListingIs DEF Inv, Subscriptions
  <2>5. /\ Len(subs') = Len(subs) + 1 /\ subs'[Len(subs) + 1] = sub
        /\ \A k \in 1 .. Len(subs) : subs'[k] = subs[k]
    BY <2>1, <2>4, ListAppend
  <2>6. ASSUME NEW k \in 1 .. Len(subs') PROVE Told(subs'[k], pieces, functions)
    <3>1. k \in 1 .. Len(subs) \/ k = Len(subs) + 1
      BY <2>4, <2>5
    <3>. QED
      BY <2>3, <2>5, <3>1 DEF Given, pieces
  <2>. QED
    BY <2>1, <2>2, <2>6 DEF Given
<1>2. CASE OnNext
  <2>. DEFINE pieces == Pieces(decoded)
              sub == Top
              given == Delivered
              had == sub.got
              new == [sub EXCEPT !.seen = sub.seen + 1, !.input = Tail(sub.input),
                                 !.got = Append(had, given)]
  <2>1. subs # <<>> /\ sub.input # <<>> /\ sub.seen >= sub.skip /\ Len(sub.got) < sub.wanted
    BY <1>2 DEF OnNext, Running, Listens
  <2>2. Delivered # nullptr /\ Head(sub.input) = pieces[sub.seen + 1]
    BY <2>1, DeliveredIs
  <2>3. subs' = Advanced(new) /\ instr' = instr /\ functions' = functions
    BY <1>2, <2>2 DEF OnNext
  <2>4. Right(sub, pieces) /\ Told(sub, pieces, functions)
    BY <2>1, TopIs DEF Given
  <2>5. sub.skip # 0 => given = handle_expression(pieces[sub.seen + 1], functions)
    BY Zenon, <2>2 DEF Delivered
  <2>0. Len(pieces) \in Nat
    BY PiecesLength
  <2>. HIDE DEF pieces, sub, given
  <2>6. /\ sub = [skip |-> sub.skip, wanted |-> sub.wanted, seen |-> sub.seen,
                  input |-> sub.input, got |-> had]
        /\ sub.skip \in {0, 1} /\ sub.wanted \in Nat /\ sub.seen \in 0 .. Len(pieces)
        /\ Listing(had) /\ Len(had) = sub.seen - sub.skip
    BY <2>1, <2>4 DEF Right
  <2>7. new.skip = sub.skip /\ new.got = Append(had, given)
    BY <2>6
  <2>. HIDE DEF new, had
  <2>8. /\ Len(Append(had, given)) = Len(had) + 1 /\ Append(had, given)[Len(had) + 1] = given
        /\ \A i \in 1 .. Len(had) : Append(had, given)[i] = had[i]
    BY <2>6, ListAppend
  <2>9. Told(new, pieces, functions)
    <3>1. SUFFICES ASSUME sub.skip = 1, NEW i \in 1 .. Len(had) + 1
                   PROVE  Append(had, given)[i] \in Answers(pieces[i + 1], functions)
      BY <2>7, <2>8 DEF Told
    <3>2. CASE i \in 1 .. Len(had)
      BY <2>4, <2>8, <3>1, <3>2 DEF Told, had
    <3>3. CASE i = Len(had) + 1
      <4>1. i = sub.seen /\ sub.skip # 0
        BY <2>6, <3>1, <3>3
      <4>2. given \in Answers(pieces[sub.seen + 1], functions)
        BY <2>5, <4>1, AnswersNow DEF Given
      <4>. QED
        BY <2>8, <3>3, <4>1, <4>2
    <3>. QED
      BY <2>6, <3>2, <3>3
  <2>. QED
    BY <2>1, <2>3, <2>9, GivenTop DEF pieces
<1>3. CASE OnNextIgnored
  <2>. DEFINE pieces == Pieces(decoded)
              sub == Top
              new == [sub EXCEPT !.seen = sub.seen + 1, !.input = Tail(sub.input)]
  <2>1. subs # <<>> /\ subs' = Advanced(new) /\ instr' = instr /\ functions' = functions
    BY <1>3 DEF OnNextIgnored, Running
  <2>2. Right(sub, pieces) /\ Told(sub, pieces, functions)
    BY <2>1, TopIs DEF Given
  <2>. HIDE DEF pieces, sub
  <2>3. sub = [skip |-> sub.skip, wanted |-> sub.wanted, seen |-> sub.seen,
               input |-> sub.input, got |-> sub.got]
    BY <2>2 DEF Right
  <2>4. new.skip = sub.skip /\ new.got = sub.got
    BY <2>3
  <2>. HIDE DEF new
  <2>5. Told(new, pieces, functions)
    BY <2>2, <2>4 DEF Told
  <2>. QED
    BY <2>1, <2>5, GivenTop DEF pieces
<1>4. CASE OnCompleted
  <2>1. /\ subs # <<>> /\ subs' = Front(subs)
        /\ instr' = instr /\ functions' = functions
    BY <1>4 DEF OnCompleted, Running
  <2>2. Listing(subs) /\ Len(subs) \in Nat
    BY ListingIs DEF Inv, Subscriptions
  <2>3. Len(subs') = Len(subs) - 1 /\ \A k \in 1 .. Len(subs) - 1 : subs'[k] = subs[k]
    BY <2>1, <2>2, ListFront
  <2>4. \A k \in 1 .. Len(subs') : k \in 1 .. Len(subs) /\ subs'[k] = subs[k]
    BY <2>2, <2>3
  <2>5. Pieces(decoded)' = Pieces(decoded) /\ IsTable(functions)'
    BY <2>1 DEF decoded, Given, IsTable
  <2>. QED
    BY <2>1, <2>4, <2>5 DEF Given
<1>5. CASE OnError
  BY <1>5 DEF OnError, Given, IsTable, decoded
<1>6. ASSUME NEW f \in DOMAIN Functions, Insert(f) PROVE Given'
  <2>. DEFINE table == functions
              larger == functions'
              pieces == Pieces(decoded)
  <2>1. /\ larger = [a \in DOMAIN table \cup {Functions[f]} |->
                       IF a = Functions[f] THEN f ELSE table[a]]
        /\ Functions[f] \notin DOMAIN table
        /\ instr' = instr /\ subs' = subs
    BY <1>6 DEF Insert
  <2>2. Pieces(decoded)' = pieces
    BY <2>1 DEF decoded
  <2>3. \A k \in 1 .. Len(subs) : Told(subs[k], pieces, table)
    BY DEF Given
  <2>. HIDE DEF table, larger, pieces
  <2>4. /\ IsTable(larger) /\ DOMAIN table \subseteq DOMAIN larger
        /\ \A a \in DOMAIN table : larger[a] = table[a]
    BY <2>1 DEF IsTable
  <2>5. \A piece : Answers(piece, table) \subseteq Answers(piece, larger)
    BY <2>4, AnswersGrow
  <2>6. \A k \in 1 .. Len(subs) : Told(subs[k], pieces, larger)
    BY <2>3, <2>5 DEF Told
  <2>. QED
    BY <2>1, <2>2, <2>4, <2>6 DEF Given, larger
<1>7. CASE UNCHANGED vars
  BY <1>7 DEF vars, Given, IsTable, decoded
<1>. QED
  BY <1>1, <1>2, <1>3, <1>4, <1>5, <1>6, <1>7 DEF Next

LEMMA InitGiven == Init => Given
<1>. SUFFICES ASSUME Init PROVE Given
  OBVIOUS
<1>1. IsTable(functions)
  <2>1. functions = <<>> \/ \E f \in DOMAIN Functions : functions = [a \in {Functions[f]} |-> f]
    BY DEF Init
  <2>2. CASE functions = <<>>
    BY <2>2 DEF IsTable
  <2>3. ASSUME NEW f \in DOMAIN Functions, functions = [a \in {Functions[f]} |-> f]
        PROVE  IsTable(functions)
    BY <2>3 DEF IsTable
  <2>. QED
    BY <2>1, <2>2, <2>3
<1>. QED
  BY <1>1, ListEmpty DEF Init, Given

\* Inv and Given hold in every reachable state.
THEOREM EverythingGiven == Spec => [](Inv /\ Given)
BY InitInv, NextInv, InitGiven, GivenNext, PTL DEF Spec

-----------------------------------------------------------------------------
(* What follows.                                                           *)

\* Every variable has its type: the subscriptions inside each other are
\* bounded, the table has each function at its address, and nobody is given
\* more than was asked for.
THEOREM TypeCorrect == Spec => []TypeOK
<1>1. Inv => TypeOK
  <2>. SUFFICES ASSUME Inv PROVE TypeOK
    OBVIOUS
  <2>1. ASSUME NEW k \in DOMAIN subs PROVE Len(subs[k].got) <= subs[k].wanted
    <3>1. Right(subs[k], Pieces(decoded))
      BY ListingIs DEF Inv, Subscriptions
    <3>2. Len(Pieces(decoded)) \in Nat
      BY PiecesLength
    <3>. QED
      BY <3>1, <3>2 DEF Right
  <2>. QED
    BY <2>1 DEF Inv, TypeOK, Subscriptions, ByAddress
<1>. QED
  BY <1>1, Invariant, PTL

\* The assertion of the parser, that there is a symbol for every piece, never
\* fires, whatever the instruction and the functions are.
THEOREM AssertionHolds == Spec => []OperandsHaveSymbols
<1>1. Inv => OperandsHaveSymbols
  BY DEF Inv, OperandsHaveSymbols
<1>. QED
  BY <1>1, Invariant, PTL

\* Every subscriber to an ordinary instruction gets its name, or the symbols of
\* its arguments, every one and each at its place, however many subscriptions
\* run inside each other and whatever functions are added meanwhile.
THEOREM SubscribersGetAll == Spec => []EverySubscriberGetsAll
<1>1. Inv /\ Given => EverySubscriberGetsAll
  <2>. SUFFICES ASSUME Inv, Given, NEW k \in DOMAIN subs, IsOrdinary
                PROVE  IF subs[k].skip = 0
                       THEN subs[k].input = <<>> => subs[k].got = <<UnknownSymbol(<<instr.name>>)>>
                       ELSE /\ subs[k].input = <<>> =>
                                 Len(subs[k].got) = Min({subs[k].wanted, Len(instr.operands)})
                            /\ \A i \in DOMAIN subs[k].got :
                                 /\ i \in DOMAIN instr.operands
                                 /\ subs[k].got[i] \in Answers(Stripped(instr.operands[i]), functions)
    BY DEF EverySubscriberGetsAll
  <2>. DEFINE sub == subs[k]
              pieces == Pieces(decoded)
              operands == instr.operands
              N == Len(operands)
  <2>1. Right(sub, pieces) /\ Told(sub, pieces, functions)
    BY ListingIs DEF Inv, Subscriptions, Given
  <2>2. /\ pieces \in Seq(Texts) /\ Len(pieces) = N + 1 /\ pieces[1] = <<instr.name>>
        /\ \A i \in 1 .. N : pieces[i + 1] = Stripped(operands[i])
    BY DecodedIs, PiecesAre DEF Inv, AreOperands
  <2>3. N \in Nat /\ DOMAIN operands = 1 .. N
    <3>. DEFINE S == Texts
    <3>1. operands \in Seq(S)
      BY InstructionsAssumption DEF Inv
    <3>. HIDE DEF S, operands
    <3>. QED
      BY <3>1
  <2>. HIDE DEF sub, pieces, operands, N
  <2>4. CASE sub.skip = 0
    <3>1. sub.input = <<>> => sub.seen = N + 1
      BY <2>1, <2>2, InputIs
    <3>2. sub.input = <<>> => sub.got = <<UnknownSymbol(<<instr.name>>)>>
      <4>1. sub.seen > 0 => sub.got = <<UnknownSymbol(pieces[1])>>
        BY <2>1, <2>4 DEF Right
      <4>2. N + 1 > 0
        BY <2>3
      <4>. QED
        BY <2>2, <3>1, <4>1, <4>2
    <3>. QED
      BY <2>4, <3>2 DEF sub
  <2>5. CASE sub.skip # 0
    <3>1. sub.skip = 1 /\ sub.wanted \in Nat /\ sub.seen \in 0 .. N + 1
      BY <2>1, <2>2, <2>5 DEF Right
    <3>2. sub.input = <<>> => Len(sub.got) = Min({sub.wanted, N})
      <4>. DEFINE T == {sub.wanted, N}
      <4>1. sub.input = <<>> => sub.seen = N + 1
        BY <2>1, <2>2, InputIs
      <4>2. sub.input = <<>> => Len(sub.got) = IF N <= sub.wanted THEN N ELSE sub.wanted
        BY <2>1, <2>3, <3>1, <4>1 DEF Right
      <4>3. Min(T) \in T /\ \A y \in T : Min(T) <= y
        <5>1. T \subseteq Nat /\ T # {}
          BY <2>3, <3>1
        <5>. HIDE DEF T
        <5>. QED
          BY <5>1, MinIs
      <4>4. Min(T) = IF N <= sub.wanted THEN N ELSE sub.wanted
        BY <2>3, <3>1, <4>3
      <4>. QED
        BY <4>2, <4>4
    <3>3. DOMAIN sub.got = 1 .. Len(sub.got) /\ Len(sub.got) \in Nat
      BY <2>1, ListingIs DEF Right
    <3>4. Len(sub.got) <= N
      BY <2>1, <2>3, <3>1 DEF Right
    <3>5. ASSUME NEW i \in DOMAIN sub.got
          PROVE  i \in DOMAIN operands /\ sub.got[i] \in Answers(Stripped(operands[i]), functions)
      <4>1. i \in 1 .. Len(sub.got) /\ i \in 1 .. N
        BY <2>3, <3>3, <3>4
      <4>2. sub.got[i] \in Answers(pieces[i + 1], functions)
        BY <2>1, <3>1, <4>1 DEF Told
      <4>. QED
        BY <2>2, <2>3, <4>1, <4>2
    <3>. QED
      BY <2>5, <3>2, <3>5 DEF sub, N, operands
  <2>. QED
    BY <2>4, <2>5
<1>. QED
  BY <1>1, EverythingGiven, PTL
=============================================================================
