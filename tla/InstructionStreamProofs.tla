---------------------- MODULE InstructionStreamProofs ----------------------
(***************************************************************************)
(* Theorems about InstructionStream: for any files, any number of runs and *)
(* of subscribers, whenever they come and go.                              *)
(***************************************************************************)
EXTENDS InstructionStream, SequenceTheorems, TLAPS

-----------------------------------------------------------------------------
(* The inductive invariant.                                                *)

\* What an observer received are the places from where it joined on, and it
\* lacks one of them while it waits for its turn.
Observed(o, waits) ==
  /\ \A i \in 1 .. Len(o.seen) : o.seen[i] = o.joined + i
  /\ o.joined + Len(o.seen) <= Len(log)
  /\ o.active => o.joined + Len(o.seen) = IF waits THEN Len(log) - 1 ELSE Len(log)

\* The index of a matcher counts what it received, as long as it has not
\* compared the last mnemonic.
Matched(o, r) ==
  LET size == Len(instr_sequence)
  IN  o.kind = "matcher" =>
        /\ Len(o.seen) <= size - 2 => r.seq_index = Len(o.seen) + 1
        /\ Len(o.seen) >= size - 1 =>
             r.found > 0 \/ log[o.joined + size - 1].name # instr_sequence[size]

\* The last headers of a listing are what it compares the next instruction
\* with, and those above the lines of instructions name them.
Listed(r) ==
  /\ \A part \in Parts : HeadedBy(r.lines, Len(r.lines), part, r.acc[part])
  /\ \A j \in 1 .. Len(r.lines) :
       /\ r.lines[j].at \in 1 .. Len(log)
       /\ r.lines[j].part = "name" =>
            \A part \in Parts : HeadedBy(r.lines, j, part, log[r.lines[j].at][part])

InOrder(o, r, waits) == Observed(o, waits) /\ Matched(o, r) /\ Listed(r)

Inv ==
  /\ TypeOK
  /\ \A k \in 1 .. Len(observers) : InOrder(observers[k], results[k], Waits(k))

-----------------------------------------------------------------------------
(* Listings.                                                               *)

AnyLine == [part : Parts \cup {"name"}, of : Values, at : Nat]

\* A line changes nothing above it, and a header is the last of its part.
LEMMA HeadedByAppend ==
  ASSUME NEW lines \in Lines, NEW line \in AnyLine, NEW part \in Parts, NEW value
  PROVE  LET more == Append(lines, line) IN
    /\ more \in Lines /\ Len(more) = Len(lines) + 1 /\ Len(lines) \in Nat
    /\ more[Len(lines) + 1] = line
    /\ \A j \in 1 .. Len(lines) : more[j] = lines[j]
    /\ \A j \in 1 .. Len(lines) :
         HeadedBy(lines, j, part, value) => HeadedBy(more, j, part, value)
    /\ line.part # part /\ HeadedBy(lines, Len(lines), part, value)
         => HeadedBy(more, Len(lines) + 1, part, value)
    /\ line.part = part => HeadedBy(more, Len(lines) + 1, part, line.of)
<1>. DEFINE more == Append(lines, line)
<1>1. /\ more \in Lines /\ Len(more) = Len(lines) + 1 /\ Len(lines) \in Nat
      /\ more[Len(lines) + 1] = line
      /\ \A j \in 1 .. Len(lines) : more[j] = lines[j]
  BY AppendProperties DEF Lines, AnyLine
<1>. HIDE DEF more
<1>2. ASSUME NEW j \in 1 .. Len(lines), HeadedBy(lines, j, part, value)
      PROVE  HeadedBy(more, j, part, value)
  <2>1. \A i \in 1 .. j : i \in 1 .. Len(lines) /\ more[i] = lines[i]
    BY <1>1
  <2>2. \A i \in 1 .. j : \A h \in i + 1 .. j : h \in 1 .. j
    BY <1>1
  <2>. QED
    BY <1>2, <2>1, <2>2 DEF HeadedBy
<1>3. ASSUME line.part # part, HeadedBy(lines, Len(lines), part, value)
      PROVE  HeadedBy(more, Len(lines) + 1, part, value)
  BY <1>1, <1>3 DEF HeadedBy
<1>4. ASSUME line.part = part
      PROVE  HeadedBy(more, Len(lines) + 1, part, line.of)
  BY <1>1, <1>4 DEF HeadedBy
<1>. QED
  BY <1>1, <1>2, <1>3, <1>4 DEF more

\* An instruction has its parts.
LEMMA LineType ==
  ASSUME NEW instr \in Instructions, NEW part \in Parts \cup {"name"}, Len(log) \in Nat
  PROVE  /\ Line(part, instr) \in AnyLine
         /\ Line(part, instr).part = part /\ Line(part, instr).of = instr[part]
         /\ Line(part, instr).at = Len(log)
  BY DEF Line, AnyLine, Values

\* A header is printed if it is needed, and only its part is remembered anew.
LEMMA HeadedStep ==
  ASSUME NEW r \in AnyResult, NEW part \in Parts, NEW instr \in Instructions,
         Listed(r), Len(log) \in Nat \ {0}
  PROVE  LET n == Headed(r, part, instr) IN
         /\ n \in AnyResult /\ Listed(n)
         /\ n.acc[part] = instr[part]
         /\ \A other \in Parts : other # part => n.acc[other] = r.acc[other]
         /\ n.seq_index = r.seq_index /\ n.found = r.found
<1>1. CASE r.acc[part] = instr[part]
  BY <1>1 DEF Headed
<1>2. CASE r.acc[part] # instr[part]
  <2>. DEFINE line == Line(part, instr)
              more == Append(r.lines, line)
              n    == [r EXCEPT !.lines = more, !.acc[part] = instr[part]]
  <2>1. line \in AnyLine /\ line.part = part /\ line.of = instr[part] /\ line.at = Len(log)
    BY LineType
  <2>2. Headed(r, part, instr) = n
    BY <1>2 DEF Headed
  <2>3. r.lines \in Lines /\ r.acc \in [Parts -> Values] /\ instr[part] \in Values
    BY DEF AnyResult, Values
  <2>. HIDE DEF line
  <2>4. more \in Lines /\ Len(more) = Len(r.lines) + 1 /\ Len(r.lines) \in Nat
        /\ more[Len(r.lines) + 1] = line
        /\ \A j \in 1 .. Len(r.lines) : more[j] = r.lines[j]
    BY <2>1, <2>3, HeadedByAppend
  <2>. HIDE DEF more
  <2>5. /\ n \in AnyResult
        /\ n.lines = more
        /\ n.acc = [r.acc EXCEPT ![part] = instr[part]]
        /\ n.seq_index = r.seq_index /\ n.found = r.found
    BY <2>3, <2>4 DEF AnyResult
  <2>6. n.acc[part] = instr[part] /\ \A other \in Parts : other # part => n.acc[other] = r.acc[other]
    BY <2>3, <2>5
  <2>. HIDE DEF n
  <2>7. ASSUME NEW p \in Parts
        PROVE  HeadedBy(more, Len(more), p, n.acc[p])
    <3>1. CASE p = part
      <4>1. HeadedBy(more, Len(r.lines) + 1, part, line.of)
        BY <2>1, <2>3, HeadedByAppend DEF more
      <4>. QED
        BY <3>1, <4>1, <2>1, <2>4, <2>6
    <3>2. CASE p # part
      <4>1. HeadedBy(r.lines, Len(r.lines), p, r.acc[p])
        BY DEF Listed
      <4>. QED
        BY <3>2, <4>1, <2>1, <2>3, <2>4, <2>6, HeadedByAppend DEF more
    <3>. QED
      BY <3>1, <3>2
  <2>8. ASSUME NEW j \in 1 .. Len(more)
        PROVE  /\ more[j].at \in 1 .. Len(log)
               /\ more[j].part = "name" =>
                    \A p \in Parts : HeadedBy(more, j, p, log[more[j].at][p])
    <3>1. CASE j = Len(r.lines) + 1
      BY <3>1, <2>1, <2>4 DEF Parts
    <3>2. CASE j \in 1 .. Len(r.lines)
      <4>1. more[j] = r.lines[j] /\ r.lines[j].at \in 1 .. Len(log)
        BY <3>2, <2>4 DEF Listed
      <4>2. ASSUME r.lines[j].part = "name", NEW p \in Parts
            PROVE  HeadedBy(more, j, p, log[r.lines[j].at][p])
        <5>1. HeadedBy(r.lines, j, p, log[r.lines[j].at][p])
          BY <3>2, <4>2 DEF Listed
        <5>. QED
          BY <3>2, <5>1, <2>1, <2>3, HeadedByAppend DEF more
      <4>. QED
        BY <4>1, <4>2
    <3>. QED
      BY <3>1, <3>2, <2>4
  <2>. QED
    BY <2>2, <2>5, <2>6, <2>7, <2>8 DEF Listed
<1>. QED
  BY <1>1, <1>2

\* With its headers up to date, the last instruction can be printed.
LEMMA ListStep ==
  ASSUME NEW r \in AnyResult, Listed(r), log \in Seq(Instructions), log # <<>>
  PROVE  List(r, Last(log)) \in AnyResult /\ Listed(List(r, Last(log)))
<1>. DEFINE instr == Last(log)
            r1 == Headed(r, "section", instr)
            r2 == Headed(r1, "symbol", instr)
            r3 == Headed(r2, "block", instr)
            line == Line("name", instr)
            more == Append(r3.lines, line)
            n    == [r3 EXCEPT !.lines = more]
<1>1. instr \in Instructions /\ Len(log) \in Nat \ {0} /\ instr = log[Len(log)]
  BY DEF Last
<1>. HIDE DEF instr
<1>2. r1 \in AnyResult /\ Listed(r1) /\ r1.acc["section"] = instr["section"]
  BY <1>1, HeadedStep DEF Parts
<1>. HIDE DEF r1
<1>3. r2 \in AnyResult /\ Listed(r2)
      /\ r2.acc["section"] = instr["section"] /\ r2.acc["symbol"] = instr["symbol"]
  BY <1>1, <1>2, HeadedStep DEF Parts
<1>. HIDE DEF r2
<1>4. r3 \in AnyResult /\ Listed(r3) /\ \A part \in Parts : r3.acc[part] = instr[part]
  <2>1. r3 \in AnyResult /\ Listed(r3) /\ r3.acc["block"] = instr["block"]
        /\ r3.acc["section"] = r2.acc["section"] /\ r3.acc["symbol"] = r2.acc["symbol"]
    BY ZenonT(30), <1>1, <1>3, HeadedStep DEF Parts
  <2>. QED
    BY <2>1, <1>3 DEF Parts
<1>. HIDE DEF r3
<1>5. line \in AnyLine /\ line.part = "name" /\ line.at = Len(log)
  BY <1>1, LineType
<1>. HIDE DEF line
<1>6. r3.lines \in Lines
  BY <1>4 DEF AnyResult
<1>7. more \in Lines /\ Len(more) = Len(r3.lines) + 1 /\ Len(r3.lines) \in Nat
      /\ more[Len(r3.lines) + 1] = line
      /\ \A j \in 1 .. Len(r3.lines) : more[j] = r3.lines[j]
  <2>1. "section" \in Parts
    BY DEF Parts
  <2>. QED
    BY <2>1, <1>5, <1>6, HeadedByAppend
<1>. HIDE DEF more
<1>8. n \in AnyResult /\ n.lines = more /\ n.acc = r3.acc
  BY <1>4, <1>7 DEF AnyResult
<1>9. ASSUME NEW p \in Parts
      PROVE  HeadedBy(more, Len(more), p, instr[p])
  <2>1. HeadedBy(r3.lines, Len(r3.lines), p, instr[p])
    BY <1>4 DEF Listed
  <2>2. line.part # p
    BY <1>5 DEF Parts
  <2>. QED
    BY <2>1, <2>2, <1>5, <1>6, <1>7, HeadedByAppend DEF more
<1>10. ASSUME NEW j \in 1 .. Len(more)
       PROVE  /\ more[j].at \in 1 .. Len(log)
              /\ more[j].part = "name" =>
                   \A p \in Parts : HeadedBy(more, j, p, log[more[j].at][p])
  <2>1. CASE j = Len(r3.lines) + 1
    BY <2>1, <1>1, <1>5, <1>7, <1>9
  <2>2. CASE j \in 1 .. Len(r3.lines)
    <3>1. more[j] = r3.lines[j] /\ r3.lines[j].at \in 1 .. Len(log)
      BY <2>2, <1>4, <1>7 DEF Listed
    <3>2. ASSUME r3.lines[j].part = "name", NEW p \in Parts
          PROVE  HeadedBy(more, j, p, log[r3.lines[j].at][p])
      <4>. DEFINE value == log[r3.lines[j].at][p]
      <4>1. HeadedBy(r3.lines, j, p, value)
        BY <2>2, <3>2, <1>4 DEF Listed
      <4>. HIDE DEF value
      <4>2. HeadedBy(more, j, p, value)
        BY <2>2, <4>1, <1>5, <1>6, HeadedByAppend DEF more
      <4>. QED
        BY <4>2 DEF value
    <3>. QED
      BY <3>1, <3>2
  <2>. QED
    BY <2>1, <2>2, <1>7
<1>11. Listed(n)
  BY <1>4, <1>8, <1>9, <1>10 DEF Listed
<1>12. List(r, Last(log)) = n
  BY DEF List, n, more, line, r1, r2, r3, instr
<1>. QED
  BY <1>8, <1>11, <1>12

-----------------------------------------------------------------------------
(* Observers.                                                              *)

\* A new observer has everything of it still to come.
LEMMA NewObserver ==
  ASSUME NEW kind \in Kinds, log \in Seq(Instructions)
  PROVE  /\ Observer(kind) \in Subscription /\ Nothing \in AnyResult
         /\ InOrder(Observer(kind), Nothing, FALSE)
<1>. DEFINE o == Observer(kind)
<1>1. /\ o \in Subscription /\ o.joined = Len(log)
      /\ o.seen = <<>> /\ Len(o.seen) = 0 /\ Len(log) \in Nat
  BY DEF Observer, Subscription
<1>2. /\ Nothing \in AnyResult /\ Nothing.seq_index = 1 /\ Nothing.acc = Seed
      /\ Nothing.lines = <<>> /\ Len(Nothing.lines) = 0
  BY SeedAssumption DEF Nothing, AnyResult, Lines, Values
<1>. HIDE DEF o
<1>3. Observed(o, FALSE)
  BY <1>1 DEF Observed
<1>4. Matched(o, Nothing)
  BY <1>1, <1>2, SequenceAssumption DEF Matched
<1>5. Listed(Nothing)
  BY <1>2 DEF Listed, HeadedBy
<1>. QED
  BY <1>1, <1>2, <1>3, <1>4, <1>5 DEF InOrder, o

\* Nobody who is up to date has yet seen the next instruction.
LEMMA NextInstruction ==
  ASSUME NEW o \in Subscription, NEW r \in AnyResult, InOrder(o, r, FALSE),
         log \in Seq(Instructions), NEW instr \in Instructions, log' = Append(log, instr)
  PROVE  InOrder(o, r, TRUE)'
<1>1. /\ log' \in Seq(Instructions) /\ Len(log') = Len(log) + 1 /\ Len(log) \in Nat
      /\ \A i \in 1 .. Len(log) : log'[i] = log[i]
  BY AppendProperties
<1>2. o.joined \in Nat /\ Len(o.seen) \in Nat
  BY DEF Subscription
<1>3. Observed(o, TRUE)'
  BY <1>1, <1>2 DEF InOrder, Observed
<1>4. Matched(o, r)'
  <2>1. SUFFICES ASSUME o.kind = "matcher", Len(o.seen) >= Len(instr_sequence) - 1
                 PROVE  r.found > 0 \/ log'[o.joined + Len(instr_sequence) - 1].name
                                         # instr_sequence[Len(instr_sequence)]
    BY DEF InOrder, Matched
  <2>2. o.joined + Len(instr_sequence) - 1 \in 1 .. Len(log)
    BY <1>1, <1>2, <2>1, SequenceAssumption DEF InOrder, Observed
  <2>. QED
    BY <1>1, <2>1, <2>2 DEF InOrder, Matched
<1>5. Listed(r)'
  BY <1>1 DEF InOrder, Listed
<1>. QED
  BY <1>3, <1>4, <1>5 DEF InOrder

\* Who has its turn is up to date afterwards.
LEMMA Turn ==
  ASSUME NEW o \in Subscription, NEW r \in AnyResult, InOrder(o, r, TRUE), o.active,
         log \in Seq(Instructions)
  PROVE  LET given == [o EXCEPT !.seen = Append(@, Len(log))]
             n     == Result(o.kind, r, Last(log))
         IN  given \in Subscription /\ n \in AnyResult /\ InOrder(given, n, FALSE)
<1>. DEFINE given == [o EXCEPT !.seen = Append(@, Len(log))]
            n     == Result(o.kind, r, Last(log))
            size  == Len(instr_sequence)
<1>1. o.joined \in Nat /\ o.seen \in Seq(Nat) /\ Len(o.seen) \in Nat /\ Len(log) \in Nat
  BY DEF Subscription
<1>2. o.joined + Len(o.seen) = Len(log) - 1
  BY DEF InOrder, Observed
<1>3. /\ log # <<>> /\ Len(log) \in Nat \ {0}
      /\ Last(log) = log[o.joined + Len(o.seen) + 1] /\ Last(log) \in Instructions
  BY <1>1, <1>2 DEF Last
<1>4. /\ given \in Subscription
      /\ given.kind = o.kind /\ given.joined = o.joined /\ given.active = o.active
      /\ given.seen = Append(o.seen, Len(log)) /\ Len(given.seen) = Len(o.seen) + 1
      /\ \A i \in 1 .. Len(o.seen) : given.seen[i] = o.seen[i]
      /\ given.seen[Len(o.seen) + 1] = Len(log)
  <2>. DEFINE seen == Append(o.seen, Len(log))
  <2>1. /\ seen \in Seq(Nat) /\ Len(seen) = Len(o.seen) + 1
        /\ \A i \in 1 .. Len(o.seen) : seen[i] = o.seen[i]
        /\ seen[Len(o.seen) + 1] = Len(log)
    BY <1>1
  <2>. HIDE DEF seen
  <2>2. /\ given \in Subscription
        /\ given.kind = o.kind /\ given.joined = o.joined /\ given.active = o.active
        /\ given.seen = seen
    BY <2>1 DEF Subscription, seen
  <2>. QED
    BY <2>1, <2>2 DEF seen
<1>. HIDE DEF given
<1>5. Observed(given, FALSE)
  <2>1. \A i \in 1 .. Len(given.seen) : given.seen[i] = given.joined + i
    <3>1. \A i \in 1 .. Len(o.seen) : o.seen[i] = o.joined + i
      BY DEF InOrder, Observed
    <3>2. o.joined + (Len(o.seen) + 1) = Len(log)
      BY <1>1, <1>2
    <3>. QED
      BY <3>1, <3>2, <1>1, <1>4
  <2>2. given.joined + Len(given.seen) = Len(log)
    BY <1>1, <1>2, <1>4, SMTT(30)
  <2>. QED
    BY <2>1, <2>2, <1>1 DEF Observed
<1>6. CASE o.kind = "matcher"
  <2>1. n = Match(r, Last(log))
    BY <1>6 DEF Result
  <2>2. r.seq_index \in Nat /\ r.found \in Nat /\ size \in Nat /\ size >= 2
    BY SequenceAssumption DEF AnyResult
  <2>. DEFINE hit == r.seq_index = size - 1 /\ instr_sequence[size] = Last(log).name
  <2>3. /\ n \in AnyResult /\ n.lines = r.lines /\ n.acc = r.acc
        /\ hit => n.found = r.found + 1
        /\ ~hit => n.found = r.found /\ n.seq_index = r.seq_index + 1
    BY <2>1, <2>2 DEF Match, AnyResult
  <2>. HIDE DEF n
  <2>4. Listed(n)
    BY <2>3 DEF InOrder, Listed
  <2>5. Len(given.seen) <= size - 2 => n.seq_index = Len(given.seen) + 1
    BY <1>1, <1>4, <1>6, <2>2, <2>3, SMTT(30) DEF InOrder, Matched
  <2>6. ASSUME Len(given.seen) >= size - 1
        PROVE  n.found > 0 \/ log[o.joined + size - 1].name # instr_sequence[size]
    <3>1. CASE Len(o.seen) >= size - 1
      BY <3>1, <1>6, <2>2, <2>3 DEF InOrder, Matched
    <3>2. CASE Len(o.seen) = size - 2
      <4>1. r.seq_index = size - 1
        BY <3>2, <1>6, <2>2 DEF InOrder, Matched
      <4>2. Last(log) = log[o.joined + size - 1]
        <5>1. size \in Nat
          BY <2>2
        <5>. HIDE DEF size
        <5>2. o.joined + Len(o.seen) + 1 = o.joined + size - 1
          BY <3>2, <1>1, <5>1
        <5>. QED
          BY <5>2, <1>3
      <4>. QED
        BY <4>1, <4>2, <2>2, <2>3
    <3>. QED
      BY <3>1, <3>2, <2>6, <1>1, <1>4, <2>2
  <2>. QED
    BY <1>4, <1>5, <2>3, <2>4, <2>5, <2>6 DEF InOrder, Matched, given, n
<1>7. CASE o.kind = "listing"
  <2>1. n = List(r, Last(log)) /\ n \in AnyResult /\ Listed(n)
    BY <1>3, <1>7, ListStep DEF Result, InOrder
  <2>. QED
    BY <1>4, <1>5, <1>7, <2>1 DEF InOrder, Matched, given
<1>8. CASE o.kind \notin {"matcher", "listing"}
  <2>1. n = r
    BY <1>8 DEF Result
  <2>. QED
    BY <1>4, <1>5, <1>8, <2>1 DEF InOrder, Matched, given
<1>. QED
  BY <1>6, <1>7, <1>8

-----------------------------------------------------------------------------
(* The steps.                                                              *)

\* What the steps use of the types.
LEMMA Here ==
  ASSUME TypeOK
  PROVE  /\ observers \in Seq(Subscription) /\ results \in Seq(AnyResult)
         /\ Len(observers) \in Nat /\ Len(results) = Len(observers)
         /\ DOMAIN observers = 1 .. Len(observers)
         /\ turn \in Nat /\ round \in Nat /\ turn <= round /\ round <= Len(observers)
         /\ \A k \in 1 .. Len(observers) :
              observers[k] \in Subscription /\ results[k] \in AnyResult
         /\ log \in Seq(Instructions) /\ left \in Seq(Instructions)
         /\ file \in Seq(Instructions) /\ Len(file) \in Nat /\ Len(left) \in Nat
         /\ runs \in Nat /\ Len(log) \in Nat
  BY BoundsAssumption, FilesAssumption DEF TypeOK

\* Whoever subscribes, in or between two runs, is in order.
LEMMA Subscribed ==
  ASSUME NEW os \in Seq(Subscription), NEW rs \in Seq(AnyResult), Len(os) = Len(rs),
         NEW kind \in Kinds, log \in Seq(Instructions)
  PROVE  LET more == Append(os, Observer(kind))
             them == Append(rs, Nothing)
         IN  /\ more \in Seq(Subscription) /\ them \in Seq(AnyResult)
             /\ Len(os) \in Nat /\ Len(more) = Len(os) + 1 /\ Len(them) = Len(os) + 1
             /\ \A k \in 1 .. Len(os) : more[k] = os[k] /\ them[k] = rs[k]
             /\ InOrder(more[Len(os) + 1], them[Len(os) + 1], FALSE)
<1>1. Observer(kind) \in Subscription /\ Nothing \in AnyResult
      /\ InOrder(Observer(kind), Nothing, FALSE)
  BY NewObserver
<1>. DEFINE o == Observer(kind)
<1>. HIDE DEF o
<1>2. /\ Append(os, o) \in Seq(Subscription) /\ Append(rs, Nothing) \in Seq(AnyResult)
      /\ Len(os) \in Nat /\ Len(Append(os, o)) = Len(os) + 1
      /\ Len(Append(rs, Nothing)) = Len(os) + 1
      /\ \A k \in 1 .. Len(os) : Append(os, o)[k] = os[k] /\ Append(rs, Nothing)[k] = rs[k]
      /\ Append(os, o)[Len(os) + 1] = o /\ Append(rs, Nothing)[Len(os) + 1] = Nothing
  BY <1>1 DEF o
<1>. QED
  BY <1>1, <1>2 DEF o

\* Somebody subscribes between two runs, to start one or not.
LEMMA SubscribeStep ==
  ASSUME Inv, NEW kind \in Kinds, Len(observers) < MaxObservers,
         observers' = Append(observers, Observer(kind)),
         results' = Append(results, Nothing),
         UNCHANGED <<log, turn, round>>
  PROVE  /\ observers' \in Seq(Subscription) /\ results' \in Seq(AnyResult)
         /\ Len(observers') <= MaxObservers /\ Len(results') = Len(observers')
         /\ turn' \in 0 .. round' /\ round' \in 0 .. Len(observers')
         /\ \A k \in 1 .. Len(observers') : InOrder(observers[k], results[k], Waits(k))'
<1>1. TypeOK
  BY DEF Inv
<1>2. /\ observers' \in Seq(Subscription) /\ results' \in Seq(AnyResult)
      /\ Len(observers') = Len(observers) + 1 /\ Len(results') = Len(observers) + 1
      /\ \A k \in 1 .. Len(observers) :
           observers'[k] = observers[k] /\ results'[k] = results[k]
      /\ InOrder(observers'[Len(observers) + 1], results'[Len(observers) + 1], FALSE)
  <2>1. /\ observers \in Seq(Subscription) /\ results \in Seq(AnyResult)
        /\ Len(observers) = Len(results) /\ log \in Seq(Instructions)
    BY <1>1, Here
  <2>. DEFINE more == Append(observers, Observer(kind))
              them == Append(results, Nothing)
  <2>2. /\ more \in Seq(Subscription) /\ them \in Seq(AnyResult)
        /\ Len(more) = Len(observers) + 1 /\ Len(them) = Len(observers) + 1
        /\ \A k \in 1 .. Len(observers) : more[k] = observers[k] /\ them[k] = results[k]
        /\ InOrder(more[Len(observers) + 1], them[Len(observers) + 1], FALSE)
    BY <2>1, Subscribed
  <2>3. more = observers' /\ them = results'
    OBVIOUS
  <2>. HIDE DEF more, them
  <2>. QED
    BY <2>2, <2>3
<1>3. ASSUME NEW k \in 1 .. Len(observers')
      PROVE  InOrder(observers[k], results[k], Waits(k))'
  <2>1. CASE k \in 1 .. Len(observers)
    <3>1. InOrder(observers[k], results[k], Waits(k))
      BY <2>1 DEF Inv
    <3>2. Waits(k)' <=> Waits(k)
      BY DEF Waits
    <3>. QED
      BY <2>1, <3>1, <3>2, <1>2 DEF InOrder, Observed, Matched, Listed
  <2>2. CASE k = Len(observers) + 1
    <3>1. ~Waits(k)'
      BY <2>2, <1>1, Here DEF Waits
    <3>. QED
      BY <2>2, <3>1, <1>2 DEF InOrder, Observed, Matched, Listed
  <2>. QED
    BY <2>1, <2>2, <1>1, <1>2, Here
<1>. QED
  BY <1>1, <1>2, <1>3, Here, BoundsAssumption

\* Nobody waits when the next instruction comes, and then everybody does.
LEMMA OnNextStep ==
  ASSUME Inv, OnNext
  PROVE  Inv'
<1>1. TypeOK
  BY DEF Inv
<1>2. /\ Head(left) \in Instructions /\ Tail(left) \in Seq(Instructions)
      /\ Len(Tail(left)) = Len(left) - 1
  BY <1>1, Here, HeadTailProperties DEF OnNext
<1>3. log' \in Seq(Instructions) /\ Len(log') = Len(log) + 1
  BY <1>1, <1>2, Here, AppendProperties DEF OnNext
<1>4. TypeOK'
  <2>1. RunsAreWhole'
    <3>1. Len(log) + Len(left) = Len(log') + Len(left')
      BY <1>1, <1>2, <1>3, Here DEF OnNext
    <3>2. runs * Len(file) = runs' * Len(file')
      BY DEF OnNext
    <3>3. Len(log) + Len(left) = runs * Len(file)
      BY <1>1 DEF TypeOK, RunsAreWhole
    <3>. QED
      BY <3>1, <3>2, <3>3, Zenon DEF RunsAreWhole
  <2>. QED
    BY <1>1, <1>2, <1>3, <2>1, Here DEF TypeOK, OnNext
<1>5. ASSUME NEW k \in 1 .. Len(observers)
      PROVE  InOrder(observers[k], results[k], Waits(k))'
  <2>1. InOrder(observers[k], results[k], FALSE)
    <3>1. ~Waits(k)
      BY <1>1, Here DEF Waits, OnNext
    <3>. QED
      BY <3>1 DEF Inv, InOrder, Observed
  <2>2. observers[k] \in Subscription /\ results[k] \in AnyResult /\ log \in Seq(Instructions)
    BY <1>1, Here
  <2>3. Waits(k)'
    BY <1>1, Here DEF Waits, OnNext
  <2>4. ASSUME NEW o \in Subscription, NEW r \in AnyResult, InOrder(o, r, FALSE)
        PROVE  InOrder(o, r, TRUE)'
    BY <1>2, <2>2, <2>4, NextInstruction DEF OnNext
  <2>5. observers' = observers /\ results' = results
    BY DEF OnNext
  <2>. QED
    BY <2>1, <2>2, <2>3, <2>4, <2>5 DEF InOrder, Observed, Matched, Listed
<1>. QED
  BY <1>4, <1>5 DEF Inv, OnNext

\* Who unsubscribes keeps what it has.
LEMMA UnsubscribeStep ==
  ASSUME Inv, NEW k \in DOMAIN observers, Unsubscribe(k)
  PROVE  Inv'
<1>1. TypeOK
  BY DEF Inv
<1>2. /\ observers' \in Seq(Subscription) /\ Len(observers') = Len(observers)
      /\ \A i \in 1 .. Len(observers) :
           observers'[i] = IF i = k THEN [observers[k] EXCEPT !.active = FALSE] ELSE observers[i]
  <2>. DEFINE o == [observers[k] EXCEPT !.active = FALSE]
  <2>1. k \in 1 .. Len(observers) /\ o \in Subscription
    BY <1>1, Here DEF Subscription
  <2>2. observers' = [observers EXCEPT ![k] = o]
    BY DEF Unsubscribe
  <2>. HIDE DEF o
  <2>3. /\ observers' \in Seq(Subscription) /\ Len(observers') = Len(observers)
        /\ \A i \in 1 .. Len(observers) : observers'[i] = IF i = k THEN o ELSE observers[i]
    BY <1>1, <2>1, <2>2, Here, ExceptSeq
  <2>. QED
    BY <2>3 DEF o
<1>3. TypeOK'
  BY <1>1, <1>2, Here DEF TypeOK, RunsAreWhole, Unsubscribe
<1>4. ASSUME NEW i \in 1 .. Len(observers')
      PROVE  InOrder(observers[i], results[i], Waits(i))'
  <2>1. i \in 1 .. Len(observers)
    BY <1>2
  <2>2. InOrder(observers[i], results[i], Waits(i)) /\ observers[i] \in Subscription
    BY <1>1, <2>1, Here DEF Inv
  <2>3. /\ observers'[i].kind = observers[i].kind /\ observers'[i].joined = observers[i].joined
        /\ observers'[i].seen = observers[i].seen
        /\ observers'[i].active => observers[i].active
    BY <1>2, <2>1, <2>2 DEF Subscription
  <2>. QED
    BY <2>2, <2>3 DEF InOrder, Observed, Matched, Listed, Waits, Unsubscribe
<1>. QED
  BY <1>3, <1>4 DEF Inv

\* Only the next observer of the list is changed by its turn, and what it
\* subscribes has nothing to wait for.
LEMMA DeliverStep ==
  ASSUME Inv, NEW k \in DOMAIN observers, Deliver(k)
  PROVE  Inv'
<1>1. TypeOK /\ k \in 1 .. Len(observers) /\ k = turn + 1 /\ k <= round
  BY Here DEF Inv, Deliver, Waits
<1>. DEFINE o  == [observers[k] EXCEPT !.seen = Append(@, Len(log))]
            r  == Result(observers[k].kind, results[k], Last(log))
            os == [observers EXCEPT ![k] = o]
            rs == [results EXCEPT ![k] = r]
<1>2. o \in Subscription /\ r \in AnyResult /\ InOrder(o, r, FALSE)
  <2>1. /\ observers[k] \in Subscription /\ results[k] \in AnyResult
        /\ observers[k].active /\ log \in Seq(Instructions)
    BY <1>1, Here DEF Deliver
  <2>2. InOrder(observers[k], results[k], TRUE)
    BY <1>1 DEF Inv, Deliver, InOrder, Observed
  <2>. QED
    BY <2>1, <2>2, Turn
<1>. HIDE DEF o, r
<1>3. /\ os \in Seq(Subscription) /\ Len(os) = Len(observers)
      /\ rs \in Seq(AnyResult) /\ Len(rs) = Len(observers)
      /\ \A i \in 1 .. Len(observers) : /\ os[i] = IF i = k THEN o ELSE observers[i]
                                        /\ rs[i] = IF i = k THEN r ELSE results[i]
  BY <1>1, <1>2, Here, ExceptSeq
<1>. HIDE DEF os, rs
<1>4. ASSUME NEW i \in 1 .. Len(os)
      PROVE  InOrder(os[i], rs[i], i \in k + 1 .. round)
  <2>1. CASE i = k
    <3>1. ~(i \in k + 1 .. round)
      BY <2>1
    <3>. QED
      BY <2>1, <3>1, <1>2, <1>3 DEF InOrder, Observed
  <2>2. CASE i # k
    <3>1. InOrder(observers[i], results[i], Waits(i))
      BY <1>3 DEF Inv
    <3>2. Waits(i) <=> i \in k + 1 .. round
      BY <2>2, <1>1, <1>3, Here DEF Waits
    <3>. QED
      BY <2>2, <3>1, <3>2, <1>3 DEF InOrder, Observed
  <2>. QED
    BY <2>1, <2>2
<1>5. /\ observers' \in Seq(Subscription) /\ Len(observers') <= MaxObservers
      /\ results' \in Seq(AnyResult) /\ Len(results') = Len(observers')
      /\ Len(observers) <= Len(observers')
      /\ \A i \in 1 .. Len(observers') : InOrder(observers'[i], results'[i], i \in k + 1 .. round)
  <2>1. CASE ~Subscribes(k)
    <3>1. observers' = os /\ results' = rs
      BY <2>1 DEF Deliver, Given, Resulting, os, rs, o, r
    <3>2. Len(observers) <= MaxObservers /\ Len(observers) \in Nat
      BY <1>1, Here DEF TypeOK
    <3>. QED
      BY <3>1, <3>2, <1>3, <1>4
  <2>2. CASE Subscribes(k)
    <3>. DEFINE more == Append(os, Observer("matcher"))
                them == Append(rs, Nothing)
    <3>1. observers' = more /\ results' = them
      BY <2>2 DEF Deliver, Given, Resulting, os, rs, o, r
    <3>2. /\ more \in Seq(Subscription) /\ them \in Seq(AnyResult)
          /\ Len(more) = Len(os) + 1 /\ Len(them) = Len(os) + 1
          /\ \A i \in 1 .. Len(os) : more[i] = os[i] /\ them[i] = rs[i]
          /\ InOrder(more[Len(os) + 1], them[Len(os) + 1], FALSE)
      <4>1. "matcher" \in Kinds /\ log \in Seq(Instructions)
        BY <1>1, Here DEF Kinds
      <4>. QED
        BY <4>1, <1>3, Subscribed
    <3>. HIDE DEF more, them
    <3>3. /\ Len(observers) \in Nat /\ Len(observers) < MaxObservers /\ MaxObservers \in Nat
          /\ round \in Nat /\ round <= Len(observers)
      BY <2>2, <1>1, Here, BoundsAssumption DEF Subscribes
    <3>4. ASSUME NEW i \in 1 .. Len(more)
          PROVE  InOrder(more[i], them[i], i \in k + 1 .. round)
      <4>1. CASE i \in 1 .. Len(os)
        BY <4>1, <1>4, <3>2
      <4>2. CASE i = Len(os) + 1
        <5>1. ~(i \in k + 1 .. round)
          BY <4>2, <3>3, <1>3
        <5>. QED
          BY <4>2, <5>1, <3>2 DEF InOrder, Observed
      <4>. QED
        BY <4>1, <4>2, <3>2, <3>3, <1>3
    <3>. QED
      BY <3>1, <3>2, <3>3, <3>4, <1>3
  <2>. QED
    BY <2>1, <2>2
<1>6. TypeOK'
  <2>1. /\ file' = file /\ runs' = runs /\ left' = left /\ log' = log
        /\ turn' = turn + 1 /\ round' = round
    BY DEF Deliver
  <2>. QED
    BY <2>1, <1>1, <1>5, Here DEF TypeOK, RunsAreWhole
<1>7. ASSUME NEW i \in 1 .. Len(observers')
      PROVE  InOrder(observers[i], results[i], Waits(i))'
  <2>1. Waits(i)' <=> i \in k + 1 .. round
    BY DEF Deliver, Waits
  <2>2. log' = log
    BY DEF Deliver
  <2>. QED
    BY <2>1, <2>2, <1>5 DEF InOrder, Observed, Matched, Listed
<1>. QED
  BY <1>6, <1>7 DEF Inv

\* Who unsubscribed in time is passed.
LEMMA PassStep ==
  ASSUME Inv, NEW k \in DOMAIN observers, Pass(k)
  PROVE  Inv'
<1>1. TypeOK /\ k \in 1 .. Len(observers) /\ k = turn + 1 /\ k <= round
  BY Here DEF Inv, Pass, Waits
<1>2. TypeOK'
  BY <1>1, Here DEF TypeOK, RunsAreWhole, Pass
<1>3. ASSUME NEW i \in 1 .. Len(observers)
      PROVE  InOrder(observers[i], results[i], Waits(i))'
  <2>1. InOrder(observers[i], results[i], Waits(i))
    BY DEF Inv
  <2>2. i # k => (Waits(i)' <=> Waits(i))
    BY <1>1, Here DEF Waits, Pass
  <2>3. ~observers[k].active
    BY DEF Pass
  <2>. QED
    BY <2>1, <2>2, <2>3 DEF InOrder, Observed, Matched, Listed, Pass
<1>. QED
  BY <1>2, <1>3 DEF Inv, Pass

\* A run begins when the last one is over.
LEMMA RunStep ==
  ASSUME TypeOK, Idle, runs < MaxRuns,
         runs' = runs + 1, left' = file, UNCHANGED <<file, log>>
  PROVE  runs' \in 0 .. MaxRuns /\ RunsAreWhole' /\ left' \in Seq(Instructions)
<1>1. runs \in Nat /\ MaxRuns \in Nat /\ Len(file) \in Nat /\ Len(log) \in Nat
      /\ file \in Seq(Instructions)
  BY Here, BoundsAssumption
<1>2. Len(log) = runs * Len(file)
  BY <1>1 DEF TypeOK, RunsAreWhole, Idle
<1>3. (runs + 1) * Len(file) = runs * Len(file) + Len(file)
  BY <1>1
<1>. QED
  BY <1>1, <1>2, <1>3 DEF RunsAreWhole

\* The invariant is inductive.
LEMMA InvInductive ==
  ASSUME Inv, [Next]_vars
  PROVE  Inv'
<1>1. CASE \E kind \in {"listing", "finder"} : Subscribe(kind)
  <2>1. PICK kind \in Kinds : Subscribe(kind)
    BY <1>1 DEF Kinds
  <2>2. /\ observers' \in Seq(Subscription) /\ results' \in Seq(AnyResult)
        /\ Len(observers') <= MaxObservers /\ Len(results') = Len(observers')
        /\ turn' \in 0 .. round' /\ round' \in 0 .. Len(observers')
        /\ \A k \in 1 .. Len(observers') : InOrder(observers[k], results[k], Waits(k))'
    BY <2>1, SubscribeStep DEF Subscribe
  <2>. QED
    BY <2>1, <2>2 DEF Inv, TypeOK, RunsAreWhole, Subscribe
<1>2. CASE runDisassembler
  <2>1. runs' \in 0 .. MaxRuns /\ RunsAreWhole' /\ left' \in Seq(Instructions)
    BY <1>2, RunStep DEF Inv, runDisassembler
  <2>. QED
    BY ZenonT(30), <1>2, <2>1
    DEF Inv, TypeOK, runDisassembler, InOrder, Observed, Matched, Listed, Waits
<1>3. CASE runDecompiler
  <2>1. runs' \in 0 .. MaxRuns /\ RunsAreWhole' /\ left' \in Seq(Instructions)
    BY <1>3, RunStep DEF Inv, runDecompiler
  <2>2. /\ observers' \in Seq(Subscription) /\ results' \in Seq(AnyResult)
        /\ Len(observers') <= MaxObservers /\ Len(results') = Len(observers')
        /\ turn' \in 0 .. round' /\ round' \in 0 .. Len(observers')
        /\ \A k \in 1 .. Len(observers') : InOrder(observers[k], results[k], Waits(k))'
    BY <1>3, SubscribeStep DEF runDecompiler, Kinds
  <2>. QED
    BY <1>3, <2>1, <2>2 DEF Inv, TypeOK, runDecompiler
<1>4. CASE OnNext
  BY <1>4, OnNextStep
<1>5. CASE \E k \in DOMAIN observers : Unsubscribe(k) \/ Deliver(k) \/ Pass(k)
  BY <1>5, UnsubscribeStep, DeliverStep, PassStep
<1>6. CASE UNCHANGED vars
  BY <1>6 DEF vars, Inv, TypeOK, RunsAreWhole, InOrder, Observed, Matched, Listed, Waits
<1>. QED
  BY <1>1, <1>2, <1>3, <1>4, <1>5, <1>6 DEF Next

\* The invariant holds of a stream without observers.
LEMMA InvInitially ==
  ASSUME Init
  PROVE  Inv
<1>1. file \in Seq(Instructions) /\ Len(file) \in Nat
  BY FilesAssumption DEF Init
<1>2. RunsAreWhole
  BY <1>1 DEF Init, RunsAreWhole
<1>3. TypeOK
  BY <1>2, BoundsAssumption DEF Init, TypeOK
<1>. QED
  BY <1>3 DEF Init, Inv

\* The invariant always holds.
LEMMA Invariant == Spec => []Inv
<1>1. Init => Inv
  BY InvInitially
<1>2. Inv /\ [Next]_vars => Inv'
  BY InvInductive
<1>. QED
  BY <1>1, <1>2, PTL DEF Spec

-----------------------------------------------------------------------------
(* The theorems.                                                           *)

\* Every variable keeps its type, and what was emitted and what is left are
\* whole runs: no run starts before the last one is over.
THEOREM TypeCorrect == Spec => []TypeOK
<1>1. Inv => TypeOK
  BY DEF Inv
<1>. QED
  BY <1>1, Invariant, PTL

\* The subject gives every subscriber what is emitted after it joined, once
\* and in order, also if it joined from within a callback.
THEOREM EveryoneSeesTheRest == Spec => []EverySubscriberSeesTheRest
<1>1. ASSUME Inv
      PROVE  EverySubscriberSeesTheRest
  <2>1. SUFFICES ASSUME NEW k \in DOMAIN observers
                 PROVE  LET o == observers[k] IN
                          /\ o.seen = [i \in DOMAIN o.seen |-> o.joined + i]
                          /\ o.active /\ ~Waits(k) => o.joined + Len(o.seen) = Len(log)
    BY DEF EverySubscriberSeesTheRest
  <2>2. k \in 1 .. Len(observers) /\ observers[k] \in Subscription
    BY <1>1, Here DEF Inv
  <2>3. Observed(observers[k], Waits(k))
    BY <1>1, <2>2 DEF Inv, InOrder
  <2>. DEFINE seen == observers[k].seen
  <2>4. seen \in Seq(Nat) /\ DOMAIN seen = 1 .. Len(seen) /\ seen \in [1 .. Len(seen) -> Nat]
    BY <2>2, LenProperties DEF Subscription
  <2>5. seen = [i \in DOMAIN seen |-> observers[k].joined + i]
    BY <2>3, <2>4 DEF Observed
  <2>. QED
    BY <2>3, <2>5 DEF Observed
<1>. QED
  BY <1>1, Invariant, PTL

\* A matcher of the tests that joined at the first mnemonic of the sequence
\* counts the sequence when it has seen its end.
THEOREM SequencesFound == Spec => []SequencesAreFound
<1>1. ASSUME Inv
      PROVE  SequencesAreFound
  <2>1. SUFFICES ASSUME NEW k \in DOMAIN observers,
                        observers[k].kind = "matcher", Occurs(observers[k].joined),
                        Len(observers[k].seen) >= Len(instr_sequence) - 1
                 PROVE  results[k].found > 0
    BY DEF SequencesAreFound
  <2>2. Matched(observers[k], results[k])
    BY <1>1, Here DEF Inv, InOrder
  <2>3. Len(instr_sequence) \in DOMAIN instr_sequence
    BY SequenceAssumption
  <2>4. log[observers[k].joined + Len(instr_sequence) - 1].name
          = instr_sequence[Len(instr_sequence)]
    BY <2>1, <2>3 DEF Occurs
  <2>. QED
    BY <2>1, <2>2, <2>4 DEF Matched
<1>. QED
  BY <1>1, Invariant, PTL

\* The listing of main.cpp and of the example prints a header whenever one is
\* needed.
THEOREM HeadersRight == Spec => []HeadersNameTheInstruction
<1>1. ASSUME Inv
      PROVE  HeadersNameTheInstruction
  <2>1. SUFFICES ASSUME NEW k \in DOMAIN results, NEW j \in DOMAIN results[k].lines,
                        results[k].lines[j].part = "name", NEW part \in Parts
                 PROVE  HeadedBy(results[k].lines, j, part, log[results[k].lines[j].at][part])
    BY DEF HeadersNameTheInstruction
  <2>2. k \in 1 .. Len(observers) /\ results[k] \in AnyResult
    BY <1>1, Here DEF Inv
  <2>3. Listed(results[k])
    BY <1>1, <2>2 DEF Inv, InOrder
  <2>4. j \in 1 .. Len(results[k].lines)
    BY <2>2 DEF AnyResult, Lines
  <2>. QED
    BY <2>1, <2>3, <2>4 DEF Listed
<1>. QED
  BY <1>1, Invariant, PTL
=============================================================================
