--------------------------- MODULE FakeFileProofs ---------------------------
(***************************************************************************)
(* Theorems about FakeFile: for all formats and outputs, every size of the *)
(* memory and any number of calls.                                         *)
(***************************************************************************)
EXTENDS FakeFile, SequenceTheorems, TLAPS

-----------------------------------------------------------------------------
(* The inductive invariant.                                                *)

\* Behind the text there are only NULs.
CleanTail == \A i \in pos + 1 .. Len(buffer) : buffer[i] = Nul

\* While a call prints, it has yet to try the size of its format, with nothing
\* behind the text, or it tries the size of its output; or there is none.
PrintingInv ==
  pc = "printing" =>
    /\ call \in Calls
    /\ count < MaxCalls
    /\ \/ alloc = call.format /\ CleanTail
       \/ call.length # Failing /\ alloc = call.length + 1
       \/ call.length = Failing

Inv == TypeOK /\ TextThenNuls /\ PrintingInv

\* What a call asks for.
LEMMA CallFacts ==
  ASSUME NEW c \in Calls
  PROVE  /\ c.format \in Nat /\ c.length \in Nat \cup {-1}
         /\ c.format = 0 => c.length = 0
  BY CallsAssumption DEF Failing

\* The string resize leaves is a string of that size.
LEMMA ResizedType ==
  ASSUME TypeOK
  PROVE  /\ Resized \in Seq(Char) /\ Len(Resized) = alloc + pos
         /\ DOMAIN Resized = 1 .. alloc + pos
         /\ \A i \in 1 .. alloc + pos :
              Resized[i] = IF i <= Len(buffer) THEN buffer[i] ELSE Nul
<1>1. alloc + pos \in Nat /\ Len(buffer) \in Nat
  BY DEF TypeOK
<1>2. \A i \in 1 .. alloc + pos : (IF i <= Len(buffer) THEN buffer[i] ELSE Nul) \in Char
  BY <1>1 DEF TypeOK, Nul, Char
<1>. QED
  BY <1>1, <1>2 DEF Resized

\* vsnprintf keeps the size of the string and the text before pos.
LEMMA VsnprintfType ==
  ASSUME TypeOK, count \in Nat, NEW length \in Nat \cup {-1}
  PROVE  /\ Vsnprintf(length) \in Seq(Char) /\ Len(Vsnprintf(length)) = alloc + pos
         /\ \A i \in 1 .. pos : i <= alloc + pos /\ Vsnprintf(length)[i] = buffer[i]
<1>1. alloc \in Nat /\ pos \in Nat /\ pos <= Len(buffer) /\ Len(buffer) \in Nat
  BY DEF TypeOK
<1>2. \A i \in 1 .. alloc + pos : Resized[i] \in Char
  BY ResizedType
<1>3. \A i \in 1 .. alloc + pos : pos < i => <<count + 1, i - pos>> \in Char /\ Nul \in Char
  BY <1>1 DEF Char, Nul
<1>4. \A i \in 1 .. alloc + pos : Vsnprintf(length)[i] \in Char
  BY <1>1, <1>2, <1>3, ResizedType DEF Vsnprintf
<1>5. Vsnprintf(length) \in Seq(Char) /\ Len(Vsnprintf(length)) = alloc + pos
  BY <1>1, <1>4, ResizedType, SMTT(30) DEF Vsnprintf
<1>6. \A i \in 1 .. pos : i <= alloc + pos /\ Vsnprintf(length)[i] = buffer[i]
  BY <1>1, ResizedType DEF Vsnprintf
<1>. QED
  BY <1>5, <1>6

\* What vsnprintf writes when it fits, and that it leaves only NULs behind it
\* if there were only NULs, or if the size is the exact one.
LEMMA VsnprintfFits ==
  ASSUME TypeOK, NEW length \in Nat, length < alloc
  PROVE  /\ \A i \in pos + 1 .. pos + length : Vsnprintf(length)[i] = <<count + 1, i - pos>>
         /\ CleanTail \/ alloc = length + 1 =>
              \A i \in pos + length + 1 .. alloc + pos : Vsnprintf(length)[i] = Nul
<1>1. alloc \in Nat /\ pos \in Nat /\ pos <= Len(buffer) /\ Len(buffer) \in Nat
  BY DEF TypeOK
<1>2. \A i \in pos + 1 .. pos + length : Vsnprintf(length)[i] = <<count + 1, i - pos>>
  BY <1>1, ResizedType DEF Vsnprintf
<1>3. ASSUME CleanTail, NEW i \in pos + length + 1 .. alloc + pos
      PROVE  Vsnprintf(length)[i] = Nul
  <2>1. i \in 1 .. alloc + pos /\ Resized[i] = Nul
    BY <1>1, <1>3, ResizedType DEF CleanTail
  <2>. QED
    BY <1>1, <2>1, ResizedType DEF Vsnprintf
<1>4. ASSUME alloc = length + 1, NEW i \in pos + length + 1 .. alloc + pos
      PROVE  Vsnprintf(length)[i] = Nul
  BY <1>1, <1>4, ResizedType DEF Vsnprintf
<1>. QED
  BY <1>2, <1>3, <1>4

\* The size after a retry is the exact one, or there is none.
LEMMA Grown ==
  ASSUME TypeOK, PrintingInv, pc = "printing", ~Fits(call.length)
  PROVE  /\ alloc + Growth(call.length) \in Nat
         /\ call.length = Failing \/ alloc + Growth(call.length) = call.length + 1
<1>1. call.format \in Nat /\ call.length \in Nat \cup {-1} /\ alloc \in Nat
  BY CallFacts DEF PrintingInv, TypeOK
<1>. QED
  BY <1>1 DEF PrintingInv, Fits, Growth, Failing

-----------------------------------------------------------------------------
(* The steps.                                                              *)

\* A call of ffprintf leaves the buffer as it was.
LEMMA FfprintfStep ==
  ASSUME Inv, NEW c \in Calls, Ffprintf(c)
  PROVE  Inv'
<1>1. c.format \in Nat
  BY CallFacts
<1>2. TypeOK'
  BY <1>1 DEF Inv, TypeOK, Ffprintf
<1>3. TextThenNuls' /\ PrintingInv'
  BY DEF Inv, Ffprintf, TextThenNuls, PrintingInv, CleanTail
<1>. QED
  BY <1>2, <1>3 DEF Inv

\* A retry keeps the text.
LEMMA RetryStep ==
  ASSUME Inv, Retry
  PROVE  Inv' /\ \A i \in 1 .. pos : buffer'[i] = buffer[i]
<1>1. call \in Calls /\ call.length \in Nat \cup {-1} /\ count \in Nat
  BY CallFacts, BoundsAssumption DEF Inv, TypeOK, PrintingInv, Retry
<1>2. /\ buffer' \in Seq(Char) /\ Len(buffer') = alloc + pos
      /\ \A i \in 1 .. pos : buffer'[i] = buffer[i]
  BY <1>1, VsnprintfType DEF Inv, Retry
<1>3. alloc' \in Nat /\ (call.length = Failing \/ alloc' = call.length + 1)
  BY Grown DEF Inv, Retry
<1>4. TypeOK'
  BY <1>2, <1>3 DEF Inv, TypeOK, Retry
<1>5. TextThenNuls' /\ PrintingInv'
  BY <1>1, <1>3 DEF Inv, Retry, TextThenNuls, PrintingInv
<1>. QED
  BY <1>2, <1>4, <1>5 DEF Inv

\* A return appends the output to the text.
LEMMA ReturnStep ==
  ASSUME Inv, Return
  PROVE  /\ Inv'
         /\ call.length \in Nat
         /\ \A i \in 1 .. pos : buffer'[i] = buffer[i]
         /\ \A i \in pos + 1 .. pos + call.length : buffer'[i] = <<count + 1, i - pos>>
<1>1. /\ call \in Calls /\ call.length \in Nat /\ call.length < alloc
      /\ count \in Nat /\ count < MaxCalls /\ MaxCalls \in Nat
      /\ alloc \in Nat /\ pos \in Nat
  BY CallFacts, BoundsAssumption DEF Inv, TypeOK, PrintingInv, Return, Fits
<1>2. /\ buffer' \in Seq(Char) /\ Len(buffer') = alloc + pos
      /\ \A i \in 1 .. pos : buffer'[i] = buffer[i]
  BY <1>1, VsnprintfType DEF Inv, Return
<1>3. CleanTail \/ alloc = call.length + 1
  BY <1>1 DEF Inv, PrintingInv, Return, Failing
<1>4. /\ \A i \in pos + 1 .. pos + call.length : buffer'[i] = <<count + 1, i - pos>>
      /\ \A i \in pos + call.length + 1 .. alloc + pos : buffer'[i] = Nul
  BY <1>1, <1>3, VsnprintfFits DEF Inv, Return
<1>5. TypeOK'
  BY <1>1, <1>2 DEF TypeOK, Return
<1>6. TextThenNuls' /\ PrintingInv'
  BY <1>1, <1>2, <1>4 DEF Return, TextThenNuls, PrintingInv
<1>. QED
  BY <1>1, <1>2, <1>4, <1>5, <1>6 DEF Inv

\* The invariant is inductive.
LEMMA InvInductive ==
  ASSUME Inv, [Next]_vars
  PROVE  Inv'
<1>1. CASE Reset
  <2>1. buffer' = <<>> /\ buffer' \in Seq(Char) /\ Len(buffer') = 0
    BY <1>1 DEF Reset
  <2>. QED
    BY <1>1, <2>1, BoundsAssumption DEF Reset, Inv, TypeOK, TextThenNuls, PrintingInv
<1>2. CASE \E c \in Calls : Ffprintf(c)
  BY <1>2, FfprintfStep
<1>3. CASE Retry
  BY <1>3, RetryStep
<1>4. CASE Return
  BY <1>4, ReturnStep
<1>5. CASE Throw
  BY <1>5 DEF Throw, Inv, TypeOK, TextThenNuls, PrintingInv
<1>6. CASE UNCHANGED vars
  BY <1>6 DEF vars, Inv, TypeOK, TextThenNuls, PrintingInv, CleanTail
<1>. QED
  BY <1>1, <1>2, <1>3, <1>4, <1>5, <1>6 DEF Next, Step

\* The invariant holds of an empty file.
LEMMA InvInitially ==
  ASSUME Init
  PROVE  Inv
<1>1. buffer \in Seq(Char) /\ Len(buffer) = 0
  BY DEF Init
<1>. QED
  BY <1>1, BoundsAssumption DEF Init, Inv, TypeOK, TextThenNuls, PrintingInv

\* The invariant always holds.
LEMMA Invariant == Spec => []Inv
<1>1. Init => Inv
  BY InvInitially
<1>2. Inv /\ [Next]_vars => Inv'
  BY InvInductive
<1>. QED
  BY <1>1, <1>2, PTL DEF Spec

-----------------------------------------------------------------------------
(* The theorems.                                                           *)

\* Every variable keeps its type, and pos never leaves the buffer that
\* ffprintf resizes.
THEOREM TypeCorrect == Spec => []TypeOK
<1>1. Inv => TypeOK
  BY DEF Inv
<1>. QED
  BY <1>1, Invariant, PTL

\* Between two calls of ffprintf there is the text and NULs behind it, which is
\* what fetch copies as the text of an instruction.
THEOREM TailIsClean == Spec => []TextThenNuls
<1>1. Inv => TextThenNuls
  BY DEF Inv
<1>. QED
  BY <1>1, Invariant, PTL

\* A vsnprintf that does not fail is called at most twice by ffprintf.
THEOREM RetriesOnce == Spec => []OneRetrySuffices
<1>1. Inv => OneRetrySuffices
  BY DEF Inv, PrintingInv, OneRetrySuffices
<1>. QED
  BY <1>1, Invariant, PTL

-----------------------------------------------------------------------------
(* The refinement.                                                         *)

\* The characters of the text that ends at n.
LEMMA TextFacts ==
  ASSUME NEW s \in Seq(Char), NEW n \in 0 .. Len(s)
  PROVE  /\ SubSeq(s, 1, n) \in Seq(Char) /\ Len(SubSeq(s, 1, n)) = n
         /\ \A i \in 1 .. n : SubSeq(s, 1, n)[i] = s[i]
<1>1. Len(s) \in Nat /\ n \in Int /\ 1 \in Int /\ \A i \in 1 .. n : s[i] \in Char
  OBVIOUS
<1>2. /\ SubSeq(s, 1, n) \in Seq(Char)
      /\ Len(SubSeq(s, 1, n)) = IF 1 <= n THEN n - 1 + 1 ELSE 0
      /\ \A i \in 1 .. n - 1 + 1 : SubSeq(s, 1, n)[i] = s[1 + i - 1]
  BY <1>1, SubSeqProperties
<1>. QED
  BY <1>1, <1>2

\* Buffers with the same characters before n have the same text.
LEMMA SameText ==
  ASSUME NEW s \in Seq(Char), NEW t \in Seq(Char), NEW n \in 0 .. Len(s), n <= Len(t),
         \A i \in 1 .. n : t[i] = s[i]
  PROVE  SubSeq(t, 1, n) = SubSeq(s, 1, n)
<1>1. n \in 0 .. Len(t)
  OBVIOUS
<1>. QED
  BY <1>1, TextFacts, SeqEqual

\* The output of a call, character by character.
LEMMA OutputFacts ==
  ASSUME NEW c \in Nat, NEW k \in Nat
  PROVE  /\ Promise!Output(c, k) \in Seq(Char) /\ Len(Promise!Output(c, k)) = k
         /\ \A i \in 1 .. k : Promise!Output(c, k)[i] = <<c, i>>
<1>. DEFINE new == Promise!Output(c, k)
<1>1. new = [i \in 1 .. k |-> <<c, i>>]
  BY DEF Promise!Output
<1>2. \A i \in 1 .. k : <<c, i>> \in Char
  BY DEF Char
<1>. HIDE DEF new
<1>3. \A i \in 1 .. k : new[i] = <<c, i>>
  BY <1>1
<1>4. new \in [1 .. k -> Char]
  BY <1>1, <1>2
<1>5. new \in Seq(Char) /\ Len(new) = k
  BY <1>4
<1>. QED
  BY <1>3, <1>5 DEF new

\* A buffer with the same characters up to m, and others behind them, has the
\* text with those appended.
LEMMA LongerText ==
  ASSUME NEW s \in Seq(Char), NEW t \in Seq(Char), NEW m \in 0 .. Len(s),
         NEW more \in Seq(Char), m + Len(more) <= Len(t),
         \A i \in 1 .. m : t[i] = s[i],
         \A i \in 1 .. Len(more) : t[m + i] = more[i]
  PROVE  SubSeq(t, 1, m + Len(more)) = SubSeq(s, 1, m) \o more
<1>. DEFINE old == SubSeq(s, 1, m)
            k   == Len(more)
<1>1. k \in Nat /\ m \in Nat /\ m + k \in 0 .. Len(t)
  OBVIOUS
<1>2. /\ old \in Seq(Char) /\ Len(old) = m
      /\ \A i \in 1 .. m : old[i] = s[i]
  BY TextFacts
<1>3. /\ SubSeq(t, 1, m + k) \in Seq(Char) /\ Len(SubSeq(t, 1, m + k)) = m + k
      /\ \A i \in 1 .. m + k : SubSeq(t, 1, m + k)[i] = t[i]
  BY <1>1, TextFacts
<1>. HIDE DEF old
<1>4. /\ old \o more \in Seq(Char)
      /\ Len(old \o more) = m + k
      /\ \A i \in 1 .. m + k : (old \o more)[i] = IF i <= m THEN old[i] ELSE more[i - m]
  BY <1>2, ConcatProperties, ZenonT(30)
<1>5. ASSUME NEW i \in 1 .. m + k
      PROVE  SubSeq(t, 1, m + k)[i] = (old \o more)[i]
  <2>1. CASE i <= m
    <3>1. i \in 1 .. m
      BY <1>1, <2>1
    <3>. QED
      BY <1>2, <1>3, <1>4, <2>1, <3>1
  <2>2. CASE i > m
    <3>1. i - m \in 1 .. k /\ m + (i - m) = i /\ ~(i <= m)
      BY <1>1, <2>2
    <3>2. t[i] = more[i - m]
      BY <3>1
    <3>. QED
      BY <1>3, <1>4, <3>1, <3>2
  <2>3. i <= m \/ i > m
    BY <1>1
  <2>. QED
    BY <2>1, <2>2, <2>3, Zenon
<1>6. SubSeq(t, 1, m + k) = old \o more
  BY <1>3, <1>4, <1>5, SeqEqual
<1>. QED
  BY <1>6 DEF old

\* The promise sees the state of the file and the call as they are.
LEMMA Mapped == Promise!None = NoCall
  BY DEF Promise!None, NoCall

\* What a call may find when resize throws.
LEMMA ThrowHasNoRoom ==
  ASSUME Inv, Throw
  PROVE  Promise!NoRoom
<1>1. /\ call.format \in Nat /\ call.length \in Nat \cup {-1}
      /\ alloc \in Nat /\ pos \in Nat /\ Memory \in Nat
  BY CallFacts, BoundsAssumption DEF Inv, TypeOK, PrintingInv, Throw
<1>2. alloc = call.format \/ call.length = -1 \/ alloc = call.length + 1
  BY DEF Inv, PrintingInv, Throw, Failing
<1>3. Len(SubSeq(buffer, 1, pos)) = pos
  BY TextFacts DEF Inv, TypeOK
<1>4. call.length < 0 \/ pos + call.length + 1 > Memory \/ pos + call.format > Memory
  BY <1>1, <1>2 DEF Throw
<1>. QED
  BY <1>3, <1>4 DEF Promise!NoRoom

\* Every step of the fake file is a step of the printed text, or none.
LEMMA StepRefines ==
  ASSUME Inv, [Next]_vars
  PROVE  [Promise!Next]_(Promise!vars)
<1>. DEFINE text == SubSeq(buffer, 1, pos)
<1>1. /\ buffer \in Seq(Char) /\ pos \in 0 .. Len(buffer)
      /\ Len(buffer) \in Nat /\ pos \in Nat /\ count \in Nat
  BY BoundsAssumption DEF Inv, TypeOK
<1>2. Inv'
  BY InvInductive
<1>3. buffer' \in Seq(Char) /\ pos' \in 0 .. Len(buffer')
  BY <1>2 DEF Inv, TypeOK
<1>4. CASE Reset
  <2>1. text' = <<>> /\ count' = 0
    BY <1>4, SubSeqEmpty DEF Reset
  <2>2. Promise!Reset
    BY <1>4, <2>1, Mapped DEF Promise!Reset, Reset
  <2>. QED
    BY <2>2 DEF Promise!Next
<1>5. CASE \E c \in Calls : Ffprintf(c)
  <2>1. /\ pc = "idle" /\ pc' = "printing" /\ call' \in Calls
        /\ UNCHANGED <<buffer, pos, count>>
    BY <1>5 DEF Ffprintf
  <2>2. Promise!Asked
    BY <2>1 DEF Promise!Asked
  <2>. QED
    BY <2>2 DEF Promise!Next
<1>6. CASE Retry
  <2>1. pos' = pos /\ count' = count /\ \A i \in 1 .. pos : buffer'[i] = buffer[i]
    BY <1>6, RetryStep DEF Retry
  <2>2. SubSeq(buffer', 1, pos) = SubSeq(buffer, 1, pos)
    BY <1>1, <1>3, <2>1, SameText
  <2>3. UNCHANGED Promise!vars
    BY <1>6, <2>1, <2>2 DEF Promise!vars, Retry
  <2>. QED
    BY <2>3
<1>7. CASE Return
  <2>1. /\ call.length \in Nat
        /\ \A i \in 1 .. pos : buffer'[i] = buffer[i]
        /\ \A i \in pos + 1 .. pos + call.length : buffer'[i] = <<count + 1, i - pos>>
        /\ pos' = pos + call.length /\ count' = count + 1
    BY <1>7, ReturnStep DEF Return
  <2>. DEFINE output == Promise!Output(count + 1, call.length)
  <2>2. text' = text \o output
    <3>1. /\ output \in Seq(Char) /\ Len(output) = call.length
          /\ \A i \in 1 .. call.length : output[i] = <<count + 1, i>>
      <4>1. count + 1 \in Nat
        BY <1>1
      <4>. QED
        BY <2>1, <4>1, OutputFacts, Zenon
    <3>. HIDE DEF output
    <3>2. \A i \in 1 .. Len(output) : buffer'[pos + i] = output[i]
      <4>. SUFFICES ASSUME NEW i \in 1 .. call.length
                    PROVE  buffer'[pos + i] = output[i]
        BY <3>1
      <4>. DEFINE j == pos + i
      <4>1. j \in pos + 1 .. pos + call.length /\ j - pos = i
        BY <1>1, <2>1
      <4>. HIDE DEF j
      <4>2. buffer'[j] = <<count + 1, j - pos>>
        BY <2>1, <4>1
      <4>3. buffer'[j] = output[i]
        BY <3>1, <4>1, <4>2, Zenon
      <4>. QED
        BY <4>3 DEF j
    <3>3. pos + Len(output) <= Len(buffer') /\ pos' = pos + Len(output)
      BY <1>3, <2>1, <3>1
    <3>4. SubSeq(buffer', 1, pos + Len(output)) = SubSeq(buffer, 1, pos) \o output
      BY <1>1, <1>3, <2>1, <3>1, <3>2, <3>3, LongerText, Zenon
    <3>. QED
      BY <3>3, <3>4
  <2>3. call.length >= 0
    BY <2>1
  <2>4. pc = "printing" /\ pc' = "idle" /\ call' = NoCall
    BY <1>7 DEF Return
  <2>5. Promise!Printed
    BY <2>1, <2>2, <2>3, <2>4, Mapped, Zenon DEF Promise!Printed
  <2>. QED
    BY <2>5 DEF Promise!Next
<1>8. CASE Throw
  <2>1. Promise!Thrown
    BY <1>8, ThrowHasNoRoom, Mapped DEF Promise!Thrown, Throw
  <2>. QED
    BY <2>1 DEF Promise!Next
<1>9. CASE UNCHANGED vars
  BY <1>9 DEF vars, Promise!vars
<1>. QED
  BY <1>4, <1>5, <1>6, <1>7, <1>8, <1>9 DEF Next, Step

\* A call that returns has put all of its output behind what was before pos
\* since the reset, and nothing else; one that throws had no room and has put
\* nothing there, whatever was resized and retried.
THEOREM PrintsText == Spec => ImplementsPrintedText
<1>1. Init => Promise!Init
  BY SubSeqEmpty, Mapped DEF Init, Promise!Init
<1>2. Inv /\ [Next]_vars => [Promise!Next]_(Promise!vars)
  BY StepRefines
<1>. QED
  BY <1>1, <1>2, Invariant, PTL DEF Spec, ImplementsPrintedText, Promise!Spec
=============================================================================
