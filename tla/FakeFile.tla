------------------------------ MODULE FakeFile ------------------------------
(***************************************************************************)
(* disassembler_impl::ffile and ffprintf: the file libopcodes prints an    *)
(* instruction into.  The buffer is a string that every call resizes, pos  *)
(* is the end of the text in it; vsnprintf is tried with growing sizes     *)
(* until its result fits.                                                  *)
(***************************************************************************)
EXTENDS Integers, Sequences

CONSTANTS
  Calls,     \* what libopcodes may ask: the length of a format, and of its output
  Memory,    \* the greatest size resize can give to the buffer
  MaxCalls   \* bound on the calls between two resets

VARIABLES
  buffer,    \* the characters of the string, NULs included
  pos,       \* how many of them are text
  count,     \* calls that printed since the last reset
  pc,        \* in no call, in one, or after one that threw
  call,      \* the arguments of the call
  alloc      \* the size vsnprintf is given next

vars == <<buffer, pos, count, pc, call, alloc>>

\* vsnprintf returns the same for the same arguments: the length of the whole
\* output, or -1 for an output it cannot produce.
Failing == -1

\* A format without characters has no conversions: it prints nothing.
ASSUME CallsAssumption ==
  /\ Calls \subseteq [format : Nat, length : Nat \cup {Failing}]
  /\ \A c \in Calls : c.format = 0 => c.length = 0
ASSUME BoundsAssumption == Memory \in Nat /\ MaxCalls \in Nat

\* A character is known by the call that printed it and its place there.
Nul  == <<0, 0>>
Char == Nat \X Nat

NoCall == [format |-> 0, length |-> 0]

-----------------------------------------------------------------------------
Init ==
  /\ buffer = <<>> /\ pos = 0 /\ count = 0
  /\ pc = "idle" /\ call = NoCall /\ alloc = 0

\* Plausible bugs, one for each property of the passing runs.  Each stands
\* before the definition it is a mutation of and is not used by Spec.

\* The buffer is cleared, pos is forgotten.
BugKeepsPos ==
  /\ pc \in {"idle", "thrown"}
  /\ buffer' = <<>> /\ count' = 0
  /\ pc' = "idle" /\ call' = NoCall /\ alloc' = 0
  /\ UNCHANGED pos

\* fetch empties the file before each instruction, and at its beginning:
\* nothing is printed between a throw and the reset of the next fetch.
Reset ==
  /\ pc \in {"idle", "thrown"}
  /\ buffer' = <<>> /\ pos' = 0 /\ count' = 0
  /\ pc' = "idle" /\ call' = NoCall /\ alloc' = 0

Ffprintf(c) ==
  /\ pc = "idle"
  /\ count < MaxCalls
  /\ pc' = "printing" /\ call' = c /\ alloc' = c.format
  /\ UNCHANGED <<buffer, pos, count>>

\* A result of exactly alloc is taken to fit, without the final NUL.
BugNulForgotten(printed) == printed >= 0 /\ printed <= alloc

Fits(printed) == printed >= 0 /\ printed < alloc

\* resize cuts the string or fills it up with NULs.
Resized == [i \in 1 .. alloc + pos |-> IF i <= Len(buffer) THEN buffer[i] ELSE Nul]

\* vsnprintf writes what fits into alloc characters, the last of them a NUL.
\* What it leaves there when it fails is not read before the next reset.
Vsnprintf(length) ==
  [i \in DOMAIN Resized |->
     IF pos < i /\ i <= pos + length /\ i < pos + alloc THEN <<count + 1, i - pos>>
     ELSE IF pos < i /\ i \in {pos + length + 1, pos + alloc} THEN Nul
     ELSE Resized[i]]

\* The growth is computed without the one for the NUL.
BugGrowth(printed) == LET d == printed - alloc IN IF d < 0 THEN -d ELSE d

\* The difference is taken without its sign.
BugNoAbs(printed) == printed - alloc + 1

\* abs(printed - alloc + 1).
Growth(printed) == LET d == printed - alloc + 1 IN IF d < 0 THEN -d ELSE d

Retry ==
  /\ pc = "printing"
  /\ alloc + pos <= Memory
  /\ ~Fits(call.length)
  /\ buffer' = Vsnprintf(call.length)
  /\ alloc' = alloc + Growth(call.length)
  /\ UNCHANGED <<pos, count, pc, call>>

\* An output that was cut is taken as it is.
BugCutOutput ==
  /\ pc = "printing"
  /\ alloc + pos <= Memory
  /\ call.length >= 0 /\ alloc > 0
  /\ buffer' = Vsnprintf(call.length)
  /\ pos' = pos + IF Fits(call.length) THEN call.length ELSE alloc - 1
  /\ count' = count + 1
  /\ pc' = "idle" /\ call' = NoCall /\ alloc' = 0

Return ==
  /\ pc = "printing"
  /\ alloc + pos <= Memory
  /\ Fits(call.length)
  /\ buffer' = Vsnprintf(call.length)
  /\ pos' = pos + call.length
  /\ count' = count + 1
  /\ pc' = "idle" /\ call' = NoCall /\ alloc' = 0

\* resize throws, through libopcodes and fetch.
Throw ==
  /\ pc = "printing"
  /\ alloc + pos > Memory
  /\ pc' = "thrown" /\ call' = NoCall /\ alloc' = 0
  /\ UNCHANGED <<buffer, pos, count>>

Step == Retry \/ Return \/ Throw

Next == Reset \/ (\E c \in Calls : Ffprintf(c)) \/ Step

Spec     == Init /\ [][Next]_vars
FairSpec == Spec /\ WF_vars(Step)

-----------------------------------------------------------------------------
(* Properties.                                                             *)

\* Every variable has its type, and the text ends inside of the buffer.
TypeOK ==
  /\ buffer \in Seq(Char)
  /\ pos \in 0 .. Len(buffer)
  /\ count \in 0 .. MaxCalls
  /\ pc \in {"idle", "printing", "thrown"}
  /\ call \in Calls \cup {NoCall}
  /\ alloc \in Nat

\* What fetch copies between two calls is the text and NULs behind it, at
\* least one once something was printed: no character of an output that was
\* cut, or of a longer buffer before it, is left behind pos.
TextThenNuls ==
  pc = "idle" =>
    /\ \A i \in pos + 1 .. Len(buffer) : buffer[i] = Nul
    /\ count > 0 => pos < Len(buffer)

\* vsnprintf is tried at most twice unless it fails: whatever the formats
\* were, the second size is the one that fits exactly.
OneRetrySuffices ==
  pc = "printing" /\ call.length # Failing =>
    alloc = call.format \/ alloc = call.length + 1

\* Every call of ffprintf returns or throws; a vsnprintf that always fails
\* makes the buffer grow until resize throws.
CallEnds == (pc = "printing") ~> (pc # "printing")

Promise == INSTANCE PrintedText WITH
  text <- SubSeq(buffer, 1, pos), state <- pc, asked <- call

\* A call that returns has put the whole of its output, and nothing else,
\* behind what was before pos; one that throws had no room and has put nothing
\* there: resizing and retries do not show.
ImplementsPrintedText == Promise!Spec
=============================================================================
