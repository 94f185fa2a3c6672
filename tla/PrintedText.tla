---------------------------- MODULE PrintedText ----------------------------
(***************************************************************************)
(* What the fake file promises to fetch and to libopcodes: a call prints   *)
(* all of what it was asked for, behind what was printed before, as if it  *)
(* were a FILE, or it throws and prints nothing.  No buffer, no retry.     *)
(***************************************************************************)
EXTENDS Integers, Sequences

CONSTANTS
  Calls,     \* what may be asked: the length of a format, and of its output
  Memory     \* the greatest size of a string

VARIABLES
  text,      \* the characters printed since the last reset
  count,     \* how many calls printed them
  state,     \* in no call, in one, or after one that threw
  asked      \* the call that is printing

vars == <<text, count, state, asked>>

\* A character is known by the call that printed it and its place there.
Output(n, length) == [i \in 1 .. length |-> <<n, i>>]

None == [format |-> 0, length |-> 0]

Init == text = <<>> /\ count = 0 /\ state = "idle" /\ asked = None

Asked ==
  /\ state = "idle"
  /\ asked' \in Calls
  /\ state' = "printing"
  /\ UNCHANGED <<text, count>>

\* The call returns, and the whole of its output is there.
Printed ==
  /\ state = "printing"
  /\ asked.length >= 0
  /\ text' = text \o Output(count + 1, asked.length)
  /\ count' = count + 1
  /\ state' = "idle" /\ asked' = None

\* There is no output, or no room for the output and its NUL, or for a string
\* of the size of the format.
NoRoom ==
  \/ asked.length < 0
  \/ Len(text) + asked.length + 1 > Memory
  \/ Len(text) + asked.format > Memory

Thrown ==
  /\ state = "printing"
  /\ NoRoom
  /\ state' = "thrown" /\ asked' = None
  /\ UNCHANGED <<text, count>>

Reset ==
  /\ state # "printing"
  /\ text' = <<>> /\ count' = 0
  /\ state' = "idle" /\ asked' = None

Next == Asked \/ Printed \/ Thrown \/ Reset

Spec == Init /\ [][Next]_vars
=============================================================================
