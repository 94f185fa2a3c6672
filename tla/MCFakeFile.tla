----------------------------- MODULE MCFakeFile -----------------------------
(***************************************************************************)
(* Formats of up to three characters, outputs shorter, equal and longer.   *)
(***************************************************************************)
EXTENDS FakeFile

SmallCalls ==
  {c \in [format : 0 .. 3, length : Failing .. 4] : c.format = 0 => c.length = 0}
=============================================================================
