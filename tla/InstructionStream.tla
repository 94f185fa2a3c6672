------------------------- MODULE InstructionStream -------------------------
(***************************************************************************)
(* The hot stream disassembly() and the subscribers there are in the       *)
(* repository: the listing of main.cpp, the search for a sequence of       *)
(* mnemonics of tests/disassembler.cpp, which subscribes once more for     *)
(* every place where the sequence may begin, and the empty one of          *)
(* runDecompiler.  What a run of the disassembler emits is Disassembly.    *)
(***************************************************************************)
EXTENDS Integers, SequencesExt

CONSTANTS
  Files,          \* what a run may emit: sequences of instructions
  instr_sequence, \* the mnemonics looked for, at least two
  Seed,           \* the section, symbol and block the listing starts with
  MaxRuns,        \* bound on the runs
  MaxObservers    \* bound on the subscriptions

VARIABLES
  file,       \* what every run emits
  runs,       \* the runs that were started
  left,       \* what the current run has still to emit
  log,        \* what was emitted so far
  observers,  \* the subscriptions in the order they were made
  results,    \* what each of them has made of the stream
  turn,       \* how many of them had their turn with the last instruction,
  round       \* and how many there were when it was given out

vars == <<file, runs, left, log, observers, results, turn, round>>

Kinds == {"listing", "finder", "matcher", "empty"}
Parts == {"section", "symbol", "block"}

Instructions == UNION {Range(f) : f \in Files}

ASSUME FilesAssumption    == Files \subseteq Seq(Instructions)
ASSUME BoundsAssumption   == MaxRuns \in Nat /\ MaxObservers \in Nat
ASSUME SequenceAssumption == instr_sequence \in Seq(Range(instr_sequence))
                               /\ Len(instr_sequence) >= 2
ASSUME SeedAssumption     == Seed \in [Parts -> Range(Seed)]

-----------------------------------------------------------------------------
(* What a subscriber does with an instruction.                             *)

\* joined is the length of the log at the subscription, seen the places in the
\* log of what was received.
Observer(kind) == [kind |-> kind, active |-> TRUE, joined |-> Len(log), seen |-> <<>>]

\* Plausible bugs, one for each property of the passing run.  Each stands
\* before the definition it is a mutation of and is not used by Spec.

\* A matcher waits for the first mnemonic, which it has missed.
BugFromTheFirst == [seq_index |-> 0, found |-> 0, acc |-> Seed, lines |-> <<>>]

\* What a subscriber starts with.  A matcher has an index, which counts from 0,
\* and what it found; a listing the last headers and its lines.
Nothing == [seq_index |-> 1, found |-> 0, acc |-> Seed, lines |-> <<>>]

\* create_mapper.  What it unsubscribes was never subscribed: the subscription
\* is assigned after it was copied.  So a matcher goes on after a mismatch.
Match(r, instr) ==
  LET size == Len(instr_sequence)
  IN  IF r.seq_index = size - 1 /\ instr_sequence[size] = instr.name
        THEN [r EXCEPT !.found = @ + 1]
        ELSE [r EXCEPT !.seq_index = @ + 1]

Line(part, instr) == [part |-> part, of |-> instr[part], at |-> Len(log)]

\* A header if the part is not the one of the last instruction.
Headed(r, part, instr) ==
  IF r.acc[part] = instr[part] THEN r
  ELSE [r EXCEPT !.lines = Append(@, Line(part, instr)), !.acc[part] = instr[part]]

\* A new block is only looked for in a new symbol.
BugNestedHeaders(r, instr) ==
  LET outer  == Headed(Headed(r, "section", instr), "symbol", instr)
      headed == IF r.acc.symbol = instr.symbol THEN [outer EXCEPT !.acc.block = instr.block]
                ELSE Headed(outer, "block", instr)
  IN  [headed EXCEPT !.lines = Append(@, Line("name", instr))]

\* The headers that are needed, then the instruction.
List(r, instr) ==
  LET headed == Headed(Headed(Headed(r, "section", instr), "symbol", instr), "block", instr)
  IN  [headed EXCEPT !.lines = Append(@, Line("name", instr))]

\* What becomes of a result; a finder and an empty subscriber keep nothing.
Result(kind, r, instr) ==
  IF kind = "matcher" THEN Match(r, instr)
  ELSE IF kind = "listing" THEN List(r, instr)
  ELSE r

-----------------------------------------------------------------------------
Init ==
  /\ file \in Files
  /\ runs = 0 /\ left = <<>> /\ log = <<>>
  /\ observers = <<>> /\ results = <<>> /\ turn = 0 /\ round = 0

Idle == left = <<>> /\ turn = round

\* main.cpp and the tests, before a run and between two.
Subscribe(kind) ==
  /\ Idle
  /\ Len(observers) < MaxObservers
  /\ observers' = Append(observers, Observer(kind))
  /\ results' = Append(results, Nothing)
  /\ UNCHANGED <<file, runs, left, log, turn, round>>

\* The owner of a subscription ends it, between two runs or in a callback.
Unsubscribe(k) ==
  /\ observers[k].active
  /\ observers' = [observers EXCEPT ![k].active = FALSE]
  /\ UNCHANGED <<file, runs, left, log, results, turn, round>>

\* A run is started although one is under way.
BugOverlaps ==
  /\ turn = round /\ runs < MaxRuns
  /\ runs' = runs + 1 /\ left' = file
  /\ UNCHANGED <<file, log, observers, results, turn, round>>

runDisassembler ==
  /\ Idle
  /\ runs < MaxRuns
  /\ runs' = runs + 1 /\ left' = file
  /\ UNCHANGED <<file, log, observers, results, turn, round>>

\* Every call subscribes, and nothing unsubscribes.
runDecompiler ==
  /\ Idle
  /\ runs < MaxRuns /\ Len(observers) < MaxObservers
  /\ observers' = Append(observers, Observer("empty"))
  /\ results' = Append(results, Nothing)
  /\ runs' = runs + 1 /\ left' = file
  /\ UNCHANGED <<file, log, turn, round>>

\* The subject takes the list of its observers, then calls one after another.
OnNext ==
  /\ left # <<>> /\ turn = round
  /\ log' = Append(log, Head(left))
  /\ left' = Tail(left)
  /\ turn' = 0 /\ round' = Len(observers)
  /\ UNCHANGED <<file, runs, observers, results>>

\* Whether an observer has still to be given the last instruction.
Waits(k) == k \in turn + 1 .. round

\* An observer after its turn, with what it subscribes.  A finder subscribes a
\* matcher where the sequence may begin.
Subscribes(k) ==
  /\ observers[k].kind = "finder" /\ Last(log).name = instr_sequence[1]
  /\ Len(observers) < MaxObservers

Given(k) ==
  LET given == [observers EXCEPT ![k].seen = Append(@, Len(log))]
  IN  IF Subscribes(k) THEN Append(given, Observer("matcher")) ELSE given

Resulting(k) ==
  LET given == [results EXCEPT ![k] = Result(observers[k].kind, @, Last(log))]
  IN  IF Subscribes(k) THEN Append(given, Nothing) ELSE given

\* The list of observers is the one that is being called.
BugLiveList(k) ==
  /\ k = turn + 1 /\ Waits(k) /\ observers[k].active
  /\ observers' = Given(k) /\ results' = Resulting(k)
  /\ turn' = k /\ round' = Len(observers')
  /\ UNCHANGED <<file, runs, left, log>>

\* The next observer is called.
Deliver(k) ==
  /\ k = turn + 1 /\ Waits(k) /\ observers[k].active
  /\ observers' = Given(k) /\ results' = Resulting(k)
  /\ turn' = k
  /\ UNCHANGED <<file, runs, left, log, round>>

\* One that unsubscribed meanwhile is not called.
Pass(k) ==
  /\ k = turn + 1 /\ Waits(k) /\ ~observers[k].active
  /\ turn' = k
  /\ UNCHANGED <<file, runs, left, log, observers, results, round>>

Next ==
  \/ \E kind \in {"listing", "finder"} : Subscribe(kind)
  \/ runDisassembler \/ runDecompiler \/ OnNext
  \/ \E k \in DOMAIN observers : Unsubscribe(k) \/ Deliver(k) \/ Pass(k)

Spec == Init /\ [][Next]_vars

-----------------------------------------------------------------------------
(* Properties.                                                             *)

\* Every run has emitted its file, but for what is left of the last one.
RunsAreWhole == Len(log) + Len(left) = runs * Len(file)

\* Every variable has its type, and runs do not overlap.
Values == Range(Seed) \cup {instr[part] : instr \in Instructions, part \in Parts \cup {"name"}}

Subscription == [kind : Kinds, active : BOOLEAN, joined : Nat, seen : Seq(Nat)]
Lines        == Seq([part : Parts \cup {"name"}, of : Values, at : Nat])
AnyResult    == [seq_index : Nat, found : Nat, acc : [Parts -> Values], lines : Lines]

TypeOK ==
  /\ file \in Files
  /\ runs \in 0 .. MaxRuns /\ RunsAreWhole
  /\ log \in Seq(Instructions) /\ left \in Seq(Instructions)
  /\ observers \in Seq(Subscription) /\ results \in Seq(AnyResult)
  /\ Len(observers) <= MaxObservers /\ Len(results) = Len(observers)
  /\ turn \in 0 .. round /\ round \in 0 .. Len(observers)

\* A subscriber receives what is emitted after it subscribed, everything once
\* and in order, until it unsubscribes: also one that subscribed while an
\* instruction was given out, which it misses, and one of an earlier run.
EverySubscriberSeesTheRest ==
  \A k \in DOMAIN observers : LET o == observers[k] IN
    /\ o.seen = [i \in DOMAIN o.seen |-> o.joined + i]
    /\ o.active /\ ~Waits(k) => o.joined + Len(o.seen) = Len(log)

\* The sequence is found wherever it is: a matcher that joined where the
\* sequence begins has counted it once it has seen its end.
Occurs(at) ==
  /\ at + Len(instr_sequence) - 1 <= Len(log)
  /\ \A i \in DOMAIN instr_sequence : log[at + i - 1].name = instr_sequence[i]

SequencesAreFound ==
  \A k \in DOMAIN observers : LET o == observers[k] IN
    /\ o.kind = "matcher" /\ o.joined > 0 /\ Occurs(o.joined)
    /\ Len(o.seen) >= Len(instr_sequence) - 1
    => results[k].found > 0

\* The last header of a part down to line j names a value; before the first
\* header of a part a reader takes the one the listing starts with.
HeadedBy(lines, j, part, value) ==
  \/ \E i \in 1 .. j : /\ lines[i].part = part /\ lines[i].of = value
                       /\ \A h \in i + 1 .. j : lines[h].part # part
  \/ value = Seed[part] /\ \A i \in 1 .. j : lines[i].part # part

\* Whoever reads a listing finds above every instruction its section, its
\* symbol and its block: the last header of each kind names them.
HeadersNameTheInstruction ==
  \A k \in DOMAIN results : LET lines == results[k].lines IN
    \A j \in DOMAIN lines : lines[j].part = "name" =>
      \A part \in Parts : HeadedBy(lines, j, part, log[lines[j].at][part])
=============================================================================
