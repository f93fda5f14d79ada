-------------------------------- MODULE Cron --------------------------------
(***************************************************************************)
(* The cron parser of package cron, as the scheduler and the HTTP handlers *)
(* see it.  An expression is abstracted to the set of whole seconds at     *)
(* which it fires; time is a number of whole seconds.  Flooring the clock  *)
(* loses nothing: slots are whole seconds, so now.Before(slot) and         *)
(* "the first slot after from" depend on the floor of the instant only.    *)
(***************************************************************************)
EXTENDS Integers, Sequences, FiniteSets, FiniteSetsExt

CONSTANTS
    MaxTime,       \* the last instant the clock may show
    Expressions,   \* the expressions the parser accepts
    Malformed,     \* expressions it rejects
    Fires          \* Fires[e]: the seconds at which expression e fires

ASSUME MaxTimeAssumption == MaxTime \in Nat \ {0}

(***************************************************************************)
(* An expression either never fires ("0 0 0 30 2 *": Parse accepts it,     *)
(* Next gives up after five years and returns the zero time) or keeps      *)
(* firing: it still has a slot after the last instant of the model.        *)
(***************************************************************************)
ASSUME FiresAssumption ==
    /\ Fires \in [Expressions -> SUBSET (Nat \ {0})]
    /\ \A e \in Expressions : Fires[e] # {} => \E s \in Fires[e] : s > MaxTime

ASSUME MalformedAssumption == Malformed \cap Expressions = {}

-----------------------------------------------------------------------------

\* time.Time{}: the zero value of time.Time precedes every instant
ZeroTime == 0

\* Parser.Validate, and the error result of Parser.Parse
Validate(expression) == expression \in Expressions

\* mutant: the slot that is being left counts as later
LaterOrNow(expression, from) == {s \in Fires[expression] : s >= from}

Later(expression, from) == {s \in Fires[expression] : s > from}

(***************************************************************************)
(* Parser.GetNextRun: the first slot strictly after from; the zero time    *)
(* when the expression does not parse or has no further slot.              *)
(***************************************************************************)
GetNextRun(expression, from) ==
    IF Validate(expression) /\ Later(expression, from) # {}
      THEN Min(Later(expression, from))
      ELSE ZeroTime

\* mutant: the loop never moves its current instant on
RunsFromOneInstant(expression, n, from) ==
    [i \in 1 .. n |-> GetNextRun(expression, from)]

(***************************************************************************)
(* Parser.GetNextNRuns: each run is the next one after the run before it;  *)
(* the list ends early at the zero time, which every later run then is.    *)
(* An error is an empty list.                                              *)
(***************************************************************************)
GetNextNRuns(expression, n, from) ==
    LET run[i \in 0 .. n] ==
            IF i = 0 THEN from
            ELSE IF i > 1 /\ run[i - 1] = ZeroTime THEN ZeroTime
            ELSE GetNextRun(expression, run[i - 1])
        found == {i \in 1 .. n : run[i] # ZeroTime}
    IN  IF n <= 0 \/ ~Validate(expression)
          THEN <<>>
          ELSE [i \in 1 .. Cardinality(found) |-> run[i]]

\* mutant: a slot already past counts as near
WithinEitherSide(expression, window, asked, answered) ==
    GetNextRun(expression, asked) - answered <= window

(***************************************************************************)
(* Parser.IsWithinTimeWindow reads the clock twice: time.Now() to find the *)
(* next run, then time.Until to see how far off it is.  Both readings are  *)
(* whole seconds here.                                                     *)
(***************************************************************************)
IsWithinTimeWindow(expression, window, asked, answered) ==
    LET untilNext == GetNextRun(expression, asked) - answered
    IN  Validate(expression) /\ untilNext <= window /\ untilNext >= 0

=============================================================================
