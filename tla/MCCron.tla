------------------------------- MODULE MCCron -------------------------------
(***************************************************************************)
(* The instance MCJobScheduling, and the validator of package cron checked *)
(* over bounded inputs.                                                    *)
(***************************************************************************)
EXTENDS MCJobScheduling, CronValidator

(***************************************************************************)
(* The validator takes its separators apart in a fixed order (comma, dash, *)
(* slash) and still accepts exactly the lists of "*", "?", values, ranges  *)
(* and steps from a start, wherever else the separators stand: nothing     *)
(* empty, reversed, or past a bound.  Nothing is said of a range with a    *)
(* step, on which the code and the comment above its steps disagree.       *)
(* The validator reads no state, so one state, the first, asks it all:     *)
(* months up to five tokens, every other field up to four, and whole       *)
(* expressions with one field other than "*", or a field too many or few.  *)
(***************************************************************************)
FirstState == schedPC = "started" /\ requests = 0 /\ clock = 1

ValidatorFollowsGrammar ==
    FirstState =>
        /\ \A k \in DOMAIN FieldSpecs :
              LET spec == FieldSpecs[k]
                  lists == Lists(spec)
                  open == RangesWithStep(spec, WordsFor(spec))
              IN  /\ \A f \in Fields(spec, IF k = 5 THEN 5 ELSE 4) \ open :
                        ValidateField(f, spec) <=> f \in lists
                  /\ \A f \in Fields(spec, 1) :
                        ValidateCronExpression([i \in 1 .. 6 |->
                            IF i = k THEN f ELSE <<Star>>]) <=> f \in lists
        /\ \A n \in {5, 7} : ~ValidateCronExpression([i \in 1 .. n |-> <<Star>>])

=============================================================================
