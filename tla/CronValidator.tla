---------------------------- MODULE CronValidator ----------------------------
(***************************************************************************)
(* ValidateField and ValidateCronExpression of package cron, a second      *)
(* validator that only the tests call.  A field is a sequence of tokens:   *)
(* the five separators and words, a word being a number or a name.  Blanks *)
(* around a word are no token: every word is trimmed before it is read.    *)
(***************************************************************************)
EXTENDS Integers, Sequences, SequencesExt

Star == <<"*", 0>>
Question == <<"?", 0>>
Comma == <<",", 0>>
Dash == <<"-", 0>>
Slash == <<"/", 0>>
Number(n) == <<"number", n>>

\* a name by its index in the list of names, -1 for a name of no list
Name(index) == <<"name", index>>

IsWord(token) == token[1] \in {"number", "name"}

\* the kinds of field: bounds, and how many names (JAN.., SUN..) it knows
FieldSpecs ==
    <<[min |-> 0, max |-> 59, names |-> 0],
      [min |-> 0, max |-> 59, names |-> 0],
      [min |-> 0, max |-> 23, names |-> 0],
      [min |-> 1, max |-> 31, names |-> 0],
      [min |-> 1, max |-> 12, names |-> 12],
      [min |-> 0, max |-> 6,  names |-> 7]>>

-----------------------------------------------------------------------------
(* The code.                                                               *)

\* where a field is cut: at its separators, before its start, after its end
Cuts(field, separator) ==
    {0, Len(field) + 1} \cup {i \in DOMAIN field : field[i] = separator}

\* how many cuts lie before the cut c
Rank(cuts, c) == Cardinality({b \in cuts : b < c})

\* strings.Split, for a separator of one token: what lies between the cuts
Split(field, separator) ==
    LET cuts == Cuts(field, separator)
        cut == [r \in 0 .. Cardinality(cuts) - 1 |-> CHOOSE c \in cuts : Rank(cuts, c) = r]
    IN  [k \in 1 .. Cardinality(cuts) - 1 |-> SubSeq(field, cut[k - 1] + 1, cut[k] - 1)]

\* strconv.Atoi succeeds, with one of the given values
IsNumber(text, values) ==
    Len(text) = 1 /\ text[1][1] = "number" /\ text[1][2] \in values

InBounds(text, spec) == IsNumber(text, spec.min .. spec.max)

\* findNameIndex finds the text among the names of the field
IsName(text, spec) ==
    Len(text) = 1 /\ text[1][1] = "name" /\ text[1][2] \in 0 .. spec.names - 1

\* mutant: the ends of a range may come in any order
ValidateRangeUnordered(field, spec) ==
    LET ends == Split(field, Dash)
    IN  /\ Len(ends) = 2
        /\ \/ \A k \in 1 .. 2 : IsName(ends[k], spec)
           \/ \A k \in 1 .. 2 : InBounds(ends[k], spec)

\* both ends names, or both numbers, the first not past the second
ValidateRange(field, spec) ==
    LET ends == Split(field, Dash)
    IN  /\ Len(ends) = 2
        /\ \/ \A k \in 1 .. 2 : IsName(ends[k], spec)
           \/ \A k \in 1 .. 2 : InBounds(ends[k], spec)
        /\ ends[1][1][2] <= ends[2][1][2]

(***************************************************************************)
(* The start of a step is "*" or a number.  The code also looks for a      *)
(* range there, in vain: a field with a dash was taken for a range before. *)
(***************************************************************************)
ValidateStep(field, spec) ==
    LET parts == Split(field, Slash)
    IN  /\ Len(parts) = 2
        /\ parts[1] = <<Star>> \/ InBounds(parts[1], spec)
        /\ IsNumber(parts[2], Nat \ {0})

\* ValidateField of a field without a comma
ValidateItem(item, spec) ==
    \/ item = <<Star>> \/ item = <<Question>>
    \/ Contains(item, Dash) /\ ValidateRange(item, spec)
    \/ ~Contains(item, Dash) /\ Contains(item, Slash) /\ ValidateStep(item, spec)
    \/ IsName(item, spec)
    \/ InBounds(item, spec)

\* a list is valid when every part of it is; the parts hold no comma
ValidateField(field, spec) ==
    \A k \in DOMAIN Split(field, Comma) : ValidateItem(Split(field, Comma)[k], spec)

ValidateCronExpression(fields) ==
    /\ Len(fields) = 6
    /\ \A k \in 1 .. 6 : ValidateField(fields[k], FieldSpecs[k])

-----------------------------------------------------------------------------
(* The grammar over a set of words, generated instead of recognised.       *)

Tokens(words) == {Star, Question, Comma, Dash, Slash} \cup words

Values(spec, words) ==
    {w \in words :
        IF w[1] = "number" THEN spec.min <= w[2] /\ w[2] <= spec.max
                           ELSE 0 <= w[2] /\ w[2] < spec.names}

Ranges(spec, words) ==
    {<<v[1], Dash, v[2]>> :
        v \in {u \in Values(spec, words) \X Values(spec, words) :
                  u[1][1] = u[2][1] /\ u[1][2] <= u[2][2]}}

StepLengths(words) == {w \in words : w[1] = "number" /\ w[2] > 0}

Steps(spec, words) ==
    {<<start, Slash, step>> :
        start \in {Star} \cup {v \in Values(spec, words) : v[1] = "number"},
        step \in StepLengths(words)}

(***************************************************************************)
(* A range with a step, such as 0-30/5.  The comment above the steps names *)
(* it (validator.go:64); the code takes its dash for that of a plain       *)
(* range and refuses it.  So it is left open whether it is an item.        *)
(***************************************************************************)
RangesWithStep(spec, words) ==
    {range \o <<Slash, step>> : range \in Ranges(spec, words), step \in StepLengths(words)}

Items(spec, words) ==
    {<<Star>>, <<Question>>} \cup {<<v>> : v \in Values(spec, words)}
      \cup Ranges(spec, words) \cup Steps(spec, words)

\* an item and what follows its comma
Listed(item, rest) == item \o <<Comma>> \o rest

-----------------------------------------------------------------------------
(* Bounded inputs.                                                         *)

\* words at and just past the bounds of a field, a foreign name, a zero
WordsFor(spec) ==
    {Number(n) : n \in {0, spec.min, spec.max, spec.max + 1}}
      \cup {Name(i) : i \in {-1, 0, spec.names - 1}}

\* lists of up to three items
Lists(spec) ==
    LET items == Items(spec, WordsFor(spec))
        single == {Star, Question} \cup Values(spec, WordsFor(spec))
    IN  items \cup {Listed(a, b) : a, b \in items}
              \cup {Listed(<<a>>, Listed(<<b>>, <<c>>)) : a, b, c \in single}

\* fields of at most n tokens; two words never touch
Fields(spec, n) ==
    {f \in BoundedSeq(Tokens(WordsFor(spec)), n) :
        /\ f # <<>>
        /\ \A i \in 1 .. Len(f) - 1 : ~(IsWord(f[i]) /\ IsWord(f[i + 1]))}

=============================================================================
