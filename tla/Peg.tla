--------------------------------- MODULE Peg ---------------------------------
(***************************************************************************)
(* What a parser means, without marks, frames, errors or memory: from a    *)
(* place in the text it succeeds, fails or never ends, and a success has   *)
(* an end and a string.  Choice is ordered, repetition is greedy, and      *)
(* nothing is ever tried again: a parsing expression grammar.  The engine  *)
(* (Mpc) is checked against it.                                            *)
(*                                                                         *)
(* A grammar refers to itself, so the meaning is a solution of equations:  *)
(* Match and MatchFrom are constants, and the assumption is what they are  *)
(* to satisfy.  Every grammar has such a meaning, the least one, in which  *)
(* what never comes to an answer is "endless": so is left recursion, and   *)
(* the repetition of what takes nothing.                                   *)
(*                                                                         *)
(* A place is the number of characters that were read, and one more when   *)
(* the end of the text was taken, too: it can be taken once only.          *)
(***************************************************************************)
EXTENDS MpcKinds

CONSTANTS
  Match(_, _, _),         \* what a parser does with a text from a place on
  MatchFrom(_, _, _, _)   \* and what it does from some part of it on

Success(at, string) == [verdict |-> "success", at |-> at, string |-> string]
Failure == [verdict |-> "failure", at |-> 0, string |-> << >>]
Endless == [verdict |-> "endless", at |-> 0, string |-> << >>]

Succeeds(m) == m.verdict = "success"
Fails(m)    == m.verdict = "failure"

(* The end of the text is one place past the last of its characters.       *)
PlacesIn(t) == 0 .. Len(t) + 1

Combined(f, strings) ==
  CASE f = "mpcf_strfold"                   -> IF strings = << >> THEN << >> ELSE FlattenSeq(strings)
    [] f \in {"mpcf_fst", "mpcf_fst_free"}  -> strings[1]
    [] f \in {"mpcf_snd", "mpcf_snd_free"}  -> strings[2]
    [] f \in {"mpcf_all_free", "mpcf_free"} -> << >>
    [] f = "mpcf_int"                       -> Number(strings[1])

Folded(p, m)   == IF Succeeds(m) THEN Success(m.at, Combined(p.f, m.string)) ELSE m
Prefixed(x, m) == IF Succeeds(m) THEN Success(m.at, <<x>> \o m.string) ELSE m

Reads(p, t, i) == \A k \in 1 .. Len(p.string) : i + k <= Len(t) /\ t[i + k] = p.string[k]

(* The equations, for whatever stands for Match and MatchFrom.             *)
Meant(M(_, _, _), R(_, _, _, _), p, t, i) ==
  LET x == M(p.x, t, i)
  IN  CASE p.type = "NAMED"     -> M(Grammar[p.name], t, i)
        [] p.type = "UNDEFINED" -> Failure
        [] p.type \in {"SINGLE", "ONEOF", "NONEOF"} ->
             IF i < Len(t) /\ Accepts(p, t[i + 1]) THEN Success(i + 1, <<t[i + 1]>>) ELSE Failure
        [] p.type = "STRING"    -> IF Reads(p, t, i) THEN Success(i + Len(p.string), p.string) ELSE Failure
        [] p.type = "SOI"       -> IF i = 0 \/ Len(t) = 0 THEN Success(i, << >>) ELSE Failure
        [] p.type = "EOI"       -> IF i = Len(t) THEN Success(i + 1, << >>) ELSE Failure
        [] p.type = "EXPECT"    -> x
        [] p.type = "APPLY"     -> IF Succeeds(x) THEN Success(x.at, Combined(p.f, <<x.string>>)) ELSE x
        [] p.type = "MAYBE"     -> IF Fails(x) THEN Success(i, << >>) ELSE x
        [] p.type = "MANY"      -> Folded(p, R(p, 1, t, i))
        [] p.type = "MANY1"     -> IF Succeeds(x) THEN Folded(p, R(p, 1, t, i)) ELSE x
        [] p.type = "OR"        -> R(p, 1, t, i)
        [] p.type = "AND"       -> Folded(p, R(p, 1, t, i))

(* From the j-th part on: of an OR the first that succeeds, of an AND all, *)
(* and of a repetition, which has one part, as many as there are.          *)
Parts(p)   == IF p.type \in ListTypes THEN DOMAIN p.xs ELSE {1}

MeantFrom(M(_, _, _), R(_, _, _, _), p, j, t, i) ==
  LET m == M(Part(p, j), t, i)
  IN  CASE p.type = "OR"  -> IF Fails(m) /\ j < Len(p.xs) THEN R(p, j + 1, t, i) ELSE m
        [] p.type = "AND" ->
             IF Succeeds(m)
             THEN Prefixed(m.string, IF j < Len(p.xs) THEN R(p, j + 1, t, m.at) ELSE Success(m.at, << >>))
             ELSE m
        [] p.type \in {"MANY", "MANY1"} ->
             IF Succeeds(m) THEN Prefixed(m.string, R(p, 1, t, m.at))
             ELSE IF Fails(m) THEN Success(i, << >>) ELSE m

ASSUME MeaningAssumption ==
  \A p \in AllParsers, t \in Texts :
    \A i \in PlacesIn(t) :
      /\ Match(p, t, i) = Meant(Match, MatchFrom, p, t, i)
      /\ p.type \in ListTypes \cup {"MANY", "MANY1"} =>
           \A j \in Parts(p) :
             LET m == MatchFrom(p, j, t, i)
             IN  /\ m = MeantFrom(Match, MatchFrom, p, j, t, i)
                 /\ p.type # "OR" => m.string \in Seq(ToSet(m.string))

-------------------------------------------------------------------------------
PlaceOf(s) == s.pos + (IF s.term THEN 1 ELSE 0)

(* A parse accepts what the parser means and ends where it ends, whatever  *)
(* the functions are that it applies to its results: backtracking and the  *)
(* marks make no difference, nor does it whether a string or a file is     *)
(* read.                                                                   *)
AcceptsAsMeant ==
  ctl = "done" /\ ~ limited =>
    LET m == Match(root, text, 0)
    IN  /\ m.verdict = IF ok THEN "success" ELSE "failure"
        /\ ok => PlaceOf(state) = m.at

(* And it returns its string: no result is lost, taken for another or      *)
(* written over on the way.                                                *)
AgreesWithMeaning ==
  /\ AcceptsAsMeant
  /\ ctl = "done" /\ ~ limited /\ ok => Data(heap, result, << >>) = Match(root, text, 0).string
=============================================================================
