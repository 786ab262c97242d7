------------------------------- MODULE MCParser -------------------------------
(***************************************************************************)
(* korlessa's parser on texts that are written from trees, and on what is  *)
(* left of a text when it is cut off at any place.                         *)
(***************************************************************************)
EXTENDS KorlessaKinds, Parser

(***************************************************************************)
(* Trees and how they are written.                                         *)
(***************************************************************************)
Node(type, value, name, kids) == [type |-> type, value |-> value, name |-> name, kids |-> kids]

Leaf(type) == Node(type, 0, << >>, << >>)
Pitch(channel, letter, accidental, octave, velocity) ==
  Node("NOTE", [channel |-> channel, letter |-> Text(letter), octave |-> octave, velocity |-> velocity],
       Text(accidental), << >>)
Step(n)           == Node("INTERVAL", n, << >>, << >>)
Slur(kids)        == Node("LEGATO", 0, << >>, kids)
CC(param, value)  == Node("CONTROLLER", [param |-> param, value |-> value], << >>, << >>)
Pgm(n)            == Node("PROGRAM", n, << >>, << >>)
Tempo(n)          == Node("BPM", n, << >>, << >>)
Ref(label, count) == Node("REFERENCE", count, Text(label), << >>)
Sh(label, units, duration, count, kids) ==
  Node("SHEET", [units |-> units, duration |-> duration, repeat_count |-> count], Text(label), kids)
Song(statements)  == Node("CRATE", 0, << >>, Append(statements, Leaf("EOF")))

C == Pitch(-1, "c", "", -1, -1)
B == Pitch(-1, "b", "", -1, -1)

Decimal(n) == Text(ToString(n))

Times(count) ==
  CASE count = -1 -> Text("loop")
    [] count = 0  -> Text("off")
    [] count = 1  -> << >>
    [] OTHER      -> Text("x") \o Decimal(count)

Given(prefix, n) == IF n = -1 THEN << >> ELSE Text(prefix) \o Decimal(n)

RECURSIVE Written(_), AllWritten(_)
AllWritten(kids) == FlattenSeq(<< << >> >> \o [k \in DOMAIN kids |-> Written(kids[k]) \o <<" ">>])
Written(n) ==
  LET v == n.value
      in == AllWritten(n.kids)
  IN  CASE n.type = "REST"       -> <<".">>
        [] n.type = "TIE"        -> <<"-">>
        [] n.type = "DIVIDER"    -> <<"|">>
        [] n.type = "EOF"        -> << >>
        [] n.type = "COMMENT"    -> Text("// c") \o <<"\n">>
        [] n.type = "CRATE"      -> in
        [] n.type = "LEGATO"     -> <<"(">> \o in \o <<")">>
        [] n.type = "INTERVAL"   -> IF v < 0 THEN Decimal(v) ELSE <<"+">> \o Decimal(v)
        [] n.type = "BPM"        -> Decimal(v) \o Text("bpm")
        [] n.type = "PROGRAM"    -> Text("pgm") \o Decimal(v)
        [] n.type = "CONTROLLER" -> Text("cc") \o Decimal(v.param) \o <<":">> \o Decimal(v.value)
        [] n.type = "REFERENCE"  -> <<"{">> \o n.name \o <<"}">> \o Times(v)
        [] n.type = "NOTE"       -> (IF v.channel = -1 THEN << >> ELSE Given("ch", v.channel) \o <<":">>)
                                    \o v.letter \o n.name \o Given("", v.octave) \o Given("!", v.velocity)
        [] n.type = "SHEET"      -> (IF n.name = << >> THEN << >> ELSE n.name \o <<":">>)
                                    \o (IF v.units = 1 THEN << >> ELSE Decimal(v.units) \o Text("as"))
                                    \o Decimal(v.duration) \o <<"{">> \o in \o <<"}">> \o Times(v.repeat_count)

(* The tree that the parser has left on the heap.                          *)
RECURSIVE Tree(_, _)
Tree(h, x) ==
  LET u == Refs(h, x)[1]
      nodes == Refs(h, Refs(h, x)[2])
  IN  Node(Kind(h, x), Data(h, u, 0),
           IF Refs(h, u) = << >> THEN << >> ELSE Chars(h, Refs(h, u)[1]),
           [k \in DOMAIN nodes |-> Tree(h, nodes[k])])

(***************************************************************************)
(* The elements of a sheet and of a song, and sheets and a song in which   *)
(* each follows each.  A comment is written, but not in the tree.          *)
(***************************************************************************)
ElementSet ==
  <<B, Pitch(1, "c", "", -1, -1), Pitch(-1, "d", "#", 4, 9), Leaf("REST"), Leaf("TIE"),
    Leaf("DIVIDER"), Step(2), Step(-12), Slur(<<B, Step(1), Leaf("TIE")>>), CC(9, 127), Pgm(3),
    Leaf("COMMENT"), Sh("c", 1, 4, 1, <<B>>), Sh("", 2, 3, 2, << >>)>>

StatementSet ==
  <<Sh("cc", 1, 4, 1, <<B>>), Sh("", 1, 8, -1, << >>), Ref("c.b", 1), Ref("c", 0), Tempo(90),
    CC(9, 127), Pgm(3), Leaf("COMMENT")>>

EachAfter(e, set) == FlattenSeq([k \in DOMAIN set |-> <<e, set[k]>>])

InTree(kids) == SelectSeq(kids, LAMBDA n : n.type # "COMMENT")

Case(string, statements) == [text |-> Text(string), tree |-> Song(statements)]

Empty(units, duration, count) == Sh("", units, duration, count, << >>)
Of(kids) == Sh("", 1, 4, 1, kids)

(* tests/parser_test.c.                                                    *)
TestCases ==
  {Case("", << >>), Case("// comment", << >>), Case("4{// comment\n}", <<Of(<< >>)>>),
   Case("4{} 8{}", <<Empty(1, 4, 1), Empty(1, 8, 1)>>),
   Case("{ref1} {ref2}", <<Ref("ref1", 1), Ref("ref2", 1)>>),
   Case("120bpm 160bpm", <<Tempo(120), Tempo(160)>>),
   Case("CC0:0 CC90:127", <<CC(0, 0), CC(90, 127)>>),
   Case("pgm0 pgm1", <<Pgm(0), Pgm(1)>>),
   Case("sheet1:8{}", <<Sh("sheet1", 1, 8, 1, << >>)>>),
   Case("2is3{}", <<Empty(2, 3, 1)>>), Case("2to3{}", <<Empty(2, 3, 1)>>),
   Case("sheet2:2as3{}", <<Sh("sheet2", 2, 3, 1, << >>)>>),
   Case("4{}x1", <<Empty(1, 4, 1)>>), Case("4{}x2", <<Empty(1, 4, 2)>>),
   Case("4{}loop", <<Empty(1, 4, -1)>>), Case("4{}off", <<Empty(1, 4, 0)>>),
   Case("4{c}", <<Of(<<C>>)>>), Case("4{c3}", <<Of(<<Pitch(-1, "c", "", 3, -1)>>)>>),
   Case("4{ch1:c}", <<Of(<<Pitch(1, "c", "", -1, -1)>>)>>),
   Case("4{c!3}", <<Of(<<Pitch(-1, "c", "", -1, 3)>>)>>),
   Case("4{c#}", <<Of(<<Pitch(-1, "c", "#", -1, -1)>>)>>)}

(* What is written close together or far apart.                            *)
CloseCases ==
  {Case("4{cb}", <<Of(<<Pitch(-1, "c", "b", -1, -1)>>)>>),
   Case("4{cdb}", <<Of(<<C, Pitch(-1, "d", "b", -1, -1)>>)>>),
   Case("4{c.-|+1-2}", <<Of(<<C, Leaf("REST"), Leaf("TIE"), Leaf("DIVIDER"), Step(1), Step(-2)>>)>>),
   Case("{a.b}x3 4{ }  x2\n", <<Ref("a.b", 3), Empty(1, 4, 2)>>),
   Case("4{cc9}", <<Of(<<C, Pitch(-1, "c", "", 9, -1)>>)>>),
   Case("cc9:4{}", <<Sh("cc9", 1, 4, 1, << >>)>>)}

WrittenCases ==
  {LET kids == EachAfter(ElementSet[k], ElementSet)
   IN  [text |-> Written(Song(<<Of(kids)>>)), tree |-> Song(<<Of(InTree(kids))>>)] :
     k \in DOMAIN ElementSet}
  \cup
  {LET statements == EachAfter(StatementSet[k], StatementSet)
   IN  [text |-> Written(Song(statements)), tree |-> Song(InTree(statements))] :
     k \in DOMAIN StatementSet}

Cases == TestCases \cup CloseCases \cup WrittenCases

CutOff ==
  Text("a:4{ch1:c#3!3 (b - +1) | . // y\n n:3to2{c}off cc9:1 pgm2}x2 {a.n}loop 90bpm pgm3 // x")

TheTexts == {c.text : c \in Cases} \cup {SubSeq(CutOff, 1, n) : n \in 0 .. Len(CutOff)}

TheRoots == {Named("parser")}

(* What becomes of a number that an int or a long cannot hold.             *)
ASSUME NumbersAtTheLimits ==
  LET half == IntSize \div 2
  IN  /\ Number(Decimal(half - 1)) = half - 1 /\ Number(Decimal(half)) = - half
      /\ Number(Decimal(IntSize)) = 0 /\ Unsigned(Decimal(IntSize - 1)) = IntSize - 1
      /\ Number(Decimal(LongSize)) = -1 /\ Unsigned(Decimal(LongSize \div 2)) = 0
      /\ Unsigned(Decimal(LongSize)) = IntSize - 1

(***************************************************************************)
(* What the retained parsers return.                                       *)
(***************************************************************************)
ParserKinds ==
  [note |-> {"NOTE"}, rest |-> {"REST"}, tie |-> {"TIE"}, divider |-> {"DIVIDER"},
   controller |-> {"CONTROLLER"}, program |-> {"PROGRAM"}, repeater |-> {"int"}, comment |-> {"null"},
   reference |-> {"REFERENCE"}, interval |-> {"INTERVAL"}, label |-> {"chars"}, sheet |-> {"SHEET"},
   legato |-> {"LEGATO"}, parser |-> {"CRATE"}]

Typing == INSTANCE Signatures WITH NamedKinds <- ParserKinds, Makes <- Returns

TheParsers == Typing!PartsOfAll(TheRoots, KorlessaGrammar)
TheUnfailing == {p \in TheParsers : Typing!CannotFail(p)}
TheKinds(p) == Typing!KindsOf(p)

IsRead(c) == ok /\ Tree(heap, result) = c.tree

(* The parser reads a text as the tree it was written from, whatever       *)
(* element follows whatever other, and the texts of parser_test.c as the   *)
(* trees expected there.                                                   *)
ReadsAsMeant == ctl = "done" => \A c \in Cases : text = c.text => IsRead(c)

(* free_parser gives every parser back, and only once, however the         *)
(* parsers refer to each other.                                            *)
ParsersFreed == ctl = "done" => Parsers!CleanedUp

(* A name before a colon is the label of the sheet (the comment at label:  *)
(* part of sheet and group): it is not taken for the repeater of the sheet *)
(* before.                                                                 *)
LabelCases ==
  {LET t == Song(<<Of(<<C>>), Sh(label, 1, 4, 1, <<B>>)>>) IN [text |-> Written(t), tree |-> t] :
     label \in {"a", "offbeat"}}

LabelTexts == {c.text : c \in LabelCases}

LabelsAreLabels == ctl = "done" => \A c \in LabelCases : text = c.text => IsRead(c)
===============================================================================
