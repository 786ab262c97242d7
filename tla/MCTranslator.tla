----------------------------- MODULE MCTranslator -----------------------------
(***************************************************************************)
(* Small songs for TLC.  They are written as trees and numbered the way    *)
(* Translator wants them, a node before its children.                      *)
(***************************************************************************)
EXTENDS Translator

Blank == [type |-> "REST", octave |-> -1, value |-> 0, units |-> 1, duration |-> 1,
          repeat_count |-> 1, label |-> << >>, kids |-> << >>]

Leaf1(type) == [Blank EXCEPT !.type = type]

C    == Leaf1("NOTE")                                                  \* c
D3   == [Leaf1("NOTE") EXCEPT !.octave = 3, !.value = 2]               \* d3
Rst  == Leaf1("REST")                                                  \* .
Hold == Leaf1("TIE")                                                   \* -
Up   == [Leaf1("INTERVAL") EXCEPT !.value = 1]                         \* +1
Bar  == Leaf1("DIVIDER")                                               \* |
CC   == Leaf1("CONTROL")                                               \* cc1:2
Bpm90 == [Leaf1("BPM") EXCEPT !.value = 90]                            \* 90bpm
Slur(kids)  == [Leaf1("LEGATO") EXCEPT !.kids = kids]                  \* (...)
Ref(label, count) ==                                                   \* {label}x2
  [Leaf1("REFERENCE") EXCEPT !.label = label, !.repeat_count = count]
Sh(label, kids, count) ==                                              \* label:8{...}
  [Leaf1("SHEET") EXCEPT !.label = label, !.duration = 8, !.kids = kids, !.repeat_count = count]
Triplet(kids) ==                                                       \* 4as1{...}
  [Sh(<< >>, kids, 1) EXCEPT !.units = 4, !.duration = 1]

(* Slots of three ticks inside a sheet of 8.                               *)
Fine == [Sh(<< >>, <<C, Hold>>, 1) EXCEPT !.duration = 16]             \* 16{c -}

(* The nodes of a tree, numbered from n on; kids refer to numbers.         *)
RECURSIVE Number(_, _), NumberAll(_, _)
Number(tree, n) ==
  LET rest == NumberAll(tree.kids, n + 1)
  IN  << [tree EXCEPT !.kids = rest.heads] >> \o rest.nodes
NumberAll(trees, n) ==
  IF trees = << >> THEN [heads |-> << >>, nodes |-> << >>]
  ELSE LET first == Number(Head(trees), n)
           rest  == NumberAll(Tail(trees), n + Len(first))
       IN  [heads |-> << n >> \o rest.heads, nodes |-> first \o rest.nodes]

Song(statements) ==
  Number([Leaf1("CRATE") EXCEPT !.kids = statements \o << Leaf1("EOF") >>], 1)

Leaves == {C, D3, Rst, Hold, Up, CC}
Inner  == {Bar, Slur(<<C, Up>>), Slur(<<C, Hold>>), Triplet(<<C>>), Sh(<<"b">>, <<C, Hold>>, 2),
           Sh(<< >>, <<C>>, 0), Sh(<< >>, <<C>>, -1), Fine}
Counts == {-1, 0, 1, 2}

Bodies == {<<x, y>> : x \in Leaves, y \in Leaves} \cup {<<x, y>> : x \in Inner, y \in Leaves}
          \cup {<<x, y>> : x \in Leaves, y \in Inner} \cup {<<Bar>>, << >>}

First  == {Sh(<<"a">>, body, count) : body \in Bodies, count \in Counts}
Second == {Sh(<< >>, <<x>>, count) : x \in Leaves, count \in {-1, 1}}
          \cup {Ref(<<"a">>, count) : count \in Counts}
          \cup {Ref(<<"a", "b">>, 2), Bpm90, CC}

AllSongs == {Song(<<x, y>>) : x \in First, y \in Second}

(* The songs of the findings.                                              *)
OffThenTie   == {Song(<<Sh(<<"a">>, <<C, Hold>>, 0), Ref(<<"a">>, 1)>>)}           \* a:8{c -}off {a}
OffTie       == {Song(<<Sh(<< >>, <<C>>, 1), Sh(<<"a">>, <<Hold, C>>, 0)>>)}       \* 8{c} a:8{- c}off
OddLoops ==
  {Song(<<Sh(<< >>, <<C>>, 1), Sh(<< >>, <<Rst>>, -1)>>),                          \* 8{c} 8{.}loop
   Song(<<Sh(<< >>, <<C, CC>>, -1)>>)}                                             \* 8{c cc1:2}loop
==============================================================================
