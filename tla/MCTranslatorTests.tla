-------------------------- MODULE MCTranslatorTests --------------------------
(***************************************************************************)
(* The songs of tests/translator_test.c with the events it expects.        *)
(***************************************************************************)
EXTENDS MCTranslator

D == [C EXCEPT !.value = 2]
E == [C EXCEPT !.value = 4]
F == [C EXCEPT !.value = 5]

None == << >>
Plain(kids)        == Sh(None, kids, 1)                              \* 8{...}
Loop(kids)         == Sh(None, kids, -1)                             \* 8{...}loop
Inside(d, sheet)   == [sheet EXCEPT !.duration = d]

N(t, d, k) == [type |-> "NOTE", tick |-> t, duration |-> d, key |-> k, bpm |-> 0,
               start_loop |-> FALSE, end_loop |-> FALSE, loop_offset |-> 0]
End(t)       == [N(t, 0, 0) EXCEPT !.type = "USR0"]
From(e)      == [e EXCEPT !.start_loop = TRUE]
Back(e, by)  == [e EXCEPT !.end_loop = TRUE, !.loop_offset = by]

Case(statements, expected) == [song |-> Song(statements), expected |-> expected]

(* The printed form of an event leaves loop_offset out; the ones below are *)
(* the lengths of the looped sheets.                                       *)
LoopCases == {
  Case(<<Loop(<<Rst>>)>>, <<End(48)>>),
  Case(<<Loop(<<C>>)>>, <<Back(From(N(0, 44, 60)), 48)>>),
  Case(<<Loop(<<C, D>>)>>, <<From(N(0, 44, 60)), Back(N(48, 44, 62), 96)>>),
  Case(<<Loop(<<C, Inside(2, Plain(<<D, E>>))>>)>>,
       <<From(N(0, 44, 60)), N(48, 20, 62), Back(N(72, 20, 64), 96)>>),
  Case(<<Loop(<<Inside(2, Plain(<<C, D>>)), Inside(2, Plain(<<E, F>>))>>)>>,
       <<From(N(0, 20, 60)), N(24, 20, 62), N(48, 20, 64), Back(N(72, 20, 65), 96)>>),
  Case(<<Loop(<<C>>), Inside(4, Plain(<<D>>))>>, <<Back(From(N(0, 44, 60)), 48)>>),
  Case(<<Loop(<<C, Rst>>)>>, <<Back(From(N(0, 44, 60)), 96)>>),
  Case(<<Loop(<<C, Up>>)>>, <<From(N(0, 44, 60)), Back(N(48, 44, 61), 96)>>),
  Case(<<Loop(<<C, Up, Rst>>)>>, <<From(N(0, 44, 60)), Back(N(48, 44, 61), 144)>>),
  Case(<<Loop(<<Rst, C, Rst>>)>>, <<Back(From(N(48, 44, 60)), 144)>>) }

OffCases == {
  Case(<<Sh(None, <<C>>, 0)>>, <<End(0)>>),
  Case(<<Sh(<<"label">>, <<C>>, 0), Ref(<<"label">>, 1)>>, <<N(0, 44, 60), End(48)>>),
  Case(<<Plain(<<C>>), Sh(<<"label">>, <<C>>, 0), Ref(<<"label">>, 1)>>,
       <<N(0, 44, 60), N(48, 44, 60), End(96)>>),
  Case(<<Sh(None, <<Inside(1, Sh(<<"label">>, <<C>>, 1))>>, 0), Ref(<<"label">>, 1)>>,
       <<N(0, 44, 60), End(48)>>),
  Case(<<Sh(<<"main">>, <<Inside(1, Sh(<<"label">>, <<C>>, 1))>>, 0), Ref(<<"main", "label">>, 1)>>,
       <<N(0, 44, 60), End(48)>>) }

TieCases == {
  Case(<<Plain(<<C, Up>>)>>, <<N(0, 44, 60), N(48, 44, 61), End(96)>>),
  Case(<<Plain(<<C, Up, Hold>>)>>, <<N(0, 44, 60), N(48, 92, 61), End(144)>>),
  Case(<<Plain(<<C, Up, Rst>>)>>, <<N(0, 44, 60), N(48, 44, 61), End(144)>>),
  Case(<<Plain(<<C, Rst, Up>>)>>, <<N(0, 44, 60), N(96, 44, 61), End(144)>>),
  Case(<<Plain(<<C, Hold>>)>>, <<N(0, 92, 60), End(96)>>),
  Case(<<Plain(<<C, Rst, Hold>>)>>, <<N(0, 44, 60), End(144)>>) }

Cases == LoopCases \cup OffCases \cup TieCases

AllSongsAndTests == AllSongs \cup {c.song : c \in Cases}

(* The tree of a case, but for the octaves the translation has filled in.  *)
IsTreeOf(c) ==
  /\ Len(ast) = Len(c.song)
  /\ \A n \in 1 .. Len(ast) : [ast[n] EXCEPT !.octave = 0] = [c.song[n] EXCEPT !.octave = 0]

(* translate() gives what test_loop, test_off and test_interval_and_tie    *)
(* expect.                                                                 *)
TestsPass == mode = "done" => \A c \in Cases : IsTreeOf(c) => Result = c.expected
==============================================================================
