----------------------------- MODULE MCScheduler -----------------------------
(***************************************************************************)
(* Small pieces for TLC: notes of equal length, with the other events of   *)
(* the scheduler's switch at chosen places.                                *)
(***************************************************************************)
EXTENDS Scheduler

Blank == [type |-> "NOTE", tick |-> 0, duration |-> 0, key |-> 60, bpm |-> 0,
          start_loop |-> FALSE, end_loop |-> FALSE, loop_offset |-> 0]

Note(t, d)  == [Blank EXCEPT !.tick = t, !.duration = d]
Control(t)  == [Blank EXCEPT !.type = "CONTROL", !.tick = t]
Tempo(t, b) == [Blank EXCEPT !.type = "TEMPO", !.tick = t, !.bpm = b]
Eof(t)      == [Blank EXCEPT !.type = "USR0", !.tick = t]

LoopFrom(e)     == [e EXCEPT !.start_loop = TRUE]
LoopBack(e, by) == [e EXCEPT !.end_loop = TRUE, !.loop_offset = by]

(* m notes of length 2, d ticks long, then the end of the piece.           *)
Melody(m, d) == [p \in 1 .. m + 1 |-> IF p <= m THEN Note(2 * (p - 1), d) ELSE Eof(2 * m)]

(* m notes of which those from s on are looped.                            *)
Looped(m, s) ==
  [p \in 1 .. m |->
     LET e == Note(2 * (p - 1), 1)
         f == IF p = s THEN LoopFrom(e) ELSE e
     IN  IF p = m THEN LoopBack(f, 2 * (m - s + 1)) ELSE f]

(* Legato notes, controllers and tempo changes on the tick of a note.      *)
Mixed == << Tempo(0, 100), Control(0), Note(0, 3), Note(2, 3), Tempo(4, 60),
            Note(4, 1), Control(6), Note(6, 1), Eof(8) >>

MixedLoop == << Tempo(0, 100), LoopFrom(Control(0)), Note(0, 1), Tempo(2, 60),
                LoopBack(Note(2, 1), 4) >>

(* Two loops start; the last one wins (prepare_list).                      *)
Nested == << LoopFrom(Note(0, 1)), LoopFrom(Note(2, 1)), LoopBack(Note(4, 1), 4) >>

FinitePieces == {Melody(m, 1) : m \in {0, 1, 3, 8}} \cup {Melody(9, 3), Mixed}
LoopedPieces == {Looped(1, 1), Looped(3, 2), Looped(4, 1), MixedLoop, Nested}
AllPieces    == FinitePieces \cup LoopedPieces
==============================================================================
