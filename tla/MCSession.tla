------------------------------ MODULE MCSession ------------------------------
(***************************************************************************)
(* Short lists for TLC: without a loop, with a loop over all of the list,  *)
(* over its end, over one entry, and with two starts.                      *)
(***************************************************************************)
EXTENDS Session, TLC

Note(p) == [type |-> "NOTE", tick |-> p, duration |-> 1, key |-> 60, bpm |-> 0,
            start_loop |-> FALSE, end_loop |-> FALSE, loop_offset |-> 0]

Flat(m) == [p \in 1 .. m |-> IF p < m THEN Note(p) ELSE [Note(p) EXCEPT !.type = "USR0"]]

Ring(m, starts) ==
  [p \in 1 .. m |-> [Note(p) EXCEPT !.start_loop = p \in starts, !.end_loop = p = m,
                                    !.loop_offset = m]]

SmallPieces == {Flat(m) : m \in {1, 3}} \cup {Ring(1, {1}), Ring(4, {1}), Ring(4, {2, 3}), Ring(3, {3})}

(* A synthesiser with two ports, one without any, and another korlessa     *)
(* with a number between them.                                             *)
TheOthers == {1, 3, 4}
ThePorts == (1 :> {0, 1}) @@ (3 :> {0}) @@ (4 :> {})
==============================================================================
