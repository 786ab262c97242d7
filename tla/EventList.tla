------------------------------ MODULE EventList ------------------------------
(***************************************************************************)
(* The list of MIDI events that passes from the translator to the          *)
(* scheduler (translator.h), and the order in which prepare_list links it. *)
(*                                                                         *)
(* A list is a sequence of entries; a position in it stands for a pointer  *)
(* to the entry and NULL for the null pointer.  Of an event we keep its    *)
(* kind, its tick, the duration and the key of a note and the bpm of a     *)
(* tempo change.                                                           *)
(***************************************************************************)
EXTENDS Naturals, Sequences

NULL == 0

(***************************************************************************)
(* "CONTROL" stands for SND_SEQ_EVENT_CONTROLLER and                       *)
(* SND_SEQ_EVENT_PGMCHANGE, which the scheduler never tells apart.         *)
(***************************************************************************)
EventType == {"NOTE", "CONTROL", "TEMPO", "USR0"}

Entry == [type : EventType, tick : Nat, duration : Nat, key : Nat, bpm : Nat,
          start_loop : BOOLEAN, end_loop : BOOLEAN, loop_offset : Nat]

Positions(list) == 1 .. Len(list)

LoopStarts(list) == {p \in Positions(list) : list[p].start_loop}
LoopEnds(list)   == {p \in Positions(list) : list[p].end_loop}

(* The last position of a non-empty set: the walk in prepare_list keeps    *)
(* overwriting loop_start and loop_end, so the last flagged entry wins.    *)
Latest(S) == CHOOSE p \in S : \A q \in S : q <= p

Loops(list) == LoopStarts(list) # {} /\ LoopEnds(list) # {}

(* Mutant: prepare_list closes no loop.                                    *)
LinkForward(list) == [p \in Positions(list) |-> IF p < Len(list) THEN p + 1 ELSE NULL]

(* The next pointer of every entry once prepare_list has run.              *)
Link(list) ==
  [p \in Positions(list) |->
     IF Loops(list) /\ p = Latest(LoopEnds(list)) THEN Latest(LoopStarts(list))
     ELSE IF p < Len(list) THEN p + 1
     ELSE NULL]

(***************************************************************************)
(* What the scheduler relies on.  The list is not empty and in tick order; *)
(* at most its last entry ends a loop (free_after_loop cuts the list       *)
(* there); it ends either with the closing USR0 or with the end of a loop  *)
(* that has a start; and the second pass through the loop does not begin   *)
(* before the first one is over.                                           *)
(***************************************************************************)
Playable(list) ==
  /\ list \in Seq(Entry)
  /\ list # <<>>
  /\ \A p, q \in Positions(list) : p < q => list[p].tick <= list[q].tick
  /\ \A p \in Positions(list) :
       /\ list[p].end_loop => p = Len(list)
       /\ list[p].type = "USR0" => p = Len(list)
  /\ \/ list[Len(list)].type = "USR0" /\ ~ list[Len(list)].end_loop
     \/ /\ list[Len(list)].type # "USR0" /\ list[Len(list)].end_loop
        /\ LoopStarts(list) # {}
        /\ list[Latest(LoopStarts(list))].tick + list[Len(list)].loop_offset
             >= list[Len(list)].tick
==============================================================================
