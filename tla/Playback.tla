------------------------------- MODULE Playback -------------------------------
(***************************************************************************)
(* What korlessa promises to the person listening: the events of the       *)
(* piece are performed in the order of the list, each exactly once per     *)
(* pass, a loop starts over where it began, and playing finishes of its    *)
(* own accord only when there is nothing left to perform.  Ctrl+C or a     *)
(* failure may abort it at any point.                                      *)
(***************************************************************************)
EXTENDS EventList

CONSTANT Pieces            \* the lists that may be played

VARIABLES
  list,                    \* the piece
  at,                      \* position of the event performed last, or NULL
  outcome                  \* "playing", "finished" or "aborted"

vars == <<list, at, outcome>>

(* The event to perform after the one at position p.                       *)
Successor(l, p) == IF p = NULL THEN 1 ELSE Link(l)[p]

Init ==
  /\ list \in Pieces
  /\ at = NULL
  /\ outcome = "playing"

Perform ==
  /\ outcome = "playing"
  /\ Successor(list, at) # NULL
  /\ at' = Successor(list, at)
  /\ UNCHANGED <<list, outcome>>

Finish ==
  /\ outcome = "playing"
  /\ at # NULL
  /\ Successor(list, at) = NULL
  /\ outcome' = "finished"
  /\ UNCHANGED <<list, at>>

Abort ==
  /\ outcome = "playing"
  /\ outcome' = "aborted"
  /\ UNCHANGED <<list, at>>

Step == Perform \/ Finish \/ Abort

Spec == Init /\ [][Step]_vars

(* Playing never stalls: while there is something to perform, it goes on.  *)
Fairness == WF_vars(Perform) /\ WF_vars(Finish)

FairSpec == Spec /\ Fairness
===============================================================================
