--------------------------- MODULE EventListProofs ---------------------------
(***************************************************************************)
(* Facts about linked event lists, for lists of any length.                *)
(***************************************************************************)
EXTENDS EventList, WellFoundedInduction, TLAPS

(* A non-empty set of positions has a last one, so that Latest means what  *)
(* its name says.                                                          *)
LEMMA LatestExists ==
  ASSUME NEW len \in Nat, NEW S \in SUBSET (1 .. len), S # {}
  PROVE  Latest(S) \in S /\ \A q \in S : q <= Latest(S)
<1> DEFINE T == {len - p : p \in S}
<1>1. T \subseteq Nat /\ T # {}
  <2>1. \A p \in S : p \in Nat /\ len - p \in Nat
    OBVIOUS
  <2>2. PICK p \in S : TRUE
    OBVIOUS
  <2>3. len - p \in T
    OBVIOUS
  <2> QED BY <2>1, <2>3
<1>2. \E x \in T : \A y \in T : ~ (<<y, x>> \in OpToRel(<, Nat))
  <2> HIDE DEF T
  <2> QED BY <1>1, NatLessThanWellFounded, WFMin
<1>3. PICK x \in T : \A y \in T : ~ (y < x)
  BY <1>1, <1>2 DEF OpToRel
<1>4. PICK p \in S : x = len - p
  BY <1>3
<1>5. \A q \in S : q <= p
  <2> SUFFICES ASSUME NEW q \in S
               PROVE  q <= p
    OBVIOUS
  <2>1. len - q \in T
    OBVIOUS
  <2>2. ~ (len - q < len - p)
    BY <2>1, <1>3, <1>4
  <2>3. p \in Nat /\ q \in Nat
    OBVIOUS
  <2> HIDE DEF T
  <2> QED BY <2>2, <2>3
<1> QED BY <1>5 DEF Latest

(* The next pointer of an entry is NULL or points into the list.           *)
LEMMA LinkType ==
  ASSUME NEW list, Playable(list), NEW p \in Positions(list)
  PROVE  Link(list)[p] \in Positions(list) \cup {NULL}
<1>1. Len(list) \in Nat
  BY DEF Playable
<1>2. CASE Loops(list) /\ p = Latest(LoopEnds(list))
  <2>1. LoopStarts(list) \in SUBSET (1 .. Len(list)) /\ LoopStarts(list) # {}
    BY <1>2 DEF Loops, LoopStarts, Positions
  <2>2. Latest(LoopStarts(list)) \in LoopStarts(list)
    BY <1>1, <2>1, LatestExists
  <2> QED BY <1>2, <2>1, <2>2 DEF Link, Positions
<1>3. CASE ~ (Loops(list) /\ p = Latest(LoopEnds(list)))
  BY <1>1, <1>3 DEF Link, Positions
<1> QED BY <1>2, <1>3
==============================================================================
