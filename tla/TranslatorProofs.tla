--------------------------- MODULE TranslatorProofs ---------------------------
(***************************************************************************)
(* translate() for songs of any size, nested to any depth: its lists and   *)
(* frames; that what it returns is what the scheduler relies on            *)
(* (Playable); and the context of the translator: divider, namespace and   *)
(* flags, and the tone played last.                                        *)
(***************************************************************************)
EXTENDS Translator, EventListProofs, FiniteSetTheorems, SequenceTheorems, TLAPS

(***************************************************************************)
(* The numbers.                                                            *)
(***************************************************************************)
LEMMA Quotient ==
  ASSUME NEW x \in Nat, NEW y \in Nat \ {0}
  PROVE  x \div y \in Nat
OBVIOUS

LEMMA Product ==
  ASSUME NEW x \in Nat \ {0}, NEW y \in Nat \ {0}
  PROVE  x * y \in Nat \ {0}
OBVIOUS

LEMMA Remainder ==
  ASSUME NEW x \in Int, NEW y \in Nat \ {0}
  PROVE  x % y \in Nat
OBVIOUS

(* A sequence some elements of which are replaced.                         *)
LEMMA SameLength ==
  ASSUME NEW S, NEW s \in Seq(S), NEW t, t = [x \in DOMAIN s |-> t[x]],
         \A x \in 1 .. Len(s) : t[x] \in S
  PROVE  t \in Seq(S) /\ Len(t) = Len(s)
<1>1. DOMAIN s = 1 .. Len(s) /\ Len(s) \in Nat
  OBVIOUS
<1>2. t \in [1 .. Len(s) -> S]
  BY <1>1
<1> QED BY <1>1, <1>2

LEMMA FrontFacts ==
  ASSUME NEW S, NEW s \in Seq(S), s # << >>
  PROVE  LET front == SubSeq(s, 1, Len(s) - 1)
         IN  /\ front \in Seq(S) /\ Len(front) = Len(s) - 1
             /\ \A x \in 1 .. Len(s) - 1 : front[x] = s[x]
<1> DEFINE m == Len(s) - 1
<1>1. m \in Nat /\ \A x \in 1 .. m : s[x] \in S
  OBVIOUS
<1> HIDE DEF m
<1> DEFINE front == SubSeq(s, 1, m)
<1>2. /\ front \in Seq(S) /\ Len(front) = IF 1 <= m THEN m - 1 + 1 ELSE 0
      /\ \A x \in 1 .. m - 1 + 1 : front[x] = s[1 + x - 1]
  BY <1>1, SubSeqProperties
<1> HIDE DEF front
<1>3. Len(front) = m /\ \A x \in 1 .. m : front[x] = s[x]
  BY <1>1, <1>2
<1> QED BY <1>2, <1>3 DEF front, m

LEMMA SlotFacts ==
  ASSUME TypeOK
  PROVE  Slot \in Nat /\ Sounding \in Nat
<1>1. divider[1] \in Nat \ {0} /\ divider[2] \in Nat \ {0}
  BY DEF TypeOK, Divisions
<1>2. PULSE_PER_QUARTER * 4 \in Nat \ {0}
  BY NumbersAssumption
<1>3. (PULSE_PER_QUARTER * 4) * divider[2] \in Nat
  BY <1>1, <1>2, Product
<1>4. Slot \in Nat
  BY <1>1, <1>3, Quotient DEF Slot
<1>5. (Slot + WordSize - 4) % WordSize \in Nat
  BY <1>4, NumbersAssumption, Remainder
<1> QED BY <1>4, <1>5 DEF Sounding

(***************************************************************************)
(* What the type invariant rests on: while frames look for their next      *)
(* child there is one and no part is in hand; a dry run keeps nothing; the *)
(* place in the children exists; and no frame was opened at a later offset *)
(* than the frames above it, so that a loop is never of negative length.   *)
(***************************************************************************)
FramesInv ==
  /\ mode = "loop" => stack # << >>
  /\ mode \in {"loop", "call"} => part = << >>
  /\ \A d \in 1 .. Len(stack) :
       /\ stack[d].dry => stack[d].list = << >>
       /\ Kids(stack[d]) # << >> => stack[d].j <= Len(Kids(stack[d]))
       /\ stack[d].old_offset <= offset
       /\ \A e \in d .. Len(stack) : stack[d].old_offset <= stack[e].old_offset

TypeInv == TypeOK /\ FramesInv

LEMMA InitTypeInv == Init => TypeInv
<1> SUFFICES ASSUME Init
             PROVE  TypeInv
  OBVIOUS
<1>1. IsSong(ast) /\ ast \in Seq(Node(Len(ast))) /\ ast # << >>
  BY SongsAssumption DEF Init, IsSong
<1>2. 1 \in 1 .. Len(ast)
  <2> DEFINE S == Node(Len(ast))
  <2>1. ast \in Seq(S) /\ ast # << >>
    BY <1>1
  <2> HIDE DEF S
  <2> QED BY <2>1
<1>3. divider \in Divisions
  BY DEF Init, Divisions
<1>4. /\ heap \in Seq(Entry) /\ part \in Seq(Pointers) /\ stack \in Seq(Frame)
      /\ namespace \in Seq(STRING) /\ sheets \in Seq(SheetEntry)
  BY DEF Init
<1>5. TypeOK
  BY <1>1, <1>2, <1>3, <1>4 DEF Init, TypeOK, NULL
<1> QED BY <1>5 DEF Init, TypeInv, FramesInv

(***************************************************************************)
(* The leaves of the tree.  All they have in common is said here once: the *)
(* tree keeps its shape, time does not go back, and at most one event is   *)
(* allocated, at the current offset, and returned.                         *)
(***************************************************************************)
SameTree ==
  /\ Len(ast') = Len(ast) /\ IsSong(ast')
  /\ \A n \in 1 .. Len(ast) : /\ ast'[n].type = ast[n].type
                              /\ ast'[n].kids = ast[n].kids
                              /\ ast'[n].label = ast[n].label

Fresh(event) == event \in Entry /\ event.tick = offset /\ ~ event.start_loop /\ ~ event.end_loop

Allocates ==
  \E event : /\ Fresh(event)
             /\ event.type = "USR0" <=> ast[arg].type = "EOF"
             /\ heap' = Append(heap, event)
             /\ live' = live \cup {Len(heap) + 1}
             /\ part' = <<Len(heap) + 1>>

(* The events are those there were, and sound when they did.               *)
SameEvents ==
  /\ heap' \in Seq(Entry) /\ Len(heap') = Len(heap)
  /\ \A e \in Pointers : heap'[e].tick = heap[e].tick /\ heap'[e].type = heap[e].type

SameLoops ==
  \A e \in Pointers : /\ heap'[e].start_loop = heap[e].start_loop
                      /\ heap'[e].end_loop = heap[e].end_loop
                      /\ heap'[e].loop_offset = heap[e].loop_offset

AllocatesNothing ==
  SameEvents /\ SameLoops /\ ast[arg].type # "EOF" /\ live' = live /\ part' = << >>

(* The tone before may become the new one, which is a note.                *)
SameTone == prev_tone' = prev_tone

NewTone == Allocates /\ prev_tone' = Len(heap) + 1 /\ heap'[Len(heap) + 1].type = "NOTE"

LeafEffect ==
  /\ mode = "call" /\ mode' = "return"
  /\ ast[arg].type # "CRATE"
  /\ UNCHANGED <<stack, arg, sheets, namespace, divider, referencing, legato>>
  /\ SameTree
  /\ offset' \in Nat /\ offset <= offset'
  /\ octave' \in Nat /\ did_rest' \in BOOLEAN
  /\ Allocates \/ AllocatesNothing
  /\ last_note' \in Pointers' \cup {NULL} /\ prev_tone' \in Pointers' \cup {NULL}
  /\ SameTone \/ NewTone
  /\ stale \subseteq stale' /\ stale' \subseteq Pointers
  /\ stray \subseteq stray' /\ stray' \subseteq Pointers

LEMMA EventFacts ==
  ASSUME TypeOK
  PROVE  /\ Fresh(Event)
         /\ \A key \in Nat, d \in Nat :
              LET e == [Event EXCEPT !.key = key, !.duration = d]
              IN  Fresh(e) /\ e.type = "NOTE"
         /\ \A type \in EventType, bpm \in Nat :
              LET e == [Event EXCEPT !.type = type, !.bpm = bpm]
              IN  Fresh(e) /\ e.type = type
         /\ \A type \in EventType :
              LET e == [Event EXCEPT !.type = type]
              IN  Fresh(e) /\ e.type = type
BY DEF TypeOK, Event, Entry, EventType, Fresh

LEMMA TreeFacts ==
  ASSUME TypeOK, NEW n \in 1 .. Len(ast)
  PROVE  /\ ast[n] \in Node(Len(ast))
         /\ ast[n].type = "BPM" => ast[n].value \in Nat
         /\ ast[n].type = "CRATE" <=> n = 1
         /\ ast[n].type = "SHEET" => Len(ast[n].label) <= 1
         /\ ast[n].type = "LEGATO" => ast[n].kids # << >>
         /\ \A k \in 1 .. Len(ast[n].kids) :
              /\ ast[ast[n].kids[k]].type \in Elements(ast[n].type)
              /\ ast[ast[n].kids[k]].type = "EOF" <=> n = 1 /\ k = Len(ast[1].kids)
         /\ ast[n].value \in Int
         /\ ast[n].kids \in Seq(2 .. Len(ast))
         /\ ast[n].repeat_count \in Int
         /\ ast[n].label \in Seq(STRING)
         /\ ast[n].units \in Nat \ {0} /\ ast[n].duration \in Nat \ {0}
         /\ ast[n].octave \in Nat \cup {-1}
<1>1. /\ ast \in Seq(Node(Len(ast)))
      /\ ast[n].type = "BPM" => ast[n].value \in Nat
      /\ ast[n].type = "CRATE" <=> n = 1
      /\ ast[n].type = "SHEET" => Len(ast[n].label) <= 1
      /\ ast[n].type = "LEGATO" => ast[n].kids # << >>
      /\ \A k \in 1 .. Len(ast[n].kids) :
           /\ ast[ast[n].kids[k]].type \in Elements(ast[n].type)
           /\ ast[ast[n].kids[k]].type = "EOF" <=> n = 1 /\ k = Len(ast[1].kids)
  BY DEF TypeOK, IsSong
<1>2. ast[n] \in Node(Len(ast))
  BY <1>1
<1> QED BY <1>1, <1>2 DEF Node

LEMMA KeyFacts ==
  /\ \A k \in Int : Key(k) \in Nat
  /\ \A k \in Nat, by \in Int : Moved(k, by) \in Nat
<1>1. \A k \in Int : Key(k) \in Nat
  BY Remainder DEF Key
<1> QED BY <1>1 DEF Moved

LEMMA SameTreeFacts ==
  ASSUME TypeOK, ast' = ast
  PROVE  SameTree
BY DEF SameTree, TypeOK, IsSong

LEMMA SameEventsFacts ==
  ASSUME TypeOK, heap' = heap
  PROVE  SameEvents /\ SameLoops /\ Pointers' = Pointers
BY DEF SameEvents, SameLoops, TypeOK, Pointers

LEMMA ReturnNewFacts ==
  ASSUME TypeOK, NEW event, Fresh(event), event.type = "USR0" <=> ast[arg].type = "EOF",
         ReturnNew(event)
  PROVE  /\ Allocates /\ mode' = "return" /\ UNCHANGED <<stack, arg>>
         /\ Pointers \subseteq Pointers' /\ Len(heap) + 1 \in Pointers'
         /\ heap'[Len(heap) + 1] = event
<1>1. heap \in Seq(Entry) /\ heap' = Append(heap, event) /\ event \in Entry
  BY DEF TypeOK, ReturnNew, Fresh
<1>2. Len(heap') = Len(heap) + 1 /\ Len(heap) \in Nat /\ heap'[Len(heap) + 1] = event
  BY <1>1
<1> QED BY <1>2 DEF ReturnNew, Return, Allocates, Pointers

LEMMA NoteEffect ==
  ASSUME TypeInv, Note
  PROVE  LeafEffect
<1>1. TypeOK /\ arg \in 1 .. Len(ast) /\ octave \in Nat /\ offset \in Nat
  BY DEF TypeInv, TypeOK
<1>2. octave' \in Nat
  BY <1>1, TreeFacts DEF Note, OctaveOf
<1> DEFINE e == [Event EXCEPT !.key = Key(12 * octave' + ast[arg].value),
                              !.duration = Sounding]
<1>3. Fresh(e) /\ e.type = "NOTE"
  <2>1. 12 * octave' + ast[arg].value \in Int
    BY <1>1, <1>2, TreeFacts
  <2>2. Key(12 * octave' + ast[arg].value) \in Nat /\ Sounding \in Nat
    BY <1>1, <2>1, KeyFacts, SlotFacts
  <2> QED BY <1>1, <2>2, EventFacts
<1>4. ReturnNew(e)
  BY DEF Note
<1>5. /\ Allocates /\ mode' = "return" /\ UNCHANGED <<stack, arg>>
      /\ Pointers \subseteq Pointers' /\ Len(heap) + 1 \in Pointers'
      /\ heap'[Len(heap) + 1].type = "NOTE"
  <2>1. ast[arg].type # "EOF"
    BY DEF Note, Interval, Called
  <2> HIDE DEF e
  <2> QED BY <1>1, <1>3, <1>4, <2>1, ReturnNewFacts
<1>6. SameTree
  <2> DEFINE S == Node(Len(ast))
  <2>1. ast \in Seq(S) /\ ast' = [ast EXCEPT ![arg].octave = octave']
    BY <1>1 DEF Note, TypeOK, IsSong
  <2>2. \A n \in 1 .. Len(ast) : ast[n] \in S
    BY <2>1
  <2>3. \A n \in 1 .. Len(ast) : /\ ast'[n].type = ast[n].type
                                 /\ ast'[n].kids = ast[n].kids
                                 /\ ast'[n].value = ast[n].value
                                 /\ ast'[n].label = ast[n].label
                                 /\ ast[n].kids \in Seq(2 .. Len(ast))
                                 /\ ast'[n] \in S
    <3> TAKE n \in 1 .. Len(ast)
    <3>1. ast[n] \in S
      BY <2>2
    <3>2. ast'[n] = IF n = arg THEN [ast[n] EXCEPT !.octave = octave'] ELSE ast[n]
      BY <2>1
    <3> QED BY <3>1, <3>2, <1>2 DEF Node
  <2>4. ast' \in Seq(S) /\ Len(ast') = Len(ast)
    <3>1. ast' = [n \in DOMAIN ast |-> ast'[n]]
      BY <2>1
    <3>2. ast \in Seq(S) /\ \A n \in 1 .. Len(ast) : ast'[n] \in S
      BY <2>1, <2>3
    <3> HIDE DEF S
    <3> QED BY <3>1, <3>2, SameLength
  <2>5. ast' # << >>
    <3> HIDE DEF S
    <3>1. Len(ast) # 0
      BY <1>1, <2>1
    <3> QED BY <2>4, <3>1
  <2>6. ast'[1].kids # << >> /\ 1 \in 1 .. Len(ast)
    <3>1. ast[1].kids # << >> /\ 1 \in 1 .. Len(ast)
      BY <1>1 DEF TypeOK, IsSong
    <3> QED BY <2>3, <3>1
  <2>7. ASSUME NEW n \in 1 .. Len(ast')
        PROVE  /\ ast'[n].type = "BPM" => ast'[n].value \in Nat
               /\ ast'[n].type = "CRATE" <=> n = 1
               /\ ast'[n].type = "SHEET" => Len(ast'[n].label) <= 1
               /\ ast'[n].type = "LEGATO" => ast'[n].kids # << >>
               /\ \A k \in 1 .. Len(ast'[n].kids) :
                    /\ ast'[ast'[n].kids[k]].type \in Elements(ast'[n].type)
                    /\ ast'[ast'[n].kids[k]].type = "EOF" <=> n = 1 /\ k = Len(ast'[1].kids)
    <3>1. /\ n \in 1 .. Len(ast) /\ ast'[n].type = ast[n].type /\ ast'[n].value = ast[n].value
          /\ ast'[n].label = ast[n].label
          /\ ast'[n].kids = ast[n].kids /\ ast'[1].kids = ast[1].kids
      BY <2>3, <2>4, <2>6
    <3>2. \A k \in 1 .. Len(ast[n].kids) :
            /\ ast'[ast[n].kids[k]].type = ast[ast[n].kids[k]].type
            /\ ast[ast[n].kids[k]].type \in Elements(ast[n].type)
            /\ ast[ast[n].kids[k]].type = "EOF" <=> n = 1 /\ k = Len(ast[1].kids)
      <4> TAKE k \in 1 .. Len(ast[n].kids)
      <4>1. ast[n].kids \in Seq(2 .. Len(ast))
        BY <2>3, <3>1
      <4>2. ast[n].kids[k] \in 1 .. Len(ast)
        BY <4>1
      <4>3. ast'[ast[n].kids[k]].type = ast[ast[n].kids[k]].type
        BY <2>3, <4>2
      <4>4. /\ ast[ast[n].kids[k]].type \in Elements(ast[n].type)
            /\ ast[ast[n].kids[k]].type = "EOF" <=> n = 1 /\ k = Len(ast[1].kids)
        BY <1>1, <3>1, TreeFacts
      <4> QED BY <4>3, <4>4
    <3>3. /\ ast[n].type = "BPM" => ast[n].value \in Nat
          /\ ast[n].type = "CRATE" <=> n = 1
          /\ ast[n].type = "SHEET" => Len(ast[n].label) <= 1
          /\ ast[n].type = "LEGATO" => ast[n].kids # << >>
      BY <1>1, <3>1, TreeFacts
    <3> QED BY <3>1, <3>2, <3>3
  <2> QED BY <2>3, <2>4, <2>5, <2>6, <2>7 DEF SameTree, IsSong
<1>7. offset' \in Nat /\ offset <= offset'
  BY <1>1, SlotFacts DEF Note
<1>8. last_note' \in Pointers' /\ prev_tone' \in Pointers' /\ NewTone
  BY <1>5 DEF Note, NewTone
<1>9. UNCHANGED <<stale, stray>> /\ stale \subseteq Pointers /\ stray \subseteq Pointers
  BY <1>1 DEF Note, TypeOK, history
<1> QED BY <1>2, <1>5, <1>6, <1>7, <1>8, <1>9 DEF LeafEffect, Note, Called, history

LEMMA IntervalEffect ==
  ASSUME TypeInv, Interval
  PROVE  LeafEffect
<1>1. TypeOK /\ arg \in 1 .. Len(ast) /\ octave \in Nat /\ offset \in Nat
  BY DEF TypeInv, TypeOK
<1>2. last_note \in Pointers /\ heap \in Seq(Entry)
  BY <1>1 DEF TypeOK, Interval
<1> DEFINE e == [Event EXCEPT !.key = Moved(heap[last_note].key, ast[arg].value),
                              !.duration = Sounding]
<1>3. Fresh(e) /\ e.type = "NOTE"
  <2>1. heap[last_note] \in Entry
    BY <1>2 DEF Pointers
  <2>2. heap[last_note].key \in Nat
    BY <2>1 DEF Entry
  <2> QED BY <1>1, <2>2, TreeFacts, KeyFacts, SlotFacts, EventFacts
<1>4. ReturnNew(e)
  BY DEF Interval
<1>5. /\ Allocates /\ mode' = "return" /\ UNCHANGED <<stack, arg>>
      /\ Pointers \subseteq Pointers' /\ Len(heap) + 1 \in Pointers'
      /\ heap'[Len(heap) + 1].type = "NOTE"
  <2>1. ast[arg].type # "EOF"
    BY DEF Note, Interval, Called
  <2> HIDE DEF e
  <2> QED BY <1>1, <1>3, <1>4, <2>1, ReturnNewFacts
<1>6. SameTree
  BY <1>1, SameTreeFacts DEF Interval
<1>7. offset' \in Nat /\ offset <= offset'
  BY <1>1, SlotFacts DEF Interval
<1>8. last_note' \in Pointers' /\ prev_tone' \in Pointers' /\ NewTone
  BY <1>2, <1>5 DEF Interval, NewTone
<1>9. /\ stale \subseteq stale' /\ stale' \subseteq Pointers
      /\ stray' = stray /\ stray \subseteq Pointers
  BY <1>1, <1>2 DEF Interval, TypeOK, Touch
<1> QED BY <1>1, <1>5, <1>6, <1>7, <1>8, <1>9 DEF LeafEffect, Interval, Called

LEMMA TieEffect ==
  ASSUME TypeInv, Tie
  PROVE  LeafEffect
<1>1. TypeOK /\ arg \in 1 .. Len(ast) /\ octave \in Nat /\ offset \in Nat
  BY DEF TypeInv, TypeOK
<1>2. offset' \in Nat /\ offset <= offset'
  BY <1>1, SlotFacts DEF Tie
<1>3. /\ SameEvents /\ SameLoops
      /\ stale \subseteq stale' /\ stale' \subseteq Pointers
      /\ stray \subseteq stray' /\ stray' \subseteq Pointers
  <2>1. CASE prev_tone # NULL /\ ~ did_rest
    <3>1. prev_tone \in Pointers /\ heap \in Seq(Entry)
      BY <1>1, <2>1 DEF TypeOK
    <3>2. heap' = [heap EXCEPT ![prev_tone].duration = (@ + Slot) % WordSize]
      BY <2>1 DEF Tie
    <3>3. heap[prev_tone] \in Entry /\ (heap[prev_tone].duration + Slot) % WordSize \in Nat
      <4>1. heap[prev_tone] \in Entry
        BY <3>1 DEF Pointers
      <4>2. heap[prev_tone].duration + Slot \in Int
        BY <4>1, <1>1, SlotFacts DEF Entry
      <4>3. WordSize \in Nat \ {0}
        BY NumbersAssumption
      <4> QED BY <4>1, <4>2, <4>3, Remainder
    <3>4. \A e \in 1 .. Len(heap) :
            /\ heap'[e] \in Entry /\ heap'[e].tick = heap[e].tick /\ heap'[e].type = heap[e].type
            /\ heap'[e].start_loop = heap[e].start_loop /\ heap'[e].end_loop = heap[e].end_loop
            /\ heap'[e].loop_offset = heap[e].loop_offset
      <4> TAKE e \in 1 .. Len(heap)
      <4>1. heap[e] \in Entry
        BY <3>1
      <4>2. heap'[e] = IF e = prev_tone
                       THEN [heap[e] EXCEPT !.duration = (@ + Slot) % WordSize] ELSE heap[e]
        BY <3>1, <3>2
      <4> QED BY <3>3, <4>1, <4>2 DEF Entry
    <3>5. heap' \in Seq(Entry) /\ Len(heap') = Len(heap)
      <4>1. heap' = [e \in DOMAIN heap |-> heap'[e]]
        BY <3>2
      <4> QED BY <3>1, <3>4, <4>1, SameLength
    <3>6. /\ stale \subseteq stale' /\ stale' \subseteq Pointers
          /\ stray \subseteq stray' /\ stray' \subseteq Pointers
      BY <2>1, <3>1, <1>1 DEF Tie, Touch, TypeOK
    <3> QED BY <3>4, <3>5, <3>6 DEF SameEvents, SameLoops, Pointers
  <2>2. CASE ~ (prev_tone # NULL /\ ~ did_rest)
    <3>1. heap' = heap /\ stale' = stale /\ stray' = stray
      BY <2>2 DEF Tie, history
    <3> QED BY <1>1, <3>1, SameEventsFacts DEF TypeOK
  <2> QED BY <2>1, <2>2
<1>4. Pointers' = Pointers
  BY <1>3 DEF SameEvents, Pointers
<1>5. SameTree
  BY <1>1, SameTreeFacts DEF Tie
<1>6. AllocatesNothing
  BY <1>3 DEF AllocatesNothing, Tie, Called, Return
<1> QED BY <1>1, <1>2, <1>3, <1>4, <1>5, <1>6 DEF LeafEffect, Tie, Called, Return, TypeOK, SameTone

(* Those that allocate an event and do nothing else.                       *)
LEMMA EventEffect ==
  ASSUME TypeInv, Bpm \/ Control \/ Eof
  PROVE  LeafEffect
<1>1. TypeOK /\ arg \in 1 .. Len(ast) /\ offset \in Nat
  BY DEF TypeInv, TypeOK
<1>2. \E e : /\ Fresh(e) /\ (e.type = "USR0" <=> ast[arg].type = "EOF")
             /\ ReturnNew(e)
  <2>1. CASE Bpm
    <3>1. ast[arg].value \in Nat
      BY <1>1, <2>1, TreeFacts DEF Bpm, Called
    <3>2. "TEMPO" \in EventType
      BY DEF EventType
    <3> QED BY <1>1, <2>1, <3>1, <3>2, EventFacts DEF Bpm, Called
  <2>2. CASE Control
    <3>1. "CONTROL" \in EventType
      BY DEF EventType
    <3> QED BY <1>1, <2>2, <3>1, EventFacts DEF Control, Called
  <2>3. CASE Eof
    <3>1. "USR0" \in EventType
      BY DEF EventType
    <3> QED BY <1>1, <2>3, <3>1, EventFacts DEF Eof, Called
  <2> QED BY <2>1, <2>2, <2>3
<1>3. /\ Allocates /\ mode' = "return" /\ UNCHANGED <<stack, arg>>
      /\ Pointers \subseteq Pointers'
  BY <1>1, <1>2, ReturnNewFacts
<1>4. ast' = ast /\ UNCHANGED context /\ UNCHANGED history /\ mode = "call"
      /\ ast[arg].type # "CRATE"
  BY DEF Bpm, Control, Eof, Called
<1>5. SameTree
  BY <1>1, <1>4, SameTreeFacts
<1> QED BY <1>1, <1>3, <1>4, <1>5 DEF LeafEffect, SameTone, context, history, TypeOK

(* Those that allocate none.                                               *)
LEMMA SilentEffect ==
  ASSUME TypeInv, IntervalWithoutNote \/ Rest \/ Divider \/ ReferenceUnknown
  PROVE  LeafEffect
<1>1. TypeOK /\ offset \in Nat /\ Slot \in Nat
  BY SlotFacts DEF TypeInv, TypeOK
<1>2. /\ mode = "call" /\ mode' = "return" /\ UNCHANGED <<stack, arg>>
      /\ part' = << >> /\ heap' = heap /\ live' = live /\ ast' = ast
      /\ UNCHANGED <<octave, sheets, namespace, divider, last_note, prev_tone, referencing,
                     legato, stale, stray>>
      /\ did_rest' \in {TRUE, did_rest}
      /\ offset' \in {offset, offset + Slot}
      /\ ast[arg].type \notin {"CRATE", "EOF"}
  BY DEF IntervalWithoutNote, Rest, Divider, ReferenceUnknown, Called, Return, memory, context,
         history
<1>3. SameEvents /\ SameLoops /\ Pointers' = Pointers /\ SameTree
  BY <1>1, <1>2, SameEventsFacts, SameTreeFacts
<1>4. did_rest' \in BOOLEAN /\ octave' \in Nat /\ stale' \subseteq Pointers /\ stray' \subseteq Pointers
      /\ last_note' \in Pointers \cup {NULL} /\ prev_tone' \in Pointers \cup {NULL}
  BY <1>1, <1>2 DEF TypeOK
<1>5. offset' \in Nat /\ offset <= offset'
  BY <1>1, <1>2
<1> QED BY <1>2, <1>3, <1>4, <1>5 DEF LeafEffect, AllocatesNothing, SameTone

LEMMA LeafFacts ==
  ASSUME TypeInv, Leaf
  PROVE  LeafEffect
BY NoteEffect, IntervalEffect, TieEffect, EventEffect, SilentEffect DEF Leaf

(***************************************************************************)
(* The frames.                                                             *)
(***************************************************************************)
LEMMA SameTreeTypes ==
  ASSUME SameTree, Pointers \subseteq Pointers'
  PROVE  /\ Frame \subseteq Frame' /\ Seq(Frame) \subseteq Seq(Frame')
         /\ SheetEntry' = SheetEntry
         /\ Seq(Pointers) \subseteq Seq(Pointers')
<1>1. Seq(Pointers) \subseteq Seq(Pointers')
  OBVIOUS
<1>2. Frame \subseteq Frame'
  BY <1>1 DEF Frame, SameTree
<1> QED BY <1>1, <1>2 DEF SheetEntry, SameTree

LEMMA FrameFacts ==
  ASSUME TypeOK
  PROVE  /\ Len(stack) \in Nat
         /\ \A d \in 1 .. Len(stack) : stack[d] \in Frame
         /\ \A f \in Frame : /\ Kids(f) \in Seq(2 .. Len(ast))
                             /\ f.j \in Nat \ {0} /\ f.old_offset \in Nat
                             /\ f.list \in Seq(Pointers)
         /\ stack # << >> => Len(stack) \in 1 .. Len(stack) /\ Top \in Frame
<1>1. stack \in Seq(Frame)
  BY DEF TypeOK
<1>2. ASSUME NEW f \in Frame
      PROVE  Kids(f) \in Seq(2 .. Len(ast)) /\ f.j \in Nat \ {0} /\ f.old_offset \in Nat
             /\ f.list \in Seq(Pointers)
  <2>1. f.node \in 1 .. Len(ast) /\ f.j \in Nat \ {0} /\ f.old_offset \in Nat
        /\ f.list \in Seq(Pointers)
    BY DEF Frame
  <2> QED BY <2>1, TreeFacts DEF Kids
<1> HIDE DEF Frame
<1> QED BY <1>1, <1>2 DEF Top

LEMMA LeafTypeInv ==
  ASSUME TypeInv, LeafEffect
  PROVE  TypeInv'
<1>1. TypeOK /\ FramesInv /\ heap \in Seq(Entry) /\ Len(heap) \in Nat
  BY DEF TypeInv, TypeOK
<1>2. heap' \in Seq(Entry) /\ Pointers \subseteq Pointers' /\ live' \subseteq Pointers'
      /\ part' \in Seq(Pointers')
  <2>1. CASE Allocates
    <3>1. PICK event : /\ event \in Entry /\ heap' = Append(heap, event)
                       /\ live' = live \cup {Len(heap) + 1}
                       /\ part' = <<Len(heap) + 1>>
      BY <2>1 DEF Allocates, Fresh
    <3>2. heap' \in Seq(Entry) /\ Len(heap') = Len(heap) + 1
      BY <1>1, <3>1
    <3>3. Pointers \subseteq Pointers' /\ Len(heap) + 1 \in Pointers'
      BY <1>1, <3>2 DEF Pointers
    <3> QED BY <1>1, <3>1, <3>2, <3>3 DEF TypeOK
  <2>2. CASE AllocatesNothing
    BY <1>1, <2>2 DEF AllocatesNothing, SameEvents, Pointers, TypeOK
  <2> QED BY <2>1, <2>2 DEF LeafEffect
<1>3. SameTree /\ Frame \subseteq Frame' /\ Seq(Frame) \subseteq Seq(Frame')
      /\ SheetEntry' = SheetEntry
  BY <1>2, SameTreeTypes DEF LeafEffect
<1>4. TypeOK'
  BY <1>1, <1>2, <1>3 DEF LeafEffect, TypeOK, SameTree
<1>5. FramesInv'
  <2>1. stack' = stack /\ mode' = "return" /\ offset \in Nat /\ offset' \in Nat
        /\ offset <= offset'
    BY <1>1 DEF LeafEffect, TypeOK
  <2>2. ASSUME NEW d \in 1 .. Len(stack)
        PROVE  /\ Kids(stack[d])' = Kids(stack[d])
               /\ stack[d].old_offset \in Nat
    <3>1. stack[d].node \in 1 .. Len(ast) /\ stack[d].old_offset \in Nat
      BY <1>1, FrameFacts DEF Frame
    <3> QED BY <2>1, <3>1, <1>3 DEF Kids, SameTree
  <2> QED BY <1>1, <2>1, <2>2 DEF FramesInv
<1> QED BY <1>4, <1>5 DEF TypeInv

(* Entering a node with children.                                          *)
Opens(f) ==
  /\ f \in Frame /\ f.list = << >> /\ f.i = 1 /\ f.j = 1 /\ ~ f.first
  /\ f.old_offset = offset /\ f.born = Len(heap)
  /\ f.loop => ~ f.dry

OpenEffect ==
  /\ mode = "call" /\ mode' = "loop"
  /\ UNCHANGED <<ast, heap, live, offset, octave, divider, last_note, prev_tone, did_rest,
                 arg, part, stale, stray>>
  /\ \E f : Opens(f) /\ stack' = Append(stack, f)
  /\ sheets' \in Seq(SheetEntry) /\ namespace' \in Seq(STRING)
  /\ referencing' \in BOOLEAN /\ legato' \in BOOLEAN

LEMMA OpenFrameFacts ==
  ASSUME TypeOK, NEW n \in 1 .. Len(ast), NEW count \in Int, NEW base \in Divisions,
         NEW refers \in BOOLEAN
  PROVE  LET f == OpenFrame(n, count, base, refers)
         IN  /\ Opens(f) /\ f.node = n
             /\ f.count = IF count <= 0 THEN 1 ELSE count
             /\ f.dry <=> count = 0
<1>1. offset \in Nat /\ divider \in Divisions /\ Len(heap) \in Nat
  BY DEF TypeOK
<1>2. << >> \in Seq(Pointers)
  OBVIOUS
<1> DEFINE c == IF count <= 0 THEN 1 ELSE count
           loop == count < 0
           dry == count = 0
<1>3. c \in Nat \ {0} /\ loop \in BOOLEAN /\ dry \in BOOLEAN /\ (loop => ~ dry)
  OBVIOUS
<1>4. OpenFrame(n, count, base, refers)
        = [node |-> n, count |-> c, loop |-> loop, dry |-> dry, first |-> FALSE,
           i |-> 1, j |-> 1, old_offset |-> offset, old_divider |-> divider,
           base |-> base, refers |-> refers, born |-> Len(heap), list |-> << >>]
  BY Zenon DEF OpenFrame
<1> DEFINE f == OpenFrame(n, count, base, refers)
<1> HIDE DEF c, loop, dry
<1>5. Opens(f) /\ f.node = n /\ f.count = c /\ f.dry = dry
  BY <1>1, <1>2, <1>3, <1>4 DEF Frame, Opens
<1> HIDE DEF f
<1>6. Opens(f) /\ f.node = n /\ (f.count = IF count <= 0 THEN 1 ELSE count) /\ (f.dry <=> count = 0)
  BY <1>5 DEF c, dry
<1> QED BY <1>6 DEF f

LEMMA OpenFacts ==
  ASSUME TypeInv, Crate \/ Legato \/ Sheet \/ Reference
  PROVE  OpenEffect
<1>1. TypeOK /\ arg \in 1 .. Len(ast) /\ divider \in Divisions
  BY DEF TypeInv, TypeOK
<1>2. /\ mode = "call" /\ mode' = "loop"
      /\ UNCHANGED <<ast, heap, live, offset, octave, divider, last_note, prev_tone, did_rest,
                     arg, part, stale, stray>>
  BY DEF Crate, Legato, Sheet, Reference, Called, OpenFrames, memory, history
<1>3. \E f : Opens(f) /\ stack' = Append(stack, f)
  <2>1. CASE Crate \/ Legato
    <3>1. stack' = Append(stack, OpenFrame(arg, 1, divider, FALSE))
      BY <2>1 DEF Crate, Legato, Push
    <3>2. 1 \in Int /\ FALSE \in BOOLEAN
      OBVIOUS
    <3>3. Opens(OpenFrame(arg, 1, divider, FALSE))
      BY <1>1, <3>2, OpenFrameFacts
    <3> QED BY <3>1, <3>3
  <2>2. CASE Sheet
    <3>1. ast[arg].repeat_count \in Int
      BY <1>1, TreeFacts
    <3> QED BY <1>1, <2>2, <3>1, OpenFrameFacts DEF Sheet, Push
  <2>3. CASE Reference
    <3>1. PICK s \in Found(ast[arg].label) :
             Push(OpenFrame(sheets[s].node, ast[arg].repeat_count, sheets[s].divider, TRUE))
      BY <2>3 DEF Reference
    <3>2. s \in 1 .. Len(sheets)
      BY DEF Found, Matches
    <3>3. sheets[s] \in SheetEntry
      BY <1>1, <3>2 DEF TypeOK
    <3>4. sheets[s].node \in 1 .. Len(ast) /\ sheets[s].divider \in Divisions
      BY <3>3 DEF SheetEntry
    <3>5. ast[arg].repeat_count \in Int
      BY <1>1, TreeFacts
    <3>6. Opens(OpenFrame(sheets[s].node, ast[arg].repeat_count, sheets[s].divider, TRUE))
      BY <1>1, <3>4, <3>5, OpenFrameFacts
    <3> QED BY <3>1, <3>6 DEF Push
  <2> QED BY <2>1, <2>2, <2>3
<1>4. sheets' \in Seq(SheetEntry) /\ namespace' \in Seq(STRING)
  <2>1. CASE Sheet /\ Named(arg)
    <3>1. ast[arg].label \in Seq(STRING) /\ namespace \in Seq(STRING)
      BY <1>1, TreeFacts DEF TypeOK
    <3>2. namespace' = namespace \o ast[arg].label
      BY <2>1 DEF Sheet
    <3>3. namespace' \in Seq(STRING)
      BY <3>1, <3>2, ConcatProperties
    <3>4. SheetReference(arg, namespace') \in SheetEntry
      BY <1>1, <3>3 DEF SheetReference, SheetEntry
    <3>5. sheets' = Append(sheets, SheetReference(arg, namespace'))
      BY <2>1 DEF Sheet
    <3> QED BY <1>1, <3>3, <3>4, <3>5 DEF TypeOK
  <2>2. CASE Sheet /\ ~ Named(arg)
    BY <1>1, <2>2 DEF Sheet, TypeOK
  <2>3. CASE Crate \/ Legato \/ Reference
    BY <1>1, <2>3 DEF Crate, Legato, Reference, TypeOK
  <2> QED BY <2>1, <2>2, <2>3
<1>5. referencing' \in BOOLEAN /\ legato' \in BOOLEAN
  BY <1>1 DEF Crate, Legato, Sheet, Reference, TypeOK
<1> QED BY <1>2, <1>3, <1>4, <1>5 DEF OpenEffect

LEMMA OpenTypeInv ==
  ASSUME TypeInv, OpenEffect
  PROVE  TypeInv'
<1>1. TypeOK /\ FramesInv /\ stack \in Seq(Frame) /\ Len(stack) \in Nat /\ offset \in Nat
  BY DEF TypeInv, TypeOK
<1>2. PICK f : /\ f \in Frame /\ f.list = << >> /\ f.j = 1 /\ f.old_offset = offset
               /\ stack' = Append(stack, f)
  BY DEF OpenEffect, Opens
<1>3. Pointers' = Pointers /\ Frame' = Frame /\ SheetEntry' = SheetEntry
  BY DEF OpenEffect, Pointers, Frame, SheetEntry
<1>4. /\ stack' \in Seq(Frame) /\ Len(stack') = Len(stack) + 1
      /\ \A d \in 1 .. Len(stack) : stack'[d] = stack[d]
      /\ stack'[Len(stack) + 1] = f
  <2> HIDE DEF Frame
  <2> QED BY <1>1, <1>2
<1>5. TypeOK'
  BY <1>1, <1>3, <1>4 DEF OpenEffect, TypeOK
<1>6. FramesInv'
  <2>1. stack' # << >> /\ part' = << >> /\ offset' = offset
    BY <1>1, <1>4 DEF OpenEffect, FramesInv
  <2>2. Len(Kids(f)) \in Nat /\ (Kids(f) # << >> => f.j <= Len(Kids(f)))
    <3>1. Kids(f) \in Seq(2 .. Len(ast))
      BY <1>1, <1>2, FrameFacts
    <3> QED BY <1>2, <3>1
  <2>3. \A g : Kids(g)' = Kids(g)
    BY DEF Kids, OpenEffect
  <2>4. ASSUME NEW d \in 1 .. Len(stack')
        PROVE  /\ stack'[d].dry => stack'[d].list = << >>
               /\ Kids(stack'[d]) # << >> => stack'[d].j <= Len(Kids(stack'[d]))
               /\ stack'[d].old_offset <= offset
               /\ \A e \in d .. Len(stack') : stack'[d].old_offset <= stack'[e].old_offset
    <3>1. CASE d = Len(stack) + 1
      BY <1>1, <1>2, <1>4, <2>2, <3>1
    <3>2. CASE d \in 1 .. Len(stack)
      <4>1. \A e \in d .. Len(stack') : stack[d].old_offset <= stack'[e].old_offset
        <5> TAKE e \in d .. Len(stack')
        <5>1. CASE e \in d .. Len(stack)
          BY <1>1, <1>4, <3>2, <5>1 DEF FramesInv
        <5>2. CASE e = Len(stack) + 1
          BY <1>1, <1>2, <1>4, <3>2, <5>2 DEF FramesInv
        <5> QED BY <1>1, <1>4, <5>1, <5>2
      <4> QED BY <1>1, <1>4, <3>2, <4>1 DEF FramesInv
    <3> QED BY <1>1, <1>4, <3>1, <3>2
  <2> QED BY <2>1, <2>3, <2>4 DEF FramesInv
<1> QED BY <1>5, <1>6 DEF TypeInv

LEMMA NextKidTypeInv ==
  ASSUME TypeInv, NextKid
  PROVE  TypeInv'
<1>1. TypeOK /\ FramesInv /\ stack # << >> /\ Top \in Frame /\ Len(stack) \in 1 .. Len(stack)
  BY FrameFacts DEF TypeInv, FramesInv, NextKid
<1>2. Kids(Top) \in Seq(2 .. Len(ast)) /\ Kids(Top) # << >> /\ Top.j \in Nat \ {0}
  BY <1>1, FrameFacts DEF NextKid, Finished
<1>3. Top.j <= Len(Kids(Top))
  BY <1>1, <1>2 DEF FramesInv, Top
<1>4. arg' \in 1 .. Len(ast)
  <2>1. Kids(Top)[Top.j] \in 2 .. Len(ast)
    BY <1>2, <1>3
  <2> QED BY <1>1, <2>1 DEF NextKid, TypeOK
<1>5. divider' \in Divisions
  <2>1. Top.node \in 1 .. Len(ast) /\ Top.base \in Divisions
    BY <1>1 DEF Frame
  <2>2. /\ Top.base[1] \in Nat \ {0} /\ Top.base[2] \in Nat \ {0}
        /\ ast[Top.node].duration \in Nat \ {0} /\ ast[Top.node].units \in Nat \ {0}
    BY <1>1, <2>1, TreeFacts DEF Divisions
  <2>3. /\ Top.base[1] * ast[Top.node].duration \in Nat \ {0}
        /\ Top.base[2] * ast[Top.node].units \in Nat \ {0}
    BY <2>2, Product
  <2>4. <<Top.base[1] * ast[Top.node].duration, Top.base[2] * ast[Top.node].units>> \in Divisions
    BY <2>3 DEF Divisions
  <2> QED BY <1>1, <2>4 DEF NextKid, TypeOK
<1>6. /\ UNCHANGED <<ast, heap, live, offset, octave, sheets, namespace, last_note, prev_tone,
                     did_rest, referencing, stack, part, stale, stray>>
      /\ legato' \in BOOLEAN /\ mode' = "call" /\ mode = "loop"
  BY <1>1 DEF NextKid, memory, history, TypeOK
<1>7. Pointers' = Pointers /\ Frame' = Frame /\ SheetEntry' = SheetEntry
  BY <1>6 DEF Pointers, Frame, SheetEntry
<1>8. TypeOK'
  BY <1>1, <1>4, <1>5, <1>6, <1>7 DEF TypeOK
<1>9. FramesInv'
  <2>1. \A g : Kids(g)' = Kids(g)
    BY <1>6 DEF Kids
  <2> QED BY <1>1, <1>6, <2>1 DEF FramesInv
<1> QED BY <1>8, <1>9 DEF TypeInv

(***************************************************************************)
(* Taking the part that a child has returned: the frame on top goes on.    *)
(***************************************************************************)
TakeEffect ==
  /\ mode = "return" /\ mode' = "loop" /\ stack # << >> /\ part' = << >>
  /\ UNCHANGED <<ast, context, arg>>
  /\ SameEvents
  /\ stale \subseteq stale' /\ stale' \subseteq Pointers
  /\ stray \subseteq stray' /\ stray' \subseteq Pointers
  /\ \E list \in Seq(Pointers), first \in BOOLEAN :
       /\ \/ ~ Top.dry /\ list = Top.list \o part /\ live' = live
          \/ /\ Top.dry /\ Top.list = << >> /\ list = << >>
             /\ live' = live \ {part[x] : x \in 1 .. Len(part)}
       /\ stack' = [stack EXCEPT ![Len(stack)] =
                      Onward([Top EXCEPT !.list = list, !.first = first])]

LEMMA AppendPartFacts ==
  ASSUME TypeInv, AppendPart
  PROVE  TakeEffect
<1>1. TypeOK /\ FramesInv /\ heap \in Seq(Entry) /\ Len(heap) \in Nat /\ offset \in Nat
      /\ stack # << >> /\ Top \in Frame /\ Len(stack) \in 1 .. Len(stack)
  <2>1. TypeOK /\ FramesInv /\ stack # << >>
    BY DEF TypeInv, AppendPart
  <2>2. heap \in Seq(Entry) /\ offset \in Nat
    BY <2>1 DEF TypeOK
  <2>3. Len(heap) \in Nat
    BY <2>2
  <2> QED BY <2>1, <2>2, <2>3, FrameFacts
<1> DEFINE starts == Top.loop /\ ~ Top.first /\ part # << >>
           ends   == Top.loop /\ LastKid(Top) /\ prev_tone # NULL
           length == offset - Top.old_offset
<1>2. length \in Nat
  <2>1. Top.old_offset \in Nat /\ Top.old_offset <= offset
    BY <1>1 DEF FramesInv, Top, Frame
  <2> QED BY <1>1, <2>1
<1>3. /\ heap' = [e \in DOMAIN heap |->
                    [heap[e] EXCEPT
                       !.start_loop  = @ \/ (starts /\ e = part[1]),
                       !.end_loop    = @ \/ (ends /\ e = prev_tone),
                       !.loop_offset = IF ends /\ e = prev_tone THEN length ELSE @]]
      /\ IF ends
         THEN /\ Touch(prev_tone)
              /\ stray' = IF prev_tone <= Top.born THEN stray \cup {prev_tone} ELSE stray
         ELSE UNCHANGED history
      /\ SetTop(Onward([Top EXCEPT !.list = @ \o part, !.first = @ \/ starts]))
  BY DEF AppendPart
<1>4. SameEvents
  <2>1. ASSUME NEW e \in 1 .. Len(heap)
        PROVE  heap'[e] \in Entry /\ heap'[e].tick = heap[e].tick /\ heap'[e].type = heap[e].type
    <3> DEFINE s == heap[e].start_loop \/ (starts /\ e = part[1])
               t == heap[e].end_loop \/ (ends /\ e = prev_tone)
               o == IF ends /\ e = prev_tone THEN length ELSE heap[e].loop_offset
    <3>1. heap[e] \in Entry
      BY <1>1
    <3>2. s \in BOOLEAN /\ t \in BOOLEAN
      OBVIOUS
    <3>3. o \in Nat
      BY <1>2, <3>1 DEF Entry
    <3>4. heap'[e] = [heap[e] EXCEPT !.start_loop = s, !.end_loop = t, !.loop_offset = o]
      <4>1. e \in DOMAIN heap
        BY <1>1
      <4> QED BY <1>3, <4>1, Zenon
    <3> HIDE DEF s, t, o
    <3> QED BY <3>1, <3>2, <3>3, <3>4 DEF Entry
  <2>2. heap' = [e \in DOMAIN heap |-> heap'[e]]
    BY <1>3
  <2> QED BY <1>1, <2>1, <2>2, SameLength DEF SameEvents, Pointers
<1>5. /\ stale \subseteq stale' /\ stale' \subseteq Pointers
      /\ stray \subseteq stray' /\ stray' \subseteq Pointers
  <2>1. CASE ends
    <3>1. prev_tone \in Pointers
      BY <1>1, <2>1 DEF TypeOK
    <3> QED BY <1>1, <1>3, <2>1, <3>1 DEF Touch, TypeOK
  <2>2. CASE ~ ends
    BY <1>1, <1>3, <2>2 DEF history, TypeOK
  <2> QED BY <2>1, <2>2
<1>6. Top.list \o part \in Seq(Pointers)
  <2>1. Top.list \in Seq(Pointers) /\ part \in Seq(Pointers)
    BY <1>1, FrameFacts DEF TypeOK
  <2> QED BY <2>1, ConcatProperties
<1>7. (Top.first \/ starts) \in BOOLEAN
  OBVIOUS
<1>8. stack' = [stack EXCEPT ![Len(stack)] =
                  Onward([Top EXCEPT !.list = Top.list \o part, !.first = Top.first \/ starts])]
  BY <1>3, Zenon DEF SetTop
<1> HIDE DEF starts
<1>9. /\ ~ Top.dry /\ mode = "return" /\ mode' = "loop" /\ part' = << >>
      /\ UNCHANGED <<ast, context, arg>> /\ live' = live
  BY DEF AppendPart, Took
<1> QED BY <1>1, <1>4, <1>5, <1>6, <1>7, <1>8, <1>9 DEF TakeEffect

LEMMA FreePartFacts ==
  ASSUME TypeInv, FreePart
  PROVE  TakeEffect
<1>1. TypeOK /\ FramesInv /\ stack # << >> /\ Top \in Frame /\ Len(stack) \in 1 .. Len(stack)
  BY FrameFacts DEF TypeInv, FreePart
<1>2. Top.list = << >> /\ Top.first \in BOOLEAN /\ Top.list \in Seq(Pointers)
  BY <1>1 DEF FreePart, FramesInv, Top, Frame
<1>3. [Top EXCEPT !.list = Top.list, !.first = Top.first] = Top
  BY <1>1 DEF Frame
<1>4. SameEvents
  BY <1>1, SameEventsFacts DEF FreePart
<1>5. stack' = [stack EXCEPT ![Len(stack)] = Onward(Top)]
  BY DEF FreePart, SetTop
<1>6. /\ mode = "return" /\ mode' = "loop" /\ part' = << >>
      /\ UNCHANGED <<ast, context, arg>>
      /\ live' = live \ {part[x] : x \in 1 .. Len(part)} /\ Top.dry
      /\ UNCHANGED <<stale, stray>> /\ stale \subseteq Pointers /\ stray \subseteq Pointers
  BY <1>1 DEF FreePart, Took, TypeOK, history
<1> QED BY <1>1, <1>2, <1>3, <1>4, <1>5, <1>6 DEF TakeEffect

LEMMA TakeTypeInv ==
  ASSUME TypeInv, TakeEffect
  PROVE  TypeInv'
<1>1. TypeOK /\ FramesInv /\ stack # << >> /\ Top \in Frame /\ Len(stack) \in 1 .. Len(stack)
      /\ stack \in Seq(Frame) /\ Len(stack) \in Nat
  BY FrameFacts DEF TypeInv, TakeEffect, TypeOK
<1> DEFINE n == Len(stack)
<1>2. PICK list \in Seq(Pointers), first \in BOOLEAN :
         /\ Top.dry => list = << >>
         /\ live' \subseteq live
         /\ stack' = [stack EXCEPT ![n] = Onward([Top EXCEPT !.list = list, !.first = first])]
  BY DEF TakeEffect
<1> DEFINE f == [Top EXCEPT !.list = list, !.first = first]
           g == Onward(f)
<1>3. /\ f \in Frame /\ f.list = list /\ f.dry = Top.dry /\ f.j = Top.j /\ f.i = Top.i
      /\ f.old_offset = Top.old_offset /\ f.node = Top.node
  BY <1>1, <1>2 DEF Frame
<1>4. Kids(Top) \in Seq(2 .. Len(ast)) /\ Kids(f) = Kids(Top)
  BY <1>1, <1>3, FrameFacts DEF Kids
<1>5. /\ g \in Frame /\ g.list = list /\ g.dry = Top.dry
      /\ g.old_offset = Top.old_offset /\ g.node = Top.node
      /\ g.j = IF LastKid(f) THEN 1 ELSE f.j + 1
  <2> HIDE DEF f
  <2>1. f.i + 1 \in Nat \ {0} /\ f.j + 1 \in Nat \ {0} /\ 1 \in Nat \ {0}
    BY <1>3 DEF Frame
  <2>2. CASE LastKid(f)
    <3>1. g = [f EXCEPT !.i = f.i + 1, !.j = 1]
      BY <2>2, Zenon DEF Onward
    <3> HIDE DEF g
    <3> QED BY <1>3, <2>1, <2>2, <3>1 DEF Frame
  <2>3. CASE ~ LastKid(f)
    <3>1. g = [f EXCEPT !.j = f.j + 1]
      BY <2>3, Zenon DEF Onward
    <3> HIDE DEF g
    <3> QED BY <1>3, <2>1, <2>3, <3>1 DEF Frame
  <2> QED BY <2>2, <2>3
<1> HIDE DEF f, g
<1>6. Kids(g) # << >> => g.j <= Len(Kids(g))
  <2>1. Kids(g) = Kids(Top) /\ Len(Kids(Top)) \in Nat /\ Top.j \in Nat \ {0}
    BY <1>1, <1>4, <1>5, FrameFacts DEF Kids
  <2>2. Kids(Top) # << >> => Top.j <= Len(Kids(Top)) /\ Len(Kids(Top)) # 0
    BY <1>1, <1>4 DEF FramesInv, Top
  <2> QED BY <1>3, <1>4, <1>5, <2>1, <2>2 DEF LastKid
<1>7. stack' = [stack EXCEPT ![n] = g]
  BY <1>2 DEF f, g
<1>8. /\ stack' \in Seq(Frame) /\ Len(stack') = n
      /\ \A d \in 1 .. n : stack'[d] = IF d = n THEN g ELSE stack[d]
  <2> HIDE DEF Frame
  <2> QED BY <1>1, <1>5, <1>7
<1>9. /\ Pointers' = Pointers /\ Frame' = Frame /\ SheetEntry' = SheetEntry
      /\ heap' \in Seq(Entry)
  BY DEF TakeEffect, SameEvents, Pointers, Frame, SheetEntry
<1>10. TypeOK'
  <2>1. << >> \in Seq(Pointers)
    OBVIOUS
  <2> QED BY <1>1, <1>8, <1>9, <2>1 DEF TakeEffect, TypeOK, context
<1>11. FramesInv'
  <2>1. \A h : Kids(h)' = Kids(h)
    BY DEF Kids, TakeEffect
  <2>2. offset' = offset /\ part' = << >> /\ stack' # << >>
    BY <1>1, <1>8 DEF TakeEffect, context
  <2>3. \A d \in 1 .. n : stack'[d].old_offset = stack[d].old_offset
    BY <1>5, <1>8 DEF Top
  <2>4. \A d \in 1 .. n : /\ stack'[d].dry => stack'[d].list = << >>
                          /\ Kids(stack'[d]) # << >> => stack'[d].j <= Len(Kids(stack'[d]))
    BY <1>1, <1>2, <1>5, <1>6, <1>8 DEF FramesInv
  <2> QED BY <1>1, <1>8, <2>1, <2>2, <2>3, <2>4 DEF FramesInv
<1> QED BY <1>10, <1>11 DEF TypeInv

(***************************************************************************)
(* Leaving a node with children.                                           *)
(***************************************************************************)
LeaveEffect ==
  /\ mode = "loop" /\ mode' = "return" /\ stack # << >> /\ Finished(Top)
  /\ stack' = SubSeq(stack, 1, Len(stack) - 1)
  /\ part' = Top.list
  /\ UNCHANGED <<ast, heap, live, octave, sheets, last_note, prev_tone, did_rest, legato, arg,
                 stale, stray>>
  /\ offset' \in {offset, Top.old_offset}
  /\ offset' # offset => Top.dry
  /\ divider' \in Divisions /\ namespace' \in Seq(STRING) /\ referencing' \in BOOLEAN

LEMMA LeaveFacts ==
  ASSUME TypeInv, LeaveCrateOrLegato \/ LeaveSheet
  PROVE  LeaveEffect
<1>1. TypeOK
  BY DEF TypeInv
<1>2. Leave(Top)
  BY DEF LeaveCrateOrLegato, LeaveSheet
<1>3. Top \in Frame
  BY <1>1, <1>2, FrameFacts DEF Leave
<1>4. namespace' \in Seq(STRING)
  <2>1. namespace \in Seq(STRING) /\ Len(namespace) \in Nat
    BY <1>1 DEF TypeOK
  <2>2. SubSeq(namespace, 1, Len(namespace) - 1) \in Seq(STRING)
    <3>1. \A x \in 1 .. Len(namespace) - 1 : namespace[x] \in STRING
      BY <2>1
    <3> QED BY <2>1, <3>1, SubSeqProperties
  <2> QED BY <2>1, <2>2 DEF LeaveCrateOrLegato, LeaveSheet
<1>5. /\ offset' \in {offset, Top.old_offset} /\ (offset' # offset => Top.dry)
      /\ divider' \in Divisions /\ referencing' \in BOOLEAN
  BY <1>1, <1>3 DEF LeaveCrateOrLegato, LeaveSheet, OffsetAfter, ReferencingAfter, Frame, TypeOK
<1> QED BY <1>2, <1>4, <1>5 DEF LeaveEffect, Leave, Pop, memory, history

LEMMA LeaveTypeInv ==
  ASSUME TypeInv, LeaveEffect
  PROVE  TypeInv'
<1>1. TypeOK /\ FramesInv /\ stack # << >> /\ Top \in Frame /\ Len(stack) \in 1 .. Len(stack)
      /\ stack \in Seq(Frame) /\ Len(stack) \in Nat
  BY FrameFacts DEF TypeInv, LeaveEffect, TypeOK
<1>2. Pointers' = Pointers /\ Frame' = Frame /\ SheetEntry' = SheetEntry
  BY DEF LeaveEffect, Pointers, Frame, SheetEntry
<1>3. /\ stack' \in Seq(Frame) /\ Len(stack') = Len(stack) - 1
      /\ \A d \in 1 .. Len(stack) - 1 : stack'[d] = stack[d]
  <2> HIDE DEF Frame
  <2> QED BY <1>1, FrontFacts DEF LeaveEffect
<1>4. Top.list \in Seq(Pointers) /\ Top.old_offset \in Nat /\ offset \in Nat
  BY <1>1, FrameFacts DEF TypeOK
<1>5. TypeOK'
  BY <1>1, <1>2, <1>3, <1>4 DEF LeaveEffect, TypeOK
<1>6. FramesInv'
  <2>1. \A h : Kids(h)' = Kids(h)
    BY DEF Kids, LeaveEffect
  <2>2. \A d \in 1 .. Len(stack) - 1 : stack[d].old_offset <= offset'
    <3> TAKE d \in 1 .. Len(stack) - 1
    <3>1. d \in 1 .. Len(stack) /\ Len(stack) \in d .. Len(stack)
      BY <1>1
    <3>2. stack[d].old_offset <= offset /\ stack[d].old_offset <= Top.old_offset
      BY <1>1, <3>1 DEF FramesInv, Top
    <3> QED BY <3>2 DEF LeaveEffect
  <2> QED BY <1>1, <1>3, <2>1, <2>2 DEF LeaveEffect, FramesInv
<1> QED BY <1>5, <1>6 DEF TypeInv

(* What is left of the list after the cut is its beginning.                *)
LEMMA CutFacts ==
  ASSUME TypeInv, Cut
  PROVE  /\ mode = "return" /\ mode' = "done" /\ stack = << >>
         /\ UNCHANGED <<ast, heap, context, stack, arg, history>>
         /\ \E x \in 0 .. Len(part) :
              /\ part' = SubSeq(part, 1, x)
              /\ live' = live \ {part[y] : y \in x + 1 .. Len(part)}
<1>1. part \in Seq(Pointers) /\ Len(part) \in Nat
  BY DEF TypeInv, TypeOK
<1> DEFINE ends == {x \in 1 .. Len(part) : heap[part[x]].end_loop}
<1>2. CASE ends = {}
  <2>1. part' = part /\ live' = live
    BY <1>2 DEF Cut, FreeAfterLoop
  <2>2. part = SubSeq(part, 1, Len(part)) /\ Len(part) \in 0 .. Len(part)
    BY <1>1
  <2>3. live = live \ {part[y] : y \in Len(part) + 1 .. Len(part)}
    BY <1>1
  <2> QED BY <2>1, <2>2, <2>3 DEF Cut
<1>3. CASE ends # {}
  BY <1>1, <1>3 DEF Cut, FreeAfterLoop
<1> QED BY <1>2, <1>3

LEMMA CutTypeInv ==
  ASSUME TypeInv, Cut
  PROVE  TypeInv'
<1>1. TypeOK /\ FramesInv /\ part \in Seq(Pointers) /\ Len(part) \in Nat
  BY DEF TypeInv, TypeOK
<1>2. PICK x \in 0 .. Len(part) : /\ part' = SubSeq(part, 1, x)
                                  /\ live' = live \ {part[y] : y \in x + 1 .. Len(part)}
  BY CutFacts
<1>3. /\ mode = "return" /\ mode' = "done" /\ stack = << >>
      /\ UNCHANGED <<ast, heap, context, stack, arg, history>>
  BY CutFacts
<1>4. part' \in Seq(Pointers)
  <2>1. \A y \in 1 .. x : part[y] \in Pointers
    BY <1>1
  <2> HIDE DEF Pointers
  <2> QED BY <1>1, <1>2, <2>1, SubSeqProperties
<1>5. Pointers' = Pointers /\ Frame' = Frame /\ SheetEntry' = SheetEntry
  BY <1>3 DEF Pointers, Frame, SheetEntry
<1>6. TypeOK'
  BY <1>1, <1>2, <1>3, <1>4, <1>5 DEF TypeOK, context, history
<1>7. FramesInv'
  BY <1>1, <1>3 DEF FramesInv
<1> QED BY <1>6, <1>7 DEF TypeInv

LEMMA StutterTypeInv == TypeInv /\ UNCHANGED vars => TypeInv'
<1> SUFFICES ASSUME TypeInv, UNCHANGED vars
             PROVE  TypeInv'
  OBVIOUS
<1>1. UNCHANGED <<ast, heap, live, offset, octave, sheets, namespace, divider, last_note,
                  prev_tone, did_rest, referencing, legato, stack, mode, arg, part, stale, stray>>
  BY DEF vars, memory, context, history
<1>2. Pointers' = Pointers /\ Frame' = Frame /\ SheetEntry' = SheetEntry /\ \A h : Kids(h)' = Kids(h)
  BY <1>1 DEF Pointers, Frame, SheetEntry, Kids
<1> QED BY <1>1, <1>2 DEF TypeInv, TypeOK, FramesInv

(* Every step is of one of six kinds.                                      *)
LEMMA StepKinds ==
  ASSUME TypeInv, Step
  PROVE  LeafEffect \/ OpenEffect \/ NextKid \/ TakeEffect \/ LeaveEffect \/ Cut
BY LeafFacts, OpenFacts, AppendPartFacts, FreePartFacts, LeaveFacts DEF Step

LEMMA StepTypeInv == TypeInv /\ [Step]_vars => TypeInv'
BY StepKinds, LeafTypeInv, OpenTypeInv, NextKidTypeInv, TakeTypeInv, LeaveTypeInv, CutTypeInv,
   StutterTypeInv

(***************************************************************************)
(* Every reachable state is well typed, for every song: the walk over the  *)
(* tree stays in the tree, no loop gets a negative length, and no number   *)
(* leaves its range.                                                       *)
(***************************************************************************)
THEOREM TranslatorTypeCorrect == Spec => []TypeOK
<1>1. TypeInv => TypeOK
  BY DEF TypeInv
<1> QED BY InitTypeInv, StepTypeInv, <1>1, PTL DEF Spec

(***************************************************************************)
(* The lists under construction, as a function from 1 .. m to sequences:   *)
(* their events are allocated in the order in which they stand in the      *)
(* lists, so that pointers ascend.                                         *)
(***************************************************************************)
Ascending(lists, m) ==
  \A d, e \in 1 .. m : \A x \in 1 .. Len(lists[d]), y \in 1 .. Len(lists[e]) :
    d < e \/ (d = e /\ x < y) => lists[d][x] < lists[e][y]

Contents(lists, m) == UNION {{lists[d][x] : x \in 1 .. Len(lists[d])} : d \in 1 .. m}

LEMMA ContentsMember ==
  ASSUME NEW lists, NEW m
  PROVE  \A v : v \in Contents(lists, m)
                  <=> \E d \in 1 .. m : \E x \in 1 .. Len(lists[d]) : v = lists[d][x]
<1> TAKE v
<1>1. ASSUME NEW d \in 1 .. m, NEW x \in 1 .. Len(lists[d]), v = lists[d][x]
      PROVE  v \in Contents(lists, m)
  BY <1>1 DEF Contents
<1>2. ASSUME v \in Contents(lists, m)
      PROVE  \E d \in 1 .. m : \E x \in 1 .. Len(lists[d]) : v = lists[d][x]
  BY <1>2 DEF Contents
<1> QED BY <1>1, <1>2

LEMMA AscendingAt ==
  ASSUME NEW lists, NEW m, Ascending(lists, m),
         NEW d \in 1 .. m, NEW e \in 1 .. m,
         NEW x \in 1 .. Len(lists[d]), NEW y \in 1 .. Len(lists[e]),
         d < e \/ (d = e /\ x < y)
  PROVE  lists[d][x] < lists[e][y]
BY DEF Ascending

(* Lists that are empty neither add nor take away anything.                *)
LEMMA EmptyLists ==
  ASSUME NEW m \in Nat, NEW n \in Nat, NEW old, NEW new,
         \A d \in 1 .. m : d <= n => new[d] = old[d],
         \A d \in n + 1 .. m : old[d] = << >>,
         \A d \in m + 1 .. n : new[d] = << >>
  PROVE  /\ Ascending(old, m) => Ascending(new, n)
         /\ Contents(new, n) = Contents(old, m)
<1>1. ASSUME NEW d \in 1 .. n, NEW x \in 1 .. Len(new[d])
      PROVE  d \in 1 .. m /\ new[d] = old[d] /\ x \in 1 .. Len(old[d])
  <2>1. d \in 1 .. m
    <3>1. CASE d \in m + 1 .. n
      BY <3>1
    <3> QED BY <3>1
  <2> QED BY <2>1
<1>2. ASSUME NEW d \in 1 .. m, NEW x \in 1 .. Len(old[d])
      PROVE  d \in 1 .. n /\ new[d] = old[d]
  <2>1. d \in 1 .. n
    <3>1. CASE d \in n + 1 .. m
      BY <3>1
    <3> QED BY <3>1
  <2> QED BY <2>1
<1>3. Ascending(old, m) => Ascending(new, n)
  <2> SUFFICES ASSUME Ascending(old, m),
                      NEW d \in 1 .. n, NEW e \in 1 .. n,
                      NEW x \in 1 .. Len(new[d]), NEW y \in 1 .. Len(new[e]),
                      d < e \/ (d = e /\ x < y)
               PROVE  new[d][x] < new[e][y]
    BY DEF Ascending
  <2>1. /\ d \in 1 .. m /\ new[d] = old[d] /\ x \in 1 .. Len(old[d])
        /\ e \in 1 .. m /\ new[e] = old[e] /\ y \in 1 .. Len(old[e])
    BY <1>1
  <2> QED BY <2>1 DEF Ascending
<1>4. ASSUME NEW v \in Contents(new, n)
      PROVE  v \in Contents(old, m)
  <2>1. PICK d \in 1 .. n : \E x \in 1 .. Len(new[d]) : v = new[d][x]
    BY ContentsMember
  <2>2. d \in 1 .. m /\ new[d] = old[d]
    BY <1>1, <2>1
  <2> QED BY <2>1, <2>2, ContentsMember
<1>5. ASSUME NEW v \in Contents(old, m)
      PROVE  v \in Contents(new, n)
  <2>1. PICK d \in 1 .. m : \E x \in 1 .. Len(old[d]) : v = old[d][x]
    BY ContentsMember
  <2>2. d \in 1 .. n /\ new[d] = old[d]
    BY <1>2, <2>1
  <2> QED BY <2>1, <2>2, ContentsMember
<1> QED BY <1>3, <1>4, <1>5

(* A new event, younger than all, in the last list.                        *)
LEMMA NewEventLast ==
  ASSUME NEW m \in Nat \ {0}, NEW old, NEW new, NEW p \in Nat,
         \A d \in 1 .. m - 1 : new[d] = old[d],
         old[m] = << >>, new[m] = << p >>,
         Ascending(old, m), \A q \in Contents(old, m) : q < p
  PROVE  Ascending(new, m) /\ Contents(new, m) = Contents(old, m) \cup {p}
<1>0. Len(new[m]) = 1 /\ new[m][1] = p /\ Len(old[m]) = 0 /\ m \in 1 .. m
  OBVIOUS
<1>1. ASSUME NEW d \in 1 .. m - 1, NEW x \in 1 .. Len(new[d])
      PROVE  /\ new[d] = old[d] /\ d \in 1 .. m
             /\ new[d][x] \in Contents(old, m) /\ new[d][x] < p
  <2>1. new[d] = old[d] /\ d \in 1 .. m /\ x \in 1 .. Len(old[d])
    OBVIOUS
  <2>2. new[d][x] \in Contents(old, m)
    BY <2>1, ContentsMember
  <2> QED BY <2>1, <2>2
<1>2. Ascending(new, m)
  <2> SUFFICES ASSUME NEW d \in 1 .. m, NEW e \in 1 .. m,
                      NEW x \in 1 .. Len(new[d]), NEW y \in 1 .. Len(new[e]),
                      d < e \/ (d = e /\ x < y)
               PROVE  new[d][x] < new[e][y]
    BY DEF Ascending
  <2>1. CASE e = m
    <3>0. Len(new[e]) = 1 /\ new[e][1] = p
      BY <1>0, <2>1
    <3>1. y = 1 /\ new[e][y] = p
      BY <3>0
    <3>2. d \in 1 .. m - 1
      BY <1>0, <2>1, <3>1
    <3> QED BY <1>1, <3>1, <3>2
  <2>2. CASE e # m
    <3>1. e \in 1 .. m - 1 /\ d \in 1 .. m - 1
      BY <2>2
    <3>2. new[d] = old[d] /\ new[e] = old[e]
      BY <3>1
    <3> QED BY <3>2 DEF Ascending
  <2> QED BY <2>1, <2>2
<1>3. ASSUME NEW v \in Contents(new, m)
      PROVE  v \in Contents(old, m) \cup {p}
  <2>1. PICK d \in 1 .. m : \E x \in 1 .. Len(new[d]) : v = new[d][x]
    BY ContentsMember
  <2>2. CASE d = m
    BY <1>0, <2>1, <2>2
  <2>3. CASE d \in 1 .. m - 1
    BY <1>1, <2>1, <2>3
  <2> QED BY <2>2, <2>3
<1>4. p \in Contents(new, m)
  <2>1. 1 \in 1 .. Len(new[m])
    BY <1>0
  <2> QED BY <1>0, <2>1, ContentsMember
<1>5. ASSUME NEW v \in Contents(old, m)
      PROVE  v \in Contents(new, m)
  <2>1. PICK d \in 1 .. m : \E x \in 1 .. Len(old[d]) : v = old[d][x]
    BY ContentsMember
  <2>0. PICK x \in 1 .. Len(old[d]) : v = old[d][x]
    BY <2>1
  <2>2. d # m
    BY <1>0
  <2>3. new[d] = old[d]
    BY <2>2
  <2> QED BY <2>0, <2>3, ContentsMember
<1> QED BY <1>2, <1>3, <1>4, <1>5

(* The last list is appended to the one before it.                         *)
LEMMA LastAppended ==
  ASSUME NEW S, NEW m \in Nat \ {0}, NEW old, NEW new,
         old[m] \in Seq(S), old[m + 1] \in Seq(S),
         \A d \in 1 .. m - 1 : new[d] = old[d],
         new[m] = old[m] \o old[m + 1], new[m + 1] = << >>,
         Ascending(old, m + 1)
  PROVE  Ascending(new, m + 1) /\ Contents(new, m + 1) = Contents(old, m + 1)
<1> DEFINE a == Len(old[m])
           b == Len(old[m + 1])
           c == old[m] \o old[m + 1]
<1>1. /\ a \in Nat /\ b \in Nat /\ m + 1 \in 1 .. m + 1 /\ m \in 1 .. m + 1
      /\ m + 1 # m
      /\ Len(new[m + 1]) = 0
  OBVIOUS
<1>2. /\ Len(new[m]) = a + b
      /\ \A x \in 1 .. a + b : new[m][x] = IF x <= a THEN old[m][x] ELSE old[m + 1][x - a]
  <2>1. /\ Len(c) = a + b
        /\ \A x \in 1 .. a + b : c[x] = IF x <= a THEN old[m][x] ELSE old[m + 1][x - a]
    <3> DEFINE s == old[m]
               t == old[m + 1]
    <3>1. s \in Seq(S) /\ t \in Seq(S)
      OBVIOUS
    <3> HIDE DEF s, t
    <3>2. /\ Len(s \o t) = Len(s) + Len(t)
          /\ \A x \in 1 .. Len(s) + Len(t) :
               (s \o t)[x] = IF x <= Len(s) THEN s[x] ELSE t[x - Len(s)]
      BY <3>1, ConcatProperties
    <3> QED BY <3>2, Zenon DEF s, t
  <2>2. new[m] = c
    OBVIOUS
  <2> HIDE DEF a, b, c
  <2>3. Len(new[m]) = a + b
    BY <2>1, <2>2
  <2>4. ASSUME NEW x \in 1 .. a + b
        PROVE  new[m][x] = IF x <= a THEN old[m][x] ELSE old[m + 1][x - a]
    <3>1. c[x] = IF x <= a THEN old[m][x] ELSE old[m + 1][x - a]
      BY <2>1
    <3> QED BY <2>2, <3>1
  <2> QED BY <2>3, <2>4
<1> HIDE DEF a, b, c
(* Where an event of the new lists has come from.                          *)
<1>3. ASSUME NEW d \in 1 .. m + 1, NEW x \in 1 .. Len(new[d])
      PROVE  \/ d = m /\ x > a /\ x - a \in 1 .. b /\ new[d][x] = old[m + 1][x - a]
             \/ d = m /\ x <= a /\ x \in 1 .. a /\ new[d][x] = old[m][x]
             \/ d \in 1 .. m - 1 /\ new[d] = old[d]
  <2>1. d # m + 1
    BY <1>1
  <2>2. CASE d = m
    <3>1. x \in 1 .. a + b
      BY <1>2, <2>2
    <3>2. new[d][x] = IF x <= a THEN old[m][x] ELSE old[m + 1][x - a]
      BY <1>2, <2>2, <3>1
    <3> QED BY <1>1, <2>2, <3>1, <3>2
  <2>3. CASE d \in 1 .. m - 1
    BY <2>3
  <2> QED BY <2>1, <2>2, <2>3
<1>4. Ascending(new, m + 1)
  <2> SUFFICES ASSUME NEW d \in 1 .. m + 1, NEW e \in 1 .. m + 1,
                      NEW x \in 1 .. Len(new[d]), NEW y \in 1 .. Len(new[e]),
                      d < e \/ (d = e /\ x < y)
               PROVE  new[d][x] < new[e][y]
    BY DEF Ascending
  <2>1. CASE d = m /\ x > a /\ x - a \in 1 .. b /\ new[d][x] = old[m + 1][x - a]
    <3>1. e = m /\ y > a /\ y - a \in 1 .. b /\ new[e][y] = old[m + 1][y - a] /\ x - a < y - a
      BY <1>1, <1>3, <2>1
    <3> QED BY <1>1, <2>1, <3>1 DEF b, Ascending
  <2>2. CASE d = m /\ x <= a /\ x \in 1 .. a /\ new[d][x] = old[m][x]
    <3>1. e = m
      BY <1>3, <2>2
    <3>2. CASE y > a /\ y - a \in 1 .. b /\ new[e][y] = old[m + 1][y - a]
      <4>1. x \in 1 .. Len(old[m]) /\ y - a \in 1 .. Len(old[m + 1]) /\ m < m + 1
        BY <2>2, <3>2 DEF a, b
      <4>2. old[m][x] < old[m + 1][y - a]
        BY <1>1, <4>1, AscendingAt
      <4> QED BY <2>2, <3>1, <3>2, <4>2
    <3>3. CASE y <= a /\ y \in 1 .. a /\ new[e][y] = old[m][y]
      <4>1. x \in 1 .. Len(old[m]) /\ y \in 1 .. Len(old[m]) /\ x < y
        BY <1>1, <2>2, <3>1, <3>3 DEF a
      <4>2. old[m][x] < old[m][y]
        BY <1>1, <4>1, AscendingAt
      <4> QED BY <2>2, <3>1, <3>3, <4>2
    <3>4. \/ y > a /\ y - a \in 1 .. b /\ new[e][y] = old[m + 1][y - a]
          \/ y <= a /\ y \in 1 .. a /\ new[e][y] = old[m][y]
      BY <1>3, <3>1
    <3> QED BY <3>2, <3>3, <3>4
  <2>3. CASE d \in 1 .. m - 1 /\ new[d] = old[d]
    <3>1. d \in 1 .. m + 1 /\ x \in 1 .. Len(old[d]) /\ new[d][x] = old[d][x] /\ d < m /\ d < m + 1
      BY <2>3
    <3>2. CASE e = m /\ y > a /\ y - a \in 1 .. b /\ new[e][y] = old[m + 1][y - a]
      BY <1>1, <3>1, <3>2 DEF b, Ascending
    <3>3. CASE e = m /\ y <= a /\ y \in 1 .. a /\ new[e][y] = old[m][y]
      BY <1>1, <3>1, <3>3 DEF a, Ascending
    <3>4. CASE e \in 1 .. m - 1 /\ new[e] = old[e]
      <4>1. e \in 1 .. m + 1 /\ y \in 1 .. Len(old[e]) /\ new[e][y] = old[e][y]
        BY <3>4
      <4>2. old[d][x] < old[e][y]
        BY <3>1, <4>1, AscendingAt
      <4> QED BY <3>1, <4>1, <4>2
    <3> QED BY <1>3, <3>2, <3>3, <3>4
  <2> QED BY <1>3, <2>1, <2>2, <2>3
<1>5. ASSUME NEW v \in Contents(new, m + 1)
      PROVE  v \in Contents(old, m + 1)
  <2>1. PICK d \in 1 .. m + 1 : \E x \in 1 .. Len(new[d]) : v = new[d][x]
    BY ContentsMember
  <2>0. PICK x \in 1 .. Len(new[d]) : v = new[d][x]
    BY <2>1
  <2>2. \E h \in 1 .. m + 1 : \E w \in 1 .. Len(old[h]) : v = old[h][w]
    <3>1. CASE d = m /\ x > a /\ x - a \in 1 .. b /\ new[d][x] = old[m + 1][x - a]
      BY <1>1, <2>0, <3>1 DEF b
    <3>2. CASE d = m /\ x <= a /\ x \in 1 .. a /\ new[d][x] = old[m][x]
      BY <1>1, <2>0, <3>2 DEF a
    <3>3. CASE d \in 1 .. m - 1 /\ new[d] = old[d]
      BY <2>0, <3>3
    <3> QED BY <1>3, <3>1, <3>2, <3>3
  <2> QED BY <2>2, ContentsMember
<1>6. ASSUME NEW v \in Contents(old, m + 1)
      PROVE  v \in Contents(new, m + 1)
  <2>1. PICK d \in 1 .. m + 1 : \E x \in 1 .. Len(old[d]) : v = old[d][x]
    BY ContentsMember
  <2>0. PICK x \in 1 .. Len(old[d]) : v = old[d][x]
    BY <2>1
  <2>2. \E e \in 1 .. m + 1 : \E y \in 1 .. Len(new[e]) : v = new[e][y]
    <3>1. CASE d = m + 1
      <4>1. x \in 1 .. b /\ a + x \in 1 .. a + b /\ ~ (a + x <= a) /\ (a + x) - a = x
        BY <1>1, <3>1 DEF b
      <4>2. new[m][a + x] = old[m + 1][x] /\ a + x \in 1 .. Len(new[m])
        BY <1>2, <4>1
      <4> QED BY <1>1, <2>0, <3>1, <4>2
    <3>2. CASE d = m
      <4>1. x \in 1 .. a /\ x \in 1 .. a + b /\ x <= a
        BY <1>1, <3>2 DEF a
      <4>2. new[m][x] = old[m][x] /\ x \in 1 .. Len(new[m])
        BY <1>2, <4>1
      <4> QED BY <1>1, <2>0, <3>2, <4>2
    <3>3. CASE d \in 1 .. m - 1
      <4>1. new[d] = old[d]
        BY <3>3
      <4> QED BY <2>0, <4>1
    <3> QED BY <3>1, <3>2, <3>3
  <2> QED BY <2>2, ContentsMember
<1> QED BY <1>4, <1>5, <1>6

(***************************************************************************)
(* Ownership.                                                              *)
(***************************************************************************)
OwnInv ==
  /\ Ascending(Lists, Len(stack) + 1)
  /\ live = Contents(Lists, Len(stack) + 1)

LEMMA InitOwnInv == Init => OwnInv
<1> SUFFICES ASSUME Init
             PROVE  OwnInv
  OBVIOUS
<1>1. stack = << >> /\ part = << >> /\ live = {}
  BY DEF Init
<1>2. \A d \in 1 .. Len(stack) + 1 : Lists[d] = << >>
  BY <1>1 DEF Lists
<1>3. \A d \in 1 .. Len(stack) + 1 : Len(Lists[d]) = 0
  BY <1>2
<1>4. Ascending(Lists, Len(stack) + 1)
  BY <1>3 DEF Ascending
<1>5. \A v : v \notin Contents(Lists, Len(stack) + 1)
  BY <1>3, ContentsMember
<1> QED BY <1>1, <1>4, <1>5 DEF OwnInv

LEMMA LeafOwnInv ==
  ASSUME TypeInv, OwnInv, LeafEffect
  PROVE  OwnInv'
<1> DEFINE m == Len(stack) + 1
<1>1. TypeOK /\ FramesInv /\ m \in Nat \ {0} /\ Len(heap) \in Nat
  BY FrameFacts DEF TypeInv, TypeOK
<1>2. /\ stack' = stack /\ part = << >> /\ Lists[m] = << >> /\ Lists'[m] = part'
      /\ \A d \in 1 .. m - 1 : Lists'[d] = Lists[d]
  BY <1>1 DEF LeafEffect, FramesInv, Lists
<1>3. CASE AllocatesNothing
  <2>1. Lists' = Lists
    BY <1>2, <1>3 DEF AllocatesNothing, Lists
  <2> QED BY <1>2, <1>3, <2>1 DEF AllocatesNothing, OwnInv, Ascending, Contents
<1>4. CASE Allocates
  <2> DEFINE p == Len(heap) + 1
             old == Lists
             new == Lists'
  <2>1. part' = << p >> /\ live' = live \cup {p}
    BY <1>4 DEF Allocates
  <2>2. p \in Nat /\ \A q \in Contents(old, m) : q < p
    BY <1>1 DEF OwnInv, TypeOK, Pointers
  <2>3. Ascending(old, m) /\ Contents(old, m) = live
    BY DEF OwnInv
  <2>4. /\ \A d \in 1 .. m - 1 : new[d] = old[d]
        /\ old[m] = << >> /\ new[m] = << p >>
    BY <1>2, <2>1
  <2> HIDE DEF p, old, new, m
  <2>5. Ascending(new, m) /\ Contents(new, m) = Contents(old, m) \cup {p}
    BY <1>1, <2>2, <2>3, <2>4, NewEventLast
  <2>6. live' = Contents(new, m)
    BY <2>1, <2>3, <2>5
  <2>7. Len(stack') + 1 = m
    BY <1>2 DEF m
  <2> QED BY <2>5, <2>6, <2>7 DEF OwnInv, new, Ascending, Contents
<1> QED BY <1>3, <1>4 DEF LeafEffect

(* Frames come and go with an empty list as the last.                      *)
LEMMA OpenOwnInv ==
  ASSUME TypeInv, OwnInv, OpenEffect
  PROVE  OwnInv'
<1> DEFINE n == Len(stack)
<1>1. TypeOK /\ FramesInv /\ n \in Nat /\ stack \in Seq(Frame)
  BY FrameFacts DEF TypeInv, TypeOK
<1>2. PICK f : f \in Frame /\ f.list = << >> /\ stack' = Append(stack, f)
  BY DEF OpenEffect, Opens
<1>3. /\ Len(stack') = n + 1 /\ \A d \in 1 .. n : stack'[d] = stack[d]
      /\ stack'[n + 1] = f
  <2> HIDE DEF Frame
  <2> QED BY <1>1, <1>2
<1>4. part = << >> /\ part' = << >> /\ live' = live
  BY <1>1 DEF OpenEffect, FramesInv
<1> DEFINE old == Lists
           new == Lists'
<1>5. /\ \A d \in 1 .. n : new[d] = old[d]
      /\ \A d \in n + 1 .. n + 1 : old[d] = << >>
      /\ \A d \in n + 1 .. n + 2 : new[d] = << >>
  <2>1. \A d \in 1 .. n : new[d] = old[d]
    BY <1>1, <1>3 DEF Lists
  <2>2. old[n + 1] = << >>
    BY <1>1, <1>4 DEF Lists
  <2>3. new[n + 1] = << >>
    BY <1>1, <1>2, <1>3, <1>4 DEF Lists
  <2>4. new[n + 2] = << >>
    BY <1>1, <1>3, <1>4 DEF Lists
  <2> HIDE DEF old, new, n
  <2> QED BY <1>1, <2>1, <2>2, <2>3, <2>4
<1>6. Ascending(old, n + 1) /\ Contents(old, n + 1) = live
  BY DEF OwnInv
<1> HIDE DEF old, new, n
<1>7. Ascending(new, n + 2) /\ Contents(new, n + 2) = Contents(old, n + 1)
  <2> DEFINE a == n + 1
             b == n + 2
  <2>1. a \in Nat /\ b \in Nat
    BY <1>1
  <2>2. /\ \A d \in 1 .. a : d <= b => new[d] = old[d]
        /\ \A d \in b + 1 .. a : old[d] = << >>
        /\ \A d \in a + 1 .. b : new[d] = << >>
    BY <1>1, <1>5
  <2>3. Ascending(old, a)
    BY <1>6
  <2> HIDE DEF a, b
  <2>4. Ascending(new, b) /\ Contents(new, b) = Contents(old, a)
    BY <2>1, <2>2, <2>3, EmptyLists
  <2> QED BY <2>4 DEF a, b
<1>8. Len(stack') + 1 = n + 2
  BY <1>1, <1>3
<1> QED BY <1>4, <1>6, <1>7, <1>8 DEF OwnInv, new, Ascending, Contents

LEMMA LeaveOwnInv ==
  ASSUME TypeInv, OwnInv, LeaveEffect
  PROVE  OwnInv'
<1> DEFINE n == Len(stack)
<1>1. TypeOK /\ FramesInv /\ n \in Nat /\ n # 0 /\ stack \in Seq(Frame)
  <2>1. stack \in Seq(Frame) /\ stack # << >> /\ TypeOK /\ FramesInv
    BY DEF TypeInv, TypeOK, LeaveEffect
  <2> QED BY <2>1, FrameFacts
<1>2. /\ Len(stack') = n - 1 /\ \A d \in 1 .. n - 1 : stack'[d] = stack[d]
  <2>1. stack # << >>
    BY DEF LeaveEffect
  <2> HIDE DEF Frame
  <2> QED BY <1>1, <2>1, FrontFacts DEF LeaveEffect
<1>3. part = << >> /\ part' = stack[n].list /\ live' = live
  BY <1>1 DEF LeaveEffect, FramesInv, Top
<1> DEFINE old == Lists
           new == Lists'
<1>4. /\ \A d \in 1 .. n : new[d] = old[d]
      /\ \A d \in n + 1 .. n + 1 : old[d] = << >>
  <2>1. \A d \in 1 .. n - 1 : new[d] = old[d]
    BY <1>1, <1>2 DEF Lists
  <2>2. old[n + 1] = << >>
    BY <1>1, <1>3 DEF Lists
  <2>3. new[n] = stack[n].list /\ old[n] = stack[n].list
    BY <1>1, <1>2, <1>3 DEF Lists
  <2> HIDE DEF old, new, n
  <2> QED BY <1>1, <2>1, <2>2, <2>3
<1>5. Ascending(old, n + 1) /\ Contents(old, n + 1) = live
  BY DEF OwnInv
<1> HIDE DEF old, new, n
<1>6. Ascending(new, n) /\ Contents(new, n) = Contents(old, n + 1)
  <2> DEFINE a == n + 1
  <2>1. /\ a \in Nat /\ n \in Nat
        /\ \A d \in 1 .. a : d <= n => new[d] = old[d]
        /\ \A d \in n + 1 .. a : old[d] = << >>
        /\ \A d \in a + 1 .. n : new[d] = << >>
    BY <1>1, <1>4
  <2>2. Ascending(old, a)
    BY <1>5
  <2> HIDE DEF a
  <2>3. Ascending(new, n) /\ Contents(new, n) = Contents(old, a)
    BY <2>1, <2>2, EmptyLists
  <2> QED BY <2>3 DEF a
<1>7. Len(stack') + 1 = n
  BY <1>1, <1>2
<1> QED BY <1>3, <1>5, <1>6, <1>7 DEF OwnInv, new, Ascending, Contents

LEMMA TakeOwnInv ==
  ASSUME TypeInv, OwnInv, TakeEffect
  PROVE  OwnInv'
<1> DEFINE n == Len(stack)
<1>1. TypeOK /\ FramesInv /\ n \in Nat \ {0} /\ stack \in Seq(Frame) /\ n \in 1 .. n /\ Top \in Frame
  <2>1. stack \in Seq(Frame) /\ stack # << >> /\ TypeOK /\ FramesInv
    BY DEF TypeInv, TypeOK, TakeEffect
  <2> QED BY <2>1, FrameFacts
<1>2. PICK list \in Seq(Pointers), first \in BOOLEAN :
         /\ \/ ~ Top.dry /\ list = Top.list \o part /\ live' = live
            \/ /\ Top.dry /\ Top.list = << >> /\ list = << >>
               /\ live' = live \ {part[x] : x \in 1 .. Len(part)}
         /\ stack' = [stack EXCEPT ![n] = Onward([Top EXCEPT !.list = list, !.first = first])]
  BY DEF TakeEffect
<1>3. Onward([Top EXCEPT !.list = list, !.first = first]).list = list
  BY <1>1 DEF Onward, Frame
<1>4. /\ Len(stack') = n /\ \A d \in 1 .. n - 1 : stack'[d] = stack[d]
      /\ stack'[n].list = list
  <2> HIDE DEF Frame
  <2> QED BY <1>1, <1>2, <1>3
<1>5. part' = << >> /\ part \in Seq(Pointers) /\ Top.list \in Seq(Pointers)
  BY <1>1, FrameFacts DEF TakeEffect, TypeOK
<1> DEFINE old == Lists
           new == Lists'
<1>6. /\ \A d \in 1 .. n - 1 : new[d] = old[d]
      /\ old[n] = Top.list /\ old[n + 1] = part
      /\ new[n] = list /\ new[n + 1] = << >>
  <2>1. \A d \in 1 .. n - 1 : new[d] = old[d]
    BY <1>1, <1>4 DEF Lists
  <2>2. old[n + 1] = part /\ new[n + 1] = << >>
    BY <1>1, <1>4, <1>5 DEF Lists
  <2>3. new[n] = list /\ old[n] = Top.list
    BY <1>1, <1>4 DEF Lists, Top
  <2> QED BY <2>1, <2>2, <2>3
<1>7. Ascending(old, n + 1) /\ Contents(old, n + 1) = live
  BY DEF OwnInv
<1> HIDE DEF old, new, n
<1>8. Ascending(new, n + 1) /\ live' = Contents(new, n + 1)
  <2>1. CASE list = Top.list \o part /\ live' = live
    <3>1. new[n] = old[n] \o old[n + 1] /\ old[n] \in Seq(Pointers) /\ old[n + 1] \in Seq(Pointers)
      BY <1>5, <1>6, <2>1
    <3>2. Ascending(new, n + 1) /\ Contents(new, n + 1) = Contents(old, n + 1)
      BY <1>1, <1>6, <1>7, <3>1, LastAppended
    <3> QED BY <1>7, <2>1, <3>2
  <2>2. CASE /\ Top.list = << >> /\ list = << >>
             /\ live' = live \ {part[x] : x \in 1 .. Len(part)}
    <3> DEFINE a == n + 1
    <3>1. /\ \A d \in 1 .. n : d <= a => new[d] = old[d]
          /\ \A d \in a + 1 .. n : old[d] = << >>
          /\ \A d \in n + 1 .. a : new[d] = << >>
          /\ n \in Nat /\ a \in Nat
      BY <1>1, <1>6, <2>2
    <3>2. Ascending(old, n)
      <4>1. 1 .. n \subseteq 1 .. n + 1
        BY <1>1
      <4>2. Ascending(old, n + 1)
        BY <1>7
      <4> HIDE DEF n, old, new, a
      <4> QED BY <4>1, <4>2 DEF Ascending
    <3> HIDE DEF a
    <3>6. Ascending(new, a) /\ Contents(new, a) = Contents(old, n)
      BY <3>1, <3>2, EmptyLists
    <3>3. Ascending(new, n + 1) /\ Contents(new, n + 1) = Contents(old, n)
      BY <3>6 DEF a
    <3>4. ASSUME NEW v \in live'
          PROVE  v \in Contents(old, n)
      <4>1. PICK d \in 1 .. n + 1 : \E x \in 1 .. Len(old[d]) : v = old[d][x]
        BY <1>7, <2>2, ContentsMember
      <4>2. d # n + 1
        BY <1>6, <2>2, <4>1
      <4>3. d \in 1 .. n
        BY <1>1, <4>2
      <4> QED BY <4>1, <4>3, ContentsMember
    <3>5. ASSUME NEW v \in Contents(old, n)
          PROVE  v \in live'
      <4>1. PICK d \in 1 .. n : \E x \in 1 .. Len(old[d]) : v = old[d][x]
        BY ContentsMember
      <4>2. d \in 1 .. n + 1 /\ d < n + 1 /\ n + 1 \in 1 .. n + 1
        BY <1>1
      <4>3. v \in live
        BY <1>7, <4>1, <4>2, ContentsMember
      <4>4. \A x \in 1 .. Len(part) : v < part[x]
        BY <1>6, <1>7, <4>1, <4>2 DEF Ascending
      <4>5. v \in Nat
        BY <1>1, <4>3 DEF TypeOK, Pointers
      <4>6. \A x \in 1 .. Len(part) : v # part[x]
        BY <4>4, <4>5
      <4> QED BY <2>2, <4>3, <4>6
    <3> QED BY <3>3, <3>4, <3>5
  <2> QED BY <1>2, <2>1, <2>2
<1>9. Len(stack') + 1 = n + 1
  BY <1>4
<1> QED BY <1>8, <1>9 DEF OwnInv, new, Ascending, Contents

LEMMA CutOwnInv ==
  ASSUME TypeInv, OwnInv, Cut
  PROVE  OwnInv'
<1>1. TypeOK /\ part \in Seq(Pointers) /\ Len(part) \in Nat
  BY DEF TypeInv, TypeOK
<1>2. stack = << >> /\ stack' = << >> /\ Len(stack) = 0 /\ Len(stack') = 0
  BY CutFacts
<1>3. PICK x \in 0 .. Len(part) : /\ part' = SubSeq(part, 1, x)
                                  /\ live' = live \ {part[y] : y \in x + 1 .. Len(part)}
  BY CutFacts
<1>4. Len(part') = x /\ \A y \in 1 .. x : part'[y] = part[y]
  BY <1>1, <1>3
<1> DEFINE old == Lists
           new == Lists'
<1>5. old[1] = part /\ new[1] = part'
  BY <1>2 DEF Lists
<1>6. Ascending(old, 1) /\ Contents(old, 1) = live
  BY <1>2 DEF OwnInv
<1> HIDE DEF old, new
<1>7. \A y, z \in 1 .. Len(part) : y < z => part[y] < part[z]
  BY <1>5, <1>6 DEF Ascending
<1>8. Ascending(new, 1)
  <2>1. \A d \in 1 .. 1 : new[d] = part'
    BY <1>5
  <2>2. \A y, z \in 1 .. x : y < z => part'[y] < part'[z]
    BY <1>1, <1>4, <1>7
  <2> QED BY <1>4, <2>1, <2>2 DEF Ascending
<1>9. \A v : v \in live <=> \E y \in 1 .. Len(part) : v = part[y]
  BY <1>5, <1>6, ContentsMember
<1>10. \A v : v \in Contents(new, 1) <=> \E y \in 1 .. x : v = part[y]
  BY <1>4, <1>5, ContentsMember
<1>11. \A y \in 1 .. Len(part) : part[y] \in Nat
  BY <1>1 DEF Pointers
<1>12. ASSUME NEW v \in live'
       PROVE  v \in Contents(new, 1)
  <2>1. PICK y \in 1 .. Len(part) : v = part[y]
    BY <1>3, <1>9
  <2>2. y \in 1 .. x
    BY <1>1, <1>3, <2>1
  <2> QED BY <1>10, <2>1, <2>2
<1>13. ASSUME NEW v \in Contents(new, 1)
       PROVE  v \in live'
  <2>1. PICK y \in 1 .. x : v = part[y]
    BY <1>10
  <2>2. y \in 1 .. Len(part)
    BY <1>1
  <2>3. \A z \in x + 1 .. Len(part) : part[y] < part[z] /\ z \in 1 .. Len(part)
    BY <1>1, <1>7, <2>2
  <2>4. \A z \in x + 1 .. Len(part) : v # part[z]
    BY <1>11, <2>1, <2>2, <2>3
  <2> QED BY <1>3, <1>9, <2>1, <2>2, <2>4
<1>14. live' = Contents(new, 1)
  BY <1>12, <1>13
<1>15. Len(stack') + 1 = 1
  BY <1>2
<1> QED BY <1>8, <1>14, <1>15 DEF OwnInv, new, Ascending, Contents

LEMMA StepOwnInv == TypeInv /\ OwnInv /\ [Step]_vars => OwnInv'
<1> SUFFICES ASSUME TypeInv, OwnInv, [Step]_vars
             PROVE  OwnInv'
  OBVIOUS
<1>1. CASE UNCHANGED <<stack, part, live>>
  <2>1. Lists' = Lists /\ stack' = stack /\ live' = live
    BY <1>1 DEF Lists
  <2> QED BY <2>1 DEF OwnInv, Ascending, Contents
<1>2. CASE NextKid
  BY <1>1, <1>2 DEF NextKid, memory
<1>3. CASE UNCHANGED vars
  BY <1>1, <1>3 DEF vars, memory
<1> QED BY <1>2, <1>3, StepKinds, LeafOwnInv, OpenOwnInv, TakeOwnInv, LeaveOwnInv, CutOwnInv

(* Each place of Owned is a list and a position in it.                     *)
LEMMA PlaceFacts ==
  ASSUME NEW p \in Places
  PROVE  /\ p = <<p[1], p[2]>>
         /\ p[1] \in 1 .. Len(stack) + 1 /\ p[2] \in 1 .. Len(Lists[p[1]])
         /\ At(p) = Lists[p[1]][p[2]]
BY DEF Places, At

LEMMA PlacesOrdered ==
  ASSUME TypeInv, OwnInv, NEW p \in Places, NEW q \in Places
  PROVE  /\ At(p) \in Int /\ At(q) \in Int
         /\ p # q => Precedes(p, q) \/ Precedes(q, p)
<1>1. /\ p[1] \in 1 .. Len(stack) + 1 /\ p[2] \in 1 .. Len(Lists[p[1]])
      /\ q[1] \in 1 .. Len(stack) + 1 /\ q[2] \in 1 .. Len(Lists[q[1]])
      /\ p = <<p[1], p[2]>> /\ q = <<q[1], q[2]>>
  BY PlaceFacts
<1>2. p[1] \in Int /\ q[1] \in Int /\ p[2] \in Int /\ q[2] \in Int
  BY <1>1
<1>3. p # q => p[1] # q[1] \/ p[2] # q[2]
  BY <1>1
<1>4. p # q => Precedes(p, q) \/ Precedes(q, p)
  BY <1>2, <1>3 DEF Precedes
<1>5. live \subseteq Int
  <2>1. heap \in Seq(Entry) /\ live \subseteq 1 .. Len(heap)
    BY DEF TypeInv, TypeOK, Pointers
  <2> QED BY <2>1
<1>6. At(p) \in live /\ At(q) \in live
  BY PlaceFacts, ContentsMember DEF OwnInv
<1> QED BY <1>4, <1>5, <1>6

LEMMA PlacesAscend ==
  ASSUME OwnInv, NEW p \in Places, NEW q \in Places, Precedes(p, q)
  PROVE  At(p) < At(q)
<1>1. /\ p[1] \in 1 .. Len(stack) + 1 /\ p[2] \in 1 .. Len(Lists[p[1]])
      /\ q[1] \in 1 .. Len(stack) + 1 /\ q[2] \in 1 .. Len(Lists[q[1]])
      /\ At(p) = Lists[p[1]][p[2]] /\ At(q) = Lists[q[1]][q[2]]
  BY PlaceFacts
<1>2. Ascending(Lists, Len(stack) + 1)
  BY DEF OwnInv
<1>3. p[1] < q[1] \/ (p[1] = q[1] /\ p[2] < q[2])
  BY DEF Precedes
<1>4. Lists[p[1]][p[2]] < Lists[q[1]][q[2]]
  BY <1>1, <1>2, <1>3, AscendingAt
<1> QED BY <1>1, <1>4

LEMMA OwnedFromOwnInv == TypeInv /\ OwnInv => Owned
<1> SUFFICES ASSUME TypeInv, OwnInv
             PROVE  Owned
  OBVIOUS
<1> DEFINE m == Len(stack) + 1
<1>1. live = {At(p) : p \in Places}
  <2>1. ASSUME NEW v \in live
        PROVE  \E p \in Places : v = At(p)
    <3>1. PICK d \in 1 .. m : \E x \in 1 .. Len(Lists[d]) : v = Lists[d][x]
      BY ContentsMember DEF OwnInv
    <3>2. PICK x \in 1 .. Len(Lists[d]) : v = Lists[d][x]
      BY <3>1
    <3>3. <<d, x>> \in Places
      BY <3>1, <3>2 DEF Places
    <3>4. At(<<d, x>>) = v
      BY <3>2 DEF At
    <3> QED BY <3>3, <3>4
  <2>2. ASSUME NEW p \in Places
        PROVE  At(p) \in live
    BY PlaceFacts, ContentsMember DEF OwnInv
  <2> QED BY <2>1, <2>2
<1>2. ASSUME NEW p \in Places, NEW q \in Places, p # q
      PROVE  At(p) # At(q)
  <2>1. Precedes(p, q) \/ Precedes(q, p)
    BY <1>2, PlacesOrdered
  <2>2. At(p) < At(q) \/ At(q) < At(p)
    BY <2>1, PlacesAscend
  <2> QED BY <2>2, PlacesOrdered
<1> QED BY <1>1, <1>2 DEF Owned

(***************************************************************************)
(* Whatever dry runs and loops throw away, in songs nested to any depth,   *)
(* each event that is allocated is in exactly one list: main() can free    *)
(* all of them, and each of them once.                                     *)
(***************************************************************************)
THEOREM EventsAreOwned == Spec => []Owned
<1>1. Init => TypeInv /\ OwnInv
  BY InitTypeInv, InitOwnInv
<1>2. TypeInv /\ OwnInv /\ [Step]_vars => TypeInv' /\ OwnInv'
  BY StepTypeInv, StepOwnInv
<1> QED BY <1>1, <1>2, OwnedFromOwnInv, PTL DEF Spec

(***************************************************************************)
(* Time.  A dry run goes back to the offset at which it was entered, which *)
(* is where the events of the lists around it have got to at most.         *)
(***************************************************************************)
OrderInv ==
  /\ \A p \in live : heap[p].tick <= offset
  /\ \A p, q \in live : p < q => heap[p].tick <= heap[q].tick
  /\ \A d \in 1 .. Len(stack) : \A c \in 1 .. d - 1 : \A x \in 1 .. Len(stack[c].list) :
       heap[stack[c].list[x]].tick <= stack[d].old_offset

LEMMA TickFacts ==
  ASSUME TypeOK
  PROVE  /\ live \subseteq Pointers /\ Pointers \subseteq Nat /\ Len(heap) \in Nat
         /\ \A p \in Pointers : heap[p].tick \in Nat
         /\ \A c \in 1 .. Len(stack) : \A x \in 1 .. Len(stack[c].list) :
              stack[c].list[x] \in Pointers
<1>1. heap \in Seq(Entry) /\ live \subseteq Pointers
  BY DEF TypeOK
<1>2. \A p \in Pointers : heap[p] \in Entry
  BY <1>1 DEF Pointers
<1>3. ASSUME NEW c \in 1 .. Len(stack)
      PROVE  stack[c].list \in Seq(Pointers)
  BY FrameFacts
<1>4. \A c \in 1 .. Len(stack) : \A x \in 1 .. Len(stack[c].list) :
        stack[c].list[x] \in Pointers
  <2> HIDE DEF Pointers
  <2> QED BY <1>3
<1>5. \A p \in Pointers : heap[p].tick \in Nat
  BY <1>2 DEF Entry
<1>6. Pointers \subseteq Nat /\ Len(heap) \in Nat
  BY <1>1 DEF Pointers
<1> QED BY <1>1, <1>4, <1>5, <1>6

(* What stands in a list is live.                                          *)
LEMMA ListedIsLive ==
  ASSUME TypeInv, OwnInv, NEW c \in 1 .. Len(stack), NEW x \in 1 .. Len(stack[c].list)
  PROVE  stack[c].list[x] \in live
<1>1. Len(stack) \in Nat
  BY FrameFacts DEF TypeInv
<1>2. c \in 1 .. Len(stack) + 1 /\ Lists[c] = stack[c].list
  BY <1>1 DEF Lists
<1> QED BY <1>2, ContentsMember DEF OwnInv

LEMMA InitOrderInv == Init => OrderInv
<1> SUFFICES ASSUME Init
             PROVE  OrderInv
  OBVIOUS
<1>1. live = {} /\ Len(stack) = 0
  BY DEF Init
<1> QED BY <1>1 DEF OrderInv

LEMMA LeafOrderInv ==
  ASSUME TypeInv, OrderInv, LeafEffect
  PROVE  OrderInv'
<1>1. TypeOK /\ offset \in Nat /\ offset' \in Nat /\ offset <= offset' /\ stack' = stack
  BY DEF TypeInv, TypeOK, LeafEffect
<1>2. \A p \in Pointers : heap'[p].tick = heap[p].tick
  <2>1. CASE AllocatesNothing
    BY <2>1 DEF AllocatesNothing, SameEvents
  <2>2. CASE Allocates
    <3>1. PICK event : event \in Entry /\ heap' = Append(heap, event)
      BY <2>2 DEF Allocates, Fresh
    <3>2. heap \in Seq(Entry)
      BY <1>1 DEF TypeOK
    <3> QED BY <3>1, <3>2 DEF Pointers
  <2> QED BY <2>1, <2>2 DEF LeafEffect
<1>3. /\ \A p \in live' : heap'[p].tick <= offset'
      /\ \A p, q \in live' : p < q => heap'[p].tick <= heap'[q].tick
  <2>1. CASE AllocatesNothing
    BY <1>1, <1>2, <2>1, TickFacts DEF AllocatesNothing, OrderInv
  <2>2. CASE Allocates
    <3> DEFINE new == Len(heap) + 1
    <3>1. PICK event : /\ event \in Entry /\ event.tick = offset
                       /\ heap' = Append(heap, event)
                       /\ live' = live \cup {new}
      BY <2>2 DEF Allocates, Fresh
    <3>2. heap'[new].tick = offset /\ new \in Nat
      <4>1. heap \in Seq(Entry)
        BY <1>1 DEF TypeOK
      <4> QED BY <3>1, <4>1
    <3>3. \A p \in live : /\ p \in Nat /\ p < new
                          /\ heap'[p].tick = heap[p].tick /\ heap'[p].tick \in Nat
                          /\ heap'[p].tick <= offset
      BY <1>1, <1>2, TickFacts DEF OrderInv, Pointers
    <3> HIDE DEF new
    <3>4. ASSUME NEW p \in live'
          PROVE  heap'[p].tick <= offset'
      <4>1. CASE p \in live
        BY <1>1, <3>3, <4>1
      <4>2. CASE p = new
        BY <1>1, <3>2, <4>2
      <4> QED BY <3>1, <4>1, <4>2
    <3>5. ASSUME NEW p \in live', NEW q \in live', p < q
          PROVE  heap'[p].tick <= heap'[q].tick
      <4>1. p \in live
        BY <3>1, <3>2, <3>3, <3>5
      <4>2. CASE q \in live
        BY <3>3, <3>5, <4>1, <4>2 DEF OrderInv
      <4>3. CASE q = new
        BY <3>2, <3>3, <4>1, <4>3
      <4> QED BY <3>1, <4>2, <4>3
    <3> QED BY <3>4, <3>5
  <2> QED BY <2>1, <2>2 DEF LeafEffect
<1>4. \A d \in 1 .. Len(stack) : \A c \in 1 .. d - 1 : \A x \in 1 .. Len(stack[c].list) :
        heap'[stack[c].list[x]].tick <= stack[d].old_offset
  <2> TAKE d \in 1 .. Len(stack)
  <2> TAKE c \in 1 .. d - 1
  <2> TAKE x \in 1 .. Len(stack[c].list)
  <2>1. c \in 1 .. Len(stack)
    BY <1>1, FrameFacts
  <2>2. stack[c].list[x] \in Pointers
    BY <1>1, <2>1, TickFacts
  <2>3. heap[stack[c].list[x]].tick <= stack[d].old_offset
    BY DEF OrderInv
  <2> QED BY <1>2, <2>2, <2>3
<1> QED BY <1>1, <1>3, <1>4 DEF OrderInv

LEMMA OpenOrderInv ==
  ASSUME TypeInv, OwnInv, OrderInv, OpenEffect
  PROVE  OrderInv'
<1> DEFINE n == Len(stack)
<1>1. TypeOK /\ n \in Nat /\ stack \in Seq(Frame)
  BY FrameFacts DEF TypeInv, TypeOK
<1>2. PICK f : f \in Frame /\ f.old_offset = offset /\ stack' = Append(stack, f)
  BY DEF OpenEffect, Opens
<1>3. /\ Len(stack') = n + 1 /\ \A d \in 1 .. n : stack'[d] = stack[d]
      /\ stack'[n + 1] = f
  <2> HIDE DEF Frame
  <2> QED BY <1>1, <1>2
<1>4. UNCHANGED <<heap, live, offset>>
  BY DEF OpenEffect
<1>5. ASSUME NEW d \in 1 .. n + 1, NEW c \in 1 .. d - 1, NEW x \in 1 .. Len(stack'[c].list)
      PROVE  heap[stack'[c].list[x]].tick <= stack'[d].old_offset
  <2>1. c \in 1 .. n /\ stack'[c] = stack[c]
    BY <1>1, <1>3
  <2>2. CASE d \in 1 .. n
    BY <1>3, <2>1, <2>2 DEF OrderInv
  <2>3. CASE d = n + 1
    <3>1. stack[c].list[x] \in live
      BY <2>1, ListedIsLive
    <3> QED BY <1>2, <1>3, <2>1, <2>3, <3>1 DEF OrderInv
  <2> QED BY <1>1, <2>2, <2>3
<1> QED BY <1>3, <1>4, <1>5 DEF OrderInv

LEMMA TakeOrderInv ==
  ASSUME TypeInv, OrderInv, TakeEffect
  PROVE  OrderInv'
<1> DEFINE n == Len(stack)
<1>1. TypeOK /\ n \in Nat /\ stack \in Seq(Frame) /\ n \in 1 .. n /\ Top \in Frame
  <2>1. stack \in Seq(Frame) /\ stack # << >> /\ TypeOK
    BY DEF TypeInv, TypeOK, TakeEffect
  <2> QED BY <2>1, FrameFacts
<1>2. PICK list \in Seq(Pointers), first \in BOOLEAN :
         /\ live' \subseteq live
         /\ stack' = [stack EXCEPT ![n] = Onward([Top EXCEPT !.list = list, !.first = first])]
  BY DEF TakeEffect
<1> DEFINE g == Onward([Top EXCEPT !.list = list, !.first = first])
<1>3. g.old_offset = Top.old_offset
  BY <1>1 DEF Onward, Frame
<1> HIDE DEF g
<1>4. /\ Len(stack') = n /\ \A d \in 1 .. n - 1 : stack'[d] = stack[d]
      /\ stack'[n] = g
  <2> HIDE DEF Frame
  <2> QED BY <1>1, <1>2 DEF g
<1>5. offset' = offset /\ \A p \in Pointers : heap'[p].tick = heap[p].tick
  BY DEF TakeEffect, SameEvents, context
<1>6. /\ \A p \in live' : heap'[p].tick <= offset'
      /\ \A p, q \in live' : p < q => heap'[p].tick <= heap'[q].tick
  <2>1. \A p \in live' : p \in live /\ heap'[p].tick = heap[p].tick
    BY <1>1, <1>2, <1>5, TickFacts
  <2> QED BY <1>5, <2>1 DEF OrderInv
<1>7. ASSUME NEW d \in 1 .. n, NEW c \in 1 .. d - 1, NEW x \in 1 .. Len(stack'[c].list)
      PROVE  heap'[stack'[c].list[x]].tick <= stack'[d].old_offset
  <2>1. c \in 1 .. n /\ c \in 1 .. n - 1 /\ stack'[c] = stack[c]
    BY <1>1, <1>4
  <2>2. stack'[d].old_offset = stack[d].old_offset
    BY <1>1, <1>3, <1>4 DEF Top
  <2>3. stack[c].list[x] \in Pointers
    BY <1>1, <2>1, TickFacts
  <2>4. heap[stack[c].list[x]].tick <= stack[d].old_offset
    BY <2>1 DEF OrderInv
  <2> QED BY <1>5, <2>1, <2>2, <2>3, <2>4
<1> QED BY <1>4, <1>6, <1>7 DEF OrderInv

LEMMA LeaveOrderInv ==
  ASSUME TypeInv, OwnInv, OrderInv, LeaveEffect
  PROVE  OrderInv'
<1> DEFINE n == Len(stack)
<1>1. TypeOK /\ FramesInv /\ n \in Nat /\ n # 0 /\ stack \in Seq(Frame) /\ stack # << >>
  <2>1. stack \in Seq(Frame) /\ stack # << >> /\ TypeOK /\ FramesInv
    BY DEF TypeInv, TypeOK, LeaveEffect
  <2> QED BY <2>1, FrameFacts
<1>2. /\ Len(stack') = n - 1 /\ \A d \in 1 .. n - 1 : stack'[d] = stack[d]
  <2> HIDE DEF Frame
  <2> QED BY <1>1, FrontFacts DEF LeaveEffect
<1>3. UNCHANGED <<heap, live>> /\ part = << >>
  BY <1>1 DEF LeaveEffect, FramesInv
<1>4. ASSUME NEW p \in live
      PROVE  heap[p].tick <= offset'
  <2>1. CASE offset' = offset
    BY <2>1 DEF OrderInv
  <2>2. CASE offset' = Top.old_offset /\ Top.dry
    <3>1. PICK c \in 1 .. n + 1 : \E x \in 1 .. Len(Lists[c]) : p = Lists[c][x]
      BY ContentsMember DEF OwnInv
    <3>2. c # n + 1
      BY <1>1, <1>3, <3>1 DEF Lists
    <3>3. Lists[c] = stack[c].list /\ c \in 1 .. n
      BY <1>1, <3>2 DEF Lists
    <3>4. Top.list = << >>
      BY <1>1, <2>2 DEF FramesInv, Top
    <3>5. c # n
      BY <3>1, <3>3, <3>4 DEF Top
    <3>6. n \in 1 .. n /\ c \in 1 .. n - 1
      BY <1>1, <3>3, <3>5
    <3> QED BY <2>2, <3>1, <3>3, <3>6 DEF OrderInv, Top
  <2> QED BY <2>1, <2>2 DEF LeaveEffect
<1>5. ASSUME NEW d \in 1 .. n - 1, NEW c \in 1 .. d - 1, NEW x \in 1 .. Len(stack'[c].list)
      PROVE  heap[stack'[c].list[x]].tick <= stack'[d].old_offset
  <2>1. d \in 1 .. n /\ c \in 1 .. n - 1 /\ stack'[c] = stack[c] /\ stack'[d] = stack[d]
    BY <1>1, <1>2
  <2> QED BY <2>1 DEF OrderInv
<1> QED BY <1>2, <1>3, <1>4, <1>5 DEF OrderInv

LEMMA CutOrderInv ==
  ASSUME OrderInv, Cut, TypeInv
  PROVE  OrderInv'
<1>1. /\ UNCHANGED <<heap, offset, stack>> /\ Len(stack) = 0
      /\ live' \subseteq live
  BY CutFacts DEF context
<1> QED BY <1>1 DEF OrderInv

LEMMA StepOrderInv == TypeInv /\ OwnInv /\ OrderInv /\ [Step]_vars => OrderInv'
<1> SUFFICES ASSUME TypeInv, OwnInv, OrderInv, [Step]_vars
             PROVE  OrderInv'
  OBVIOUS
<1>1. CASE UNCHANGED <<heap, live, offset, stack>>
  BY <1>1 DEF OrderInv
<1>2. CASE NextKid
  BY <1>1, <1>2 DEF NextKid, memory
<1>3. CASE UNCHANGED vars
  BY <1>1, <1>3 DEF vars, memory, context
<1> QED BY <1>2, <1>3, StepKinds, LeafOrderInv, OpenOrderInv, TakeOrderInv, LeaveOrderInv,
           CutOrderInv

(***************************************************************************)
(* However sheets are nested, repeated, referred to and switched off, the  *)
(* events come in the order of their ticks.                                *)
(***************************************************************************)
THEOREM ListsInTickOrder == Spec => []InTickOrder
<1>1. Init => TypeInv /\ OwnInv /\ OrderInv
  BY InitTypeInv, InitOwnInv, InitOrderInv
<1>2. TypeInv /\ OwnInv /\ OrderInv /\ [Step]_vars => TypeInv' /\ OwnInv' /\ OrderInv'
  BY StepTypeInv, StepOwnInv, StepOrderInv
<1>3. TypeInv /\ OwnInv /\ OrderInv => InTickOrder
  <2> SUFFICES ASSUME TypeInv, OwnInv, OrderInv, NEW p \in Places
               PROVE  /\ heap[At(p)].tick <= offset
                      /\ \A q \in Places :
                           Precedes(p, q) => heap[At(p)].tick <= heap[At(q)].tick
    BY DEF InTickOrder
  <2>1. \A q \in Places : At(q) \in live
    BY PlaceFacts, ContentsMember DEF OwnInv
  <2> QED BY <2>1, PlacesAscend DEF OrderInv
<1> QED BY <1>1, <1>2, <1>3, PTL DEF Spec

-------------------------------------------------------------------------------
(***************************************************************************)
(* What translate() returns, and its context.                              *)
(***************************************************************************)
LEMMA StepCases ==
  ASSUME TypeInv, Step
  PROVE  \/ LeafEffect
         \/ (Crate \/ Legato \/ Sheet \/ Reference) /\ OpenEffect
         \/ NextKid
         \/ AppendPart /\ TakeEffect
         \/ FreePart /\ TakeEffect
         \/ LeaveEffect
         \/ Cut
BY LeafFacts, OpenFacts, AppendPartFacts, FreePartFacts, LeaveFacts DEF Step

(***************************************************************************)
(* The stack after each kind of step.                                      *)
(***************************************************************************)
LEMMA FieldFacts ==
  ASSUME TypeOK, NEW d \in 1 .. Len(stack)
  PROVE  /\ stack[d].node \in 1 .. Len(ast) /\ stack[d].count \in Nat \ {0}
         /\ stack[d].i \in Nat \ {0} /\ stack[d].j \in Nat \ {0}
         /\ stack[d].old_offset \in Nat /\ stack[d].born \in Nat
         /\ stack[d].list \in Seq(Pointers)
         /\ stack[d].loop \in BOOLEAN /\ stack[d].dry \in BOOLEAN /\ stack[d].first \in BOOLEAN
BY FrameFacts DEF Frame

LEMMA OpenShape ==
  ASSUME TypeInv, OpenEffect
  PROVE  /\ Len(stack) \in Nat /\ Len(stack') = Len(stack) + 1
         /\ \A d \in 1 .. Len(stack) : stack'[d] = stack[d]
         /\ Opens(stack'[Len(stack) + 1])
         /\ part = << >> /\ part' = << >>
<1>1. PICK f : Opens(f) /\ stack' = Append(stack, f)
  BY DEF OpenEffect
<1>2. TypeOK /\ FramesInv /\ Len(stack) \in Nat /\ stack \in Seq(Frame)
  BY FrameFacts DEF TypeInv, TypeOK
<1>3. f \in Frame
  BY <1>1 DEF Opens
<1>4. /\ Len(stack') = Len(stack) + 1 /\ stack'[Len(stack) + 1] = f
      /\ \A d \in 1 .. Len(stack) : stack'[d] = stack[d]
  <2> HIDE DEF Frame
  <2> QED BY <1>1, <1>2, <1>3
<1> QED BY <1>1, <1>2, <1>4 DEF OpenEffect, FramesInv

LEMMA LeaveShape ==
  ASSUME TypeInv, LeaveEffect
  PROVE  /\ Len(stack) \in Nat /\ Len(stack) >= 1 /\ Len(stack') = Len(stack) - 1
         /\ \A d \in 1 .. Len(stack) - 1 : stack'[d] = stack[d]
         /\ part = << >> /\ part' = stack[Len(stack)].list
<1>1. TypeOK /\ FramesInv /\ stack \in Seq(Frame) /\ stack # << >>
  BY DEF TypeInv, TypeOK, LeaveEffect
<1> HIDE DEF Frame
<1>2. Len(stack) \in Nat /\ Len(stack) >= 1
  BY <1>1
<1> QED BY <1>1, <1>2, FrontFacts DEF LeaveEffect, FramesInv, Top

LEMMA TakeShape ==
  ASSUME TypeInv, TakeEffect
  PROVE  LET n == Len(stack)
         IN  /\ n \in Nat /\ n >= 1 /\ Len(stack') = n
             /\ \A d \in 1 .. n - 1 : stack'[d] = stack[d]
             /\ stack'[n].node = stack[n].node /\ stack'[n].count = stack[n].count
             /\ stack'[n].loop = stack[n].loop /\ stack'[n].dry = stack[n].dry
             /\ stack'[n].born = stack[n].born
             /\ stack'[n].old_offset = stack[n].old_offset
             /\ stack'[n].old_divider = stack[n].old_divider
             /\ stack'[n].refers = stack[n].refers
             /\ stack'[n].i = IF LastKid(stack[n]) THEN stack[n].i + 1 ELSE stack[n].i
             /\ stack'[n].list = IF stack[n].dry THEN << >> ELSE stack[n].list \o part
             /\ part' = << >>
<1> DEFINE n == Len(stack)
<1>1. TypeOK /\ FramesInv /\ stack # << >> /\ Top \in Frame /\ n \in 1 .. n
      /\ stack \in Seq(Frame) /\ n \in Nat
  BY FrameFacts DEF TypeInv, TakeEffect, TypeOK
<1>2. PICK list \in Seq(Pointers), first \in BOOLEAN :
         /\ list = IF Top.dry THEN << >> ELSE Top.list \o part
         /\ stack' = [stack EXCEPT ![n] = Onward([Top EXCEPT !.list = list, !.first = first])]
  BY DEF TakeEffect
<1> DEFINE f == [Top EXCEPT !.list = list, !.first = first]
           g == Onward(f)
<1>3. /\ f \in Frame /\ f.list = list /\ f.node = Top.node /\ f.count = Top.count
      /\ f.loop = Top.loop /\ f.dry = Top.dry /\ f.born = Top.born
      /\ f.old_offset = Top.old_offset /\ f.i = Top.i /\ f.j = Top.j
      /\ f.old_divider = Top.old_divider /\ f.refers = Top.refers
  BY <1>1, <1>2 DEF Frame
<1>4. LastKid(f) = LastKid(Top)
  BY <1>3 DEF LastKid, Kids
<1> HIDE DEF f
<1>5. /\ g \in Frame /\ g.list = list /\ g.node = Top.node /\ g.count = Top.count
      /\ g.loop = Top.loop /\ g.dry = Top.dry /\ g.born = Top.born
      /\ g.old_offset = Top.old_offset
      /\ g.old_divider = Top.old_divider /\ g.refers = Top.refers
      /\ g.i = IF LastKid(Top) THEN Top.i + 1 ELSE Top.i
  <2>1. f.i + 1 \in Nat \ {0} /\ f.j + 1 \in Nat \ {0} /\ 1 \in Nat \ {0}
    BY <1>3 DEF Frame
  <2>2. CASE LastKid(f)
    <3>1. g = [f EXCEPT !.i = f.i + 1, !.j = 1]
      BY <2>2, Zenon DEF Onward
    <3> HIDE DEF g
    <3> QED BY <1>3, <1>4, <2>1, <2>2, <3>1 DEF Frame
  <2>3. CASE ~ LastKid(f)
    <3>1. g = [f EXCEPT !.j = f.j + 1]
      BY <2>3, Zenon DEF Onward
    <3> HIDE DEF g
    <3> QED BY <1>3, <1>4, <2>1, <2>3, <3>1 DEF Frame
  <2> QED BY <2>2, <2>3
<1> HIDE DEF g
<1>6. stack' = [stack EXCEPT ![n] = g]
  BY <1>2 DEF f, g
<1>7. Len(stack') = n /\ stack'[n] = g /\ \A d \in 1 .. n - 1 : stack'[d] = stack[d]
  <2> HIDE DEF Frame
  <2> QED BY <1>1, <1>5, <1>6
<1>8. Top = stack[n] /\ part' = << >>
  BY DEF Top, TakeEffect
<1> QED BY <1>1, <1>2, <1>5, <1>7, <1>8

(***************************************************************************)
(* The way through the tree: the crate is the frame at the bottom and no   *)
(* other, it is gone through once, and while a child of it is open that is *)
(* not the last, which is the end of the input.                            *)
(***************************************************************************)
PathInv ==
  /\ \A s \in 1 .. Len(sheets) : sheets[s].node # 1
  /\ mode = "done" => stack = << >>
  /\ mode = "call" => arg = IF stack = << >> THEN 1 ELSE Kids(Top)[Top.j]
  /\ \A d \in 1 .. Len(stack) :
       /\ stack[d].node = 1 <=> d = 1
       /\ d < Len(stack) \/ mode # "loop" => ~ Finished(stack[d])
  /\ stack # << >> => stack[1].count = 1 /\ ~ stack[1].dry
  /\ Len(stack) >= 2 => stack[1].j # Len(Kids(stack[1]))

LEMMA InitPathInv == Init => PathInv
BY DEF Init, PathInv

LEMMA CalledNode ==
  ASSUME TypeInv, PathInv, mode = "call"
  PROVE  /\ stack = << >> => arg = 1
         /\ stack # << >> =>
              /\ arg # 1
              /\ ast[arg].type = "EOF" <=> Top.node = 1 /\ LastKid(Top)
<1>1. TypeOK /\ FramesInv /\ IsSong(ast)
  BY DEF TypeInv, TypeOK
<1> SUFFICES ASSUME stack # << >>
             PROVE  arg # 1 /\ (ast[arg].type = "EOF" <=> Top.node = 1 /\ LastKid(Top))
  BY DEF PathInv
<1> DEFINE n == Len(stack)
           kids == Kids(Top)
<1>2. n \in 1 .. n /\ Top = stack[n] /\ Top \in Frame
  BY <1>1, FrameFacts DEF Top
<1>3. kids # << >> /\ arg = kids[Top.j]
  BY <1>2 DEF PathInv, Finished
<1>4. kids \in Seq(2 .. Len(ast)) /\ Top.j \in Nat \ {0} /\ Top.node \in 1 .. Len(ast)
      /\ kids = ast[Top.node].kids
  BY <1>1, <1>2, FrameFacts, FieldFacts DEF Kids
<1>5. Top.j \in 1 .. Len(kids)
  BY <1>1, <1>2, <1>3, <1>4 DEF FramesInv
<1>6. arg \in 2 .. Len(ast)
  BY <1>3, <1>4, <1>5
<1>7. ast[kids[Top.j]].type = "EOF" <=> Top.node = 1 /\ Top.j = Len(ast[1].kids)
  BY <1>1, <1>4, <1>5 DEF IsSong
<1>8. LastKid(Top) <=> Top.j = Len(kids)
  BY DEF LastKid
<1> HIDE DEF kids
<1> QED BY <1>3, <1>4, <1>6, <1>7, <1>8

LEMMA LeafPathInv ==
  ASSUME TypeInv, PathInv, LeafEffect
  PROVE  PathInv'
<1>1. TypeOK /\ UNCHANGED <<stack, sheets>> /\ mode = "call" /\ mode' = "return" /\ SameTree
  BY DEF TypeInv, LeafEffect
<1>2. ASSUME NEW d \in 1 .. Len(stack)
      PROVE  Kids(stack[d])' = Kids(stack[d])
  BY <1>1, FieldFacts DEF Kids, SameTree
<1>3. \A d \in 1 .. Len(stack) : Finished(stack[d])' <=> Finished(stack[d])
  BY <1>1, <1>2 DEF Finished
<1>4. stack # << >> => 1 \in 1 .. Len(stack)
  BY <1>1 DEF TypeOK
<1> QED BY <1>1, <1>2, <1>3, <1>4 DEF PathInv

LEMMA OpenNodes ==
  ASSUME TypeInv, PathInv, OpenEffect, Crate \/ Legato \/ Sheet \/ Reference
  PROVE  /\ ast[arg].type # "EOF"
         /\ stack'[Len(stack) + 1].node = 1 <=> arg = 1
         /\ arg = 1 => stack'[Len(stack) + 1].count = 1 /\ ~ stack'[Len(stack) + 1].dry
         /\ \A s \in 1 .. Len(sheets') : sheets'[s].node # 1
<1>1. TypeOK /\ IsSong(ast) /\ arg \in 1 .. Len(ast) /\ stack \in Seq(Frame)
      /\ sheets \in Seq(SheetEntry)
  BY DEF TypeInv, TypeOK
<1>2. ast[arg].type = "CRATE" <=> arg = 1
  BY <1>1 DEF IsSong
<1> DEFINE n == Len(stack)
<1>3. \A f : stack' = Append(stack, f) => stack'[n + 1] = f
  <2> HIDE DEF Frame
  <2> QED BY <1>1
<1>4. CASE Crate \/ Legato
  <2>1. stack'[n + 1] = OpenFrame(arg, 1, divider, FALSE) /\ sheets' = sheets
    BY <1>3, <1>4 DEF Crate, Legato, Push
  <2>2. divider \in Divisions /\ 1 \in Int /\ FALSE \in BOOLEAN
    BY DEF TypeInv, TypeOK
  <2>5. ASSUME NEW count \in Int, count = 1
        PROVE  LET f == OpenFrame(arg, count, divider, FALSE)
               IN  f.node = arg /\ f.count = 1 /\ ~ f.dry
    <3> DEFINE f == OpenFrame(arg, count, divider, FALSE)
    <3>1. f.node = arg /\ (f.count = IF count <= 0 THEN 1 ELSE count) /\ (f.dry <=> count = 0)
      BY <1>1, <2>2, OpenFrameFacts
    <3> HIDE DEF f
    <3>2. f.node = arg /\ f.count = 1 /\ ~ f.dry
      BY <2>5, <3>1
    <3> QED BY <3>2 DEF f
  <2>4. stack'[n + 1].node = arg /\ stack'[n + 1].count = 1 /\ ~ stack'[n + 1].dry
    BY <2>1, <2>2, <2>5
  <2>3. ast[arg].type \in {"CRATE", "LEGATO"}
    BY <1>4 DEF Crate, Legato, Called
  <2> QED BY <2>1, <2>3, <2>4 DEF PathInv
<1>6. CASE Sheet
  <2>1. ast[arg].type = "SHEET" /\ arg # 1
    BY <1>2, <1>6 DEF Sheet, Called
  <2>2. stack'[n + 1].node = arg
    BY <1>3, <1>6 DEF Sheet, Push, OpenFrame
  <2>3. \A s \in 1 .. Len(sheets') : sheets'[s].node # 1
    <3>1. CASE sheets' = sheets
      BY <3>1 DEF PathInv
    <3>2. CASE sheets' = Append(sheets, SheetReference(arg, namespace'))
      <4>1. SheetReference(arg, namespace').node = arg
        BY DEF SheetReference
      <4> HIDE DEF SheetEntry
      <4>2. \A s \in 1 .. Len(sheets') : \/ s \in 1 .. Len(sheets) /\ sheets'[s] = sheets[s]
                                         \/ sheets'[s] = SheetReference(arg, namespace')
        BY <1>1, <3>2
      <4> QED BY <2>1, <4>1, <4>2 DEF PathInv
    <3> QED BY <1>6, <3>1, <3>2 DEF Sheet
  <2> QED BY <2>1, <2>2, <2>3
<1>7. CASE Reference
  <2>1. ast[arg].type = "REFERENCE" /\ arg # 1 /\ sheets' = sheets
    BY <1>2, <1>7 DEF Reference, Called
  <2>2. PICK s \in Found(ast[arg].label) :
           Push(OpenFrame(sheets[s].node, ast[arg].repeat_count, sheets[s].divider, TRUE))
    BY <1>7 DEF Reference
  <2>3. s \in 1 .. Len(sheets)
    BY DEF Found, Matches
  <2>4. stack'[n + 1].node = sheets[s].node
    BY <1>3, <2>2 DEF Push, OpenFrame
  <2> QED BY <2>1, <2>3, <2>4 DEF PathInv
<1> QED BY <1>4, <1>6, <1>7

LEMMA OpenPathInv ==
  ASSUME TypeInv, PathInv, OpenEffect, Crate \/ Legato \/ Sheet \/ Reference
  PROVE  PathInv'
<1> DEFINE n == Len(stack)
<1>1. /\ n \in Nat /\ Len(stack') = n + 1 /\ \A d \in 1 .. n : stack'[d] = stack[d]
      /\ ast' = ast /\ mode = "call" /\ mode' = "loop"
  BY OpenShape DEF OpenEffect
<1>2. stack = << >> <=> n = 0
  BY DEF TypeInv, TypeOK
<1>3. /\ stack'[n + 1].node = 1 <=> arg = 1
      /\ arg = 1 <=> n = 0
      /\ n = 0 => stack'[1].count = 1 /\ ~ stack'[1].dry
      /\ \A s \in 1 .. Len(sheets') : sheets'[s].node # 1
  BY <1>1, <1>2, OpenNodes, CalledNode
<1>4. ASSUME NEW d \in 1 .. n
      PROVE  /\ Kids(stack[d])' = Kids(stack[d])
             /\ Finished(stack[d])' <=> Finished(stack[d])
  <2>1. stack'[d] = stack[d]
    BY <1>1
  <2>2. Kids(stack[d])' = Kids(stack[d])
    BY <1>1, <2>1 DEF Kids
  <2> QED BY <2>1, <2>2 DEF Finished
<1>5. ASSUME NEW d \in 1 .. n + 1
      PROVE  /\ (stack[d].node = 1)' <=> d = 1
             /\ d < n + 1 => ~ Finished(stack[d])'
  <2>1. CASE d = n + 1
    BY <1>1, <1>3, <2>1
  <2>2. CASE d \in 1 .. n
    BY <1>1, <1>4, <2>2 DEF PathInv
  <2> QED BY <1>1, <2>1, <2>2
<1>6. stack'[1].count = 1 /\ ~ stack'[1].dry
  BY <1>1, <1>2, <1>3 DEF PathInv
<1>7. ASSUME n >= 1
      PROVE  (stack[1].j # Len(Kids(stack[1])))'
  <2>3. n \in Nat
    BY <1>1
  <2>0. n = 1 \/ n >= 2
    <3> HIDE DEF n
    <3> QED BY <1>7, <2>3
  <2> HIDE DEF n
  <2>1. CASE n >= 2
    <3>1. 1 \in 1 .. n
      BY <1>1, <2>1
    <3> QED BY <1>1, <1>4, <2>1, <3>1 DEF PathInv, n
  <2>2. CASE n = 1
    <3>1. stack # << >> /\ Top = stack[1] /\ stack'[1] = stack[1] /\ 1 \in 1 .. n
      BY <1>1, <1>2, <2>2 DEF Top, n
    <3>2. ~ (Top.node = 1 /\ LastKid(Top))
      BY <1>1, <3>1, CalledNode, OpenNodes
    <3>3. Top.node = 1
      BY <2>2, <3>1 DEF PathInv, n
    <3>4. Top.j # Len(ast[Top.node].kids)
      BY <3>2, <3>3 DEF LastKid, Kids
    <3> QED BY <1>1, <3>1, <3>4 DEF Kids
  <2> QED BY <2>0, <2>1, <2>2
<1> HIDE DEF n
<1> QED BY <1>1, <1>3, <1>5, <1>6, <1>7 DEF PathInv

LEMMA NextKidPathInv ==
  ASSUME TypeInv, PathInv, NextKid
  PROVE  PathInv'
<1>1. /\ UNCHANGED <<stack, sheets, ast>> /\ mode = "loop" /\ mode' = "call"
      /\ arg' = Kids(Top)[Top.j] /\ ~ Finished(Top) /\ stack # << >>
      /\ Len(stack) \in Nat
  BY FrameFacts DEF NextKid, memory, TypeInv, FramesInv
<1>2. \A d \in 1 .. Len(stack) : ~ Finished(stack[d])
  BY <1>1 DEF PathInv, Top
<1>3. /\ \A h : Kids(h)' = Kids(h)
      /\ \A h : Finished(h)' <=> Finished(h)
      /\ Top' = Top
  BY <1>1 DEF Kids, Finished, Top
<1> QED BY <1>1, <1>2, <1>3 DEF PathInv

LEMMA TakePathInv ==
  ASSUME TypeInv, PathInv, TakeEffect
  PROVE  PathInv'
<1> DEFINE n == Len(stack)
<1>1. /\ n \in Nat /\ n >= 1 /\ Len(stack') = n
      /\ \A d \in 1 .. n - 1 : stack'[d] = stack[d]
      /\ stack'[n].node = stack[n].node /\ stack'[n].count = stack[n].count
      /\ stack'[n].dry = stack[n].dry
  BY TakeShape
<1>2. UNCHANGED <<ast, sheets>> /\ mode = "return" /\ mode' = "loop" /\ stack # << >>
  BY DEF TakeEffect, context
<1>3. ASSUME NEW d \in 1 .. n - 1
      PROVE  /\ Kids(stack[d])' = Kids(stack[d])
             /\ Finished(stack[d])' <=> Finished(stack[d])
  <2>1. stack'[d] = stack[d]
    BY <1>1
  <2>2. Kids(stack[d])' = Kids(stack[d])
    BY <1>2, <2>1 DEF Kids
  <2> QED BY <2>1, <2>2 DEF Finished
<1>4. ASSUME NEW d \in 1 .. n
      PROVE  /\ (stack[d].node = 1)' <=> d = 1
             /\ d < n => ~ Finished(stack[d])'
  <2>1. CASE d = n
    BY <1>1, <2>1 DEF PathInv
  <2>2. CASE d \in 1 .. n - 1
    <3>1. d \in 1 .. n /\ d < n
      BY <1>1, <2>2
    <3> QED BY <1>1, <1>3, <2>2, <3>1 DEF PathInv
  <2> QED BY <1>1, <2>1, <2>2
<1>5. stack'[1].count = 1 /\ ~ stack'[1].dry
  <2>1. CASE n = 1
    BY <1>1, <1>2, <2>1 DEF PathInv
  <2>2. CASE n # 1
    <3>1. 1 \in 1 .. n - 1
      BY <1>1, <2>2
    <3> QED BY <1>1, <1>2, <3>1 DEF PathInv
  <2> QED BY <2>1, <2>2
<1>6. ASSUME n >= 2
      PROVE  (stack[1].j # Len(Kids(stack[1])))'
  <2>1. 1 \in 1 .. n - 1
    BY <1>1, <1>6
  <2> QED BY <1>1, <1>3, <1>6, <2>1 DEF PathInv
<1> HIDE DEF n
<1> QED BY <1>1, <1>2, <1>4, <1>5, <1>6 DEF PathInv

LEMMA LeavePathInv ==
  ASSUME TypeInv, PathInv, LeaveEffect
  PROVE  PathInv'
<1> DEFINE n == Len(stack)
<1>1. /\ n \in Nat /\ n >= 1 /\ Len(stack') = n - 1
      /\ \A d \in 1 .. n - 1 : stack'[d] = stack[d]
  BY LeaveShape
<1>2. UNCHANGED <<ast, sheets>> /\ mode' = "return" /\ stack # << >>
  BY DEF LeaveEffect
<1>3. ASSUME NEW d \in 1 .. n - 1
      PROVE  /\ Kids(stack[d])' = Kids(stack[d])
             /\ Finished(stack[d])' <=> Finished(stack[d])
  <2>1. stack'[d] = stack[d]
    BY <1>1
  <2>2. Kids(stack[d])' = Kids(stack[d])
    BY <1>2, <2>1 DEF Kids
  <2> QED BY <2>1, <2>2 DEF Finished
<1>4. ASSUME NEW d \in 1 .. n - 1
      PROVE  ((stack[d].node = 1)' <=> d = 1) /\ ~ Finished(stack[d])'
  <2>1. d \in 1 .. n /\ d < n
    BY <1>1
  <2> QED BY <1>1, <1>3, <2>1 DEF PathInv
<1>5. ASSUME n - 1 >= 1
      PROVE  stack'[1].count = 1 /\ ~ stack'[1].dry /\ (stack[1].j # Len(Kids(stack[1])))'
  <2>1. 1 \in 1 .. n - 1 /\ n >= 2
    BY <1>1, <1>5
  <2> QED BY <1>1, <1>2, <1>3, <2>1 DEF PathInv
<1>6. stack' # << >> => n - 1 >= 1
  <2>1. stack' \in Seq(Frame')
    BY LeaveTypeInv DEF TypeInv, TypeOK
  <2> HIDE DEF Frame
  <2> QED BY <1>1, <2>1
<1> HIDE DEF n
<1> QED BY <1>1, <1>2, <1>4, <1>5, <1>6 DEF PathInv

LEMMA CutPathInv ==
  ASSUME TypeInv, PathInv, Cut
  PROVE  PathInv'
<1>1. UNCHANGED <<stack, sheets>> /\ stack = << >> /\ mode' = "done"
  BY CutFacts DEF context
<1> QED BY <1>1 DEF PathInv

LEMMA StepPathInv == TypeInv /\ PathInv /\ [Step]_vars => PathInv'
<1> SUFFICES ASSUME TypeInv, PathInv, [Step]_vars
             PROVE  PathInv'
  OBVIOUS
<1>1. CASE UNCHANGED vars
  BY <1>1 DEF vars, memory, context, PathInv, Kids, Finished, Top
<1> QED BY <1>1, StepCases, LeafPathInv, OpenPathInv, NextKidPathInv, TakePathInv,
           LeavePathInv, CutPathInv

(***************************************************************************)
(* USR0 is allocated once, when the last child of the crate is translated, *)
(* and is the last event of the list from then on.                         *)
(***************************************************************************)
Closed ==
  \/ mode = "return" /\ Len(stack) = 1 /\ LastKid(stack[1])
  \/ mode = "loop" /\ Len(stack) = 1 /\ Finished(stack[1])
  \/ mode \in {"return", "done"} /\ stack = << >>

EndsWithUsr0(list) ==
  list # << >> /\ list[Len(list)] = Len(heap) /\ heap[Len(heap)].type = "USR0"

UsrInv ==
  /\ ~ Closed => \A e \in Pointers : heap[e].type # "USR0"
  /\ \A e \in Pointers : heap[e].type = "USR0" => e = Len(heap)
  /\ Closed /\ mode # "done" => EndsWithUsr0(IF mode = "loop" THEN stack[1].list ELSE part)

LEMMA InitUsrInv == Init => UsrInv
BY DEF Init, UsrInv, Closed, Pointers

LEMMA LeafUsrInv ==
  ASSUME TypeInv, PathInv, UsrInv, LeafEffect
  PROVE  UsrInv'
<1>1. TypeOK /\ heap \in Seq(Entry) /\ Len(heap) \in Nat /\ Len(stack) \in Nat /\ IsSong(ast)
      /\ 1 \in 1 .. Len(ast)
  <2>1. TypeOK /\ heap \in Seq(Entry) /\ IsSong(ast) /\ arg \in 1 .. Len(ast)
    BY DEF TypeInv, TypeOK
  <2> QED BY <2>1, FrameFacts
<1>2. /\ mode = "call" /\ mode' = "return" /\ UNCHANGED <<stack, arg>> /\ SameTree
      /\ ast[arg].type # "CRATE"
  BY DEF LeafEffect
<1>3. \A e \in Pointers : heap[e].type # "USR0"
  BY <1>2 DEF UsrInv, Closed
<1>4. stack # << >> /\ Len(stack) >= 1
  <2>1. ast[1].type = "CRATE"
    BY <1>1 DEF IsSong
  <2>2. stack \in Seq(Frame)
    BY <1>1 DEF TypeOK
  <2> HIDE DEF Frame
  <2> QED BY <1>2, <2>1, <2>2, CalledNode
<1>5. LastKid(stack[1])' <=> LastKid(stack[1])
  <2>1. 1 \in 1 .. Len(stack)
    BY <1>1, <1>4
  <2> QED BY <1>1, <1>2, <2>1, FieldFacts DEF LastKid, Kids, SameTree
<1>6. Closed' <=> ast[arg].type = "EOF"
  <2>1. ast[arg].type = "EOF" <=> Top.node = 1 /\ LastKid(Top)
    BY <1>2, <1>4, CalledNode
  <2>2. Len(stack) \in 1 .. Len(stack)
    BY <1>1, <1>4
  <2>3. Top.node = 1 <=> Len(stack) = 1
    BY <2>2 DEF PathInv, Top
  <2> QED BY <1>2, <1>4, <1>5, <2>1, <2>3 DEF Closed, Top
<1>7. CASE Allocates
  <2> DEFINE m == Len(heap)
  <2>1. PICK event : /\ event \in Entry /\ (event.type = "USR0" <=> ast[arg].type = "EOF")
                     /\ heap' = Append(heap, event) /\ part' = <<m + 1>>
    BY <1>7 DEF Allocates, Fresh
  <2>2. /\ Len(heap') = m + 1 /\ heap'[m + 1] = event
        /\ \A e \in 1 .. m : heap'[e] = heap[e]
    BY <1>1, <2>1
  <2>3. ASSUME NEW e \in 1 .. m + 1, heap'[e].type = "USR0"
        PROVE  e = m + 1 /\ Closed'
    <3>1. e \notin 1 .. m
      BY <1>3, <2>2, <2>3 DEF Pointers
    <3>2. e = m + 1
      BY <1>1, <3>1
    <3> QED BY <1>6, <2>1, <2>2, <2>3, <3>2
  <2>4. Closed' => EndsWithUsr0(part)'
    <3>1. Len(part') = 1 /\ part'[1] = m + 1 /\ part' # << >>
      BY <2>1
    <3> QED BY <1>6, <2>1, <2>2, <3>1 DEF EndsWithUsr0
  <2> QED BY <1>2, <2>2, <2>3, <2>4 DEF UsrInv, Pointers
<1>8. CASE AllocatesNothing
  <2>1. ~ Closed'
    BY <1>6, <1>8 DEF AllocatesNothing
  <2>2. Pointers' = Pointers /\ \A e \in Pointers : heap'[e].type = heap[e].type
    BY <1>8 DEF AllocatesNothing, SameEvents, Pointers
  <2> QED BY <1>3, <2>1, <2>2 DEF UsrInv
<1> QED BY <1>7, <1>8 DEF LeafEffect

LEMMA OpenUsrInv ==
  ASSUME TypeInv, PathInv, UsrInv, OpenEffect, Crate \/ Legato \/ Sheet \/ Reference
  PROVE  UsrInv'
<1> DEFINE n == Len(stack)
<1>1. /\ n \in Nat /\ Len(stack') = n + 1 /\ Opens(stack'[n + 1])
      /\ ast' = ast /\ heap' = heap /\ mode = "call" /\ mode' = "loop"
  BY OpenShape DEF OpenEffect
<1>2. \A e \in Pointers : heap[e].type # "USR0"
  BY <1>1 DEF UsrInv, Closed
<1>3. ~ Closed'
  <2> SUFFICES ASSUME n = 0
               PROVE  ~ Finished(stack[1])'
    BY <1>1 DEF Closed
  <2>1. stack = << >>
    BY DEF TypeInv, TypeOK
  <2>2. arg = 1
    BY <1>1, <2>1, CalledNode
  <2>3. stack'[1].node = 1 /\ stack'[1].count = 1 /\ stack'[1].i = 1
    BY <1>1, <2>2, OpenNodes DEF Opens
  <2>4. ast[1].kids # << >>
    BY DEF TypeInv, TypeOK, IsSong
  <2> QED BY <1>1, <2>3, <2>4 DEF Finished, Kids
<1> QED BY <1>1, <1>2, <1>3 DEF UsrInv, Pointers

LEMMA NextKidUsrInv ==
  ASSUME TypeInv, UsrInv, NextKid
  PROVE  UsrInv'
<1>1. /\ UNCHANGED <<heap, stack>> /\ mode = "loop" /\ mode' = "call" /\ ~ Finished(Top)
      /\ stack # << >>
  BY DEF NextKid, memory, TypeInv, FramesInv
<1>2. ~ Closed /\ ~ Closed'
  BY <1>1 DEF Closed, Top
<1> QED BY <1>1, <1>2 DEF UsrInv, Pointers

LEMMA TakeUsrInv ==
  ASSUME TypeInv, PathInv, UsrInv, TakeEffect
  PROVE  UsrInv'
<1> DEFINE n == Len(stack)
<1>1. /\ n \in Nat /\ n >= 1 /\ Len(stack') = n
      /\ stack'[n].node = stack[n].node /\ stack'[n].count = stack[n].count
      /\ stack'[n].i = IF LastKid(stack[n]) THEN stack[n].i + 1 ELSE stack[n].i
      /\ stack'[n].list = IF stack[n].dry THEN << >> ELSE stack[n].list \o part
  BY TakeShape
<1>2. /\ ast' = ast /\ mode = "return" /\ mode' = "loop" /\ stack # << >>
      /\ Len(heap') = Len(heap) /\ Pointers' = Pointers
      /\ \A e \in Pointers : heap'[e].type = heap[e].type
  BY DEF TakeEffect, SameEvents, Pointers
<1>3. Closed <=> n = 1 /\ LastKid(stack[1])
  BY <1>2 DEF Closed
<1>4. Closed' <=> n = 1 /\ LastKid(stack[1])
  <2> SUFFICES ASSUME n = 1
               PROVE  Finished(stack[1])' <=> LastKid(stack[1])
    BY <1>1, <1>2 DEF Closed
  <2>1. 1 \in 1 .. n
    OBVIOUS
  <2>2. ~ Finished(stack[1]) /\ stack[1].count = 1
    BY <1>2, <2>1 DEF PathInv
  <2>3. stack[1].i \in Nat \ {0}
    BY <2>1, FieldFacts DEF TypeInv
  <2>4. Kids(stack[1])' = Kids(stack[1])
    BY <1>1, <1>2 DEF Kids
  <2> QED BY <1>1, <2>2, <2>3, <2>4 DEF Finished
<1>5. Closed' => EndsWithUsr0(stack[1].list)'
  <2> SUFFICES ASSUME n = 1, Closed
               PROVE  EndsWithUsr0(stack[1].list)'
    BY <1>3, <1>4
  <2>1. EndsWithUsr0(part)
    BY <1>2 DEF UsrInv
  <2>2. stack'[1].list = stack[1].list \o part
    BY <1>1, <1>2 DEF PathInv
  <2>3. stack[1].list \in Seq(Pointers) /\ part \in Seq(Pointers)
    BY FieldFacts DEF TypeInv, TypeOK
  <2>4. Len(part) \in Nat /\ Len(part) # 0
    BY <2>1, <2>3 DEF EndsWithUsr0
  <2>5. /\ stack'[1].list # << >>
        /\ stack'[1].list[Len(stack'[1].list)] = part[Len(part)]
    <3> DEFINE s == stack[1].list
    <3> HIDE DEF s, Pointers
    <3>1. s \in Seq(Pointers)
      BY <2>3 DEF s
    <3>2. Len(s \o part) = Len(s) + Len(part) /\ (s \o part)[Len(s) + Len(part)] = part[Len(part)]
          /\ s \o part # << >>
      BY <2>3, <2>4, <3>1
    <3> QED BY <2>2, <3>2 DEF s
  <2>6. Len(heap) \in Pointers
    <3>1. Len(part) \in 1 .. Len(part)
      BY <2>4
    <3>2. part[Len(part)] \in Pointers
      <4> HIDE DEF Pointers
      <4> QED BY <2>3, <3>1
    <3> QED BY <2>1, <3>2 DEF EndsWithUsr0
  <2> QED BY <1>2, <2>1, <2>5, <2>6 DEF EndsWithUsr0
<1>6. Closed' <=> Closed
  BY <1>3, <1>4
<1> QED BY <1>2, <1>5, <1>6 DEF UsrInv

LEMMA LeaveUsrInv ==
  ASSUME TypeInv, PathInv, UsrInv, LeaveEffect
  PROVE  UsrInv'
<1> DEFINE n == Len(stack)
<1>1. /\ n \in Nat /\ n >= 1 /\ Len(stack') = n - 1
      /\ \A d \in 1 .. n - 1 : stack'[d] = stack[d]
      /\ part' = stack[n].list
  BY LeaveShape
<1>2. /\ UNCHANGED <<ast, heap>> /\ mode = "loop" /\ mode' = "return" /\ stack # << >>
      /\ Finished(Top)
  BY DEF LeaveEffect
<1>3. CASE n = 1
  <2>1. Closed
    BY <1>2, <1>3 DEF Closed, Top
  <2>2. EndsWithUsr0(stack[1].list)
    BY <1>2, <2>1 DEF UsrInv
  <2>3. EndsWithUsr0(part)'
    BY <1>1, <1>2, <1>3, <2>2 DEF EndsWithUsr0
  <2>4. stack' = << >>
    <3>1. stack' \in Seq(Frame') /\ Len(stack') = 0
      BY <1>1, <1>3, LeaveTypeInv DEF TypeInv, TypeOK
    <3> HIDE DEF Frame
    <3> QED BY <3>1
  <2>5. Closed'
    BY <1>2, <2>4 DEF Closed
  <2> QED BY <1>2, <2>1, <2>3, <2>5 DEF UsrInv, Pointers
<1>4. CASE n # 1
  <2>1. ~ Closed
    BY <1>2, <1>4 DEF Closed
  <2>2. ~ Closed'
    <3>1. n >= 2 /\ 1 \in 1 .. n - 1 /\ Len(stack') # 0
      BY <1>1, <1>4
    <3>2. stack' # << >>
      BY <3>1
    <3>3. ~ LastKid(stack[1])'
      BY <1>1, <1>2, <3>1 DEF PathInv, LastKid, Kids
    <3> QED BY <1>2, <3>2, <3>3 DEF Closed
  <2> QED BY <1>2, <2>1, <2>2 DEF UsrInv, Pointers
<1> QED BY <1>3, <1>4

LEMMA CutUsrInv ==
  ASSUME TypeInv, UsrInv, Cut
  PROVE  UsrInv'
<1>1. UNCHANGED <<heap, stack>> /\ stack = << >> /\ mode = "return" /\ mode' = "done"
  BY CutFacts
<1> QED BY <1>1 DEF UsrInv, Closed, Pointers

LEMMA StepUsrInv == TypeInv /\ PathInv /\ UsrInv /\ [Step]_vars => UsrInv'
<1> SUFFICES ASSUME TypeInv, PathInv, UsrInv, [Step]_vars
             PROVE  UsrInv'
  OBVIOUS
<1>1. CASE UNCHANGED vars
  BY <1>1 DEF vars, memory, context, UsrInv, Closed, EndsWithUsr0, Pointers, Kids, Finished,
              LastKid
<1> QED BY <1>1, StepCases, LeafUsrInv, OpenUsrInv, NextKidUsrInv, TakeUsrInv,
           LeaveUsrInv, CutUsrInv

(***************************************************************************)
(* What every step keeps of the events there are.                          *)
(***************************************************************************)
LEMMA KeepsEvents ==
  ASSUME TypeInv, LeafEffect \/ OpenEffect \/ TakeEffect \/ LeaveEffect
  PROVE  /\ Len(heap) \in Nat /\ Len(heap) <= Len(heap')
         /\ \A e \in Pointers : heap'[e].tick = heap[e].tick /\ heap'[e].type = heap[e].type
<1>1. heap \in Seq(Entry) /\ Len(heap) \in Nat
  <2>1. heap \in Seq(Entry)
    BY DEF TypeInv, TypeOK
  <2> QED BY <2>1
<1>2. CASE Allocates
  <2>1. PICK event : event \in Entry /\ heap' = Append(heap, event)
    BY <1>2 DEF Allocates, Fresh
  <2> QED BY <1>1, <2>1 DEF Pointers
<1>3. CASE SameEvents
  BY <1>1, <1>3 DEF SameEvents
<1>4. CASE heap' = heap
  BY <1>1, <1>4
<1> QED BY <1>2, <1>3, <1>4 DEF LeafEffect, AllocatesNothing, OpenEffect, TakeEffect, LeaveEffect

LEMMA ListedFacts ==
  ASSUME TypeInv
  PROVE  /\ part \in Seq(Pointers)
         /\ \A x \in 1 .. Len(part) : part[x] \in Pointers /\ part[x] \in Nat
         /\ \A c \in 1 .. Len(stack) :
              /\ stack[c].list \in Seq(Pointers)
              /\ \A x \in 1 .. Len(stack[c].list) :
                   stack[c].list[x] \in Pointers /\ stack[c].list[x] \in Nat
<1>1. TypeOK /\ part \in Seq(Pointers) /\ Pointers \subseteq Nat
  BY DEF TypeInv, TypeOK, Pointers
<1>2. \A c \in 1 .. Len(stack) : stack[c].list \in Seq(Pointers)
  BY <1>1, FieldFacts
<1> HIDE DEF Pointers
<1>3. ASSUME NEW list \in Seq(Pointers), NEW x \in 1 .. Len(list)
      PROVE  list[x] \in Pointers /\ list[x] \in Nat
  <2>1. list[x] \in Pointers
    OBVIOUS
  <2> QED BY <1>1, <2>1
<1> QED BY <1>1, <1>2, <1>3

(***************************************************************************)
(* The age of a frame tells its events from those of the frames around it: *)
(* these were there when it was opened, and what it has itself, or its     *)
(* children, begins no sooner than it did.                                 *)
(***************************************************************************)
BornInv ==
  /\ \A d \in 1 .. Len(stack) : stack[d].born <= Len(heap)
  /\ \A d \in 1 .. Len(stack) : \A c \in 1 .. d - 1 : \A x \in 1 .. Len(stack[c].list) :
       stack[c].list[x] <= stack[d].born
  /\ \A d \in 1 .. Len(stack) : \A c \in d .. Len(stack) : \A x \in 1 .. Len(stack[c].list) :
       stack[d].old_offset <= heap[stack[c].list[x]].tick
  /\ \A d \in 1 .. Len(stack) : \A x \in 1 .. Len(part) :
       stack[d].old_offset <= heap[part[x]].tick

LEMMA InitBornInv == Init => BornInv
BY DEF Init, BornInv

LEMMA LeafBornInv ==
  ASSUME TypeInv, BornInv, LeafEffect
  PROVE  BornInv'
<1>1. /\ stack' = stack /\ Len(heap) \in Nat /\ Len(heap) <= Len(heap') /\ Len(heap') \in Nat
      /\ \A e \in Pointers : heap'[e].tick = heap[e].tick
  <2>1. heap' \in Seq(Entry)
    BY LeafTypeInv DEF TypeInv, TypeOK
  <2> QED BY <2>1, KeepsEvents DEF LeafEffect
<1>2. ASSUME NEW d \in 1 .. Len(stack)
      PROVE  stack[d].born <= Len(heap')
  <2>1. stack[d].born \in Nat /\ stack[d].born <= Len(heap)
    BY FieldFacts DEF TypeInv, BornInv
  <2> QED BY <1>1, <2>1
<1>3. ASSUME NEW d \in 1 .. Len(stack), NEW c \in d .. Len(stack),
             NEW x \in 1 .. Len(stack[c].list)
      PROVE  stack[d].old_offset <= heap'[stack[c].list[x]].tick
  <2>1. c \in 1 .. Len(stack)
    BY FrameFacts DEF TypeInv
  <2> QED BY <1>1, <2>1, ListedFacts DEF BornInv
<1>4. ASSUME NEW d \in 1 .. Len(stack), NEW x \in 1 .. Len(part')
      PROVE  stack[d].old_offset <= heap'[part'[x]].tick
  <2>1. CASE Allocates
    <3>1. PICK event : /\ event \in Entry /\ event.tick = offset
                       /\ heap' = Append(heap, event) /\ part' = <<Len(heap) + 1>>
      BY <2>1 DEF Allocates, Fresh
    <3>2. heap \in Seq(Entry)
      BY DEF TypeInv, TypeOK
    <3>3. heap'[part'[x]].tick = offset
      BY <3>1, <3>2
    <3> QED BY <3>3 DEF TypeInv, FramesInv
  <2>2. CASE AllocatesNothing
    BY <2>2 DEF AllocatesNothing
  <2> QED BY <2>1, <2>2 DEF LeafEffect
<1> QED BY <1>1, <1>2, <1>3, <1>4 DEF BornInv

LEMMA OpenBornInv ==
  ASSUME TypeInv, BornInv, OpenEffect
  PROVE  BornInv'
<1> DEFINE n == Len(stack)
<1>1. /\ n \in Nat /\ Len(stack') = n + 1 /\ \A d \in 1 .. n : stack'[d] = stack[d]
      /\ Opens(stack'[n + 1]) /\ part' = << >> /\ heap' = heap
  BY OpenShape DEF OpenEffect
<1>2. stack'[n + 1].list = << >> /\ stack'[n + 1].born = Len(heap)
  BY <1>1 DEF Opens
<1>3. Len(heap) \in Nat
  BY KeepsEvents
<1>4. ASSUME NEW d \in 1 .. n + 1
      PROVE  stack'[d].born <= Len(heap)
  BY <1>1, <1>2, <1>3 DEF BornInv
<1>5. ASSUME NEW d \in 1 .. n + 1, NEW c \in 1 .. d - 1, NEW x \in 1 .. Len(stack'[c].list)
      PROVE  stack'[c].list[x] <= stack'[d].born
  <2>1. c \in 1 .. n /\ stack'[c] = stack[c]
    BY <1>1
  <2>2. CASE d = n + 1
    <3>1. x \in 1 .. Len(stack[c].list) /\ c \in 1 .. Len(stack)
      BY <2>1
    <3>2. stack[c].list[x] \in Pointers
      BY <3>1, ListedFacts
    <3>3. stack[c].list[x] <= Len(heap)
      BY <1>3, <3>2 DEF Pointers
    <3> QED BY <1>2, <2>1, <2>2, <3>3
  <2>3. CASE d \in 1 .. n
    BY <1>1, <2>1, <2>3 DEF BornInv
  <2> QED BY <1>1, <2>2, <2>3
<1>6. ASSUME NEW d \in 1 .. n + 1, NEW c \in d .. n + 1, NEW x \in 1 .. Len(stack'[c].list)
      PROVE  stack'[d].old_offset <= heap[stack'[c].list[x]].tick
  <2>1. c # n + 1
    BY <1>2
  <2>2. c \in d .. n /\ d \in 1 .. n /\ c \in 1 .. n
    BY <1>1, <2>1
  <2> QED BY <1>1, <2>2 DEF BornInv
<1>7. Len(part') = 0
  BY <1>1
<1> HIDE DEF n
<1> QED BY <1>1, <1>4, <1>5, <1>6, <1>7 DEF BornInv

LEMMA TakeBornInv ==
  ASSUME TypeInv, BornInv, TakeEffect
  PROVE  BornInv'
<1> DEFINE n == Len(stack)
<1>1. /\ n \in Nat /\ n >= 1 /\ Len(stack') = n /\ n \in 1 .. n
      /\ \A d \in 1 .. n - 1 : stack'[d] = stack[d]
      /\ stack'[n].born = stack[n].born
      /\ stack'[n].old_offset = stack[n].old_offset
      /\ stack'[n].list = IF stack[n].dry THEN << >> ELSE stack[n].list \o part
      /\ part' = << >>
  BY TakeShape
<1>2. Len(heap') = Len(heap) /\ \A e \in Pointers : heap'[e].tick = heap[e].tick
  BY DEF TakeEffect, SameEvents
<1>3. \A d \in 1 .. n : stack'[d].born = stack[d].born /\ stack'[d].old_offset = stack[d].old_offset
  BY <1>1
<1>4. ASSUME NEW d \in 1 .. n, NEW c \in 1 .. d - 1, NEW x \in 1 .. Len(stack'[c].list)
      PROVE  stack'[c].list[x] <= stack'[d].born
  <2>1. c \in 1 .. n - 1 /\ stack'[c] = stack[c]
    BY <1>1
  <2> QED BY <1>3, <2>1 DEF BornInv
<1>5. ASSUME NEW d \in 1 .. n, NEW c \in d .. n, NEW x \in 1 .. Len(stack'[c].list)
      PROVE  stack'[d].old_offset <= heap'[stack'[c].list[x]].tick
  <2>1. CASE c # n
    <3>1. c \in 1 .. n - 1 /\ c \in 1 .. n /\ stack'[c] = stack[c]
      BY <1>1, <2>1
    <3>2. stack[c].list[x] \in Pointers
      BY <3>1, ListedFacts
    <3> QED BY <1>2, <1>3, <3>1, <3>2 DEF BornInv
  <2>2. CASE c = n
    <3> DEFINE s == stack[n].list
               a == Len(s)
               b == Len(part)
    <3>1. s \in Seq(Pointers) /\ part \in Seq(Pointers) /\ a \in Nat /\ b \in Nat
      BY <1>1, ListedFacts
    <3>2. stack'[n].list = s \o part
      BY <1>1, <2>2
    <3>3. x \in 1 .. a + b /\ (s \o part)[x] = IF x <= a THEN s[x] ELSE part[x - a]
      <4> HIDE DEF s, Pointers
      <4> QED BY <2>2, <3>1, <3>2, ConcatProperties
    <3>4. CASE x <= a
      <4>1. x \in 1 .. Len(stack[n].list) /\ n \in d .. n
        BY <1>1, <3>1, <3>3, <3>4
      <4>2. stack[d].old_offset <= heap[s[x]].tick /\ s[x] \in Pointers
        BY <1>1, <4>1, ListedFacts DEF BornInv
      <4> QED BY <1>2, <1>3, <2>2, <3>2, <3>3, <3>4, <4>2
    <3>5. CASE x > a
      <4>1. x - a \in 1 .. Len(part)
        BY <3>1, <3>3, <3>5
      <4>2. stack[d].old_offset <= heap[part[x - a]].tick /\ part[x - a] \in Pointers
        BY <4>1, ListedFacts DEF BornInv
      <4>3. (s \o part)[x] = part[x - a]
        BY <3>1, <3>3, <3>5
      <4> QED BY <1>2, <1>3, <2>2, <3>2, <4>2, <4>3
    <3> QED BY <3>1, <3>3, <3>4, <3>5
  <2> QED BY <2>1, <2>2
<1>6. \A d \in 1 .. n : stack'[d].born <= Len(heap')
  BY <1>2, <1>3 DEF BornInv
<1>7. Len(part') = 0 /\ Len(stack') = n
  BY <1>1
<1> HIDE DEF n
<1> QED BY <1>4, <1>5, <1>6, <1>7 DEF BornInv

LEMMA LeaveBornInv ==
  ASSUME TypeInv, BornInv, LeaveEffect
  PROVE  BornInv'
<1> DEFINE n == Len(stack)
<1>1. /\ n \in Nat /\ n >= 1 /\ Len(stack') = n - 1
      /\ \A d \in 1 .. n - 1 : stack'[d] = stack[d]
      /\ part' = stack[n].list /\ heap' = heap
  BY LeaveShape DEF LeaveEffect
<1>2. ASSUME NEW d \in 1 .. n - 1
      PROVE  /\ stack'[d] = stack[d] /\ d \in 1 .. n /\ n \in d .. n
             /\ 1 .. d - 1 \subseteq 1 .. n - 1 /\ d .. n - 1 \subseteq d .. n
             /\ d .. n - 1 \subseteq 1 .. n - 1
  BY <1>1
<1>3. \A d \in 1 .. n - 1 : stack'[d].born <= Len(heap')
  BY <1>1, <1>2 DEF BornInv
<1>4. ASSUME NEW d \in 1 .. n - 1, NEW c \in 1 .. d - 1, NEW x \in 1 .. Len(stack'[c].list)
      PROVE  stack'[c].list[x] <= stack'[d].born
  <2>1. c \in 1 .. n - 1 /\ stack'[c] = stack[c] /\ stack'[d] = stack[d] /\ d \in 1 .. n
    BY <1>1, <1>2
  <2> QED BY <2>1 DEF BornInv
<1>5. ASSUME NEW d \in 1 .. n - 1, NEW c \in d .. n - 1, NEW x \in 1 .. Len(stack'[c].list)
      PROVE  stack'[d].old_offset <= heap'[stack'[c].list[x]].tick
  <2>1. /\ stack'[c] = stack[c] /\ stack'[d] = stack[d] /\ d \in 1 .. n /\ c \in d .. n
    BY <1>1, <1>2
  <2> QED BY <1>1, <2>1 DEF BornInv
<1>6. ASSUME NEW d \in 1 .. n - 1, NEW x \in 1 .. Len(part')
      PROVE  stack'[d].old_offset <= heap'[part'[x]].tick
  BY <1>1, <1>2 DEF BornInv
<1> HIDE DEF n
<1> QED BY <1>1, <1>3, <1>4, <1>5, <1>6 DEF BornInv

LEMMA StepBornInv == TypeInv /\ BornInv /\ [Step]_vars => BornInv'
<1> SUFFICES ASSUME TypeInv, BornInv, [Step]_vars
             PROVE  BornInv'
  OBVIOUS
<1>1. CASE UNCHANGED <<heap, stack, part>>
  BY <1>1 DEF BornInv
<1>2. CASE NextKid \/ UNCHANGED vars
  BY <1>1, <1>2 DEF NextKid, memory, vars
<1>3. CASE Cut
  <2>1. stack' = stack /\ Len(stack) = 0
    BY <1>3, CutFacts
  <2> QED BY <2>1 DEF BornInv
<1> QED BY <1>2, <1>3, StepKinds, LeafBornInv, OpenBornInv, TakeBornInv, LeaveBornInv

(***************************************************************************)
(* The marks of a loop.                                                    *)
(***************************************************************************)
Starts == Top.loop /\ ~ Top.first /\ part # << >>
Ends   == Top.loop /\ LastKid(Top) /\ prev_tone # NULL

LEMMA Marks ==
  ASSUME TypeInv, AppendPart
  PROVE  /\ \A e \in Pointers :
              /\ heap'[e].start_loop <=> heap[e].start_loop \/ (Starts /\ e = part[1])
              /\ heap'[e].end_loop <=> heap[e].end_loop \/ (Ends /\ e = prev_tone)
              /\ heap'[e].loop_offset = IF Ends /\ e = prev_tone THEN offset - Top.old_offset
                                        ELSE heap[e].loop_offset
         /\ stack'[Len(stack)].first <=> Top.first \/ Starts
         /\ Ends /\ stale' = {} /\ stray' = {} => prev_tone \in live /\ ~ (prev_tone <= Top.born)
<1>1. /\ TypeOK /\ heap \in Seq(Entry) /\ stack \in Seq(Frame) /\ stack # << >> /\ Top \in Frame
      /\ Len(stack) \in 1 .. Len(stack)
  BY FrameFacts DEF TypeInv, TypeOK, AppendPart
<1> DEFINE length == offset - Top.old_offset
<1>2. heap' = [e \in DOMAIN heap |->
                 [heap[e] EXCEPT
                    !.start_loop  = @ \/ (Starts /\ e = part[1]),
                    !.end_loop    = @ \/ (Ends /\ e = prev_tone),
                    !.loop_offset = IF Ends /\ e = prev_tone THEN length ELSE @]]
  BY Zenon DEF AppendPart, Starts, Ends
<1>3. ASSUME NEW e \in Pointers
      PROVE  /\ heap'[e].start_loop <=> heap[e].start_loop \/ (Starts /\ e = part[1])
             /\ heap'[e].end_loop <=> heap[e].end_loop \/ (Ends /\ e = prev_tone)
             /\ heap'[e].loop_offset = IF Ends /\ e = prev_tone THEN length
                                       ELSE heap[e].loop_offset
  <2> DEFINE s == heap[e].start_loop \/ (Starts /\ e = part[1])
             t == heap[e].end_loop \/ (Ends /\ e = prev_tone)
             o == IF Ends /\ e = prev_tone THEN length ELSE heap[e].loop_offset
  <2>1. e \in DOMAIN heap /\ heap[e] \in Entry
    BY <1>1 DEF Pointers
  <2>2. heap'[e] = [heap[e] EXCEPT !.start_loop = s, !.end_loop = t, !.loop_offset = o]
    BY <1>2, <2>1, Zenon
  <2>3. s \in BOOLEAN /\ t \in BOOLEAN
    OBVIOUS
  <2> HIDE DEF s, t, o, length
  <2>4. heap'[e].start_loop = s /\ heap'[e].end_loop = t /\ heap'[e].loop_offset = o
    BY <2>1, <2>2 DEF Entry
  <2> QED BY <2>3, <2>4 DEF s, t, o
<1>4. stack'[Len(stack)].first <=> Top.first \/ Starts
  <2> DEFINE b == Top.first \/ Starts
             f == [Top EXCEPT !.list = Top.list \o part, !.first = b]
  <2>1. stack' = [stack EXCEPT ![Len(stack)] = Onward(f)]
    BY Zenon DEF AppendPart, SetTop, Starts
  <2>2. b \in BOOLEAN
    OBVIOUS
  <2> HIDE DEF b
  <2>3. f.first = b
    BY <1>1 DEF Frame
  <2> HIDE DEF f
  <2>4. DOMAIN f = DOMAIN Top /\ "first" \in DOMAIN f /\ "i" \in DOMAIN f /\ "j" \in DOMAIN f
    BY <1>1 DEF f, Frame
  <2>5. Onward(f).first = f.first
    <3>1. CASE LastKid(f)
      BY <2>4, <3>1 DEF Onward
    <3>2. CASE ~ LastKid(f)
      BY <2>4, <3>2 DEF Onward
    <3> QED BY <3>1, <3>2
  <2>6. stack'[Len(stack)] = Onward(f)
    <3> HIDE DEF Frame
    <3> QED BY <1>1, <2>1
  <2> QED BY <2>2, <2>3, <2>5, <2>6 DEF b
<1>5. Ends /\ stale' = {} /\ stray' = {} => prev_tone \in live /\ ~ (prev_tone <= Top.born)
  <2>1. Ends => /\ Touch(prev_tone)
                /\ stray' = IF prev_tone <= Top.born THEN stray \cup {prev_tone} ELSE stray
    BY DEF AppendPart, Ends
  <2> QED BY <2>1 DEF Touch
<1> QED BY <1>3, <1>4, <1>5

(* Steps other than AppendPart leave the marks of the events as they are.  *)
SameMarks == \A e \in Pointers : /\ heap'[e].start_loop <=> heap[e].start_loop
                                 /\ heap'[e].end_loop <=> heap[e].end_loop
                                 /\ heap'[e].loop_offset = heap[e].loop_offset

LEMMA KeepsMarks ==
  ASSUME TypeInv, LeafEffect \/ OpenEffect \/ FreePart \/ LeaveEffect
  PROVE  SameMarks
<1>1. heap \in Seq(Entry)
  BY DEF TypeInv, TypeOK
<1>2. CASE Allocates
  <2>1. PICK event : event \in Entry /\ heap' = Append(heap, event)
    BY <1>2 DEF Allocates, Fresh
  <2>2. \A e \in Pointers : heap'[e] = heap[e]
    BY <1>1, <2>1 DEF Pointers
  <2> QED BY <2>2 DEF SameMarks
<1>3. CASE SameLoops
  BY <1>3 DEF SameLoops, SameMarks
<1>4. CASE heap' = heap
  BY <1>4 DEF SameMarks
<1> QED BY <1>2, <1>3, <1>4 DEF LeafEffect, AllocatesNothing, OpenEffect, FreePart, LeaveEffect

(* What is allocated has no mark.                                          *)
LEMMA NewUnmarked ==
  ASSUME TypeInv, LeafEffect, NEW x \in 1 .. Len(part')
  PROVE  ~ heap'[part'[x]].end_loop
<1>1. CASE Allocates
  <2>1. PICK event : /\ event \in Entry /\ ~ event.end_loop
                     /\ heap' = Append(heap, event) /\ part' = <<Len(heap) + 1>>
    BY <1>1 DEF Allocates, Fresh
  <2>2. heap \in Seq(Entry)
    BY DEF TypeInv, TypeOK
  <2>3. heap'[part'[x]] = event
    BY <2>1, <2>2
  <2> QED BY <2>1, <2>3
<1>2. CASE AllocatesNothing
  BY <1>2 DEF AllocatesNothing
<1> QED BY <1>1, <1>2 DEF LeafEffect

(***************************************************************************)
(* A looped frame that has events begins with the marked one.              *)
(***************************************************************************)
FirstInv ==
  \A d \in 1 .. Len(stack) :
    stack[d].loop => /\ ~ stack[d].dry
                     /\ IF stack[d].first
                        THEN stack[d].list # << >> /\ heap[stack[d].list[1]].start_loop
                        ELSE stack[d].list = << >>

LEMMA InitFirstInv == Init => FirstInv
BY DEF Init, FirstInv

(* A frame that is left as it is stays right as long as starts stay marked. *)
LEMMA FirstKept ==
  ASSUME TypeInv, FirstInv, NEW d \in 1 .. Len(stack),
         \A e \in Pointers : heap[e].start_loop => heap'[e].start_loop
  PROVE  stack[d].loop => /\ ~ stack[d].dry
                          /\ IF stack[d].first
                             THEN stack[d].list # << >> /\ heap'[stack[d].list[1]].start_loop
                             ELSE stack[d].list = << >>
<1>1. stack[d].list \in Seq(Pointers)
  BY ListedFacts
<1>2. stack[d].list # << >> => stack[d].list[1] \in Pointers
  <2> DEFINE s == stack[d].list
  <2> HIDE DEF s, Pointers
  <2>1. s \in Seq(Pointers)
    BY <1>1 DEF s
  <2>2. s # << >> => s[1] \in Pointers
    BY <2>1
  <2> QED BY <2>2 DEF s
<1> QED BY <1>2 DEF FirstInv

LEMMA AppendFirstInv ==
  ASSUME TypeInv, FirstInv, TakeEffect, AppendPart
  PROVE  FirstInv'
<1> DEFINE n == Len(stack)
<1>1. /\ n \in Nat /\ n >= 1 /\ Len(stack') = n /\ n \in 1 .. n
      /\ \A d \in 1 .. n - 1 : stack'[d] = stack[d]
      /\ stack'[n].loop = stack[n].loop /\ stack'[n].dry = stack[n].dry
      /\ ~ stack[n].dry => stack'[n].list = stack[n].list \o part
  <2>1. /\ n \in Nat /\ n >= 1 /\ Len(stack') = n
        /\ \A d \in 1 .. n - 1 : stack'[d] = stack[d]
        /\ stack'[n].loop = stack[n].loop /\ stack'[n].dry = stack[n].dry
        /\ stack'[n].list = IF stack[n].dry THEN << >> ELSE stack[n].list \o part
    BY TakeShape
  <2> HIDE DEF n
  <2> QED BY <2>1
<1>2. /\ \A e \in Pointers : heap'[e].start_loop <=> heap[e].start_loop \/ (Starts /\ e = part[1])
      /\ stack'[n].first <=> stack[n].first \/ Starts
      /\ Starts <=> stack[n].loop /\ ~ stack[n].first /\ part # << >>
      /\ ~ stack[n].dry
  BY Marks DEF Starts, Top, AppendPart
<1>3. \A e \in Pointers : heap[e].start_loop => heap'[e].start_loop
  BY <1>2
<1> DEFINE s == stack[n].list
<1>4. s \in Seq(Pointers) /\ part \in Seq(Pointers) /\ stack'[n].list = s \o part
  BY <1>1, <1>2, ListedFacts
<1>5. stack[n].loop => IF stack[n].first THEN s # << >> /\ heap'[s[1]].start_loop ELSE s = << >>
  BY <1>1, <1>3, FirstKept
<1> HIDE DEF s, n
<1>6. /\ s # << >> => s \o part # << >> /\ (s \o part)[1] = s[1]
      /\ s = << >> => s \o part = part
      /\ part # << >> => part[1] \in Pointers
  <2> HIDE DEF Pointers
  <2>1. s # << >> => Len(s) >= 1 /\ Len(s \o part) = Len(s) + Len(part) /\ (s \o part)[1] = s[1]
    BY <1>4
  <2>2. s # << >> => s \o part # << >>
    BY <1>4, <2>1
  <2>3. s = << >> => s \o part = part
    BY <1>4
  <2>4. part # << >> => part[1] \in Pointers
    BY <1>4
  <2> QED BY <2>1, <2>2, <2>3, <2>4
<1>7. ASSUME stack[n].loop
      PROVE  IF stack'[n].first
             THEN stack'[n].list # << >> /\ heap'[stack'[n].list[1]].start_loop
             ELSE stack'[n].list = << >>
  <2>1. CASE stack[n].first
    BY <1>2, <1>4, <1>5, <1>6, <1>7, <2>1
  <2>2. CASE ~ stack[n].first /\ part # << >>
    BY <1>2, <1>4, <1>5, <1>6, <1>7, <2>2
  <2>3. CASE ~ stack[n].first /\ part = << >>
    BY <1>2, <1>4, <1>5, <1>6, <1>7, <2>3
  <2> QED BY <2>1, <2>2, <2>3
<1>8. ASSUME NEW d \in 1 .. n - 1
      PROVE  stack'[d].loop => /\ ~ stack'[d].dry
                               /\ IF stack'[d].first
                                  THEN stack'[d].list # << >> /\ heap'[stack'[d].list[1]].start_loop
                                  ELSE stack'[d].list = << >>
  <2>1. d \in 1 .. Len(stack) /\ stack'[d] = stack[d]
    BY <1>1 DEF n
  <2> QED BY <1>3, <2>1, FirstKept
<1>9. \A d \in 1 .. n : d = n \/ d \in 1 .. n - 1
  BY <1>1
<1>10. Len(stack') = n
  BY <1>1
<1> QED BY <1>1, <1>2, <1>7, <1>8, <1>9, <1>10 DEF FirstInv

LEMMA StepFirstInv == TypeInv /\ FirstInv /\ [Step]_vars => FirstInv'
<1> SUFFICES ASSUME TypeInv, FirstInv, [Step]_vars
             PROVE  FirstInv'
  OBVIOUS
<1> DEFINE n == Len(stack)
           Right(d) == stack[d].loop => /\ ~ stack[d].dry
                                        /\ IF stack[d].first
                                           THEN /\ stack[d].list # << >>
                                                /\ heap'[stack[d].list[1]].start_loop
                                           ELSE stack[d].list = << >>
<1>1. CASE UNCHANGED <<heap, stack>>
  BY <1>1 DEF FirstInv
<1>2. CASE NextKid \/ Cut \/ UNCHANGED vars
  BY <1>1, <1>2, CutFacts DEF NextKid, memory, vars
<1>3. ASSUME SameMarks, NEW d \in 1 .. n
      PROVE  Right(d)
  BY <1>3, FirstKept DEF SameMarks
<1>4. CASE LeafEffect
  <2>1. stack' = stack /\ SameMarks
    BY <1>4, KeepsMarks DEF LeafEffect
  <2>2. \A d \in 1 .. n : Right(d)
    BY <1>3, <2>1
  <2> QED BY <2>1, <2>2 DEF FirstInv
<1>5. CASE OpenEffect
  <2>1. /\ n \in Nat /\ Len(stack') = n + 1 /\ \A d \in 1 .. n : stack'[d] = stack[d]
        /\ Opens(stack'[n + 1]) /\ SameMarks
    BY <1>5, OpenShape, KeepsMarks
  <2>2. \A d \in 1 .. n : Right(d)
    BY <1>3, <2>1
  <2>3. \A d \in 1 .. n + 1 : d = n + 1 \/ d \in 1 .. n
    BY <2>1
  <2> HIDE DEF n
  <2> QED BY <2>1, <2>2, <2>3 DEF Opens, FirstInv
<1>6. CASE FreePart /\ TakeEffect
  <2>1. /\ n \in Nat /\ Len(stack') = n /\ \A d \in 1 .. n - 1 : stack'[d] = stack[d]
        /\ stack'[n].loop = stack[n].loop /\ SameMarks
        /\ n >= 1
    BY <1>6, TakeShape, KeepsMarks
  <2>2. \A d \in 1 .. n : Right(d)
    BY <1>3, <2>1
  <2>3. ~ stack'[n].loop
    BY <1>6, <2>1 DEF FirstInv, FreePart, Top
  <2>4. \A d \in 1 .. n : d = n \/ d \in 1 .. n - 1
    BY <2>1
  <2> HIDE DEF n
  <2> QED BY <2>1, <2>2, <2>3, <2>4 DEF FirstInv
<1>7. CASE LeaveEffect
  <2>1. /\ n \in Nat /\ Len(stack') = n - 1 /\ \A d \in 1 .. n - 1 : stack'[d] = stack[d]
        /\ SameMarks
    BY <1>7, LeaveShape, KeepsMarks
  <2>2. \A d \in 1 .. n : Right(d)
    BY <1>3, <2>1
  <2>3. \A d \in 1 .. n - 1 : d \in 1 .. n
    BY <2>1
  <2> HIDE DEF n
  <2> QED BY <2>1, <2>2, <2>3 DEF FirstInv
<1> QED BY <1>2, <1>4, <1>5, <1>6, <1>7, StepCases, AppendFirstInv

(***************************************************************************)
(* Only tones end loops.                                                   *)
(***************************************************************************)
ToneInv ==
  /\ prev_tone # NULL => heap[prev_tone].type = "NOTE"
  /\ \A e \in Pointers : heap[e].end_loop => heap[e].type = "NOTE"

LEMMA InitToneInv == Init => ToneInv
BY DEF Init, ToneInv, Pointers

LEMMA StepToneInv == TypeInv /\ ToneInv /\ [Step]_vars => ToneInv'
<1> SUFFICES ASSUME TypeInv, ToneInv, [Step]_vars
             PROVE  ToneInv'
  OBVIOUS
<1>0. heap \in Seq(Entry) /\ prev_tone \in Pointers \cup {NULL} /\ Len(heap) \in Nat
  <2>1. heap \in Seq(Entry) /\ prev_tone \in Pointers \cup {NULL}
    BY DEF TypeInv, TypeOK
  <2> QED BY <2>1
<1>1. CASE UNCHANGED <<heap, prev_tone>>
  BY <1>1 DEF ToneInv, Pointers
<1>2. CASE NextKid \/ Cut \/ UNCHANGED vars \/ OpenEffect \/ LeaveEffect
  BY <1>1, <1>2, CutFacts DEF NextKid, memory, context, vars, OpenEffect, LeaveEffect
<1>3. CASE FreePart
  BY <1>1, <1>3 DEF FreePart, context
<1>4. CASE AppendPart /\ TakeEffect
  <2>1. prev_tone' = prev_tone /\ Pointers' = Pointers
    BY <1>4 DEF TakeEffect, context, SameEvents, Pointers
  <2>2. \A e \in Pointers : heap'[e].type = heap[e].type
    BY <1>4 DEF TakeEffect, SameEvents
  <2>3. \A e \in Pointers : heap'[e].end_loop <=> heap[e].end_loop \/ (Ends /\ e = prev_tone)
    BY <1>4, Marks
  <2> QED BY <1>0, <2>1, <2>2, <2>3 DEF ToneInv, Ends
<1>5. CASE LeafEffect
  <2>1. SameMarks /\ \A e \in Pointers : heap'[e].type = heap[e].type
    BY <1>5, KeepsMarks, KeepsEvents
  <2>2. \A e \in Pointers' : e \in Pointers \/ (Allocates /\ e = Len(heap) + 1)
    <3>1. CASE Allocates
      <4>1. Len(heap') = Len(heap) + 1
        BY <1>0, <3>1 DEF Allocates, Fresh
      <4> QED BY <1>0, <3>1, <4>1 DEF Pointers
    <3>2. CASE AllocatesNothing
      BY <3>2 DEF AllocatesNothing, SameEvents, Pointers
    <3> QED BY <1>5, <3>1, <3>2 DEF LeafEffect
  <2>3. Allocates => ~ heap'[Len(heap) + 1].end_loop
    <3> SUFFICES ASSUME Allocates
                 PROVE  ~ heap'[Len(heap) + 1].end_loop
      OBVIOUS
    <3>1. PICK event : event \in Entry /\ ~ event.end_loop /\ heap' = Append(heap, event)
      BY DEF Allocates, Fresh
    <3> QED BY <1>0, <3>1
  <2>4. prev_tone' # NULL => heap'[prev_tone'].type = "NOTE"
    <3>1. CASE SameTone
      BY <1>0, <2>1, <3>1 DEF SameTone, ToneInv
    <3>2. CASE NewTone
      BY <3>2 DEF NewTone
    <3> QED BY <1>5, <3>1, <3>2 DEF LeafEffect
  <2> QED BY <2>1, <2>2, <2>3, <2>4 DEF ToneInv, SameMarks
<1> QED BY <1>2, <1>3, <1>4, <1>5, StepCases

(***************************************************************************)
(* In every list an event that ends a loop comes after one that starts     *)
(* one, and no further behind it than the loop is long, unless a dry run   *)
(* has got in the way.                                                     *)
(***************************************************************************)
Fits(events, list) ==
  \A y \in 1 .. Len(list) :
    events[list[y]].end_loop =>
      \E x \in 1 .. y :
        /\ events[list[x]].start_loop
        /\ events[list[y]].tick <= events[list[x]].tick + events[list[y]].loop_offset

LoopInv ==
  stale = {} /\ stray = {} =>
    (\A d \in 1 .. Len(stack) : Fits(heap, stack[d].list)) /\ Fits(heap, part)

LEMMA InitLoopInv == Init => LoopInv
BY DEF Init, LoopInv, Fits

(* A list of events of which none has become an end stays right.           *)
LEMMA FitsKept ==
  ASSUME NEW list \in Seq(Pointers), Fits(heap, list),
         \A e \in Pointers : heap'[e].tick = heap[e].tick,
         \A e \in Pointers : heap[e].start_loop => heap'[e].start_loop,
         \A y \in 1 .. Len(list) :
           heap'[list[y]].end_loop => /\ heap[list[y]].end_loop
                                      /\ heap'[list[y]].loop_offset = heap[list[y]].loop_offset
  PROVE  Fits(heap', list)
<1> SUFFICES ASSUME NEW y \in 1 .. Len(list), heap'[list[y]].end_loop
             PROVE  \E x \in 1 .. y :
                      /\ heap'[list[x]].start_loop
                      /\ heap'[list[y]].tick
                           <= heap'[list[x]].tick + heap'[list[y]].loop_offset
  BY DEF Fits
<1>1. PICK x \in 1 .. y : /\ heap[list[x]].start_loop
                          /\ heap[list[y]].tick
                               <= heap[list[x]].tick + heap[list[y]].loop_offset
  BY DEF Fits
<1>2. list[x] \in Pointers /\ list[y] \in Pointers
  <2> HIDE DEF Pointers
  <2>1. x \in 1 .. Len(list)
    OBVIOUS
  <2> QED BY <2>1
<1> QED BY <1>1, <1>2

LEMMA MarkedFits ==
  ASSUME TypeInv, SameMarks, NEW list \in Seq(Pointers), Fits(heap, list),
         \A e \in Pointers : heap'[e].tick = heap[e].tick
  PROVE  Fits(heap', list)
<1>1. \A y \in 1 .. Len(list) : list[y] \in Pointers
  <2> HIDE DEF Pointers
  <2> QED OBVIOUS
<1> QED BY <1>1, FitsKept DEF SameMarks

(* The list of the frame on top, when the part is appended.                *)
LEMMA AppendedFits ==
  ASSUME TypeInv, OrderInv, BornInv', FirstInv', LoopInv, TakeEffect, AppendPart,
         stale' = {}, stray' = {}
  PROVE  Fits(heap', stack'[Len(stack)].list)
<1> DEFINE n == Len(stack)
           s == stack[n].list
           all == s \o part
           a == Len(s)
           b == Len(part)
<1>1. /\ n \in Nat /\ n >= 1 /\ Len(stack') = n /\ ~ stack[n].dry
      /\ stack'[n].loop = stack[n].loop
      /\ stack'[n].old_offset = stack[n].old_offset
      /\ stack'[n].list = all
  <2>1. ~ stack[n].dry
    BY DEF AppendPart, Top
  <2> QED BY <2>1, TakeShape
<1>2. n \in 1 .. n
  BY <1>1
<1>3. s \in Seq(Pointers) /\ part \in Seq(Pointers) /\ a \in Nat /\ b \in Nat
  BY <1>2, ListedFacts
<1>4. /\ Len(all) = a + b
      /\ \A y \in 1 .. a + b : all[y] = IF y <= a THEN s[y] ELSE part[y - a]
  <2> HIDE DEF s, Pointers
  <2> QED BY <1>3, ConcatProperties
<1>5. \A y \in 1 .. a + b : all[y] \in Pointers
  <2>1. \A y \in 1 .. a : s[y] \in Pointers
    <3> HIDE DEF s, Pointers
    <3> QED BY <1>3
  <2>2. \A y \in 1 .. b : part[y] \in Pointers
    <3> HIDE DEF Pointers
    <3> QED BY <1>3
  <2> HIDE DEF all, s, a, b, Pointers
  <2> QED BY <1>3, <1>4, <2>1, <2>2
<1>6. Fits(heap, s) /\ Fits(heap, part)
  <2>1. stale = {} /\ stray = {}
    BY DEF TakeEffect
  <2> QED BY <1>2, <2>1 DEF LoopInv
<1>7. \A e \in Pointers :
        /\ heap'[e].tick = heap[e].tick
        /\ heap'[e].start_loop <=> heap[e].start_loop \/ (Starts /\ e = part[1])
        /\ heap'[e].end_loop <=> heap[e].end_loop \/ (Ends /\ e = prev_tone)
        /\ heap'[e].loop_offset = IF Ends /\ e = prev_tone THEN offset - Top.old_offset
                                  ELSE heap[e].loop_offset
  BY Marks DEF TakeEffect, SameEvents
<1> SUFFICES ASSUME NEW y \in 1 .. a + b, heap'[all[y]].end_loop
             PROVE  \E x \in 1 .. y :
                      /\ heap'[all[x]].start_loop
                      /\ heap'[all[y]].tick
                           <= heap'[all[x]].tick + heap'[all[y]].loop_offset
  <2> HIDE DEF all, a, b
  <2> QED BY <1>1, <1>4 DEF Fits
<1>8. CASE Ends /\ all[y] = prev_tone
  <2>1. prev_tone \in live /\ heap[prev_tone].tick <= offset
    BY <1>8, Marks DEF OrderInv
  <2>2. 1 \in 1 .. y /\ 1 \in 1 .. a + b
    BY <1>3
  <2>3. /\ heap'[all[1]].start_loop
        /\ stack[n].old_offset <= heap'[all[1]].tick
    <3>1. Len(stack'[n].list) = a + b /\ n \in n .. n
      BY <1>1, <1>4
    <3>2. stack'[n].old_offset <= heap'[stack'[n].list[1]].tick
      BY <1>1, <1>2, <2>2, <3>1 DEF BornInv
    <3>3. stack'[n].list # << >>
      <4>1. Len(all) # 0
        BY <1>4, <2>2, <1>3
      <4> QED BY <1>1, <4>1
    <3>4. stack'[n].loop
      BY <1>1, <1>8 DEF Ends, Top
    <3>5. heap'[stack'[n].list[1]].start_loop
      BY <1>1, <1>2, <3>3, <3>4 DEF FirstInv
    <3> QED BY <1>1, <3>2, <3>5
  <2>4. /\ heap'[all[y]].tick = heap[prev_tone].tick
        /\ heap'[all[y]].loop_offset = offset - stack[n].old_offset
    BY <1>5, <1>7, <1>8 DEF Top
  <2>5. /\ heap'[all[1]].tick \in Nat /\ heap[prev_tone].tick \in Nat
        /\ offset \in Nat /\ stack[n].old_offset \in Nat
    <3>1. TypeOK /\ offset \in Nat
      BY DEF TypeInv, TypeOK
    <3>2. \A e \in Pointers : heap[e].tick \in Nat
      BY <3>1, TickFacts
    <3>3. heap'[all[1]].tick = heap[all[1]].tick /\ all[1] \in Pointers /\ prev_tone \in Pointers
      BY <1>5, <1>7, <1>8, <2>2
    <3> QED BY <1>2, <3>1, <3>2, <3>3, FieldFacts
  <2> HIDE DEF all, a, b, n
  <2>6. heap'[all[y]].tick <= heap'[all[1]].tick + heap'[all[y]].loop_offset
    BY <2>1, <2>3, <2>4, <2>5
  <2> QED BY <2>2, <2>3, <2>6
<1>9. CASE ~ (Ends /\ all[y] = prev_tone)
  <2>1. heap[all[y]].end_loop /\ heap'[all[y]].loop_offset = heap[all[y]].loop_offset
    BY <1>5, <1>7, <1>9
  <2>2. \E x \in 1 .. y : /\ heap[all[x]].start_loop
                          /\ heap[all[y]].tick <= heap[all[x]].tick + heap[all[y]].loop_offset
    <3>1. CASE y <= a
      <4>1. y \in 1 .. Len(s) /\ all[y] = s[y]
        BY <1>3, <1>4, <3>1
      <4>2. PICK x \in 1 .. y : /\ heap[s[x]].start_loop
                                /\ heap[s[y]].tick <= heap[s[x]].tick + heap[s[y]].loop_offset
        BY <1>6, <2>1, <4>1 DEF Fits
      <4>3. all[x] = s[x]
        BY <1>3, <1>4, <3>1
      <4> QED BY <4>1, <4>2, <4>3
    <3>2. CASE y > a
      <4> DEFINE z == y - a
      <4>1. z \in 1 .. Len(part) /\ all[y] = part[z]
        BY <1>3, <1>4, <3>2
      <4>2. PICK x \in 1 .. z :
               /\ heap[part[x]].start_loop
               /\ heap[part[z]].tick <= heap[part[x]].tick + heap[part[z]].loop_offset
        BY <1>6, <2>1, <4>1 DEF Fits
      <4>3. a + x \in 1 .. y /\ a + x \in 1 .. a + b /\ ~ (a + x <= a) /\ (a + x) - a = x
        BY <1>3, <3>2, <4>2
      <4>4. all[a + x] = part[x]
        BY <1>4, <4>3
      <4> DEFINE w == a + x
      <4>5. w \in 1 .. y /\ all[w] = part[x]
        BY <4>3, <4>4
      <4> HIDE DEF w, z, all, a, b
      <4> QED BY <4>1, <4>2, <4>5
    <3>3. y <= a \/ y > a
      BY <1>3
    <3> HIDE DEF all, a, b
    <3> QED BY <3>1, <3>2, <3>3
  <2>3. PICK x \in 1 .. y : /\ heap[all[x]].start_loop
                            /\ heap[all[y]].tick <= heap[all[x]].tick + heap[all[y]].loop_offset
    BY <2>2
  <2>4. x \in 1 .. a + b
    BY <1>3
  <2> HIDE DEF all, a, b
  <2> QED BY <1>5, <1>7, <2>1, <2>3, <2>4
<1> QED BY <1>8, <1>9

LEMMA AppendLoopInv ==
  ASSUME TypeInv, OrderInv, BornInv, BornInv', FirstInv', LoopInv, TakeEffect, AppendPart
  PROVE  LoopInv'
<1> SUFFICES ASSUME stale' = {}, stray' = {}
             PROVE  (\A d \in 1 .. Len(stack') : Fits(heap', stack'[d].list)) /\ Fits(heap', part')
  BY DEF LoopInv, Fits
<1> DEFINE n == Len(stack)
<1>1. /\ n \in Nat /\ n >= 1 /\ Len(stack') = n
      /\ \A d \in 1 .. n - 1 : stack'[d] = stack[d]
      /\ part' = << >> /\ Top = stack[n]
  BY TakeShape DEF Top
<1>2. stale = {} /\ stray = {}
  BY DEF TakeEffect
<1>3. ASSUME NEW d \in 1 .. n - 1
      PROVE  Fits(heap', stack'[d].list)
  <2> DEFINE s == stack[d].list
  <2>1. d \in 1 .. n /\ n \in 1 .. n /\ d \in 1 .. n - 1 /\ stack'[d] = stack[d]
    BY <1>1
  <2>2. s \in Seq(Pointers) /\ Fits(heap, s)
    BY <1>2, <2>1, ListedFacts DEF LoopInv
  <2>3. /\ \A e \in Pointers : heap'[e].tick = heap[e].tick
        /\ \A e \in Pointers : heap[e].start_loop => heap'[e].start_loop
    BY Marks DEF TakeEffect, SameEvents
  <2>4. ASSUME NEW y \in 1 .. Len(s), heap'[s[y]].end_loop
        PROVE  heap[s[y]].end_loop /\ heap'[s[y]].loop_offset = heap[s[y]].loop_offset
    <3>1. s[y] \in Pointers
      BY <2>1, ListedFacts
    <3>2. s[y] <= stack[n].born
      BY <2>1 DEF BornInv
    <3>3. ~ (Ends /\ s[y] = prev_tone)
      BY <1>1, <3>2, Marks
    <3> QED BY <2>4, <3>1, <3>3, Marks
  <2> HIDE DEF s
  <2>5. Fits(heap', s)
    BY <2>2, <2>3, <2>4, FitsKept
  <2> QED BY <2>1, <2>5 DEF s
<1>4. Fits(heap', stack'[n].list)
  BY AppendedFits
<1>5. Fits(heap', part')
  BY <1>1 DEF Fits
<1>6. \A d \in 1 .. n : d = n \/ d \in 1 .. n - 1
  BY <1>1
<1> HIDE DEF n
<1> QED BY <1>1, <1>3, <1>4, <1>5, <1>6

LEMMA CutLoopInv ==
  ASSUME TypeInv, LoopInv, Cut
  PROVE  LoopInv'
<1>1. /\ UNCHANGED <<heap, stack, stale, stray>> /\ stack = << >>
      /\ \E x \in 0 .. Len(part) : part' = SubSeq(part, 1, x)
  BY CutFacts DEF history
<1>2. PICK x \in 0 .. Len(part) : part' = SubSeq(part, 1, x)
  BY <1>1
<1>3. part \in Seq(Pointers) /\ Len(part) \in Nat
  BY DEF TypeInv, TypeOK
<1>4. Len(part') = x /\ \A y \in 1 .. x : part'[y] = part[y] /\ y \in 1 .. Len(part)
  BY <1>2, <1>3
<1> SUFFICES ASSUME Fits(heap, part)
             PROVE  Fits(heap, part')
  BY <1>1 DEF LoopInv
<1>5. ASSUME NEW y \in 1 .. x, heap[part'[y]].end_loop
      PROVE  \E z \in 1 .. y :
               /\ heap[part'[z]].start_loop
               /\ heap[part'[y]].tick <= heap[part'[z]].tick + heap[part'[y]].loop_offset
  <2>1. part'[y] = part[y] /\ y \in 1 .. Len(part)
    BY <1>4
  <2>2. PICK z \in 1 .. y :
           /\ heap[part[z]].start_loop
           /\ heap[part[y]].tick <= heap[part[z]].tick + heap[part[y]].loop_offset
    BY <1>5, <2>1 DEF Fits
  <2>3. part'[z] = part[z]
    BY <1>4
  <2> QED BY <2>1, <2>2, <2>3
<1> QED BY <1>4, <1>5 DEF Fits

LEMMA StepLoopInv ==
  TypeInv /\ OrderInv /\ BornInv /\ FirstInv /\ LoopInv /\ [Step]_vars => LoopInv'
<1> SUFFICES ASSUME TypeInv, OrderInv, BornInv, FirstInv, LoopInv, [Step]_vars
             PROVE  LoopInv'
  OBVIOUS
<1>1. CASE UNCHANGED <<heap, stack, part, stale, stray>>
  BY <1>1 DEF LoopInv
<1>2. CASE NextKid \/ UNCHANGED vars
  BY <1>1, <1>2 DEF NextKid, memory, history, vars
<1>3. CASE AppendPart /\ TakeEffect
  <2>1. BornInv' /\ FirstInv'
    BY StepBornInv, StepFirstInv
  <2> QED BY <1>3, <2>1, AppendLoopInv
<1>4. CASE Cut
  BY <1>4, CutLoopInv
<1> DEFINE n == Len(stack)
<1>5. CASE LeafEffect \/ OpenEffect \/ (FreePart /\ TakeEffect) \/ LeaveEffect
  <2> SUFFICES ASSUME stale' = {}, stray' = {}
               PROVE  /\ \A d \in 1 .. Len(stack') : Fits(heap', stack'[d].list)
                      /\ Fits(heap', part')
    BY DEF LoopInv
  <2>1. /\ \A d \in 1 .. n : Fits(heap, stack[d].list)
        /\ stale = {} /\ stray = {}
    BY <1>5 DEF LoopInv, LeafEffect, OpenEffect, TakeEffect, LeaveEffect
  <2>2. SameMarks /\ \A e \in Pointers : heap'[e].tick = heap[e].tick
    BY <1>5, KeepsMarks, KeepsEvents
  <2>3. \A d \in 1 .. n : Fits(heap', stack[d].list)
    BY <2>1, <2>2, ListedFacts, MarkedFits
  <2>4. \A list : list = << >> => Fits(heap', list)
    BY DEF Fits
  <2>5. CASE LeafEffect
    <3>1. Fits(heap', part')
      BY <2>5, NewUnmarked DEF Fits
    <3> QED BY <2>3, <2>5, <3>1 DEF LeafEffect
  <2>6. CASE OpenEffect
    <3>1. /\ n \in Nat /\ Len(stack') = n + 1 /\ \A d \in 1 .. n : stack'[d] = stack[d]
          /\ stack'[n + 1].list = << >> /\ part' = << >>
      BY <2>6, OpenShape DEF Opens
    <3>2. \A d \in 1 .. n + 1 : d = n + 1 \/ d \in 1 .. n
      BY <3>1
    <3> HIDE DEF n
    <3> QED BY <2>3, <2>4, <3>1, <3>2
  <2>7. CASE FreePart /\ TakeEffect
    <3>1. /\ n \in Nat /\ Len(stack') = n /\ \A d \in 1 .. n - 1 : stack'[d] = stack[d]
          /\ stack'[n].list = << >> /\ part' = << >>
      <4>1. stack[n].dry
        BY <2>7 DEF FreePart, Top
      <4> QED BY <2>7, <4>1, TakeShape
    <3>2. \A d \in 1 .. n : d = n \/ (d \in 1 .. n - 1 /\ d \in 1 .. n)
      BY <3>1
    <3> HIDE DEF n
    <3> QED BY <2>3, <2>4, <3>1, <3>2
  <2>8. CASE LeaveEffect
    <3>1. /\ n \in Nat /\ n >= 1 /\ Len(stack') = n - 1
          /\ \A d \in 1 .. n - 1 : stack'[d] = stack[d]
          /\ part' = stack[n].list
      BY <2>8, LeaveShape
    <3>2. n \in 1 .. n /\ \A d \in 1 .. n - 1 : d \in 1 .. n
      BY <3>1
    <3> HIDE DEF n
    <3> QED BY <2>3, <3>1, <3>2
  <2> QED BY <1>5, <2>5, <2>6, <2>7, <2>8
<1>6. \/ NextKid \/ UNCHANGED vars
      \/ AppendPart /\ TakeEffect
      \/ Cut
      \/ LeafEffect \/ OpenEffect \/ (FreePart /\ TakeEffect) \/ LeaveEffect
  BY StepCases
<1> QED BY <1>2, <1>3, <1>4, <1>5, <1>6


(***************************************************************************)
(* What the cut leaves: a list that ends either with the first event that  *)
(* ends a loop or, if there is none, with USR0.                            *)
(***************************************************************************)
DoneInv ==
  mode = "done" =>
    /\ part # << >>
    /\ \A y \in 1 .. Len(part) : heap[part[y]].end_loop => y = Len(part)
    /\ heap[part[Len(part)]].end_loop <=> heap[part[Len(part)]].type # "USR0"

LEMMA InitDoneInv == Init => DoneInv
BY DEF Init, DoneInv

LEMMA CutDoneInv ==
  ASSUME TypeInv, UsrInv, ToneInv, Cut
  PROVE  DoneInv'
<1>1. /\ stack = << >> /\ mode = "return" /\ heap' = heap
  BY CutFacts
<1>2. EndsWithUsr0(part)
  BY <1>1 DEF UsrInv, Closed
<1>3. /\ part \in Seq(Pointers) /\ Len(part) \in Nat
      /\ \A y \in 1 .. Len(part) : heap[part[y]].end_loop => heap[part[y]].type = "NOTE"
  BY ListedFacts DEF ToneInv, TypeInv, TypeOK
<1> DEFINE ends == {y \in 1 .. Len(part) : heap[part[y]].end_loop}
<1>4. CASE ends = {}
  <2>1. part' = part
    BY <1>4 DEF Cut, FreeAfterLoop
  <2>2. Len(part) \in 1 .. Len(part) /\ heap[part[Len(part)]].type = "USR0"
    BY <1>2, <1>3 DEF EndsWithUsr0
  <2> QED BY <1>1, <1>2, <1>4, <2>1, <2>2 DEF DoneInv, EndsWithUsr0
<1>5. CASE ends # {}
  <2>1. PICK x \in ends : (\A y \in ends : x <= y) /\ part' = SubSeq(part, 1, x)
    BY <1>5 DEF Cut, FreeAfterLoop
  <2>2. x \in 1 .. Len(part) /\ heap[part[x]].end_loop /\ heap[part[x]].type = "NOTE"
    BY <1>3
  <2> HIDE DEF ends, Pointers
  <2>3. Len(part') = x /\ part' # << >> /\ \A y \in 1 .. x : part'[y] = part[y]
    BY <1>3, <2>1, <2>2
  <2>4. ASSUME NEW y \in 1 .. x, heap[part[y]].end_loop
        PROVE  y = x
    <3>1. y \in ends
      BY <1>3, <2>2, <2>4 DEF ends
    <3> QED BY <2>1, <2>2, <3>1
  <2>5. part'[x] = part[x]
    BY <2>2, <2>3
  <2> QED BY <1>1, <2>2, <2>3, <2>4, <2>5 DEF DoneInv
<1> QED BY <1>4, <1>5

LEMMA StepDoneInv == TypeInv /\ UsrInv /\ ToneInv /\ DoneInv /\ [Step]_vars => DoneInv'
<1> SUFFICES ASSUME TypeInv, UsrInv, ToneInv, DoneInv, [Step]_vars
             PROVE  DoneInv'
  OBVIOUS
<1>1. CASE UNCHANGED vars
  BY <1>1 DEF vars, memory, DoneInv
<1>2. CASE LeafEffect \/ OpenEffect \/ NextKid \/ TakeEffect \/ LeaveEffect
  BY <1>2 DEF LeafEffect, OpenEffect, NextKid, TakeEffect, LeaveEffect, DoneInv
<1>3. CASE Cut
  BY <1>3, CutDoneInv
<1> QED BY <1>1, <1>2, <1>3, StepKinds

(***************************************************************************)
(* Together these give what the scheduler needs.                           *)
(***************************************************************************)
LEMMA PlayableWhenDone ==
  ASSUME TypeInv, OwnInv, OrderInv, PathInv, UsrInv, LoopInv, DoneInv,
         mode = "done", stale = {}, stray = {}
  PROVE  Playable(Result)
<1> DEFINE n == Len(part)
           list == Result
<1>1. /\ stack = << >> /\ heap \in Seq(Entry) /\ part \in Seq(Pointers) /\ Len(part) \in Nat
      /\ Len(heap) \in Nat /\ part # << >>
  BY DEF PathInv, TypeInv, TypeOK, DoneInv
<1>2. n \in Nat \ {0} /\ n \in 1 .. n
  BY <1>1
<1>3. ASSUME NEW x \in 1 .. n
      PROVE  /\ part[x] \in 1 .. Len(heap) /\ heap[part[x]] \in Entry
             /\ part[x] \in live
  <2>1. part[x] \in Pointers
    <3> HIDE DEF Pointers
    <3> QED BY <1>1
  <2>2. Len(stack) = 0 /\ 1 \in 1 .. Len(stack) + 1 /\ Lists[1] = part
    BY <1>1 DEF Lists
  <2> QED BY <1>1, <2>1, <2>2, ContentsMember DEF Pointers, OwnInv
<1>4. /\ list = [x \in 1 .. n |-> heap[part[x]]] /\ Len(list) = n
      /\ \A x \in 1 .. n : list[x] = heap[part[x]]
      /\ list \in Seq(Entry) /\ list # << >> /\ Positions(list) = 1 .. n
  <2>1. list = [x \in 1 .. n |-> heap[part[x]]]
    BY DEF Result
  <2>2. list \in Seq(Entry)
    <3> HIDE DEF Entry
    <3> QED BY <1>2, <1>3, <2>1
  <2>3. Len(list) = n
    BY <1>2, <2>1
  <2> QED BY <1>2, <2>1, <2>2, <2>3 DEF Positions
<1>5. ASSUME NEW x \in 1 .. n, NEW y \in 1 .. n, x < y
      PROVE  part[x] < part[y]
  <2>1. Len(stack) = 0 /\ 1 \in 1 .. Len(stack) + 1 /\ Lists[1] = part
    BY <1>1 DEF Lists
  <2>2. Ascending(Lists, Len(stack) + 1)
    BY DEF OwnInv
  <2> HIDE DEF n
  <2>3. Lists[1][x] < Lists[1][y]
    BY <1>5, <2>1, <2>2 DEF Ascending, n
  <2> QED BY <2>1, <2>3
<1> HIDE DEF list, n
<1>6. \A x, y \in 1 .. n : x < y => list[x].tick <= list[y].tick
  BY <1>3, <1>4, <1>5 DEF OrderInv
<1>7. \A x \in 1 .. n : list[x].end_loop => x = n
  BY <1>4 DEF DoneInv, n
<1>8. ASSUME NEW x \in 1 .. n, list[x].type = "USR0"
      PROVE  x = n
  <2>1. part[x] = Len(heap)
    BY <1>3, <1>4, <1>8 DEF UsrInv, Pointers
  <2>2. part[n] <= Len(heap) /\ part[n] \in Nat
    BY <1>2, <1>3
  <2>3. ~ (x < n)
    BY <1>1, <1>2, <1>5, <2>1, <2>2
  <2> QED BY <1>2, <2>3
<1>9. list[n].end_loop <=> list[n].type # "USR0"
  BY <1>2, <1>4 DEF DoneInv, n
<1>10. ASSUME list[n].end_loop
       PROVE  /\ LoopStarts(list) # {}
              /\ list[Latest(LoopStarts(list))].tick + list[n].loop_offset >= list[n].tick
  <2>1. Fits(heap, part)
    BY DEF LoopInv
  <2>2. PICK x \in 1 .. n :
           /\ heap[part[x]].start_loop
           /\ heap[part[n]].tick <= heap[part[x]].tick + heap[part[n]].loop_offset
    BY <1>2, <1>4, <1>10, <2>1 DEF Fits, n
  <2>3. x \in LoopStarts(list) /\ LoopStarts(list) \in SUBSET (1 .. n)
    BY <1>4, <2>2 DEF LoopStarts
  <2> DEFINE z == Latest(LoopStarts(list))
  <2>4. z \in LoopStarts(list) /\ x <= z
    BY <1>2, <2>3, LatestExists
  <2>5. z \in 1 .. n
    BY <2>3, <2>4
  <2> HIDE DEF z
  <2>6. list[x].tick <= list[z].tick
    <3>1. CASE x = z
      BY <1>3, <1>4, <3>1 DEF Entry
    <3>2. CASE x < z
      BY <1>6, <2>5, <3>2
    <3> QED BY <1>2, <2>4, <2>5, <3>1, <3>2
  <2>7. /\ list[x].tick \in Nat /\ list[z].tick \in Nat /\ list[n].tick \in Nat
        /\ list[n].loop_offset \in Nat
    BY <1>2, <1>3, <1>4, <2>5 DEF Entry
  <2>8. list[n].tick <= list[x].tick + list[n].loop_offset
    BY <1>2, <1>4, <2>2
  <2>9. list[z].tick + list[n].loop_offset >= list[n].tick
    BY <2>6, <2>7, <2>8
  <2> QED BY <2>3, <2>9 DEF z
<1> QED BY <1>4, <1>6, <1>7, <1>8, <1>9, <1>10 DEF Playable, list

(***************************************************************************)
(* What translate() hands to the scheduler is what the scheduler relies on *)
(* (PiecesAssumption), for every song in which no freed event was used and *)
(* no sheet changed an event that is not its own.                          *)
(***************************************************************************)
THEOREM ResultIsPlayable == Spec => []ResultPlayable
<1> DEFINE Inv == /\ TypeInv /\ OwnInv /\ OrderInv /\ PathInv /\ UsrInv
                  /\ BornInv /\ FirstInv /\ ToneInv /\ LoopInv /\ DoneInv
<1>1. Init => Inv
  BY InitTypeInv, InitOwnInv, InitOrderInv, InitPathInv, InitUsrInv, InitBornInv,
     InitFirstInv, InitToneInv, InitLoopInv, InitDoneInv
<1>2. Inv /\ [Step]_vars => Inv'
  BY StepTypeInv, StepOwnInv, StepOrderInv, StepPathInv, StepUsrInv, StepBornInv,
     StepFirstInv, StepToneInv, StepLoopInv, StepDoneInv
<1>3. Inv => ResultPlayable
  BY PlayableWhenDone DEF ResultPlayable
<1> QED BY <1>1, <1>2, <1>3, PTL DEF Spec

-------------------------------------------------------------------------------
(***************************************************************************)
(* The context.  References stand at the top, where they open the second   *)
(* frame, and a legato holds nothing that opens a frame.                   *)
(***************************************************************************)
InLegato == stack # << >> /\ ast[Top.node].type = "LEGATO"

ContextInv ==
  /\ \A s \in 1 .. Len(sheets) : ast[sheets[s].node].type = "SHEET"
  /\ \A d \in 1 .. Len(stack) :
       /\ stack[d].refers => d = 2
       /\ d = 2 => IsSheet(stack[d])
       /\ d <= 2 => stack[d].old_divider = <<1, 1>>
  /\ Len(stack) <= 1 => divider = <<1, 1>> /\ ~ referencing
  /\ Len(stack) >= 2 => (referencing <=> stack[2].refers)
  /\ legato => InLegato /\ Top.i = 1 /\ (mode # "loop" => ~ LastKid(Top))

LEMMA InitContextInv == Init => ContextInv
BY DEF Init, ContextInv

(* The node that is called is of a type its parent may hold.               *)
LEMMA CalledElement ==
  ASSUME TypeInv, PathInv, mode = "call", stack # << >>
  PROVE  ast[arg].type \in Elements(ast[Top.node].type)
<1>1. TypeOK /\ FramesInv
  BY DEF TypeInv
<1>2. Len(stack) \in 1 .. Len(stack) /\ Top = stack[Len(stack)] /\ Top \in Frame
  BY <1>1, FrameFacts DEF Top
<1>3. Kids(Top) # << >> /\ arg = Kids(Top)[Top.j]
  BY <1>2 DEF PathInv, Finished
<1>4. Top.j \in Nat \ {0} /\ Top.node \in 1 .. Len(ast) /\ Kids(Top) = ast[Top.node].kids
  BY <1>1, <1>2, FieldFacts DEF Kids
<1>5. Top.j <= Len(Kids(Top))
  <2> DEFINE n == Len(stack)
  <2>1. n \in 1 .. n /\ Top = stack[n] /\ Kids(stack[n]) # << >>
    BY <1>2, <1>3
  <2>2. stack[n].j <= Len(Kids(stack[n]))
    BY <1>1, <2>1 DEF FramesInv
  <2> QED BY <2>1, <2>2
<1>6. Top.j \in 1 .. Len(ast[Top.node].kids)
  BY <1>1, <1>2, <1>4, <1>5, FrameFacts
<1> QED BY <1>1, <1>3, <1>4, <1>6, TreeFacts

(* The crate is the frame at the bottom.                                   *)
LEMMA BottomFrame ==
  ASSUME TypeInv, PathInv
  PROVE  \A d \in 1 .. Len(stack) : ast[stack[d].node].type = "CRATE" <=> d = 1
<1>1. TypeOK
  BY DEF TypeInv
<1> QED BY <1>1, FieldFacts, TreeFacts DEF PathInv

LEMMA LeafContextInv ==
  ASSUME TypeInv, PathInv, ContextInv, LeafEffect
  PROVE  ContextInv'
<1>1. /\ UNCHANGED <<stack, sheets, divider, referencing, legato>> /\ SameTree
      /\ mode = "call"
  BY DEF LeafEffect
<1>2. TypeOK
  BY DEF TypeInv
<1>3. \A d \in 1 .. Len(stack) : /\ IsSheet(stack[d])' <=> IsSheet(stack[d])
                                 /\ LastKid(stack[d])' <=> LastKid(stack[d])
                                 /\ ast'[stack[d].node].type = ast[stack[d].node].type
  BY <1>1, <1>2, FieldFacts DEF SameTree, IsSheet, LastKid, Kids
<1>4. \A s \in 1 .. Len(sheets) : ast'[sheets[s].node].type = "SHEET"
  <2> SUFFICES ASSUME NEW s \in 1 .. Len(sheets)
               PROVE  ast'[sheets[s].node].type = "SHEET"
    OBVIOUS
  <2>1. sheets[s] \in SheetEntry
    BY <1>2 DEF TypeOK
  <2>2. sheets[s].node \in 1 .. Len(ast)
    BY <2>1 DEF SheetEntry
  <2> QED BY <1>1, <2>2 DEF SameTree, ContextInv
<1>5. stack # << >> => Len(stack) \in 1 .. Len(stack)
  BY <1>2, FrameFacts
<1>6. legato => InLegato' /\ Top'.i = 1 /\ ~ LastKid(Top)'
  BY <1>1, <1>3, <1>5 DEF ContextInv, InLegato, Top
<1> QED BY <1>1, <1>3, <1>4, <1>6 DEF ContextInv

LEMMA NextKidContextInv ==
  ASSUME TypeInv, PathInv, ContextInv, NextKid
  PROVE  ContextInv'
<1>1. /\ UNCHANGED <<stack, sheets, referencing, ast>> /\ mode = "loop" /\ mode' = "call"
      /\ divider' = IF IsSheet(Top)
                    THEN <<Top.base[1] * ast[Top.node].duration, Top.base[2] * ast[Top.node].units>>
                    ELSE divider
      /\ legato' = IF ast[Top.node].type = "LEGATO" /\ LastKid(Top) THEN FALSE ELSE legato
  BY DEF NextKid
<1>2. Len(stack) \in Nat /\ stack # << >> /\ Len(stack) \in 1 .. Len(stack)
  BY FrameFacts, <1>1 DEF TypeInv, FramesInv
<1>3. Len(stack) <= 1 => ~ IsSheet(Top)
  BY <1>2, BottomFrame DEF Top, IsSheet
<1>4. legato' => InLegato' /\ Top'.i = 1 /\ ~ LastKid(Top)'
  BY <1>1 DEF ContextInv, InLegato, Top, LastKid, Kids
<1> QED BY <1>1, <1>3, <1>4 DEF ContextInv, IsSheet

LEMMA TakeContextInv ==
  ASSUME TypeInv, PathInv, ContextInv, TakeEffect
  PROVE  ContextInv'
<1> DEFINE n == Len(stack)
<1>1. /\ n \in Nat /\ n >= 1 /\ Len(stack') = n
      /\ \A d \in 1 .. n - 1 : stack'[d] = stack[d]
      /\ stack'[n].node = stack[n].node /\ stack'[n].refers = stack[n].refers
      /\ stack'[n].old_divider = stack[n].old_divider
      /\ stack'[n].i = IF LastKid(stack[n]) THEN stack[n].i + 1 ELSE stack[n].i
  BY TakeShape
<1>2. /\ UNCHANGED <<ast, sheets, divider, referencing, legato>> /\ mode = "return"
      /\ mode' = "loop"
  BY DEF TakeEffect, context
<1>3. ASSUME NEW d \in 1 .. n
      PROVE  /\ stack'[d].node = stack[d].node /\ stack'[d].refers = stack[d].refers
             /\ stack'[d].old_divider = stack[d].old_divider
             /\ IsSheet(stack[d])' <=> IsSheet(stack[d])
  <2>1. /\ stack'[d].node = stack[d].node /\ stack'[d].refers = stack[d].refers
        /\ stack'[d].old_divider = stack[d].old_divider
    BY <1>1
  <2> QED BY <1>2, <2>1 DEF IsSheet
<1>4. legato' => InLegato' /\ Top'.i = 1
  <2> SUFFICES ASSUME legato
               PROVE  InLegato' /\ Top'.i = 1
    BY <1>2
  <2>1. ast[stack[n].node].type = "LEGATO" /\ stack[n].i = 1 /\ ~ LastKid(stack[n])
    BY <1>2 DEF ContextInv, InLegato, Top
  <2>2. stack' # << >>
    BY <1>1
  <2> QED BY <1>1, <1>2, <2>1, <2>2 DEF InLegato, Top
<1>5. n >= 2 => 2 \in 1 .. n
  BY <1>1
<1> HIDE DEF n
<1> QED BY <1>1, <1>2, <1>3, <1>4, <1>5 DEF ContextInv, n

LEMMA LeaveContextInv ==
  ASSUME TypeInv, PathInv, ContextInv, LeaveCrateOrLegato \/ LeaveSheet
  PROVE  ContextInv'
<1> DEFINE n == Len(stack)
<1>0. LeaveEffect
  BY LeaveFacts
<1>1. /\ n \in Nat /\ n >= 1 /\ Len(stack') = n - 1
      /\ \A d \in 1 .. n - 1 : stack'[d] = stack[d]
  BY <1>0, LeaveShape
<1>2. UNCHANGED <<ast, sheets, legato>> /\ mode = "loop" /\ mode' = "return" /\ Finished(Top)
  BY <1>0 DEF LeaveEffect
<1>3. n \in 1 .. n /\ Top = stack[n] /\ Top \in Frame /\ TypeOK
  BY <1>1, FrameFacts DEF Top, TypeInv
<1>4. ~ legato
  <2> SUFFICES ASSUME legato
               PROVE  FALSE
    OBVIOUS
  <2>1. ast[Top.node].type = "LEGATO" /\ Top.i = 1
    BY DEF ContextInv, InLegato
  <2>2. Kids(Top) # << >> /\ Top.count \in Nat \ {0}
    BY <1>3, <2>1, FieldFacts, TreeFacts DEF Kids
  <2> QED BY <1>2, <2>1, <2>2 DEF Finished
<1>5. \A d \in 1 .. n - 1 : IsSheet(stack[d])' <=> IsSheet(stack[d])
  BY <1>1, <1>2 DEF IsSheet
<1>6. /\ IsSheet(Top) => divider' = Top.old_divider /\ referencing' = IF Top.refers THEN FALSE ELSE referencing
      /\ ~ IsSheet(Top) => UNCHANGED <<divider, referencing>>
  BY DEF LeaveCrateOrLegato, LeaveSheet, ReferencingAfter
<1>7. n - 1 <= 1 => divider' = <<1, 1>> /\ ~ referencing'
  <2>1. CASE n = 1
    <3>1. ~ IsSheet(Top)
      BY <1>3, <2>1, BottomFrame DEF IsSheet
    <3> QED BY <1>6, <2>1, <3>1 DEF ContextInv
  <2>2. CASE n = 2
    <3>1. 2 \in 1 .. Len(stack) /\ Top = stack[2] /\ Len(stack) >= 2
      BY <1>3, <2>2
    <3>2. /\ IsSheet(stack[2]) /\ stack[2].old_divider = <<1, 1>>
          /\ referencing <=> stack[2].refers
      BY <3>1 DEF ContextInv
    <3>3. divider' = <<1, 1>> /\ referencing' = IF stack[2].refers THEN FALSE ELSE referencing
      BY <1>6, <3>1, <3>2
    <3> QED BY <3>2, <3>3
  <2>3. n - 1 <= 1 => n = 1 \/ n = 2
    <3>1. n \in Nat /\ n >= 1
      BY <1>1
    <3> HIDE DEF n
    <3> QED BY <3>1
  <2> QED BY <2>1, <2>2, <2>3
<1>8. n - 1 >= 2 => (referencing' <=> stack'[2].refers)
  <2> SUFFICES ASSUME n - 1 >= 2
               PROVE  referencing' <=> stack'[2].refers
    OBVIOUS
  <2>1. 2 \in 1 .. n - 1 /\ n # 2 /\ n >= 2
    BY <1>1
  <2>2. ~ Top.refers
    BY <1>3, <2>1 DEF ContextInv
  <2>3. referencing' = referencing
    BY <1>6, <2>2
  <2> QED BY <1>1, <2>1, <2>3 DEF ContextInv
<1> HIDE DEF n
<1>9. \A d \in 1 .. n - 1 : d \in 1 .. n
  BY <1>1
<1> QED BY <1>1, <1>2, <1>4, <1>5, <1>7, <1>8, <1>9 DEF ContextInv, n

(* What is opened, and where.                                              *)
LEMMA OpenedFrame ==
  ASSUME TypeInv, PathInv, ContextInv, OpenEffect, Crate \/ Legato \/ Sheet \/ Reference
  PROVE  LET n == Len(stack)
             f == stack'[n + 1]
         IN  /\ f.i = 1 /\ f.old_divider = divider /\ ~ legato
             /\ \/ Crate /\ n = 0 /\ ~ f.refers /\ f.node = arg
                \/ Legato /\ n >= 2 /\ ~ f.refers /\ f.node = arg
                \/ Sheet /\ n >= 1 /\ ~ f.refers /\ f.node = arg
                \/ /\ Reference /\ n = 1 /\ f.refers /\ ast[f.node].type = "SHEET"
                   /\ referencing'
<1> DEFINE n == Len(stack)
           f == stack'[n + 1]
<1>1. /\ TypeOK /\ stack \in Seq(Frame) /\ n \in Nat /\ arg \in 1 .. Len(ast)
      /\ mode = "call"
  BY FrameFacts DEF TypeInv, TypeOK, OpenEffect
<1>2. \A g : stack' = Append(stack, g) => f = g
  <2> HIDE DEF Frame
  <2> QED BY <1>1
<1>3. f.i = 1
  BY OpenShape DEF Opens
<1>4. stack # << >> => n \in 1 .. n /\ Top = stack[n] /\ n >= 1
  BY <1>1, FrameFacts DEF Top
<1>5. stack = << >> => n = 0 /\ ~ legato /\ ast[arg].type = "CRATE"
  BY <1>1, CalledNode, TreeFacts DEF ContextInv, InLegato
<1>6. stack # << >> => ast[arg].type \in Elements(ast[Top.node].type)
  BY <1>1, CalledElement
<1>7. stack # << >> /\ ast[Top.node].type = "LEGATO" => ast[arg].type \in {"NOTE", "INTERVAL", "TIE", "DIVIDER"}
  BY <1>6 DEF Elements
<1>8. ast[arg].type \in {"CRATE", "LEGATO", "SHEET", "REFERENCE"}
  BY DEF Crate, Legato, Sheet, Reference, Called
<1>9. ~ legato
  BY <1>5, <1>7, <1>8 DEF ContextInv, InLegato
<1>10. CASE Crate
  <2>1. ast[arg].type = "CRATE" /\ f = OpenFrame(arg, 1, divider, FALSE)
    BY <1>2, <1>10 DEF Crate, Called, Push
  <2>2. stack # << >> => ast[arg].type # "CRATE"
    BY <1>6 DEF Elements
  <2>3. f.old_divider = divider /\ ~ f.refers /\ f.node = arg
    BY <2>1 DEF OpenFrame
  <2> QED BY <1>3, <1>5, <1>9, <1>10, <2>1, <2>2, <2>3
<1>11. CASE Legato
  <2>1. ast[arg].type = "LEGATO" /\ f = OpenFrame(arg, 1, divider, FALSE)
    BY <1>2, <1>11 DEF Legato, Called, Push
  <2>2. stack # << >> /\ ast[Top.node].type # "CRATE"
    BY <1>5, <1>6, <2>1 DEF Elements
  <2>3. n # 1
    BY <1>4, <2>2, BottomFrame
  <2>4. f.old_divider = divider /\ ~ f.refers /\ f.node = arg
    BY <2>1 DEF OpenFrame
  <2>5. n >= 2
    <3>1. n >= 1
      BY <1>4, <2>2
    <3> HIDE DEF n
    <3> QED BY <1>1, <2>3, <3>1
  <2> QED BY <1>3, <1>9, <1>11, <2>4, <2>5
<1>12. CASE Sheet
  <2>1. ast[arg].type = "SHEET" /\ f = OpenFrame(arg, ast[arg].repeat_count, divider, FALSE)
    BY <1>2, <1>12 DEF Sheet, Called, Push
  <2>2. f.old_divider = divider /\ ~ f.refers /\ f.node = arg
    BY <2>1 DEF OpenFrame
  <2> QED BY <1>3, <1>4, <1>5, <1>9, <1>12, <2>1, <2>2
<1>13. CASE Reference
  <2>1. ast[arg].type = "REFERENCE" /\ referencing'
    BY <1>13 DEF Reference, Called
  <2>2. PICK s \in Found(ast[arg].label) :
           f = OpenFrame(sheets[s].node, ast[arg].repeat_count, sheets[s].divider, TRUE)
    BY <1>2, <1>13 DEF Reference, Push
  <2>3. s \in 1 .. Len(sheets)
    BY DEF Found, Matches
  <2>4. f.old_divider = divider /\ f.refers /\ f.node = sheets[s].node
    BY <2>2 DEF OpenFrame
  <2>5. ast[f.node].type = "SHEET"
    BY <2>3, <2>4 DEF ContextInv
  <2>6. stack # << >> /\ ast[Top.node].type = "CRATE"
    BY <1>5, <1>6, <2>1 DEF Elements
  <2>7. n = 1
    BY <1>4, <2>6, BottomFrame
  <2> QED BY <1>3, <1>9, <1>13, <2>1, <2>4, <2>5, <2>7
<1> QED BY <1>10, <1>11, <1>12, <1>13

LEMMA OpenSheets ==
  ASSUME TypeInv, ContextInv, Crate \/ Legato \/ Sheet \/ Reference
  PROVE  \A s \in 1 .. Len(sheets') : ast[sheets'[s].node].type = "SHEET"
<1>1. CASE sheets' = sheets
  BY <1>1 DEF ContextInv
<1>2. CASE Sheet /\ sheets' = Append(sheets, SheetReference(arg, namespace'))
  <2>1. SheetReference(arg, namespace').node = arg /\ ast[arg].type = "SHEET"
    BY <1>2 DEF SheetReference, Sheet, Called
  <2>2. sheets \in Seq(SheetEntry)
    BY DEF TypeInv, TypeOK
  <2> HIDE DEF SheetEntry
  <2>3. \A s \in 1 .. Len(sheets') : \/ s \in 1 .. Len(sheets) /\ sheets'[s] = sheets[s]
                                     \/ sheets'[s] = SheetReference(arg, namespace')
    BY <1>2, <2>2
  <2> QED BY <2>1, <2>3 DEF ContextInv
<1> QED BY <1>1, <1>2 DEF Crate, Legato, Sheet, Reference

LEMMA OpenContextInv ==
  ASSUME TypeInv, PathInv, ContextInv, Crate \/ Legato \/ Sheet \/ Reference
  PROVE  ContextInv'
<1> DEFINE n == Len(stack)
           f == stack'[n + 1]
<1>0. OpenEffect
  BY OpenFacts
<1>1. /\ n \in Nat /\ Len(stack') = n + 1 /\ \A d \in 1 .. n : stack'[d] = stack[d]
      /\ UNCHANGED <<ast, divider>> /\ mode' = "loop"
  BY <1>0, OpenShape DEF OpenEffect
<1>2. \A s \in 1 .. Len(sheets') : ast'[sheets'[s].node].type = "SHEET"
  BY <1>1, OpenSheets
<1>3. /\ f.i = 1 /\ f.old_divider = divider /\ ~ legato
      /\ \/ Crate /\ n = 0 /\ ~ f.refers /\ f.node = arg
         \/ Legato /\ n >= 2 /\ ~ f.refers /\ f.node = arg
         \/ Sheet /\ n >= 1 /\ ~ f.refers /\ f.node = arg
         \/ Reference /\ n = 1 /\ f.refers /\ ast[f.node].type = "SHEET" /\ referencing'
  BY <1>0, OpenedFrame
<1>4. /\ n <= 1 => divider = <<1, 1>> /\ ~ referencing
      /\ n >= 2 => (referencing <=> stack[2].refers)
      /\ \A d \in 1 .. n : /\ stack[d].refers => d = 2
                           /\ d = 2 => IsSheet(stack[d])
                           /\ d <= 2 => stack[d].old_divider = <<1, 1>>
  BY DEF ContextInv
<1>5. \A d \in 1 .. n : IsSheet(stack[d])' <=> IsSheet(stack[d])
  BY <1>1 DEF IsSheet
<1>6. Reference \/ referencing' = referencing
  BY <1>3 DEF Crate, Legato, Sheet
<1>7. legato' => Legato
  BY <1>3 DEF Crate, Sheet, Reference
<1>8. /\ Sheet => ast[arg].type = "SHEET" /\ ~ Reference /\ ~ Crate /\ ~ Legato
      /\ Legato => ast[arg].type = "LEGATO" /\ ~ Reference
      /\ Crate => ~ Reference
  BY DEF Sheet, Legato, Crate, Reference, Called
<1>9. Legato => InLegato' /\ Top'.i = 1
  <2>1. Legato => ast[f.node].type = "LEGATO"
    BY <1>3, <1>8
  <2>2. stack' # << >> /\ Top' = f
    BY <1>1 DEF Top
  <2> QED BY <1>1, <1>3, <2>1, <2>2 DEF InLegato
<1>10. n + 1 = 2 => ast[f.node].type = "SHEET"
  <2>1. n + 1 = 2 => Sheet \/ Reference
    <3> HIDE DEF n, f
    <3> QED BY <1>1, <1>3
  <2>2. Sheet => ast[f.node].type = "SHEET"
    BY <1>3, <1>8
  <2> QED BY <1>3, <1>8, <2>1, <2>2
<1> HIDE DEF n, f
<1>11. ASSUME NEW d \in 1 .. n + 1
       PROVE  /\ stack'[d].refers => d = 2
              /\ d = 2 => IsSheet(stack[d])'
              /\ d <= 2 => stack'[d].old_divider = <<1, 1>>
  <2>1. CASE d \in 1 .. n
    BY <1>1, <1>4, <1>5, <2>1
  <2>2. CASE d = n + 1
    <3>1. stack'[d] = f
      BY <2>2 DEF f, n
    <3>2. f.refers => d = 2
      BY <1>1, <1>3, <2>2
    <3>3. d <= 2 => f.old_divider = <<1, 1>>
      BY <1>1, <1>3, <1>4, <2>2
    <3>4. d = 2 => IsSheet(stack[d])'
      BY <1>1, <1>10, <2>2, <3>1 DEF IsSheet
    <3> QED BY <3>1, <3>2, <3>3, <3>4
  <2> QED BY <1>1, <2>1, <2>2
<1>12. n + 1 <= 1 => divider' = <<1, 1>> /\ ~ referencing'
  BY <1>1, <1>3, <1>4, <1>6, <1>8
<1>13. n + 1 >= 2 => (referencing' <=> stack'[2].refers)
  <2>1. CASE n = 1
    <3>1. stack'[2] = f
      BY <2>1 DEF f, n
    <3> QED BY <1>3, <1>4, <1>6, <1>8, <2>1, <3>1
  <2>2. CASE n >= 2
    <3>1. 2 \in 1 .. n /\ n # 1
      BY <1>1, <2>2
    <3>2. ~ Reference
      BY <1>3, <1>8, <3>1
    <3>3. stack'[2] = stack[2]
      BY <1>1, <3>1
    <3> QED BY <1>4, <1>6, <2>2, <3>2, <3>3
  <2> QED BY <1>1, <2>1, <2>2
<1> QED BY <1>1, <1>2, <1>7, <1>9, <1>11, <1>12, <1>13 DEF ContextInv

LEMMA StepContextInv == TypeInv /\ PathInv /\ ContextInv /\ [Step]_vars => ContextInv'
<1> SUFFICES ASSUME TypeInv, PathInv, ContextInv, [Step]_vars
             PROVE  ContextInv'
  OBVIOUS
<1>1. CASE UNCHANGED vars
  BY <1>1 DEF vars, memory, context, ContextInv, InLegato, IsSheet, LastKid, Kids, Top
<1>2. CASE Leaf
  BY <1>2, LeafFacts, LeafContextInv
<1>3. CASE Crate \/ Legato \/ Sheet \/ Reference
  BY <1>3, OpenContextInv
<1>4. CASE NextKid
  BY <1>4, NextKidContextInv
<1>5. CASE AppendPart \/ FreePart
  BY <1>5, AppendPartFacts, FreePartFacts, TakeContextInv
<1>6. CASE LeaveCrateOrLegato \/ LeaveSheet
  BY <1>6, LeaveContextInv
<1>7. CASE Cut
  BY <1>7, CutFacts DEF context, ContextInv, InLegato, IsSheet, LastKid, Kids, Top
<1> QED BY <1>1, <1>2, <1>3, <1>4, <1>5, <1>6, <1>7 DEF Step

(***************************************************************************)
(* The namespace holds the labels of the labelled sheets that are open,    *)
(* the outermost first.                                                    *)
(***************************************************************************)
NamedFrames ==
  {d \in 1 .. Len(stack) : IsSheet(stack[d]) /\ ast[stack[d].node].label # << >>}

UpTo(S, d) == {c \in S : c <= d}

NameInv ==
  IF referencing THEN namespace = << >>
  ELSE /\ Len(namespace) = Cardinality(NamedFrames)
       /\ \A d \in NamedFrames :
            ast[stack[d].node].label = <<namespace[Cardinality(UpTo(NamedFrames, d))]>>

LEMMA NameInvMeans == NameInv <=> NamespaceFollows
BY DEF NameInv, NamespaceFollows, NamedFrames, UpTo

LEMMA NamedFacts ==
  ASSUME TypeInv
  PROVE  IsFiniteSet(NamedFrames) /\ Cardinality(NamedFrames) \in Nat /\ namespace \in Seq(STRING)
<1>1. Len(stack) \in Nat /\ namespace \in Seq(STRING)
  BY FrameFacts DEF TypeInv, TypeOK
<1>2. IsFiniteSet(1 .. Len(stack))
  BY <1>1, FS_Interval
<1>3. NamedFrames \subseteq 1 .. Len(stack)
  BY DEF NamedFrames
<1> QED BY <1>1, <1>2, <1>3, FS_Subset, FS_CardinalityType

(* A number beyond a set of numbers is added to it.                        *)
LEMMA AddedBeyond ==
  ASSUME NEW n \in Nat, NEW S \in SUBSET (1 .. n)
  PROVE  /\ Cardinality(S \cup {n + 1}) = Cardinality(S) + 1
         /\ Cardinality(S) \in Nat
         /\ UpTo(S \cup {n + 1}, n + 1) = S \cup {n + 1}
         /\ \A d \in S : /\ UpTo(S \cup {n + 1}, d) = UpTo(S, d)
                         /\ Cardinality(UpTo(S, d)) \in 1 .. Cardinality(S)
<1>1. IsFiniteSet(S) /\ n + 1 \notin S
  <2>1. 1 \in Int /\ n \in Int
    OBVIOUS
  <2>2. IsFiniteSet(1 .. n)
    BY <2>1, FS_Interval
  <2>3. n + 1 \notin S
    OBVIOUS
  <2> QED BY <2>2, <2>3, FS_Subset
<1>2. Cardinality(S \cup {n + 1}) = Cardinality(S) + 1 /\ Cardinality(S) \in Nat
  BY <1>1, FS_AddElement, FS_CardinalityType
<1>3. UpTo(S \cup {n + 1}, n + 1) = S \cup {n + 1}
  <2>1. \A c \in S \cup {n + 1} : c <= n + 1
    OBVIOUS
  <2> QED BY <2>1, Zenon DEF UpTo
<1>4. ASSUME NEW d \in S
      PROVE  /\ UpTo(S \cup {n + 1}, d) = UpTo(S, d)
             /\ Cardinality(UpTo(S, d)) \in 1 .. Cardinality(S)
  <2>1. UpTo(S \cup {n + 1}, d) = UpTo(S, d)
    BY DEF UpTo
  <2>2. UpTo(S, d) \subseteq S /\ d \in UpTo(S, d)
    BY DEF UpTo
  <2>3. /\ Cardinality(UpTo(S, d)) <= Cardinality(S) /\ IsFiniteSet(UpTo(S, d))
        /\ Cardinality(UpTo(S, d)) \in Nat /\ Cardinality(UpTo(S, d)) # 0
    BY <1>1, <2>2, FS_Subset, FS_CardinalityType, FS_EmptySet
  <2> QED BY <1>2, <2>1, <2>3
<1> QED BY <1>2, <1>3, <1>4

LEMMA OneNameMore ==
  ASSUME NEW names \in Seq(STRING), NEW label \in Seq(STRING), Len(label) = 1
  PROVE  LET all == names \o label
             k   == Len(names)
         IN  /\ Len(all) = k + 1 /\ all[k + 1] = label[1] /\ label = <<label[1]>>
             /\ \A x \in 1 .. k : all[x] = names[x]
<1> DEFINE all == names \o label
           k   == Len(names)
<1>1. k \in Nat /\ label = <<label[1]>>
  OBVIOUS
<1>2. /\ Len(all) = k + 1
      /\ \A x \in 1 .. k + 1 : all[x] = IF x <= k THEN names[x] ELSE label[x - k]
  <2>1. Len(all) = Len(names) + Len(label)
    BY ConcatProperties
  <2>2. \A x \in 1 .. Len(names) + Len(label) :
          all[x] = IF x <= Len(names) THEN names[x] ELSE label[x - Len(names)]
    BY ConcatProperties
  <2> HIDE DEF all
  <2> QED BY <2>1, <2>2
<1>3. k + 1 \in 1 .. k + 1 /\ k + 1 - k = 1 /\ \A x \in 1 .. k : x \in 1 .. k + 1 /\ x <= k
  BY <1>1
<1> HIDE DEF all, k
<1>4. all[k + 1] = label[1] /\ \A x \in 1 .. k : all[x] = names[x]
  BY <1>1, <1>2, <1>3
<1> QED BY <1>1, <1>2, <1>4 DEF all, k

LEMMA SameNamed ==
  ASSUME TypeInv, NameInv, Len(stack') = Len(stack), UNCHANGED <<namespace, referencing>>,
         \A d \in 1 .. Len(stack) :
           /\ stack'[d].node = stack[d].node
           /\ ast'[stack[d].node].type = ast[stack[d].node].type
           /\ ast'[stack[d].node].label = ast[stack[d].node].label
  PROVE  NameInv'
<1>1. NamedFrames' = NamedFrames
  BY DEF NamedFrames, IsSheet
<1>2. \A d \in NamedFrames : ast'[stack'[d].node].label = ast[stack[d].node].label
  BY DEF NamedFrames
<1> DEFINE S == NamedFrames
<1>3. NamedFrames' = S
  BY <1>1
<1> HIDE DEF S
<1>4. IF referencing THEN namespace = << >>
      ELSE /\ Len(namespace) = Cardinality(S)
           /\ \A d \in S : ast'[stack'[d].node].label = <<namespace[Cardinality(UpTo(S, d))]>>
  BY <1>2 DEF NameInv, S
<1> QED BY <1>3, <1>4 DEF NameInv, UpTo

LEMMA OpenNameInv ==
  ASSUME TypeInv, PathInv, ContextInv, NameInv, Crate \/ Legato \/ Sheet \/ Reference
  PROVE  NameInv'
<1> DEFINE n == Len(stack)
           f == stack'[n + 1]
           S == NamedFrames
<1>0. OpenEffect
  BY OpenFacts
<1>1. /\ n \in Nat /\ Len(stack') = n + 1 /\ \A d \in 1 .. n : stack'[d] = stack[d]
      /\ ast' = ast /\ arg \in 1 .. Len(ast) /\ TypeOK
  BY <1>0, OpenShape DEF OpenEffect, TypeInv, TypeOK
<1>2. \/ Crate /\ n = 0 /\ ~ f.refers /\ f.node = arg
      \/ Legato /\ n >= 2 /\ ~ f.refers /\ f.node = arg
      \/ Sheet /\ n >= 1 /\ ~ f.refers /\ f.node = arg
      \/ Reference /\ n = 1 /\ f.refers /\ ast[f.node].type = "SHEET" /\ referencing'
  BY <1>0, OpenedFrame
<1> DEFINE named == ast[f.node].type = "SHEET" /\ ast[f.node].label # << >>
<1>3. NamedFrames' = IF named THEN S \cup {n + 1} ELSE S
  <2>1. ASSUME NEW d \in 1 .. n
        PROVE  d \in NamedFrames' <=> d \in S
    BY <1>1, <2>1 DEF NamedFrames, IsSheet
  <2>2. n + 1 \in NamedFrames' <=> named
    BY <1>1 DEF NamedFrames, IsSheet
  <2>3. \A d : d \in NamedFrames' => d \in 1 .. n \/ d = n + 1
    <3>1. \A d : d \in NamedFrames' => d \in 1 .. n + 1
      BY <1>1 DEF NamedFrames
    <3> HIDE DEF n
    <3> QED BY <1>1, <3>1
  <2>4. S \subseteq 1 .. n /\ n + 1 \notin 1 .. n
    BY <1>1 DEF NamedFrames
  <2> HIDE DEF S, named
  <2>5. CASE named
    <3>1. \A d : d \in NamedFrames' <=> d \in S \/ d = n + 1
      <4> HIDE DEF n
      <4> QED BY <2>1, <2>2, <2>3, <2>4, <2>5
    <3> QED BY <2>5, <3>1
  <2>6. CASE ~ named
    <3>1. \A d : d \in NamedFrames' <=> d \in S
      <4> HIDE DEF n
      <4> QED BY <2>1, <2>2, <2>3, <2>4, <2>6
    <3> QED BY <2>6, <3>1
  <2> QED BY <2>5, <2>6
<1>4. \A d \in S : ast'[stack'[d].node].label = ast[stack[d].node].label
  BY <1>1 DEF NamedFrames
<1>5. S \in SUBSET (1 .. n)
  BY DEF NamedFrames
<1>6. CASE Crate \/ Legato
  <2>1. UNCHANGED <<namespace, referencing>> /\ ~ named
    BY <1>2, <1>6 DEF Crate, Legato, Sheet, Reference, Called
  <2>2. NamedFrames' = S
    BY <1>3, <2>1
  <2> QED BY <1>4, <2>1, <2>2 DEF NameInv, UpTo
<1>7. CASE Reference
  <2>1. n = 1 /\ referencing' /\ namespace' = namespace
    BY <1>2, <1>7 DEF Crate, Legato, Sheet, Reference, Called
  <2>2. namespace = << >>
    <3>1. ~ referencing
      BY <2>1 DEF ContextInv
    <3>2. S = {}
      BY <2>1, BottomFrame DEF NamedFrames, IsSheet
    <3>3. Len(namespace) = 0
      BY <3>1, <3>2, FS_EmptySet DEF NameInv
    <3> QED BY <3>3, NamedFacts
  <2> QED BY <2>1, <2>2 DEF NameInv
<1>8. CASE Sheet
  <2>1. f.node = arg /\ ast[arg].type = "SHEET" /\ referencing' = referencing
    BY <1>2, <1>8 DEF Crate, Legato, Sheet, Reference, Called
  <2>2. CASE referencing
    <3>1. namespace' = namespace
      BY <1>8, <2>2 DEF Sheet, Named
    <3> QED BY <2>1, <2>2, <3>1 DEF NameInv
  <2>3. CASE ~ referencing /\ ast[arg].label = << >>
    <3>1. namespace' = namespace
      BY <1>8, <2>3 DEF Sheet, Named
    <3>2. NamedFrames' = S
      BY <1>3, <2>1, <2>3
    <3> QED BY <1>4, <2>1, <2>3, <3>1, <3>2 DEF NameInv, UpTo
  <2>4. CASE ~ referencing /\ ast[arg].label # << >>
    <3> DEFINE names == namespace
               label == ast[arg].label
               k == Cardinality(S)
               T == S \cup {n + 1}
    <3>1. namespace' = names \o label
      BY <1>8, <2>4 DEF Sheet, Named
    <3>2. label \in Seq(STRING) /\ Len(label) = 1
      <4>1. label \in Seq(STRING) /\ Len(label) <= 1
        BY <1>1, <2>1, TreeFacts
      <4> HIDE DEF label
      <4>2. label # << >>
        BY <2>4 DEF label
      <4> QED BY <4>1, <4>2
    <3>3. names \in Seq(STRING) /\ Len(names) = k /\ k \in Nat
      BY <2>4, NamedFacts DEF NameInv
    <3>4. NamedFrames' = T
      BY <1>3, <2>1, <2>4
    <3>5. /\ Cardinality(T) = k + 1 /\ UpTo(T, n + 1) = T
          /\ \A d \in S : UpTo(T, d) = UpTo(S, d) /\ Cardinality(UpTo(S, d)) \in 1 .. k
      BY <1>1, <1>5, AddedBeyond
    <3>6. /\ Len(namespace') = k + 1 /\ namespace'[k + 1] = label[1] /\ label = <<label[1]>>
          /\ \A x \in 1 .. k : namespace'[x] = names[x]
      <4> HIDE DEF names, label, k
      <4> QED BY <3>1, <3>2, <3>3, OneNameMore
    <3>7. ASSUME NEW d \in T
          PROVE  ast'[stack'[d].node].label = <<namespace'[Cardinality(UpTo(T, d))]>>
      <4>1. CASE d \in S
        <5>1. ast[stack[d].node].label = <<names[Cardinality(UpTo(S, d))]>>
          BY <2>4, <4>1 DEF NameInv
        <5> QED BY <1>4, <3>5, <3>6, <4>1, <5>1
      <4>2. CASE d = n + 1
        <5>1. Cardinality(UpTo(T, d)) = k + 1
          BY <3>5, <4>2
        <5>2. ast'[stack'[d].node].label = label
          BY <1>1, <2>1, <4>2
        <5> HIDE DEF label, k, T
        <5> QED BY <3>6, <5>1, <5>2
      <4> QED BY <4>1, <4>2
    <3> HIDE DEF T, k
    <3>8. Len(namespace') = Cardinality(T)
      BY <3>5, <3>6
    <3> QED BY <2>1, <2>4, <3>4, <3>7, <3>8 DEF NameInv, UpTo
  <2> QED BY <2>2, <2>3, <2>4
<1> QED BY <1>6, <1>7, <1>8

LEMMA LeaveNameInv ==
  ASSUME TypeInv, PathInv, ContextInv, NameInv, LeaveCrateOrLegato \/ LeaveSheet
  PROVE  NameInv'
<1> DEFINE n == Len(stack)
           S == NamedFrames
           T == NamedFrames'
<1>0. LeaveEffect
  BY LeaveFacts
<1>1. /\ n \in Nat /\ n >= 1 /\ Len(stack') = n - 1 /\ n - 1 \in Nat
      /\ \A d \in 1 .. n - 1 : stack'[d] = stack[d]
  BY <1>0, LeaveShape
<1>2. ast' = ast /\ Top = stack[n]
  BY <1>0 DEF LeaveEffect, Top
<1>3. /\ \A d \in 1 .. n - 1 : d \in T <=> d \in S
      /\ T \in SUBSET (1 .. n - 1) /\ S \in SUBSET (1 .. n)
  <2>1. ASSUME NEW d \in 1 .. n - 1
        PROVE  d \in T <=> d \in S
    <3>1. d \in 1 .. n
      BY <1>1
    <3> QED BY <1>1, <1>2, <3>1 DEF NamedFrames, IsSheet
  <2>2. T \in SUBSET (1 .. n - 1) /\ S \in SUBSET (1 .. n)
    BY <1>1 DEF NamedFrames
  <2> QED BY <2>1, <2>2
<1>4. \A d \in T : ast'[stack'[d].node].label = ast[stack[d].node].label
  BY <1>1, <1>2, <1>3
<1>5. \A d : d \in S => d \in T \/ d = n
  <2>1. \A d : d \in S => d \in 1 .. n
    BY DEF NamedFrames
  <2> HIDE DEF S, T, n
  <2>2. \A d \in 1 .. n : d \in 1 .. n - 1 \/ d = n
    BY <1>1
  <2> QED BY <1>3, <2>1, <2>2
<1>6. \A d : d \in T => d \in S
  BY <1>3
<1>7. n \notin S => T = S
  <2> SUFFICES ASSUME n \notin S
               PROVE  \A d : d \in T <=> d \in S
    OBVIOUS
  <2> HIDE DEF S, T, n
  <2> QED BY <1>5, <1>6
<1>8. CASE ~ IsSheet(Top)
  <2>1. UNCHANGED <<namespace, referencing>> /\ n \notin S
    BY <1>2, <1>8 DEF LeaveCrateOrLegato, LeaveSheet, NamedFrames
  <2>2. NamedFrames' = S
    BY <1>7, <2>1
  <2> QED BY <1>4, <2>1, <2>2 DEF NameInv, UpTo
<1>9. CASE IsSheet(Top) /\ Top.refers
  <2>1. n = 2 /\ n \in 1 .. n
    BY <1>1, <1>2, <1>9 DEF ContextInv
  <2>2. referencing
    BY <1>2, <1>9, <2>1 DEF ContextInv
  <2>3. ~ referencing' /\ namespace' = << >>
    BY <1>9, <2>2 DEF LeaveCrateOrLegato, LeaveSheet, ReferencingAfter, NameInv
  <2>4. 1 \notin S
    BY <2>1, BottomFrame DEF NamedFrames, IsSheet
  <2>5. T = {}
    <3> HIDE DEF S, T, n
    <3> QED BY <1>3, <2>1, <2>4
  <2>6. NamedFrames' = {} /\ Len(<< >>) = 0
    BY <2>5
  <2> QED BY <2>3, <2>6, FS_EmptySet DEF NameInv
<1>10. CASE IsSheet(Top) /\ ~ Top.refers
  <2>1. /\ referencing' = referencing
        /\ namespace' = IF Named(Top.node) THEN SubSeq(namespace, 1, Len(namespace) - 1)
                        ELSE namespace
    BY <1>10 DEF LeaveCrateOrLegato, LeaveSheet, ReferencingAfter
  <2>2. CASE referencing
    BY <2>1, <2>2 DEF NameInv, Named
  <2>3. CASE ~ referencing /\ ast[Top.node].label = << >>
    <3>1. namespace' = namespace /\ n \notin S
      BY <1>2, <2>1, <2>3 DEF Named, NamedFrames
    <3>2. NamedFrames' = S
      BY <1>7, <3>1
    <3> QED BY <1>4, <2>1, <2>3, <3>1, <3>2 DEF NameInv, UpTo
  <2>4. CASE ~ referencing /\ ast[Top.node].label # << >>
    <3> DEFINE k == Cardinality(T)
    <3>1. namespace' = SubSeq(namespace, 1, Len(namespace) - 1)
      BY <2>1, <2>4 DEF Named
    <3>2. n \in S
      BY <1>1, <1>2, <1>10, <2>4 DEF NamedFrames
    <3>3. S = T \cup {n}
      <4>1. \A d : d \in S <=> d \in T \/ d = n
        <5> HIDE DEF S, T, n
        <5> QED BY <1>5, <1>6, <3>2
      <4> QED BY <4>1
    <3>4. /\ Cardinality(S) = k + 1 /\ k \in Nat
          /\ \A d \in T : UpTo(S, d) = UpTo(T, d) /\ Cardinality(UpTo(T, d)) \in 1 .. k
      <4> DEFINE m == n - 1
      <4>1. m + 1 = n /\ m \in Nat /\ T \in SUBSET (1 .. m)
        BY <1>1, <1>3
      <4> HIDE DEF T, n, m, S
      <4>2. /\ Cardinality(T \cup {m + 1}) = k + 1 /\ k \in Nat
            /\ \A d \in T : /\ UpTo(T \cup {m + 1}, d) = UpTo(T, d)
                            /\ Cardinality(UpTo(T, d)) \in 1 .. k
        BY <4>1, AddedBeyond
      <4> QED BY <3>3, <4>1, <4>2
    <3>5. namespace \in Seq(STRING) /\ Len(namespace) = k + 1
      BY <2>4, <3>4, NamedFacts DEF NameInv
    <3>6. /\ Len(namespace') = k /\ \A x \in 1 .. k : namespace'[x] = namespace[x]
      <4> HIDE DEF k
      <4>1. namespace # << >> /\ Len(namespace) - 1 = k
        BY <3>4, <3>5
      <4> QED BY <3>1, <3>5, <4>1, FrontFacts
    <3>7. ASSUME NEW d \in T
          PROVE  ast'[stack'[d].node].label = <<namespace'[Cardinality(UpTo(T, d))]>>
      <4>1. ast[stack[d].node].label = <<namespace[Cardinality(UpTo(S, d))]>>
        BY <2>4, <3>3 DEF NameInv
      <4> HIDE DEF T, S, k
      <4> QED BY <1>4, <3>4, <3>6, <4>1
    <3> QED BY <2>1, <2>4, <3>6, <3>7 DEF NameInv, UpTo
  <2> QED BY <2>2, <2>3, <2>4
<1> QED BY <1>8, <1>9, <1>10

LEMMA StepNameInv ==
  TypeInv /\ PathInv /\ ContextInv /\ NameInv /\ [Step]_vars => NameInv'
<1> SUFFICES ASSUME TypeInv, PathInv, ContextInv, NameInv, [Step]_vars
             PROVE  NameInv'
  OBVIOUS
<1>1. CASE UNCHANGED vars
  BY <1>1, SameNamed DEF vars, context
<1>2. CASE Leaf
  <2>1. LeafEffect
    BY <1>2, LeafFacts
  <2>2. \A d \in 1 .. Len(stack) : /\ ast'[stack[d].node].type = ast[stack[d].node].type
                                   /\ ast'[stack[d].node].label = ast[stack[d].node].label
    BY <2>1, FieldFacts DEF LeafEffect, SameTree, TypeInv
  <2> QED BY <2>1, <2>2, SameNamed DEF LeafEffect
<1>3. CASE Crate \/ Legato \/ Sheet \/ Reference
  BY <1>3, OpenNameInv
<1>4. CASE NextKid
  BY <1>4, SameNamed DEF NextKid
<1>5. CASE AppendPart \/ FreePart
  <2>1. TakeEffect
    BY <1>5, AppendPartFacts, FreePartFacts
  <2>2. Len(stack') = Len(stack) /\ \A d \in 1 .. Len(stack) : stack'[d].node = stack[d].node
    BY <2>1, TakeShape
  <2> QED BY <2>1, <2>2, SameNamed DEF TakeEffect, context
<1>6. CASE LeaveCrateOrLegato \/ LeaveSheet
  BY <1>6, LeaveNameInv
<1>7. CASE Cut
  BY <1>7, CutFacts, SameNamed DEF context
<1> QED BY <1>1, <1>2, <1>3, <1>4, <1>5, <1>6, <1>7 DEF Step

LEMMA InitNameInv == Init => NameInv
<1> SUFFICES ASSUME Init
             PROVE  NameInv
  OBVIOUS
<1>1. stack = << >> /\ namespace = << >> /\ ~ referencing
  BY DEF Init
<1>2. NamedFrames = {}
  BY <1>1 DEF NamedFrames
<1> QED BY <1>1, <1>2, FS_EmptySet DEF NameInv

(***************************************************************************)
(* However sheets are nested, repeated and referred to, the namespace is   *)
(* that of the labelled sheets that are open, and a reference enters none. *)
(***************************************************************************)
THEOREM NamespaceIsThatOfTheSheets == Spec => []NamespaceFollows
<1> DEFINE Inv == TypeInv /\ PathInv /\ ContextInv /\ NameInv
<1>1. Init => Inv
  BY InitTypeInv, InitPathInv, InitContextInv, InitNameInv
<1>2. Inv /\ [Step]_vars => Inv'
  BY StepTypeInv, StepPathInv, StepContextInv, StepNameInv
<1>3. Inv => NamespaceFollows
  BY NameInvMeans
<1> QED BY <1>1, <1>2, <1>3, PTL DEF Spec

(***************************************************************************)
(* No statement at the top leaves a divider, a namespace or a flag behind, *)
(* whatever is nested in it.                                               *)
(***************************************************************************)
THEOREM StatementsAreIndependent == Spec => []TopLevelUndisturbed
<1> DEFINE Inv == TypeInv /\ PathInv /\ ContextInv /\ NameInv
<1>1. Init => Inv
  BY InitTypeInv, InitPathInv, InitContextInv, InitNameInv
<1>2. Inv /\ [Step]_vars => Inv'
  BY StepTypeInv, StepPathInv, StepContextInv, StepNameInv
<1>3. Inv => TopLevelUndisturbed
  <2> SUFFICES ASSUME Inv, Len(stack) <= 1
               PROVE  divider = <<1, 1>> /\ namespace = << >> /\ ~ referencing /\ ~ legato
    BY DEF TopLevelUndisturbed, PathInv
  <2>1. divider = <<1, 1>> /\ ~ referencing
    BY DEF ContextInv
  <2>2. \A d \in 1 .. Len(stack) : ast[stack[d].node].type = "CRATE"
    BY BottomFrame, FrameFacts DEF TypeInv
  <2>3. NamedFrames = {}
    BY <2>2 DEF NamedFrames, IsSheet
  <2>4. namespace = << >>
    BY <2>1, <2>3, FS_EmptySet, NamedFacts DEF NameInv
  <2>5. ~ legato
    BY <2>2, FrameFacts DEF ContextInv, InLegato, Top, TypeInv
  <2> QED BY <2>1, <2>4, <2>5
<1> QED BY <1>1, <1>2, <1>3, PTL DEF Spec

-------------------------------------------------------------------------------
(***************************************************************************)
(* Arithmetic modulo the size of a word.                                   *)
(***************************************************************************)
LEMMA Division ==
  ASSUME NEW a \in Int, NEW w \in Nat \ {0}
  PROVE  /\ a = ((a \div w) * w) + (a % w)
         /\ a % w \in 0 .. w - 1 /\ a \div w \in Int
BY Z3

LEMMA RemainderOf ==
  ASSUME NEW r \in Int, NEW q \in Int, NEW w \in Nat \ {0}, 0 <= r, r < w
  PROVE  ((q * w) + r) % w = r
BY Z3

LEMMA RemainderOfSum ==
  ASSUME NEW a \in Int, NEW b \in Int, NEW w \in Nat \ {0}
  PROVE  ((a % w) + b) % w = (a + b) % w
<1> DEFINE q == a \div w
           r == a % w
<1>1. a = (q * w) + r /\ r \in Int /\ q \in Int
  BY Division
<1> HIDE DEF q, r
<1> DEFINE c == r + b
           p == c \div w
           s == c % w
<1>2. c \in Int
  BY <1>1
<1> HIDE DEF c
<1>3. c = (p * w) + s /\ s \in 0 .. w - 1 /\ p \in Int
  BY <1>2, Division
<1> HIDE DEF p, s
<1> DEFINE k == q + p
<1>4. a + b = (k * w) + s /\ k \in Int /\ s \in Int /\ 0 <= s /\ s < w
  <2>1. a + b = ((q * w) + (p * w)) + s
    BY <1>1, <1>3 DEF c
  <2>2. (q + p) * w = (q * w) + (p * w)
    BY <1>1, <1>3, Z3
  <2>3. s \in Int /\ 0 <= s /\ s < w
    BY <1>3
  <2> QED BY <1>1, <1>3, <2>1, <2>2, <2>3
<1> HIDE DEF k
<1>5. ((k * w) + s) % w = s
  BY <1>4, RemainderOf
<1>6. (a + b) % w = s
  BY <1>4, <1>5
<1> QED BY <1>6 DEF s, c, r

LEMMA WordSum ==
  ASSUME NEW a \in Int, NEW b \in Int
  PROVE  ((a % WordSize) + b) % WordSize = (a + b) % WordSize
<1>1. WordSize \in Nat \ {0}
  BY NumbersAssumption
<1> QED BY <1>1, RemainderOfSum

(* Where a tone ends, as ToneMeetsOffset has it.                           *)
Meets(end, now) == end % WordSize \in {(now + WordSize - 4) % WordSize, (now + 1) % WordSize}

LEMMA FreshToneMeets ==
  ASSUME TypeOK
  PROVE  Meets(offset + Sounding, offset + Slot)
<1>1. Slot \in Nat /\ offset \in Nat /\ WordSize \in Nat \ {0}
  BY SlotFacts, NumbersAssumption DEF TypeOK
<1>2. CASE legato
  <2>1. offset + Sounding = offset + Slot + 1
    BY <1>1, <1>2 DEF Sounding
  <2> QED BY <2>1 DEF Meets
<1>3. CASE ~ legato
  <2> DEFINE a == Slot + WordSize - 4
  <2>1. a \in Int /\ a % WordSize \in Int /\ offset \in Int
    BY <1>1, Division
  <2>2. Sounding = a % WordSize /\ offset + (a % WordSize) = (a % WordSize) + offset
    BY <1>1, <1>3, <2>1 DEF Sounding
  <2>3. a + offset = offset + Slot + WordSize - 4
    BY <1>1
  <2> HIDE DEF a
  <2>4. ((a % WordSize) + offset) % WordSize = (a + offset) % WordSize
    BY <1>1, <2>1, WordSum
  <2>5. (offset + Sounding) % WordSize = (offset + Slot + WordSize - 4) % WordSize
    BY <2>2, <2>3, <2>4
  <2> QED BY <2>5 DEF Meets
<1> QED BY <1>2, <1>3

LEMMA TiedToneMeets ==
  ASSUME NEW tick \in Nat, NEW duration \in Nat, NEW now \in Nat, NEW slot \in Nat,
         Meets(tick + duration, now)
  PROVE  Meets(tick + ((duration + slot) % WordSize), now + slot)
<1>0. WordSize \in Nat \ {0}
  BY NumbersAssumption
<1> DEFINE a == duration + slot
           e == tick + duration
           l == now + WordSize - 4
           u == now + 1
<1>1. a \in Int /\ a % WordSize \in Int /\ e \in Int /\ l \in Int /\ u \in Int
  BY <1>0, Division
<1>2. tick + (a % WordSize) = (a % WordSize) + tick /\ a + tick = e + slot
  BY <1>1
<1>3. l + slot = now + slot + WordSize - 4 /\ u + slot = now + slot + 1
  BY <1>0
<1>4. e % WordSize \in {l % WordSize, u % WordSize}
  BY DEF Meets
<1> HIDE DEF a, e, l, u
<1>5. /\ ((a % WordSize) + tick) % WordSize = (a + tick) % WordSize
      /\ ((e % WordSize) + slot) % WordSize = (e + slot) % WordSize
      /\ ((l % WordSize) + slot) % WordSize = (l + slot) % WordSize
      /\ ((u % WordSize) + slot) % WordSize = (u + slot) % WordSize
  <2>1. tick \in Int /\ slot \in Int
    OBVIOUS
  <2> QED BY <1>1, <2>1, WordSum, Zenon
<1>6. (tick + (a % WordSize)) % WordSize \in {(l + slot) % WordSize, (u + slot) % WordSize}
  BY <1>2, <1>4, <1>5
<1> QED BY <1>3, <1>6 DEF Meets, a

(***************************************************************************)
(* Where the music has got to.  Below a sheet that is off, an older tone   *)
(* that goes on (no rest has ended it, no tie has prolonged it) means that *)
(* no time has passed.                                                     *)
(***************************************************************************)
Sounds == prev_tone # NULL /\ ~ did_rest

MeetInv ==
  /\ last_note = NULL => prev_tone = NULL
  /\ \A d \in 1 .. Len(stack) : \A c \in 1 .. d : stack[c].born <= stack[d].born
  /\ stale = {} /\ stray = {} /\ Sounds =>
       /\ prev_tone \in live => Meets(heap[prev_tone].tick + heap[prev_tone].duration, offset)
       /\ \A d \in 1 .. Len(stack) :
            stack[d].dry /\ prev_tone <= stack[d].born => offset = stack[d].old_offset

LEMMA InitMeetInv == Init => MeetInv
BY DEF Init, MeetInv, Sounds

(* No tone sounds, or it does as it did and no time has passed.            *)
Quiet ==
  \/ ~ Sounds'
  \/ /\ UNCHANGED <<prev_tone, did_rest, offset>>
     /\ prev_tone \in live' => prev_tone \in live
     /\ \A e \in Pointers : heap'[e].tick = heap[e].tick /\ heap'[e].duration = heap[e].duration

LEMMA QuietMeets ==
  ASSUME TypeInv, MeetInv, Quiet, stale \subseteq stale', stray \subseteq stray',
         stale' = {}, stray' = {}, Sounds'
  PROVE  /\ Sounds /\ stale = {} /\ stray = {}
         /\ prev_tone' \in live' =>
              Meets(heap'[prev_tone'].tick + heap'[prev_tone'].duration, offset')
         /\ \A d \in 1 .. Len(stack) :
              stack[d].dry /\ prev_tone' <= stack[d].born => offset' = stack[d].old_offset
<1>1. /\ UNCHANGED <<prev_tone, did_rest, offset>>
      /\ prev_tone \in live' => prev_tone \in live
      /\ \A e \in Pointers : heap'[e].tick = heap[e].tick /\ heap'[e].duration = heap[e].duration
  BY DEF Quiet
<1>2. Sounds /\ stale = {} /\ stray = {} /\ prev_tone \in Pointers
  BY <1>1 DEF Sounds, TypeInv, TypeOK
<1> QED BY <1>1, <1>2 DEF MeetInv

LEMMA AllocatedTone ==
  ASSUME TypeOK, NEW event \in Entry, heap' = Append(heap, event)
  PROVE  /\ heap'[Len(heap) + 1] = event /\ Len(heap) \in Nat
         /\ \A e \in Pointers : heap'[e] = heap[e] /\ e # Len(heap) + 1
<1>1. heap \in Seq(Entry)
  BY DEF TypeOK
<1> HIDE DEF Entry
<1> QED BY <1>1 DEF Pointers

(* What MeetInv says of the tone after a step.                             *)
ToneMet ==
  /\ prev_tone' \in live' =>
       Meets(heap'[prev_tone'].tick + heap'[prev_tone'].duration, offset')
  /\ \A d \in 1 .. Len(stack) :
       stack[d].dry /\ prev_tone' <= stack[d].born => offset' = stack[d].old_offset

LEMMA NewToneMet ==
  ASSUME TypeInv, BornInv, Note \/ Interval
  PROVE  ToneMet
<1>1. TypeOK
  BY DEF TypeInv
<1>2. /\ offset' = offset + Slot /\ prev_tone' = Len(heap) + 1
      /\ \E key \in Nat :
           heap' = Append(heap, [Event EXCEPT !.key = key, !.duration = Sounding])
  <2>1. CASE Note
    <3>1. arg \in 1 .. Len(ast) /\ octave' \in Nat
      BY <1>1, <2>1, NoteEffect DEF LeafEffect, TypeOK
    <3>2. 12 * octave' + ast[arg].value \in Int
      BY <1>1, <3>1, TreeFacts
    <3>3. Key(12 * octave' + ast[arg].value) \in Nat
      BY <3>2, KeyFacts
    <3> QED BY <2>1, <3>3 DEF Note, ReturnNew
  <2>2. CASE Interval
    <3>1. Moved(heap[last_note].key, ast[arg].value) \in Nat
      <4>1. last_note \in Pointers /\ heap \in Seq(Entry) /\ arg \in 1 .. Len(ast)
        BY <1>1, <2>2 DEF TypeOK, Interval
      <4>2. heap[last_note] \in Entry
        BY <4>1 DEF Pointers
      <4>3. heap[last_note].key \in Nat
        BY <4>2 DEF Entry
      <4> QED BY <1>1, <4>1, <4>3, TreeFacts, KeyFacts
    <3> QED BY <2>2, <3>1 DEF Interval, ReturnNew
  <2> QED BY <2>1, <2>2
<1>3. PICK key \in Nat : heap' = Append(heap, [Event EXCEPT !.key = key, !.duration = Sounding])
  BY <1>2
<1> DEFINE event == [Event EXCEPT !.key = key, !.duration = Sounding]
<1>4. event \in Entry /\ event.tick = offset /\ event.duration = Sounding
  <2>1. Sounding \in Nat
    BY <1>1, SlotFacts
  <2>2. event \in Entry /\ event.tick = offset
    BY <1>1, <1>3, <2>1, EventFacts DEF Fresh
  <2> QED BY <2>1, <2>2 DEF Event
<1>5. heap' = Append(heap, event)
  BY <1>3
<1> HIDE DEF event
<1>6. heap'[Len(heap) + 1] = event /\ Len(heap) \in Nat
  BY <1>1, <1>4, <1>5, AllocatedTone
<1>7. Meets(heap'[prev_tone'].tick + heap'[prev_tone'].duration, offset')
  BY <1>1, <1>2, <1>4, <1>6, FreshToneMeets
<1>8. ASSUME NEW d \in 1 .. Len(stack)
      PROVE  ~ prev_tone' <= stack[d].born
  <2>1. stack[d].born \in Nat /\ stack[d].born <= Len(heap)
    BY <1>1, FieldFacts DEF BornInv
  <2> QED BY <1>2, <1>6, <2>1
<1> QED BY <1>7, <1>8 DEF ToneMet

LEMMA TiedToneMet ==
  ASSUME TypeInv, MeetInv, Tie, stale' = {}, stray' = {}, Sounds'
  PROVE  ToneMet
<1>1. TypeOK
  BY DEF TypeInv
<1>2. Sounds /\ UNCHANGED <<prev_tone, did_rest, live, stack>> /\ offset' = offset + Slot
  BY DEF Tie, Sounds, Return
<1>3. /\ Touch(prev_tone)
      /\ heap' = [heap EXCEPT ![prev_tone].duration = (@ + Slot) % WordSize]
      /\ stray' = IF \E d \in 1 .. Len(stack) : stack[d].dry /\ prev_tone <= stack[d].born
                  THEN stray \cup {prev_tone} ELSE stray
  BY <1>2 DEF Tie, Sounds
<1>4. stale = {} /\ prev_tone \in live /\ prev_tone \in Pointers
  BY <1>1, <1>3 DEF Touch, TypeOK
<1>5. stray = {} /\ \A d \in 1 .. Len(stack) : ~ (stack[d].dry /\ prev_tone <= stack[d].born)
  BY <1>3
<1> DEFINE tick == heap[prev_tone].tick
           duration == heap[prev_tone].duration
<1>6. heap[prev_tone] \in Entry /\ heap \in Seq(Entry) /\ prev_tone \in DOMAIN heap
  BY <1>1, <1>4 DEF TypeOK, Pointers
<1>7. /\ tick \in Nat /\ duration \in Nat /\ offset \in Nat /\ Slot \in Nat
      /\ heap'[prev_tone].tick = tick /\ heap'[prev_tone].duration = (duration + Slot) % WordSize
  <2>1. tick \in Nat /\ duration \in Nat
    BY <1>6 DEF Entry
  <2>2. heap'[prev_tone] = [heap[prev_tone] EXCEPT !.duration = (@ + Slot) % WordSize]
    BY <1>3, <1>6
  <2>3. /\ heap'[prev_tone].tick = tick
        /\ heap'[prev_tone].duration = (duration + Slot) % WordSize
    BY <1>6, <2>2 DEF Entry
  <2> QED BY <1>1, <2>1, <2>3, SlotFacts DEF TypeOK
<1>8. Meets(tick + duration, offset)
  BY <1>2, <1>4, <1>5 DEF MeetInv
<1> HIDE DEF tick, duration
<1>9. Meets(tick + ((duration + Slot) % WordSize), offset + Slot)
  BY <1>7, <1>8, TiedToneMeets
<1> QED BY <1>2, <1>5, <1>7, <1>9 DEF ToneMet

LEMMA LeafMet ==
  ASSUME TypeInv, BornInv, MeetInv, Leaf, stale' = {}, stray' = {}, Sounds'
  PROVE  ToneMet
<1>1. CASE Note \/ Interval
  BY <1>1, NewToneMet
<1>2. CASE Tie
  BY <1>2, TiedToneMet
<1>3. CASE Rest
  BY <1>3 DEF Rest, Sounds
<1>4. CASE IntervalWithoutNote
  BY <1>4 DEF IntervalWithoutNote, Sounds, MeetInv
<1>5. CASE Bpm \/ Control \/ Eof \/ Divider \/ ReferenceUnknown
  <2>1. UNCHANGED <<prev_tone, did_rest, offset, stale, stray>>
    BY <1>5 DEF Bpm, Control, Eof, Divider, ReferenceUnknown, context, history
  <2>2. LeafEffect
    BY LeafFacts
  <2>3. prev_tone \in live' => prev_tone \in live
    <3>1. live' = live \cup {Len(heap) + 1} \/ live' = live
      BY <2>2 DEF LeafEffect, Allocates, AllocatesNothing
    <3>2. prev_tone # Len(heap) + 1 /\ Len(heap) \in Nat
      BY DEF TypeInv, TypeOK, Pointers, NULL
    <3> QED BY <3>1, <3>2
  <2>4. \A e \in Pointers : heap'[e].tick = heap[e].tick /\ heap'[e].duration = heap[e].duration
    <3>1. CASE Divider \/ ReferenceUnknown
      BY <3>1 DEF Divider, ReferenceUnknown, memory
    <3>2. CASE Bpm \/ Control \/ Eof
      <4>1. part' = <<Len(heap) + 1>>
        BY <3>2 DEF Bpm, Control, Eof, ReturnNew, Return
      <4>2. Allocates
        BY <2>2, <4>1 DEF LeafEffect, AllocatesNothing
      <4> QED BY <4>2, AllocatedTone DEF Allocates, Fresh, TypeInv
    <3> QED BY <1>5, <3>1, <3>2
  <2> QED BY <2>1, <2>3, <2>4, QuietMeets DEF Quiet, ToneMet
<1> QED BY <1>1, <1>2, <1>3, <1>4, <1>5 DEF Leaf

LEMMA QuietSteps ==
  ASSUME TypeInv,
         AppendPart \/ FreePart \/ NextKid \/ Cut \/ OpenEffect
           \/ (LeaveEffect /\ offset' = offset)
  PROVE  Quiet
<1>1. TypeOK
  BY DEF TypeInv
<1>2. CASE AppendPart
  <2>1. UNCHANGED <<prev_tone, did_rest, offset, live>>
    BY <1>2 DEF AppendPart, context
  <2>2. ASSUME NEW e \in Pointers
        PROVE  heap'[e].tick = heap[e].tick /\ heap'[e].duration = heap[e].duration
    <3>1. heap[e] \in Entry /\ e \in DOMAIN heap
      BY <1>1 DEF TypeOK, Pointers
    <3>2. PICK s, l, o : heap'[e] = [heap[e] EXCEPT !.start_loop = s, !.end_loop = l,
                                                    !.loop_offset = o]
      BY <1>2, <3>1, Zenon DEF AppendPart
    <3> QED BY <3>1, <3>2 DEF Entry
  <2> QED BY <2>1, <2>2 DEF Quiet
<1>3. CASE FreePart
  BY <1>3 DEF FreePart, context, Quiet
<1>4. CASE NextKid
  BY <1>4 DEF NextKid, memory, Quiet
<1>5. CASE Cut
  BY <1>5 DEF Cut, FreeAfterLoop, context, Quiet
<1>6. CASE OpenEffect
  BY <1>6 DEF OpenEffect, Quiet
<1>7. CASE LeaveEffect /\ offset' = offset
  BY <1>7 DEF LeaveEffect, Quiet
<1> QED BY <1>2, <1>3, <1>4, <1>5, <1>6, <1>7

(* Leaving a sheet that is off sets the time back.                         *)
LEMMA LeaveMet ==
  ASSUME TypeInv, OwnInv, BornInv, MeetInv, LeaveEffect,
         stale' = {}, stray' = {}, Sounds'
  PROVE  ToneMet
<1> DEFINE n == Len(stack)
<1>1. /\ n \in Nat /\ n >= 1 /\ n \in 1 .. n
      /\ UNCHANGED <<heap, live, prev_tone, did_rest>>
      /\ Sounds /\ stale = {} /\ stray = {}
      /\ offset' \in {offset, stack[n].old_offset} /\ (offset' # offset => stack[n].dry)
      /\ mode = "loop"
  BY LeaveShape DEF LeaveEffect, Sounds, Top
<1>2. CASE offset' = offset
  BY <1>2, QuietSteps, QuietMeets DEF LeaveEffect, ToneMet
<1>3. CASE stack[n].dry /\ offset' = stack[n].old_offset
  <2>1. ASSUME prev_tone <= stack[n].born
        PROVE  offset' = offset
    BY <1>1, <1>3, <2>1 DEF MeetInv
  <2>2. ASSUME prev_tone \in live
        PROVE  prev_tone <= stack[n].born
    <3>1. PICK d \in 1 .. n + 1 : \E x \in 1 .. Len(Lists[d]) : prev_tone = Lists[d][x]
      <4>1. prev_tone \in Contents(Lists, n + 1)
        BY <2>2 DEF OwnInv
      <4>2. n + 1 \in Nat
        BY <1>1
      <4> QED BY <4>1, <4>2, ContentsMember
    <3>2. PICK x \in 1 .. Len(Lists[d]) : prev_tone = Lists[d][x]
      BY <3>1
    <3>3. Lists[d] = IF d <= n THEN stack[d].list ELSE part
      BY <1>1 DEF Lists
    <3>4. part = << >> /\ stack[n].list = << >>
      BY <1>1, <1>3 DEF TypeInv, FramesInv
    <3>5. Len(Lists[d]) # 0
      BY <3>2
    <3>6. d # n /\ d <= n
      BY <1>1, <3>3, <3>4, <3>5
    <3>7. d \in 1 .. n - 1 /\ x \in 1 .. Len(stack[d].list) /\ prev_tone = stack[d].list[x]
      BY <1>1, <3>2, <3>3, <3>6
    <3> QED BY <1>1, <3>7 DEF BornInv
  <2>3. ASSUME NEW d \in 1 .. n, prev_tone <= stack[d].born
        PROVE  prev_tone <= stack[n].born
    <3>1. stack[d].born \in Nat /\ stack[n].born \in Nat /\ prev_tone \in Nat
      BY <1>1, FieldFacts DEF TypeInv, TypeOK, Pointers, NULL
    <3>2. stack[d].born <= stack[n].born
      BY <1>1 DEF MeetInv
    <3> QED BY <2>3, <3>1, <3>2
  <2>4. ASSUME prev_tone \in live
        PROVE  Meets(heap'[prev_tone'].tick + heap'[prev_tone'].duration, offset')
    BY <1>1, <2>1, <2>2, <2>4 DEF MeetInv
  <2>5. ASSUME NEW d \in 1 .. n, stack[d].dry, prev_tone <= stack[d].born
        PROVE  offset' = stack[d].old_offset
    BY <1>1, <2>1, <2>3, <2>5 DEF MeetInv
  <2> QED BY <1>1, <2>4, <2>5 DEF ToneMet
<1> QED BY <1>1, <1>2, <1>3

LEMMA StepMet ==
  ASSUME TypeInv, OwnInv, BornInv, MeetInv, Step, stale' = {}, stray' = {}, Sounds'
  PROVE  ToneMet
<1>1. CASE Leaf
  BY <1>1, LeafMet
<1>2. CASE LeaveEffect
  BY <1>2, LeaveMet
<1>3. CASE AppendPart \/ FreePart \/ NextKid \/ Cut \/ OpenEffect
  <2>1. stale \subseteq stale' /\ stray \subseteq stray'
    <3>1. CASE AppendPart \/ FreePart
      BY <3>1, AppendPartFacts, FreePartFacts DEF TakeEffect
    <3>2. CASE NextKid \/ Cut \/ OpenEffect
      BY <3>2 DEF NextKid, Cut, OpenEffect, history
    <3> QED BY <1>3, <3>1, <3>2
  <2>2. Quiet
    BY <1>3, QuietSteps
  <2> QED BY <2>1, <2>2, QuietMeets DEF ToneMet
<1>4. Step => \/ Leaf \/ LeaveEffect \/ AppendPart \/ FreePart \/ NextKid \/ Cut \/ OpenEffect
  BY OpenFacts, LeaveFacts DEF Step
<1> QED BY <1>1, <1>2, <1>3, <1>4

(* The frames after a step: those there were, one less, or one more, which *)
(* is the youngest.                                                        *)
LEMMA StepFrames ==
  ASSUME TypeInv, BornInv, MeetInv, Step, NEW d \in 1 .. Len(stack')
  PROVE  /\ \A c \in 1 .. d : stack'[c].born <= stack'[d].born
         /\ \/ d \in 1 .. Len(stack) /\ stack'[d].dry = stack[d].dry
                 /\ stack'[d].born = stack[d].born /\ stack'[d].old_offset = stack[d].old_offset
            \/ stack'[d].old_offset = offset'
<1> DEFINE n == Len(stack)
           Same(c) == /\ c \in 1 .. n /\ stack'[c].dry = stack[c].dry
                      /\ stack'[c].born = stack[c].born
                      /\ stack'[c].old_offset = stack[c].old_offset
<1>1. CASE \A c \in 1 .. Len(stack') : Same(c)
  <2>1. Same(d) /\ \A c \in 1 .. d : c \in 1 .. Len(stack') /\ Same(c)
    <3>1. d \in Nat /\ d \in 1 .. n
      BY <1>1
    <3>2. n \in Nat /\ d <= Len(stack')
      BY FrameFacts DEF TypeInv
    <3> QED BY <1>1
  <2>2. \A c \in 1 .. d : stack[c].born <= stack[d].born
    BY <2>1 DEF MeetInv
  <2> QED BY <2>1, <2>2
<1>2. CASE OpenEffect
  <2>1. /\ n \in Nat /\ Len(stack') = n + 1 /\ \A c \in 1 .. n : stack'[c] = stack[c]
        /\ stack'[n + 1].old_offset = offset /\ stack'[n + 1].born = Len(heap)
        /\ offset' = offset
    BY <1>2, OpenShape DEF Opens, OpenEffect
  <2>2. CASE d = n + 1
    <3>1. \A c \in 1 .. n : stack[c].born <= Len(heap)
      BY DEF BornInv
    <3>2. Len(heap) \in Nat
      BY KeepsEvents
    <3> QED BY <2>1, <2>2, <3>1, <3>2
  <2>3. CASE d \in 1 .. n
    BY <2>1, <2>3 DEF MeetInv
  <2> QED BY <2>1, <2>2, <2>3
<1>3. CASE LeafEffect \/ NextKid \/ Cut
  <2>1. stack' = stack
    BY <1>3 DEF LeafEffect, NextKid, Cut
  <2> QED BY <1>1, <2>1
<1>4. CASE TakeEffect
  <2>1. \A c \in 1 .. Len(stack') : Same(c)
    BY <1>4, TakeShape
  <2> QED BY <1>1, <2>1
<1>5. CASE LeaveEffect
  <2>1. \A c \in 1 .. Len(stack') : Same(c)
    BY <1>5, LeaveShape
  <2> QED BY <1>1, <2>1
<1> QED BY <1>2, <1>3, <1>4, <1>5, StepCases

LEMMA StepMeetInv == TypeInv /\ OwnInv /\ BornInv /\ MeetInv /\ [Step]_vars => MeetInv'
<1> SUFFICES ASSUME TypeInv, OwnInv, BornInv, MeetInv, [Step]_vars
             PROVE  MeetInv'
  OBVIOUS
<1>1. CASE UNCHANGED vars
  BY <1>1 DEF vars, memory, context, history, MeetInv, Sounds
<1>2. CASE Step
  <2>1. last_note' = NULL => prev_tone' = NULL
    <3>1. CASE Note \/ Interval
      <4>1. last_note' # NULL
        BY <3>1 DEF Note, Interval, TypeInv, TypeOK, NULL
      <4> QED BY <4>1
    <3>2. CASE ~ (Note \/ Interval)
      <4>1. UNCHANGED <<last_note, prev_tone>>
        BY <1>2, <3>2 DEF Step, Leaf, Bpm, IntervalWithoutNote, Rest, Tie, Control, Divider, Eof,
           ReferenceUnknown, Crate, Legato, Sheet, Reference, OpenFrames, NextKid, AppendPart,
           FreePart, LeaveCrateOrLegato, LeaveSheet, Leave, Cut, context
      <4> QED BY <4>1 DEF MeetInv
    <3> QED BY <3>1, <3>2
  <2>2. \A d \in 1 .. Len(stack') : \A c \in 1 .. d : stack'[c].born <= stack'[d].born
    BY <1>2, StepFrames
  <2>3. ASSUME stale' = {}, stray' = {}, Sounds'
        PROVE  /\ prev_tone' \in live' =>
                    Meets(heap'[prev_tone'].tick + heap'[prev_tone'].duration, offset')
               /\ \A d \in 1 .. Len(stack') :
                    stack'[d].dry /\ prev_tone' <= stack'[d].born
                      => offset' = stack'[d].old_offset
    <3>1. ToneMet
      BY <1>2, <2>3, StepMet
    <3> QED BY <1>2, <3>1, StepFrames DEF ToneMet
  <2> QED BY <2>1, <2>2, <2>3 DEF MeetInv, Meets
<1> QED BY <1>1, <1>2

(***************************************************************************)
(* THEOREM: in every song, through ties, repetitions, references, loops    *)
(* and sheets that are off, the last tone ends where the music has got to, *)
(* unless a rest has ended it.                                             *)
(***************************************************************************)
THEOREM ToneEndsWithTheMusic == Spec => []ToneMeetsOffset
<1>1. TypeInv /\ MeetInv => ToneMeetsOffset
  <2> SUFFICES ASSUME TypeInv, MeetInv, stale = {}, stray = {}, prev_tone \in live, ~ did_rest
               PROVE  Meets(heap[prev_tone].tick + heap[prev_tone].duration, offset)
    BY DEF ToneMeetsOffset, Meets
  <2>1. prev_tone # NULL
    BY DEF TypeInv, TypeOK, Pointers, NULL
  <2> QED BY <2>1 DEF MeetInv, Sounds
<1> QED BY <1>1, InitTypeInv, StepTypeInv, InitOwnInv, StepOwnInv, InitBornInv, StepBornInv,
           InitMeetInv, StepMeetInv, PTL DEF Spec
===============================================================================
