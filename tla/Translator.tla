------------------------------ MODULE Translator ------------------------------
(***************************************************************************)
(* translator.c: from the syntax tree to the list of events.               *)
(*                                                                         *)
(* _translate() walks the tree recursively with a context it changes as it *)
(* goes.  Here the recursion is a stack of frames, one for each node that  *)
(* has children.  The walk is a cycle of three modes: "loop" (the frame on *)
(* top picks its next child), "call" (_translate is called with that       *)
(* child) and "return" (it has returned the list part to the frame).       *)
(*                                                                         *)
(* The events live on a heap, because ctx->last_note and ctx->prev_tone    *)
(* point to events that the lists own and may free.                        *)
(***************************************************************************)
EXTENDS EventList, Integers, FiniteSets

CONSTANTS
  Songs,               \* the syntax trees the parser may hand over
  PULSE_PER_QUARTER,   \* 96
  WordSize             \* one more than the largest unsigned int

ASSUME NumbersAssumption ==
  /\ PULSE_PER_QUARTER \in Nat \ {0}
  /\ WordSize \in Nat /\ WordSize > 4

(***************************************************************************)
(* A tree is a sequence of nodes; the crate that the parser makes of the   *)
(* whole input is the first.  Channel, octave and velocity of a note are   *)
(* treated alike, so octave stands for the three of them; -1 is "as the    *)
(* note before".  The value is the letter and the accidentals of a note,   *)
(* the keys of an interval or the bpm.  A label is a sequence of names,    *)
(* what the code joins with dots; a sheet has at most one.                 *)
(***************************************************************************)
NodeType == {"BPM", "NOTE", "INTERVAL", "REST", "TIE", "CONTROL", "DIVIDER", "LEGATO",
             "SHEET", "REFERENCE", "CRATE", "EOF"}

Node(size) ==
  [type : NodeType, kids : Seq(2 .. size), octave : Nat \cup {-1}, value : Int,
   units : Nat \ {0}, duration : Nat \ {0}, repeat_count : Int, label : Seq(STRING)]

(* The grammar: what may stand in what.  (A comment leaves no node, and     *)
(* CONTROL stands for controllers and program changes.)                    *)
Elements(type) ==
  CASE type = "CRATE"  -> {"SHEET", "REFERENCE", "BPM", "CONTROL", "EOF"}
    [] type = "SHEET"  -> {"NOTE", "INTERVAL", "REST", "TIE", "CONTROL", "DIVIDER",
                           "LEGATO", "SHEET"}
    [] type = "LEGATO" -> {"NOTE", "INTERVAL", "TIE", "DIVIDER"}
    [] OTHER           -> {}

(* The crate is the root of the tree, and the end of the input its last    *)
(* child; there is something in a legato.                                  *)
IsSong(song) ==
  /\ song \in Seq(Node(Len(song))) /\ song # << >>
  /\ song[1].kids # << >>
  /\ \A n \in 1 .. Len(song) :
       /\ song[n].type = "BPM" => song[n].value \in Nat
       /\ song[n].type = "CRATE" <=> n = 1
       /\ song[n].type = "SHEET" => Len(song[n].label) <= 1
       /\ song[n].type = "LEGATO" => song[n].kids # << >>
       /\ \A k \in 1 .. Len(song[n].kids) :
            LET type == song[song[n].kids[k]].type
            IN  /\ type \in Elements(song[n].type)
                /\ type = "EOF" <=> n = 1 /\ k = Len(song[1].kids)

ASSUME SongsAssumption == \A song \in Songs : IsSong(song)

VARIABLES
  ast,          \* the tree; translating a note fills in what it left open
  heap,         \* every event that was ever allocated
  live,         \* those that have not been freed
  \* struct context; a divider is a fraction, a pair of naturals
  offset, octave, sheets, namespace, divider, last_note, prev_tone,
  did_rest, referencing, legato,
  stack,        \* the activations of _translate that wait for a child
  mode,         \* "loop", "call", "return" or "done"
  arg,          \* the node _translate is called with
  part,         \* the list it has returned
  stale,        \* history: freed events that were used
  stray         \* history: events changed by a sheet that has no say in them

context == <<offset, octave, sheets, namespace, divider, last_note, prev_tone,
             did_rest, referencing, legato>>
memory  == <<heap, live>>
history == <<stale, stray>>
vars    == <<ast, memory, context, stack, mode, arg, part, history>>

Top == stack[Len(stack)]

Push(frame) == stack' = Append(stack, frame)
Pop == stack' = SubSeq(stack, 1, Len(stack) - 1)
SetTop(frame) == stack' = [stack EXCEPT ![Len(stack)] = frame]

Init ==
  /\ ast \in Songs
  /\ heap = << >> /\ live = {}
  /\ offset = 0 /\ octave = 5
  /\ sheets = << >> /\ namespace = << >>
  /\ divider = <<1, 1>>
  /\ last_note = NULL /\ prev_tone = NULL
  /\ did_rest = FALSE /\ referencing = FALSE /\ legato = FALSE
  /\ stack = << >>
  /\ mode = "call" /\ arg = 1 /\ part = << >>
  /\ stale = {} /\ stray = {}

-------------------------------------------------------------------------------
(***************************************************************************)
(* The leaves of the switch in _translate().                               *)
(***************************************************************************)
Called(type) == mode = "call" /\ ast[arg].type = type

Return(list) ==
  /\ mode' = "return"
  /\ part' = list
  /\ UNCHANGED <<stack, arg>>

Event == [type |-> "NOTE", tick |-> offset, duration |-> 0, key |-> 0, bpm |-> 0,
          start_loop |-> FALSE, end_loop |-> FALSE, loop_offset |-> 0]

(* new_event_list, and what it allocates is returned.                      *)
ReturnNew(event) ==
  /\ heap' = Append(heap, event)
  /\ live' = live \cup {Len(heap) + 1}
  /\ Return(<<Len(heap) + 1>>)

(* compute_duration.                                                       *)
Slot == (PULSE_PER_QUARTER * 4 * divider[2]) \div divider[1]

(* Mutant: the tones of a sheet run into each other.                       *)
SoundingFull == IF legato THEN Slot + 1 ELSE Slot

(* How long a tone sounds: into the next one under a legato, otherwise     *)
(* four ticks less than its slot, in unsigned arithmetic.                  *)
Sounding == IF legato THEN Slot + 1 ELSE (Slot + WordSize - 4) % WordSize

(* Reading or writing the event that the pointer e points to.              *)
Touch(e) == stale' = IF e \in live THEN stale ELSE stale \cup {e}

Bpm ==
  /\ Called("BPM")
  /\ ReturnNew([Event EXCEPT !.type = "TEMPO", !.bpm = ast[arg].value])
  /\ UNCHANGED <<ast, context, history>>

(* midi_value is an unsigned char.                                         *)
Key(k) == k % 256

(* Mutant: -1 is taken for an octave.                                      *)
OctaveAsWritten(n) == ast[n].octave

OctaveOf(n) == IF ast[n].octave = -1 THEN octave ELSE ast[n].octave

Note ==
  /\ Called("NOTE")
  /\ octave' = OctaveOf(arg)
  /\ ast' = [ast EXCEPT ![arg].octave = octave']
  /\ ReturnNew([Event EXCEPT !.key = Key(12 * octave' + ast[arg].value),
                             !.duration = Sounding])
  /\ last_note' = Len(heap) + 1
  /\ prev_tone' = Len(heap) + 1
  /\ did_rest' = FALSE
  /\ offset' = offset + Slot
  /\ UNCHANGED <<sheets, namespace, divider, referencing, legato, history>>

(* An interval is the last note moved up or down some keys.                *)
Moved(key, by) == IF key + by >= 0 THEN Key(key + by) ELSE key

Interval ==
  /\ Called("INTERVAL") /\ last_note # NULL
  /\ Touch(last_note)
  /\ ReturnNew([Event EXCEPT !.key = Moved(heap[last_note].key, ast[arg].value),
                             !.duration = Sounding])
  /\ prev_tone' = Len(heap) + 1
  /\ did_rest' = FALSE
  /\ offset' = offset + Slot
  /\ UNCHANGED <<ast, octave, sheets, namespace, divider, last_note, referencing, legato, stray>>

IntervalWithoutNote ==
  /\ Called("INTERVAL") /\ last_note = NULL
  /\ Return(<< >>)
  /\ offset' = offset + Slot
  /\ UNCHANGED <<ast, memory, octave, sheets, namespace, divider, last_note, prev_tone,
                 did_rest, referencing, legato, history>>

(* Mutant: a rest does not end the tone.                                   *)
RestUnmarked ==
  /\ Called("REST")
  /\ Return(<< >>)
  /\ offset' = offset + Slot
  /\ UNCHANGED <<ast, memory, octave, sheets, namespace, divider, last_note, prev_tone,
                 did_rest, referencing, legato, history>>

Rest ==
  /\ Called("REST")
  /\ Return(<< >>)
  /\ did_rest' = TRUE
  /\ offset' = offset + Slot
  /\ UNCHANGED <<ast, memory, octave, sheets, namespace, divider, last_note, prev_tone,
                 referencing, legato, history>>

(* A tie prolongs the tone before it.                                      *)
Tie ==
  /\ Called("TIE")
  /\ Return(<< >>)
  /\ IF prev_tone # NULL /\ ~ did_rest
     THEN /\ Touch(prev_tone)
          /\ heap' = [heap EXCEPT ![prev_tone].duration = (@ + Slot) % WordSize]
          /\ stray' = IF \E d \in 1 .. Len(stack) : stack[d].dry /\ prev_tone <= stack[d].born
                      THEN stray \cup {prev_tone} ELSE stray
     ELSE UNCHANGED <<heap, history>>
  /\ offset' = offset + Slot
  /\ UNCHANGED <<ast, live, octave, sheets, namespace, divider, last_note, prev_tone,
                 did_rest, referencing, legato>>

(* Controllers and program changes take no time.                           *)
Control ==
  /\ Called("CONTROL")
  /\ ReturnNew([Event EXCEPT !.type = "CONTROL"])
  /\ UNCHANGED <<ast, context, history>>

Divider ==
  /\ Called("DIVIDER")
  /\ Return(<< >>)
  /\ UNCHANGED <<ast, memory, context, history>>

Eof ==
  /\ Called("EOF")
  /\ ReturnNew([Event EXCEPT !.type = "USR0"])
  /\ UNCHANGED <<ast, context, history>>

-------------------------------------------------------------------------------
(***************************************************************************)
(* The nodes with children.  A crate and a legato go through them once, a  *)
(* sheet repeat_count times, and a reference does what its sheet does,     *)
(* with a count of its own and the divider the sheet was first met with.   *)
(***************************************************************************)
OpenFrame(n, count, base, refers) ==
  [node  |-> n,                                \* whose children
   count |-> IF count <= 0 THEN 1 ELSE count,
   loop  |-> count < 0,
   dry   |-> count = 0,                        \* dry_run
   first |-> FALSE,                            \* first_to_loop
   i |-> 1, j |-> 1,
   old_offset |-> offset, old_divider |-> divider, base |-> base,
   refers |-> refers,                          \* the frame of a reference
   born |-> Len(heap),                         \* history: the events older than it
   list |-> << >>]

OpenFrames ==
  /\ mode' = "loop"
  /\ UNCHANGED <<ast, memory, offset, octave, divider, last_note, prev_tone, did_rest,
                 arg, part, history>>

Crate ==
  /\ Called("CRATE")
  /\ Push(OpenFrame(arg, 1, divider, FALSE))
  /\ OpenFrames
  /\ UNCHANGED <<sheets, namespace, referencing, legato>>

Legato ==
  /\ Called("LEGATO")
  /\ legato' = TRUE
  /\ Push(OpenFrame(arg, 1, divider, FALSE))
  /\ OpenFrames
  /\ UNCHANGED <<sheets, namespace, referencing>>

(* Mutant: a reference enters nested sheets again.                         *)
NamedAlways(n) == ast[n].label # << >>

Named(n) == ast[n].label # << >> /\ ~ referencing

SheetReference(n, names) == [label |-> names, node |-> n, divider |-> divider]

(* A labelled sheet is entered in the sheets under its full name, unless   *)
(* it is met on behalf of a reference.  (get_label joins the names of the  *)
(* namespace with dots.  Identifiers have none, so that two namespaces     *)
(* have the same label only if they are the same sequence of names.)       *)
Sheet ==
  /\ Called("SHEET")
  /\ IF Named(arg)
     THEN /\ namespace' = namespace \o ast[arg].label
          /\ sheets' = Append(sheets, SheetReference(arg, namespace'))
     ELSE UNCHANGED <<namespace, sheets>>
  /\ Push(OpenFrame(arg, ast[arg].repeat_count, divider, FALSE))
  /\ OpenFrames
  /\ UNCHANGED <<referencing, legato>>

Matches(label) == {s \in 1 .. Len(sheets) : sheets[s].label = label}

(* list_find returns the first match, if there is one.                     *)
Found(label) == {s \in Matches(label) : \A t \in Matches(label) : s <= t}

Reference ==
  /\ Called("REFERENCE")
  /\ \E s \in Found(ast[arg].label) :
       Push(OpenFrame(sheets[s].node, ast[arg].repeat_count, sheets[s].divider, TRUE))
  /\ referencing' = TRUE
  /\ OpenFrames
  /\ UNCHANGED <<sheets, namespace, legato>>

ReferenceUnknown ==
  /\ Called("REFERENCE")
  /\ Found(ast[arg].label) = {}
  /\ Return(<< >>)
  /\ UNCHANGED <<ast, memory, context, history>>

Kids(frame) == ast[frame.node].kids

Finished(frame) == frame.i > frame.count \/ Kids(frame) = << >>

IsSheet(frame) == ast[frame.node].type = "SHEET"

LastKid(frame) == frame.j = Len(Kids(frame))

(* The head of the loops: the divider of a sheet is set anew for every     *)
(* child, and legato is off for the last element of a legato.              *)
NextKid ==
  /\ mode = "loop" /\ ~ Finished(Top)
  /\ mode' = "call"
  /\ arg' = Kids(Top)[Top.j]
  /\ divider' = IF IsSheet(Top)
                THEN <<Top.base[1] * ast[Top.node].duration, Top.base[2] * ast[Top.node].units>>
                ELSE divider
  /\ legato' = IF ast[Top.node].type = "LEGATO" /\ LastKid(Top) THEN FALSE ELSE legato
  /\ UNCHANGED <<ast, memory, offset, octave, sheets, namespace, last_note, prev_tone,
                 did_rest, referencing, stack, part, history>>

(* Mutant: the repetitions are not counted.                                *)
OnwardForever(frame) == [frame EXCEPT !.j = IF LastKid(frame) THEN 1 ELSE @ + 1]

(* The frame moves on to the next child, or to the first one of the next   *)
(* repetition.                                                             *)
Onward(frame) ==
  IF LastKid(frame) THEN [frame EXCEPT !.i = @ + 1, !.j = 1]
                    ELSE [frame EXCEPT !.j = @ + 1]

Took == mode' = "loop" /\ part' = << >>

(* Outside a dry run the part is appended to the list.  In a loop the      *)
(* first event is marked as its start and, after the last child, the tone  *)
(* played last as its end.                                                 *)
AppendPart ==
  /\ mode = "return" /\ stack # << >> /\ ~ Top.dry
  /\ LET starts == Top.loop /\ ~ Top.first /\ part # << >>
         ends   == Top.loop /\ LastKid(Top) /\ prev_tone # NULL
     IN  /\ heap' = [e \in DOMAIN heap |->
                       [heap[e] EXCEPT
                          !.start_loop  = @ \/ (starts /\ e = part[1]),
                          !.end_loop    = @ \/ (ends /\ e = prev_tone),
                          !.loop_offset = IF ends /\ e = prev_tone
                                          THEN offset - Top.old_offset ELSE @]]
         /\ IF ends
            THEN /\ Touch(prev_tone)
                 /\ stray' = IF prev_tone <= Top.born THEN stray \cup {prev_tone} ELSE stray
            ELSE UNCHANGED history
         /\ SetTop(Onward([Top EXCEPT !.list = @ \o part, !.first = @ \/ starts]))
  /\ Took
  /\ UNCHANGED <<ast, live, context, arg>>

(* Mutant: what a dry run has freed is appended all the same.              *)
FreePartKept ==
  /\ mode = "return" /\ stack # << >> /\ Top.dry
  /\ live' = live \ {part[x] : x \in 1 .. Len(part)}
  /\ SetTop(Onward([Top EXCEPT !.list = @ \o part]))
  /\ Took
  /\ UNCHANGED <<ast, heap, context, arg, history>>

(* In a dry run it is freed at once.                                       *)
FreePart ==
  /\ mode = "return" /\ stack # << >> /\ Top.dry
  /\ live' = live \ {part[x] : x \in 1 .. Len(part)}
  /\ SetTop(Onward(Top))
  /\ Took
  /\ UNCHANGED <<ast, heap, context, arg, history>>

Leave(frame) ==
  /\ mode = "loop" /\ stack # << >>
  /\ frame = Top /\ Finished(frame)
  /\ Pop
  /\ mode' = "return"
  /\ part' = frame.list
  /\ UNCHANGED <<ast, memory, octave, sheets, last_note, prev_tone, did_rest, legato, arg,
                 history>>

LeaveCrateOrLegato ==
  /\ Leave(Top) /\ ~ IsSheet(Top)
  /\ UNCHANGED <<offset, namespace, divider, referencing>>

(* Mutant: no sheet takes any time.                                        *)
OffsetAlwaysBack(frame) == frame.old_offset

(* A dry run takes no time.                                                *)
OffsetAfter(frame) == IF frame.dry THEN frame.old_offset ELSE offset

(* Mutant: referencing is not reset.                                       *)
StillReferencing(frame) == referencing

ReferencingAfter(frame) == IF frame.refers THEN FALSE ELSE referencing

LeaveSheet ==
  /\ Leave(Top) /\ IsSheet(Top)
  /\ offset' = OffsetAfter(Top)
  /\ namespace' = IF ~ Top.refers /\ Named(Top.node)
                  THEN SubSeq(namespace, 1, Len(namespace) - 1) ELSE namespace
  /\ divider' = Top.old_divider
  /\ referencing' = ReferencingAfter(Top)

-------------------------------------------------------------------------------
(***************************************************************************)
(* translate(): the list is cut after the first event that ends a loop.    *)
(***************************************************************************)

(* Mutant: it is not.                                                      *)
CutNothing ==
  /\ mode = "return" /\ stack = << >>
  /\ mode' = "done"
  /\ UNCHANGED <<ast, memory, context, stack, arg, part, history>>

(* free_after_loop, applied to one event of the list after the other.      *)
FreeAfterLoop ==
  LET ends == {x \in 1 .. Len(part) : heap[part[x]].end_loop}
  IN  IF ends = {} THEN UNCHANGED <<live, part>>
      ELSE \E x \in ends :
             /\ \A y \in ends : x <= y
             /\ part' = SubSeq(part, 1, x)
             /\ live' = live \ {part[y] : y \in x + 1 .. Len(part)}

Cut ==
  /\ mode = "return" /\ stack = << >>
  /\ FreeAfterLoop
  /\ mode' = "done"
  /\ UNCHANGED <<ast, heap, context, stack, arg, history>>

Leaf ==
  \/ Bpm \/ Note \/ Interval \/ IntervalWithoutNote \/ Rest \/ Tie \/ Control \/ Divider
  \/ Eof \/ ReferenceUnknown

Step ==
  \/ Leaf \/ Crate \/ Legato \/ Sheet \/ Reference
  \/ NextKid \/ AppendPart \/ FreePart \/ LeaveCrateOrLegato \/ LeaveSheet
  \/ Cut

Spec == Init /\ [][Step]_vars

(* A sequential program goes on while it can.                              *)
FairSpec == Spec /\ WF_vars(Step)

-------------------------------------------------------------------------------
(***************************************************************************)
(* Properties.                                                             *)
(***************************************************************************)
Pointers == 1 .. Len(heap)

(* The types of the context, of the frames and of the events.              *)
Divisions == (Nat \ {0}) \X (Nat \ {0})

Frame ==
  [node : 1 .. Len(ast), count : Nat \ {0}, loop : BOOLEAN, dry : BOOLEAN, first : BOOLEAN,
   i : Nat \ {0}, j : Nat \ {0}, old_offset : Nat, old_divider : Divisions, base : Divisions,
   refers : BOOLEAN, born : Nat, list : Seq(Pointers)]

SheetEntry == [label : Seq(STRING), node : 1 .. Len(ast), divider : Divisions]

TypeOK ==
  /\ IsSong(ast)
  /\ heap \in Seq(Entry) /\ live \subseteq Pointers
  /\ offset \in Nat /\ octave \in Nat /\ divider \in Divisions
  /\ last_note \in Pointers \cup {NULL} /\ prev_tone \in Pointers \cup {NULL}
  /\ did_rest \in BOOLEAN /\ referencing \in BOOLEAN /\ legato \in BOOLEAN
  /\ namespace \in Seq(STRING) /\ sheets \in Seq(SheetEntry)
  /\ stack \in Seq(Frame)
  /\ mode \in {"loop", "call", "return", "done"}
  /\ arg \in 1 .. Len(ast)
  /\ part \in Seq(Pointers)
  /\ stale \subseteq Pointers /\ stray \subseteq Pointers

(* The lists under construction, the outermost first, and the part that is *)
(* being returned last; the place of an event is a list and a position.    *)
Lists == [d \in 1 .. Len(stack) + 1 |-> IF d <= Len(stack) THEN stack[d].list ELSE part]
Places == UNION {{<<d, x>> : x \in 1 .. Len(Lists[d])} : d \in 1 .. Len(stack) + 1}
At(p) == Lists[p[1]][p[2]]
Precedes(p, q) == p[1] < q[1] \/ (p[1] = q[1] /\ p[2] < q[2])

(***************************************************************************)
(* Every event that is allocated is in exactly one list, so that main can  *)
(* free it and frees it once: whatever dry runs and cut loops throw away,  *)
(* nothing leaks.                                                          *)
(***************************************************************************)
Owned ==
  stale = {} =>
    /\ live = {At(p) : p \in Places}
    /\ \A p, q \in Places : p # q => At(p) # At(q)

(***************************************************************************)
(* The events come in the order of their ticks, without list_sort, however *)
(* sheets are nested, repeated, referred to and switched off; none lies    *)
(* ahead of the current offset.                                            *)
(***************************************************************************)
InTickOrder ==
  stale = {} =>
    \A p \in Places : /\ heap[At(p)].tick <= offset
                      /\ \A q \in Places :
                           Precedes(p, q) => heap[At(p)].tick <= heap[At(q)].tick

(***************************************************************************)
(* The last tone ends where the music has got to, four ticks early or one  *)
(* tick late in a legato, through all ties and repetitions; a rest ends    *)
(* it.                                                                     *)
(***************************************************************************)
ToneMeetsOffset ==
  stale = {} /\ stray = {} /\ prev_tone \in live /\ ~ did_rest =>
    LET end == heap[prev_tone].tick + heap[prev_tone].duration
    IN  end % WordSize \in {(offset + WordSize - 4) % WordSize, (offset + 1) % WordSize}

(***************************************************************************)
(* One statement at the top does not disturb the next: whatever it nests,  *)
(* labels or refers to, divider, namespace and the flags are back.         *)
(***************************************************************************)
TopLevelUndisturbed ==
  (Len(stack) <= 1 /\ mode # "return") \/ mode = "done" =>
    divider = <<1, 1>> /\ namespace = << >> /\ ~ referencing /\ ~ legato

(***************************************************************************)
(* A sheet goes by the names of the labelled sheets it is nested in, and   *)
(* is entered only once however often it is repeated from outside by a     *)
(* reference.                                                              *)
(***************************************************************************)
NamespaceFollows ==
  LET named == {d \in 1 .. Len(stack) :
                  IsSheet(stack[d]) /\ ast[stack[d].node].label # << >>}
  IN  IF referencing THEN namespace = << >>
      ELSE /\ Len(namespace) = Cardinality(named)
           /\ \A d \in named : ast[stack[d].node].label
                = <<namespace[Cardinality({c \in named : c <= d})]>>

Result == [x \in 1 .. Len(part) |-> heap[part[x]]]

(***************************************************************************)
(* The scheduler gets what it relies on.                                   *)
(***************************************************************************)
ResultPlayable == mode = "done" /\ stale = {} /\ stray = {} => Playable(Result)

(* The recursion comes to an end.                                          *)
Terminates == <>(mode = "done")

(***************************************************************************)
(* ctx->last_note and ctx->prev_tone are only used while they point to a   *)
(* note or an interval (the comment at prev_tone: might be note or         *)
(* interval).                                                              *)
(***************************************************************************)
NoUseAfterFree == stale = {}

(***************************************************************************)
(* A loop ends with the last event of the looped sheet and with no other   *)
(* (the comment at the flag: loop flag for this sheet and last element).   *)
(***************************************************************************)
LoopEndsWithItsSheet ==
  [][AppendPart /\ Top.loop /\ LastKid(Top) =>
       LET all == Top.list \o part
           last == all[Len(all)]
       IN  /\ all # << >> => heap'[last].end_loop
           /\ \A e \in DOMAIN heap :
                heap'[e].end_loop /\ ~ heap[e].end_loop => all # << >> /\ e = last]_vars

(* A sheet that is off changes no event outside it (test_off: 8{c}off      *)
(* leaves nothing behind).                                                 *)
OffIsSilent ==
  [][\A d \in 1 .. Len(stack) :
       stack[d].dry => \A e \in 1 .. stack[d].born : heap'[e] = heap[e]]_vars
===============================================================================
