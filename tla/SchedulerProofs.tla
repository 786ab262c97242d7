--------------------------- MODULE SchedulerProofs ---------------------------
(***************************************************************************)
(* Theorems about Scheduler for every piece, every QueueSize and every     *)
(* DrainSize that SizesAssumption allows.                                  *)
(***************************************************************************)
EXTENDS Scheduler, EventListProofs, FiniteSetTheorems

(* What a playable list offers to drain_events.                            *)
LEMMA EntryFacts ==
  ASSUME list \in Pieces, NEW p \in Positions(list)
  PROVE  /\ Len(list) \in Nat
         /\ list[p] \in Entry
         /\ NextEntry(p) \in Positions(list) \cup {NULL}
<1>1. Playable(list)
  BY PiecesAssumption
<1>2. list \in Seq(Entry)
  BY <1>1 DEF Playable
<1> QED BY <1>1, <1>2, LinkType DEF NextEntry, Positions

(* A note, and whatever else drain_events outputs, makes a proper cell.    *)
LEMMA CellFacts ==
  ASSUME list \in Pieces, NEW s \in Nat, NEW t \in Nat
  PROVE  /\ \A p \in Positions(list) :
              /\ EventCell(s, p, t) \in Cell
              /\ EventCell(s, p, t).pos = p
         /\ MarkerCell(s, t) \in Cell
         /\ MarkerCell(s, t).pos = NULL /\ MarkerCell(s, t).type = "USR1"
<1>1. Positions(list) \subseteq Nat
  BY DEF Positions
<1>2. ASSUME NEW p \in Positions(list)
      PROVE  EventCell(s, p, t) \in Cell /\ EventCell(s, p, t).pos = p
  <2>1. list[p].type \in EventType
    BY EntryFacts DEF Entry
  <2> QED BY <1>1, <2>1 DEF EventCell, Cell, CellType
<1>3. MarkerCell(s, t) \in Cell /\ MarkerCell(s, t).pos = NULL
      /\ MarkerCell(s, t).type = "USR1"
  BY DEF MarkerCell, Cell, CellType, NULL
<1> QED BY <1>2, <1>3

LEMMA NoteOffFacts ==
  ASSUME list \in Pieces, NEW c \in Cell, c.pos \in Positions(list)
  PROVE  NoteOff(c) \in Cell /\ NoteOff(c).pos = c.pos
<1>1. list[c.pos].duration \in Nat
  BY EntryFacts DEF Entry
<1> QED BY <1>1 DEF NoteOff, Cell, CellType

LEMMA InitTypeOK == Init => TypeOK
<1> SUFFICES ASSUME Init
             PROVE  TypeOK
  OBVIOUS
<1>1. Playable(list)
  BY PiecesAssumption DEF Init
<1>2. Len(list) \in Nat /\ Len(list) # 0
  BY <1>1 DEF Playable
<1>3. 1 \in Positions(list)
  BY <1>2 DEF Positions
<1> QED BY <1>3 DEF Init, TypeOK, ControlPoints, NULL

(* The client's own steps.                                                 *)
LEMMA DrainTypeOK ==
  ASSUME TypeOK, OutputEvent \/ OutputMarkerAndEvent \/ OutputFails \/ WriteBack
                 \/ Flush \/ Flushed \/ FlushFails
  PROVE  TypeOK'
<1> USE DEF ControlPoints
<1>1. ASSUME MoreToOutput
      PROVE  /\ entry \in Positions(list)
             /\ EventTick \in Nat
             /\ NextEntry(entry) \in Positions(list) \cup {NULL}
             /\ offset + list[entry].loop_offset \in Nat
  <2>1. entry \in Positions(list) /\ list \in Pieces /\ offset \in Nat
    BY <1>1 DEF TypeOK, MoreToOutput
  <2>2. list[entry].tick \in Nat /\ list[entry].loop_offset \in Nat
    BY <2>1, EntryFacts DEF Entry
  <2> QED BY <2>1, <2>2, EntryFacts DEF EventTick
<1>2. list \in Pieces /\ i \in Nat /\ i + 1 \in Nat /\ i + 2 \in Nat /\ k + 1 \in Nat /\ k + 2 \in Nat
  BY DEF TypeOK
<1>3. CASE OutputEvent
  <2> DEFINE c == EventCell(i, entry, EventTick)
  <2>1. MoreToOutput /\ outbuf' = outbuf \cup {c}
    BY <1>3 DEF OutputEvent
  <2>2. c \in Cell /\ c.pos = entry /\ entry \in Positions(list)
    BY <1>1, <1>2, <2>1, CellFacts
  <2>3. entry' \in Positions(list) \cup {NULL} /\ offset' \in Nat
    BY <1>1, <2>1, <1>3 DEF OutputEvent, AdvanceEntry, TypeOK
  <2> HIDE DEF c
  <2> QED BY <1>2, <1>3, <2>1, <2>2, <2>3 DEF OutputEvent, AdvanceEntry, input, signal, TypeOK
<1>4. ASSUME MoreToOutput
      PROVE  LET m == MarkerCell(i, EventTick)
             IN  m \in Cell /\ m.pos = NULL /\ m.type = "USR1"
  BY <1>1, <1>2, <1>4, CellFacts
<1>5. CASE OutputMarkerAndEvent
  <2> DEFINE m == MarkerCell(i, EventTick)
             c == EventCell(i + 1, entry, EventTick)
  <2>1. MoreToOutput /\ outbuf' = outbuf \cup {m, c}
    BY <1>5 DEF OutputMarkerAndEvent
  <2>2. c \in Cell /\ c.pos = entry /\ entry \in Positions(list)
    BY <1>1, <1>2, <2>1, CellFacts
  <2>3. m \in Cell /\ m.pos = NULL /\ m.type = "USR1"
    BY <1>4, <2>1
  <2>4. entry' \in Positions(list) \cup {NULL} /\ offset' \in Nat
    BY <1>1, <2>1, <1>5 DEF OutputMarkerAndEvent, AdvanceEntry, TypeOK
  <2> HIDE DEF c, m
  <2> QED BY <1>2, <1>5, <2>1, <2>2, <2>3, <2>4
          DEF OutputMarkerAndEvent, AdvanceEntry, input, signal, TypeOK
<1>6. CASE OutputFails
  <2> DEFINE m == MarkerCell(i, EventTick)
  <2>1. MoreToOutput /\ (outbuf' = outbuf \/ outbuf' = outbuf \cup {m})
    BY <1>6 DEF OutputFails
  <2>2. m \in Cell /\ m.pos = NULL /\ m.type = "USR1"
    BY <1>4, <2>1
  <2> HIDE DEF m
  <2> QED BY <1>6, <2>1, <2>2 DEF OutputFails, GiveUp, ctx, locals, input, signal, TypeOK
<1>7. CASE WriteBack
  BY <1>7 DEF WriteBack, locals, queue, input, signal, TypeOK
<1>8. CASE Flush
  BY <1>8 DEF Flush, ctx, locals, input, signal, TypeOK
<1>9. CASE Flushed
  BY <1>9 DEF Flushed, ctx, locals, queue, input, signal, TypeOK
<1>10. CASE FlushFails
  BY <1>10 DEF FlushFails, GiveUp, ctx, locals, queue, input, signal, TypeOK
<1> QED BY <1>3, <1>5, <1>6, <1>7, <1>8, <1>9, <1>10

LEMMA HandleTypeOK ==
  ASSUME TypeOK, PollInput \/ HandleUsr0 \/ HandleUsr1 \/ HandleTempo
  PROVE  TypeOK'
<1> USE DEF ControlPoints
<1>1. CASE PollInput
  BY <1>1 DEF PollInput, ctx, locals, queue, signal, TypeOK
<1>2. ASSUME NEW type, Handling(type)
      PROVE  /\ batch' \in Seq(Cell) /\ inq' = inq
             /\ \A j \in 1 .. Len(batch') :
                  batch'[j].type = "TEMPO" => batch'[j].pos \in Positions(list)
             /\ Head(batch) = batch[1] /\ 1 \in 1 .. Len(batch)
  <2>1. batch \in Seq(Cell) /\ batch # << >> /\ batch' = Tail(batch)
    BY <1>2 DEF Handling, TypeOK
  <2>2. /\ Len(batch') = Len(batch) - 1
        /\ \A j \in 1 .. Len(batch') : batch'[j] = batch[j + 1] /\ j + 1 \in 1 .. Len(batch)
    BY <2>1
  <2> QED BY <1>2, <2>1, <2>2 DEF Handling, TypeOK
<1>3. CASE HandleUsr0
  BY <1>2, <1>3 DEF HandleUsr0, ctx, locals, queue, TypeOK
<1>4. CASE HandleUsr1
  BY <1>2, <1>4, SizesAssumption
     DEF HandleUsr1, BeginDrain, ctx, locals, queue, signal, TypeOK
<1>5. CASE HandleTempo
  <2>1. Handling("TEMPO") /\ batch[1].type = "TEMPO"
    BY <1>2, <1>5 DEF HandleTempo, Handling
  <2>2. batch[1].pos \in Positions(list)
    BY <1>2, <2>1 DEF TypeOK
  <2>3. list[Head(batch).pos].bpm \in Nat
    BY <1>2, <2>1, <2>2, EntryFacts DEF Entry, TypeOK
  <2> QED BY <1>2, <1>5, <2>1, <2>3
          DEF HandleTempo, SetTempo, ctx, locals, queue, signal, TypeOK
<1> QED BY <1>1, <1>3, <1>4, <1>5

(* The steps of run() and of the loop that handle no event.                *)
LEMMA ControlTypeOK ==
  ASSUME TypeOK, Start \/ StartFails \/ InstallHandler \/ Arm \/ ArmFails \/ Check
                 \/ PollTimeout \/ PollError \/ PollFails \/ BatchDone
                 \/ ClearQueue \/ Return \/ Interrupt
  PROVE  TypeOK'
<1> USE SizesAssumption, BoundsAssumption
    DEF ControlPoints, TypeOK, ctx, locals, queue, input, signal, GiveUp
<1>1. CASE Start
  BY <1>1 DEF Start, BeginDrain
<1>2. CASE StartFails
  BY <1>2 DEF StartFails, SetTempo
<1>3. CASE InstallHandler
  BY <1>3 DEF InstallHandler
<1>4. CASE Arm
  BY <1>4 DEF Arm
<1>5. CASE ArmFails
  BY <1>5 DEF ArmFails
<1>6. CASE Check
  BY <1>6 DEF Check
<1>7. CASE PollTimeout
  BY <1>7 DEF PollTimeout
<1>8. CASE PollError
  BY <1>8 DEF PollError
<1>9. CASE PollFails
  BY <1>9 DEF PollFails
<1>10. CASE BatchDone
  BY <1>10 DEF BatchDone
<1>11. CASE ClearQueue
  BY <1>11 DEF ClearQueue
<1>12. CASE Return
  BY <1>12 DEF Return
<1>13. CASE Interrupt
  BY <1>13 DEF Interrupt
<1> QED BY <1>1, <1>2, <1>3, <1>4, <1>5, <1>6, <1>7, <1>8, <1>9, <1>10, <1>11, <1>12, <1>13

(* The kernel's steps.                                                     *)
LEMMA DeliverTypeOK ==
  ASSUME TypeOK, Deliver
  PROVE  TypeOK'
<1> USE DEF ControlPoints
<1>1. PICK c \in pool : \/ DeliverNote(c) \/ DeliverNoteOff(c) \/ DeliverControl(c)
                        \/ DeliverToClient(c) \/ DeliverMarker(c)
  BY DEF Deliver
<1>2. /\ UNCHANGED <<list, pc, status, handler, running, tempo, current, index, offset>>
      /\ UNCHANGED <<entry, i, k, n, outbuf, batch>>
  BY DEF Deliver, signal, ctx, locals
<1>3. c \in Cell /\ (c.pos \in Positions(list) \/ (c.pos = NULL /\ c.type = "USR1"))
  BY DEF TypeOK
<1>4. SUFFICES /\ pool' \subseteq Cell
               /\ \A d \in pool' :
                    d.pos \in Positions(list) \/ (d.pos = NULL /\ d.type = "USR1")
               /\ at' \in Positions(list) \cup {NULL}
               /\ inq' \in Seq(Cell)
               /\ \A j \in 1 .. Len(inq') :
                    inq'[j].type = "TEMPO" => inq'[j].pos \in Positions(list)
  BY <1>2 DEF TypeOK
<1>5. CASE DeliverNote(c)
  <2>1. NoteOff(c) \in Cell /\ NoteOff(c).pos = c.pos /\ c.pos \in Positions(list)
    BY <1>3, <1>5, NoteOffFacts DEF DeliverNote, TypeOK
  <2> QED BY <1>5, <2>1 DEF DeliverNote, Performed, TypeOK
<1>6. CASE DeliverNoteOff(c)
  BY <1>6 DEF DeliverNoteOff, TypeOK
<1>7. CASE DeliverControl(c)
  BY <1>3, <1>7 DEF DeliverControl, Performed, TypeOK
<1>8. ASSUME inq' = Append(inq, c)
      PROVE  /\ inq' \in Seq(Cell)
             /\ \A j \in 1 .. Len(inq') :
                  inq'[j].type = "TEMPO" => inq'[j].pos \in Positions(list)
  <2>1. inq \in Seq(Cell)
    BY DEF TypeOK
  <2>2. Len(inq') = Len(inq) + 1 /\ inq'[Len(inq) + 1] = c
        /\ \A j \in 1 .. Len(inq) : inq'[j] = inq[j]
    BY <1>3, <1>8, <2>1
  <2>3. \A j \in 1 .. Len(inq') : j \in 1 .. Len(inq) \/ j = Len(inq) + 1
    BY <2>1, <2>2
  <2> QED BY <1>3, <1>8, <2>1, <2>2, <2>3 DEF TypeOK
<1>9. CASE DeliverToClient(c)
  BY <1>3, <1>8, <1>9 DEF DeliverToClient, Performed, TypeOK
<1>10. CASE DeliverMarker(c)
  BY <1>3, <1>8, <1>10 DEF DeliverMarker, TypeOK
<1> QED BY <1>1, <1>5, <1>6, <1>7, <1>9, <1>10

LEMMA StepTypeOK == TypeOK /\ [Step]_vars => TypeOK'
<1> SUFFICES ASSUME TypeOK, [Step]_vars
             PROVE  TypeOK'
  OBVIOUS
<1>1. CASE UNCHANGED vars
  BY <1>1 DEF vars, TypeOK, ControlPoints
<1>2. CASE Step
  BY <1>2, DrainTypeOK, HandleTypeOK, ControlTypeOK, DeliverTypeOK
     DEF Step, Client, Failure
<1> QED BY <1>1, <1>2

(***************************************************************************)
(* The variables of run(), drain_events() and loop() keep their types:     *)
(* the walk over the list never leaves it, and every event handed to the   *)
(* queue was copied from an entry or is a USR1.                            *)
(***************************************************************************)
THEOREM TypeCorrect == Spec => []TypeOK
<1> QED BY InitTypeOK, StepTypeOK, PTL DEF Spec

-------------------------------------------------------------------------------
(***************************************************************************)
(* The chain of refills.                                                   *)
(***************************************************************************)

(* Counting modulo d, for a d that is not known.                           *)
LEMMA ModSucc ==
  ASSUME NEW d \in Nat, d > 0, NEW a \in Nat, a % d # d - 1
  PROVE  (a + 1) % d = (a % d) + 1
<1> DEFINE q == a \div d
           r == a % d
<1>1. q \in Nat /\ r \in 0 .. d - 1 /\ a = d * q + r
  OBVIOUS
<1>2. \A s \in 0 .. d - 1 : (d * q + s) % d = s
  BY <1>1
<1>3. r + 1 \in 0 .. d - 1
  BY <1>1
<1>4. a + 1 = d * q + (r + 1)
  <2> HIDE DEF q, r
  <2>1. d * q \in Nat
    BY <1>1
  <2> QED BY <1>1, <2>1
<1>5. (d * q + (r + 1)) % d = r + 1
  BY <1>2, <1>3
<1> QED BY <1>4, <1>5

(***************************************************************************)
(* While drain_events fills the output buffer, either a USR1 is already on *)
(* its way or what is left of the batch reaches the next one.              *)
(***************************************************************************)
FillReachesMarker ==
  pc = "fill" => UnhandledMarker \/ (i % DrainSize) + n - k >= DrainSize

(* The events fetched from the port are handled before poll runs again, so *)
(* that PollInput never drops any.                                         *)
BatchHandled ==
  (handler = "default" \/ pc \in {"install", "arm", "check", "poll"}) => batch = << >>

(* loop() is not entered before run() has installed the signal handler.    *)
HandlerFirst == pc \in {"arm", "check", "poll", "handle"} => handler # "default"

RefillInv ==
  TypeOK /\ FillReachesMarker /\ BatchHandled /\ HandlerFirst /\ RefillPending

(* Steps that leave the marker where it is.                                *)
LEMMA MarkerStays ==
  ASSUME UnhandledMarker,
         \A c \in Markers : c \in outbuf' \cup pool',
         UNCHANGED <<inq, batch>>
  PROVE  UnhandledMarker'
BY DEF UnhandledMarker, Markers

LEMMA FillRefillInv ==
  ASSUME RefillInv, OutputEvent \/ OutputMarkerAndEvent
  PROVE  RefillInv'
<1>1. TypeOK'
  BY DrainTypeOK DEF RefillInv
<1>2. pc = "fill" /\ pc' = "fill" /\ BatchHandled' /\ HandlerFirst'
  BY DEF RefillInv, BatchHandled, HandlerFirst, OutputEvent, OutputMarkerAndEvent, AdvanceEntry,
         signal, input
<1>3. RefillPending'
  BY <1>2 DEF RefillPending, Playing
<1>4. CASE OutputEvent
  <2>1. UnhandledMarker => UnhandledMarker'
    BY <1>4, MarkerStays DEF OutputEvent, AdvanceEntry, input, Markers
  <2>2. (i + 1) % DrainSize = (i % DrainSize) + 1
    <3>1. i % DrainSize # DrainSize - 1
      BY <1>4 DEF OutputEvent, MarkerDue
    <3>2. i \in Nat /\ DrainSize \in Nat /\ DrainSize > 0
      BY SizesAssumption DEF RefillInv, TypeOK
    <3> QED BY <3>1, <3>2, ModSucc
  <2>3. i' = i + 1 /\ k' = k + 1 /\ n' = n
    BY <1>4 DEF OutputEvent, AdvanceEntry
  <2>4. i % DrainSize \in Nat /\ n \in Nat /\ k \in Nat
    BY SizesAssumption DEF RefillInv, TypeOK
  <2>5. (i' % DrainSize) + n' - k' = (i % DrainSize) + n - k
    BY <2>2, <2>3, <2>4
  <2>6. FillReachesMarker'
    BY <1>2, <2>1, <2>5 DEF RefillInv, FillReachesMarker
  <2> QED BY <1>1, <1>2, <1>3, <2>6 DEF RefillInv
<1>5. CASE OutputMarkerAndEvent
  <2>1. MarkerCell(i, EventTick) \in outbuf' /\ MarkerCell(i, EventTick).type = "USR1"
    BY <1>5 DEF OutputMarkerAndEvent, MarkerCell
  <2>2. UnhandledMarker'
    BY <2>1 DEF UnhandledMarker, Markers
  <2> QED BY <1>1, <1>2, <1>3, <2>2 DEF RefillInv, FillReachesMarker
<1> QED BY <1>4, <1>5

(* The batch is full, so its USR1 has been written; or the list has ended. *)
LEMMA WriteBackRefillInv ==
  ASSUME RefillInv, WriteBack
  PROVE  RefillInv'
<1>1. TypeOK'
  BY DrainTypeOK DEF RefillInv
<1>2. pc = "fill" /\ pc' = "flush" /\ current' = entry
      /\ UNCHANGED <<outbuf, pool, inq, batch, handler>>
  BY DEF WriteBack, queue, input, signal
<1>3. FillReachesMarker' /\ BatchHandled' /\ HandlerFirst'
  BY <1>2 DEF FillReachesMarker, BatchHandled, HandlerFirst, RefillInv
<1>4. ASSUME current' # NULL
      PROVE  UnhandledMarker'
  <2>1. ~ (k < n)
    BY <1>2, <1>4 DEF WriteBack, MoreToOutput
  <2>2. i % DrainSize < DrainSize /\ i % DrainSize \in Nat /\ DrainSize \in Nat
        /\ n \in Nat /\ k \in Nat
    BY SizesAssumption DEF RefillInv, TypeOK
  <2>3. ~ ((i % DrainSize) + n - k >= DrainSize)
    BY <2>1, <2>2
  <2>4. UnhandledMarker
    BY <1>2, <2>3 DEF RefillInv, FillReachesMarker
  <2> QED BY <1>2, <2>4, MarkerStays DEF Markers
<1> QED BY <1>1, <1>3, <1>4 DEF RefillInv, RefillPending

(* The marker moves from the buffer to the pool, to the port, to the       *)
(* fetched batch; only its handling takes it away.                         *)
LEMMA TransportRefillInv ==
  ASSUME RefillInv, Flush \/ Deliver \/ PollInput
  PROVE  RefillInv'
<1>1. TypeOK'
  BY DrainTypeOK, DeliverTypeOK, HandleTypeOK DEF RefillInv
<1>2. SUFFICES /\ UnhandledMarker => UnhandledMarker'
               /\ UNCHANGED <<i, n, k, handler, current>>
               /\ BatchHandled' /\ HandlerFirst'
               /\ pc' = "fill" => pc = "fill"
               /\ Playing' => Playing
  BY <1>1 DEF RefillInv, FillReachesMarker, RefillPending
<1>3. CASE Flush
  <2>1. UnhandledMarker => UnhandledMarker'
    BY <1>3, MarkerStays DEF Flush, Markers, input
  <2> QED BY <1>3, <2>1 DEF Flush, RefillInv, BatchHandled, HandlerFirst, Playing,
                                  ctx, locals, signal, input
<1>4. CASE Deliver
  <2>1. /\ UNCHANGED <<pc, handler, current, i, n, k, outbuf, batch>>
        /\ BatchHandled' /\ HandlerFirst'
    BY <1>4 DEF Deliver, signal, ctx, locals, RefillInv, BatchHandled, HandlerFirst
  <2>2. PICK c \in pool : \/ DeliverNote(c) \/ DeliverNoteOff(c) \/ DeliverControl(c)
                          \/ DeliverToClient(c) \/ DeliverMarker(c)
    BY <1>4 DEF Deliver
  <2>3. pool \ {c} \subseteq pool'
    BY <2>2 DEF DeliverNote, DeliverNoteOff, DeliverControl, DeliverToClient, DeliverMarker
  <2>4. \A e \in Markers : e # c => e \in Markers'
    BY <2>1, <2>3 DEF Markers
  <2>5. c \in Cell /\ inq \in Seq(Cell)
    BY DEF RefillInv, TypeOK
  <2>6. inq' = inq \/ inq' = Append(inq, c)
    BY <2>2 DEF DeliverNote, DeliverNoteOff, DeliverControl, DeliverToClient, DeliverMarker
  <2>7. \A j \in 1 .. Len(inq) : j \in 1 .. Len(inq') /\ inq'[j] = inq[j]
    BY <2>5, <2>6
  <2>8. CASE c.type = "USR1"
    <3>1. DeliverMarker(c)
      BY <2>2, <2>8
         DEF DeliverNote, DeliverNoteOff, DeliverControl, DeliverToClient
    <3>2. Len(inq) + 1 \in 1 .. Len(inq') /\ inq'[Len(inq) + 1].type = "USR1"
      BY <2>5, <2>8, <3>1 DEF DeliverMarker
    <3> QED BY <2>1, <3>2 DEF UnhandledMarker, Playing
  <2>9. CASE c.type # "USR1"
    <3>1. Markers \subseteq Markers'
      BY <2>4, <2>9 DEF Markers
    <3> QED BY <2>1, <2>7, <3>1 DEF UnhandledMarker, Playing
  <2> QED BY <2>8, <2>9
<1>5. CASE PollInput
  <2>1. batch = << >>
    BY <1>5 DEF PollInput, RefillInv, BatchHandled
  <2>2. UnhandledMarker => UnhandledMarker'
    BY <1>5, <2>1 DEF PollInput, UnhandledMarker, Markers, queue
  <2> QED BY <1>5, <2>2
          DEF PollInput, RefillInv, BatchHandled, HandlerFirst, Playing, ctx, locals, signal
<1> QED BY <1>3, <1>4, <1>5

(* The events of a fetched batch: a USR1 starts the next drain, the others *)
(* do not stand in for one.                                                *)
LEMMA HandleRefillInv ==
  ASSUME RefillInv, HandleUsr0 \/ HandleUsr1 \/ HandleTempo
  PROVE  RefillInv'
<1>1. TypeOK'
  BY HandleTypeOK DEF RefillInv
<1>2. ASSUME NEW type, Handling(type)
      PROVE  /\ pc = "handle" /\ handler # "default"
             /\ inq' = inq /\ batch' = Tail(batch)
             /\ \A j \in 1 .. Len(batch) :
                  batch[j].type = type \/ \E l \in 1 .. Len(batch') : batch'[l] = batch[j]
  <2>1. batch \in Seq(Cell) /\ batch # << >> /\ batch' = Tail(batch)
    BY <1>2 DEF Handling, RefillInv, TypeOK
  <2>2. \A l \in 1 .. Len(batch') : batch'[l] = batch[l + 1]
    BY <2>1
  <2>3. \A j \in 1 .. Len(batch) : j = 1 \/ (j - 1 \in 1 .. Len(batch') /\ (j - 1) + 1 = j)
    BY <2>1
  <2>4. batch[1].type = type
    BY <1>2, <2>1 DEF Handling
  <2> QED BY <1>2, <2>1, <2>2, <2>3, <2>4 DEF Handling, RefillInv, HandlerFirst
<1>3. ASSUME NEW type, Handling(type), type # "USR1", UNCHANGED <<pc, handler, current, queue>>
      PROVE  RefillInv'
  <2>1. UnhandledMarker => UnhandledMarker'
    BY <1>2, <1>3 DEF UnhandledMarker, Markers, queue
  <2>2. Playing' = Playing /\ pc' = "handle" /\ handler' # "default"
    BY <1>2, <1>3 DEF Playing
  <2> QED BY <1>1, <1>3, <2>1, <2>2
          DEF RefillInv, FillReachesMarker, BatchHandled, HandlerFirst, RefillPending
<1>4. CASE HandleUsr0
  BY <1>3, <1>4 DEF HandleUsr0, ctx
<1>5. CASE HandleTempo
  BY <1>3, <1>5 DEF HandleTempo, ctx, signal
<1>6. CASE HandleUsr1
  <2>1. Handling("USR1") /\ UNCHANGED <<handler, current>> /\ pc = "handle" /\ handler # "default"
    BY <1>2, <1>6 DEF HandleUsr1, ctx, signal
  <2>2. CASE current = NULL
    BY <1>1, <1>6, <2>1, <2>2
       DEF HandleUsr1, RefillInv, FillReachesMarker, BatchHandled, HandlerFirst, RefillPending
  <2>3. CASE current # NULL
    <3>1. pc' = "fill" /\ i' = index /\ k' = 0 /\ n' = DrainSize
      BY <1>6, <2>3 DEF HandleUsr1, BeginDrain
    <3>2. i' % DrainSize \in Nat
      BY <3>1, SizesAssumption DEF RefillInv, TypeOK
    <3>3. (i' % DrainSize) + n' - k' >= DrainSize
      BY <3>1, <3>2, SizesAssumption
    <3>4. FillReachesMarker'
      BY <3>3 DEF FillReachesMarker
    <3> QED BY <1>1, <2>1, <3>1, <3>4
            DEF RefillInv, BatchHandled, HandlerFirst, RefillPending, Playing
  <2> QED BY <2>2, <2>3
<1> QED BY <1>4, <1>5, <1>6

(* Everything else moves neither markers nor the context of the drain.     *)
LEMMA ControlRefillInv ==
  ASSUME RefillInv,
         Start \/ StartFails \/ OutputFails \/ Flushed \/ FlushFails
         \/ InstallHandler \/ Arm \/ ArmFails \/ Check
         \/ PollTimeout \/ PollError \/ PollFails \/ BatchDone
         \/ ClearQueue \/ Return \/ Interrupt
  PROVE  RefillInv'
<1>1. TypeOK'
  BY ControlTypeOK, DrainTypeOK DEF RefillInv
<1>2. CASE Start
  <2>1. pc' = "fill" /\ i' = index /\ k' = 0 /\ n' = QueueSize /\ UNCHANGED <<handler, input>>
    BY <1>2 DEF Start, BeginDrain, signal
  <2>2. i' % DrainSize \in Nat
    BY <2>1, SizesAssumption DEF RefillInv, TypeOK
  <2>3. (i' % DrainSize) + n' - k' >= DrainSize
    BY <2>1, <2>2, SizesAssumption
  <2>4. BatchHandled'
    BY <2>1 DEF RefillInv, BatchHandled, input
  <2> QED BY <1>1, <2>1, <2>3, <2>4
          DEF RefillInv, FillReachesMarker, HandlerFirst, RefillPending, Playing
<1>3. CASE StartFails \/ OutputFails \/ FlushFails \/ ArmFails \/ PollFails
           \/ ClearQueue \/ Return
  <2>1. ~ Playing' /\ pc' # "fill" /\ UNCHANGED <<handler, batch>>
    BY <1>3 DEF StartFails, OutputFails, FlushFails, ArmFails, PollFails, ClearQueue,
                Return, GiveUp, Playing, signal, input
  <2> QED BY <1>1, <2>1
          DEF RefillInv, FillReachesMarker, BatchHandled, HandlerFirst, RefillPending, Playing
<1>4. CASE Flushed \/ InstallHandler \/ Arm \/ Check \/ PollTimeout \/ PollError \/ BatchDone
  <2>1. /\ UNCHANGED <<current, outbuf, pool, inq, batch>>
        /\ pc' # "fill" /\ Playing
    BY <1>4 DEF Flushed, InstallHandler, Arm, Check, PollTimeout, PollError, BatchDone,
                ctx, queue, input, Playing
  <2>2. UnhandledMarker' = UnhandledMarker
    BY <2>1 DEF UnhandledMarker, Markers
  <2>3. BatchHandled' /\ HandlerFirst'
    BY <1>4 DEF Flushed, InstallHandler, Arm, Check, PollTimeout, PollError, BatchDone,
                input, signal, RefillInv, BatchHandled, HandlerFirst
  <2> QED BY <1>1, <2>1, <2>2, <2>3 DEF RefillInv, FillReachesMarker, RefillPending
<1>5. CASE Interrupt
  <2>1. pc' = "killed" \/ (UNCHANGED <<outbuf, pool>> /\ (pc' = pc \/ (pc = "poll" /\ pc' = "check")))
    BY <1>5 DEF Interrupt, queue
  <2>2. UNCHANGED <<current, i, n, k, inq, batch>>
    BY <1>5 DEF Interrupt, ctx, locals, input
  <2>3. BatchHandled' /\ HandlerFirst'
    BY <1>5, <2>2 DEF Interrupt, signal, RefillInv, BatchHandled, HandlerFirst
  <2>4. CASE pc' = "killed"
    BY <1>1, <2>3, <2>4 DEF RefillInv, FillReachesMarker, RefillPending, Playing
  <2>5. CASE UNCHANGED <<outbuf, pool>> /\ (pc' = pc \/ (pc = "poll" /\ pc' = "check"))
    <3>1. UnhandledMarker' = UnhandledMarker
      BY <2>2, <2>5 DEF UnhandledMarker, Markers
    <3>2. (pc' = "fill" => pc = "fill") /\ (Playing' => Playing)
      BY <2>5 DEF Playing
    <3> QED BY <1>1, <2>2, <2>3, <3>1, <3>2 DEF RefillInv, FillReachesMarker, RefillPending
  <2> QED BY <2>1, <2>4, <2>5
<1> QED BY <1>2, <1>3, <1>4, <1>5

LEMMA StepRefillInv == RefillInv /\ [Step]_vars => RefillInv'
<1> SUFFICES ASSUME RefillInv, [Step]_vars
             PROVE  RefillInv'
  OBVIOUS
<1>1. CASE UNCHANGED vars
  BY <1>1, StepTypeOK
     DEF vars, RefillInv, FillReachesMarker, BatchHandled, HandlerFirst, RefillPending,
         Playing, UnhandledMarker, Markers
<1>2. CASE Step
  BY <1>2, FillRefillInv, WriteBackRefillInv, TransportRefillInv, HandleRefillInv,
     ControlRefillInv
     DEF Step, Client, Failure
<1> QED BY <1>1, <1>2

LEMMA InitRefillInv == Init => RefillInv
BY InitTypeOK
   DEF Init, RefillInv, FillReachesMarker, BatchHandled, HandlerFirst, RefillPending, Playing

(***************************************************************************)
(* The chain of refills never breaks, whatever the piece and the sizes:    *)
(* while the list has not ended a USR1 is in the output buffer, in the     *)
(* queue, at the port or in the fetched batch.  It is this event, and      *)
(* nothing else, that makes loop() call drain_events again.                *)
(***************************************************************************)
THEOREM RefillNeverLost == Spec => []RefillPending
<1>1. RefillInv => RefillPending
  BY DEF RefillInv
<1> QED BY <1>1, InitRefillInv, StepRefillInv, PTL DEF Spec
-------------------------------------------------------------------------------
(***************************************************************************)
(* The order and the number of the events on their way.                    *)
(***************************************************************************)
(* The next entry does not begin before the entry it follows, be it the    *)
(* next in the list or the first of another pass.                          *)
LEMMA TickFacts ==
  ASSUME list \in Pieces, NEW p \in Positions(list), NextEntry(p) # NULL
  PROVE  /\ ~ list[p].end_loop => list[p].tick <= list[NextEntry(p)].tick
         /\ list[p].end_loop => list[p].tick <= list[NextEntry(p)].tick + list[p].loop_offset
<1> DEFINE len == Len(list)
<1>1. /\ Playable(list) /\ len \in Nat /\ p \in 1 .. len /\ len \in 1 .. len
      /\ \A q \in 1 .. len : list[q].end_loop => q = len
  BY PiecesAssumption DEF Playable, Positions
<1>2. CASE ~ list[p].end_loop
  <2>1. ~ (Loops(list) /\ p = Latest(LoopEnds(list)))
    <3>1. SUFFICES ASSUME Loops(list)
                   PROVE  Latest(LoopEnds(list)) # p
      OBVIOUS
    <3>2. LoopEnds(list) # {} /\ LoopEnds(list) \in SUBSET (1 .. len)
      BY <3>1 DEF Loops, LoopEnds, Positions
    <3>3. Latest(LoopEnds(list)) \in LoopEnds(list)
      BY <1>1, <3>2, LatestExists
    <3> QED BY <1>2, <3>3 DEF LoopEnds
  <2>2. NextEntry(p) = p + 1 /\ p < len
    BY <1>1, <2>1 DEF NextEntry, Link, Positions
  <2>3. p + 1 \in 1 .. len /\ p < p + 1
    BY <1>1, <2>2
  <2> QED BY <1>1, <1>2, <2>2, <2>3 DEF Playable, Positions
<1>3. CASE list[p].end_loop
  <2>1. p = len /\ LoopStarts(list) # {} /\ LoopEnds(list) = {len}
        /\ list[Latest(LoopStarts(list))].tick + list[len].loop_offset >= list[len].tick
    BY <1>1, <1>3 DEF Playable, LoopEnds, Positions
  <2>2. Latest(LoopEnds(list)) = len
    <3>1. {len} \in SUBSET (1 .. len) /\ {len} # {}
      BY <1>1
    <3>2. Latest({len}) \in {len}
      BY <1>1, <3>1, LatestExists
    <3> QED BY <2>1, <3>2
  <2>3. NextEntry(p) = Latest(LoopStarts(list))
    BY <1>1, <2>1, <2>2 DEF NextEntry, Link, Loops, Positions
  <2>4. Latest(LoopStarts(list)) \in 1 .. len
    <3>1. LoopStarts(list) \in SUBSET (1 .. len)
      BY DEF LoopStarts, Positions
    <3> QED BY <1>1, <2>1, <3>1, LatestExists
  <2>5. /\ list[p].tick \in Nat /\ list[p].loop_offset \in Nat
        /\ list[NextEntry(p)].tick \in Nat
    BY <1>1, <2>3, <2>4, EntryFacts DEF Entry, Positions
  <2> QED BY <1>3, <2>1, <2>3, <2>5
<1> QED BY <1>2, <1>3

-------------------------------------------------------------------------------
(***************************************************************************)
(* The order.  All that is on its way comes before the entry that is to be *)
(* output next, in the order of output and in that of the ticks.           *)
(***************************************************************************)
Distinct == \A c, d \in Outstanding : c.seq = d.seq => c = d

PoolFirst ==
  \A c \in pool, d \in outbuf :
    c.type # "NOTEOFF" /\ d.type # "NOTEOFF" => c.seq < d.seq

Written ==
  \A c \in Outstanding :
    c.seq < i /\ (entry # NULL => c.tick <= list[entry].tick + offset)

OrderInv ==
  /\ InTickOrder /\ Distinct /\ PoolFirst
  /\ pc = "start" => outbuf = {} /\ pool = {}
  /\ pc = "fill" \/ Playing => Written
  /\ Playing => entry = current /\ i = index

(* Cells added to the output buffer with the tick of the entry and numbers *)
(* from i on.                                                              *)
LEMMA AddCells ==
  ASSUME TypeOK, OrderInv, pc = "fill", entry # NULL,
         NEW N, outbuf' = outbuf \cup N, UNCHANGED pool,
         \A c \in N : c.tick = EventTick /\ c.seq \in {i, i + 1},
         \A c, d \in N : c.seq = d.seq => c = d
  PROVE  /\ InTickOrder' /\ Distinct' /\ PoolFirst'
         /\ \A c \in Outstanding' : c \in Outstanding \/ c \in N
<1>1. \A c \in Outstanding' : c \in Outstanding \/ c \in N
  BY DEF Outstanding
<1>2. i \in Nat /\ EventTick \in Nat /\ \A c \in Outstanding : c.seq \in Nat /\ c.tick \in Nat
  <2>1. list[entry].tick \in Nat /\ offset \in Nat
    BY EntryFacts DEF TypeOK, Entry
  <2> QED BY <2>1 DEF TypeOK, Outstanding, Cell, EventTick
<1>3. \A c \in Outstanding : c.seq < i /\ c.tick <= EventTick
  BY DEF OrderInv, Written, EventTick
<1>4. \A c \in N : c.seq \in Nat /\ c.seq >= i /\ c.tick = EventTick
  BY <1>2
<1>5. InTickOrder'
  <2> SUFFICES ASSUME NEW c \in Outstanding', NEW d \in Outstanding', c.seq < d.seq
               PROVE  c.tick <= d.tick
    BY DEF InTickOrder
  <2>1. CASE c \in Outstanding /\ d \in Outstanding
    BY <2>1 DEF OrderInv, InTickOrder
  <2>2. CASE c \in Outstanding /\ d \in N
    BY <1>3, <1>4, <2>2
  <2>3. CASE c \in N /\ d \in Outstanding
    BY <1>2, <1>3, <1>4, <2>3
  <2>4. CASE c \in N /\ d \in N
    BY <1>2, <1>4, <2>4
  <2> QED BY <1>1, <2>1, <2>2, <2>3, <2>4
<1>6. Distinct'
  <2> SUFFICES ASSUME NEW c \in Outstanding', NEW d \in Outstanding', c.seq = d.seq
               PROVE  c = d
    BY DEF Distinct
  <2>1. CASE c \in Outstanding /\ d \in Outstanding
    BY <2>1 DEF OrderInv, Distinct
  <2>2. CASE c \in Outstanding /\ d \in N
    BY <1>2, <1>3, <1>4, <2>2
  <2>3. CASE c \in N /\ d \in Outstanding
    BY <1>2, <1>3, <1>4, <2>3
  <2>4. CASE c \in N /\ d \in N
    BY <2>4
  <2> QED BY <1>1, <2>1, <2>2, <2>3, <2>4
<1>7. PoolFirst'
  <2> SUFFICES ASSUME NEW c \in pool, NEW d \in outbuf',
                      c.type # "NOTEOFF", d.type # "NOTEOFF"
               PROVE  c.seq < d.seq
    BY DEF PoolFirst
  <2>1. CASE d \in outbuf
    BY <2>1 DEF OrderInv, PoolFirst
  <2>2. CASE d \in N
    <3>1. c \in Outstanding
      BY DEF Outstanding
    <3> QED BY <1>2, <1>3, <1>4, <2>2, <3>1
  <2> QED BY <2>1, <2>2
<1> QED BY <1>1, <1>5, <1>6, <1>7

(* What has been output stays before what is output next.                  *)
LEMMA AdvanceWritten ==
  ASSUME TypeOK, OrderInv, pc = "fill", entry # NULL, AdvanceEntry,
         i' \in Nat, i < i',
         \A c \in Outstanding' : c \in Outstanding \/ (c.tick = EventTick /\ c.seq < i')
  PROVE  Written'
<1>1. /\ entry \in Positions(list) /\ list \in Pieces /\ offset \in Nat /\ i \in Nat
      /\ list' = list /\ entry' = NextEntry(entry)
      /\ offset' = IF list[entry].end_loop THEN offset + list[entry].loop_offset ELSE offset
  BY DEF TypeOK, AdvanceEntry
<1>2. list[entry].tick \in Nat /\ list[entry].loop_offset \in Nat
  BY <1>1, EntryFacts DEF Entry
<1>3. ASSUME entry' # NULL
      PROVE  EventTick <= list[entry'].tick + offset' /\ list[entry'].tick + offset' \in Nat
  <2>1. entry' \in Positions(list)
    BY <1>1, <1>3, EntryFacts
  <2>2. list[entry'].tick \in Nat
    BY <1>1, <2>1, EntryFacts DEF Entry
  <2>3. CASE list[entry].end_loop
    BY <1>1, <1>2, <1>3, <2>2, <2>3, TickFacts DEF EventTick
  <2>4. CASE ~ list[entry].end_loop
    BY <1>1, <1>2, <1>3, <2>2, <2>4, TickFacts DEF EventTick
  <2> QED BY <2>3, <2>4
<1>4. EventTick \in Nat /\ \A c \in Outstanding : c.seq \in Nat /\ c.tick \in Nat
  <2>1. EventTick \in Nat
    BY <1>1, <1>2 DEF EventTick
  <2>2. \A c \in Outstanding : c \in Cell
    BY DEF TypeOK, Outstanding
  <2> QED BY <2>1, <2>2 DEF Cell
<1>5. \A c \in Outstanding : c.seq < i /\ c.tick <= EventTick
  BY DEF OrderInv, Written, EventTick
<1> SUFFICES ASSUME NEW c \in Outstanding'
             PROVE  c.seq < i' /\ (entry' # NULL => c.tick <= list[entry'].tick + offset')
  BY <1>1 DEF Written
<1>6. CASE c \in Outstanding
  <2>1. c.seq < i'
    BY <1>1, <1>4, <1>5, <1>6
  <2> QED BY <1>3, <1>4, <1>5, <1>6, <2>1
<1>7. CASE c.tick = EventTick /\ c.seq < i'
  BY <1>3, <1>7
<1> QED BY <1>6, <1>7

LEMMA OutputOrderInv ==
  ASSUME TypeOK, OrderInv, OutputEvent \/ OutputMarkerAndEvent \/ OutputFails
  PROVE  OrderInv'
<1>1. /\ pc = "fill" /\ entry # NULL /\ i \in Nat /\ i < i + 1 /\ i + 1 < i + 2 /\ UNCHANGED pool
  BY DEF OutputEvent, OutputMarkerAndEvent, OutputFails, AdvanceEntry, MoreToOutput, TypeOK
<1> DEFINE m == MarkerCell(i, EventTick)
           e(s) == EventCell(s, entry, EventTick)
<1>2. /\ m.seq = i /\ m.tick = EventTick
      /\ \A s \in {i, i + 1} : e(s).seq = s /\ e(s).tick = EventTick
  BY DEF MarkerCell, EventCell
<1>3. CASE OutputEvent
  <2>1. outbuf' = outbuf \cup {e(i)} /\ i' = i + 1 /\ pc' = "fill" /\ AdvanceEntry
    BY <1>1, <1>3 DEF OutputEvent, AdvanceEntry
  <2> HIDE DEF m, e
  <2>2. /\ InTickOrder' /\ Distinct' /\ PoolFirst'
        /\ \A c \in Outstanding' : c \in Outstanding \/ c \in {e(i)}
    BY <1>1, <1>2, <2>1, AddCells
  <2>3. Written'
    BY <1>1, <1>2, <2>1, <2>2, AdvanceWritten
  <2> QED BY <2>1, <2>2, <2>3 DEF OrderInv, Playing
<1>4. CASE OutputMarkerAndEvent
  <2>1. outbuf' = outbuf \cup {m, e(i + 1)} /\ i' = i + 2 /\ pc' = "fill" /\ AdvanceEntry
    BY <1>1, <1>4 DEF OutputMarkerAndEvent, AdvanceEntry
  <2> HIDE DEF m, e
  <2> DEFINE N == {m, e(i + 1)}
  <2>4. /\ \A c \in N : c.tick = EventTick /\ c.seq \in {i, i + 1}
        /\ \A c, d \in N : c.seq = d.seq => c = d
    BY <1>1, <1>2
  <2>5. outbuf' = outbuf \cup N
    BY <2>1
  <2> HIDE DEF N
  <2>6. /\ InTickOrder' /\ Distinct' /\ PoolFirst'
        /\ \A c \in Outstanding' : c \in Outstanding \/ c \in N
    BY <1>1, <2>4, <2>5, AddCells
  <2>2. /\ InTickOrder' /\ Distinct' /\ PoolFirst'
        /\ \A c \in Outstanding' : c \in Outstanding \/ c \in {m, e(i + 1)}
    BY <2>6 DEF N
  <2>3. Written'
    BY <1>1, <1>2, <2>1, <2>2, AdvanceWritten
  <2> QED BY <2>1, <2>2, <2>3 DEF OrderInv, Playing
<1>5. CASE OutputFails
  <2>1. pc' = "clear" /\ (outbuf' = outbuf \cup {} \/ outbuf' = outbuf \cup {m})
    BY <1>5 DEF OutputFails, GiveUp
  <2> HIDE DEF m
  <2>3. PICK N : N \subseteq {m} /\ outbuf' = outbuf \cup N
    BY <2>1
  <2>4. /\ \A c \in N : c.tick = EventTick /\ c.seq \in {i, i + 1}
        /\ \A c, d \in N : c.seq = d.seq => c = d
    BY <1>2, <2>3
  <2>2. InTickOrder' /\ Distinct' /\ PoolFirst'
    BY <1>1, <2>3, <2>4, AddCells
  <2> QED BY <2>1, <2>2 DEF OrderInv, Playing
<1> QED BY <1>3, <1>4, <1>5

(* The steps that take away.                                               *)
LEMMA Shrinks ==
  ASSUME OrderInv, Outstanding' \subseteq Outstanding, UNCHANGED <<list, i, entry, offset>>
  PROVE  InTickOrder' /\ Distinct' /\ (Written => Written')
BY DEF OrderInv, InTickOrder, Distinct, Written

LEMMA TransportOrderInv ==
  ASSUME TypeOK, OrderInv, Flush \/ Deliver
  PROVE  OrderInv'
<1>1. /\ UNCHANGED <<list, pc, i, entry, offset, current, index>>
      /\ Playing' = Playing
  BY DEF Flush, Deliver, ctx, locals, Playing
<1>2. CASE Flush
  <2>1. PICK c \in outbuf : /\ \A d \in outbuf : c.seq <= d.seq
                            /\ outbuf' = outbuf \ {c} /\ pool' = pool \cup {c}
    BY <1>2 DEF Flush
  <2>2. Outstanding' = Outstanding
    BY <2>1 DEF Outstanding
  <2>3. PoolFirst'
    <3> SUFFICES ASSUME NEW b \in pool', NEW d \in outbuf',
                        b.type # "NOTEOFF", d.type # "NOTEOFF"
                 PROVE  b.seq < d.seq
      BY DEF PoolFirst
    <3>1. d \in outbuf /\ d # c /\ c \in Cell /\ d \in Cell
      BY <2>1 DEF TypeOK
    <3>2. CASE b \in pool
      BY <3>1, <3>2 DEF OrderInv, PoolFirst
    <3>3. CASE b = c
      <4>1. c \in Outstanding /\ d \in Outstanding
        BY <3>1, <3>3 DEF Outstanding
      <4>2. c.seq # d.seq /\ c.seq <= d.seq /\ c.seq \in Nat /\ d.seq \in Nat
        BY <2>1, <3>1, <4>1 DEF OrderInv, Distinct, Cell
      <4> QED BY <3>3, <4>2
    <3> QED BY <2>1, <3>2, <3>3
  <2>4. pc # "start"
    BY <1>2 DEF Flush
  <2> QED BY <1>1, <2>2, <2>3, <2>4, Shrinks DEF OrderInv
<1>3. CASE Deliver
  <2>1. PICK c \in pool : \/ DeliverNote(c) \/ DeliverNoteOff(c) \/ DeliverControl(c)
                          \/ DeliverToClient(c) \/ DeliverMarker(c)
    BY <1>3 DEF Deliver
  <2>2. UNCHANGED outbuf
    BY <1>3 DEF Deliver
  <2>3. \A d \in pool' : d \in pool \/ d.type = "NOTEOFF"
    BY <2>1 DEF DeliverNote, DeliverNoteOff, DeliverControl, DeliverToClient, DeliverMarker, NoteOff
  <2>4. Outstanding' \subseteq Outstanding /\ PoolFirst'
    BY <2>2, <2>3 DEF Outstanding, OrderInv, PoolFirst
  <2>5. pc = "start" => FALSE
    BY <2>1 DEF OrderInv
  <2> QED BY <1>1, <2>4, <2>5, Shrinks DEF OrderInv
<1> QED BY <1>2, <1>3

LEMMA ControlOrderInv ==
  ASSUME TypeOK, OrderInv,
         Start \/ StartFails \/ WriteBack \/ Flushed \/ FlushFails
         \/ InstallHandler \/ Arm \/ ArmFails \/ Check
         \/ PollInput \/ PollTimeout \/ PollError \/ PollFails
         \/ HandleUsr0 \/ HandleUsr1 \/ HandleTempo \/ BatchDone
         \/ ClearQueue \/ Return \/ Interrupt
  PROVE  OrderInv'
<1>1. CASE Start
  <2>1. pc = "start" /\ pc' = "fill" /\ UNCHANGED <<outbuf, pool>>
    BY <1>1 DEF Start, BeginDrain, queue
  <2>2. outbuf' = {} /\ pool' = {}
    BY <2>1 DEF OrderInv
  <2>3. Outstanding' = {}
    BY <2>2 DEF Outstanding
  <2> QED BY <2>1, <2>2, <2>3 DEF OrderInv, InTickOrder, Distinct, PoolFirst, Written, Playing
<1>2. CASE ClearQueue \/ Return \/ Interrupt \/ StartFails \/ FlushFails \/ ArmFails \/ PollFails
  <2>1. pool' \subseteq pool /\ outbuf' \subseteq outbuf /\ UNCHANGED <<list, entry, i, current, index, offset>>
    BY <1>2 DEF ClearQueue, Return, Interrupt, StartFails, FlushFails, ArmFails, PollFails,
                queue, ctx, locals
  <2>2. /\ pc' = "fill" => pc = "fill"
        /\ Playing' => Playing
        /\ pc' = "start" => pc = "start"
    BY <1>2 DEF ClearQueue, Return, Interrupt, StartFails, FlushFails, ArmFails, PollFails,
                GiveUp, Playing
  <2>3. Outstanding' \subseteq Outstanding /\ PoolFirst'
    BY <2>1 DEF Outstanding, OrderInv, PoolFirst
  <2> QED BY <2>1, <2>2, <2>3, Shrinks DEF OrderInv
<1>3. CASE \/ WriteBack \/ Flushed \/ InstallHandler \/ Arm \/ Check \/ PollInput \/ PollTimeout
           \/ PollError \/ HandleUsr0 \/ HandleTempo \/ BatchDone
           \/ HandleUsr1 /\ current = NULL
  <2>1. UNCHANGED <<list, outbuf, pool, offset, entry, i>>
    BY <1>3 DEF WriteBack, Flushed, InstallHandler, Arm, Check, PollInput, PollTimeout,
                PollError, HandleUsr0, HandleUsr1, HandleTempo, BatchDone, queue, ctx, locals
  <2>2. /\ pc' # "fill" /\ pc' # "start" /\ (pc = "fill" \/ Playing)
        /\ WriteBack \/ (Playing /\ UNCHANGED <<current, index>>)
    BY <1>3 DEF WriteBack, Flushed, InstallHandler, Arm, Check, PollInput, PollTimeout, PollError,
                HandleUsr0, HandleUsr1, HandleTempo, BatchDone, Handling, Playing, ctx
  <2>3. entry' = current' /\ i' = index'
    BY <2>1, <2>2 DEF WriteBack, OrderInv
  <2>4. Outstanding' = Outstanding /\ PoolFirst'
    BY <2>1 DEF Outstanding, OrderInv, PoolFirst
  <2> QED BY <2>1, <2>2, <2>3, <2>4, Shrinks DEF OrderInv
<1>4. CASE HandleUsr1 /\ current # NULL
  <2>1. /\ pc = "handle" /\ pc' = "fill" /\ entry' = current /\ i' = index
        /\ UNCHANGED <<list, outbuf, pool, offset>>
    BY <1>4 DEF HandleUsr1, Handling, BeginDrain, queue, ctx
  <2>2. UNCHANGED <<entry, i>>
    BY <2>1 DEF OrderInv, Playing
  <2>3. Outstanding' = Outstanding /\ PoolFirst' /\ Written
    BY <2>1 DEF Outstanding, OrderInv, PoolFirst, Playing
  <2> QED BY <2>1, <2>2, <2>3, Shrinks DEF OrderInv, Playing
<1> QED BY <1>1, <1>2, <1>3, <1>4

LEMMA InitOrderInv == Init => OrderInv
<1> SUFFICES ASSUME Init
             PROVE  OrderInv
  OBVIOUS
<1>1. pc = "start" /\ outbuf = {} /\ pool = {} /\ Outstanding = {}
  BY DEF Init, Outstanding
<1> QED BY <1>1 DEF OrderInv, InTickOrder, Distinct, PoolFirst, Playing

LEMMA StepOrderInv == TypeOK /\ OrderInv /\ [Step]_vars => OrderInv'
<1> SUFFICES ASSUME TypeOK, OrderInv, [Step]_vars
             PROVE  OrderInv'
  OBVIOUS
<1>1. CASE UNCHANGED vars
  BY <1>1 DEF vars, OrderInv, InTickOrder, Distinct, PoolFirst, Written, Playing, Outstanding
<1>2. CASE Step
  BY <1>2, OutputOrderInv, TransportOrderInv, ControlOrderInv DEF Step, Client, Failure
<1> QED BY <1>1, <1>2

(***************************************************************************)
(* Whatever batch or pass of the loop an event was written in, it leaves   *)
(* no sooner than those written before it.                                 *)
(***************************************************************************)
THEOREM LeavesInTickOrder == Spec => []InTickOrder
<1>1. OrderInv => InTickOrder
  BY DEF OrderInv
<1> QED BY <1>1, InitTypeOK, StepTypeOK, InitOrderInv, StepOrderInv, PTL DEF Spec

-------------------------------------------------------------------------------
(***************************************************************************)
(* The number.  There is never more than one USR1 that has not been        *)
(* handled; it stands QueueSize - DrainSize + 1 places before the end of   *)
(* what has been written, and what is on its way never reaches further     *)
(* back than QueueSize places.                                             *)
(***************************************************************************)
MarkIn(s) == {j \in 1 .. Len(s) : s[j].type = "USR1"}

OneMarker ==
  /\ \A c, d \in Markers : c = d
  /\ \A j, l \in MarkIn(inq) : j = l
  /\ \A j, l \in MarkIn(batch) : j = l
  /\ Markers # {} => MarkIn(inq) = {} /\ MarkIn(batch) = {}
  /\ MarkIn(inq) # {} => MarkIn(batch) = {}

MarkerAt(s) ==
  /\ \A c \in Markers : c.seq = s
  /\ \A j \in MarkIn(inq) : inq[j].seq = s
  /\ \A j \in MarkIn(batch) : batch[j].seq = s

(* A USR1 has left the queue before all that is still in it.               *)
MarkerFirst ==
  \A c \in Outstanding :
    /\ \A j \in MarkIn(inq) : inq[j].seq < c.seq
    /\ \A j \in MarkIn(batch) : batch[j].seq < c.seq

(* In the middle of a batch, before and after its USR1.                    *)
FillPoint ==
  /\ k <= n
  /\ ~ UnhandledMarker => (i % DrainSize) + n - k = QueueSize
  /\ UnhandledMarker => /\ (i % DrainSize) + n - k = QueueSize - DrainSize
                       /\ MarkerAt(i + n - k - QueueSize + DrainSize - 1)
  /\ \A c \in Outstanding : c.seq + QueueSize >= i + n - k

(* Between two batches.                                                    *)
PlayPoint ==
  /\ current # NULL => /\ index % DrainSize = QueueSize - DrainSize
                       /\ MarkerAt(index - QueueSize + DrainSize - 1)
  /\ \A c \in Outstanding : c.seq + QueueSize >= index

Window == \E lo \in Int : \A c \in Outstanding : lo <= c.seq /\ c.seq < lo + QueueSize

WindowInv ==
  /\ pc = "start" => index = 0 /\ ~ UnhandledMarker
  /\ pc = "fill" \/ Playing => OneMarker /\ MarkerFirst
  /\ pc = "fill" => FillPoint
  /\ Playing => PlayPoint
  /\ Window

LEMMA Unhandled == UnhandledMarker <=> Markers # {} \/ MarkIn(inq) # {} \/ MarkIn(batch) # {}
BY DEF UnhandledMarker, MarkIn

LEMMA ModTwo ==
  ASSUME NEW d \in Nat, d >= 2, NEW a \in Nat, a % d = d - 1
  PROVE  (a + 2) % d = 1
<1> DEFINE q == a \div d
<1>1. q \in Nat /\ a = d * q + (d - 1)
  OBVIOUS
<1>2. a + 2 = d * (q + 1) + 1
  BY <1>1
<1>3. (d * (q + 1) + 1) % d = 1
  <2> HIDE DEF q
  <2>1. q + 1 \in Nat
    BY <1>1
  <2>2. \A b \in Nat : (d * b + 1) % d = 1
    OBVIOUS
  <2> QED BY <2>1, <2>2
<1> QED BY <1>2, <1>3

(* What the numbers in the middle of a batch amount to.                    *)
LEMMA FillFacts ==
  ASSUME TypeOK, pc = "fill", FillPoint
  PROVE  /\ {i, n, k, i % DrainSize, QueueSize, DrainSize} \subseteq Nat
         /\ i % DrainSize < DrainSize
         /\ DrainSize < QueueSize /\ QueueSize < 2 * DrainSize /\ 2 <= DrainSize
         /\ n - k <= QueueSize
         /\ i + n - k - QueueSize + DrainSize - 1 < i \/ ~ UnhandledMarker
<1>1. {i, n, k, i % DrainSize, QueueSize, DrainSize} \subseteq Nat /\ i % DrainSize < DrainSize
  BY SizesAssumption DEF TypeOK
<1> QED BY <1>1, SizesAssumption DEF FillPoint

LEMMA FillWindow ==
  ASSUME TypeOK, pc = "fill", FillPoint, Written
  PROVE  Window
<1> DEFINE lo == i + n - k - QueueSize
<1>1. lo \in Int /\ \A c \in Outstanding : c.seq \in Nat
  BY FillFacts DEF TypeOK, Outstanding, Cell
<1>2. \A c \in Outstanding : lo <= c.seq /\ c.seq < lo + QueueSize
  BY <1>1, FillFacts DEF FillPoint, Written
<1> QED BY <1>1, <1>2 DEF Window

LEMMA OutputWindowInv ==
  ASSUME TypeOK, OrderInv, WindowInv, Written', OutputEvent
  PROVE  WindowInv'
<1> DEFINE e == EventCell(i, entry, EventTick)
<1>1. /\ pc = "fill" /\ pc' = "fill" /\ k < n /\ entry # NULL /\ list \in Pieces
      /\ i' = i + 1 /\ k' = k + 1 /\ n' = n /\ outbuf' = outbuf \cup {e}
      /\ UNCHANGED <<pool, inq, batch, list>>
  BY DEF OutputEvent, AdvanceEntry, MoreToOutput, input, TypeOK
<1>2. /\ {i, n, k, i % DrainSize, QueueSize, DrainSize} \subseteq Nat
      /\ n - k <= QueueSize
      /\ i + n - k - QueueSize + DrainSize - 1 < i \/ ~ UnhandledMarker
  BY <1>1, FillFacts DEF WindowInv
<1>3. (i + 1) % DrainSize = (i % DrainSize) + 1
  <2>1. i % DrainSize # DrainSize - 1
    BY DEF OutputEvent, MarkerDue
  <2>2. i \in Nat /\ DrainSize \in Nat /\ DrainSize > 0
    BY SizesAssumption DEF TypeOK
  <2> QED BY <2>1, <2>2, ModSucc
<1>4. e.seq = i /\ e.type # "USR1" /\ e.type # "NOTEOFF"
  <2>1. list[entry].type \in EventType
    BY <1>1, EntryFacts DEF TypeOK, Entry
  <2> QED BY <2>1 DEF EventCell, EventType
<1> HIDE DEF e
<1>5. Markers' = Markers /\ Outstanding' = Outstanding \cup {e}
  BY <1>1, <1>4 DEF Markers, Outstanding
<1>6. /\ UnhandledMarker' = UnhandledMarker /\ OneMarker'
      /\ MarkIn(inq)' = MarkIn(inq) /\ MarkIn(batch)' = MarkIn(batch)
  BY <1>1, <1>5 DEF UnhandledMarker, WindowInv, OneMarker, MarkIn
<1>7. i' + n' - k' = i + n - k /\ (i' % DrainSize) + n' - k' = (i % DrainSize) + n - k /\ k' <= n'
  BY <1>1, <1>2, <1>3
<1>8. FillPoint'
  <2>1. ASSUME UnhandledMarker
        PROVE  MarkerAt(i + n - k - QueueSize + DrainSize - 1)'
    <3>1. MarkerAt(i + n - k - QueueSize + DrainSize - 1)
      BY <1>1, <2>1 DEF WindowInv, FillPoint
    <3>2. i' + n' - k' - QueueSize + DrainSize - 1 = i + n - k - QueueSize + DrainSize - 1
      BY <1>1, <1>2
    <3> QED BY <1>1, <1>5, <1>6, <3>1, <3>2 DEF MarkerAt
  <2>2. e.seq + QueueSize >= i + n - k
    BY <1>2, <1>4
  <2>3. \A c \in Outstanding' : c.seq + QueueSize >= i + n - k
    BY <1>1, <1>5, <2>2 DEF WindowInv, FillPoint
  <2> QED BY <1>1, <1>6, <1>7, <2>1, <2>3 DEF WindowInv, FillPoint
<1>9. MarkerFirst'
  <2>1. ASSUME NEW j \in MarkIn(inq)
        PROVE  inq[j].seq < e.seq
    <3>1. UnhandledMarker
      BY <2>1, Unhandled
    <3>2. inq[j].seq = i + n - k - QueueSize + DrainSize - 1
      BY <1>1, <2>1, <3>1 DEF WindowInv, FillPoint, MarkerAt
    <3> QED BY <1>2, <1>4, <3>1, <3>2
  <2>2. ASSUME NEW j \in MarkIn(batch)
        PROVE  batch[j].seq < e.seq
    <3>1. UnhandledMarker
      BY <2>2, Unhandled
    <3>2. batch[j].seq = i + n - k - QueueSize + DrainSize - 1
      BY <1>1, <2>2, <3>1 DEF WindowInv, FillPoint, MarkerAt
    <3> QED BY <1>2, <1>4, <3>1, <3>2
  <2> QED BY <1>1, <1>5, <1>6, <2>1, <2>2 DEF WindowInv, MarkerFirst
<1>10. TypeOK'
  BY DrainTypeOK
<1>11. Window'
  <2> DEFINE lo == i + n - k - QueueSize
  <2>1. lo \in Int /\ \A c \in Outstanding' : c.seq \in Nat
    <3>1. \A c \in Outstanding' : c \in Cell
      BY <1>10 DEF TypeOK, Outstanding
    <3> QED BY <1>2, <3>1 DEF Cell
  <2>2. \A c \in Outstanding' : lo <= c.seq /\ c.seq < lo + QueueSize
    BY <1>1, <1>2, <1>7, <1>8, <2>1 DEF FillPoint, Written
  <2> QED BY <2>1, <2>2 DEF Window
<1> QED BY <1>1, <1>6, <1>8, <1>9, <1>11 DEF WindowInv, Playing

LEMMA MarkerWindowInv ==
  ASSUME TypeOK, OrderInv, WindowInv, Written', OutputMarkerAndEvent
  PROVE  WindowInv'
<1> DEFINE m == MarkerCell(i, EventTick)
           e == EventCell(i + 1, entry, EventTick)
<1>1. /\ pc = "fill" /\ pc' = "fill" /\ k < n /\ entry # NULL /\ list \in Pieces
      /\ i' = i + 2 /\ k' = k + 2 /\ n' = n /\ outbuf' = outbuf \cup {m, e}
      /\ i % DrainSize = DrainSize - 1
      /\ UNCHANGED <<pool, inq, batch, list>>
  BY DEF OutputMarkerAndEvent, AdvanceEntry, MoreToOutput, MarkerDue, input, TypeOK
<1>2. /\ {i, n, k, i % DrainSize, QueueSize, DrainSize} \subseteq Nat
      /\ DrainSize < QueueSize /\ QueueSize < 2 * DrainSize /\ 2 <= DrainSize
  BY <1>1, FillFacts DEF WindowInv
<1>3. (i + 2) % DrainSize = 1
  BY <1>1, <1>2, ModTwo
<1>4. /\ m.seq = i /\ m.type = "USR1"
      /\ e.seq = i + 1 /\ e.type # "USR1" /\ e.type # "NOTEOFF"
  <2>1. list[entry].type \in EventType
    BY <1>1, EntryFacts DEF TypeOK, Entry
  <2> QED BY <2>1 DEF EventCell, MarkerCell, EventType
<1> HIDE DEF m, e
<1>5. ~ UnhandledMarker /\ n - k = QueueSize - DrainSize + 1
  <2>1. ASSUME UnhandledMarker
        PROVE  FALSE
    BY <1>1, <1>2, <2>1 DEF WindowInv, FillPoint
  <2> QED BY <1>1, <1>2, <2>1 DEF WindowInv, FillPoint
<1>6. Markers = {} /\ MarkIn(inq) = {} /\ MarkIn(batch) = {}
  BY <1>5, Unhandled
<1>7. Markers' = {m} /\ MarkIn(inq)' = {} /\ MarkIn(batch)' = {} /\ Outstanding' = Outstanding \cup {m, e}
  BY <1>1, <1>4, <1>6 DEF Markers, Outstanding, MarkIn
<1>8. OneMarker' /\ MarkerFirst' /\ UnhandledMarker'
  BY <1>7 DEF OneMarker, MarkerFirst, UnhandledMarker
<1>9. /\ k' <= n' /\ i' + n' - k' = i + n - k
      /\ (i' % DrainSize) + n' - k' = QueueSize - DrainSize
      /\ i' + n' - k' - QueueSize + DrainSize - 1 = i
  <2>1. i' % DrainSize = 1
    BY <1>1, <1>3
  <2> QED BY <1>1, <1>2, <1>5, <2>1
<1>10. FillPoint'
  <2>1. \A c \in Outstanding' : c.seq + QueueSize >= i + n - k
    BY <1>1, <1>2, <1>4, <1>5, <1>7 DEF WindowInv, FillPoint
  <2>2. MarkerAt(i + n - k - QueueSize + DrainSize - 1)'
    BY <1>4, <1>7, <1>9 DEF MarkerAt
  <2> QED BY <1>8, <1>9, <2>1, <2>2 DEF FillPoint
<1>11. TypeOK'
  BY DrainTypeOK
<1>12. Window'
  <2> DEFINE lo == i + n - k - QueueSize
  <2>1. lo \in Int /\ \A c \in Outstanding' : c.seq \in Nat
    <3>1. \A c \in Outstanding' : c \in Cell
      BY <1>11 DEF TypeOK, Outstanding
    <3> QED BY <1>2, <3>1 DEF Cell
  <2>2. \A c \in Outstanding' : lo <= c.seq /\ c.seq < lo + QueueSize
    <3>1. \A c \in Outstanding' : c.seq + QueueSize >= i + n - k /\ c.seq < i'
      BY <1>9, <1>10 DEF FillPoint, Written
    <3>2. i' <= i + n - k
      BY <1>1, <1>2, <1>5
    <3>3. i' \in Nat /\ i + n - k \in Int
      BY <1>1, <1>2
    <3> HIDE DEF Outstanding
    <3> QED BY <1>2, <2>1, <3>1, <3>2, <3>3
  <2> QED BY <2>1, <2>2 DEF Window
<1> QED BY <1>1, <1>8, <1>10, <1>12 DEF WindowInv, Playing

LEMMA FailWindowInv ==
  ASSUME TypeOK, OrderInv, WindowInv, OutputFails
  PROVE  WindowInv'
<1> DEFINE m == MarkerCell(i, EventTick)
<1>1. /\ pc = "fill" /\ pc' = "clear" /\ k < n /\ FillPoint /\ Written
      /\ outbuf' = outbuf \/ outbuf' = outbuf \cup {m}
      /\ UNCHANGED pool
  BY DEF OutputFails, GiveUp, MoreToOutput, OrderInv, WindowInv
<1>2. {i, n, k, QueueSize} \subseteq Nat /\ n - k <= QueueSize
  BY <1>1, FillFacts
<1>3. m.seq = i
  BY DEF MarkerCell
<1> HIDE DEF m
<1>4. \A c \in Outstanding' : c \in Outstanding \/ c = m
  BY <1>1 DEF Outstanding
<1>5. Window'
  <2> DEFINE lo == i + n - k - QueueSize
  <2>1. lo \in Int /\ \A c \in Outstanding : c.seq \in Nat
    BY <1>2 DEF TypeOK, Outstanding, Cell
  <2>2. \A c \in Outstanding : lo <= c.seq /\ c.seq < lo + QueueSize
    BY <1>1, <1>2, <2>1 DEF FillPoint, Written
  <2>3. lo <= m.seq /\ m.seq < lo + QueueSize
    BY <1>1, <1>2, <1>3
  <2> QED BY <1>4, <2>1, <2>2, <2>3 DEF Window
<1> QED BY <1>1, <1>5 DEF WindowInv, Playing

(* The steps that move a USR1 without handling it, or handle another event.*)
MarkersKept ==
  /\ OneMarker' /\ MarkerFirst'
  /\ UnhandledMarker' = UnhandledMarker
  /\ \A s \in Int : MarkerAt(s) => MarkerAt(s)'

LEMMA KeptWindowInv ==
  ASSUME TypeOK, WindowInv, Outstanding' \subseteq Outstanding,
         UNCHANGED <<i, n, k, index, current>>,
         pc' = "start" => pc = "start" /\ UNCHANGED <<outbuf, pool, inq, batch>>,
         pc' = "fill" => pc = "fill" /\ MarkersKept,
         Playing' => Playing /\ MarkersKept
  PROVE  WindowInv'
<1>1. Window'
  BY DEF WindowInv, Window
<1>2. {i, n, k, index, QueueSize, DrainSize} \subseteq Nat
  BY SizesAssumption DEF TypeOK
<1>3. CASE pc' = "fill"
  <2>1. /\ pc = "fill" /\ OneMarker' /\ MarkerFirst' /\ UnhandledMarker' = UnhandledMarker
        /\ i + n - k - QueueSize + DrainSize - 1 \in Int
        /\ \A s \in Int : MarkerAt(s) => MarkerAt(s)'
    BY <1>2, <1>3 DEF MarkersKept
  <2>2. FillPoint'
    <3>1. FillPoint
      BY <2>1 DEF WindowInv
    <3>2. UnhandledMarker => MarkerAt(i + n - k - QueueSize + DrainSize - 1)'
      BY <2>1, <3>1 DEF FillPoint
    <3>3. \A c \in Outstanding' : c.seq + QueueSize >= i + n - k
      BY <3>1 DEF FillPoint
    <3> QED BY <2>1, <3>1, <3>2, <3>3 DEF FillPoint
  <2> QED BY <1>1, <1>3, <2>1, <2>2 DEF WindowInv, Playing
<1>4. CASE Playing'
  <2>1. /\ Playing /\ OneMarker' /\ MarkerFirst'
        /\ index - QueueSize + DrainSize - 1 \in Int
        /\ \A s \in Int : MarkerAt(s) => MarkerAt(s)'
    BY <1>2, <1>4 DEF MarkersKept
  <2>2. PlayPoint'
    <3>1. PlayPoint
      BY <2>1 DEF WindowInv
    <3>2. current # NULL => MarkerAt(index - QueueSize + DrainSize - 1)'
      BY <2>1, <3>1 DEF PlayPoint
    <3> QED BY <2>1, <3>1, <3>2 DEF PlayPoint
  <2> QED BY <1>1, <1>4, <2>1, <2>2 DEF WindowInv, Playing
<1>5. CASE pc' = "start"
  BY <1>1, <1>5 DEF WindowInv, Playing, UnhandledMarker, Markers
<1>6. CASE pc' \notin {"start", "fill"} /\ ~ Playing'
  BY <1>1, <1>6 DEF WindowInv
<1> QED BY <1>3, <1>4, <1>5, <1>6

(* Nothing happens to the markers.                                         *)
LEMMA SameMarkers ==
  ASSUME OneMarker, MarkerFirst, Markers' = Markers, Outstanding' \subseteq Outstanding,
         UNCHANGED <<inq, batch>>
  PROVE  MarkersKept
<1>1. MarkIn(inq)' = MarkIn(inq) /\ MarkIn(batch)' = MarkIn(batch)
  BY DEF MarkIn
<1>2. UnhandledMarker' = UnhandledMarker
  BY DEF UnhandledMarker
<1>3. OneMarker' /\ MarkerFirst'
  BY <1>1 DEF OneMarker, MarkerFirst
<1>4. \A s \in Int : MarkerAt(s) => MarkerAt(s)'
  BY <1>1 DEF MarkerAt
<1> QED BY <1>2, <1>3, <1>4 DEF MarkersKept

(* The kernel delivers a USR1 before all that was written after it, and    *)
(* all that was written before it first.                                   *)
LEMMA DueFirst ==
  ASSUME TypeOK, OrderInv, NEW c \in pool, Due(c), c.type # "NOTEOFF",
         NEW d \in Outstanding, d # c
  PROVE  c.seq < d.seq
<1>1. c \in Outstanding /\ c.seq \in Nat /\ d.seq \in Nat /\ c.tick \in Nat /\ d.tick \in Nat
  <2>1. c \in Outstanding /\ c \in Cell /\ d \in Cell
    BY DEF Outstanding, TypeOK
  <2> QED BY <2>1 DEF Cell
<1>2. d.type # "NOTEOFF" /\ (d \in outbuf \/ d \in pool) /\ c.seq # d.seq
  BY <1>1 DEF Outstanding, OrderInv, Distinct
<1>3. CASE d \in outbuf
  BY <1>2, <1>3 DEF OrderInv, PoolFirst
<1>4. CASE d \in pool
  <2>1. ~ Before(d, c)
    BY <1>4 DEF Due
  <2>2. ~ (d.seq < c.seq)
    <3>1. SUFFICES ASSUME d.seq < c.seq
                   PROVE  FALSE
      OBVIOUS
    <3>2. d.tick <= c.tick
      BY <1>1, <3>1 DEF OrderInv, InTickOrder
    <3> QED BY <1>1, <1>2, <2>1, <3>1, <3>2 DEF Before
  <2> QED BY <1>1, <1>2, <2>2
<1> QED BY <1>2, <1>3, <1>4

LEMMA DeliverMarkersKept ==
  ASSUME TypeOK, OrderInv, OneMarker, MarkerFirst, Deliver
  PROVE  MarkersKept /\ Outstanding' \subseteq Outstanding
<1>1. PICK c \in pool : \/ DeliverNote(c) \/ DeliverNoteOff(c) \/ DeliverControl(c)
                        \/ DeliverToClient(c) \/ DeliverMarker(c)
  BY DEF Deliver
<1>2. /\ UNCHANGED <<outbuf, batch>> /\ inq \in Seq(Cell) /\ c \in Cell
  BY DEF Deliver, TypeOK
<1>3. CASE ~ DeliverMarker(c)
  <2>1. /\ c.type # "USR1"
        /\ inq' = inq \/ inq' = Append(inq, c)
        /\ \/ pool' = (pool \ {c}) \cup {NoteOff(c)}
           \/ pool' = pool \ {c}
    BY <1>1, <1>3 DEF DeliverNote, DeliverNoteOff, DeliverControl, DeliverToClient
  <2>2. NoteOff(c).type = "NOTEOFF"
    BY DEF NoteOff
  <2>3. Markers' = Markers /\ Outstanding' \subseteq Outstanding
    BY <1>2, <2>1, <2>2 DEF Markers, Outstanding
  <2>4. MarkIn(inq)' = MarkIn(inq) /\ \A j \in MarkIn(inq) : inq'[j] = inq[j]
    <3>1. CASE inq' = inq
      BY <3>1 DEF MarkIn
    <3>2. CASE inq' = Append(inq, c)
      <4>1. /\ Len(inq') = Len(inq) + 1 /\ Len(inq) \in Nat /\ inq'[Len(inq) + 1] = c
            /\ \A j \in 1 .. Len(inq) : inq'[j] = inq[j]
        BY <1>2, <3>2
      <4> QED BY <2>1, <4>1 DEF MarkIn
    <3> QED BY <2>1, <3>1, <3>2
  <2>5. MarkIn(batch)' = MarkIn(batch)
    BY <1>2 DEF MarkIn
  <2>6. UnhandledMarker' = UnhandledMarker
    <3>1. UnhandledMarker' <=> Markers' # {} \/ MarkIn(inq)' # {} \/ MarkIn(batch)' # {}
      BY DEF UnhandledMarker, MarkIn
    <3> QED BY <2>3, <2>4, <2>5, <3>1, Unhandled DEF UnhandledMarker
  <2>7. OneMarker'
    BY <2>3, <2>4, <2>5 DEF OneMarker
  <2>8. MarkerFirst'
    BY <1>2, <2>3, <2>4, <2>5 DEF MarkerFirst
  <2>9. \A s \in Int : MarkerAt(s) => MarkerAt(s)'
    BY <1>2, <2>3, <2>4, <2>5 DEF MarkerAt
  <2> QED BY <2>3, <2>6, <2>7, <2>8, <2>9 DEF MarkersKept
<1>4. CASE DeliverMarker(c)
  <2>1. Due(c) /\ c.type = "USR1" /\ pool' = pool \ {c} /\ inq' = Append(inq, c)
    BY <1>4 DEF DeliverMarker
  <2>2. c \in Markers /\ c \in Outstanding /\ c \notin outbuf
    <3>1. c.seq \in Nat
      BY <1>2 DEF Cell
    <3> QED BY <2>1, <3>1 DEF Markers, Outstanding, OrderInv, PoolFirst
  <2>3. Markers = {c} /\ MarkIn(inq) = {} /\ MarkIn(batch) = {}
    BY <2>2 DEF OneMarker
  <2>4. Markers' = {} /\ Outstanding' = Outstanding \ {c}
    BY <1>2, <2>1, <2>2, <2>3 DEF Markers, Outstanding
  <2>5. /\ Len(inq') = Len(inq) + 1 /\ Len(inq) \in Nat /\ inq'[Len(inq) + 1] = c
        /\ \A j \in 1 .. Len(inq) : inq'[j] = inq[j]
    BY <1>2, <2>1
  <2>6. MarkIn(inq)' = {Len(inq) + 1} /\ MarkIn(batch)' = {}
    BY <1>2, <2>1, <2>3, <2>5 DEF MarkIn
  <2>7. UnhandledMarker' /\ UnhandledMarker
    BY <2>2, <2>5, <2>1 DEF UnhandledMarker
  <2>8. OneMarker'
    BY <2>4, <2>6 DEF OneMarker
  <2>9. MarkerFirst'
    BY <2>1, <2>4, <2>5, <2>6, DueFirst DEF MarkerFirst
  <2>10. \A s \in Int : MarkerAt(s) => MarkerAt(s)'
    BY <2>3, <2>4, <2>5, <2>6 DEF MarkerAt
  <2> QED BY <2>4, <2>7, <2>8, <2>9, <2>10 DEF MarkersKept, UnhandledMarker
<1> QED BY <1>3, <1>4

LEMMA TransportWindowInv ==
  ASSUME TypeOK, OrderInv, WindowInv, BatchHandled, Flush \/ Deliver \/ PollInput
  PROVE  WindowInv'
<1>1. CASE Flush
  <2>1. /\ pc = "flush" /\ pc' = "flush"
        /\ UNCHANGED <<i, n, k, index, current, inq, batch>>
        /\ outbuf' \cup pool' = outbuf \cup pool
    BY <1>1 DEF Flush, ctx, locals, input
  <2>2. Markers' = Markers /\ Outstanding' = Outstanding
    BY <2>1 DEF Markers, Outstanding
  <2>3. MarkersKept
    BY <2>1, <2>2, SameMarkers DEF WindowInv, Playing
  <2> QED BY <2>1, <2>2, <2>3, KeptWindowInv DEF Playing
<1>2. CASE Deliver
  <2>1. UNCHANGED <<pc, i, n, k, index, current>> /\ pool # {}
    BY <1>2 DEF Deliver, ctx, locals
  <2>2. pc # "start"
    BY <2>1 DEF OrderInv
  <2>3. Outstanding' \subseteq Outstanding
    <3>1. PICK c \in pool : \/ DeliverNote(c) \/ DeliverNoteOff(c) \/ DeliverControl(c)
                            \/ DeliverToClient(c) \/ DeliverMarker(c)
      BY <1>2 DEF Deliver
    <3>2. \A d \in pool' : d \in pool \/ d.type = "NOTEOFF"
      BY <3>1 DEF DeliverNote, DeliverNoteOff, DeliverControl, DeliverToClient, DeliverMarker, NoteOff
    <3>3. UNCHANGED outbuf
      BY <1>2 DEF Deliver
    <3> QED BY <3>2, <3>3 DEF Outstanding
  <2>4. CASE pc = "fill" \/ Playing
    <3>1. MarkersKept
      BY <1>2, <2>4, DeliverMarkersKept DEF WindowInv
    <3> QED BY <2>1, <2>2, <2>3, <3>1, KeptWindowInv DEF Playing
  <2>5. CASE pc # "fill" /\ ~ Playing
    <3>1. pc' # "fill" /\ ~ Playing' /\ pc' # "start"
      BY <2>1, <2>2, <2>5 DEF Playing
    <3> QED BY <2>1, <2>3, <3>1, KeptWindowInv
  <2> QED BY <2>4, <2>5
<1>3. CASE PollInput
  <2>1. /\ pc = "poll" /\ pc' = "handle" /\ batch = << >> /\ batch' = inq /\ inq' = << >>
        /\ UNCHANGED <<i, n, k, index, current, outbuf, pool>>
    BY <1>3 DEF PollInput, BatchHandled, ctx, locals, queue
  <2>2. Markers' = Markers /\ Outstanding' = Outstanding
    BY <2>1 DEF Markers, Outstanding
  <2>3. MarkIn(inq)' = {} /\ MarkIn(batch)' = MarkIn(inq) /\ MarkIn(batch) = {}
    BY <2>1 DEF MarkIn
  <2>4. UnhandledMarker' = UnhandledMarker
    BY <2>1, <2>2 DEF UnhandledMarker
  <2>5. OneMarker /\ MarkerFirst
    BY <2>1 DEF WindowInv, Playing
  <2>6. OneMarker' /\ MarkerFirst'
    BY <2>1, <2>2, <2>3, <2>5 DEF OneMarker, MarkerFirst
  <2>7. \A s \in Int : MarkerAt(s) => MarkerAt(s)'
    BY <2>1, <2>2, <2>3 DEF MarkerAt
  <2>8. MarkersKept
    BY <2>4, <2>6, <2>7 DEF MarkersKept
  <2> QED BY <2>1, <2>2, <2>8, KeptWindowInv DEF Playing
<1> QED BY <1>1, <1>2, <1>3

(* The first event of the fetched batch is handled.                        *)
LEMMA DropHead ==
  ASSUME TypeOK, OneMarker, MarkerFirst, NEW type, Handling(type), UNCHANGED <<outbuf, pool>>
  PROVE  /\ OneMarker' /\ MarkerFirst'
         /\ type # "USR1" => MarkersKept
         /\ type = "USR1" => /\ ~ UnhandledMarker' /\ 1 \in MarkIn(batch)
                            /\ \A c \in Outstanding : batch[1].seq < c.seq
<1>1. /\ batch \in Seq(Cell) /\ batch # << >> /\ batch' = Tail(batch) /\ inq' = inq
      /\ batch[1].type = type
  BY DEF Handling, TypeOK
<1>2. /\ Len(batch) \in Nat /\ Len(batch) >= 1 /\ Len(batch') = Len(batch) - 1
      /\ \A j \in 1 .. Len(batch') : j + 1 \in 1 .. Len(batch) /\ batch'[j] = batch[j + 1]
  BY <1>1
<1>3. Markers' = Markers /\ Outstanding' = Outstanding /\ MarkIn(inq)' = MarkIn(inq)
  BY <1>1 DEF Markers, Outstanding, MarkIn
<1>4. \A j \in MarkIn(batch)' : j \in Nat /\ j + 1 \in MarkIn(batch) /\ batch'[j] = batch[j + 1]
  BY <1>2 DEF MarkIn
<1>5. OneMarker'
  <2>1. \A j, l \in MarkIn(batch)' : j = l
    <3> SUFFICES ASSUME NEW j \in MarkIn(batch)', NEW l \in MarkIn(batch)'
                 PROVE  j = l
      OBVIOUS
    <3>1. j + 1 = l + 1 /\ j \in Nat /\ l \in Nat
      BY <1>4 DEF OneMarker
    <3> QED BY <3>1
  <2>2. MarkIn(batch) = {} => MarkIn(batch)' = {}
    BY <1>4
  <2> QED BY <1>3, <2>1, <2>2 DEF OneMarker
<1>6. MarkerFirst'
  BY <1>1, <1>3, <1>4 DEF MarkerFirst
<1>7. ASSUME type # "USR1"
      PROVE  MarkersKept
  <2>1. \A j \in MarkIn(batch) : j - 1 \in MarkIn(batch)'
    <3> SUFFICES ASSUME NEW j \in MarkIn(batch)
                 PROVE  j - 1 \in MarkIn(batch)'
      OBVIOUS
    <3>1. j \in 1 .. Len(batch) /\ batch[j].type = "USR1" /\ j # 1
      BY <1>1, <1>7 DEF MarkIn
    <3>2. j - 1 \in 1 .. Len(batch') /\ (j - 1) + 1 = j
      BY <1>2, <3>1
    <3>3. batch'[j - 1] = batch[j]
      BY <1>2, <3>2
    <3> QED BY <3>1, <3>2, <3>3 DEF MarkIn
  <2>2. MarkIn(batch) # {} <=> MarkIn(batch)' # {}
    BY <1>4, <2>1
  <2>3. UnhandledMarker' <=> Markers' # {} \/ MarkIn(inq)' # {} \/ MarkIn(batch)' # {}
    BY DEF UnhandledMarker, MarkIn
  <2>4. UnhandledMarker' = UnhandledMarker
    BY <1>3, <2>2, <2>3, Unhandled DEF UnhandledMarker
  <2>5. \A s \in Int : MarkerAt(s) => MarkerAt(s)'
    BY <1>1, <1>3, <1>4 DEF MarkerAt
  <2> QED BY <1>5, <1>6, <2>4, <2>5 DEF MarkersKept
<1>8. ASSUME type = "USR1"
      PROVE  /\ ~ UnhandledMarker' /\ 1 \in MarkIn(batch)
             /\ \A c \in Outstanding : batch[1].seq < c.seq
  <2>1. 1 \in MarkIn(batch)
    BY <1>1, <1>2, <1>8 DEF MarkIn
  <2>2. Markers = {} /\ MarkIn(inq) = {}
    BY <2>1 DEF OneMarker
  <2>3. MarkIn(batch)' = {}
    <3>1. \A j \in MarkIn(batch)' : j + 1 = 1 /\ j \in Nat /\ j \in 1 .. Len(batch')
      BY <1>4, <2>1 DEF OneMarker, MarkIn
    <3>2. \A j \in MarkIn(batch)' : FALSE
      BY <3>1
    <3> QED BY <3>2
  <2>4. ~ UnhandledMarker'
    BY <1>3, <2>2, <2>3 DEF UnhandledMarker, MarkIn
  <2> QED BY <2>1, <2>4 DEF MarkerFirst
<1> QED BY <1>5, <1>6, <1>7, <1>8

LEMMA HandleWindowInv ==
  ASSUME TypeOK, OrderInv, WindowInv, HandleUsr0 \/ HandleUsr1 \/ HandleTempo
  PROVE  WindowInv'
<1>1. /\ pc = "handle" /\ OneMarker /\ MarkerFirst /\ PlayPoint
      /\ UNCHANGED <<outbuf, pool, index, current>>
  BY DEF HandleUsr0, HandleUsr1, HandleTempo, Handling, WindowInv, Playing, queue, ctx
<1>2. Outstanding' = Outstanding
  BY <1>1 DEF Outstanding
<1>3. CASE HandleUsr0 \/ HandleTempo
  <2>1. UNCHANGED <<pc, i, n, k>> /\ (Handling("USR0") \/ Handling("TEMPO"))
    BY <1>3 DEF HandleUsr0, HandleTempo, locals
  <2>2. MarkersKept
    BY <1>1, <2>1, DropHead
  <2> QED BY <1>1, <1>2, <2>1, <2>2, KeptWindowInv DEF Playing
<1>4. CASE HandleUsr1
  <2>1. /\ OneMarker' /\ MarkerFirst' /\ ~ UnhandledMarker' /\ 1 \in MarkIn(batch)
        /\ \A c \in Outstanding : batch[1].seq < c.seq
    BY <1>1, <1>4, DropHead DEF HandleUsr1
  <2>2. Window'
    BY <1>2 DEF WindowInv, Window
  <2>3. CASE current = NULL
    <3>1. pc' = "handle"
      BY <1>1, <1>4, <2>3 DEF HandleUsr1
    <3>2. PlayPoint'
      BY <1>1, <1>2, <2>3 DEF PlayPoint
    <3> QED BY <2>1, <2>2, <3>1, <3>2 DEF WindowInv, Playing
  <2>4. CASE current # NULL
    <3>1. pc' = "fill" /\ i' = index /\ k' = 0 /\ n' = DrainSize
      BY <1>4, <2>4 DEF HandleUsr1, BeginDrain
    <3>2. /\ index % DrainSize = QueueSize - DrainSize
          /\ batch[1].seq = index - QueueSize + DrainSize - 1
      BY <1>1, <2>1, <2>4 DEF PlayPoint, MarkerAt
    <3>3. index \in Nat /\ QueueSize \in Nat /\ DrainSize \in Nat
          /\ \A c \in Outstanding : c.seq \in Nat
      <4>1. \A c \in Outstanding : c \in Cell
        BY DEF TypeOK, Outstanding
      <4> QED BY <4>1, SizesAssumption DEF TypeOK, Cell
    <3>4. FillPoint'
      <4>1. k' <= n' /\ (i' % DrainSize) + n' - k' = QueueSize /\ i' + n' - k' = index + DrainSize
        BY <3>1, <3>2, <3>3
      <4>2. \A c \in Outstanding' : c.seq + QueueSize >= index + DrainSize
        BY <1>2, <2>1, <3>2, <3>3
      <4> QED BY <2>1, <4>1, <4>2 DEF FillPoint
    <3> QED BY <2>1, <2>2, <3>1, <3>4 DEF WindowInv, Playing
  <2> QED BY <2>3, <2>4
<1> QED BY <1>3, <1>4

LEMMA ControlWindowInv ==
  ASSUME TypeOK, OrderInv, WindowInv,
         Start \/ StartFails \/ WriteBack \/ Flushed \/ FlushFails
         \/ InstallHandler \/ Arm \/ ArmFails \/ Check
         \/ PollTimeout \/ PollError \/ PollFails \/ BatchDone
         \/ ClearQueue \/ Return \/ Interrupt
  PROVE  WindowInv'
<1>1. CASE Start
  <2>1. /\ pc = "start" /\ pc' = "fill" /\ i' = index /\ k' = 0 /\ n' = QueueSize
        /\ UNCHANGED <<outbuf, pool, inq, batch>>
    BY <1>1 DEF Start, BeginDrain, queue, input
  <2>2. i' = 0 /\ ~ UnhandledMarker' /\ Outstanding' = {} /\ Markers' = {}
    BY <2>1 DEF WindowInv, OrderInv, UnhandledMarker, Markers, Outstanding
  <2>3. MarkIn(inq)' = {} /\ MarkIn(batch)' = {}
    BY <2>2 DEF UnhandledMarker, MarkIn
  <2>4. OneMarker' /\ MarkerFirst' /\ Window'
    BY <2>2, <2>3 DEF OneMarker, MarkerFirst, Window
  <2>5. 0 % DrainSize = 0 /\ QueueSize \in Nat
    BY SizesAssumption
  <2>6. FillPoint'
    BY <2>1, <2>2, <2>5 DEF FillPoint
  <2> QED BY <2>1, <2>4, <2>6 DEF WindowInv, Playing
<1>2. CASE WriteBack
  <2>1. /\ pc = "fill" /\ pc' = "flush" /\ ~ MoreToOutput /\ current' = entry /\ index' = i
        /\ UNCHANGED <<outbuf, pool, inq, batch>>
    BY <1>2 DEF WriteBack, queue, input
  <2>2. /\ FillPoint /\ OneMarker /\ MarkerFirst
        /\ {i, n, k, i % DrainSize, QueueSize, DrainSize} \subseteq Nat
        /\ i % DrainSize < DrainSize /\ DrainSize < QueueSize
    BY <2>1, FillFacts DEF WindowInv
  <2>3. Outstanding' = Outstanding /\ Markers' = Markers
    BY <2>1 DEF Outstanding, Markers
  <2>4. MarkersKept /\ Window'
    BY <2>1, <2>2, <2>3, SameMarkers DEF WindowInv, Window
  <2>5. ASSUME current' # NULL
        PROVE  /\ i % DrainSize = QueueSize - DrainSize
               /\ MarkerAt(i - QueueSize + DrainSize - 1)
    <3>1. k = n
      BY <2>1, <2>2, <2>5 DEF MoreToOutput, FillPoint
    <3>2. UnhandledMarker
      BY <2>2, <3>1 DEF FillPoint
    <3>3. i + n - k - QueueSize + DrainSize - 1 = i - QueueSize + DrainSize - 1
      BY <2>2, <3>1
    <3> QED BY <2>2, <3>1, <3>2, <3>3 DEF FillPoint
  <2>6. \A c \in Outstanding' : c.seq + QueueSize >= index'
    <3>1. i + n - k >= i /\ i + n - k \in Int
      BY <2>2 DEF FillPoint
    <3>2. \A c \in Outstanding : c.seq \in Nat
      <4>1. \A c \in Outstanding : c \in Cell
        BY DEF TypeOK, Outstanding
      <4> QED BY <4>1 DEF Cell
    <3> QED BY <2>1, <2>2, <2>3, <3>1, <3>2 DEF FillPoint
  <2>7. PlayPoint'
    <3>1. i - QueueSize + DrainSize - 1 \in Int
      BY <2>2
    <3> QED BY <2>1, <2>4, <2>5, <2>6, <3>1 DEF PlayPoint, MarkersKept, MarkerAt, Markers
  <2> QED BY <2>1, <2>4, <2>7 DEF WindowInv, MarkersKept, Playing
<1>3. CASE StartFails \/ FlushFails \/ ArmFails \/ PollFails \/ ClearQueue \/ Return
  <2>1. /\ pool' \subseteq pool /\ outbuf' \subseteq outbuf
        /\ pc' \notin {"start", "fill"} /\ ~ Playing'
    BY <1>3 DEF StartFails, FlushFails, ArmFails, PollFails, ClearQueue, Return, GiveUp, Playing, queue
  <2>2. Window'
    BY <2>1 DEF WindowInv, Window, Outstanding
  <2> QED BY <2>1, <2>2 DEF WindowInv
<1>4. CASE \/ Flushed \/ InstallHandler \/ Arm \/ Check \/ PollTimeout \/ PollError \/ BatchDone
           \/ Interrupt /\ pc' # "killed"
  <2>1. UNCHANGED <<i, n, k, index, current, outbuf, pool, inq, batch>>
    BY <1>4 DEF Flushed, InstallHandler, Arm, Check, PollTimeout, PollError, BatchDone, Interrupt,
                ctx, locals, queue, input
  <2>2. /\ pc' = "start" => pc = "start"
        /\ pc' = "fill" => pc = "fill"
        /\ Playing' => Playing
    BY <1>4 DEF Flushed, InstallHandler, Arm, Check, PollTimeout, PollError, BatchDone, Interrupt,
                Playing
  <2>3. Outstanding' = Outstanding /\ Markers' = Markers
    BY <2>1 DEF Outstanding, Markers
  <2>4. pc = "fill" \/ Playing => MarkersKept
    BY <2>1, <2>3, SameMarkers DEF WindowInv
  <2> QED BY <2>1, <2>2, <2>3, <2>4, KeptWindowInv
<1>5. CASE Interrupt /\ pc' = "killed"
  <2>1. \/ pool' = {} /\ outbuf' = {}
        \/ UNCHANGED <<pool, outbuf>>
    BY <1>5 DEF Interrupt, queue
  <2>2. Window'
    BY <2>1 DEF WindowInv, Window, Outstanding
  <2> QED BY <1>5, <2>2 DEF WindowInv, Playing
<1> QED BY <1>1, <1>2, <1>3, <1>4, <1>5

LEMMA StepWindowInv ==
  RefillInv /\ OrderInv /\ WindowInv /\ [Step]_vars => WindowInv'
<1> SUFFICES ASSUME RefillInv, OrderInv, WindowInv, [Step]_vars
             PROVE  WindowInv'
  OBVIOUS
<1>1. TypeOK /\ BatchHandled
  BY DEF RefillInv
<1>2. OrderInv'
  BY <1>1, StepOrderInv
<1>3. CASE UNCHANGED vars
  <2>1. /\ UNCHANGED <<pc, i, n, k, index, current, outbuf, pool, inq, batch>>
        /\ Playing' = Playing /\ Outstanding' = Outstanding /\ Markers' = Markers
    BY <1>3 DEF vars, Playing, Outstanding, Markers
  <2>2. pc = "fill" \/ Playing => MarkersKept
    BY <2>1, SameMarkers DEF WindowInv
  <2> QED BY <1>1, <2>1, <2>2, KeptWindowInv
<1>4. CASE OutputEvent \/ OutputMarkerAndEvent
  <2>1. pc' = "fill"
    BY <1>4 DEF OutputEvent, OutputMarkerAndEvent, AdvanceEntry
  <2>2. Written'
    BY <1>2, <2>1 DEF OrderInv
  <2> QED BY <1>1, <1>4, <2>2, OutputWindowInv, MarkerWindowInv
<1>5. CASE OutputFails \/ Flush \/ Deliver \/ PollInput
  BY <1>1, <1>5, FailWindowInv, TransportWindowInv
<1>6. CASE Step /\ ~ (OutputEvent \/ OutputMarkerAndEvent \/ OutputFails \/ Flush \/ Deliver \/ PollInput)
  BY <1>1, <1>6, HandleWindowInv, ControlWindowInv DEF Step, Client, Failure
<1> QED BY <1>3, <1>4, <1>5, <1>6

LEMMA InitWindowInv == Init => WindowInv
<1> SUFFICES ASSUME Init
             PROVE  WindowInv
  OBVIOUS
<1>1. pc = "start" /\ index = 0 /\ outbuf = {} /\ pool = {} /\ inq = << >> /\ batch = << >>
  BY DEF Init
<1>2. Outstanding = {} /\ ~ UnhandledMarker
  BY <1>1 DEF Outstanding, UnhandledMarker, Markers
<1> QED BY <1>1, <1>2 DEF WindowInv, Window, Playing

LEMMA WindowAlways == Spec => [](TypeOK /\ OrderInv /\ WindowInv)
<1>1. RefillInv => TypeOK
  BY DEF RefillInv
<1> QED BY <1>1, InitRefillInv, StepRefillInv, InitOrderInv, StepOrderInv,
           InitWindowInv, StepWindowInv, PTL DEF Spec

(* Cells with different numbers, out of n consecutive ones, are at most n. *)
LEMMA AtMost ==
  ASSUME NEW S, NEW lo \in Int, NEW m \in Nat,
         \A c \in S : c.seq \in Int /\ lo <= c.seq /\ c.seq < lo + m,
         \A c, d \in S : c.seq = d.seq => c = d
  PROVE  Cardinality(S) <= m
<1> DEFINE f == [c \in S |-> c.seq]
           places == lo .. (lo + m - 1)
<1>1. f \in [S -> places] /\ \A c, d \in S : f[c] = f[d] => c = d
  OBVIOUS
<1>2. f \in Injection(S, places)
  BY <1>1 DEF Injection, IsInjective
<1>3. IsFiniteSet(places) /\ Cardinality(places) <= m
  BY FS_Interval
<1>4. IsFiniteSet(S) /\ Cardinality(S) <= Cardinality(places)
  BY <1>2, <1>3, FS_Injection
<1>5. Cardinality(S) \in Nat /\ Cardinality(places) \in Nat
  BY <1>3, <1>4, FS_CardinalityType
<1> QED BY <1>3, <1>4, <1>5

(***************************************************************************)
(* drain_events never has more than QueueSize events on their way, however *)
(* the batches, the USR1s and the passes of a loop fall: the pool that     *)
(* snd_seq_set_client_pool_output has granted is large enough for them.    *)
(***************************************************************************)
THEOREM PoolIsLargeEnough == Spec => []PoolSuffices
<1>1. ASSUME TypeOK, OrderInv, WindowInv
      PROVE  PoolSuffices
  <2>1. PICK lo \in Int : \A c \in Outstanding : lo <= c.seq /\ c.seq < lo + QueueSize
    BY <1>1 DEF WindowInv, Window
  <2>2. \A c \in Outstanding : c.seq \in Int
    <3>1. \A c \in Outstanding : c \in Cell
      BY <1>1 DEF TypeOK, Outstanding
    <3> QED BY <3>1 DEF Cell
  <2>3. \A c, d \in Outstanding : c.seq = d.seq => c = d
    BY <1>1 DEF OrderInv, Distinct
  <2>4. QueueSize \in Nat
    BY SizesAssumption
  <2>5. Cardinality(Outstanding) <= QueueSize
    BY <2>1, <2>2, <2>3, <2>4, AtMost
  <2> QED BY <2>5 DEF PoolSuffices
<1>2. TypeOK /\ OrderInv /\ WindowInv => PoolSuffices
  BY <1>1
<1> QED BY <1>2, WindowAlways, PTL

(***************************************************************************)
(* Whenever a USR1 is on its way, more than QueueSize - DrainSize events   *)
(* have been written from it on: the music that is in the queue when the   *)
(* next batch is asked for does not depend on where the batches began.     *)
(***************************************************************************)
THEOREM RefillsEarlyEnough == Spec => []LookAhead
<1>1. ASSUME TypeOK, WindowInv
      PROVE  LookAhead
  <2> SUFFICES ASSUME Playing, NEW c \in Markers, current # NULL
               PROVE  index - c.seq > QueueSize - DrainSize
    BY DEF LookAhead
  <2>1. c.seq = index - QueueSize + DrainSize - 1
    BY <1>1 DEF WindowInv, PlayPoint, MarkerAt
  <2>2. index \in Nat /\ QueueSize \in Nat /\ DrainSize \in Nat
    BY <1>1, SizesAssumption DEF TypeOK
  <2> QED BY <2>1, <2>2
<1>2. TypeOK /\ WindowInv => LookAhead
  BY <1>1
<1> QED BY <1>2, WindowAlways, PTL
-------------------------------------------------------------------------------
(***************************************************************************)
(* The scheduler keeps the promise of Playback.                            *)
(***************************************************************************)
(* The entries on their way, and the entry that follows a performed one.   *)
Events == {c \in Outstanding : c.type # "USR1"}

ToCome(p) == IF p = NULL THEN 1 ELSE NextEntry(p)

(* In the order of output they are a part of the piece: the first of them  *)
(* follows what has been performed, and each of the others the one before. *)
Chained ==
  /\ \A c \in Events : (\A d \in Events : c.seq <= d.seq) => c.pos = ToCome(at)
  /\ \A c, d \in Events :
       c.seq < d.seq /\ (\A e \in Events : ~ (c.seq < e.seq /\ e.seq < d.seq))
         => d.pos = NextEntry(c.pos)

(* The entry that is output next follows the last of them.                 *)
Continued ==
  /\ Events = {} => entry = ToCome(at)
  /\ \A c \in Events : (\A d \in Events : d.seq <= c.seq) => entry = NextEntry(c.pos)

(* The output buffer of a batch that has failed may outlive the queue that *)
(* run() has cleared, but nothing of it is performed any more.             *)
ChainInv ==
  /\ \/ Chained
     \/ pc = "sleep" /\ \A c \in pool : c.type = "NOTEOFF"
  /\ pc = "fill" \/ Playing => Continued
  /\ pc = "start" => at = NULL /\ current = 1
  /\ pc \in {"returned", "killed"} => pool = {}

(* The same events with the same place in the piece.                       *)
LEMMA SameChain ==
  ASSUME ChainInv, Events' = Events, UNCHANGED <<list, at>>,
         pc' # "sleep" => pc # "sleep",
         pc' = "sleep" /\ pc = "sleep" => UNCHANGED pool,
         pc' = "fill" \/ Playing' => (pc = "fill" \/ Playing) /\ entry' = entry,
         pc' = "start" => pc = "start" /\ UNCHANGED current,
         pc' \in {"returned", "killed"} => pool' = {}
  PROVE  ChainInv'
<1>1. Chained => Chained'
  BY DEF Chained, ToCome, NextEntry
<1>2. Continued /\ entry' = entry => Continued'
  BY DEF Continued, ToCome, NextEntry
<1> QED BY <1>1, <1>2 DEF ChainInv

LEMMA OutputChainInv ==
  ASSUME TypeOK, OrderInv, ChainInv, OutputEvent \/ OutputMarkerAndEvent
  PROVE  ChainInv'
<1>1. PICK s \in {i, i + 1} :
        \/ outbuf' = outbuf \cup {EventCell(s, entry, EventTick)}
        \/ outbuf' = outbuf \cup {MarkerCell(i, EventTick), EventCell(s, entry, EventTick)}
  BY DEF OutputEvent, OutputMarkerAndEvent
<1>2. /\ pc = "fill" /\ pc' = "fill" /\ entry' = NextEntry(entry)
      /\ UNCHANGED <<list, at, pool>> /\ entry \in Positions(list) /\ list \in Pieces /\ i \in Nat
  BY DEF OutputEvent, OutputMarkerAndEvent, AdvanceEntry, MoreToOutput, TypeOK
<1> DEFINE e == EventCell(s, entry, EventTick)
<1>3. e.seq = s /\ e.pos = entry /\ e.type \notin {"USR1", "NOTEOFF"}
  <2>1. list[entry].type \in EventType
    BY <1>2, EntryFacts DEF Entry
  <2> QED BY <2>1 DEF EventCell, EventType
<1>4. MarkerCell(i, EventTick).type = "USR1"
  BY DEF MarkerCell
<1> HIDE DEF e
<1>5. Events' = Events \cup {e}
  BY <1>1, <1>2, <1>3, <1>4 DEF Events, Outstanding, e
<1>6. \A c \in Events : c.seq \in Nat /\ c.seq < e.seq
  <2>1. \A c \in Events : c \in Cell /\ c.seq < i
    BY <1>2 DEF Events, Outstanding, TypeOK, OrderInv, Written
  <2>2. \A c \in Events : c.seq \in Nat
    BY <2>1 DEF Cell
  <2> QED BY <1>2, <1>3, <2>1, <2>2
<1>7. e.seq \in Nat
  BY <1>2, <1>3
<1>8. Chained /\ Continued
  BY <1>2 DEF ChainInv
<1>9. ToCome(at)' = ToCome(at) /\ \A c \in Events' : NextEntry(c.pos)' = NextEntry(c.pos)
  BY <1>2 DEF ToCome, NextEntry
<1>10. \A c \in Events' : (\A d \in Events' : c.seq <= d.seq) => c.pos = ToCome(at)
  <2> SUFFICES ASSUME NEW c \in Events', \A d \in Events' : c.seq <= d.seq
               PROVE  c.pos = ToCome(at)
    OBVIOUS
  <2>1. CASE c \in Events
    BY <1>5, <1>8, <2>1 DEF Chained
  <2>2. CASE c = e
    <3>1. Events = {}
      BY <1>5, <1>6, <1>7, <2>2
    <3> QED BY <1>3, <1>8, <2>2, <3>1 DEF Continued
  <2> QED BY <1>5, <2>1, <2>2
<1>11. \A c, d \in Events' :
         c.seq < d.seq /\ (\A b \in Events' : ~ (c.seq < b.seq /\ b.seq < d.seq))
           => d.pos = NextEntry(c.pos)
  <2> SUFFICES ASSUME NEW c \in Events', NEW d \in Events', c.seq < d.seq,
                      \A b \in Events' : ~ (c.seq < b.seq /\ b.seq < d.seq)
               PROVE  d.pos = NextEntry(c.pos)
    OBVIOUS
  <2>1. c \in Events
    <3>1. c # e
      BY <1>5, <1>6, <1>7
    <3> QED BY <1>5, <3>1
  <2>2. CASE d \in Events
    BY <1>5, <1>8, <2>1, <2>2 DEF Chained
  <2>3. CASE d = e
    <3>1. \A b \in Events : b.seq <= c.seq
      BY <1>5, <1>6, <2>1, <2>3
    <3> QED BY <1>3, <1>8, <2>1, <2>3, <3>1 DEF Continued
  <2> QED BY <1>5, <2>2, <2>3
<1>12. Chained'
  BY <1>9, <1>10, <1>11 DEF Chained
<1>13. Continued'
  <2>1. \A c \in Events' : (\A d \in Events' : d.seq <= c.seq) => c = e
    BY <1>5, <1>6, <1>7
  <2>2. entry' = NextEntry(e.pos)
    BY <1>2, <1>3
  <2> QED BY <1>5, <1>9, <2>1, <2>2 DEF Continued
<1> QED BY <1>2, <1>12, <1>13 DEF ChainInv, Playing

(* What the queue performs is what comes next.                             *)
LEMMA PerformsNext ==
  ASSUME TypeOK, OrderInv, ChainInv, NEW c \in pool, Due(c),
         c.type \notin {"USR1", "NOTEOFF"}
  PROVE  /\ c \in Events /\ Chained
         /\ \A d \in Events : d # c => c.seq < d.seq
         /\ c.pos = ToCome(at) /\ c.pos \in Positions(list)
<1>1. c \in Events /\ c.pos \in Positions(list)
  BY DEF Events, Outstanding, TypeOK
<1>2. Chained
  BY DEF ChainInv
<1>3. \A d \in Events : d # c => c.seq < d.seq
  BY DueFirst DEF Events
<1>4. \A d \in Events : d.seq \in Nat
  <2>1. \A d \in Events : d \in Cell
    BY DEF Events, Outstanding, TypeOK
  <2> QED BY <2>1 DEF Cell
<1>5. \A d \in Events : c.seq <= d.seq
  BY <1>1, <1>3, <1>4
<1> QED BY <1>1, <1>2, <1>3, <1>5 DEF Chained

LEMMA PerformChainInv ==
  ASSUME TypeOK, OrderInv, ChainInv, Deliver, NEW c \in pool, Due(c),
         c.type \notin {"USR1", "NOTEOFF"},
         pool' = pool \ {c} \/ pool' = (pool \ {c}) \cup {NoteOff(c)}, at' = c.pos
  PROVE  ChainInv'
<1>1. UNCHANGED <<list, pc, entry, current, outbuf>>
  BY DEF Deliver, ctx, locals
<1>2. /\ c \in Events /\ Chained /\ c.pos \in Positions(list)
      /\ \A d \in Events : d # c => c.seq < d.seq
  BY PerformsNext
<1>3. Events' = Events \ {c}
  <2>1. NoteOff(c).type = "NOTEOFF"
    BY DEF NoteOff
  <2>2. c \notin outbuf
    <3>1. c.seq \in Nat
      BY DEF TypeOK, Cell
    <3> QED BY <3>1 DEF OrderInv, PoolFirst
  <2> QED BY <1>1, <2>1, <2>2 DEF Events, Outstanding
<1>4. \A d \in Events : d.seq \in Nat
  <2>1. \A d \in Events : d \in Cell
    BY DEF Events, Outstanding, TypeOK
  <2> QED BY <2>1 DEF Cell
<1>5. /\ ToCome(at)' = NextEntry(c.pos)
      /\ \A d \in Events' : NextEntry(d.pos)' = NextEntry(d.pos)
  BY <1>1, <1>2 DEF ToCome, NextEntry, Positions, NULL
<1>6. Chained'
  <2>1. ASSUME NEW d \in Events', \A b \in Events' : d.seq <= b.seq
        PROVE  d.pos = NextEntry(c.pos)
    <3>1. c.seq < d.seq /\ \A b \in Events : ~ (c.seq < b.seq /\ b.seq < d.seq)
      BY <1>2, <1>3, <1>4, <2>1
    <3> QED BY <1>2, <1>3, <2>1, <3>1 DEF Chained
  <2>2. ASSUME NEW b \in Events', NEW d \in Events', b.seq < d.seq,
               \A e \in Events' : ~ (b.seq < e.seq /\ e.seq < d.seq)
        PROVE  d.pos = NextEntry(b.pos)
    <3>1. \A e \in Events : ~ (b.seq < e.seq /\ e.seq < d.seq)
      BY <1>2, <1>3, <1>4, <2>2
    <3> QED BY <1>2, <1>3, <2>2, <3>1 DEF Chained
  <2> QED BY <1>5, <2>1, <2>2 DEF Chained
<1>7. ASSUME pc = "fill" \/ Playing
      PROVE  Continued'
  <2>1. Continued
    BY <1>7 DEF ChainInv
  <2>2. ASSUME Events' = {}
        PROVE  entry = NextEntry(c.pos)
    BY <1>2, <1>3, <1>4, <2>1, <2>2 DEF Continued
  <2>3. ASSUME NEW d \in Events', \A b \in Events' : b.seq <= d.seq
        PROVE  entry = NextEntry(d.pos)
    <3>1. \A b \in Events : b.seq <= d.seq
      BY <1>2, <1>3, <1>4, <2>3
    <3> QED BY <1>3, <2>1, <2>3, <3>1 DEF Continued
  <2> QED BY <1>1, <1>5, <2>2, <2>3 DEF Continued
<1> QED BY <1>1, <1>6, <1>7 DEF ChainInv, OrderInv, Playing

LEMMA TransportChainInv ==
  ASSUME TypeOK, OrderInv, ChainInv, Flush \/ Deliver
  PROVE  ChainInv'
<1>1. CASE Flush
  <2>1. /\ outbuf' \cup pool' = outbuf \cup pool /\ pc = "flush"
        /\ UNCHANGED <<list, pc, entry, at>>
    BY <1>1 DEF Flush, locals
  <2>2. Events' = Events
    BY <2>1 DEF Events, Outstanding
  <2> QED BY <2>1, <2>2, SameChain DEF Playing
<1>2. CASE Deliver
  <2>1. PICK c \in pool : \/ DeliverNote(c) \/ DeliverNoteOff(c) \/ DeliverControl(c)
                          \/ DeliverToClient(c) \/ DeliverMarker(c)
    BY <1>2 DEF Deliver
  <2>2. CASE DeliverNote(c) \/ DeliverControl(c) \/ DeliverToClient(c)
    <3>1. /\ Due(c) /\ c.type \notin {"USR1", "NOTEOFF"} /\ at' = c.pos
          /\ pool' = pool \ {c} \/ pool' = (pool \ {c}) \cup {NoteOff(c)}
      BY <2>2 DEF DeliverNote, DeliverControl, DeliverToClient, Performed
    <3> QED BY <1>2, <3>1, PerformChainInv
  <2>3. CASE DeliverNoteOff(c) \/ DeliverMarker(c)
    <3>1. c.type \in {"USR1", "NOTEOFF"} /\ pool' = pool \ {c} /\ UNCHANGED at
      BY <2>3 DEF DeliverNoteOff, DeliverMarker
    <3>2. UNCHANGED <<list, pc, entry, current, outbuf>>
      BY <1>2 DEF Deliver, ctx, locals
    <3>3. Events' = Events
      BY <3>1, <3>2 DEF Events, Outstanding
    <3>4. Chained => Chained'
      BY <3>1, <3>2, <3>3 DEF Chained, ToCome, NextEntry
    <3>5. Continued => Continued'
      BY <3>1, <3>2, <3>3 DEF Continued, ToCome, NextEntry
    <3> QED BY <3>1, <3>2, <3>4, <3>5 DEF ChainInv, Playing
  <2> QED BY <2>1, <2>2, <2>3
<1> QED BY <1>1, <1>2

LEMMA ControlChainInv ==
  ASSUME TypeOK, OrderInv, ChainInv,
         Start \/ StartFails \/ OutputFails \/ WriteBack \/ Flushed \/ FlushFails
         \/ InstallHandler \/ Arm \/ ArmFails \/ Check
         \/ PollInput \/ PollTimeout \/ PollError \/ PollFails
         \/ HandleUsr0 \/ HandleUsr1 \/ HandleTempo \/ BatchDone
         \/ ClearQueue \/ Return \/ Interrupt
  PROVE  ChainInv'
<1>1. UNCHANGED <<list, at>>
  BY DEF Start, StartFails, OutputFails, WriteBack, Flushed, FlushFails, InstallHandler, Arm,
         ArmFails, Check, PollInput, PollTimeout, PollError, PollFails, HandleUsr0, HandleUsr1,
         HandleTempo, BatchDone, ClearQueue, Return, Interrupt
<1>2. CASE Start
  <2>1. /\ pc = "start" /\ pc' = "fill" /\ entry' = 1 /\ at = NULL
        /\ outbuf' = {} /\ pool' = {}
    BY <1>2 DEF Start, BeginDrain, queue, ChainInv, OrderInv
  <2>2. Events' = {}
    BY <2>1 DEF Events, Outstanding
  <2>3. Chained' /\ Continued'
    BY <1>1, <2>1, <2>2 DEF Chained, Continued, ToCome
  <2> QED BY <2>1, <2>3 DEF ChainInv, Playing
<1>3. CASE ClearQueue
  <2>1. /\ pc = "clear" /\ pc' = "sleep" /\ UNCHANGED outbuf
        /\ pool' = pool \/ \A c \in pool' : c.type = "NOTEOFF"
    BY <1>3 DEF ClearQueue
  <2>2. Chained
    BY <2>1 DEF ChainInv
  <2>3. CASE pool' = pool
    <3>1. Events' = Events
      BY <2>1, <2>3 DEF Events, Outstanding
    <3>2. Chained'
      BY <1>1, <2>2, <3>1 DEF Chained, ToCome, NextEntry
    <3> QED BY <2>1, <3>2 DEF ChainInv, Playing
  <2> QED BY <2>1, <2>3 DEF ChainInv, Playing
<1>4. CASE StartFails \/ Return \/ (Interrupt /\ pc' = "killed")
  <2>1. pc' \in {"returned", "killed"} /\ pool' = {} /\ outbuf' = {}
    BY <1>4 DEF StartFails, Return, Interrupt, queue, OrderInv
  <2>2. Events' = {}
    BY <2>1 DEF Events, Outstanding
  <2>3. Chained'
    BY <2>2 DEF Chained
  <2> QED BY <2>1, <2>3 DEF ChainInv, Playing
<1>5. CASE OutputFails
  <2>1. /\ pc = "fill" /\ pc' = "clear" /\ UNCHANGED pool
        /\ outbuf' = outbuf \/ outbuf' = outbuf \cup {MarkerCell(i, EventTick)}
    BY <1>5 DEF OutputFails, GiveUp
  <2>2. MarkerCell(i, EventTick).type = "USR1"
    BY DEF MarkerCell
  <2>3. Events' = Events
    BY <2>1, <2>2 DEF Events, Outstanding
  <2> QED BY <1>1, <2>1, <2>3, SameChain DEF Playing
<1>6. CASE HandleUsr1
  <2>1. /\ pc = "handle" /\ pc' \in {"handle", "fill"} /\ UNCHANGED <<outbuf, pool>>
        /\ entry' = entry \/ entry' = current
    BY <1>6 DEF HandleUsr1, Handling, BeginDrain, locals, queue
  <2>2. entry = current /\ Playing
    BY <2>1 DEF OrderInv, Playing
  <2>3. Events' = Events
    BY <2>1 DEF Events, Outstanding
  <2> QED BY <1>1, <2>1, <2>2, <2>3, SameChain
<1>7. CASE \/ WriteBack \/ Flushed \/ FlushFails \/ InstallHandler \/ Arm \/ ArmFails \/ Check
           \/ PollInput \/ PollTimeout \/ PollError \/ PollFails
           \/ HandleUsr0 \/ HandleTempo \/ BatchDone
           \/ Interrupt /\ pc' # "killed"
  <2>1. UNCHANGED <<outbuf, pool, entry>>
    BY <1>7 DEF WriteBack, Flushed, FlushFails, InstallHandler, Arm, ArmFails, Check,
                PollInput, PollTimeout, PollError, PollFails, HandleUsr0, HandleTempo, BatchDone,
                Interrupt, locals, queue
  <2>2. /\ pc' # "sleep" => pc # "sleep"
        /\ pc' = "fill" => pc = "fill"
        /\ Playing' => pc = "fill" \/ Playing
        /\ pc' = "start" => pc = "start" /\ UNCHANGED current
        /\ pc' \notin {"returned", "killed"} \/ pc' = pc
    BY <1>7 DEF WriteBack, Flushed, FlushFails, InstallHandler, Arm, ArmFails, Check, GiveUp,
                PollInput, PollTimeout, PollError, PollFails, HandleUsr0, HandleTempo, BatchDone,
                Handling, Interrupt, Playing, ctx
  <2>3. Events' = Events
    BY <2>1 DEF Events, Outstanding
  <2>4. pc' \in {"returned", "killed"} => pool' = {}
    BY <2>1, <2>2 DEF ChainInv
  <2> QED BY <1>1, <2>1, <2>2, <2>3, <2>4, SameChain
<1> QED BY <1>2, <1>3, <1>4, <1>5, <1>6, <1>7

LEMMA InitChainInv == Init => ChainInv
<1> SUFFICES ASSUME Init
             PROVE  ChainInv
  OBVIOUS
<1>1. pc = "start" /\ at = NULL /\ current = 1 /\ outbuf = {} /\ pool = {}
  BY DEF Init
<1>2. Events = {}
  BY <1>1 DEF Events, Outstanding
<1> QED BY <1>1, <1>2 DEF ChainInv, Chained, Playing

LEMMA StepChainInv == TypeOK /\ OrderInv /\ ChainInv /\ [Step]_vars => ChainInv'
<1> SUFFICES ASSUME TypeOK, OrderInv, ChainInv, [Step]_vars
             PROVE  ChainInv'
  OBVIOUS
<1>1. CASE UNCHANGED vars
  <2>1. Events' = Events
    BY <1>1 DEF vars, Events, Outstanding
  <2>2. UNCHANGED <<list, at, pc, entry, current, pool>> /\ Playing' = Playing
    BY <1>1 DEF vars, Playing
  <2> QED BY <2>1, <2>2, SameChain DEF ChainInv
<1>2. CASE Step
  BY <1>2, OutputChainInv, TransportChainInv, ControlChainInv DEF Step, Client, Failure
<1> QED BY <1>1, <1>2

-------------------------------------------------------------------------------
(***************************************************************************)
(* The end.  run() is only told to stop by a USR0 that has been performed  *)
(* as the last entry, or by Ctrl+C, which only a handler can tell it of.   *)
(***************************************************************************)
Over == at # NULL /\ list[at].type = "USR0"

Carried(s) == \E j \in 1 .. Len(s) : s[j].type = "USR0"

EndInv ==
  /\ \A c \in Events : list[c.pos].type = c.type
  /\ Carried(inq) \/ Carried(batch) => Over
  /\ ~ running /\ handler # "ignored" => Over
  /\ status = "success" /\ handler # "ignored" => Over
  /\ pc = "install" => handler = "default"

(* After the closing USR0 there is nothing more to perform.                *)
LEMMA OverIsLast ==
  ASSUME TypeOK, Over
  PROVE  NextEntry(at) = NULL
<1>1. Playable(list) /\ at \in Positions(list) /\ list \in Seq(Entry)
  BY PiecesAssumption DEF TypeOK, Over, Playable
<1>2. at = Len(list) /\ list[Len(list)].type = "USR0" /\ ~ list[Len(list)].end_loop
  BY <1>1 DEF Playable, Over
<1>3. ~ Loops(list)
  BY <1>1, <1>2 DEF Playable, Loops, LoopEnds
<1> QED BY <1>1, <1>2, <1>3 DEF NextEntry, Link, Positions

LEMMA DeliverEndInv ==
  ASSUME TypeOK, OrderInv, ChainInv, EndInv, Deliver
  PROVE  EndInv'
<1>1. PICK c \in pool : \/ DeliverNote(c) \/ DeliverNoteOff(c) \/ DeliverControl(c)
                        \/ DeliverToClient(c) \/ DeliverMarker(c)
  BY DEF Deliver
<1>2. /\ UNCHANGED <<list, pc, status, handler, running, outbuf, batch>>
      /\ inq \in Seq(Cell) /\ c \in Cell
  BY DEF Deliver, signal, TypeOK
<1>3. Events' \subseteq Events
  <2>1. \A d \in pool' : d \in pool \/ d.type = "NOTEOFF"
    BY <1>1 DEF DeliverNote, DeliverNoteOff, DeliverControl, DeliverToClient, DeliverMarker, NoteOff
  <2> QED BY <1>2, <2>1 DEF Events, Outstanding
<1>4. \A d \in Events' : list'[d.pos].type = d.type
  BY <1>2, <1>3 DEF EndInv
<1>5. inq' = inq \/ inq' = Append(inq, c)
  BY <1>1 DEF DeliverNote, DeliverNoteOff, DeliverControl, DeliverToClient, DeliverMarker
<1>6. Carried(inq') => Carried(inq) \/ (inq' = Append(inq, c) /\ c.type = "USR0")
  <2>1. CASE inq' = inq
    BY <2>1
  <2>2. CASE inq' = Append(inq, c)
    <3>1. /\ Len(inq') = Len(inq) + 1 /\ Len(inq) \in Nat /\ inq'[Len(inq) + 1] = c
          /\ \A j \in 1 .. Len(inq) : inq'[j] = inq[j]
      BY <1>2, <2>2
    <3>2. \A j \in 1 .. Len(inq') : j \in 1 .. Len(inq) \/ j = Len(inq) + 1
      BY <3>1
    <3> QED BY <2>2, <3>1, <3>2 DEF Carried
  <2> QED BY <1>5, <2>1, <2>2
<1>7. CASE DeliverNote(c) \/ DeliverControl(c) \/ DeliverToClient(c)
  <2>1. Due(c) /\ c.type \notin {"USR1", "NOTEOFF"} /\ at' = c.pos
    BY <1>7 DEF DeliverNote, DeliverControl, DeliverToClient, Performed
  <2>2. c \in Events /\ c.pos = ToCome(at) /\ c.pos \in Positions(list)
    BY <2>1, PerformsNext
  <2>3. c.pos # NULL
    BY <2>2 DEF Positions, NULL
  <2>4. ~ Over
    BY <2>2, <2>3, OverIsLast DEF Over, ToCome
  <2>5. c.type = "USR0" => Over'
    BY <1>2, <2>1, <2>2, <2>3 DEF EndInv, Over
  <2>6. Carried(inq') => c.type = "USR0"
    BY <1>6, <2>4 DEF EndInv
  <2>7. ~ Carried(batch')
    BY <1>2, <2>4 DEF EndInv
  <2> QED BY <1>2, <1>4, <2>4, <2>5, <2>6, <2>7 DEF EndInv
<1>8. CASE DeliverNoteOff(c) \/ DeliverMarker(c)
  <2>1. c.type # "USR0" /\ UNCHANGED at
    BY <1>8 DEF DeliverNoteOff, DeliverMarker
  <2>2. Over' = Over
    BY <1>2, <2>1 DEF Over
  <2> QED BY <1>2, <1>4, <1>6, <2>1, <2>2 DEF EndInv
<1> QED BY <1>1, <1>7, <1>8

LEMMA OutputEndInv ==
  ASSUME TypeOK, EndInv, OutputEvent \/ OutputMarkerAndEvent
  PROVE  EndInv'
<1>1. PICK s \in {i, i + 1} :
        \/ outbuf' = outbuf \cup {EventCell(s, entry, EventTick)}
        \/ outbuf' = outbuf \cup {MarkerCell(i, EventTick), EventCell(s, entry, EventTick)}
  BY DEF OutputEvent, OutputMarkerAndEvent
<1>2. UNCHANGED <<list, pc, at, pool, status, handler, running, inq, batch>> /\ pc = "fill"
  BY DEF OutputEvent, OutputMarkerAndEvent, AdvanceEntry, signal, input
<1> DEFINE e == EventCell(s, entry, EventTick)
<1>3. e.pos = entry /\ e.type = list[entry].type /\ MarkerCell(i, EventTick).type = "USR1"
  BY DEF EventCell, MarkerCell
<1> HIDE DEF e
<1>4. \A c \in Events' : c \in Events \/ c = e
  BY <1>1, <1>2, <1>3 DEF Events, Outstanding, e
<1>5. \A c \in Events' : list'[c.pos].type = c.type
  BY <1>2, <1>3, <1>4 DEF EndInv
<1> QED BY <1>2, <1>5 DEF EndInv, Over

LEMMA ControlEndInv ==
  ASSUME TypeOK, EndInv,
         Start \/ StartFails \/ OutputFails \/ WriteBack \/ Flush \/ Flushed \/ FlushFails
         \/ InstallHandler \/ Arm \/ ArmFails \/ Check
         \/ PollInput \/ PollTimeout \/ PollError \/ PollFails
         \/ HandleUsr0 \/ HandleUsr1 \/ HandleTempo \/ BatchDone
         \/ ClearQueue \/ Return \/ Interrupt
  PROVE  EndInv'
<1>1. UNCHANGED <<list, at>>
  BY DEF Start, StartFails, OutputFails, WriteBack, Flush, Flushed, FlushFails, InstallHandler,
         Arm, ArmFails, Check, PollInput, PollTimeout, PollError, PollFails, HandleUsr0,
         HandleUsr1, HandleTempo, BatchDone, ClearQueue, Return, Interrupt
<1>2. Over' = Over
  BY <1>1 DEF Over
<1>3. \A c \in Events' : list'[c.pos].type = c.type
  <2>1. MarkerCell(i, EventTick).type = "USR1"
    BY DEF MarkerCell
  <2>2. outbuf' \cup pool' \subseteq outbuf \cup pool \cup {MarkerCell(i, EventTick)}
    BY DEF Start, StartFails, OutputFails, WriteBack, Flush, Flushed, FlushFails, InstallHandler,
           Arm, ArmFails, Check, PollInput, PollTimeout, PollError, PollFails, HandleUsr0,
           HandleUsr1, HandleTempo, BatchDone, ClearQueue, Return, Interrupt, queue
  <2>3. Events' \subseteq Events
    BY <2>1, <2>2 DEF Events, Outstanding
  <2> QED BY <1>1, <2>3 DEF EndInv
<1>4. CASE PollInput
  <2>1. batch' = inq /\ inq' = << >> /\ UNCHANGED <<status, handler, running>> /\ pc' = "handle"
    BY <1>4 DEF PollInput, signal
  <2>2. Carried(batch') => Carried(inq)
    BY <2>1
  <2>3. ~ Carried(inq')
    BY <2>1 DEF Carried
  <2> QED BY <1>2, <1>3, <2>1, <2>2, <2>3 DEF EndInv
<1>5. CASE HandleUsr0 \/ HandleUsr1 \/ HandleTempo
  <2>1. /\ batch \in Seq(Cell) /\ batch # << >> /\ batch' = Tail(batch) /\ inq' = inq
        /\ UNCHANGED <<status, handler>> /\ pc' # "install"
        /\ running' = running \/ Head(batch).type = "USR0"
    BY <1>5 DEF HandleUsr0, HandleUsr1, HandleTempo, Handling, BeginDrain, signal, TypeOK
  <2>2. /\ Len(batch) \in Nat /\ Len(batch) >= 1 /\ Len(batch') = Len(batch) - 1
        /\ \A j \in 1 .. Len(batch') : j + 1 \in 1 .. Len(batch) /\ batch'[j] = batch[j + 1]
        /\ Head(batch) = batch[1] /\ 1 \in 1 .. Len(batch)
    BY <2>1
  <2>3. Carried(batch') => Carried(batch)
    BY <2>2 DEF Carried
  <2>4. Head(batch).type = "USR0" => Carried(batch)
    BY <2>2 DEF Carried
  <2> QED BY <1>2, <1>3, <2>1, <2>3, <2>4 DEF EndInv
<1>6. CASE Interrupt
  <2>1. /\ UNCHANGED <<status, inq, batch>> /\ pc' # "install"
        /\ UNCHANGED signal \/ handler' = "ignored"
    BY <1>6 DEF Interrupt, input, EndInv
  <2> QED BY <1>2, <1>3, <2>1 DEF EndInv, signal
<1>7. CASE Check
  <2>1. /\ UNCHANGED <<handler, running, inq, batch>>
        /\ UNCHANGED status \/ ~ running
        /\ pc' # "install"
    BY <1>7 DEF Check, signal, input
  <2> QED BY <1>2, <1>3, <2>1 DEF EndInv
<1>8. CASE \/ Start \/ StartFails \/ OutputFails \/ WriteBack \/ Flush \/ Flushed \/ FlushFails
           \/ InstallHandler \/ Arm \/ ArmFails \/ PollTimeout \/ PollError \/ PollFails
           \/ BatchDone \/ ClearQueue \/ Return
  <2>1. /\ UNCHANGED <<inq, batch>>
        /\ UNCHANGED status \/ status' = "failure"
        /\ UNCHANGED running \/ running' = TRUE
        /\ UNCHANGED handler \/ handler = "default"
        /\ pc' # "install" \/ (handler = "default" /\ UNCHANGED handler)
    BY <1>8 DEF EndInv, BeginDrain, Start, StartFails, OutputFails, WriteBack, Flush, Flushed, FlushFails,
                InstallHandler, Arm, ArmFails, PollTimeout, PollError, PollFails, BatchDone,
                ClearQueue, Return, GiveUp, signal, input
  <2> QED BY <1>2, <1>3, <2>1 DEF EndInv
<1> QED BY <1>4, <1>5, <1>6, <1>7, <1>8

LEMMA InitEndInv == Init => EndInv
<1> SUFFICES ASSUME Init
             PROVE  EndInv
  OBVIOUS
<1>1. /\ outbuf = {} /\ pool = {} /\ inq = << >> /\ batch = << >>
      /\ running = TRUE /\ status = "none" /\ pc = "start"
  BY DEF Init
<1>2. Events = {} /\ ~ Carried(inq) /\ ~ Carried(batch)
  BY <1>1 DEF Events, Outstanding, Carried
<1> QED BY <1>1, <1>2 DEF EndInv

LEMMA StepEndInv ==
  TypeOK /\ OrderInv /\ ChainInv /\ EndInv /\ [Step]_vars => EndInv'
<1> SUFFICES ASSUME TypeOK, OrderInv, ChainInv, EndInv, [Step]_vars
             PROVE  EndInv'
  OBVIOUS
<1>1. CASE UNCHANGED vars
  BY <1>1 DEF vars, EndInv, Events, Outstanding, Over
<1>2. CASE Step
  BY <1>2, DeliverEndInv, OutputEndInv, ControlEndInv DEF Step, Client, Failure
<1> QED BY <1>1, <1>2

-------------------------------------------------------------------------------
(***************************************************************************)
(* The refinement.                                                         *)
(***************************************************************************)
PromiseInv == TypeOK /\ OrderInv /\ ChainInv /\ EndInv

LEMMA PromiseInvAlways == Spec => []PromiseInv
<1> QED BY InitTypeOK, StepTypeOK, InitOrderInv, StepOrderInv, InitChainInv, StepChainInv,
           InitEndInv, StepEndInv, PTL DEF Spec, PromiseInv

LEMMA SameSuccessor ==
  ASSUME list \in Pieces, NEW p \in Positions(list) \cup {NULL}
  PROVE  Promise!Successor(list, p) = ToCome(p)
BY DEF Promise!Successor, ToCome, NextEntry, Promise!Link, Link, Promise!Positions, Positions,
       Promise!Loops, Loops, Promise!LoopEnds, LoopEnds, Promise!LoopStarts, LoopStarts,
       Promise!Latest, Latest, Promise!NULL, NULL

(* Only run()'s end and the death of the process change the outcome.       *)
LEMMA SameOutcome ==
  ASSUME pc' \in {"returned", "killed"} <=> pc \in {"returned", "killed"},
         pc \in {"returned", "killed"} => UNCHANGED <<pc, status, handler>>
  PROVE  Outcome' = Outcome
<1>1. CASE pc \in {"returned", "killed"}
  BY <1>1 DEF Outcome
<1>2. CASE pc \notin {"returned", "killed"}
  BY <1>2 DEF Outcome
<1> QED BY <1>1, <1>2

LEMMA DeliverKeepsPromise ==
  ASSUME PromiseInv, Deliver
  PROVE  Promise!Perform \/ UNCHANGED <<list, at, Outcome>>
<1>1. PICK c \in pool : \/ DeliverNote(c) \/ DeliverNoteOff(c) \/ DeliverControl(c)
                        \/ DeliverToClient(c) \/ DeliverMarker(c)
  BY DEF Deliver
<1>2. UNCHANGED <<list, pc, status, handler>> /\ pc \notin {"returned", "killed"}
  BY DEF Deliver, signal, PromiseInv, ChainInv
<1>3. Outcome = "playing" /\ Outcome' = Outcome
  BY <1>2, SameOutcome DEF Outcome
<1>4. CASE DeliverNote(c) \/ DeliverControl(c) \/ DeliverToClient(c)
  <2>1. Due(c) /\ c.type \notin {"USR1", "NOTEOFF"} /\ at' = c.pos
    BY <1>4 DEF DeliverNote, DeliverControl, DeliverToClient, Performed
  <2>2. c.pos = ToCome(at) /\ c.pos \in Positions(list)
    BY <2>1, PerformsNext DEF PromiseInv
  <2>3. c.pos = Promise!Successor(list, at) /\ c.pos # Promise!NULL
    BY <2>2, SameSuccessor DEF PromiseInv, TypeOK, Promise!NULL, Positions
  <2> QED BY <1>2, <1>3, <2>1, <2>3 DEF Promise!Perform
<1>5. CASE DeliverNoteOff(c) \/ DeliverMarker(c)
  BY <1>2, <1>3, <1>5 DEF DeliverNoteOff, DeliverMarker
<1> QED BY <1>1, <1>4, <1>5

LEMMA ReturnKeepsPromise ==
  ASSUME PromiseInv, Return
  PROVE  Promise!Finish \/ Promise!Abort
<1>1. pc = "sleep" /\ pc' = "returned" /\ UNCHANGED <<list, at, status, handler>>
  BY DEF Return, signal
<1>2. Outcome = "playing"
  BY <1>1 DEF Outcome
<1>3. CASE status = "success" /\ handler = "installed"
  <2>1. Outcome' = "finished"
    BY <1>1, <1>3 DEF Outcome
  <2>2. Over
    BY <1>3 DEF PromiseInv, EndInv
  <2>3. at # NULL /\ at \in Positions(list) /\ NextEntry(at) = NULL
    BY <2>2, OverIsLast DEF PromiseInv, Over, TypeOK
  <2>4. Promise!Successor(list, at) = Promise!NULL /\ at # Promise!NULL
    BY <2>3, SameSuccessor DEF PromiseInv, TypeOK, ToCome, NULL, Promise!NULL
  <2> QED BY <1>1, <1>2, <2>1, <2>4 DEF Promise!Finish
<1>4. CASE ~ (status = "success" /\ handler = "installed")
  <2>1. Outcome' = "aborted"
    BY <1>1, <1>4 DEF Outcome
  <2> QED BY <1>1, <1>2, <2>1 DEF Promise!Abort
<1> QED BY <1>3, <1>4

LEMMA StepKeepsPromise ==
  PromiseInv /\ [Step]_vars => [Promise!Step]_(Promise!vars)
<1> SUFFICES ASSUME PromiseInv, [Step]_vars
             PROVE  Promise!Step \/ UNCHANGED <<list, at, Outcome>>
  BY DEF Promise!vars
<1>1. CASE UNCHANGED vars
  BY <1>1, SameOutcome DEF vars
<1>2. CASE Deliver
  BY <1>2, DeliverKeepsPromise DEF Promise!Step
<1>3. CASE Return
  BY <1>3, ReturnKeepsPromise DEF Promise!Step
<1>4. CASE StartFails \/ (Interrupt /\ pc' = "killed")
  <2>1. /\ pc \notin {"returned", "killed"} /\ UNCHANGED <<list, at>>
        /\ pc' = "killed" \/ (pc' = "returned" /\ status' = "failure")
    BY <1>4 DEF StartFails, Interrupt
  <2>2. Outcome = "playing" /\ Outcome' = "aborted"
    BY <2>1 DEF Outcome
  <2> QED BY <2>1, <2>2 DEF Promise!Abort, Promise!Step
<1>5. CASE \/ Start \/ OutputEvent \/ OutputMarkerAndEvent \/ OutputFails \/ WriteBack
           \/ Flush \/ Flushed \/ FlushFails \/ InstallHandler \/ Arm \/ ArmFails \/ Check
           \/ PollInput \/ PollTimeout \/ PollError \/ PollFails
           \/ HandleUsr0 \/ HandleUsr1 \/ HandleTempo \/ BatchDone \/ ClearQueue
           \/ (Interrupt /\ pc' # "killed")
  <2>1. UNCHANGED <<list, at>>
    BY <1>5 DEF Start, OutputEvent, OutputMarkerAndEvent, AdvanceEntry, OutputFails, WriteBack,
                Flush, Flushed, FlushFails, InstallHandler, Arm, ArmFails, Check, PollInput,
                PollTimeout, PollError, PollFails, HandleUsr0, HandleUsr1, HandleTempo, BatchDone,
                ClearQueue, Interrupt
  <2>2. pc \notin {"returned", "killed"} /\ pc' \notin {"returned", "killed"}
    BY <1>5 DEF Start, BeginDrain, OutputEvent, OutputMarkerAndEvent, AdvanceEntry, OutputFails,
                GiveUp, WriteBack, Flush, Flushed, FlushFails, InstallHandler, Arm, ArmFails,
                Check, PollInput, PollTimeout, PollError, PollFails, HandleUsr0, HandleUsr1,
                HandleTempo, BatchDone, Handling, ClearQueue, Interrupt
  <2>3. Outcome' = Outcome
    BY <2>2, SameOutcome
  <2> QED BY <2>1, <2>3
<1> QED BY <1>1, <1>2, <1>3, <1>4, <1>5 DEF Step, Client, Failure

(***************************************************************************)
(* The scheduler implements Playback: batches, USR1s, the wrap of a loop,  *)
(* failures and signals amount to performing the events of the piece one   *)
(* by one in the order of the list, and run() reports success without a    *)
(* Ctrl+C only when all of them have been performed.                       *)
(***************************************************************************)
THEOREM KeepsThePromise == Spec => PerformsInOrder
<1>1. Init => Promise!Init
  BY DEF Init, Promise!Init, Outcome, Promise!NULL, NULL
<1> QED BY <1>1, PromiseInvAlways, StepKeepsPromise, PTL DEF Spec, PerformsInOrder, Promise!Spec

-------------------------------------------------------------------------------
(***************************************************************************)
(* Tempo changes.  The ones korlessa has got back have been performed.     *)
(***************************************************************************)
PlayedTempos == {p \in 1 .. at : list[p].type = "TEMPO"}

TempoInv ==
  ~ Loops(list) =>
    /\ tempo \in {0, DefaultBpm} \/ \E p \in PlayedTempos : list[p].bpm = tempo
    /\ \A j \in 1 .. Len(inq) : inq[j].type = "TEMPO" => inq[j].pos \in PlayedTempos
    /\ \A j \in 1 .. Len(batch) : batch[j].type = "TEMPO" => batch[j].pos \in PlayedTempos

(* Without a loop the performance only goes forward.                       *)
LEMMA DeliverTempoInv ==
  ASSUME TypeOK, OrderInv, ChainInv, EndInv, TempoInv, Deliver
  PROVE  TempoInv'
<1>1. PICK c \in pool : \/ DeliverNote(c) \/ DeliverNoteOff(c) \/ DeliverControl(c)
                        \/ DeliverToClient(c) \/ DeliverMarker(c)
  BY DEF Deliver
<1>2. UNCHANGED <<list, tempo, batch>> /\ inq \in Seq(Cell) /\ c \in Cell
  BY DEF Deliver, TypeOK
<1> SUFFICES ASSUME ~ Loops(list)
             PROVE  TempoInv'
  BY <1>2 DEF TempoInv
<1>3. /\ at \in Nat /\ at' \in Nat /\ at <= at'
      /\ inq' = inq \/ (inq' = Append(inq, c) /\ (c.type = "TEMPO" => c.pos \in PlayedTempos'))
  <2>1. CASE DeliverNote(c) \/ DeliverControl(c) \/ DeliverToClient(c)
    <3>1. /\ Due(c) /\ c.type \notin {"USR1", "NOTEOFF"} /\ at' = c.pos
          /\ inq' = inq \/ inq' = Append(inq, c)
      BY <2>1 DEF DeliverNote, DeliverControl, DeliverToClient, Performed
    <3>2. c \in Events /\ c.pos = ToCome(at) /\ c.pos \in Positions(list)
      BY <3>1, PerformsNext
    <3>3. at \in Nat /\ c.pos \in Nat /\ c.pos # 0 /\ c.pos \in 1 .. c.pos
      BY <3>2 DEF Positions, TypeOK, NULL
    <3>4. at <= c.pos
      BY <3>2, <3>3 DEF TypeOK, ToCome, NextEntry, Link, Positions, NULL
    <3>5. c.type = "TEMPO" => list[c.pos].type = "TEMPO"
      BY <3>2 DEF EndInv
    <3> QED BY <1>2, <3>1, <3>3, <3>4, <3>5 DEF PlayedTempos
  <2>2. CASE DeliverNoteOff(c) \/ DeliverMarker(c)
    <3>1. UNCHANGED at /\ (inq' = inq \/ (inq' = Append(inq, c) /\ c.type # "TEMPO"))
      BY <2>2 DEF DeliverNoteOff, DeliverMarker
    <3> QED BY <3>1 DEF TypeOK, Positions, NULL
  <2> QED BY <1>1, <2>1, <2>2
<1>4. PlayedTempos \subseteq PlayedTempos'
  <2>1. 1 .. at \subseteq 1 .. at'
    BY <1>3
  <2> QED BY <1>2, <2>1 DEF PlayedTempos
<1>5. \A j \in 1 .. Len(inq') : inq'[j].type = "TEMPO" => inq'[j].pos \in PlayedTempos'
  <2>1. CASE inq' = inq
    BY <1>4, <2>1 DEF TempoInv
  <2>2. CASE inq' = Append(inq, c) /\ (c.type = "TEMPO" => c.pos \in PlayedTempos')
    <3>1. /\ Len(inq') = Len(inq) + 1 /\ Len(inq) \in Nat /\ inq'[Len(inq) + 1] = c
          /\ \A j \in 1 .. Len(inq) : inq'[j] = inq[j]
      BY <1>2, <2>2
    <3>2. \A j \in 1 .. Len(inq') : j \in 1 .. Len(inq) \/ j = Len(inq) + 1
      BY <3>1
    <3> QED BY <1>4, <2>2, <3>1, <3>2 DEF TempoInv
  <2> QED BY <1>3, <2>1, <2>2
<1>6. \A j \in 1 .. Len(batch') : batch'[j].type = "TEMPO" => batch'[j].pos \in PlayedTempos'
  BY <1>2, <1>4 DEF TempoInv
<1>7. tempo' \in {0, DefaultBpm} \/ \E p \in PlayedTempos' : list'[p].bpm = tempo'
  BY <1>2, <1>3, <1>4 DEF TempoInv, PlayedTempos
<1> QED BY <1>5, <1>6, <1>7 DEF TempoInv

LEMMA StepTempoInv ==
  PromiseInv /\ TempoInv /\ [Step]_vars => TempoInv'
<1> SUFFICES ASSUME PromiseInv, TempoInv, [Step]_vars
             PROVE  TempoInv'
  OBVIOUS
<1>1. CASE Deliver
  BY <1>1, DeliverTempoInv DEF PromiseInv
<1>2. CASE PollInput
  <2>1. batch' = inq /\ inq' = << >> /\ UNCHANGED <<list, at, tempo>>
    BY <1>2 DEF PollInput
  <2> QED BY <2>1 DEF TempoInv, PlayedTempos
<1>3. CASE HandleUsr0 \/ HandleUsr1 \/ HandleTempo
  <2>1. /\ batch \in Seq(Cell) /\ batch # << >> /\ batch' = Tail(batch) /\ inq' = inq
        /\ UNCHANGED <<list, at>>
        /\ tempo' = tempo \/ (Head(batch).type = "TEMPO" /\ tempo' = list[Head(batch).pos].bpm)
    BY <1>3 DEF HandleUsr0, HandleUsr1, HandleTempo, Handling, SetTempo, PromiseInv, TypeOK
  <2>2. /\ Len(batch) \in Nat /\ Len(batch) >= 1 /\ Len(batch') = Len(batch) - 1
        /\ \A j \in 1 .. Len(batch') : j + 1 \in 1 .. Len(batch) /\ batch'[j] = batch[j + 1]
        /\ Head(batch) = batch[1] /\ 1 \in 1 .. Len(batch)
    BY <2>1
  <2> SUFFICES ASSUME ~ Loops(list)
               PROVE  TempoInv'
    BY <2>1 DEF TempoInv
  <2>3. Head(batch).type = "TEMPO" => Head(batch).pos \in PlayedTempos
    BY <2>2 DEF TempoInv
  <2>4. PlayedTempos' = PlayedTempos
    BY <2>1 DEF PlayedTempos
  <2>5. \A j \in 1 .. Len(batch') : batch'[j].type = "TEMPO" => batch'[j].pos \in PlayedTempos'
    BY <2>2, <2>4 DEF TempoInv
  <2>6. tempo' \in {0, DefaultBpm} \/ \E p \in PlayedTempos' : list'[p].bpm = tempo'
    BY <2>1, <2>3, <2>4 DEF TempoInv, PlayedTempos
  <2> QED BY <2>1, <2>4, <2>5, <2>6 DEF TempoInv
<1>4. CASE \/ Start \/ StartFails \/ OutputEvent \/ OutputMarkerAndEvent \/ OutputFails
           \/ WriteBack \/ Flush \/ Flushed \/ FlushFails \/ InstallHandler \/ Arm \/ ArmFails
           \/ Check \/ PollTimeout \/ PollError \/ PollFails \/ BatchDone \/ ClearQueue
           \/ Return \/ Interrupt
  <2>1. UNCHANGED <<list, at, inq, batch>> /\ tempo' \in {tempo, DefaultBpm}
    BY <1>4 DEF Start, StartFails, OutputEvent, OutputMarkerAndEvent, AdvanceEntry, OutputFails,
                WriteBack, Flush, Flushed, FlushFails, InstallHandler, Arm, ArmFails, Check,
                PollTimeout, PollError, PollFails, BatchDone, ClearQueue, Return, Interrupt,
                SetTempo, input
  <2> QED BY <2>1 DEF TempoInv, PlayedTempos
<1>5. CASE UNCHANGED vars
  BY <1>5 DEF vars, TempoInv, PlayedTempos
<1> QED BY <1>1, <1>2, <1>3, <1>4, <1>5 DEF Step, Client, Failure

(***************************************************************************)
(* In a piece that does not loop, the tempo of the queue is the first one  *)
(* or that of a change already performed, however long before its time     *)
(* drain_events has written it.                                            *)
(***************************************************************************)
THEOREM TempoInItsTime == Spec => []TempoNotAhead
<1>1. Init => TempoInv
  BY DEF Init, TempoInv
<1>2. TempoInv => TempoNotAhead
  BY DEF TempoInv, TempoNotAhead, PlayedTempos
<1> QED BY <1>1, <1>2, PromiseInvAlways, StepTempoInv, PTL DEF Spec

-------------------------------------------------------------------------------
(***************************************************************************)
(* The passes of a loop are equally long, for every piece and all sizes.   *)
(***************************************************************************)

(* What ctx->offset grows by after an entry.                               *)
Wrap(p) == IF list[p].end_loop THEN list[p].loop_offset ELSE 0

First == IF Loops(list) THEN Latest(LoopStarts(list)) ELSE Len(list) + 1

InLoop(p) == First <= p

(* From an entry on, either one pass or the next; what is not in the loop  *)
(* never comes back.                                                       *)
Apart(c, d) ==
  /\ c.pos # d.pos
  /\ ~ InLoop(c.pos) => c.pos < d.pos
  /\ InLoop(c.pos) /\ c.pos < d.pos =>
       d.tick + list[c.pos].tick = c.tick + list[d.pos].tick
  /\ InLoop(c.pos) /\ d.pos < c.pos =>
       d.tick + list[c.pos].tick = c.tick + list[d.pos].tick + list[Len(list)].loop_offset

(* The entry of c has been output again, up to d.                          *)
Recurs(c, d) == \E e \in Events : e.pos = c.pos /\ c.seq < e.seq /\ e.seq <= d.seq

IsLast(c) == \A d \in Events : d.seq <= c.seq

EventPeriod ==
  \A c, d \in Events :
    c.pos = d.pos /\ c.seq < d.seq
    /\ (\A e \in Events : ~ (e.pos = c.pos /\ c.seq < e.seq /\ e.seq < d.seq))
      => d.tick = c.tick + list[Len(list)].loop_offset

AllApart == \A c, d \in Events : c.seq < d.seq /\ ~ Recurs(c, d) => Apart(c, d)

OffsetOfLast ==
  /\ Events # {} => \E c \in Events : IsLast(c)
  /\ \A c \in Events : IsLast(c) => offset + list[c.pos].tick = c.tick + Wrap(c.pos)

PeriodInv ==
  /\ \A c \in Outstanding : c.type = "USR1" => c.pos = NULL
  /\ EventPeriod /\ AllApart
  /\ pc = "fill" \/ Playing => OffsetOfLast

(* How the entries of a playable list follow each other.                   *)
LEMMA FirstType ==
  ASSUME list \in Pieces
  PROVE  First \in Nat
<1>1. Len(list) \in Nat
  BY PiecesAssumption DEF Playable
<1>2. CASE Loops(list)
  <2>1. LoopStarts(list) # {} /\ LoopStarts(list) \in SUBSET (1 .. Len(list))
    BY <1>2 DEF Loops, LoopStarts, Positions
  <2>2. Latest(LoopStarts(list)) \in LoopStarts(list)
    BY <1>1, <2>1, LatestExists
  <2> QED BY <1>1, <1>2, <2>1, <2>2 DEF First
<1> QED BY <1>1, <1>2 DEF First

LEMMA NextFacts ==
  ASSUME list \in Pieces, NEW p \in Positions(list), NextEntry(p) # NULL
  PROVE  /\ NextEntry(p) \in Positions(list)
         /\ list[p].end_loop =>
              /\ p = Len(list) /\ Loops(list) /\ NextEntry(p) = Latest(LoopStarts(list))
              /\ \A q \in Positions(list) : InLoop(q) <=> NextEntry(p) <= q
         /\ ~ list[p].end_loop => NextEntry(p) = p + 1
<1>1. /\ Playable(list) /\ Len(list) \in Nat /\ p \in 1 .. Len(list)
      /\ NextEntry(p) \in Positions(list)
  BY PiecesAssumption, EntryFacts DEF Positions
<1>2. CASE list[p].end_loop
  <2>1. p = Len(list) /\ LoopStarts(list) # {} /\ LoopEnds(list) = {Len(list)} /\ Loops(list)
    BY <1>1, <1>2 DEF Playable, Loops, LoopEnds, Positions
  <2>2. Latest(LoopEnds(list)) = p
    <3>1. {p} \in SUBSET (1 .. Len(list)) /\ {p} # {}
      BY <1>1
    <3>2. Latest({p}) \in {p}
      BY <1>1, <3>1, LatestExists
    <3> QED BY <2>1, <3>2
  <2>3. NextEntry(p) = Latest(LoopStarts(list))
    BY <1>1, <2>1, <2>2 DEF NextEntry, Link, Positions
  <2> QED BY <1>1, <1>2, <2>1, <2>3 DEF InLoop, First
<1>3. CASE ~ list[p].end_loop
  <2>1. ~ (Loops(list) /\ p = Latest(LoopEnds(list)))
    <3>1. SUFFICES ASSUME Loops(list)
                   PROVE  Latest(LoopEnds(list)) # p
      OBVIOUS
    <3>2. LoopEnds(list) # {} /\ LoopEnds(list) \in SUBSET (1 .. Len(list))
      BY <3>1 DEF Loops, LoopEnds, Positions
    <3>3. Latest(LoopEnds(list)) \in LoopEnds(list)
      BY <1>1, <3>2, LatestExists
    <3> QED BY <1>3, <3>3 DEF LoopEnds
  <2> QED BY <1>1, <1>3, <2>1 DEF NextEntry, Link, Positions
<1> QED BY <1>2, <1>3

(* The arithmetic of it: entries at p, q and r with the ticks tp, tq and   *)
(* tr are output at x, y and z, r right after q and q some time after p.   *)
InARow(p, q, r, tp, tq, tr, x, y, z, loff, s) ==
  /\ r = p => tr = tp
  /\ \/ q = p /\ y = x /\ tq = tp
     \/ /\ p # q /\ (~ (s <= p) => p < q)
        /\ (s <= p /\ p < q => y + tp = x + tq)
        /\ (s <= p /\ q < p => y + tp = x + tq + loff)
  /\ \/ p <= q /\ (s <= p <=> r <= p) /\ z + tq = y + loff + tr
     \/ r = q + 1 /\ z + tq = y + tr

Again(p, r, tp, tr, x, z, loff, s) ==
  /\ r = p => z = x + loff
  /\ r # p => /\ (~ (s <= p) => p < r)
             /\ (s <= p /\ p < r => z + tp = x + tr)
             /\ (s <= p /\ r < p => z + tp = x + tr + loff)

LEMMA Sums ==
  ASSUME NEW p \in Nat, NEW q \in Nat, NEW r \in Nat,
         NEW tp \in Nat, NEW tq \in Nat, NEW tr \in Nat,
         NEW x \in Nat, NEW y \in Nat, NEW z \in Nat, NEW loff \in Nat, NEW s \in Nat,
         InARow(p, q, r, tp, tq, tr, x, y, z, loff, s)
  PROVE  Again(p, r, tp, tr, x, z, loff, s)
BY DEF InARow, Again

(* One more entry after the last one.                                      *)
LEMMA OneFurther ==
  ASSUME list \in Pieces, NEW c, NEW b, NEW e,
         {c.pos, b.pos} \subseteq Positions(list), {c.tick, b.tick, e.tick} \subseteq Nat,
         e.pos = NextEntry(b.pos), e.pos # NULL,
         e.tick + list[b.pos].tick = b.tick + Wrap(b.pos) + list[e.pos].tick,
         b = c \/ Apart(c, b)
  PROVE  /\ e.pos # c.pos => Apart(c, e)
         /\ e.pos = c.pos => e.tick = c.tick + list[Len(list)].loop_offset
<1>1. /\ Len(list) \in Nat /\ e.pos \in Positions(list) /\ Positions(list) = 1 .. Len(list)
      /\ {c.pos, b.pos, e.pos, Len(list)} \subseteq Nat
      /\ b.pos <= Len(list) /\ c.pos <= Len(list) /\ Len(list) \in Positions(list)
  BY EntryFacts, NextFacts DEF Positions
<1> DEFINE tc == list[c.pos].tick
           tb == list[b.pos].tick
           te == list[e.pos].tick
           loff == list[Len(list)].loop_offset
<1>2. /\ tc \in Nat /\ tb \in Nat /\ te \in Nat /\ loff \in Nat
      /\ c.tick \in Nat /\ b.tick \in Nat /\ e.tick \in Nat
  <2>1. {list[c.pos], list[b.pos], list[e.pos], list[Len(list)]} \subseteq Entry
    BY <1>1, EntryFacts
  <2> QED BY <2>1 DEF Entry
<1>3. e.tick + tb = b.tick + Wrap(b.pos) + te
  OBVIOUS
<1>4. /\ e.pos = c.pos => te = tc
      /\ \/ b.pos = c.pos /\ b.tick = c.tick /\ tb = tc
         \/ /\ c.pos # b.pos /\ (~ InLoop(c.pos) => c.pos < b.pos)
            /\ (InLoop(c.pos) /\ c.pos < b.pos => b.tick + tc = c.tick + tb)
            /\ (InLoop(c.pos) /\ b.pos < c.pos => b.tick + tc = c.tick + tb + loff)
  BY DEF Apart
<1>5. \/ /\ c.pos <= b.pos /\ (InLoop(c.pos) <=> e.pos <= c.pos)
         /\ e.tick + tb = b.tick + loff + te
      \/ e.pos = b.pos + 1 /\ e.tick + tb = b.tick + te
  <2>1. CASE list[b.pos].end_loop
    <3>1. /\ b.pos = Len(list) /\ (InLoop(c.pos) <=> e.pos <= c.pos)
          /\ Wrap(b.pos) = loff
      BY <1>1, <2>1, NextFacts DEF Wrap
    <3> QED BY <1>1, <1>3, <3>1
  <2>2. CASE ~ list[b.pos].end_loop
    <3>1. e.pos = b.pos + 1 /\ Wrap(b.pos) = 0
      BY <1>1, <2>2, NextFacts DEF Wrap
    <3>2. b.tick + 0 = b.tick
      BY <1>2
    <3> QED BY <1>3, <3>1, <3>2
  <2> QED BY <2>1, <2>2
<1>6. First \in Nat
  BY FirstType
<1> HIDE DEF tc, tb, te, loff
<1>7. InARow(c.pos, b.pos, e.pos, tc, tb, te, c.tick, b.tick, e.tick, loff, First)
  BY <1>4, <1>5 DEF InARow, InLoop
<1>8. Again(c.pos, e.pos, tc, te, c.tick, e.tick, loff, First)
  BY <1>1, <1>2, <1>6, <1>7, Sums
<1>9. /\ e.pos = c.pos => e.tick = c.tick + loff
      /\ e.pos # c.pos =>
           /\ (~ InLoop(c.pos) => c.pos < e.pos)
           /\ (InLoop(c.pos) /\ c.pos < e.pos => e.tick + tc = c.tick + te)
           /\ (InLoop(c.pos) /\ e.pos < c.pos => e.tick + tc = c.tick + te + loff)
  BY <1>8 DEF Again, InLoop
<1> QED BY <1>9 DEF Apart, tc, te, loff

-------------------------------------------------------------------------------
(* The earliest events leave, if any.                                      *)
LEMMA LeavePeriodInv ==
  ASSUME TypeOK, PeriodInv, UNCHANGED list, Events' \subseteq Events,
         \A r \in Events \ Events' : \A d \in Events' : r.seq < d.seq,
         \A c \in Outstanding' : c \in Outstanding \/ c.pos = NULL,
         pc' = "fill" \/ Playing' => (pc = "fill" \/ Playing) /\ UNCHANGED offset
  PROVE  PeriodInv'
<1>1. \A c \in Events : c.seq \in Nat
  <2>1. \A c \in Events : c \in Cell
    BY DEF Events, Outstanding, TypeOK
  <2> QED BY <2>1 DEF Cell
<1>2. \A c \in Events' : \A e \in Events : c.seq < e.seq => e \in Events'
  BY <1>1
<1>3. EventPeriod'
  BY <1>2 DEF PeriodInv, EventPeriod
<1>4. AllApart'
  <2>1. \A c, d \in Events' : Recurs(c, d) => Recurs(c, d)'
    BY <1>2 DEF Recurs
  <2>2. \A c, d \in Events' : Apart(c, d) => Apart(c, d)'
    BY DEF Apart, InLoop, First
  <2> QED BY <2>1, <2>2 DEF PeriodInv, AllApart
<1>5. ASSUME OffsetOfLast, UNCHANGED offset
      PROVE  OffsetOfLast'
  <2>1. \A c \in Events' : IsLast(c)' => IsLast(c)
    BY <1>1 DEF IsLast
  <2>2. ASSUME NEW c \in Events, IsLast(c), Events' # {}
        PROVE  c \in Events' /\ IsLast(c)'
    BY <1>1, <2>2 DEF IsLast
  <2> QED BY <1>5, <2>1, <2>2 DEF OffsetOfLast, Wrap
<1> QED BY <1>3, <1>4, <1>5 DEF PeriodInv

(* The event that goes out.                                                *)
LEMMA OutputPeriodInv ==
  ASSUME TypeOK, OrderInv, ChainInv, PeriodInv, OutputEvent \/ OutputMarkerAndEvent
  PROVE  PeriodInv'
<1>1. PICK s \in {i, i + 1} :
        \/ outbuf' = outbuf \cup {EventCell(s, entry, EventTick)}
        \/ outbuf' = outbuf \cup {MarkerCell(i, EventTick), EventCell(s, entry, EventTick)}
  BY DEF OutputEvent, OutputMarkerAndEvent
<1>2. /\ pc = "fill" /\ pc' = "fill" /\ offset' = offset + Wrap(entry)
      /\ UNCHANGED <<list, pool>> /\ entry \in Positions(list) /\ entry # NULL
      /\ list \in Pieces /\ i \in Nat /\ offset \in Nat
  <2>1. entry \in Positions(list) /\ offset \in Nat /\ list \in Pieces /\ i \in Nat /\ entry # NULL
    BY DEF OutputEvent, OutputMarkerAndEvent, MoreToOutput, TypeOK
  <2> QED BY <2>1 DEF OutputEvent, OutputMarkerAndEvent, AdvanceEntry, Wrap
<1>0. PICK e : e = EventCell(s, entry, EventTick)
  OBVIOUS
<1>3. /\ e.seq = s /\ e.pos = entry /\ e.type \notin {"USR1", "NOTEOFF"}
      /\ e.tick = list[entry].tick + offset
  <2>1. list[entry].type \in EventType
    BY <1>2, EntryFacts DEF Entry
  <2> QED BY <1>0, <2>1 DEF EventCell, EventType, EventTick
<1>4. MarkerCell(i, EventTick).type = "USR1" /\ MarkerCell(i, EventTick).pos = NULL
  BY DEF MarkerCell
<1>5. Events' = Events \cup {e}
  BY <1>0, <1>1, <1>2, <1>3, <1>4 DEF Events, Outstanding
<1>6. /\ \A c \in Events : c.seq \in Nat /\ c.seq < e.seq /\ c.tick \in Nat /\ c.pos \in Positions(list)
      /\ e.seq \in Nat
  <2>1. \A c \in Events : c \in Cell /\ c.seq < i /\ c.pos \in Positions(list)
    BY <1>2 DEF Events, Outstanding, TypeOK, OrderInv, Written
  <2>2. \A c \in Events : c.seq \in Nat /\ c.tick \in Nat
    BY <2>1 DEF Cell
  <2> QED BY <1>2, <1>3, <2>1, <2>2
<1>7. list[entry].tick \in Nat /\ Wrap(entry) \in Nat /\ e.tick \in Nat
  <2>1. list[entry] \in Entry
    BY <1>2, EntryFacts
  <2>2. list[entry].tick \in Nat /\ list[entry].loop_offset \in Nat
    BY <2>1 DEF Entry
  <2> QED BY <1>2, <1>3, <2>2 DEF Wrap
<1>8. ASSUME NEW c \in Events, \A b \in Events : ~ (b.pos = c.pos /\ c.seq < b.seq)
      PROVE  /\ e.pos # c.pos => Apart(c, e)
             /\ e.pos = c.pos => e.tick = c.tick + list[Len(list)].loop_offset
  <2>1. PICK b \in Events : IsLast(b)
    BY <1>2 DEF PeriodInv, OffsetOfLast
  <2>2. offset + list[b.pos].tick = b.tick + Wrap(b.pos) /\ entry = NextEntry(b.pos)
    BY <1>2, <2>1 DEF PeriodInv, OffsetOfLast, ChainInv, Continued, IsLast
  <2>3. list[b.pos].tick \in Nat /\ Wrap(b.pos) \in Nat
    <3>1. list[b.pos] \in Entry
      BY <1>2, <1>6, EntryFacts
    <3>2. list[b.pos].tick \in Nat /\ list[b.pos].loop_offset \in Nat
      BY <3>1 DEF Entry
    <3> QED BY <3>2 DEF Wrap
  <2>4. e.tick + list[b.pos].tick = b.tick + Wrap(b.pos) + list[e.pos].tick
    BY <1>2, <1>3, <1>6, <1>7, <2>2, <2>3
  <2>5. b = c \/ Apart(c, b)
    <3>1. CASE b.seq = c.seq
      BY <3>1 DEF OrderInv, Distinct, Events
    <3>2. CASE c.seq < b.seq
      <4>1. ~ Recurs(c, b)
        BY <1>8 DEF Recurs
      <4> QED BY <3>2, <4>1 DEF PeriodInv, AllApart
    <3> QED BY <1>6, <2>1, <3>1, <3>2 DEF IsLast
  <2>6. /\ {c.pos, b.pos} \subseteq Positions(list) /\ {c.tick, b.tick, e.tick} \subseteq Nat
        /\ e.pos = NextEntry(b.pos) /\ e.pos # NULL
    BY <1>2, <1>3, <1>6, <1>7, <2>2
  <2> QED BY <1>2, <2>4, <2>5, <2>6, OneFurther
<1>9. EventPeriod'
  <2> SUFFICES ASSUME NEW c \in Events', NEW d \in Events', c.pos = d.pos, c.seq < d.seq,
                      \A b \in Events' : ~ (b.pos = c.pos /\ c.seq < b.seq /\ b.seq < d.seq)
               PROVE  d.tick = c.tick + list[Len(list)].loop_offset
    BY <1>2 DEF EventPeriod
  <2>1. c \in Events
    BY <1>5, <1>6
  <2>2. CASE d \in Events
    BY <1>5, <2>1, <2>2 DEF PeriodInv, EventPeriod
  <2>3. CASE d = e
    BY <1>5, <1>6, <1>8, <2>1, <2>3
  <2> QED BY <1>5, <2>2, <2>3
<1>10. AllApart'
  <2> SUFFICES ASSUME NEW c \in Events', NEW d \in Events', c.seq < d.seq, ~ Recurs(c, d)'
               PROVE  Apart(c, d)'
    BY DEF AllApart
  <2>1. c \in Events
    BY <1>5, <1>6
  <2>2. Apart(c, d) => Apart(c, d)'
    BY <1>2 DEF Apart, InLoop, First
  <2>3. CASE d \in Events
    <3>1. ~ Recurs(c, d)
      BY <1>5 DEF Recurs
    <3> QED BY <2>1, <2>2, <2>3, <3>1 DEF PeriodInv, AllApart
  <2>4. CASE d = e
    <3>1. \A b \in Events' : ~ (b.pos = c.pos /\ c.seq < b.seq)
      <4>1. \A b \in Events' : b.seq <= e.seq
        BY <1>5, <1>6
      <4> QED BY <2>4, <4>1 DEF Recurs
    <3>2. e.pos # c.pos
      BY <1>5, <1>6, <2>1, <3>1
    <3> QED BY <1>5, <1>8, <2>1, <2>2, <2>4, <3>1, <3>2
  <2> QED BY <1>5, <2>3, <2>4
<1>11. OffsetOfLast'
  <2>1. IsLast(e)' /\ \A c \in Events' : IsLast(c)' => c = e
    BY <1>5, <1>6 DEF IsLast
  <2>2. offset' + list[e.pos].tick = e.tick + Wrap(e.pos)
    BY <1>2, <1>3, <1>7
  <2>3. Wrap(e.pos)' = Wrap(e.pos)
    BY <1>2 DEF Wrap
  <2> QED BY <1>2, <1>5, <2>1, <2>2, <2>3 DEF OffsetOfLast
<1>12. \A c \in Outstanding' : c.type = "USR1" => c.pos = NULL
  <2>1. \A c \in Outstanding' : c \in Outstanding \/ c = e \/ c = MarkerCell(i, EventTick)
    BY <1>0, <1>1, <1>2 DEF Outstanding
  <2> QED BY <1>3, <1>4, <2>1 DEF PeriodInv
<1> QED BY <1>9, <1>10, <1>11, <1>12 DEF PeriodInv

LEMMA TransportPeriodInv ==
  ASSUME TypeOK, OrderInv, ChainInv, PeriodInv, Flush \/ Deliver
  PROVE  PeriodInv'
<1>1. UNCHANGED <<list, pc, offset>>
  BY DEF Flush, Deliver, ctx
<1>2. CASE Flush
  <2>1. outbuf' \cup pool' = outbuf \cup pool
    BY <1>2 DEF Flush
  <2>2. Outstanding' = Outstanding /\ Events' = Events
    BY <2>1 DEF Events, Outstanding
  <2> QED BY <1>1, <2>2, LeavePeriodInv DEF Playing
<1>3. CASE Deliver
  <2>1. PICK c \in pool : \/ DeliverNote(c) \/ DeliverNoteOff(c) \/ DeliverControl(c)
                          \/ DeliverToClient(c) \/ DeliverMarker(c)
    BY <1>3 DEF Deliver
  <2>2. UNCHANGED outbuf /\ Due(c)
    BY <1>3, <2>1 DEF Deliver, DeliverNote, DeliverNoteOff, DeliverControl, DeliverToClient, DeliverMarker
  <2>3. /\ \A d \in pool' : d \in pool \/ d.type = "NOTEOFF"
        /\ \A d \in pool : d \in pool' \/ d = c
    BY <2>1 DEF DeliverNote, DeliverNoteOff, DeliverControl, DeliverToClient, DeliverMarker, NoteOff
  <2>4. Outstanding' \subseteq Outstanding /\ Events' \subseteq Events
    BY <2>2, <2>3 DEF Events, Outstanding
  <2>5. \A r \in Events \ Events' : \A d \in Events' : r.seq < d.seq
    <3> SUFFICES ASSUME NEW r \in Events, r \notin Events', NEW d \in Events'
                 PROVE  r.seq < d.seq
      OBVIOUS
    <3>1. r = c
      BY <2>2, <2>3 DEF Events, Outstanding
    <3> QED BY <2>2, <2>4, <3>1, PerformsNext DEF Events, Outstanding
  <2> QED BY <1>1, <2>4, <2>5, LeavePeriodInv DEF Playing
<1> QED BY <1>2, <1>3

LEMMA ControlPeriodInv ==
  ASSUME TypeOK, OrderInv, PeriodInv,
         Start \/ StartFails \/ OutputFails \/ WriteBack \/ Flushed \/ FlushFails
         \/ InstallHandler \/ Arm \/ ArmFails \/ Check
         \/ PollInput \/ PollTimeout \/ PollError \/ PollFails
         \/ HandleUsr0 \/ HandleUsr1 \/ HandleTempo \/ BatchDone
         \/ ClearQueue \/ Return \/ Interrupt
  PROVE  PeriodInv'
<1>1. UNCHANGED <<list, offset>>
  BY DEF Start, StartFails, OutputFails, WriteBack, Flushed, FlushFails, InstallHandler, Arm,
         ArmFails, Check, PollInput, PollTimeout, PollError, PollFails, HandleUsr0, HandleUsr1,
         HandleTempo, BatchDone, ClearQueue, Return, Interrupt, ctx
<1>2. CASE Start
  <2>1. outbuf' = {} /\ pool' = {}
    BY <1>2 DEF Start, OrderInv, queue
  <2>2. Outstanding' = {} /\ Events' = {}
    BY <2>1 DEF Outstanding, Events
  <2> QED BY <2>2 DEF PeriodInv, EventPeriod, AllApart, OffsetOfLast
<1>3. CASE Return \/ ClearQueue \/ Interrupt
  <2>1. /\ outbuf' = outbuf \/ (outbuf' = {} /\ pool' = {})
        /\ pool' \in {pool, {}, {c \in pool : c.type = "NOTEOFF"}}
    BY <1>3 DEF Return, ClearQueue, Interrupt, queue
  <2>2. Outstanding' \subseteq Outstanding /\ Events' \subseteq Events
    BY <2>1 DEF Outstanding, Events
  <2>3. \A r \in Events \ Events' : \A d \in Events' : r.seq < d.seq
    BY <2>1 DEF Events, Outstanding, OrderInv, PoolFirst
  <2>4. pc' = "fill" \/ Playing' => pc = "fill" \/ Playing
    BY <1>3 DEF Return, ClearQueue, Interrupt, Playing
  <2> QED BY <1>1, <2>2, <2>3, <2>4, LeavePeriodInv
<1>4. CASE OutputFails
  <2>1. /\ outbuf' = outbuf \/ outbuf' = outbuf \cup {MarkerCell(i, EventTick)}
        /\ pc' = "clear" /\ UNCHANGED pool
    BY <1>4 DEF OutputFails, GiveUp
  <2>2. MarkerCell(i, EventTick).type = "USR1" /\ MarkerCell(i, EventTick).pos = NULL
    BY DEF MarkerCell
  <2>3. Events' = Events /\ \A c \in Outstanding' : c \in Outstanding \/ c.pos = NULL
    BY <2>1, <2>2 DEF Events, Outstanding
  <2> QED BY <1>1, <2>1, <2>3, LeavePeriodInv DEF Playing
<1>5. CASE \/ StartFails \/ WriteBack \/ Flushed \/ FlushFails
           \/ InstallHandler \/ Arm \/ ArmFails \/ Check
           \/ PollInput \/ PollTimeout \/ PollError \/ PollFails
           \/ HandleUsr0 \/ HandleUsr1 \/ HandleTempo \/ BatchDone
  <2>1. UNCHANGED <<outbuf, pool>>
    BY <1>5 DEF StartFails, WriteBack, Flushed, FlushFails, InstallHandler, Arm, ArmFails, Check,
                PollInput, PollTimeout, PollError, PollFails, HandleUsr0, HandleUsr1, HandleTempo,
                BatchDone, queue
  <2>2. pc' = "fill" \/ Playing' => pc = "fill" \/ Playing
    BY <1>5 DEF StartFails, WriteBack, Flushed, FlushFails, InstallHandler, Arm, ArmFails, Check,
                PollInput, PollTimeout, PollError, PollFails, HandleUsr0, HandleUsr1, HandleTempo,
                BatchDone, Handling, GiveUp, BeginDrain, Playing
  <2>3. Outstanding' = Outstanding /\ Events' = Events
    BY <2>1 DEF Outstanding, Events
  <2> QED BY <1>1, <2>2, <2>3, LeavePeriodInv
<1> QED BY <1>2, <1>3, <1>4, <1>5

LEMMA InitPeriodInv == Init => PeriodInv
<1> SUFFICES ASSUME Init
             PROVE  PeriodInv
  OBVIOUS
<1>1. pc = "start" /\ Outstanding = {} /\ Events = {}
  BY DEF Init, Outstanding, Events
<1> QED BY <1>1 DEF PeriodInv, EventPeriod, AllApart, Playing

LEMMA StepPeriodInv ==
  TypeOK /\ OrderInv /\ ChainInv /\ PeriodInv /\ [Step]_vars => PeriodInv'
<1> SUFFICES ASSUME TypeOK, OrderInv, ChainInv, PeriodInv, [Step]_vars
             PROVE  PeriodInv'
  OBVIOUS
<1>1. CASE UNCHANGED vars
  <2>1. UNCHANGED <<list, pc, offset, Outstanding, Events>>
    BY <1>1 DEF vars, Outstanding, Events
  <2> QED BY <2>1, LeavePeriodInv DEF Playing
<1>2. CASE Step
  BY <1>2, OutputPeriodInv, TransportPeriodInv, ControlPeriodInv DEF Step, Client, Failure
<1> QED BY <1>1, <1>2

LEMMA PeriodInvMeans == TypeOK /\ PeriodInv => LoopPeriod
<1> SUFFICES ASSUME TypeOK, PeriodInv
             PROVE  LoopPeriod
  OBVIOUS
<1>1. \A c \in Outstanding : c.pos # NULL <=> c \in Events
  BY DEF Events, Outstanding, PeriodInv, TypeOK, Positions, NULL
<1>2. Events \subseteq Outstanding
  BY DEF Events
<1> QED BY <1>1, <1>2 DEF PeriodInv, EventPeriod, LoopPeriod

(***************************************************************************)
(* Two passes through the loop are exactly loop_offset apart, whichever    *)
(* batches their events were written in (drain_events, ctx->offset).       *)
(***************************************************************************)
THEOREM PassesAreEquallyLong == Spec => []LoopPeriod
<1>1. Init => TypeOK /\ OrderInv /\ ChainInv /\ PeriodInv
  BY InitTypeOK, InitOrderInv, InitChainInv, InitPeriodInv
<1>2. /\ TypeOK /\ OrderInv /\ ChainInv /\ PeriodInv /\ [Step]_vars
      => (TypeOK /\ OrderInv /\ ChainInv /\ PeriodInv)'
  BY StepTypeOK, StepOrderInv, StepChainInv, StepPeriodInv
<1> QED BY <1>1, <1>2, PeriodInvMeans, PTL DEF Spec
==============================================================================
