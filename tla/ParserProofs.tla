----------------------------- MODULE ParserProofs -----------------------------
(***************************************************************************)
(* The functions of parser.c keep their part: what they are given they     *)
(* free or build in, once, and free_node frees a tree with all that it     *)
(* points to.  What mpc promises of any grammar therefore holds of         *)
(* korlessa's.                                                             *)
(***************************************************************************)
EXTENDS MpcHeapProofs, KorlessaKinds

(* The functions of the grammar are those of Nodes.                        *)
KorlessaFunctions ==
  /\ \A h, f, xs : UserFold(h, f, xs) = Fold(h, f, xs)
  /\ \A h, f, x : UserApply(h, f, x) = ApplyFunction(h, f, x)
  /\ \A h, lf : UserCtor(h, lf) = Constructor(h, lf)
  /\ \A h, d, x : UserDtor(h, d, x) = Destructor(h, d, x)
  /\ \A kind : Layouts(kind) = KorlessaLayouts(kind)

(* Some pointers are what a block of a kind may have.                      *)
LaidOut(h, refs, kind) ==
  kind \notin {"null", "freed"} /\ [k \in 1 .. Len(refs) |-> Kind(h, refs[k])] \in Layouts(kind)

(***************************************************************************)
(* A block that is rewritten, and takes some roots.                        *)
(***************************************************************************)
Rewritten(h, b, kind, refs) ==
  [h EXCEPT !.blocks = [@ EXCEPT ![b] = [kind |-> kind, data |-> h.blocks[b].data, refs |-> refs,
                                         pool |-> h.blocks[b].pool]]]

Takeable(h, b, W) == b \notin W /\ \A r \in W : ~ h.blocks[r].pool

(* A block that is not a root stays of its kind, and takes leaves only.    *)
Changeable(h, Q, b, W, kind) ==
  b \notin Q => kind = h.blocks[b].kind /\ \A w \in W : Values(h.blocks[w].refs) = {}

(* The heap that there is then.                                            *)
RewrittenTo(h, g, Q, b, W, kind) ==
  /\ Sound(g, Q \ W) /\ Keeps(h, g, (Q \ W) \ {b}) /\ Live(g) = Live(h)
  /\ Kind(g, b) = kind /\ g.blocks[b].pool = h.blocks[b].pool

LEMMA RewrittenSound ==
  ASSUME NEW h, NEW Q, Sound(h, Q), NEW b \in Live(h), NEW W \in SUBSET Q, Takeable(h, b, W),
         NEW kind, Changeable(h, Q, b, W, kind),
         NEW refs, IsSeq(refs), Distinct(refs), Values(refs) = Values(h.blocks[b].refs) \cup W,
         LaidOut(h, refs, kind), NEW g, g = Rewritten(h, b, kind, refs)
  PROVE  RewrittenTo(h, g, Q, b, W, kind)
<1>1. PICK blocks, next : h = [blocks |-> blocks, next |-> next, misused |-> {}]
  BY DEF Sound
<1>2. PICK c : c = [kind |-> kind, data |-> h.blocks[b].data, refs |-> refs, pool |-> h.blocks[b].pool]
  OBVIOUS
<1> DEFINE rewritten == [blocks EXCEPT ![b] = c]
<1>3. g = [blocks |-> rewritten, next |-> next, misused |-> {}]
  <2>1. g = [h EXCEPT !.blocks = rewritten]
    BY <1>1, <1>2 DEF Rewritten
  <2> HIDE DEF rewritten
  <2> QED BY <1>1, <2>1
<1> HIDE DEF rewritten
<1>4. /\ g = [blocks |-> g.blocks, next |-> g.next, misused |-> {}]
      /\ g.next = h.next /\ Live(g) = Live(h) /\ g.blocks[b] = c
      /\ \A d \in Live(h) : d # b => g.blocks[d] = h.blocks[d]
  <2>1. DOMAIN rewritten = DOMAIN blocks /\ b \in DOMAIN blocks
    BY <1>1 DEF rewritten, Live
  <2>2. rewritten[b] = c /\ \A d \in DOMAIN blocks : d # b => rewritten[d] = blocks[d]
    BY <2>1 DEF rewritten
  <2> QED BY <1>1, <1>3, <2>1, <2>2 DEF Live
<1>5. c.kind = kind /\ c.refs = refs /\ c.pool = h.blocks[b].pool /\ c.data = h.blocks[b].data
  BY <1>2
<1>6. Q \subseteq Live(h) /\ Null \notin Live(h)
  BY SoundFacts
<1> DEFINE V == Values(h.blocks[b].refs)
<1>7. b \in Q => \A d \in Live(h) : b \notin Values(h.blocks[d].refs)
  BY DEF Sound
<1>8. \A d \in Live(h) : Values(h.blocks[d].refs) \cap Q = {} /\ Values(h.blocks[d].refs) \subseteq Live(h)
  BY <1>6 DEF Sound, BlockOK
<1> HIDE DEF V
<1>9. \A d \in Live(h) : Kind(g, d) = IF d = b THEN kind ELSE Kind(h, d)
  BY <1>4, <1>5, <1>6 DEF Kind
<1>0. b \notin Q => kind = h.blocks[b].kind
  BY DEF Changeable
<1>10. \A d \in Live(h) : d # b \/ b \notin Q => Kind(g, d) = Kind(h, d)
  BY <1>0, <1>9, <1>6 DEF Kind
<1>11. b \in Q => b \notin Values(refs)
  BY <1>7 DEF V, Takeable
<1>12. ASSUME NEW d \in Live(h), d # b PROVE BlockOK(g, d)
  <2>1. BlockOK(h, d)
    BY DEF Sound
  <2>2. ASSUME NEW r \in Values(h.blocks[d].refs)
        PROVE  r \in Live(g) /\ ~ g.blocks[r].pool /\ g.blocks[r].kind = h.blocks[r].kind
    <3>1. r \in Live(h) /\ ~ h.blocks[r].pool
      BY <2>1 DEF BlockOK
    <3>2. r = b => b \notin Q
      BY <1>7
    <3> QED BY <1>0, <1>4, <1>5, <3>1, <3>2
  <2>3. g.blocks[d] = [kind |-> h.blocks[d].kind, data |-> g.blocks[d].data,
                       refs |-> h.blocks[d].refs, pool |-> g.blocks[d].pool]
        /\ g.blocks[d].pool \in BOOLEAN
    BY <1>4, <1>12, <2>1 DEF BlockOK
  <2> QED BY <1>4, <1>6, <2>1, <2>2, <2>3, BlockKept
<1>13. BlockOK(g, b)
  <2>1. BlockOK(h, b)
    BY DEF Sound
  <2>2. h.blocks[b].pool \in BOOLEAN /\ \A r \in V : r \in Live(h) /\ ~ h.blocks[r].pool
    BY <2>1 DEF BlockOK, V
  <2>3. ASSUME NEW r \in Values(refs) PROVE r \in Live(g) /\ ~ g.blocks[r].pool
    <3>1. r \in Live(h) /\ ~ h.blocks[r].pool
      BY <1>6, <2>2 DEF V, Takeable
    <3> QED BY <1>4, <1>5, <3>1
  <2>4. \A k \in 1 .. Len(refs) : Kind(g, refs[k]) = Kind(h, refs[k])
    <3> SUFFICES ASSUME NEW k \in 1 .. Len(refs) PROVE Kind(g, refs[k]) = Kind(h, refs[k])
      OBVIOUS
    <3>1. CASE refs[k] = Null
      BY <3>1 DEF Kind
    <3>2. CASE refs[k] # Null
      <4>1. refs[k] \in Values(refs)
        BY <3>2 DEF Values
      <4>2. refs[k] \in Live(h) /\ (refs[k] # b \/ b \notin Q)
        BY <1>4, <1>11, <2>3, <4>1
      <4> QED BY <1>10, <4>2
    <3> QED BY <3>1, <3>2
  <2>5. [k \in 1 .. Len(refs) |-> Kind(g, refs[k])] \in Layouts(kind)
    BY <2>4 DEF LaidOut
  <2>6. g.blocks[b].kind = kind /\ g.blocks[b].refs = refs /\ g.blocks[b].pool = h.blocks[b].pool
        /\ g.blocks[b] = [kind |-> g.blocks[b].kind, data |-> g.blocks[b].data,
                          refs |-> g.blocks[b].refs, pool |-> g.blocks[b].pool]
    BY <1>4, <1>2, <1>5
  <2>7. [k \in 1 .. Len(g.blocks[b].refs) |-> Kind(g, g.blocks[b].refs[k])] \in Layouts(g.blocks[b].kind)
    BY <2>5, <2>6
  <2> QED BY <2>2, <2>3, <2>6, <2>7 DEF BlockOK, LaidOut
<1>14. \A d, e \in Live(g) : d # e => Values(g.blocks[d].refs) \cap Values(g.blocks[e].refs) = {}
  <2>1. \A d, e \in Live(h) : d # e => Values(h.blocks[d].refs) \cap Values(h.blocks[e].refs) = {}
    BY DEF Sound
  <2>2. \A d \in Live(h) : d # b => Values(h.blocks[d].refs) \cap Values(refs) = {}
    BY <1>8, <2>1
  <2> QED BY <1>4, <1>5, <2>1, <2>2
<1>15. \A d \in Live(g) : d \in Q \ W <=> \A e \in Live(g) : d \notin Values(g.blocks[e].refs)
  <2>1. ASSUME NEW d \in Q \ W, NEW e \in Live(g) PROVE d \notin Values(g.blocks[e].refs)
    BY <1>4, <1>5, <1>8
  <2>2. ASSUME NEW d \in Live(g), \A e \in Live(g) : d \notin Values(g.blocks[e].refs) PROVE d \in Q \ W
    <3>1. d \notin Values(refs)
      BY <1>4, <1>5, <2>2
    <3>2. \A e \in Live(h) : d \notin Values(h.blocks[e].refs)
      BY <1>4, <2>2, <3>1
    <3> QED BY <1>4, <3>1, <3>2 DEF Sound
  <2> QED BY <2>1, <2>2
<1>16. g.next \in Nat \ {0} /\ Live(g) \subseteq 1 .. g.next - 1
  BY <1>4 DEF Sound
<1>17. Sound(g, Q \ W)
  <2>1. \A d \in Live(g) : BlockOK(g, d)
    BY <1>4, <1>12, <1>13
  <2>2. Q \ W \subseteq Live(g)
    BY <1>4, <1>6
  <2>3. g = [blocks |-> g.blocks, next |-> g.next, misused |-> {}]
    BY <1>4
  <2>4. Rooted(g)
    <3>1. ASSUME NEW S \in SUBSET Live(h), S # {}
          PROVE  \E r \in S : \A d \in S : r \notin Values(h.blocks[d].refs)
      BY <3>1 DEF Sound, Rooted
    <3>2. ASSUME NEW S \in SUBSET Live(h), S # {}
          PROVE  \E r \in S : \A d \in S : r \notin Values(g.blocks[d].refs)
      <4>1. CASE b \notin S
        <5>1. PICK r \in S : \A d \in S : r \notin Values(h.blocks[d].refs)
          BY <3>1, <3>2
        <5> QED BY <1>4, <4>1, <5>1
      <4>2. CASE b \in S /\ b \in Q
        <5>1. \A d \in S : b \notin Values(g.blocks[d].refs)
          BY <1>4, <1>5, <1>7, <1>11, <4>2
        <5> QED BY <4>2, <5>1
      <4>3. CASE b \in S /\ b \notin Q
        <5>1. \A w \in W : w \in Live(h) /\ w # b /\ Values(g.blocks[w].refs) = {}
          BY <1>4, <1>6, <4>3 DEF Takeable, Changeable
        <5>2. PICK T \in SUBSET Live(h) : T = S \ W
          OBVIOUS
        <5>3. b \in T
          BY <4>3, <5>2 DEF Takeable
        <5>4. PICK r \in T : \A d \in T : r \notin Values(h.blocks[d].refs)
          BY <3>1, <5>3
        <5>5. ASSUME NEW d \in S PROVE r \notin Values(g.blocks[d].refs)
          BY <1>4, <1>5, <5>1, <5>2, <5>4
        <5> QED BY <5>2, <5>4, <5>5
      <4> QED BY <4>1, <4>2, <4>3
    <3> QED BY <1>4, <3>2 DEF Rooted
  <2> QED BY <1>14, <1>15, <1>16, <2>1, <2>2, <2>3, <2>4 DEF Sound
<1>18. Keeps(h, g, (Q \ W) \ {b})
  BY <1>4, <1>6, <1>9 DEF Keeps
<1> QED BY <1>4, <1>5, <1>9, <1>17, <1>18 DEF RewrittenTo

LEMMA CallocBuilds ==
  ASSUME NEW h, NEW R, NEW refs, Handed(h, R, refs), Unpooled(h, refs), NEW kind, LaidOut(h, refs, kind),
         NEW data, NEW out, out = Calloc(h, Block(kind, data, refs))
  PROVE  /\ Gives(h, out.heap, R, Target(out.value)) /\ out.value # Null /\ Kind(out.heap, out.value) = kind
         /\ ~ out.heap.blocks[out.value].pool
<1>1. PICK pool \in BOOLEAN : pool = FALSE
  OBVIOUS
<1>2. out = Place(h, Block(kind, data, refs), pool)
  BY <1>1 DEF Calloc
<1> QED BY <1>1, <1>2, BuiltGives DEF LaidOut

(***************************************************************************)
(* New nodes.                                                              *)
(***************************************************************************)
(* A value has been made, and what it was made of is freed.                *)
LEMMA SpentGives ==
  ASSUME NEW h, NEW R, NEW freed, IsSeq(freed), Distinct(freed), R \cap Values(freed) = {},
         \A b \in Values(freed) : Kind(h, b) \in EngineKinds /\ ~ h.blocks[b].pool,
         NEW m, NEW x, Gives(h, m, R \cup Values(freed), Target(x)),
         NEW kinds, Kind(m, x) \in kinds, NEW out, out = Result(FreeAll(m, freed), x)
  PROVE  Yielded(h, out, R, kinds)
<1> DEFINE T == Target(x)
           V == Values(freed)
           Q == R \cup T
<1>1. Sound(m, R \cup V \cup T) /\ (R \cup V) \cap T = {} /\ Keeps(h, m, R \cup V)
  BY DEF Gives
<1>2. R \cup V \cup T = Q \cup V /\ Q \cap V = {}
  BY <1>1
<1>3. Handed(m, Q, freed)
  BY <1>1, <1>2 DEF Handed
<1>4. \A b \in V : Kind(m, b) \in EngineKinds /\ ~ m.blocks[b].pool
  BY <1>1 DEF Keeps
<1> HIDE DEF Q, T, V
<1>5. Gives(m, FreeAll(m, freed), Q, {})
  BY <1>3, <1>4, FreeAllGives DEF V
<1>6. out.heap = FreeAll(m, freed) /\ out.value = x
  BY DEF Result
<1>7. Sound(out.heap, R \cup T) /\ Keeps(m, out.heap, Q)
  <2>1. Q \cup {} = R \cup T
    BY DEF Q
  <2> QED BY <1>5, <1>6, <2>1 DEF Gives
<1>8. Keeps(h, out.heap, R)
  BY <1>1, <1>7, KeepsLess, KeepsOn DEF Q
<1>9. Kind(out.heap, x) = Kind(m, x)
  <2>1. CASE x = Null
    BY <2>1 DEF Kind
  <2>2. CASE x # Null
    BY <1>7, <2>2 DEF Keeps, Q, T, Target
  <2> QED BY <2>1, <2>2
<1> QED BY <1>1, <1>6, <1>7, <1>8, <1>9 DEF Yielded, Gives, T

(* What the blocks of a tree are laid out as.                              *)
NodeLayouts ==
  /\ \A t \in {"SHEET"} : Layouts(t) = {<<"sheet", "nodes">>}
  /\ \A t \in {"CRATE", "LEGATO"} : Layouts(t) = {<<"null", "nodes">>}
  /\ \A t \in {"REST", "TIE", "DIVIDER", "EOF"} : Layouts(t) = {<<"null", "null">>}
  /\ \A t \in {"sheet", "note", "reference"} : Layouts(t) = {<<"chars">>}
  /\ \A t \in {"bpm", "interval", "controller", "program"} : Layouts(t) = {<< >>}
  /\ Layouts("nodes") = Seq(NodeKinds)

LEMMA LayoutFacts ==
  ASSUME KorlessaFunctions
  PROVE  NodeLayouts
BY DEF KorlessaFunctions, KorlessaLayouts, NodeLayouts

(* What a node without children is laid out as.                            *)
Payload(type) ==
  CASE type = "BPM"        -> "bpm"
    [] type = "NOTE"       -> "note"
    [] type = "INTERVAL"   -> "interval"
    [] type = "REFERENCE"  -> "reference"
    [] type = "CONTROLLER" -> "controller"
    [] type = "PROGRAM"    -> "program"

LEMMA PayloadFacts ==
  ASSUME KorlessaFunctions, NEW type \in {"BPM", "NOTE", "INTERVAL", "REFERENCE", "CONTROLLER", "PROGRAM"}
  PROVE  /\ Layouts(type) = {<<Payload(type), "null">>} /\ Payload(type) \notin {"null", "freed"}
         /\ type \notin {"null", "freed"}
BY DEF KorlessaFunctions, KorlessaLayouts, Payload

LEMMA TargetNull == Target(Null) = {} /\ \A h : Kind(h, Null) = "null"
BY DEF Target, Kind

(* A node that has been made of some values, some of which it keeps.       *)
LEMMA MadeGives ==
  ASSUME KorlessaFunctions, NEW h, NEW R, NEW xs, Handed(h, R, xs), Unpooled(h, xs),
         \A k \in 1 .. Len(xs) : xs[k] # Null,
         NEW kept, IsSeq(kept), Distinct(kept), NEW freed, IsSeq(freed), Distinct(freed),
         Values(kept) \cup Values(freed) = Values(xs), Values(kept) \cap Values(freed) = {},
         \A b \in Values(freed) : Kind(h, b) \in EngineKinds,
         NEW type \in {"BPM", "NOTE", "INTERVAL", "REFERENCE", "CONTROLLER", "PROGRAM"},
         [k \in 1 .. Len(kept) |-> Kind(h, kept[k])] \in Layouts(Payload(type)),
         NEW data, NEW out, out = Made(h, xs, type, Block(Payload(type), data, kept), freed)
  PROVE  Yielded(h, out, R, {type})
<1> DEFINE S == R \cup Values(freed)
           pk == Payload(type)
<1>1. Sound(h, R \cup Values(xs)) /\ R \cap Values(xs) = {}
  BY DEF Handed
<1>2. TouchAll(h, xs) = h
  <2>1. DOMAIN xs = 1 .. Len(xs)
    BY LenFacts DEF Handed
  <2>2. ToSet(xs) \subseteq Live(h)
    BY <1>1, <2>1, SoundFacts DEF ToSet, Values
  <2> QED BY <1>1, <2>2, TouchAllNothing
<1>3. PICK u : u = Calloc(h, Block(pk, data, kept))
  OBVIOUS
<1>4. PICK n : n = Calloc(u.heap, Block(type, 0, <<u.value, Null>>))
  OBVIOUS
<1>5. out = Result(FreeAll(n.heap, freed), n.value)
  BY <1>2, <1>3, <1>4 DEF Made
<1>6. Handed(h, S, kept) /\ Unpooled(h, kept)
  <2>1. S \cup Values(kept) = R \cup Values(xs) /\ S \cap Values(kept) = {}
    BY <1>1
  <2> QED BY <1>1, <2>1 DEF Handed, Unpooled
<1>7. pk \notin {"null", "freed"} /\ type \notin {"null", "freed"} /\ Layouts(type) = {<<pk, "null">>}
  BY PayloadFacts
<1> HIDE DEF S, pk
<1>8. /\ Gives(h, u.heap, S, Target(u.value)) /\ u.value # Null /\ Kind(u.heap, u.value) = pk
      /\ ~ u.heap.blocks[u.value].pool
  <2>1. LaidOut(h, kept, pk)
    BY <1>7 DEF pk, LaidOut
  <2> QED BY <1>3, <1>6, <2>1, CallocBuilds
<1> DEFINE pair == <<u.value, Null>>
<1>9. IsSeq(pair) /\ Len(pair) = 2 /\ Distinct(pair) /\ Values(pair) = Target(u.value)
  <2>1. Target(u.value) \cap Target(Null) = {} /\ Target(u.value) \cup Target(Null) = Target(u.value)
    BY TargetNull
  <2>2. IsSeq(pair) /\ Len(pair) = 2 /\ Distinct(pair) /\ Values(pair) = Target(u.value) \cup Target(Null)
    BY <2>1, Two
  <2> HIDE DEF pair
  <2> QED BY <2>1, <2>2
<1>10. [k \in 1 .. Len(pair) |-> Kind(u.heap, pair[k])] = <<pk, "null">>
  <2>1. pair[1] = u.value /\ pair[2] = Null
    OBVIOUS
  <2> HIDE DEF pair
  <2>2. 1 .. Len(pair) = {1, 2}
    BY <1>9
  <2>3. Kind(u.heap, pair[1]) = pk /\ Kind(u.heap, pair[2]) = "null"
    BY <1>8, <2>1, TargetNull
  <2> QED BY <2>2, <2>3
<1> HIDE DEF pair
<1>11. Handed(u.heap, S, pair) /\ Unpooled(u.heap, pair)
  BY <1>8, <1>9 DEF Handed, Unpooled, Gives, Target
<1>12. Gives(u.heap, n.heap, S, Target(n.value)) /\ Kind(n.heap, n.value) = type
  <2>1. PICK zero : n = Calloc(u.heap, Block(type, zero, pair))
    BY <1>4 DEF pair
  <2>2. LaidOut(u.heap, pair, type)
    BY <1>7, <1>10 DEF LaidOut
  <2> QED BY <1>11, <2>1, <2>2, CallocBuilds
<1>13. Gives(h, n.heap, S, Target(n.value))
  BY <1>8, <1>12, KeepsOn DEF Gives
<1>14. \A b \in Values(freed) : Kind(h, b) \in EngineKinds /\ ~ h.blocks[b].pool
  BY DEF Unpooled
<1>15. R \cap Values(freed) = {} /\ Kind(n.heap, n.value) \in {type}
  BY <1>1, <1>12
<1> QED BY <1>5, <1>13, <1>14, <1>15, SpentGives DEF S

(* A node that keeps none of what it is made of.                           *)
LEMMA PlainNodeGives ==
  ASSUME KorlessaFunctions, NEW h, NEW R, NEW xs, Handed(h, R, xs), Unpooled(h, xs),
         \A k \in 1 .. Len(xs) : Kind(h, xs[k]) \in EngineKinds,
         NEW type \in {"BPM", "INTERVAL", "CONTROLLER", "PROGRAM"},
         NEW data, NEW out, out = Made(h, xs, type, Block(Payload(type), data, << >>), xs)
  PROVE  Yielded(h, out, R, {type})
<1> DEFINE kept == << >>
<1>1. IsSeq(kept) /\ Distinct(kept) /\ Values(kept) = {}
  BY DEF Values, IsSeq, Distinct
<1>2. [k \in 1 .. Len(kept) |-> Kind(h, kept[k])] = << >>
  OBVIOUS
<1>3. Layouts(Payload(type)) = {<< >>}
  <2>1. Payload(type) \in {"bpm", "interval", "controller", "program"}
    BY DEF Payload
  <2> QED BY <2>1, LayoutFacts DEF NodeLayouts
<1>4. \A k \in 1 .. Len(xs) : xs[k] # Null
  BY TargetNull DEF EngineKinds
<1>5. \A b \in Values(xs) : Kind(h, b) \in EngineKinds
  BY DEF Values
<1>6. type \in {"BPM", "NOTE", "INTERVAL", "REFERENCE", "CONTROLLER", "PROGRAM"}
  OBVIOUS
<1>7. out = Made(h, xs, type, Block(Payload(type), data, kept), xs)
  OBVIOUS
<1> HIDE DEF kept
<1>8. Values(kept) \cup Values(xs) = Values(xs) /\ Values(kept) \cap Values(xs) = {}
  BY <1>1
<1>9. [k \in 1 .. Len(kept) |-> Kind(h, kept[k])] \in Layouts(Payload(type))
  BY <1>2, <1>3
<1>10. IsSeq(xs) /\ Distinct(xs)
  BY DEF Handed
<1> QED BY <1>1, <1>4, <1>5, <1>6, <1>7, <1>8, <1>9, <1>10, MadeGives

(* A node that keeps one of the strings it is made of.                     *)
LEMMA NamedNodeGives ==
  ASSUME KorlessaFunctions, NEW h, NEW R, NEW xs, Handed(h, R, xs), Unpooled(h, xs),
         \A k \in 1 .. Len(xs) : Kind(h, xs[k]) \in EngineKinds,
         NEW i \in 1 .. Len(xs), Kind(h, xs[i]) = "chars",
         NEW freed, IsSeq(freed), Distinct(freed), Values(freed) = Values(xs) \ {xs[i]},
         NEW type \in {"NOTE", "REFERENCE"},
         NEW data, NEW out, out = Made(h, xs, type, Block(Payload(type), data, <<xs[i]>>), freed)
  PROVE  Yielded(h, out, R, {type})
<1> DEFINE kept == <<xs[i]>>
<1>1. \A k \in 1 .. Len(xs) : xs[k] # Null
  BY TargetNull DEF EngineKinds
<1>2. IsSeq(kept) /\ Distinct(kept) /\ Values(kept) = {xs[i]} /\ Len(kept) = 1
  BY <1>1, One DEF Target
<1>3. [k \in 1 .. Len(kept) |-> Kind(h, kept[k])] = <<"chars">>
  <2>1. kept[1] = xs[i]
    OBVIOUS
  <2> HIDE DEF kept
  <2> QED BY <1>2, <2>1
<1>4. Layouts(Payload(type)) = {<<"chars">>}
  <2>1. Payload(type) \in {"note", "reference"}
    BY DEF Payload
  <2>2. \A t \in {"sheet", "note", "reference"} : Layouts(t) = {<<"chars">>}
    BY LayoutFacts DEF NodeLayouts
  <2> QED BY <2>1, <2>2
<1>5. \A b \in Values(freed) : Kind(h, b) \in EngineKinds
  BY DEF Values
<1>6. type \in {"BPM", "NOTE", "INTERVAL", "REFERENCE", "CONTROLLER", "PROGRAM"}
  OBVIOUS
<1>7. out = Made(h, xs, type, Block(Payload(type), data, kept), freed)
  OBVIOUS
<1> HIDE DEF kept
<1>8. xs[i] \in Values(xs)
  BY <1>1 DEF Values
<1>9. Values(kept) \cup Values(freed) = Values(xs) /\ Values(kept) \cap Values(freed) = {}
  BY <1>2, <1>8
<1>10. [k \in 1 .. Len(kept) |-> Kind(h, kept[k])] \in Layouts(Payload(type))
  BY <1>3, <1>4
<1> QED BY <1>1, <1>2, <1>5, <1>6, <1>7, <1>9, <1>10, MadeGives

(* A string or a number that is made of some.                              *)
LEMMA FreshGives ==
  ASSUME NEW h, NEW R, NEW xs, Handed(h, R, xs), Unpooled(h, xs),
         \A k \in 1 .. Len(xs) : Kind(h, xs[k]) \in EngineKinds,
         NEW kind \in EngineKinds, NEW data, NEW new, new = Calloc(h, Block(kind, data, << >>)),
         NEW out, out = Result(FreeAll(new.heap, xs), new.value)
  PROVE  Yielded(h, out, R, {kind})
<1>1. Gives(h, new.heap, R \cup Values(xs), Target(new.value)) /\ Kind(new.heap, new.value) = kind
  BY CallocGives DEF Handed
<1>2. \A b \in Values(xs) : Kind(h, b) \in EngineKinds /\ ~ h.blocks[b].pool
  BY DEF Values, Unpooled
<1>3. IsSeq(xs) /\ Distinct(xs) /\ R \cap Values(xs) = {} /\ Kind(new.heap, new.value) \in {kind}
  BY <1>1 DEF Handed
<1> QED BY <1>1, <1>2, <1>3, SpentGives

LEMMA TouchedNothing ==
  ASSUME NEW h, NEW R, NEW xs, Handed(h, R, xs), \A k \in 1 .. Len(xs) : xs[k] # Null
  PROVE  TouchAll(h, xs) = h
<1>1. DOMAIN xs = 1 .. Len(xs)
  BY LenFacts DEF Handed
<1>2. Sound(h, R \cup Values(xs))
  BY DEF Handed
<1>3. ToSet(xs) \subseteq Live(h)
  BY <1>1, <1>2, SoundFacts DEF ToSet, Values
<1> QED BY <1>2, <1>3, TouchAllNothing

(***************************************************************************)
(* The folds.                                                              *)
(***************************************************************************)
Taken(h, xs, kinds) == Len(xs) = Len(kinds) /\ \A k \in 1 .. Len(xs) : Kind(h, xs[k]) = kinds[k]

PlainFolds == {"bpm_fold", "interval_fold", "controller_fold", "program_fold"}

LEMMA PlainFoldGives ==
  ASSUME KorlessaFunctions, NEW f \in PlainFolds, NEW h, NEW R, NEW xs, Handed(h, R, xs), Unpooled(h, xs),
         Taken(h, xs, Takes(f)), NEW out, out = Fold(h, f, xs)
  PROVE  Yielded(h, out, R, Returns(f))
<1>1. \A k \in 1 .. Len(xs) : Kind(h, xs[k]) \in EngineKinds
  <2>1. Takes(f) \in Seq(EngineKinds)
    <3>1. f = "controller_fold" \/ f \in PairFolds
      BY DEF PlainFolds, PairFolds
    <3>2. CASE f \in PairFolds
      <4>1. Takes(f) = <<"chars", "chars">>
        BY <3>2 DEF Takes, PairFolds
      <4> QED BY <4>1 DEF EngineKinds
    <3>3. CASE f = "controller_fold"
      <4>1. Takes(f) = <<"chars", "chars", "chars", "int">>
        BY <3>3 DEF Takes, PairFolds
      <4> QED BY <4>1 DEF EngineKinds
    <3> QED BY <3>1, <3>2, <3>3
  <2> QED BY <2>1 DEF Taken
<1>2. CASE f = "bpm_fold"
  <2>1. PICK data : out = Made(h, xs, "BPM", Block(Payload("BPM"), data, << >>), xs)
    BY <1>2 DEF Fold, BpmFold, Payload
  <2>2. PICK type \in {"BPM", "INTERVAL", "CONTROLLER", "PROGRAM"} : type = "BPM"
    OBVIOUS
  <2>3. Yielded(h, out, R, {type})
    BY <1>1, <2>1, <2>2, PlainNodeGives
  <2> QED BY <1>2, <2>2, <2>3 DEF Returns
<1>3. CASE f = "interval_fold"
  <2>1. PICK data : out = Made(h, xs, "INTERVAL", Block(Payload("INTERVAL"), data, << >>), xs)
    BY <1>3 DEF Fold, IntervalFold, Payload
  <2>2. PICK type \in {"BPM", "INTERVAL", "CONTROLLER", "PROGRAM"} : type = "INTERVAL"
    OBVIOUS
  <2>3. Yielded(h, out, R, {type})
    BY <1>1, <2>1, <2>2, PlainNodeGives
  <2> QED BY <1>3, <2>2, <2>3 DEF Returns
<1>4. CASE f = "controller_fold"
  <2>1. PICK data : out = Made(h, xs, "CONTROLLER", Block(Payload("CONTROLLER"), data, << >>), xs)
    BY <1>4 DEF Fold, ControllerFold, Payload
  <2>2. PICK type \in {"BPM", "INTERVAL", "CONTROLLER", "PROGRAM"} : type = "CONTROLLER"
    OBVIOUS
  <2>3. Yielded(h, out, R, {type})
    BY <1>1, <2>1, <2>2, PlainNodeGives
  <2> QED BY <1>4, <2>2, <2>3 DEF Returns
<1>5. CASE f = "program_fold"
  <2>1. PICK data : out = Made(h, xs, "PROGRAM", Block(Payload("PROGRAM"), data, << >>), xs)
    BY <1>5 DEF Fold, ProgramFold, Payload
  <2>2. PICK type \in {"BPM", "INTERVAL", "CONTROLLER", "PROGRAM"} : type = "PROGRAM"
    OBVIOUS
  <2>3. Yielded(h, out, R, {type})
    BY <1>1, <2>1, <2>2, PlainNodeGives
  <2> QED BY <1>5, <2>2, <2>3 DEF Returns
<1> QED BY <1>2, <1>3, <1>4, <1>5 DEF PlainFolds

(* All but one of the values.                                              *)
LEMMA AllBut ==
  ASSUME NEW xs, IsSeq(xs), Distinct(xs), NEW i \in 1 .. Len(xs), xs[i] # Null,
         NEW freed, freed = [xs EXCEPT ![i] = Null]
  PROVE  IsSeq(freed) /\ Distinct(freed) /\ Values(freed) = Values(xs) \ {xs[i]}
<1> DEFINE S == ToSet(xs) \cup {Null}
<1>1. xs \in Seq(S) /\ Len(xs) \in Nat /\ DOMAIN xs = 1 .. Len(xs)
  <2>1. \A k \in 1 .. Len(xs) : xs[k] \in S
    BY LenFacts DEF ToSet
  <2>2. xs \in Seq(ToSet(xs))
    BY DEF IsSeq
  <2> HIDE DEF S
  <2> QED BY <2>1, <2>2
<1>2. Null \in S
  OBVIOUS
<1> HIDE DEF S
<1>3. freed \in Seq(S) /\ Len(freed) = Len(xs) /\ freed[i] = Null
      /\ \A k \in 1 .. Len(xs) : k # i => freed[k] = xs[k]
  BY <1>1, <1>2
<1>4. IsSeq(freed)
  BY <1>3, SeqOfAnything
<1>5. Distinct(freed)
  BY <1>3 DEF Distinct
<1>6. Values(freed) = Values(xs) \ {xs[i]}
  <2>1. ASSUME NEW b \in Values(freed) PROVE b \in Values(xs) \ {xs[i]}
    <3>1. PICK k \in 1 .. Len(xs) : freed[k] = b /\ b # Null
      BY <1>3 DEF Values
    <3> QED BY <1>3, <3>1 DEF Values, Distinct
  <2>2. ASSUME NEW b \in Values(xs) \ {xs[i]} PROVE b \in Values(freed)
    <3>1. PICK k \in 1 .. Len(xs) : xs[k] = b /\ b # Null
      BY DEF Values
    <3>2. freed[k] = b
      BY <1>3, <3>1
    <3> QED BY <1>3, <3>1, <3>2 DEF Values
  <2> QED BY <2>1, <2>2
<1> QED BY <1>4, <1>5, <1>6

LEMMA NoteFoldGives ==
  ASSUME KorlessaFunctions, NEW h, NEW R, NEW xs, Handed(h, R, xs), Unpooled(h, xs),
         Taken(h, xs, Takes("note_fold")), NEW out, out = Fold(h, "note_fold", xs)
  PROVE  Yielded(h, out, R, Returns("note_fold"))
<1>1. Len(xs) = 5 /\ \A k \in 1 .. Len(xs) : Kind(h, xs[k]) \in EngineKinds
  <2>1. PICK kinds : kinds = Takes("note_fold")
    OBVIOUS
  <2>2. kinds = <<"int", "chars", "chars", "int", "int">>
    BY <2>1 DEF Takes, PairFolds
  <2>3. "int" \in EngineKinds /\ "chars" \in EngineKinds
    BY DEF EngineKinds
  <2>4. kinds \in Seq(EngineKinds) /\ Len(kinds) = 5
    BY <2>2, <2>3
  <2>5. Taken(h, xs, kinds)
    BY <2>1
  <2> QED BY <2>4, <2>5 DEF Taken
<1>2. 3 \in 1 .. Len(xs) /\ Kind(h, xs[3]) = "chars"
  <2>1. Takes("note_fold") = <<"int", "chars", "chars", "int", "int">>
    BY DEF Takes, PairFolds
  <2>2. Takes("note_fold")[3] = "chars"
    BY <2>1
  <2>3. 3 \in 1 .. Len(xs)
    BY <1>1
  <2> QED BY <2>2, <2>3 DEF Taken
<1>3. PICK freed : freed = [xs EXCEPT ![3] = Null]
  OBVIOUS
<1>4. PICK data : out = Made(h, xs, "NOTE", Block(Payload("NOTE"), data, <<xs[3]>>), freed)
  BY <1>3 DEF Fold, NoteFold, Payload
<1>5. PICK type \in {"NOTE", "REFERENCE"} : type = "NOTE"
  OBVIOUS
<1>6. out = Made(h, xs, type, Block(Payload(type), data, <<xs[3]>>), freed)
  BY <1>4, <1>5
<1>7. xs[3] # Null
  BY <1>1, <1>2, TargetNull DEF EngineKinds
<1>8. IsSeq(freed) /\ Distinct(freed) /\ Values(freed) = Values(xs) \ {xs[3]}
  BY <1>2, <1>3, <1>7, AllBut DEF Handed
<1>9. Yielded(h, out, R, {type})
  BY <1>1, <1>2, <1>6, <1>8, NamedNodeGives
<1> QED BY <1>5, <1>9 DEF Returns

LEMMA ReferenceFoldGives ==
  ASSUME KorlessaFunctions, NEW h, NEW R, NEW xs, Handed(h, R, xs), Unpooled(h, xs),
         Taken(h, xs, Takes("reference_fold")), NEW out, out = Fold(h, "reference_fold", xs)
  PROVE  Yielded(h, out, R, Returns("reference_fold"))
<1>1. Takes("reference_fold") = <<"chars", "int">>
  BY DEF Takes, PairFolds
<1>2. Len(xs) = 2 /\ 1 \in 1 .. Len(xs) /\ 2 \in 1 .. Len(xs)
  BY <1>1 DEF Taken
<1>3. Kind(h, xs[1]) = "chars" /\ Kind(h, xs[2]) = "int"
  BY <1>1, <1>2 DEF Taken
<1>4. \A k \in 1 .. Len(xs) : k = 1 \/ k = 2
  BY <1>2
<1>5. \A k \in 1 .. Len(xs) : Kind(h, xs[k]) \in EngineKinds
  BY <1>3, <1>4 DEF EngineKinds
<1>6. PICK freed : freed = <<xs[2]>>
  OBVIOUS
<1>7. PICK data : out = Made(h, xs, "REFERENCE", Block(Payload("REFERENCE"), data, <<xs[1]>>), freed)
  BY <1>6 DEF Fold, ReferenceFold, Payload
<1>8. PICK type \in {"NOTE", "REFERENCE"} : type = "REFERENCE"
  OBVIOUS
<1>9. out = Made(h, xs, type, Block(Payload(type), data, <<xs[1]>>), freed)
  BY <1>7, <1>8
<1>10. xs[1] # Null /\ xs[2] # Null
  BY <1>3, TargetNull
<1>11. IsSeq(freed) /\ Distinct(freed) /\ Values(freed) = {xs[2]}
  BY <1>6, <1>10, One DEF Target
<1>12. Values(freed) = Values(xs) \ {xs[1]}
  <2>1. Values(xs) = {xs[1], xs[2]}
    BY <1>2, <1>4, <1>10 DEF Values
  <2>2. xs[1] # xs[2]
    BY <1>2, <1>10 DEF Handed, Distinct
  <2> QED BY <1>11, <2>1, <2>2
<1>13. Yielded(h, out, R, {type})
  BY <1>2, <1>3, <1>5, <1>9, <1>11, <1>12, NamedNodeGives
<1> QED BY <1>8, <1>13 DEF Returns

LEMMA StringFoldGives ==
  ASSUME KorlessaFunctions, NEW f \in {"duration_fold", "repeater_fold"},
         NEW h, NEW R, NEW xs, Handed(h, R, xs), Unpooled(h, xs),
         Taken(h, xs, Takes(f)), NEW out, out = Fold(h, f, xs)
  PROVE  Yielded(h, out, R, Returns(f))
<1>1. \A k \in 1 .. Len(xs) : Kind(h, xs[k]) \in EngineKinds
  <2>1. Takes(f) \in Seq(EngineKinds)
    <3>1. CASE f = "duration_fold"
      <4>1. Takes(f) = <<"chars", "chars", "chars">>
        BY <3>1 DEF Takes, PairFolds
      <4> QED BY <4>1 DEF EngineKinds
    <3>2. CASE f = "repeater_fold"
      <4>1. Takes(f) = <<"chars", "chars">>
        BY <3>2 DEF Takes, PairFolds
      <4> QED BY <4>1 DEF EngineKinds
    <3> QED BY <3>1, <3>2
  <2> QED BY <2>1 DEF Taken
<1>2. \A k \in 1 .. Len(xs) : xs[k] # Null
  BY <1>1, TargetNull DEF EngineKinds
<1>3. TouchAll(h, xs) = h
  BY <1>2, TouchedNothing
<1>4. PICK kind, data, new : kind \in EngineKinds /\ kind \in Returns(f) /\ new = Calloc(h, Block(kind, data, << >>))
                             /\ out = Result(FreeAll(new.heap, xs), new.value)
  <2>1. CASE f = "duration_fold"
    <3>1. PICK data : out = LET d == Calloc(h, Block("chars", data, << >>)) IN Result(FreeAll(d.heap, xs), d.value)
      BY <1>3, <2>1 DEF Fold, DurationFold, CallocChars
    <3>2. "chars" \in EngineKinds /\ "chars" \in Returns(f)
      BY <2>1 DEF EngineKinds, Returns
    <3> QED BY <3>1, <3>2
  <2>2. CASE f = "repeater_fold"
    <3>1. PICK data : out = LET d == Calloc(h, Block("int", data, << >>)) IN Result(FreeAll(d.heap, xs), d.value)
      BY <1>3, <2>2 DEF Fold, RepeaterFold, CallocInt
    <3>2. "int" \in EngineKinds /\ "int" \in Returns(f)
      BY <2>2 DEF EngineKinds, Returns
    <3> QED BY <3>1, <3>2
  <2> QED BY <2>1, <2>2
<1>5. Yielded(h, out, R, {kind})
  BY <1>1, <1>4, FreshGives
<1> QED BY <1>4, <1>5 DEF Yielded

(* What a parent points to.                                                *)
LEMMA CrateFacts ==
  ASSUME KorlessaFunctions, NEW h, NEW Q, Sound(h, Q), NEW b, Kind(h, b) \in {"CRATE", "LEGATO"}
  PROVE  /\ b \in Live(h)
         /\ \E n \in Live(h) : /\ h.blocks[b].refs = <<Null, n>> /\ Kind(h, n) = "nodes" /\ n # b /\ n \notin Q
                               /\ ~ h.blocks[n].pool /\ Values(h.blocks[b].refs) = {n}
<1>1. b \in Live(h) /\ h.blocks[b].kind = Kind(h, b)
  BY DEF Kind
<1> DEFINE refs == h.blocks[b].refs
           kinds == [k \in 1 .. Len(refs) |-> Kind(h, refs[k])]
<1>2. IsSeq(refs) /\ kinds \in Layouts(h.blocks[b].kind) /\ \A r \in Values(refs) : r \in Live(h) /\ ~ h.blocks[r].pool
  BY <1>1 DEF Sound, BlockOK
<1>3. kinds = <<"null", "nodes">>
  BY <1>1, <1>2, LayoutFacts DEF NodeLayouts
<1> HIDE DEF refs
<1>4. Len(refs) = 2 /\ Len(refs) \in Nat
  <2>1. DOMAIN kinds = 1 .. Len(refs) /\ DOMAIN <<"null", "nodes">> = 1 .. 2
    OBVIOUS
  <2>2. Len(refs) \in Nat
    BY <1>2, LenFacts
  <2> HIDE DEF kinds
  <2> QED BY <1>3, <2>1, <2>2
<1>5. Kind(h, refs[1]) = "null" /\ Kind(h, refs[2]) = "nodes"
  <2>1. kinds[1] = "null" /\ kinds[2] = "nodes"
    BY <1>3
  <2> QED BY <1>4, <2>1
<1>6. refs[1] = Null /\ refs[2] # Null
  BY <1>5, KindFacts
<1>7. refs = <<Null, refs[2]>>
  <2>1. refs \in Seq(ToSet(refs))
    BY <1>2 DEF IsSeq
  <2> QED BY <1>4, <1>6, <2>1
<1>8. Values(refs) = {refs[2]}
  BY <1>4, <1>6 DEF Values
<1>9. refs[2] \in Live(h) /\ ~ h.blocks[refs[2]].pool
  BY <1>2, <1>8
<1>10. refs[2] # b /\ refs[2] \notin Q
  <2>1. Kind(h, b) # "nodes"
    OBVIOUS
  <2>2. refs[2] \notin Q
    BY <1>1, <1>8, <1>9 DEF Sound, refs
  <2> QED BY <1>5, <2>1, <2>2
<1> QED BY <1>1, <1>5, <1>7, <1>8, <1>9, <1>10 DEF refs

LEMMA LegatoGives ==
  ASSUME KorlessaFunctions, NEW h, NEW R, NEW x, Sound(h, R \cup {x}), x \notin R, Kind(h, x) = "CRATE",
         NEW out, out = ApplyFunction(h, "apply_legato", x)
  PROVE  Yielded(h, out, R, {"LEGATO"})
<1> DEFINE Q == R \cup {x}
<1>1. PICK n \in Live(h) : h.blocks[x].refs = <<Null, n>> /\ Kind(h, n) = "nodes" /\ Values(h.blocks[x].refs) = {n}
  BY CrateFacts
<1>2. x \in Live(h) /\ x # Null
  BY SoundFacts
<1>3. Touch(h, x) = h
  <2>1. ToSet(<<x>>) \subseteq Live(h)
    BY <1>2 DEF ToSet
  <2> QED BY <2>1, TouchAllNothing DEF Touch
<1>0. PICK refs : refs = h.blocks[x].refs
  OBVIOUS
<1> DEFINE old == h.blocks[x]
<1>4. BlockOK(h, x)
  BY <1>2 DEF Sound
<1>5. old = [kind |-> old.kind, data |-> old.data, refs |-> refs, pool |-> old.pool] /\ IsSeq(refs) /\ Distinct(refs)
      /\ [k \in 1 .. Len(refs) |-> Kind(h, refs[k])] \in Layouts("CRATE")
  <2>1. old.kind = "CRATE"
    BY <1>2 DEF Kind
  <2> QED BY <1>0, <1>4, <2>1 DEF BlockOK
<1>6. PICK kind : kind = "LEGATO"
  OBVIOUS
<1>7. LaidOut(h, refs, kind)
  BY <1>5, <1>6, LayoutFacts DEF NodeLayouts, LaidOut
<1>8. PICK g : g = Rewritten(h, x, kind, refs)
  OBVIOUS
<1>9. out.heap = g /\ out.value = x
  <2>1. [old EXCEPT !.kind = kind] = [kind |-> kind, data |-> h.blocks[x].data, refs |-> refs, pool |-> h.blocks[x].pool]
    BY <1>0, <1>5
  <2>2. g = [h EXCEPT !.blocks = [@ EXCEPT ![x] = [old EXCEPT !.kind = kind]]]
    BY <1>8, <2>1 DEF Rewritten
  <2> QED BY <1>3, <1>6, <2>2 DEF ApplyFunction, Result
<1>10. Sound(g, Q) /\ Keeps(h, g, Q \ {x}) /\ Kind(g, x) = kind
  <2>1. PICK W \in SUBSET Q : W = {}
    OBVIOUS
  <2>2. Takeable(h, x, W) /\ Values(refs) = Values(h.blocks[x].refs) \cup W /\ Q \ W = Q
    BY <1>0, <2>1 DEF Takeable
  <2>3. Changeable(h, Q, x, W, kind) /\ Sound(h, Q) /\ IsSeq(refs) /\ Distinct(refs)
    BY <1>5 DEF Changeable
  <2> HIDE DEF Q
  <2>4. RewrittenTo(h, g, Q, x, W, kind)
    BY <1>2, <1>7, <1>8, <2>2, <2>3, RewrittenSound
  <2> QED BY <2>2, <2>4 DEF RewrittenTo
<1>11. Target(x) = {x} /\ Q \ {x} = R
  BY <1>2 DEF Target
<1> QED BY <1>6, <1>9, <1>10, <1>11 DEF Yielded, Gives

(* The payload takes the label; the crate, which takes the payload, is     *)
(* handed on and the rest is freed.                                        *)
LEMMA SheetFoldGives ==
  ASSUME KorlessaFunctions, NEW h, NEW R, NEW xs, Handed(h, R, xs), Unpooled(h, xs),
         Taken(h, xs, Takes("sheet_fold")), NEW out, out = Fold(h, "sheet_fold", xs)
  PROVE  Yielded(h, out, R, Returns("sheet_fold"))
<1>1. PICK x1, x2, x3, x4 : x1 = xs[1] /\ x2 = xs[2] /\ x3 = xs[3] /\ x4 = xs[4]
  OBVIOUS
<1>2. Len(xs) = 4 /\ Kind(h, x1) = "chars" /\ Kind(h, x2) = "chars" /\ Kind(h, x3) = "CRATE" /\ Kind(h, x4) = "int"
  <2>1. Takes("sheet_fold") = <<"chars", "chars", "CRATE", "int">>
    BY DEF Takes, PairFolds
  <2>2. Len(xs) = 4
    BY <2>1 DEF Taken
  <2> QED BY <1>1, <2>1, <2>2 DEF Taken
<1>3. x1 # Null /\ x2 # Null /\ x3 # Null /\ x4 # Null
  BY <1>2, TargetNull
<1>4. 1 .. Len(xs) = {1, 2, 3, 4}
  BY <1>2
<1>5. x1 # x2 /\ x1 # x3 /\ x1 # x4 /\ x2 # x3 /\ x2 # x4 /\ x3 # x4
  BY <1>1, <1>3, <1>4 DEF Handed, Distinct
<1>6. Values(xs) = {x1, x2, x3, x4}
  BY <1>1, <1>3, <1>4 DEF Values
<1>7. TouchAll(h, xs) = h
  <2>1. \A k \in 1 .. Len(xs) : xs[k] # Null
    BY <1>1, <1>3, <1>4
  <2> QED BY <2>1, TouchedNothing
<1> DEFINE S == R \cup {x2, x3, x4}
<1>8. Handed(h, S, <<x1>>) /\ Unpooled(h, <<x1>>)
  <2>1. IsSeq(<<x1>>) /\ Distinct(<<x1>>) /\ Values(<<x1>>) = {x1}
    BY <1>3, One DEF Target
  <2>2. S \cup {x1} = R \cup Values(xs) /\ S \cap {x1} = {}
    BY <1>5, <1>6 DEF Handed
  <2> HIDE DEF S
  <2> QED BY <1>6, <2>1, <2>2 DEF Handed, Unpooled
<1>9. PICK kind : kind = "sheet"
  OBVIOUS
<1>10. LaidOut(h, <<x1>>, kind)
  <2>1. Layouts(kind) = {<<"chars">>} /\ kind \notin {"null", "freed"}
    BY <1>9, LayoutFacts DEF NodeLayouts
  <2>2. [k \in 1 .. Len(<<x1>>) |-> Kind(h, (<<x1>>)[k])] = <<"chars">>
    BY <1>2
  <2> QED BY <2>1, <2>2 DEF LaidOut
<1>11. PICK data, u : u = Calloc(h, Block(kind, data, <<x1>>))
                      /\ out = Result(FreeAll([u.heap EXCEPT !.blocks[x3].kind = "SHEET", !.blocks[x3].refs[1] = u.value],
                                              <<x2, x4>>), x3)
  BY <1>1, <1>7, <1>9 DEF Fold, SheetFold
<1>12. Gives(h, u.heap, S, {u.value}) /\ u.value # Null /\ Kind(u.heap, u.value) = kind /\ ~ u.heap.blocks[u.value].pool
  <2> HIDE DEF S
  <2>1. Gives(h, u.heap, S, Target(u.value)) /\ u.value # Null /\ Kind(u.heap, u.value) = kind
        /\ ~ u.heap.blocks[u.value].pool
    BY <1>8, <1>10, <1>11, CallocBuilds
  <2>2. Target(u.value) = {u.value}
    BY <2>1 DEF Target
  <2> QED BY <2>1, <2>2
<1>13. PICK m, v : m = u.heap /\ v = u.value
  OBVIOUS
<1> DEFINE Q == S \cup {v}
<1>14. Sound(m, Q) /\ v \notin S /\ x3 \in Q /\ v \in Q /\ Keeps(h, m, S) /\ v # x3
  BY <1>12, <1>13 DEF Gives
<1>15. Kind(m, x3) = "CRATE" /\ Kind(m, x2) = Kind(h, x2) /\ Kind(m, x4) = Kind(h, x4) /\ x3 \in Live(m)
  BY <1>2, <1>14 DEF Keeps
<1> HIDE DEF Q
<1>16. PICK n \in Live(m) : m.blocks[x3].refs = <<Null, n>> /\ Kind(m, n) = "nodes" /\ n \notin Q
                            /\ Values(m.blocks[x3].refs) = {n}
  BY <1>14, <1>15, CrateFacts
<1>17. PICK sheet, refs : sheet = "SHEET" /\ refs = <<v, n>>
  OBVIOUS
<1>18. IsSeq(refs) /\ Distinct(refs) /\ Values(refs) = Values(m.blocks[x3].refs) \cup {v}
  <2>1. n # Null /\ n # v /\ v # Null
    BY <1>12, <1>13, <1>14, <1>16, SoundFacts
  <2>2. Target(v) = {v} /\ Target(n) = {n} /\ Target(v) \cap Target(n) = {}
    BY <2>1 DEF Target
  <2>3. IsSeq(<<v, n>>) /\ Distinct(<<v, n>>) /\ Values(<<v, n>>) = Target(v) \cup Target(n)
    BY <2>2, Two
  <2> QED BY <1>16, <1>17, <2>2, <2>3
<1>19. LaidOut(m, refs, sheet)
  <2>1. Layouts(sheet) = {<<"sheet", "nodes">>} /\ sheet \notin {"null", "freed"}
    BY <1>17, LayoutFacts DEF NodeLayouts
  <2>2. [k \in 1 .. Len(refs) |-> Kind(m, refs[k])] = <<"sheet", "nodes">>
    BY <1>9, <1>12, <1>13, <1>16, <1>17
  <2> QED BY <2>1, <2>2 DEF LaidOut
<1>20. PICK g : g = Rewritten(m, x3, sheet, refs)
  OBVIOUS
<1>21. out = Result(FreeAll(g, <<x2, x4>>), x3)
  <2>1. PICK blocks, next : m = [blocks |-> blocks, next |-> next, misused |-> {}]
    BY <1>14 DEF Sound
  <2>2. BlockOK(m, x3)
    BY <1>14, <1>15 DEF Sound
  <2>3. PICK old : old = m.blocks[x3]
    OBVIOUS
  <2>4. old = [kind |-> old.kind, data |-> old.data, refs |-> <<Null, n>>, pool |-> old.pool]
    BY <1>16, <2>2, <2>3 DEF BlockOK
  <2>5. PICK typed : typed = [kind |-> sheet, data |-> old.data, refs |-> <<Null, n>>, pool |-> old.pool]
    OBVIOUS
  <2>6. PICK new : new = [kind |-> sheet, data |-> old.data, refs |-> refs, pool |-> old.pool]
    OBVIOUS
  <2>7. [old EXCEPT !.kind = sheet] = typed
    BY <2>4, <2>5
  <2>8. [typed EXCEPT !.refs = refs] = new
    BY <2>5, <2>6
  <2>9. [typed.refs EXCEPT ![1] = v] = refs
    BY <1>17, <2>5
  <2>10. [typed EXCEPT !.refs[1] = v] = new
    BY <2>8, <2>9
  <2>11. x3 \in DOMAIN blocks /\ blocks[x3] = old
    BY <1>15, <2>1, <2>3 DEF Live
  <2>12. PICK first : first = [blocks EXCEPT ![x3] = typed]
    OBVIOUS
  <2>13. [m EXCEPT !.blocks[x3].kind = sheet] = [blocks |-> first, next |-> next, misused |-> {}]
    <3>1. [m EXCEPT !.blocks[x3].kind = sheet] = [m EXCEPT !.blocks = [blocks EXCEPT ![x3] = [old EXCEPT !.kind = sheet]]]
      BY <2>1, <2>11
    <3> QED BY <2>1, <2>7, <2>12, <3>1
  <2>14. first[x3] = typed /\ [first EXCEPT ![x3] = new] = [blocks EXCEPT ![x3] = new]
    BY <2>11, <2>12
  <2>15. PICK m1 : m1 = [blocks |-> first, next |-> next, misused |-> {}]
    OBVIOUS
  <2>16. [m1 EXCEPT !.blocks[x3].refs[1] = v] = [m1 EXCEPT !.blocks = [first EXCEPT ![x3] = new]]
    BY <2>10, <2>14, <2>15
  <2>17. g = [blocks |-> [blocks EXCEPT ![x3] = new], next |-> next, misused |-> {}]
    <3>1. g = [m EXCEPT !.blocks = [blocks EXCEPT ![x3] = new]]
      BY <1>20, <2>1, <2>3, <2>6 DEF Rewritten
    <3> QED BY <2>1, <3>1
  <2>18. [m EXCEPT !.blocks[x3].kind = sheet, !.blocks[x3].refs[1] = v] = [m1 EXCEPT !.blocks[x3].refs[1] = v]
    BY <2>13, <2>15
  <2>19. [m1 EXCEPT !.blocks = [first EXCEPT ![x3] = new]] = g
    BY <2>14, <2>15, <2>17
  <2>20. g = [m EXCEPT !.blocks[x3].kind = sheet, !.blocks[x3].refs[1] = v]
    BY <2>16, <2>18, <2>19
  <2> QED BY <1>11, <1>13, <1>17, <2>20
<1>22. RewrittenTo(m, g, Q, x3, {v}, sheet)
  <2>1. Takeable(m, x3, {v}) /\ {v} \in SUBSET Q
    BY <1>12, <1>13, <1>14 DEF Takeable
  <2>2. PICK W \in SUBSET Q : W = {v}
    BY <2>1
  <2>3. Takeable(m, x3, W) /\ Values(refs) = Values(m.blocks[x3].refs) \cup W
    BY <1>18, <2>1, <2>2
  <2>4. Changeable(m, Q, x3, W, sheet)
    BY <1>14 DEF Changeable
  <2>5. RewrittenTo(m, g, Q, x3, W, sheet)
    BY <1>14, <1>15, <1>18, <1>19, <1>20, <2>3, <2>4, RewrittenSound
  <2> QED BY <2>2, <2>5
<1>23. PICK freed : freed = <<x2, x4>>
  OBVIOUS
<1>24. IsSeq(freed) /\ Distinct(freed) /\ Values(freed) = {x2, x4}
  <2>1. Target(x2) = {x2} /\ Target(x4) = {x4} /\ Target(x2) \cap Target(x4) = {}
    BY <1>3, <1>5 DEF Target
  <2>2. IsSeq(<<x2, x4>>) /\ Distinct(<<x2, x4>>) /\ Values(<<x2, x4>>) = {x2} \cup {x4}
    BY <2>1, Two
  <2> QED BY <1>23, <2>2
<1>25. Gives(h, g, R \cup Values(freed), Target(x3))
  <2>1. Q \ {v} = R \cup Values(freed) \cup {x3} /\ (Q \ {v}) \ {x3} = R \cup Values(freed)
        /\ (R \cup Values(freed)) \cap {x3} = {}
    BY <1>5, <1>6, <1>14, <1>24 DEF Q, Handed
  <2>2. Keeps(h, m, R \cup Values(freed))
    BY <1>14, <1>24 DEF Keeps
  <2>3. Keeps(h, g, R \cup Values(freed))
    BY <1>22, <2>1, <2>2, KeepsOn DEF RewrittenTo
  <2>4. Sound(g, R \cup Values(freed) \cup {x3})
    BY <1>22, <2>1 DEF RewrittenTo
  <2>5. Target(x3) = {x3}
    BY <1>3 DEF Target
  <2> QED BY <2>1, <2>3, <2>4, <2>5 DEF Gives
<1>26. R \cap Values(freed) = {} /\ \A b \in Values(freed) : Kind(h, b) \in EngineKinds /\ ~ h.blocks[b].pool
  BY <1>2, <1>6, <1>24 DEF Handed, Unpooled, EngineKinds
<1>27. Kind(g, x3) \in {sheet}
  BY <1>22 DEF RewrittenTo
<1>28. Yielded(h, out, R, {sheet})
  BY <1>21, <1>23, <1>24, <1>25, <1>26, <1>27, SpentGives
<1> QED BY <1>17, <1>28 DEF Returns

(* What is left of n values without NULL, step by step.                    *)
Keeping(kept, xs, n) ==
  kept = [k \in 0 .. n |->
            IF k = 0 THEN << >> ELSE IF xs[k] = Null THEN kept[k - 1] ELSE Append(kept[k - 1], xs[k])]

LEMMA KeepingExists ==
  ASSUME NEW xs, NEW n \in Nat
  PROVE  \E kept : Keeping(kept, xs, n)
<1> DEFINE S == {m \in 0 .. n : \E kept : Keeping(kept, xs, m)}
<1>1. 0 \in S
  <2> DEFINE kept == [k \in 0 .. 0 |-> << >>]
  <2>1. kept[0] = << >> /\ DOMAIN kept = 0 .. 0
    OBVIOUS
  <2>2. kept = [k \in 0 .. 0 |->
                  IF k = 0 THEN << >> ELSE IF xs[k] = Null THEN kept[k - 1] ELSE Append(kept[k - 1], xs[k])]
    OBVIOUS
  <2> HIDE DEF kept
  <2> QED BY <2>2 DEF Keeping
<1>2. ASSUME NEW m \in 0 .. n, m < n, m \in S PROVE m + 1 \in S
  <2>1. PICK kept : Keeping(kept, xs, m)
    BY <1>2
  <2> DEFINE last == IF xs[m + 1] = Null THEN kept[m] ELSE Append(kept[m], xs[m + 1])
             more == [k \in 0 .. m + 1 |-> IF k = m + 1 THEN last ELSE kept[k]]
  <2>2. ASSUME NEW k \in 0 .. m + 1
        PROVE  more[k] = IF k = 0 THEN << >>
                         ELSE IF xs[k] = Null THEN more[k - 1] ELSE Append(more[k - 1], xs[k])
    <3>1. CASE k = m + 1
      <4>1. k # 0 /\ k - 1 = m /\ m \in 0 .. m + 1 /\ m # m + 1
        BY <3>1
      <4> QED BY <3>1, <4>1
    <3>2. CASE k # m + 1
      <4>1. k \in 0 .. m /\ (k # 0 => k - 1 \in 0 .. m + 1 /\ k - 1 # m + 1)
        BY <3>2
      <4>2. kept[k] = IF k = 0 THEN << >>
                      ELSE IF xs[k] = Null THEN kept[k - 1] ELSE Append(kept[k - 1], xs[k])
        BY <2>1, <4>1 DEF Keeping
      <4> QED BY <3>2, <4>1, <4>2
    <3> QED BY <3>1, <3>2
  <2>3. DOMAIN more = 0 .. m + 1 /\ more = [k \in 0 .. m + 1 |-> more[k]]
    OBVIOUS
  <2> HIDE DEF more
  <2>4. Keeping(more, xs, m + 1)
    BY <2>2, <2>3 DEF Keeping
  <2>5. m + 1 \in 0 .. n
    BY <1>2
  <2> QED BY <2>4, <2>5
<1>3. n \in 0 .. n /\ S \in SUBSET (0 .. n)
  OBVIOUS
<1> HIDE DEF S
<1>4. n \in S
  BY <1>1, <1>2, <1>3, Climb
<1> QED BY <1>4 DEF S

LEMMA NotNullFacts ==
  ASSUME NEW xs, IsSeq(xs), Distinct(xs), NEW left, left = NotNull(xs)
  PROVE  /\ IsSeq(left) /\ Distinct(left) /\ Values(left) = Values(xs)
         /\ \A k \in 1 .. Len(left) : left[k] \in Values(xs)
<1> DEFINE n == Len(xs)
           V == Values(xs)
           kept == CHOOSE kept : Keeping(kept, xs, n)
<1>1. n \in Nat
  BY LenFacts
<1>2. Keeping(kept, xs, n)
  BY <1>1, KeepingExists
<1>3. left = kept[n]
  BY DEF NotNull, Keeping
<1> HIDE DEF kept, V, n
<1> DEFINE Good(m) ==
             /\ kept[m] \in Seq(V)
             /\ \A j \in 1 .. Len(kept[m]) : \E i \in 1 .. m : kept[m][j] = xs[i]
             /\ \A i \in 1 .. m : xs[i] # Null => \E j \in 1 .. Len(kept[m]) : kept[m][j] = xs[i]
             /\ \A i, j \in 1 .. Len(kept[m]) : kept[m][i] = kept[m][j] => i = j
           S == {m \in 0 .. n : Good(m)}
<1>4. 0 \in S
  <2>1. kept[0] = << >>
    BY <1>1, <1>2 DEF Keeping
  <2>2. Good(0)
    BY <2>1
  <2> HIDE DEF Good
  <2> QED BY <1>1, <2>2
<1>5. ASSUME NEW m \in 0 .. n, m < n, m \in S PROVE m + 1 \in S
  <2>1. Good(m) /\ m + 1 \in 1 .. n /\ m + 1 \in 0 .. n /\ m \in Nat
    BY <1>1, <1>5
  <2>2. kept[m + 1] = IF xs[m + 1] = Null THEN kept[m] ELSE Append(kept[m], xs[m + 1])
    <3>1. PICK k \in 0 .. n : k = m + 1
      BY <2>1
    <3>2. k # 0 /\ k - 1 = m
      BY <1>1, <3>1
    <3>3. kept[k] = IF k = 0 THEN << >> ELSE IF xs[k] = Null THEN kept[k - 1] ELSE Append(kept[k - 1], xs[k])
      BY <1>2 DEF Keeping
    <3> QED BY <3>1, <3>2, <3>3
  <2>3. Good(m + 1)
    <3>1. CASE xs[m + 1] = Null
      <4>1. PICK s : s = kept[m]
        OBVIOUS
      <4>2. kept[m + 1] = s /\ s \in Seq(V)
        BY <2>1, <2>2, <3>1, <4>1
      <4>3. \A j \in 1 .. Len(s) : \E i \in 1 .. m + 1 : s[j] = xs[i]
        <5>1. \A j \in 1 .. Len(s) : \E i \in 1 .. m : s[j] = xs[i]
          BY <2>1, <4>1
        <5>2. \A i \in 1 .. m : i \in 1 .. m + 1
          BY <2>1
        <5> QED BY <5>1, <5>2
      <4>4. \A i \in 1 .. m + 1 : xs[i] # Null => \E j \in 1 .. Len(s) : s[j] = xs[i]
        <5>1. \A i \in 1 .. m + 1 : i \in 1 .. m \/ i = m + 1
          BY <2>1
        <5>2. \A i \in 1 .. m : xs[i] # Null => \E j \in 1 .. Len(s) : s[j] = xs[i]
          BY <2>1, <4>1
        <5> QED BY <3>1, <5>1, <5>2
      <4>5. \A i, j \in 1 .. Len(s) : s[i] = s[j] => i = j
        BY <2>1, <4>1
      <4> QED BY <4>2, <4>3, <4>4, <4>5
    <3>2. CASE xs[m + 1] # Null
      <4>1. PICK s, x : s = kept[m] /\ x = xs[m + 1]
        OBVIOUS
      <4>2. s \in Seq(V) /\ x \in V /\ kept[m + 1] = Append(s, x)
        BY <2>1, <2>2, <3>2, <4>1 DEF V, Values, n
      <4>3. PICK t : t = Append(s, x)
        OBVIOUS
      <4>4. t \in Seq(V) /\ Len(t) = Len(s) + 1 /\ Len(s) \in Nat /\ t[Len(t)] = x /\ \A j \in 1 .. Len(s) : t[j] = s[j]
        BY <4>2, <4>3
      <4>5. \A j \in 1 .. Len(t) : j \in 1 .. Len(s) \/ j = Len(t)
        BY <4>4
      <4>6. \A j \in 1 .. Len(s) : \E i \in 1 .. m : s[j] = xs[i]
        BY <2>1, <4>1
      <4>7. \A j \in 1 .. Len(s) : s[j] # x
        <5> SUFFICES ASSUME NEW j \in 1 .. Len(s), s[j] = x PROVE FALSE
          OBVIOUS
        <5>1. PICK i \in 1 .. m : s[j] = xs[i]
          BY <4>6
        <5>2. i \in 1 .. n /\ i # m + 1 /\ m + 1 \in 1 .. n
          BY <1>1, <2>1
        <5> QED BY <3>2, <4>1, <5>1, <5>2 DEF Distinct, n
      <4>8. \A j \in 1 .. Len(t) : \E i \in 1 .. m + 1 : t[j] = xs[i]
        <5>1. m + 1 \in 1 .. m + 1 /\ \A i \in 1 .. m : i \in 1 .. m + 1
          BY <2>1
        <5> QED BY <4>1, <4>4, <4>5, <4>6, <5>1
      <4>9. \A i \in 1 .. m + 1 : xs[i] # Null => \E j \in 1 .. Len(t) : t[j] = xs[i]
        <5>1. \A i \in 1 .. m + 1 : i \in 1 .. m \/ i = m + 1
          BY <2>1
        <5>2. Len(t) \in 1 .. Len(t) /\ \A j \in 1 .. Len(s) : j \in 1 .. Len(t)
          BY <4>4
        <5>3. \A i \in 1 .. m : xs[i] # Null => \E j \in 1 .. Len(s) : s[j] = xs[i]
          BY <2>1, <4>1
        <5> QED BY <4>1, <4>4, <5>1, <5>2, <5>3
      <4>10. \A i, j \in 1 .. Len(t) : t[i] = t[j] => i = j
        <5>1. \A i, j \in 1 .. Len(s) : s[i] = s[j] => i = j
          BY <2>1, <4>1
        <5> QED BY <4>4, <4>5, <4>7, <5>1
      <4>11. kept[m + 1] = t
        BY <4>2, <4>3
      <4> QED BY <4>4, <4>8, <4>9, <4>10, <4>11
    <3> QED BY <3>1, <3>2
  <2> HIDE DEF Good
  <2> QED BY <2>1, <2>3
<1>6. n \in 0 .. n /\ S \in SUBSET (0 .. n)
  BY <1>1
<1> HIDE DEF S
<1>7. n \in S
  BY <1>1, <1>4, <1>5, <1>6, Climb
<1>8. /\ left \in Seq(V)
      /\ \A i \in 1 .. n : xs[i] # Null => \E j \in 1 .. Len(left) : left[j] = xs[i]
      /\ \A i, j \in 1 .. Len(left) : left[i] = left[j] => i = j
  BY <1>3, <1>7 DEF S
<1>9. \A k \in 1 .. Len(left) : left[k] \in V
  BY <1>8
<1>10. Values(left) = V
  <2>1. Null \notin V
    BY DEF V, Values
  <2>2. Values(left) \subseteq V
    BY <1>9 DEF Values
  <2>3. ASSUME NEW b \in V PROVE b \in Values(left)
    <3>1. PICK i \in 1 .. n : xs[i] = b
      BY DEF V, Values, n
    <3>2. b # Null
      BY <2>1
    <3>3. PICK j \in 1 .. Len(left) : left[j] = b
      BY <1>8, <3>1, <3>2
    <3> QED BY <3>2, <3>3 DEF Values
  <2> QED BY <2>2, <2>3
<1>11. IsSeq(left) /\ Distinct(left)
  BY <1>8, SeqOfAnything DEF Distinct
<1> QED BY <1>9, <1>10, <1>11 DEF V

Builds(h, out, R, kind) ==
  /\ Gives(h, out.heap, R, Target(out.value)) /\ out.value # Null /\ Kind(out.heap, out.value) = kind
  /\ ~ out.heap.blocks[out.value].pool

(* A block that is built of two.                                           *)
LEMMA PairBuilds ==
  ASSUME NEW h, NEW R, NEW x, NEW y, Sound(h, R \cup Target(x) \cup Target(y)),
         Target(x) \cap Target(y) = {}, R \cap (Target(x) \cup Target(y)) = {},
         \A b \in Target(x) \cup Target(y) : ~ h.blocks[b].pool,
         NEW kind, kind \notin {"null", "freed"}, NEW kinds \in Layouts(kind), kinds = <<Kind(h, x), Kind(h, y)>>,
         NEW refs, refs = <<x, y>>, NEW data, NEW out, out = Calloc(h, Block(kind, data, refs))
  PROVE  Builds(h, out, R, kind)
<1>2. IsSeq(refs) /\ Len(refs) = 2 /\ Distinct(refs) /\ Values(refs) = Target(x) \cup Target(y)
  BY Two
<1>3. R \cup Values(refs) = R \cup Target(x) \cup Target(y)
  BY <1>2
<1>4. Handed(h, R, refs) /\ Unpooled(h, refs)
  BY <1>2, <1>3 DEF Handed, Unpooled
<1>5. LaidOut(h, refs, kind)
  <2>1. [k \in 1 .. Len(refs) |-> Kind(h, refs[k])] = <<Kind(h, x), Kind(h, y)>>
    <3>1. 1 .. Len(refs) = 1 .. 2 /\ refs[1] = x /\ refs[2] = y
      BY <1>2
    <3> QED BY <3>1
  <2> QED BY <2>1 DEF LaidOut
<1> QED BY <1>4, <1>5, CallocBuilds DEF Builds

LEMMA NodeFoldGives ==
  ASSUME KorlessaFunctions, NEW h, NEW R, NEW xs, Handed(h, R, xs), Unpooled(h, xs),
         \A k \in 1 .. Len(xs) : Kind(h, xs[k]) \in NodeKinds \cup {"null"},
         NEW out, out = Fold(h, "node_fold", xs)
  PROVE  Yielded(h, out, R, Returns("node_fold"))
<1>1. PICK left : left = NotNull(xs)
  OBVIOUS
<1>2. IsSeq(left) /\ Distinct(left) /\ Values(left) = Values(xs) /\ \A k \in 1 .. Len(left) : left[k] \in Values(xs)
  BY <1>1, NotNullFacts DEF Handed
<1>3. Handed(h, R, left) /\ Unpooled(h, left)
  BY <1>2 DEF Handed, Unpooled
<1>4. \A b \in Values(xs) : Kind(h, b) \in NodeKinds
  BY HandedKinds
<1>5. PICK kind : kind = "nodes"
  OBVIOUS
<1>6. LaidOut(h, left, kind)
  <2>1. Layouts(kind) = Seq(NodeKinds) /\ kind \notin {"null", "freed"}
    BY <1>5, LayoutFacts DEF NodeLayouts
  <2>2. \A k \in 1 .. Len(left) : Kind(h, left[k]) \in NodeKinds
    BY <1>2, <1>4
  <2>3. Len(left) \in Nat
    BY <1>2, LenFacts
  <2>4. [k \in 1 .. Len(left) |-> Kind(h, left[k])] \in Seq(NodeKinds)
    BY <2>2, <2>3
  <2> QED BY <2>1, <2>4 DEF LaidOut
<1>7. PICK zero, nodes : nodes = Calloc(h, Block(kind, zero, left))
                         /\ out = Calloc(nodes.heap, Block("CRATE", zero, <<Null, nodes.value>>))
  BY <1>1, <1>5 DEF Fold, NodeFold
<1>8. /\ Gives(h, nodes.heap, R, Target(nodes.value)) /\ nodes.value # Null
      /\ Kind(nodes.heap, nodes.value) = kind /\ ~ nodes.heap.blocks[nodes.value].pool
  BY <1>3, <1>6, <1>7, CallocBuilds
<1>9. PICK m, n : m = nodes.heap /\ n = nodes.value
  OBVIOUS
<1>10. PICK crate : crate = "CRATE"
  OBVIOUS
<1>11. Gives(m, out.heap, R, Target(out.value)) /\ Kind(out.heap, out.value) = crate
  <2>1. PICK kinds \in Layouts(crate) : kinds = <<Kind(m, Null), Kind(m, n)>> /\ crate \notin {"null", "freed"}
    BY <1>5, <1>8, <1>9, <1>10, TargetNull, LayoutFacts DEF NodeLayouts
  <2>2. Sound(m, R \cup Target(Null) \cup Target(n)) /\ Target(Null) = {}
    <3>1. Target(Null) = {}
      BY TargetNull
    <3>2. R \cup Target(Null) \cup Target(n) = R \cup Target(n)
      BY <3>1
    <3> QED BY <1>8, <1>9, <3>1, <3>2 DEF Gives
  <2>3. R \cap (Target(Null) \cup Target(n)) = {} /\ Target(Null) \cap Target(n) = {}
        /\ \A b \in Target(Null) \cup Target(n) : ~ m.blocks[b].pool
    BY <1>8, <1>9, <2>2 DEF Gives, Target
  <2>4. PICK refs : refs = <<Null, n>> /\ out = Calloc(m, Block(crate, zero, refs))
    BY <1>7, <1>9, <1>10
  <2>5. Builds(m, out, R, crate)
    BY <2>1, <2>2, <2>3, <2>4, PairBuilds
  <2> QED BY <2>5 DEF Builds
<1>12. Keeps(h, out.heap, R)
  BY <1>8, <1>9, <1>11, KeepsOn DEF Gives
<1> QED BY <1>10, <1>11, <1>12 DEF Yielded, Gives, Returns

(* A node with nothing but its type.                                       *)
LEMMA BareGives ==
  ASSUME KorlessaFunctions, NEW h, NEW R, Sound(h, R), NEW type \in {"REST", "TIE", "DIVIDER", "EOF"},
         NEW out, out = Bare(h, type)
  PROVE  Builds(h, out, R, type)
<1>1. PICK zero, refs : refs = <<Null, Null>> /\ out = Calloc(h, Block(type, zero, refs))
  BY DEF Bare
<1>2. Target(Null) = {} /\ Kind(h, Null) = "null"
  BY TargetNull
<1>3. PICK kinds \in Layouts(type) : kinds = <<Kind(h, Null), Kind(h, Null)>> /\ type \notin {"null", "freed"}
  BY <1>2, LayoutFacts DEF NodeLayouts
<1>4. /\ Sound(h, R \cup Target(Null) \cup Target(Null)) /\ Target(Null) \cap Target(Null) = {}
      /\ R \cap (Target(Null) \cup Target(Null)) = {}
      /\ \A b \in Target(Null) \cup Target(Null) : ~ h.blocks[b].pool
  <2>1. R \cup Target(Null) \cup Target(Null) = R
    BY <1>2
  <2> QED BY <1>2, <2>1
<1> QED BY <1>1, <1>3, <1>4, PairBuilds

LEMMA PartFoldGives ==
  ASSUME KorlessaFunctions, NEW f \in PartFolds, NEW h, NEW R, NEW xs, Handed(h, R, xs), Unpooled(h, xs),
         Taken(h, xs, Takes(f)), NEW out, out = Fold(h, f, xs)
  PROVE  Yielded(h, out, R, Returns(f))
<1>1. CASE f \in PlainFolds
  BY <1>1, PlainFoldGives
<1>2. CASE f = "note_fold"
  BY <1>2, NoteFoldGives
<1>3. CASE f = "sheet_fold"
  BY <1>3, SheetFoldGives
<1>4. CASE f = "reference_fold"
  BY <1>4, ReferenceFoldGives
<1>5. CASE f \in {"duration_fold", "repeater_fold"}
  BY <1>5, StringFoldGives
<1> QED BY <1>1, <1>2, <1>3, <1>4, <1>5 DEF PartFolds, PairFolds, PlainFolds

(***************************************************************************)
(* The functions that are applied.                                         *)
(***************************************************************************)
LEMMA NodeOfStringGives ==
  ASSUME KorlessaFunctions, NEW h, NEW R, NEW x, Handed(h, R, <<x>>), Unpooled(h, <<x>>), Kind(h, x) \in EngineKinds,
         NEW type \in {"REST", "TIE", "DIVIDER", "EOF"}, NEW out, out = Then(Bare(h, type), x)
  PROVE  Yielded(h, out, R, {type})
<1>1. PICK xs, made : xs = <<x>> /\ made = Bare(h, type)
  OBVIOUS
<1>2. out = Result(FreeAll(made.heap, xs), made.value)
  BY <1>1 DEF Then, Free
<1>3. IsSeq(xs) /\ Distinct(xs) /\ R \cap Values(xs) = {} /\ Sound(h, R \cup Values(xs)) /\ Values(xs) = Target(x)
  BY <1>1, One DEF Handed
<1>4. \A b \in Values(xs) : Kind(h, b) \in EngineKinds /\ ~ h.blocks[b].pool
  <2>1. \A b \in Values(xs) : b = x
    BY <1>3 DEF Target
  <2> QED BY <1>1, <2>1 DEF Unpooled
<1>5. PICK S : S = R \cup Values(xs)
  OBVIOUS
<1>6. Builds(h, made, S, type)
  BY <1>1, <1>3, <1>5, BareGives
<1>7. Gives(h, made.heap, R \cup Values(xs), Target(made.value)) /\ Kind(made.heap, made.value) \in {type}
  BY <1>5, <1>6 DEF Builds
<1> QED BY <1>2, <1>3, <1>4, <1>7, SpentGives

LEMMA ValueOfStringGives ==
  ASSUME NEW h, NEW R, NEW x, Handed(h, R, <<x>>), Unpooled(h, <<x>>), Kind(h, x) \in EngineKinds,
         NEW kind \in EngineKinds, NEW data, NEW out, out = Then(Calloc(h, Block(kind, data, << >>)), x)
  PROVE  Yielded(h, out, R, {kind})
<1>1. PICK xs, new : xs = <<x>> /\ new = Calloc(h, Block(kind, data, << >>))
  OBVIOUS
<1>2. out = Result(FreeAll(new.heap, xs), new.value)
  BY <1>1 DEF Then, Free
<1>3. \A k \in 1 .. Len(xs) : Kind(h, xs[k]) \in EngineKinds
  <2>1. 1 .. Len(xs) = {1} /\ xs[1] = x
    BY <1>1
  <2> QED BY <2>1
<1> QED BY <1>1, <1>2, <1>3, FreshGives

LEMMA StringApplyGives ==
  ASSUME KorlessaFunctions, NEW f \in StringApplys, NEW h, NEW R, NEW x, Handed(h, R, <<x>>), Unpooled(h, <<x>>),
         Kind(h, x) = "chars", NEW out, out = ApplyFunction(h, f, x)
  PROVE  Yielded(h, out, R, Returns(f))
<1>1. PICK chars \in EngineKinds : chars = "chars"
  BY DEF EngineKinds
<1>2. PICK int \in EngineKinds : int = "int"
  BY DEF EngineKinds
<1>3. Kind(h, x) \in EngineKinds
  BY <1>1
<1>4. CASE f \in {"apply_rest", "apply_tie", "apply_divider"}
  <2>1. PICK type \in {"REST", "TIE", "DIVIDER", "EOF"} : {type} = Returns(f) /\ out = Then(Bare(h, type), x)
    BY <1>4 DEF ApplyFunction, Returns
  <2>2. Yielded(h, out, R, {type})
    BY <1>3, <2>1, NodeOfStringGives
  <2> QED BY <2>1, <2>2
<1>5. CASE f = "apply_as_duration"
  <2>1. Touch(h, x) = h
    <3>1. x \in Live(h)
      BY DEF Kind
    <3>2. ToSet(<<x>>) \subseteq Live(h)
      BY <3>1 DEF ToSet
    <3> QED BY <3>2, TouchAllNothing DEF Touch, Handed
  <2>2. PICK data : out = Then(Calloc(h, Block(chars, data, << >>)), x)
    BY <1>1, <1>5, <2>1 DEF ApplyFunction, CallocChars
  <2>3. Yielded(h, out, R, {chars})
    BY <1>3, <2>2, ValueOfStringGives
  <2> QED BY <1>1, <1>5, <2>3 DEF Returns
<1>6. CASE f \in {"apply_loop", "apply_off"}
  <2>1. PICK data : out = Then(Calloc(h, Block(int, data, << >>)), x)
    BY <1>2, <1>6 DEF ApplyFunction, CallocInt
  <2>2. Yielded(h, out, R, {int})
    BY <1>3, <2>1, ValueOfStringGives
  <2> QED BY <1>2, <1>6, <2>2 DEF Returns
<1> QED BY <1>4, <1>5, <1>6 DEF StringApplys

LEMMA CallocLeaves ==
  ASSUME NEW h, NEW R, Sound(h, R), NEW block, NEW out, out = Calloc(h, block)
  PROVE  \A b \in Live(h) : b \in Live(out.heap) /\ out.heap.blocks[b] = h.blocks[b]
<1>1. PICK blocks0, next0 : h = [blocks |-> blocks0, next |-> next0, misused |-> {}]
  BY DEF Sound
<1>2. h.next \notin Live(h)
  BY SoundFacts
<1> DEFINE placed == [kind |-> block.kind, data |-> block.data, refs |-> block.refs, pool |-> FALSE]
           blocks == [b \in Live(h) \cup {h.next} |-> IF b = h.next THEN placed ELSE h.blocks[b]]
<1>3. out.heap = [h EXCEPT !.next = @ + 1, !.blocks = blocks]
  BY DEF Calloc, Place, Result
<1>4. DOMAIN blocks = Live(h) \cup {h.next} /\ \A b \in Live(h) : blocks[b] = h.blocks[b]
  BY <1>2
<1> HIDE DEF blocks
<1>5. out.heap.blocks = blocks
  BY <1>1, <1>3
<1> QED BY <1>4, <1>5 DEF Live

LEMMA AppendedValues ==
  ASSUME NEW s, IsSeq(s), Distinct(s), NEW x, x # Null, x \notin Values(s), NEW t, t = Append(s, x)
  PROVE  IsSeq(t) /\ Distinct(t) /\ Values(t) = Values(s) \cup {x}
<1>1. IsSeq(t) /\ Len(t) = Len(s) + 1 /\ t[Len(t)] = x /\ \A k \in 1 .. Len(s) : t[k] = s[k]
  BY AppendFacts
<1>2. Len(s) \in Nat /\ Len(t) \in 1 .. Len(t) /\ \A k \in 1 .. Len(t) : k \in 1 .. Len(s) \/ k = Len(t)
  BY <1>1, LenFacts
<1>3. \A k \in 1 .. Len(s) : k \in 1 .. Len(t) /\ t[k] # x
  BY <1>1, <1>2 DEF Values
<1>4. Distinct(t)
  BY <1>1, <1>2, <1>3 DEF Distinct
<1>5. Values(t) = Values(s) \cup {x}
  <2>1. ASSUME NEW b \in Values(t) PROVE b \in Values(s) \cup {x}
    <3>1. PICK k \in 1 .. Len(t) : t[k] = b /\ b # Null
      BY DEF Values
    <3> QED BY <1>1, <1>2, <3>1 DEF Values
  <2>2. ASSUME NEW b \in Values(s) PROVE b \in Values(t)
    <3>1. PICK k \in 1 .. Len(s) : s[k] = b /\ b # Null
      BY DEF Values
    <3>2. k \in 1 .. Len(t) /\ t[k] = b
      BY <1>1, <1>3, <3>1
    <3> QED BY <3>1, <3>2 DEF Values
  <2>3. x \in Values(t)
    BY <1>1, <1>2 DEF Values
  <2> QED BY <2>1, <2>2, <2>3
<1> QED BY <1>1, <1>4, <1>5

LEMMA EofGives ==
  ASSUME KorlessaFunctions, NEW h, NEW R, NEW x, Sound(h, R \cup {x}), x \notin R, Kind(h, x) = "CRATE",
         NEW out, out = ApplyFunction(h, "apply_eof", x)
  PROVE  Yielded(h, out, R, {"CRATE"})
<1>1. x \in Live(h) /\ x # Null
  BY SoundFacts
<1>2. Touch(h, x) = h
  <2>1. ToSet(<<x>>) \subseteq Live(h)
    BY <1>1 DEF ToSet
  <2> QED BY <2>1, TouchAllNothing DEF Touch
<1>3. PICK type \in {"REST", "TIE", "DIVIDER", "EOF"} : type = "EOF"
  OBVIOUS
<1>4. PICK eof : eof = Bare(h, type)
  OBVIOUS
<1>5. PICK m, e : m = eof.heap /\ e = eof.value
  OBVIOUS
<1>6. PICK Q, S : S = R \cup {x} /\ Q = S \cup {e}
  OBVIOUS
<1>7. Gives(h, m, S, {e}) /\ e # Null /\ Kind(m, e) = type /\ ~ m.blocks[e].pool
  <2>1. Builds(h, eof, S, type)
    BY <1>4, <1>6, BareGives
  <2> QED BY <1>5, <2>1 DEF Builds, Target
<1>8. Sound(m, Q) /\ e \notin S /\ Keeps(h, m, S)
  BY <1>6, <1>7 DEF Gives
<1>9. Kind(m, x) = "CRATE" /\ x \in Live(m)
  BY <1>6, <1>8 DEF Keeps
<1>10. PICK n \in Live(m) : m.blocks[x].refs = <<Null, n>> /\ Kind(m, n) = "nodes" /\ n \notin Q
  BY <1>8, <1>9, CrateFacts
<1>11. Refs(h, x)[2] = n
  <2>1. m.blocks[x] = h.blocks[x]
    BY <1>1, <1>4, <1>5, CallocLeaves DEF Bare
  <2>2. Refs(h, x) = <<Null, n>>
    BY <1>1, <1>10, <2>1 DEF Refs
  <2> QED BY <2>2
<1>12. out.heap = [m EXCEPT !.blocks[n].refs = Append(@, e)] /\ out.value = x
  BY <1>2, <1>3, <1>4, <1>5, <1>11 DEF ApplyFunction, ApplyEof, Result
<1>13. PICK old, kind : old = m.blocks[n] /\ kind = m.blocks[n].kind
  OBVIOUS
<1>14. PICK rs : rs = old.refs
  OBVIOUS
<1>15. /\ old = [kind |-> kind, data |-> old.data, refs |-> rs, pool |-> old.pool] /\ IsSeq(rs) /\ Distinct(rs)
       /\ [k \in 1 .. Len(rs) |-> Kind(m, rs[k])] \in Layouts(kind)
  <2>1. BlockOK(m, n)
    BY <1>8 DEF Sound
  <2> QED BY <1>13, <1>14, <2>1 DEF BlockOK
<1>16. kind = "nodes"
  BY <1>10, <1>13, KindFacts, <1>8
<1>17. e \notin Values(rs)
  BY <1>6, <1>8, <1>10, <1>13, <1>14, SoundFacts DEF Sound
<1>18. PICK refs : refs = Append(rs, e)
  OBVIOUS
<1>19. IsSeq(refs) /\ Distinct(refs) /\ Values(refs) = Values(m.blocks[n].refs) \cup {e}
  BY <1>7, <1>13, <1>14, <1>15, <1>17, <1>18, AppendedValues
<1>20. LaidOut(m, refs, kind)
  <2>1. Layouts(kind) = Seq(NodeKinds) /\ kind \notin {"null", "freed"}
    BY <1>16, LayoutFacts DEF NodeLayouts
  <2>2. Kind(m, e) \in NodeKinds
    BY <1>3, <1>7 DEF NodeKinds
  <2>3. Len(rs) \in Nat /\ Len(refs) = Len(rs) + 1 /\ refs[Len(refs)] = e /\ \A k \in 1 .. Len(rs) : refs[k] = rs[k]
    BY <1>15, <1>18, LenFacts, AppendFacts
  <2>4. \A k \in 1 .. Len(rs) : Kind(m, rs[k]) \in NodeKinds
    <3>1. PICK kinds \in Seq(NodeKinds) : kinds = [k \in 1 .. Len(rs) |-> Kind(m, rs[k])]
      BY <1>15, <2>1
    <3>2. \A k \in 1 .. Len(rs) : kinds[k] = Kind(m, rs[k])
      BY <3>1
    <3>3. DOMAIN kinds = 1 .. Len(rs)
      BY <3>1
    <3> QED BY <3>1, <3>2, <3>3
  <2>5. \A k \in 1 .. Len(refs) : k \in 1 .. Len(rs) \/ k = Len(refs)
    BY <2>3
  <2>6. \A k \in 1 .. Len(refs) : Kind(m, refs[k]) \in NodeKinds
    BY <2>2, <2>3, <2>4, <2>5
  <2>7. Len(refs) \in Nat
    BY <2>3
  <2>8. [k \in 1 .. Len(refs) |-> Kind(m, refs[k])] \in Seq(NodeKinds)
    BY <2>6, <2>7
  <2> QED BY <2>1, <2>8 DEF LaidOut
<1>21. PICK g : g = Rewritten(m, n, kind, refs)
  OBVIOUS
<1>22. out.heap = g
  <2>1. PICK blocks, next : m = [blocks |-> blocks, next |-> next, misused |-> {}]
    BY <1>8 DEF Sound
  <2>2. PICK new : new = [kind |-> kind, data |-> old.data, refs |-> refs, pool |-> old.pool]
    OBVIOUS
  <2>3. [old EXCEPT !.refs = refs] = new
    BY <1>15, <2>2
  <2>4. n \in DOMAIN blocks /\ blocks[n] = old
    BY <1>13, <2>1 DEF Live
  <2>5. [m EXCEPT !.blocks[n].refs = Append(@, e)] = [m EXCEPT !.blocks = [blocks EXCEPT ![n] = new]]
    <3>1. Append(m.blocks[n].refs, e) = refs
      BY <1>13, <1>14, <1>18
    <3>2. [m EXCEPT !.blocks[n].refs = Append(@, e)] = [m EXCEPT !.blocks[n].refs = refs]
      BY <3>1
    <3>3. [m EXCEPT !.blocks[n].refs = refs] = [m EXCEPT !.blocks = [blocks EXCEPT ![n] = [old EXCEPT !.refs = refs]]]
      BY <2>1, <2>4
    <3> QED BY <2>3, <3>2, <3>3
  <2>6. g = [m EXCEPT !.blocks = [blocks EXCEPT ![n] = new]]
    BY <1>13, <1>21, <2>1, <2>2 DEF Rewritten
  <2> QED BY <1>12, <2>5, <2>6
<1>23. RewrittenTo(m, g, Q, n, {e}, kind)
  <2>1. PICK W \in SUBSET Q : W = {e}
    BY <1>6
  <2>2. Takeable(m, n, W)
    BY <1>6, <1>7, <1>10, <2>1 DEF Takeable
  <2>3. kind = m.blocks[n].kind /\ Values(refs) = Values(m.blocks[n].refs) \cup W
    BY <1>13, <1>19, <2>1
  <2>4. \A w \in W : Values(m.blocks[w].refs) = {}
    <3>1. e \in Live(m) /\ m.blocks[e].kind = type
      BY <1>6, <1>7, <1>8, SoundFacts, KindFacts
    <3>2. BlockOK(m, e)
      BY <1>8, <3>1 DEF Sound
    <3>3. PICK es : es = m.blocks[e].refs
      OBVIOUS
    <3>4. [k \in 1 .. Len(es) |-> Kind(m, es[k])] \in Layouts(type)
      BY <3>1, <3>2, <3>3 DEF BlockOK
    <3>5. PICK kinds : kinds = [k \in 1 .. Len(es) |-> Kind(m, es[k])] /\ kinds = <<"null", "null">>
      BY <1>3, <3>4, LayoutFacts DEF NodeLayouts
    <3>6. \A k \in 1 .. Len(es) : k \in 1 .. 2 /\ kinds[k] = Kind(m, es[k])
      <4>1. DOMAIN kinds = 1 .. Len(es) /\ \A k \in 1 .. Len(es) : kinds[k] = Kind(m, es[k])
        BY <3>5
      <4>2. DOMAIN kinds = 1 .. 2
        BY <3>5
      <4> QED BY <4>1, <4>2
    <3>7. \A k \in 1 .. 2 : kinds[k] = "null"
      BY <3>5
    <3>8. \A k \in 1 .. Len(es) : Kind(m, es[k]) = "null"
      BY <3>6, <3>7
    <3>9. \A k \in 1 .. Len(es) : es[k] = Null
      BY <1>8, <3>8, KindFacts
    <3> QED BY <2>1, <3>3, <3>9 DEF Values
  <2>5. Changeable(m, Q, n, W, kind)
    BY <2>3, <2>4 DEF Changeable
  <2>6. RewrittenTo(m, g, Q, n, W, kind)
    BY <1>8, <1>19, <1>20, <1>21, <2>2, <2>3, <2>5, RewrittenSound
  <2> QED BY <2>1, <2>6
<1>24. Sound(g, S) /\ Keeps(m, g, S)
  <2>1. Q \ {e} = S /\ S \ {n} = S
    BY <1>6, <1>8, <1>10
  <2> QED BY <1>23, <2>1 DEF RewrittenTo
<1>25. Keeps(h, g, S)
  BY <1>8, <1>24, KeepsOn
<1>26. Kind(g, x) = Kind(h, x) /\ Keeps(h, g, R)
  BY <1>6, <1>25 DEF Keeps
<1>27. Target(x) = {x}
  BY <1>1 DEF Target
<1> QED BY <1>6, <1>12, <1>22, <1>24, <1>26, <1>27 DEF Yielded, Gives

(***************************************************************************)
(* free_node.                                                              *)
(***************************************************************************)
(* It follows all that is not NULL.                                        *)
LEMMA FollowedFacts ==
  ASSUME KorlessaFunctions, NEW h, NEW Q, Sound(h, Q), NEW b \in Live(h), NEW refs, refs = Refs(h, b)
  PROVE  /\ refs = h.blocks[b].refs /\ \A k \in Followed(h, b) : k \in 1 .. Len(refs)
         /\ \A k \in 1 .. Len(refs) : refs[k] # Null => k \in Followed(h, b)
<1>1. refs = h.blocks[b].refs /\ BlockOK(h, b) /\ Kind(h, b) = h.blocks[b].kind
  BY KindFacts DEF Refs, Sound
<1>2. IsSeq(refs) /\ Len(refs) \in Nat /\ DOMAIN refs = 1 .. Len(refs)
  BY <1>1, LenFacts DEF BlockOK
<1>3. PICK kinds \in Layouts(Kind(h, b)) : kinds = [k \in 1 .. Len(refs) |-> Kind(h, refs[k])]
  BY <1>1 DEF BlockOK
<1>4. CASE Kind(h, b) \in NodeKinds \ Parents
  <2>1. Followed(h, b) = {1}
    BY <1>4 DEF Followed
  <2>2. \E payload : Layouts(Kind(h, b)) = {<<payload, "null">>}
    BY <1>4 DEF KorlessaFunctions, KorlessaLayouts, NodeKinds, Parents
  <2>3. PICK payload, null : null = "null" /\ kinds = <<payload, null>>
    BY <1>3, <2>2
  <2>4. Len(refs) = 2
    <3>1. DOMAIN kinds = 1 .. Len(refs)
      BY <1>3
    <3>2. DOMAIN kinds = 1 .. 2
      BY <2>3
    <3>3. PICK n \in Nat : n = Len(refs)
      BY <1>2
    <3>4. 1 .. n = 1 .. 2
      BY <3>1, <3>2, <3>3
    <3> QED BY <3>3, <3>4
  <2>5. Kind(h, refs[2]) = "null"
    <3>1. 2 \in 1 .. Len(refs) /\ kinds[2] = "null"
      BY <2>3, <2>4
    <3> QED BY <1>3, <3>1
  <2>6. refs[2] = Null
    BY <2>5, KindFacts
  <2>7. 1 \in 1 .. Len(refs) /\ \A k \in 1 .. Len(refs) : k = 1 \/ k = 2
    BY <2>4
  <2> QED BY <1>1, <2>1, <2>6, <2>7
<1>5. CASE ~ (Kind(h, b) \in NodeKinds \ Parents)
  <2>1. Followed(h, b) = 1 .. Len(refs)
    BY <1>2, <1>5 DEF Followed
  <2> QED BY <1>1, <2>1
<1> QED BY <1>4, <1>5

Children(h, b) == {Refs(h, b)[k] : k \in Followed(h, b)}

NextBelow(h, B) == (UNION {Children(h, b) : b \in B}) \ {Null}

LEMMA NextBelowFacts ==
  ASSUME KorlessaFunctions, NEW h, NEW Q, Sound(h, Q), NEW B \in SUBSET Live(h)
  PROVE  \A c : c \in NextBelow(h, B) <=> \E b \in B : c \in Values(h.blocks[b].refs)
<1>1. ASSUME NEW c \in NextBelow(h, B) PROVE \E b \in B : c \in Values(h.blocks[b].refs)
  <2>1. PICK b \in B : c \in Children(h, b) /\ c # Null
    BY DEF NextBelow
  <2>2. PICK k \in Followed(h, b) : c = Refs(h, b)[k] /\ c # Null
    BY <2>1 DEF Children
  <2>3. b \in Live(h) /\ Refs(h, b) = h.blocks[b].refs /\ k \in 1 .. Len(Refs(h, b))
    BY FollowedFacts
  <2> QED BY <2>2, <2>3 DEF Values
<1>2. ASSUME NEW c, NEW b \in B, c \in Values(h.blocks[b].refs) PROVE c \in NextBelow(h, B)
  <2>1. PICK refs : refs = Refs(h, b)
    OBVIOUS
  <2>2. refs = h.blocks[b].refs /\ \A k \in 1 .. Len(refs) : refs[k] # Null => k \in Followed(h, b)
    BY <2>1, FollowedFacts
  <2>3. PICK k \in 1 .. Len(refs) : refs[k] = c /\ c # Null
    BY <1>2, <2>2 DEF Values
  <2>4. c \in Children(h, b) /\ c # Null
    BY <2>1, <2>2, <2>3 DEF Children
  <2> QED BY <2>4 DEF NextBelow
<1> QED BY <1>1, <1>2

Reaching(reached, h, x, n) ==
  reached = [k \in 0 .. n |-> IF k = 0 THEN {x} ELSE reached[k - 1] \cup NextBelow(h, reached[k - 1])]

LEMMA ReachingExists ==
  ASSUME NEW h, NEW x, NEW n \in Nat
  PROVE  \E reached : Reaching(reached, h, x, n)
<1> DEFINE S == {m \in 0 .. n : \E reached : Reaching(reached, h, x, m)}
<1>1. 0 \in S
  <2> DEFINE reached == [k \in 0 .. 0 |-> {x}]
  <2>1. reached = [k \in 0 .. 0 |-> IF k = 0 THEN {x} ELSE reached[k - 1] \cup NextBelow(h, reached[k - 1])]
    OBVIOUS
  <2> HIDE DEF reached
  <2> QED BY <2>1 DEF Reaching
<1>2. ASSUME NEW m \in 0 .. n, m < n, m \in S PROVE m + 1 \in S
  <2>1. PICK reached : Reaching(reached, h, x, m)
    BY <1>2
  <2> DEFINE last == reached[m] \cup NextBelow(h, reached[m])
             more == [k \in 0 .. m + 1 |-> IF k = m + 1 THEN last ELSE reached[k]]
  <2>2. ASSUME NEW k \in 0 .. m + 1
        PROVE  more[k] = IF k = 0 THEN {x} ELSE more[k - 1] \cup NextBelow(h, more[k - 1])
    <3>1. CASE k = m + 1
      <4>1. k # 0 /\ k - 1 = m /\ m \in 0 .. m + 1 /\ m # m + 1
        BY <3>1
      <4> QED BY <3>1, <4>1
    <3>2. CASE k # m + 1
      <4>1. k \in 0 .. m /\ (k # 0 => k - 1 \in 0 .. m + 1 /\ k - 1 # m + 1)
        BY <3>2
      <4>2. reached[k] = IF k = 0 THEN {x} ELSE reached[k - 1] \cup NextBelow(h, reached[k - 1])
        BY <2>1, <4>1 DEF Reaching
      <4> QED BY <3>2, <4>1, <4>2
    <3> QED BY <3>1, <3>2
  <2>3. DOMAIN more = 0 .. m + 1 /\ more = [k \in 0 .. m + 1 |-> more[k]]
    OBVIOUS
  <2> HIDE DEF more
  <2>4. Reaching(more, h, x, m + 1)
    BY <2>2, <2>3 DEF Reaching
  <2>5. m + 1 \in 0 .. n
    BY <1>2
  <2> QED BY <2>4, <2>5
<1>3. n \in 0 .. n /\ S \in SUBSET (0 .. n)
  OBVIOUS
<1> HIDE DEF S
<1>4. n \in S
  BY <1>1, <1>2, <1>3, Climb
<1> QED BY <1>4 DEF S

(* All that is below a root, and nothing else.                             *)
LEMMA BelowFacts ==
  ASSUME KorlessaFunctions, NEW h, NEW Q, Sound(h, Q), NEW x \in Live(h), NEW B, B = Below(h, x)
  PROVE  /\ B \subseteq Live(h) /\ x \in B
         /\ \A b \in B : Values(h.blocks[b].refs) \subseteq B
         /\ \A b \in B : b = x \/ \E c \in B : b \in Values(h.blocks[c].refs)
<1> DEFINE n == Cardinality(Live(h))
           reached == CHOOSE reached : Reaching(reached, h, x, n)
<1>1. IsFiniteSet(Live(h)) /\ n \in Nat
  <2>1. PICK m \in Nat : m = h.next - 1
    BY DEF Sound
  <2>2. PICK N : N = 1 .. m
    OBVIOUS
  <2>3. IsFiniteSet(N)
    <3>1. 1 \in Int /\ m \in Int
      OBVIOUS
    <3> QED BY <2>2, <3>1, FS_Interval
  <2>4. Live(h) \in SUBSET N
    BY <2>1, <2>2 DEF Sound
  <2>5. IsFiniteSet(Live(h))
    BY <2>3, <2>4, FS_Subset
  <2> QED BY <2>5, FS_CardinalityType
<1>2. Reaching(reached, h, x, n)
  BY <1>1, ReachingExists
<1>3. B = reached[n]
  BY DEF Below, Reaching, NextBelow, Children
<1> HIDE DEF reached
<1>4. reached[0] = {x} /\ \A k \in 1 .. n : reached[k] = reached[k - 1] \cup NextBelow(h, reached[k - 1])
  <2>1. reached[0] = {x}
    BY <1>1, <1>2 DEF Reaching
  <2>2. ASSUME NEW k \in 1 .. n PROVE reached[k] = reached[k - 1] \cup NextBelow(h, reached[k - 1])
    <3>1. k \in 0 .. n /\ k # 0
      BY <1>1
    <3> QED BY <1>2, <3>1 DEF Reaching
  <2> QED BY <2>1, <2>2
<1> HIDE DEF n
<1> DEFINE Closed0(C) == \A b \in C : Values(h.blocks[b].refs) \subseteq C
           Good(m) ==
             /\ reached[m] \in SUBSET Live(h) /\ x \in reached[m]
             /\ \A b \in reached[m] : b = x \/ \E c \in reached[m] : b \in Values(h.blocks[c].refs)
             /\ Closed0(reached[m]) \/ Cardinality(reached[m]) > m
           S == {m \in 0 .. n : Good(m)}
<1>5. \A b \in Live(h) : Values(h.blocks[b].refs) \subseteq Live(h)
  BY DEF Sound, BlockOK
<1>6. 0 \in S
  <2>1. Cardinality({x}) = 1
    BY FS_Singleton
  <2>2. Good(0)
    BY <1>4, <2>1
  <2> HIDE DEF Good
  <2> QED BY <1>1, <2>2
<1>7. ASSUME NEW m \in 0 .. n, m < n, m \in S PROVE m + 1 \in S
  <2>1. PICK C : C = reached[m]
    OBVIOUS
  <2>2. PICK D : D = C \cup NextBelow(h, C)
    OBVIOUS
  <2>3. m \in Nat /\ m + 1 \in 0 .. n /\ reached[m + 1] = D
    <3>1. PICK k \in 1 .. n : k = m + 1
      BY <1>1, <1>7
    <3>2. k - 1 = m
      BY <1>1, <3>1
    <3>3. reached[k] = D
      BY <1>4, <2>1, <2>2, <3>2
    <3> QED BY <1>1, <3>1, <3>3
  <2>4. /\ C \in SUBSET Live(h) /\ x \in C /\ (Closed0(C) \/ Cardinality(C) > m)
        /\ \A b \in C : b = x \/ \E c \in C : b \in Values(h.blocks[c].refs)
    BY <1>7, <2>1
  <2>5. \A c : c \in NextBelow(h, C) <=> \E b \in C : c \in Values(h.blocks[b].refs)
    BY <2>4, NextBelowFacts
  <2>6. D \in SUBSET Live(h) /\ x \in D
    BY <1>5, <2>2, <2>4, <2>5
  <2>7. \A b \in D : b = x \/ \E c \in D : b \in Values(h.blocks[c].refs)
    BY <2>2, <2>4, <2>5
  <2>8. Closed0(D) \/ Cardinality(D) > m + 1
    <3>1. CASE D = C
      <4>1. \A b \in C : Values(h.blocks[b].refs) \subseteq C
        BY <2>2, <2>5, <3>1
      <4> QED BY <3>1, <4>1
    <3>2. CASE D # C
      <4>1. C \in SUBSET D /\ IsFiniteSet(D)
        BY <1>1, <2>2, <2>6, FS_Subset
      <4>2. Cardinality(C) \in Nat /\ Cardinality(D) \in Nat /\ Cardinality(C) < Cardinality(D)
        <5>1. IsFiniteSet(C) /\ Cardinality(C) <= Cardinality(D) /\ Cardinality(C) # Cardinality(D)
          BY <3>2, <4>1, FS_Subset
        <5>2. Cardinality(C) \in Nat /\ Cardinality(D) \in Nat
          BY <4>1, <5>1, FS_CardinalityType
        <5> QED BY <5>1, <5>2
      <4>3. ~ Closed0(C)
        <5>1. PICK c \in NextBelow(h, C) : c \notin C
          BY <2>2, <3>2
        <5>2. PICK b \in C : c \in Values(h.blocks[b].refs)
          BY <2>5, <5>1
        <5> QED BY <5>1, <5>2
      <4>4. Cardinality(C) > m
        BY <2>4, <4>3
      <4>5. Cardinality(D) > m + 1
        BY <2>3, <4>2, <4>4
      <4> QED BY <4>5
    <3> QED BY <3>1, <3>2
  <2> HIDE DEF Closed0
  <2>9. Good(m + 1)
    BY <2>3, <2>6, <2>7, <2>8
  <2> HIDE DEF Good
  <2> QED BY <2>3, <2>9
<1>8. n \in 0 .. n /\ S \in SUBSET (0 .. n)
  BY <1>1
<1> HIDE DEF S
<1>9. n \in S
  BY <1>1, <1>6, <1>7, <1>8, Climb
<1>10. Good(n)
  BY <1>9 DEF S
<1>11. Cardinality(B) <= n
  BY <1>1, <1>3, <1>10, FS_Subset DEF n
<1>12. Closed0(B)
  <2>1. Cardinality(B) \in Nat
    BY <1>1, <1>3, <1>10, FS_Subset, FS_CardinalityType
  <2>2. ~ (Cardinality(B) > n)
    BY <1>1, <1>11, <2>1
  <2> HIDE DEF Closed0
  <2> QED BY <1>3, <1>10, <2>2
<1> QED BY <1>3, <1>10, <1>12

(* free_node gives a root back with all that is below it, once.            *)
LEMMA FreeNodeGives ==
  ASSUME KorlessaFunctions, NEW h, NEW R, NEW x, Sound(h, R \cup Target(x)), R \cap Target(x) = {},
         x # Null => ~ h.blocks[x].pool
  PROVE  Gives(h, FreeNode(h, x), R, {})
<1>1. CASE x = Null
  <2>1. Target(x) = {} /\ R \cup {} = R
    BY <1>1, TargetNull
  <2>2. FreeNode(h, x) = h
    BY <1>1 DEF FreeNode
  <2>3. Keeps(h, h, R)
    BY <2>1, KeepsSelf
  <2> QED BY <2>1, <2>2, <2>3 DEF Gives
<1>2. CASE x # Null
  <2> DEFINE B == Below(h, x)
             followed == UNION {{<<b, k>> : k \in Followed(h, b)} : b \in B}
             D == {<<Null, 0>>} \cup followed
             given == [p \in D |-> IF p = <<Null, 0>> THEN x ELSE Refs(h, p[1])[p[2]]]
  <2>1. PICK Q : Q = R \cup {x}
    OBVIOUS
  <2>2. Sound(h, Q) /\ x \in Q /\ x \notin R /\ x \in Live(h) /\ R \in SUBSET Q
    <3>1. Target(x) = {x}
      BY <1>2 DEF Target
    <3> QED BY <2>1, <3>1, SoundFacts
  <2>3. /\ B \subseteq Live(h) /\ x \in B
        /\ \A b \in B : Values(h.blocks[b].refs) \subseteq B
        /\ \A b \in B : b = x \/ \E c \in B : b \in Values(h.blocks[c].refs)
    BY <2>2, BelowFacts
  <2> HIDE DEF B
  <2>4. \A b \in B : /\ Refs(h, b) = h.blocks[b].refs
                     /\ \A k \in Followed(h, b) : k \in 1 .. Len(Refs(h, b))
                     /\ \A k \in 1 .. Len(Refs(h, b)) : Refs(h, b)[k] # Null => k \in Followed(h, b)
    BY <2>2, <2>3, FollowedFacts
  <2>5. PICK start : start = <<Null, 0>>
    OBVIOUS
  <2>6. \A p : p \in D <=> p = start \/ \E b \in B : \E k \in Followed(h, b) : p = <<b, k>>
    BY <2>5
  <2>7. \A b \in B : \A k : <<b, k>> # start
    <3>1. Null \notin B
      BY <2>2, <2>3, SoundFacts
    <3> QED BY <2>5, <3>1
  <2>8. DOMAIN given = D /\ given[start] = x /\ \A b \in B : \A k \in Followed(h, b) : given[<<b, k>>] = h.blocks[b].refs[k]
    <3>1. ASSUME NEW b \in B, NEW k \in Followed(h, b) PROVE given[<<b, k>>] = h.blocks[b].refs[k]
      <4>1. PICK p \in D : p = <<b, k>>
        BY <2>6
      <4>2. p # <<Null, 0>> /\ p[1] = b /\ p[2] = k
        BY <2>5, <2>7, <4>1
      <4> QED BY <2>4, <4>1, <4>2
    <3>2. given[start] = x
      BY <2>5
    <3> HIDE DEF followed
    <3> QED BY <3>1, <3>2
  <2> HIDE DEF D, given, followed
  <2>9. \A b \in B : \A k \in Followed(h, b) :
          given[<<b, k>>] # Null => given[<<b, k>>] \in Values(h.blocks[b].refs) /\ k \in 1 .. Len(h.blocks[b].refs)
    BY <2>4, <2>8 DEF Values
  <2>10. \A k \in DOMAIN given : given[k] = Null \/ given[k] \in B
    BY <2>3, <2>6, <2>8, <2>9
  <2>11. ASSUME NEW b \in B PROVE \E k \in DOMAIN given : given[k] = b
    <3>1. CASE b = x
      BY <2>6, <2>8, <3>1
    <3>2. CASE b # x
      <4>1. PICK c \in B : b \in Values(h.blocks[c].refs)
        BY <2>3, <3>2
      <4>2. PICK k \in 1 .. Len(h.blocks[c].refs) : h.blocks[c].refs[k] = b /\ b # Null
        BY <4>1 DEF Values
      <4>3. k \in Followed(h, c)
        BY <2>4, <4>2
      <4> QED BY <2>6, <2>8, <4>2, <4>3
    <3> QED BY <3>1, <3>2
  <2>12. \A b \in B : x \notin Values(h.blocks[b].refs)
    BY <2>2, <2>3 DEF Sound
  <2>13. ASSUME NEW j \in DOMAIN given, NEW k \in DOMAIN given, given[j] = given[k], given[j] # Null
         PROVE  j = k
    <3>1. CASE j = start \/ k = start
      BY <2>6, <2>8, <2>9, <2>12, <2>13, <3>1
    <3>2. CASE j # start /\ k # start
      <4>1. PICK b \in B : \E i \in Followed(h, b) : j = <<b, i>>
        BY <2>6, <2>8, <3>2
      <4>2. PICK i \in Followed(h, b) : j = <<b, i>>
        BY <4>1
      <4>3. PICK c \in B : \E l \in Followed(h, c) : k = <<c, l>>
        BY <2>6, <2>8, <3>2
      <4>4. PICK l \in Followed(h, c) : k = <<c, l>>
        BY <4>3
      <4>5. given[j] \in Values(h.blocks[b].refs) /\ given[j] \in Values(h.blocks[c].refs)
        BY <2>9, <2>13, <4>2, <4>4
      <4>6. b = c
        BY <2>2, <2>3, <4>5 DEF Sound
      <4>7. i \in 1 .. Len(h.blocks[b].refs) /\ l \in 1 .. Len(h.blocks[b].refs)
            /\ h.blocks[b].refs[i] = h.blocks[b].refs[l] /\ h.blocks[b].refs[i] # Null
        BY <2>8, <2>9, <2>13, <4>2, <4>4, <4>6
      <4>8. Distinct(h.blocks[b].refs)
        BY <2>2, <2>3 DEF Sound, BlockOK
      <4>9. i = l
        BY <4>7, <4>8 DEF Distinct
      <4> QED BY <4>2, <4>4, <4>6, <4>9
    <3> QED BY <3>1, <3>2
  <2>14. PICK freeable : freeable = Live(h) \ Pooled(h)
    OBVIOUS
  <2>15. FreeNode(h, x) = Release(h, given, freeable)
    BY <1>2, <2>14 DEF FreeNode, FreeAll, given, D, followed, B
  <2>16. B \subseteq freeable
    <3>1. ASSUME NEW b \in B PROVE ~ h.blocks[b].pool
      <4>1. CASE b = x
        BY <1>2, <4>1
      <4>2. CASE b # x
        <5>1. PICK c \in B : b \in Values(h.blocks[c].refs)
          BY <2>3, <4>2
        <5> QED BY <2>2, <2>3, <5>1 DEF Sound, BlockOK
      <4> QED BY <4>1, <4>2
    <3> QED BY <2>3, <2>14, <3>1 DEF Pooled
  <2>17. Q \ R \subseteq B /\ B \cap R = {}
    <3>1. ASSUME NEW b \in B PROVE b \notin R
      <4>1. CASE b = x
        BY <2>2, <4>1
      <4>2. CASE b # x
        <5>1. PICK c \in B : b \in Values(h.blocks[c].refs)
          BY <2>3, <4>2
        <5> QED BY <2>2, <2>3, <5>1 DEF Sound
      <4> QED BY <4>1, <4>2
    <3> QED BY <2>1, <2>3, <3>1
  <2>18. \A b \in B : b \in Q \/ \E c \in B : b \in Values(h.blocks[c].refs)
    BY <2>2, <2>3
  <2>19. freeable \in SUBSET Live(h) /\ B \in SUBSET Live(h)
    BY <2>3, <2>14
  <2>20. PICK g : g = Release(h, given, freeable)
    OBVIOUS
  <2>21. Gives(h, g, R, {})
    BY <2>2, <2>3, <2>10, <2>11, <2>13, <2>16, <2>17, <2>18, <2>19, <2>20, ReleasedGives
  <2> QED BY <2>15, <2>20, <2>21
<1> QED BY <1>1, <1>2

(***************************************************************************)
(* What mpc promises of a grammar whose functions keep to their part.      *)
(***************************************************************************)
LEMMA KorlessaFoldsKeep ==
  ASSUME KorlessaFunctions
  PROVE  FoldsKeep
<1> SUFFICES ASSUME NEW p \in AllParsers, p.type \in {"AND", "MANY", "MANY1"}, p.f \notin MpcFolds,
                    NEW h, NEW R, NEW xs, Handed(h, R, xs), Unpooled(h, xs), Served(h, p, xs)
             PROVE  Yielded(h, UserFold(h, p.f, xs), R, Yields(p))
  BY DEF FoldsKeep
<1>1. PICK out : out = UserFold(h, p.f, xs)
  OBVIOUS
<1>2. out = Fold(h, p.f, xs)
  BY <1>1 DEF KorlessaFunctions
<1>3. NodeFits(p) /\ Closed(p)
  BY NodeFitAssumption, ClosedAssumption
<1>4. Returns(p.f) \subseteq Yields(p)
  <2>1. p.type \in {"AND", "MANY", "MANY1", "APPLY"}
    OBVIOUS
  <2>2. p.f \notin MpcApplys
    <3>1. CASE p.type = "AND"
      <4>1. p.f \in PartFolds
        BY <1>3, <3>1 DEF NodeFits
      <4> QED BY <4>1 DEF PartFolds, PairFolds, MpcApplys
    <3>2. CASE p.type \in {"MANY", "MANY1"}
      <4>1. p.f = "node_fold"
        BY <1>3, <3>2 DEF NodeFits
      <4> QED BY <4>1 DEF MpcApplys
    <3> QED BY <3>1, <3>2
  <2> QED BY <1>3, <2>1, <2>2 DEF NodeFits
<1>5. CASE p.type = "AND"
  <2>1. p.f \in PartFolds /\ Len(p.xs) = Len(Takes(p.f)) /\ \A k \in DOMAIN p.xs : Yields(p.xs[k]) \subseteq {Takes(p.f)[k]}
    BY <1>3, <1>5 DEF NodeFits
  <2>2. p.xs \in Seq(AllParsers) /\ DOMAIN p.xs = 1 .. Len(p.xs)
    BY <1>3, <1>5 DEF Closed, ListTypes
  <2>3. Len(xs) = Len(p.xs) /\ \A k \in 1 .. Len(xs) : Kind(h, xs[k]) \in Yields(p.xs[k])
    BY <1>5 DEF Served, Part, ListTypes
  <2>4. Taken(h, xs, Takes(p.f))
    BY <2>1, <2>2, <2>3 DEF Taken
  <2>5. Yielded(h, out, R, Returns(p.f))
    BY <1>2, <2>1, <2>4, PartFoldGives
  <2> QED BY <1>1, <1>4, <2>5, YieldedMore
<1>6. CASE p.type \in {"MANY", "MANY1"}
  <2>1. p.f = "node_fold" /\ Yields(p.x) \subseteq NodeKinds \cup {"null"}
    BY <1>3, <1>6 DEF NodeFits
  <2>2. \A k \in 1 .. Len(xs) : Kind(h, xs[k]) \in NodeKinds \cup {"null"}
    BY <1>6, <2>1 DEF Served, Part, ListTypes
  <2>3. Yielded(h, out, R, Returns(p.f))
    BY <1>2, <2>1, <2>2, NodeFoldGives
  <2> QED BY <1>1, <1>4, <2>3, YieldedMore
<1> QED BY <1>5, <1>6

LEMMA KorlessaAppliesKeep ==
  ASSUME KorlessaFunctions
  PROVE  AppliesKeep
<1> SUFFICES ASSUME NEW p \in AllParsers, p.type = "APPLY", p.f \notin MpcApplys,
                    NEW h, NEW R, NEW x, Handed(h, R, <<x>>), Unpooled(h, <<x>>), Kind(h, x) \in Yields(p.x)
             PROVE  Yielded(h, UserApply(h, p.f, x), R, Yields(p))
  BY DEF AppliesKeep
<1>1. PICK out : out = UserApply(h, p.f, x)
  OBVIOUS
<1>2. out = ApplyFunction(h, p.f, x)
  BY <1>1 DEF KorlessaFunctions
<1>3. NodeFits(p)
  BY NodeFitAssumption
<1>4. /\ p.f \in StringApplys \cup CrateApplys
      /\ Kind(h, x) = IF p.f \in StringApplys THEN "chars" ELSE "CRATE"
  BY <1>3 DEF NodeFits
<1>5. Returns(p.f) \subseteq Yields(p)
  <2>1. p.f \notin MpcFolds
    BY <1>4 DEF StringApplys, CrateApplys, MpcFolds
  <2> QED BY <1>3, <2>1 DEF NodeFits
<1>6. CASE p.f \in StringApplys
  <2>1. Yielded(h, out, R, Returns(p.f))
    BY <1>2, <1>4, <1>6, StringApplyGives
  <2> QED BY <1>1, <1>5, <2>1, YieldedMore
<1>7. CASE p.f \in CrateApplys
  <2>1. Kind(h, x) = "CRATE"
    BY <1>4, <1>7 DEF StringApplys, CrateApplys
  <2>2. x # Null /\ Target(x) = {x}
    BY <2>1, TargetNull DEF Target
  <2>3. Sound(h, R \cup {x}) /\ x \notin R
    BY <2>2, One DEF Handed
  <2>4. CASE p.f = "apply_eof"
    <3>1. Yielded(h, out, R, {"CRATE"})
      BY <1>2, <2>1, <2>3, <2>4, EofGives
    <3> QED BY <1>1, <1>5, <2>4, <3>1, YieldedMore DEF Returns
  <2>5. CASE p.f = "apply_legato"
    <3>1. Yielded(h, out, R, {"LEGATO"})
      BY <1>2, <2>1, <2>3, <2>5, LegatoGives
    <3> QED BY <1>1, <1>5, <2>5, <3>1, YieldedMore DEF Returns
  <2> QED BY <1>7, <2>4, <2>5 DEF CrateApplys
<1> QED BY <1>4, <1>6, <1>7

LEMMA KorlessaCtorsKeep ==
  ASSUME KorlessaFunctions
  PROVE  CtorsKeep
<1> SUFFICES ASSUME NEW p \in AllParsers, p.type = "MAYBE", p.lf \notin MpcCtors, NEW h, NEW R, Sound(h, R)
             PROVE  Yielded(h, UserCtor(h, p.lf), R, Yields(p))
  BY DEF CtorsKeep
<1>1. PICK int \in EngineKinds : int = "int"
  BY DEF EngineKinds
<1>2. PICK data, out : out = UserCtor(h, p.lf) /\ out = Calloc(h, Block(int, data, << >>))
  BY <1>1 DEF KorlessaFunctions, Constructor, CallocInt
<1>3. Gives(h, out.heap, R, Target(out.value)) /\ Kind(out.heap, out.value) = int
  BY <1>2, CallocGives
<1>4. int \in Yields(p)
  <2>1. p.lf \in IntCtors /\ Returns(p.lf) \subseteq Yields(p)
    BY NodeFitAssumption DEF NodeFits
  <2> QED BY <1>1, <2>1 DEF IntCtors, Returns
<1> QED BY <1>2, <1>3, <1>4 DEF Yielded

LEMMA KorlessaDtorsKeep ==
  ASSUME KorlessaFunctions
  PROVE  DtorsKeep
<1> SUFFICES ASSUME NEW p \in AllParsers, p.type = "AND", NEW k \in 1 .. Len(p.xs) - 1, p.dxs[k] \notin MpcDtors,
                    NEW h, NEW R, NEW x, Handed(h, R, <<x>>), Unpooled(h, <<x>>)
             PROVE  Gives(h, UserDtor(h, p.dxs[k], x), R, {})
  BY DEF DtorsKeep, Destroys
<1>1. p.dxs[k] = "free_node"
  BY NodeFitAssumption DEF NodeFits
<1>2. UserDtor(h, p.dxs[k], x) = FreeNode(h, x)
  BY <1>1 DEF KorlessaFunctions, Destructor
<1>3. Sound(h, R \cup Target(x)) /\ R \cap Target(x) = {} /\ (x # Null => ~ h.blocks[x].pool)
  <2>1. PICK xs : xs = <<x>> /\ Values(xs) = Target(x)
    BY One
  <2>2. Sound(h, R \cup Target(x)) /\ R \cap Target(x) = {} /\ \A b \in Target(x) : ~ h.blocks[b].pool
    BY <2>1 DEF Handed, Unpooled
  <2> QED BY <2>2 DEF Target
<1> QED BY <1>2, <1>3, FreeNodeGives

LEMMA KorlessaKeeps ==
  ASSUME KorlessaFunctions
  PROVE  FunctionsKeep
BY KorlessaFoldsKeep, KorlessaAppliesKeep, KorlessaCtorsKeep, KorlessaDtorsKeep DEF FunctionsKeep

-------------------------------------------------------------------------------
(* Whatever korlessa's parser is given to read, a block has one owner at   *)
(* any time and none is lost while the limit on the depth is not met, what *)
(* is returned is out of the pool, and an error that is returned is about  *)
(* the furthest place.  Nothing is assumed of the functions of parser.c:   *)
(* they are those of Nodes, and the grammar fits them.                     *)
THEOREM KorlessaOwns ==
  ASSUME KorlessaFunctions
  PROVE  Spec => [](Owned /\ ResultOutlivesInput /\ FurthestError)
<1>1. FunctionsKeep
  BY KorlessaKeeps
<1>2. Spec => []Owned
  BY <1>1, InvOwned
<1>3. Spec => []ResultOutlivesInput
  BY <1>1, InvResultOutlivesInput
<1>4. Spec => []FurthestError
  BY <1>1, InvFurthestError
<1> QED BY <1>2, <1>3, <1>4, PTL

(* When the parse is over, free_parse_result gives back what was read, or  *)
(* the error, with all that it points to: no block is left, unless the     *)
(* limit on the depth was met, and none is freed twice or was in the pool. *)
THEOREM ResultFreed ==
  ASSUME KorlessaFunctions
  PROVE  Spec => []AllFreed
<1>1. FunctionsKeep
  BY KorlessaKeeps
<1>2. Heaped => AllFreed
  <2> SUFFICES ASSUME Heaped, ctl = "done", NEW left, left = FreeParseResult(heap, ok, result)
               PROVE  left.misused = {} /\ (limited \/ Live(left) = {})
    BY DEF AllFreed
  <2>1. PICK G : Holding(heap, stack, Target(error) \cup Target(Returning) \cup G) /\ Lost(G)
    BY DEF Heaped
  <2>2. stack = << >> /\ error = Null /\ Returning = result /\ (result # Null => ~ heap.blocks[result].pool)
    BY DEF Heaped, Returning
  <2>3. Sound(heap, Target(error) \cup Target(Returning) \cup G)
    BY <2>1, <2>2, EmptyHolds
  <2>4. Sound(heap, G \cup Target(result)) /\ G \cap Target(result) = {} /\ (limited \/ G = {})
    <3>1. Target(error) \cup Target(Returning) \cup G = G \cup Target(result)
      BY <2>2, TargetNull
    <3> QED BY <2>1, <2>2, <2>3, <3>1 DEF Lost
  <2>5. Gives(heap, left, G, {})
    <3>1. CASE ok
      BY <2>2, <2>4, <3>1, FreeNodeGives DEF FreeParseResult
    <3>2. CASE ~ ok
      <4>1. Kind(heap, result) \in EngineKinds \cup {"null"}
        BY <3>2 DEF Heaped, Failing, EngineKinds
      <4> QED BY <2>2, <2>4, <3>2, <4>1, FreeGives DEF FreeParseResult
    <3> QED BY <3>1, <3>2
  <2>6. Sound(left, G)
    <3>1. G \cup {} = G
      OBVIOUS
    <3> QED BY <2>5, <3>1 DEF Gives
  <2>7. left.misused = {}
    BY <2>6, SoundFacts
  <2>8. CASE G = {}
    <3>1. ASSUME Live(left) # {} PROVE FALSE
      <4>1. PICK b \in Live(left) : \A c \in Live(left) : b \notin Values(left.blocks[c].refs)
        BY <2>6, <3>1 DEF Sound, Rooted
      <4> QED BY <2>6, <2>8, <4>1 DEF Sound
    <3> QED BY <2>7, <3>1
  <2> QED BY <2>4, <2>7, <2>8
<1> QED BY <1>1, <1>2, InvHeaped, PTL
================================================================================
