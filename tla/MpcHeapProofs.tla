----------------------------- MODULE MpcHeapProofs -----------------------------
(***************************************************************************)
(* The memory of a parse on any fit grammar: every block has one owner,    *)
(* nothing is freed twice, used after it was freed or lost.  And, at the   *)
(* end, the error it returns: it is about the furthest place where         *)
(* something was expected.                                                 *)
(***************************************************************************)
EXTENDS MpcProofs, WellFoundedInduction

(***************************************************************************)
(* Sound heaps: the roots R are what is pointed to from outside, any other *)
(* block is pointed to by one block, each block is laid out as its kind    *)
(* says, and no block is below itself.                                     *)
(***************************************************************************)
Target(x) == {x} \ {Null}
Values(xs) == {xs[k] : k \in 1 .. Len(xs)} \ {Null}
Distinct(xs) == \A j, k \in 1 .. Len(xs) : xs[j] = xs[k] /\ xs[j] # Null => j = k

BlockOK(h, b) ==
  LET c == h.blocks[b]
  IN  /\ c = [kind |-> c.kind, data |-> c.data, refs |-> c.refs, pool |-> c.pool]
      /\ c.kind \notin {"null", "freed"} /\ c.pool \in BOOLEAN
      /\ IsSeq(c.refs) /\ Distinct(c.refs)
      /\ \A r \in Values(c.refs) : r \in Live(h) /\ ~ h.blocks[r].pool
      /\ [k \in 1 .. Len(c.refs) |-> Kind(h, c.refs[k])] \in Layouts(c.kind)

Rooted(h) ==
  \A S \in SUBSET Live(h) : S # {} => \E b \in S : \A c \in S : b \notin Values(h.blocks[c].refs)

Sound(h, R) ==
  /\ h = [blocks |-> h.blocks, next |-> h.next, misused |-> {}]
  /\ h.next \in Nat \ {0} /\ Live(h) \subseteq 1 .. h.next - 1
  /\ \A b \in Live(h) : BlockOK(h, b)
  /\ \A b, c \in Live(h) : b # c => Values(h.blocks[b].refs) \cap Values(h.blocks[c].refs) = {}
  /\ R \subseteq Live(h)
  /\ \A b \in Live(h) : b \in R <=> \A c \in Live(h) : b \notin Values(h.blocks[c].refs)
  /\ Rooted(h)

(***************************************************************************)
(* What the activations hold.                                              *)
(***************************************************************************)
FrameHeld(f) == Target(f.room) \cup Values(f.results)
FrameApart(f) == Distinct(f.results) /\ (f.room # Null => f.room \notin Values(f.results))

Fitting(h, f) ==
  /\ \A k \in 1 .. Len(f.results) : Kind(h, f.results[k]) \in Yields(Part(f.p, k))
  /\ Kind(h, f.room) \in {"null", "results"}
  /\ f.p.type \notin {"AND", "MANY", "MANY1"} => f.results = << >>
  /\ f.p.type \notin {"AND", "OR"} /\ Len(f.results) < MPC_PARSE_STACK_MIN => f.room = Null

StackHeld(s) == UNION {FrameHeld(s[d]) : d \in 1 .. Len(s)}

Holding(h, s, X) ==
  /\ Sound(h, StackHeld(s) \cup X) /\ X \cap StackHeld(s) = {}
  /\ \A d \in 1 .. Len(s) : FrameApart(s[d]) /\ Fitting(h, s[d])
  /\ \A d, e \in 1 .. Len(s) : d # e => FrameHeld(s[d]) \cap FrameHeld(s[e]) = {}

Returning == IF ctl = "call" THEN Null ELSE result

Lost(G) ==
  /\ G \cap (Target(error) \cup Target(Returning)) = {}
  /\ \A b \in G : ~ heap.blocks[b].pool
  /\ limited \/ G = {}

Heaped ==
  /\ \E G : Holding(heap, stack, Target(error) \cup Target(Returning) \cup G) /\ Lost(G)
  /\ Target(error) \cap Target(Returning) = {}
  /\ Kind(heap, error) \in {"null", "err"}
  /\ ctl = "return" /\ ok => Kind(heap, result) \in Yields(Asked(stack, root))
  /\ Failing => Kind(heap, result) \in {"null", "err"} /\ (suppress > 0 => result = Null)
  /\ ctl = "done" => /\ stack = << >> /\ error = Null /\ (result # Null => ~ heap.blocks[result].pool)
                     /\ ~ ok => Kind(heap, result) \in {"null", "err"}

-------------------------------------------------------------------------------
(* What an operation gives that has had some roots: others, T, while the   *)
(* roots R stay what they are.                                             *)
Keeps(h, g, R) ==
  \A b \in R :
    b \in Live(g) /\ Kind(g, b) = Kind(h, b)
    /\ g.blocks[b].data = h.blocks[b].data /\ g.blocks[b].pool = h.blocks[b].pool

Gives(h, g, R, T) == Sound(g, R \cup T) /\ R \cap T = {} /\ Keeps(h, g, R)

LEMMA SoundFacts ==
  ASSUME NEW h, NEW R, Sound(h, R)
  PROVE  /\ h.next \in Nat \ {0} /\ h.misused = {} /\ h.next \notin Live(h) /\ Null \notin Live(h)
         /\ R \subseteq Live(h) /\ \A b \in Live(h) : b \in Nat \ {0} /\ b < h.next
BY DEF Sound, Null

LEMMA KindFacts ==
  ASSUME NEW h, NEW R, Sound(h, R), NEW b
  PROVE  /\ Kind(h, b) = "null" <=> b = Null
         /\ Kind(h, b) = "freed" <=> b \notin Live(h) \cup {Null}
         /\ b \in Live(h) => Kind(h, b) = h.blocks[b].kind
<1>1. \A c \in Live(h) : h.blocks[c].kind \notin {"null", "freed"}
  BY DEF Sound, BlockOK
<1>2. Null \notin Live(h)
  BY SoundFacts
<1> QED BY <1>1, <1>2 DEF Kind

(* Blocks that point to no more than before.                               *)
LEMMA RootedOn ==
  ASSUME NEW h, NEW g, Rooted(h), Live(g) \subseteq Live(h),
         \A b \in Live(g) : Values(g.blocks[b].refs) \subseteq Values(h.blocks[b].refs)
  PROVE  Rooted(g)
<1> SUFFICES ASSUME NEW S \in SUBSET Live(g), S # {}
             PROVE  \E b \in S : \A c \in S : b \notin Values(g.blocks[c].refs)
  BY DEF Rooted
<1>1. PICK b \in S : \A c \in S : b \notin Values(h.blocks[c].refs)
  BY DEF Rooted
<1> QED BY <1>1

LEMMA NoPointers ==
  ASSUME NEW h, NEW R, Sound(h, R), NEW b \in Live(h), Kind(h, b) \in EngineKinds
  PROVE  h.blocks[b].refs = << >> /\ Values(h.blocks[b].refs) = {}
<1> DEFINE refs == h.blocks[b].refs
           kinds == [k \in 1 .. Len(refs) |-> Kind(h, refs[k])]
<1>1. IsSeq(refs) /\ kinds \in Layouts(h.blocks[b].kind)
  BY DEF Sound, BlockOK
<1>2. kinds = << >>
  BY <1>1, KindFacts, LayoutAssumption
<1>3. 1 .. Len(refs) = {} /\ Len(refs) \in Nat
  <2>1. DOMAIN kinds = 1 .. Len(refs)
    OBVIOUS
  <2>2. DOMAIN << >> = {}
    OBVIOUS
  <2> QED BY <1>1, <1>2, <2>1, <2>2, LenFacts
<1>4. refs = << >>
  BY <1>1, <1>3, EmptySeq DEF IsSeq
<1> QED BY <1>3, <1>4 DEF Values

(* A block stays well-formed while what it points to does.                 *)
LEMMA BlockKept ==
  ASSUME NEW h, NEW g, NEW b, NEW c, BlockOK(h, c),
         g.blocks[b] = [kind |-> h.blocks[c].kind, data |-> g.blocks[b].data,
                        refs |-> h.blocks[c].refs, pool |-> g.blocks[b].pool],
         g.blocks[b].pool \in BOOLEAN, Null \notin Live(h), Null \notin Live(g),
         \A r \in Values(h.blocks[c].refs) :
           r \in Live(g) /\ ~ g.blocks[r].pool /\ g.blocks[r].kind = h.blocks[r].kind
  PROVE  BlockOK(g, b)
<1> DEFINE refs == h.blocks[c].refs
<1>1. g.blocks[b].kind = h.blocks[c].kind /\ g.blocks[b].refs = refs
  OBVIOUS
<1>2. /\ g.blocks[b].kind \notin {"null", "freed"} /\ IsSeq(refs) /\ Distinct(refs)
      /\ [k \in 1 .. Len(refs) |-> Kind(h, refs[k])] \in Layouts(g.blocks[b].kind)
      /\ \A r \in Values(refs) : r \in Live(h)
  BY <1>1 DEF BlockOK
<1>3. \A k \in 1 .. Len(refs) : Kind(g, refs[k]) = Kind(h, refs[k])
  <2> SUFFICES ASSUME NEW k \in 1 .. Len(refs) PROVE Kind(g, refs[k]) = Kind(h, refs[k])
    OBVIOUS
  <2>1. CASE refs[k] = Null
    BY <2>1 DEF Kind
  <2>2. CASE refs[k] # Null
    <3>1. refs[k] \in Values(refs)
      BY <2>2 DEF Values
    <3> QED BY <1>2, <2>2, <3>1 DEF Kind
  <2> QED BY <2>1, <2>2
<1>4. [k \in 1 .. Len(refs) |-> Kind(g, refs[k])] = [k \in 1 .. Len(refs) |-> Kind(h, refs[k])]
  BY <1>3
<1> HIDE DEF refs
<1>5. [k \in 1 .. Len(g.blocks[b].refs) |-> Kind(g, g.blocks[b].refs[k])] \in Layouts(g.blocks[b].kind)
  BY <1>1, <1>2, <1>4
<1> QED BY <1>1, <1>2, <1>5 DEF BlockOK, refs

(* Some roots that are given away, one for each place.                     *)
Handed(h, R, xs) == IsSeq(xs) /\ Distinct(xs) /\ Sound(h, R \cup Values(xs)) /\ R \cap Values(xs) = {}

Unpooled(h, xs) == \A b \in Values(xs) : ~ h.blocks[b].pool

(* A new block that takes some roots.                                      *)
LEMMA BuiltGives ==
  ASSUME NEW h, NEW R, NEW refs, Handed(h, R, refs), Unpooled(h, refs),
         NEW kind, kind \notin {"null", "freed"},
         [k \in 1 .. Len(refs) |-> Kind(h, refs[k])] \in Layouts(kind),
         NEW data, NEW pool \in BOOLEAN, NEW out, out = Place(h, Block(kind, data, refs), pool)
  PROVE  /\ Gives(h, out.heap, R, Target(out.value))
         /\ out.value # Null /\ Kind(out.heap, out.value) = kind
         /\ out.heap.blocks[out.value].pool = pool /\ out.heap.blocks[out.value].data = data
<1> DEFINE g == out.heap
           n == h.next
           V == Values(refs)
           Q == R \cup V
<1>0. Sound(h, Q) /\ R \cap V = {}
  BY DEF Handed
<1> HIDE DEF V, Q
<1>1. /\ g.next = n + 1 /\ g.misused = {} /\ Live(g) = Live(h) \cup {n}
      /\ g = [blocks |-> g.blocks, next |-> g.next, misused |-> {}]
      /\ \A b \in Live(h) : g.blocks[b] = h.blocks[b]
      /\ g.blocks[n] = [kind |-> kind, data |-> data, refs |-> refs, pool |-> pool]
      /\ out.value = n
  <2> DEFINE placed == [kind |-> kind, data |-> data, refs |-> refs, pool |-> pool]
             blocks == [b \in Live(h) \cup {n} |-> IF b = n THEN placed ELSE h.blocks[b]]
  <2>1. PICK blocks0, next0 : h = [blocks |-> blocks0, next |-> next0, misused |-> {}]
    BY <1>0 DEF Sound
  <2>2. g = [h EXCEPT !.next = @ + 1, !.blocks = blocks] /\ out.value = n
    BY DEF Place, Block, Result
  <2>3. n = next0 /\ n \notin Live(h)
    BY <1>0, <2>1, SoundFacts
  <2> HIDE DEF g, n, blocks
  <2>4. g = [blocks |-> blocks, next |-> n + 1, misused |-> {}]
    BY <2>1, <2>2, <2>3
  <2>5. DOMAIN blocks = Live(h) \cup {n} /\ blocks[n] = placed /\ \A b \in Live(h) : blocks[b] = h.blocks[b]
    BY <2>3 DEF blocks
  <2>6. g.blocks = blocks /\ g.next = n + 1 /\ g.misused = {} /\ Live(g) = DOMAIN blocks
    BY <2>4 DEF Live
  <2> QED BY <2>2, <2>4, <2>5, <2>6
<1>2. n \in Nat \ {0} /\ n \notin Live(h) /\ Null \notin Live(h) /\ n # Null
      /\ Live(h) \subseteq 1 .. n - 1 /\ Q \subseteq Live(h)
  BY <1>0, SoundFacts DEF Sound, Null
<1> HIDE DEF g, n
<1>3. ASSUME NEW b \in Live(h) PROVE BlockOK(g, b)
  <2>1. BlockOK(h, b)
    BY <1>0 DEF Sound
  <2>2. \A r \in Values(h.blocks[b].refs) : r \in Live(h) /\ ~ h.blocks[r].pool
    BY <2>1 DEF BlockOK
  <2>3. h.blocks[b] = [kind |-> h.blocks[b].kind, data |-> h.blocks[b].data,
                       refs |-> h.blocks[b].refs, pool |-> h.blocks[b].pool]
        /\ h.blocks[b].pool \in BOOLEAN
    BY <2>1 DEF BlockOK
  <2> QED BY <1>1, <1>2, <2>1, <2>2, <2>3, BlockKept
<1>4. Values(g.blocks[n].refs) = V /\ BlockOK(g, n)
  <2>1. g.blocks[n].refs = refs /\ g.blocks[n].kind = kind /\ g.blocks[n].data = data
        /\ g.blocks[n].pool = pool
    BY <1>1
  <2>2. \A r \in V : r \in Live(g) /\ ~ g.blocks[r].pool
    BY <1>1, <1>2 DEF Q, V, Unpooled
  <2>3. \A k \in 1 .. Len(refs) : Kind(g, refs[k]) = Kind(h, refs[k])
    <3> SUFFICES ASSUME NEW k \in 1 .. Len(refs) PROVE Kind(g, refs[k]) = Kind(h, refs[k])
      OBVIOUS
    <3>1. CASE refs[k] = Null
      BY <3>1 DEF Kind
    <3>2. CASE refs[k] # Null
      <4>1. refs[k] \in Live(h)
        BY <1>2, <3>2 DEF Q, V, Values
      <4> QED BY <1>1, <3>2, <4>1 DEF Kind
    <3> QED BY <3>1, <3>2
  <2>4. [k \in 1 .. Len(refs) |-> Kind(g, refs[k])] \in Layouts(kind)
    BY <2>3
  <2>5. IsSeq(refs) /\ Distinct(refs)
    BY DEF Handed
  <2> QED BY <1>1, <2>1, <2>2, <2>4, <2>5 DEF BlockOK, V
<1>5. \A b \in Live(g) : BlockOK(g, b)
  BY <1>1, <1>3, <1>4
<1>6. \A b, c \in Live(g) : b # c => Values(g.blocks[b].refs) \cap Values(g.blocks[c].refs) = {}
  <2>1. \A b, c \in Live(h) : b # c => Values(h.blocks[b].refs) \cap Values(h.blocks[c].refs) = {}
    BY <1>0 DEF Sound
  <2>2. \A c \in Live(h) : Values(h.blocks[c].refs) \cap V = {}
    BY <1>0, <1>2 DEF Sound, Q
  <2> QED BY <1>1, <1>4, <2>1, <2>2
<1>7. R \cup {n} \subseteq Live(g) /\ R \cap {n} = {}
  BY <1>1, <1>2 DEF Q
<1>8. \A b \in Live(h) : b \in Q <=> \A c \in Live(h) : b \notin Values(h.blocks[c].refs)
  BY <1>0 DEF Sound
<1>9. \A c \in Live(g) : n \notin Values(g.blocks[c].refs)
  <2>1. \A c \in Live(h) : Values(h.blocks[c].refs) \subseteq Live(h)
    BY <1>0 DEF Sound, BlockOK
  <2> QED BY <1>1, <1>2, <1>4, <2>1 DEF Q
<1>10. \A b \in Live(g) : b \in R \cup {n} <=> \A c \in Live(g) : b \notin Values(g.blocks[c].refs)
  <2>1. ASSUME NEW b \in R \cup {n}, NEW c \in Live(g) PROVE b \notin Values(g.blocks[c].refs)
    BY <1>0, <1>1, <1>2, <1>4, <1>8, <1>9 DEF Q
  <2>2. ASSUME NEW b \in Live(g), \A c \in Live(g) : b \notin Values(g.blocks[c].refs) PROVE b \in R \cup {n}
    <3>1. b \notin V /\ \A c \in Live(h) : b \notin Values(h.blocks[c].refs)
      BY <1>1, <1>4, <2>2
    <3> QED BY <1>1, <1>8, <3>1 DEF Q
  <2> QED BY <2>1, <2>2
<1>11. g.next \in Nat \ {0} /\ Live(g) \subseteq 1 .. g.next - 1
  BY <1>1, <1>2
<1>12. Sound(g, R \cup {n})
  <2>1. Rooted(h)
    BY <1>0 DEF Sound
  <2>2. ASSUME NEW S \in SUBSET Live(g), S # {}
        PROVE  \E b \in S : \A c \in S : b \notin Values(g.blocks[c].refs)
    <3>1. CASE n \in S
      BY <1>9, <3>1
    <3>2. CASE n \notin S
      <4>1. S \in SUBSET Live(h)
        BY <1>1, <3>2
      <4>2. PICK b \in S : \A c \in S : b \notin Values(h.blocks[c].refs)
        BY <2>1, <2>2, <4>1 DEF Rooted
      <4> QED BY <1>1, <4>1, <4>2
    <3> QED BY <3>1, <3>2
  <2>3. Rooted(g)
    BY <2>2 DEF Rooted
  <2> QED BY <1>1, <1>5, <1>6, <1>7, <1>10, <1>11, <2>3 DEF Sound
<1>13. Keeps(h, g, R)
  BY <1>1, <1>2 DEF Keeps, Kind, Q
<1>14. Kind(g, n) = kind /\ g.blocks[n].pool = pool /\ g.blocks[n].data = data
  BY <1>1, <1>2 DEF Kind
<1>15. Target(n) = {n} /\ Gives(h, g, R, {n})
  BY <1>2, <1>7, <1>12, <1>13 DEF Gives, Target
<1>16. g = out.heap /\ n = out.value
  BY <1>1 DEF g
<1> QED BY <1>2, <1>14, <1>15, <1>16

(* A new block without pointers.                                           *)
LEMMA PlaceGives ==
  ASSUME NEW h, NEW R, Sound(h, R), NEW kind \in EngineKinds, NEW data, NEW pool \in BOOLEAN,
         NEW out, out = Place(h, Block(kind, data, << >>), pool)
  PROVE  /\ Gives(h, out.heap, R, Target(out.value))
         /\ out.value # Null /\ Kind(out.heap, out.value) = kind
         /\ out.heap.blocks[out.value].pool = pool /\ out.heap.blocks[out.value].data = data
<1> DEFINE refs == << >>
<1>1. IsSeq(refs) /\ Distinct(refs) /\ Values(refs) = {}
  BY DEF Values, IsSeq, Distinct
<1>2. [k \in 1 .. Len(refs) |-> Kind(h, refs[k])] = << >>
  OBVIOUS
<1>3. << >> \in Layouts(kind) /\ kind \notin {"null", "freed"}
  BY LayoutAssumption DEF EngineKinds
<1>4. R \cup {} = R
  OBVIOUS
<1> HIDE DEF refs
<1>5. Handed(h, R, refs) /\ Unpooled(h, refs)
  BY <1>1, <1>4 DEF Handed, Unpooled
<1>6. [k \in 1 .. Len(refs) |-> Kind(h, refs[k])] \in Layouts(kind)
  BY <1>2, <1>3
<1>7. out = Place(h, Block(kind, data, refs), pool)
  BY DEF refs
<1> QED BY <1>3, <1>5, <1>6, <1>7, BuiltGives

(* Roots are given back with all that they point to.                       *)
LEMMA ReleasedGives ==
  ASSUME NEW h, NEW Q, Sound(h, Q), NEW R \in SUBSET Q, NEW F \in SUBSET Live(h),
         Q \ R \subseteq F, F \cap R = {}, \A b \in F : Values(h.blocks[b].refs) \subseteq F,
         \A b \in F : b \in Q \/ \E c \in F : b \in Values(h.blocks[c].refs),
         NEW freeable \in SUBSET Live(h), F \subseteq freeable,
         NEW xs, \A k \in DOMAIN xs : xs[k] = Null \/ xs[k] \in F, \A b \in F : \E k \in DOMAIN xs : xs[k] = b,
         \A j, k \in DOMAIN xs : xs[j] = xs[k] /\ xs[j] # Null => j = k,
         NEW g, g = Release(h, xs, freeable)
  PROVE  Gives(h, g, R, {})
<1> DEFINE wrong == {k \in DOMAIN xs : xs[k] \notin freeable \/ xs[k] \in {xs[j] : j \in DOMAIN xs \ {k}}}
           blocks == [b \in Live(h) \ (freeable \cap ToSet(xs)) |-> h.blocks[b]]
<1>1. freeable \cap ToSet(xs) = F
  <2>1. Null \notin freeable
    BY SoundFacts
  <2>2. ToSet(xs) \ {Null} = F
    <3>1. \A b : b \in ToSet(xs) <=> \E k \in DOMAIN xs : b = xs[k]
      BY DEF ToSet
    <3>2. Null \notin F
      BY SoundFacts
    <3> HIDE DEF wrong, blocks
    <3> QED BY <3>1, <3>2
  <2> QED BY <2>1, <2>2
<1>2. {xs[k] : k \in wrong} \ {Null} = {}
  <2> SUFFICES ASSUME NEW k \in wrong, xs[k] # Null PROVE FALSE
    OBVIOUS
  <2>1. k \in DOMAIN xs
    OBVIOUS
  <2>2. xs[k] \in F
    BY <2>1
  <2>3. PICK j \in DOMAIN xs \ {k} : xs[j] = xs[k]
    BY <2>2
  <2> QED BY <2>1, <2>3
<1>3. g = [h EXCEPT !.blocks = blocks, !.misused = @ \cup ({xs[k] : k \in wrong} \ {Null})]
  BY DEF Release
<1> HIDE DEF wrong
<1>4. PICK blocks0, next0 : h = [blocks |-> blocks0, next |-> next0, misused |-> {}]
  BY DEF Sound
<1> HIDE DEF blocks
<1>5. g = [blocks |-> blocks, next |-> h.next, misused |-> {}]
  <2>1. g = [h EXCEPT !.blocks = blocks, !.misused = {}]
    BY <1>2, <1>3, <1>4
  <2> QED BY <1>4, <2>1
<1>6. DOMAIN blocks = Live(h) \ F /\ \A b \in Live(h) \ F : blocks[b] = h.blocks[b]
  BY <1>1 DEF blocks
<1>7. /\ g = [blocks |-> g.blocks, next |-> g.next, misused |-> {}]
      /\ g.next = h.next /\ Live(g) = Live(h) \ F /\ \A b \in Live(g) : g.blocks[b] = h.blocks[b]
  BY <1>5, <1>6 DEF Live
<1>8. Q \subseteq Live(h) /\ Null \notin Live(h)
  BY SoundFacts
<1>9. ASSUME NEW b \in Live(g), NEW r \in Values(h.blocks[b].refs) PROVE r \notin F
  <2> SUFFICES ASSUME r \in F PROVE FALSE
    OBVIOUS
  <2>1. b \in Live(h) /\ b \notin F
    BY <1>7
  <2>2. r \notin Q
    BY <1>8, <2>1 DEF Sound
  <2>3. PICK c \in F : r \in Values(h.blocks[c].refs)
    BY <2>2
  <2> QED BY <2>1, <2>3 DEF Sound
<1>10. ASSUME NEW b \in Live(g) PROVE BlockOK(g, b)
  <2>1. BlockOK(h, b)
    BY <1>7 DEF Sound
  <2>2. \A r \in Values(h.blocks[b].refs) : r \in Live(g) /\ ~ g.blocks[r].pool /\ g.blocks[r].kind = h.blocks[r].kind
    BY <1>7, <1>9, <2>1 DEF BlockOK
  <2>3. g.blocks[b] = [kind |-> h.blocks[b].kind, data |-> g.blocks[b].data,
                       refs |-> h.blocks[b].refs, pool |-> g.blocks[b].pool]
        /\ g.blocks[b].pool \in BOOLEAN
    BY <1>7, <2>1 DEF BlockOK
  <2> QED BY <1>7, <1>8, <2>1, <2>2, <2>3, BlockKept
<1>11. Sound(g, R)
  <2>1. \A b, c \in Live(g) : b # c => Values(g.blocks[b].refs) \cap Values(g.blocks[c].refs) = {}
    BY <1>7 DEF Sound
  <2>2. R \subseteq Live(g)
    BY <1>7, <1>8
  <2>3. ASSUME NEW b \in Live(g), b \in R, NEW c \in Live(g) PROVE b \notin Values(g.blocks[c].refs)
    BY <1>7, <2>3 DEF Sound
  <2>4. ASSUME NEW b \in Live(g), \A c \in Live(g) : b \notin Values(g.blocks[c].refs) PROVE b \in R
    <3>1. \A c \in Live(h) : b \notin Values(h.blocks[c].refs)
      BY <1>7, <2>4
    <3>2. b \in Q
      BY <1>7, <3>1 DEF Sound
    <3> QED BY <1>7, <3>2
  <2>5. g.next \in Nat \ {0} /\ Live(g) \subseteq 1 .. g.next - 1
    BY <1>7 DEF Sound
  <2>6. Rooted(g)
    BY <1>7, RootedOn DEF Sound
  <2> QED BY <1>7, <1>10, <2>1, <2>2, <2>3, <2>4, <2>5, <2>6 DEF Sound
<1>12. Keeps(h, g, R)
  <2>1. R \subseteq Live(g)
    BY <1>7, <1>8
  <2> QED BY <1>7, <2>1 DEF Keeps, Kind
<1>13. R \cup {} = R
  OBVIOUS
<1> QED BY <1>11, <1>12, <1>13 DEF Gives

(* Roots without pointers are given back.                                  *)
LEMMA ReleaseGives ==
  ASSUME NEW h, NEW R, NEW xs, Handed(h, R, xs),
         NEW freeable \in SUBSET Live(h), \A b \in Values(xs) : b \in freeable /\ Kind(h, b) \in EngineKinds,
         NEW g, g = Release(h, xs, freeable)
  PROVE  Gives(h, g, R, {})
<1> DEFINE F == Values(xs)
           Q == R \cup F
<1>1. DOMAIN xs = 1 .. Len(xs)
  BY LenFacts DEF Handed
<1>2. Sound(h, Q) /\ R \in SUBSET Q /\ F \in SUBSET Live(h) /\ F \subseteq freeable
  BY SoundFacts DEF Handed
<1>3. Q \ R \subseteq F /\ F \cap R = {} /\ \A b \in F : b \in Q
  BY DEF Handed
<1>4. (\A k \in DOMAIN xs : xs[k] = Null \/ xs[k] \in F) /\ \A b \in F : \E k \in DOMAIN xs : xs[k] = b
  BY <1>1 DEF Values
<1>5. \A j, k \in DOMAIN xs : xs[j] = xs[k] /\ xs[j] # Null => j = k
  BY <1>1 DEF Handed, Distinct
<1> HIDE DEF F, Q
<1>6. \A b \in F : Values(h.blocks[b].refs) \subseteq F
  <2> SUFFICES ASSUME NEW b \in F PROVE Values(h.blocks[b].refs) = {}
    OBVIOUS
  <2>1. b \in Live(h) /\ Kind(h, b) \in EngineKinds
    BY <1>2 DEF F
  <2> QED BY <1>2, <2>1, NoPointers
<1> QED BY <1>2, <1>3, <1>4, <1>5, <1>6, ReleasedGives

LEMMA MpcFreeAllGives ==
  ASSUME NEW h, NEW R, NEW xs, Handed(h, R, xs),
         \A b \in Values(xs) : Kind(h, b) \in EngineKinds
  PROVE  Gives(h, MpcFreeAll(h, xs), R, {})
<1>1. Values(xs) \subseteq Live(h)
  BY SoundFacts DEF Handed
<1> QED BY <1>1, ReleaseGives DEF MpcFreeAll

LEMMA FreeAllGives ==
  ASSUME NEW h, NEW R, NEW xs, Handed(h, R, xs),
         \A b \in Values(xs) : Kind(h, b) \in EngineKinds /\ ~ h.blocks[b].pool
  PROVE  Gives(h, FreeAll(h, xs), R, {})
<1>1. \A b \in Values(xs) : b \in Live(h) \ Pooled(h)
  BY SoundFacts DEF Handed, Pooled
<1> QED BY <1>1, ReleaseGives DEF FreeAll

(* What has been written into a block changes nothing.                     *)
LEMMA UpdateGives ==
  ASSUME NEW h, NEW R, Sound(h, R), NEW b \in Live(h), NEW data,
         NEW g, g = Update(h, b, data)
  PROVE  /\ Sound(g, R) /\ Keeps(h, g, Live(h) \ {b}) /\ Live(g) = Live(h)
         /\ Kind(g, b) = Kind(h, b) /\ g.blocks[b].data = data
<1>1. PICK blocks0, next0 : h = [blocks |-> blocks0, next |-> next0, misused |-> {}]
  BY DEF Sound
<1>2. g = [h EXCEPT !.blocks[b].data = data]
  BY DEF Update
<1>3. g.next = h.next /\ g.misused = {} /\ g = [blocks |-> g.blocks, next |-> g.next, misused |-> {}]
      /\ g.blocks = [h.blocks EXCEPT ![b] = [h.blocks[b] EXCEPT !.data = data]]
  BY <1>1, <1>2
<1>4. PICK c : c = h.blocks[b]
  OBVIOUS
<1>5. c = [kind |-> c.kind, data |-> c.data, refs |-> c.refs, pool |-> c.pool]
  BY <1>4 DEF Sound, BlockOK
<1>6. /\ Live(g) = Live(h) /\ \A x \in Live(h) : x # b => g.blocks[x] = h.blocks[x]
      /\ g.blocks[b] = [c EXCEPT !.data = data]
  BY <1>3, <1>4 DEF Live
<1>7. g.blocks[b] = [kind |-> c.kind, data |-> data, refs |-> c.refs, pool |-> c.pool]
  BY <1>5, <1>6
<1>8. ASSUME NEW x \in Live(h)
      PROVE  /\ g.blocks[x] = [kind |-> h.blocks[x].kind, data |-> g.blocks[x].data,
                               refs |-> h.blocks[x].refs, pool |-> h.blocks[x].pool]
             /\ g.blocks[x].kind = h.blocks[x].kind /\ g.blocks[x].refs = h.blocks[x].refs
             /\ g.blocks[x].pool = h.blocks[x].pool
  <2>1. CASE x = b
    BY <1>4, <1>7, <2>1
  <2>2. CASE x # b
    BY <1>6, <2>2 DEF Sound, BlockOK
  <2> QED BY <2>1, <2>2
<1>9. Null \notin Live(h)
  BY SoundFacts
<1>10. ASSUME NEW x \in Live(h) PROVE BlockOK(g, x)
  <2>1. BlockOK(h, x)
    BY DEF Sound
  <2>2. \A r \in Values(h.blocks[x].refs) : r \in Live(g) /\ ~ g.blocks[r].pool /\ g.blocks[r].kind = h.blocks[r].kind
    BY <1>6, <1>8, <2>1 DEF BlockOK
  <2>3. g.blocks[x].pool \in BOOLEAN
    BY <1>8, <2>1 DEF BlockOK
  <2>4. g.blocks[x] = [kind |-> h.blocks[x].kind, data |-> g.blocks[x].data,
                       refs |-> h.blocks[x].refs, pool |-> g.blocks[x].pool]
    BY <1>8
  <2> QED BY <1>6, <1>9, <2>1, <2>2, <2>3, <2>4, BlockKept
<1>11. Live(g) = Live(h) /\ \A x \in Live(h) : g.blocks[x].refs = h.blocks[x].refs
  BY <1>6, <1>8
<1>12. /\ \A x, y \in Live(g) : x # y => Values(g.blocks[x].refs) \cap Values(g.blocks[y].refs) = {}
       /\ \A x \in Live(g) : x \in R <=> \A y \in Live(g) : x \notin Values(g.blocks[y].refs)
  BY <1>11 DEF Sound
<1>13. Sound(g, R)
  <2>1. Rooted(g)
    BY <1>11, RootedOn DEF Sound
  <2> QED BY <1>3, <1>6, <1>10, <1>12, <2>1 DEF Sound
<1>14. Keeps(h, g, Live(h) \ {b})
  BY <1>6, <1>8, <1>9 DEF Keeps, Kind
<1>15. g.blocks[b].data = data
  BY <1>7
<1>16. Kind(g, b) = Kind(h, b)
  <2>1. g.blocks[b].kind = h.blocks[b].kind
    BY <1>8
  <2> QED BY <1>6, <1>9, <2>1 DEF Kind
<1> QED BY <1>6, <1>13, <1>14, <1>15, <1>16

LEMMA SeqOfFunction ==
  ASSUME NEW n \in Nat, NEW f, f = [k \in 1 .. n |-> f[k]]
  PROVE  IsSeq(f) /\ Len(f) = n
<1> DEFINE T == {f[k] : k \in 1 .. n}
<1>1. \A k \in 1 .. n : f[k] \in T
  OBVIOUS
<1> HIDE DEF T
<1>2. f \in Seq(T)
  BY <1>1
<1>3. Len(f) = n
  <2>1. DOMAIN f = 1 .. n
    OBVIOUS
  <2> QED BY <1>2, <2>1, LenProperties
<1> QED BY <1>2, <1>3, SeqOfAnything

(* What is exported are the same values out of the pool.                   *)
LEMMA ExportAllGives ==
  ASSUME NEW h, NEW R, NEW xs, Handed(h, R, xs),
         NEW out, out = ExportAll(h, xs)
  PROVE  /\ Gives(h, out.heap, R, Values(out.value))
         /\ IsSeq(out.value) /\ Len(out.value) = Len(xs) /\ Distinct(out.value)
         /\ \A k \in 1 .. Len(xs) : Kind(out.heap, out.value[k]) = Kind(h, xs[k])
         /\ \A b \in Values(out.value) : ~ out.heap.blocks[b].pool
         /\ \A k \in 1 .. Len(xs) : xs[k] # Null => out.heap.blocks[out.value[k]].data = h.blocks[xs[k]].data
<1> USE DEF Handed
<1> DEFINE n == Len(xs)
           moved == {k \in DOMAIN xs : xs[k] \in Pooled(h)}
           M == {xs[k] : k \in moved}
           Copy(k) == h.next + k - 1
           copies == {Copy(k) : k \in moved}
           left == Live(h) \ M
           blocks == [b \in left \cup copies |->
                        IF b \in left THEN h.blocks[b]
                        ELSE [h.blocks[xs[b - h.next + 1]] EXCEPT !.pool = FALSE]]
           g == out.heap
           ys == out.value
<1>1. DOMAIN xs = 1 .. n /\ n \in Nat
  BY LenFacts
<1>2. PICK blocks0, next0 : h = [blocks |-> blocks0, next |-> next0, misused |-> {}]
  BY DEF Sound
<1>3. g = [h EXCEPT !.next = @ + n, !.blocks = blocks]
      /\ ys = [k \in DOMAIN xs |-> IF k \in moved THEN Copy(k) ELSE xs[k]]
  BY DEF ExportAll, Result
<1>4. h.next \in Nat \ {0} /\ Null \notin Live(h) /\ Live(h) \subseteq 1 .. h.next - 1
      /\ Values(xs) \subseteq Live(h) /\ R \subseteq Live(h)
  <2>1. h.next \in Nat \ {0} /\ Null \notin Live(h) /\ R \cup Values(xs) \subseteq Live(h)
    BY SoundFacts
  <2>2. Live(h) \subseteq 1 .. h.next - 1
    BY DEF Sound
  <2> QED BY <2>1, <2>2
<1>5. \A k \in moved : k \in 1 .. n /\ xs[k] \in Live(h) /\ xs[k] \in Values(xs) /\ xs[k] # Null
  BY <1>1, <1>4 DEF Pooled, Values
<1>6. \A k \in 1 .. n : Copy(k) \in Nat \ {0} /\ Copy(k) \notin Live(h) /\ Copy(k) >= h.next
        /\ Copy(k) <= h.next + n - 1 /\ Copy(k) - h.next + 1 = k
  BY <1>1, <1>4
<1>7. \A k \in 1 .. n : k \notin moved => xs[k] \notin M
  BY <1>1, <1>5 DEF Distinct
<1>8. M \subseteq Values(xs)
  BY <1>5
<1>9. /\ DOMAIN blocks = left \cup copies /\ \A b \in left : blocks[b] = h.blocks[b]
      /\ \A k \in moved : blocks[Copy(k)] = [h.blocks[xs[k]] EXCEPT !.pool = FALSE]
  <2>1. \A k \in moved : Copy(k) \notin left /\ Copy(k) \in copies /\ Copy(k) - h.next + 1 = k
    BY <1>5, <1>6
  <2> QED BY <2>1
<1>10. g = [blocks |-> blocks, next |-> h.next + n, misused |-> {}]
  <2> HIDE DEF blocks, g
  <2> QED BY <1>2, <1>3
<1> HIDE DEF blocks, g, ys, moved, n, M
<1>11. /\ g = [blocks |-> g.blocks, next |-> g.next, misused |-> {}]
       /\ g.next = h.next + n /\ Live(g) = left \cup copies
       /\ \A b \in left : g.blocks[b] = h.blocks[b]
       /\ \A k \in moved : g.blocks[Copy(k)] = [h.blocks[xs[k]] EXCEPT !.pool = FALSE]
  BY <1>9, <1>10 DEF Live
<1>12. \A k \in moved :
         /\ g.blocks[Copy(k)].kind = h.blocks[xs[k]].kind /\ g.blocks[Copy(k)].refs = h.blocks[xs[k]].refs
         /\ g.blocks[Copy(k)].pool = FALSE /\ g.blocks[Copy(k)].data = h.blocks[xs[k]].data
         /\ g.blocks[Copy(k)] = [kind |-> h.blocks[xs[k]].kind, data |-> g.blocks[Copy(k)].data,
                                 refs |-> h.blocks[xs[k]].refs, pool |-> FALSE]
  <2> SUFFICES ASSUME NEW k \in moved
               PROVE  /\ g.blocks[Copy(k)].kind = h.blocks[xs[k]].kind
                      /\ g.blocks[Copy(k)].refs = h.blocks[xs[k]].refs
                      /\ g.blocks[Copy(k)].pool = FALSE /\ g.blocks[Copy(k)].data = h.blocks[xs[k]].data
                      /\ g.blocks[Copy(k)] = [kind |-> h.blocks[xs[k]].kind, data |-> g.blocks[Copy(k)].data,
                                              refs |-> h.blocks[xs[k]].refs, pool |-> FALSE]
    OBVIOUS
  <2>1. PICK c : c = h.blocks[xs[k]]
    OBVIOUS
  <2>2. c = [kind |-> c.kind, data |-> c.data, refs |-> c.refs, pool |-> c.pool]
    BY <1>5, <2>1 DEF Sound, BlockOK
  <2>3. g.blocks[Copy(k)] = [c EXCEPT !.pool = FALSE]
    BY <1>11, <2>1
  <2> HIDE DEF Copy
  <2> QED BY <2>1, <2>2, <2>3
<1>13. \A b \in M, c \in Live(h) : b \notin Values(h.blocks[c].refs)
  BY <1>4, <1>8 DEF Sound
(* Where a block was before.                                               *)
<1> DEFINE origin(b) == IF b \in left THEN b ELSE xs[b - h.next + 1]
<1>14. \A k \in moved : Copy(k) \notin left /\ origin(Copy(k)) = xs[k]
  BY <1>5, <1>6
<1>15. \A b \in Live(g) : \/ b \in left
                          \/ \E k \in moved : b = Copy(k)
  BY <1>11
<1>16. /\ \A b \in Live(g) : origin(b) \in Live(h) /\ g.blocks[b].refs = h.blocks[origin(b)].refs
       /\ \A c \in Live(h) : \E b \in Live(g) : origin(b) = c
  <2>1. ASSUME NEW b \in Live(g) PROVE origin(b) \in Live(h) /\ g.blocks[b].refs = h.blocks[origin(b)].refs
    <3>1. CASE b \in left
      BY <1>11, <3>1
    <3>2. CASE \E k \in moved : b = Copy(k)
      <4>1. PICK k \in moved : b = Copy(k)
        BY <3>2
      <4> HIDE DEF Copy, origin
      <4> QED BY <1>5, <1>12, <1>14, <4>1
    <3> QED BY <1>15, <3>1, <3>2
  <2>2. ASSUME NEW c \in Live(h) PROVE \E b \in Live(g) : origin(b) = c
    <3>1. CASE c \in M
      <4>1. PICK k \in moved : c = xs[k]
        BY <3>1 DEF M
      <4>2. Copy(k) \in Live(g)
        BY <1>11
      <4> QED BY <1>14, <4>1, <4>2
    <3>2. CASE c \notin M
      BY <1>11, <3>2
    <3> QED BY <3>1, <3>2
  <2> QED BY <2>1, <2>2
<1>17. \A b, c \in Live(g) : b # c => origin(b) # origin(c)
  <2>1. \A k, j \in moved : xs[k] = xs[j] => k = j
    BY <1>5 DEF Distinct, n
  <2>2. \A k \in moved : xs[k] \notin left
    BY DEF M
  <2> SUFFICES ASSUME NEW b \in Live(g), NEW c \in Live(g), origin(b) = origin(c) PROVE b = c
    OBVIOUS
  <2>3. CASE b \in left /\ c \in left
    BY <2>3
  <2>4. CASE b \in left /\ c \notin left
    <3>1. PICK k \in moved : c = Copy(k)
      BY <1>15, <2>4
    <3>2. origin(c) = xs[k] /\ origin(b) = b
      BY <1>14, <2>4, <3>1
    <3> QED BY <2>2, <2>4, <3>2
  <2>5. CASE b \notin left /\ c \in left
    <3>1. PICK k \in moved : b = Copy(k)
      BY <1>15, <2>5
    <3>2. origin(b) = xs[k] /\ origin(c) = c
      BY <1>14, <2>5, <3>1
    <3> QED BY <2>2, <2>5, <3>2
  <2>6. CASE b \notin left /\ c \notin left
    <3>1. PICK k \in moved : b = Copy(k)
      BY <1>15, <2>6
    <3>2. PICK j \in moved : c = Copy(j)
      BY <1>15, <2>6
    <3>3. xs[k] = xs[j]
      BY <1>14, <3>1, <3>2
    <3> QED BY <2>1, <3>1, <3>2, <3>3
  <2> QED BY <2>3, <2>4, <2>5, <2>6
<1> HIDE DEF origin, Copy
<1>18. ASSUME NEW b \in Live(g) PROVE BlockOK(g, b)
  <2>1. \A c \in Live(h) : BlockOK(h, c)
    BY DEF Sound
  <2>2. \A c \in Live(h) : \A r \in Values(h.blocks[c].refs) :
          r \in Live(g) /\ ~ g.blocks[r].pool /\ g.blocks[r].kind = h.blocks[r].kind
    BY <1>11, <1>13, <2>1 DEF BlockOK
  <2>3. Null \notin Live(g)
    BY <1>4, <1>5, <1>6, <1>11, <1>15 DEF Null
  <2>4. CASE b \in left
    <3>1. g.blocks[b] = [kind |-> h.blocks[b].kind, data |-> g.blocks[b].data,
                         refs |-> h.blocks[b].refs, pool |-> g.blocks[b].pool]
          /\ g.blocks[b].pool \in BOOLEAN
      BY <1>11, <2>1, <2>4 DEF BlockOK
    <3> QED BY <1>4, <2>1, <2>2, <2>3, <2>4, <3>1, BlockKept
  <2>5. CASE b \notin left
    <3>1. PICK k \in moved : b = Copy(k)
      BY <1>15, <2>5
    <3>2. g.blocks[b] = [kind |-> h.blocks[xs[k]].kind, data |-> g.blocks[b].data,
                         refs |-> h.blocks[xs[k]].refs, pool |-> g.blocks[b].pool]
          /\ g.blocks[b].pool \in BOOLEAN
      BY <1>12, <3>1
    <3>3. xs[k] \in Live(h)
      BY <1>5
    <3> QED BY <1>4, <2>1, <2>2, <2>3, <3>2, <3>3, BlockKept
  <2> QED BY <2>4, <2>5
<1>19. \A b, c \in Live(g) : b # c => Values(g.blocks[b].refs) \cap Values(g.blocks[c].refs) = {}
  BY <1>16, <1>17 DEF Sound
<1>20. g.next \in Nat \ {0} /\ Live(g) \subseteq 1 .. g.next - 1
  <2>1. \A b \in left : b \in 1 .. g.next - 1
    BY <1>1, <1>4, <1>11
  <2>2. \A k \in moved : Copy(k) \in 1 .. g.next - 1
    BY <1>1, <1>4, <1>5, <1>6, <1>11
  <2> QED BY <1>1, <1>4, <1>11, <1>15, <2>1, <2>2
<1>21. IsSeq(ys) /\ Len(ys) = n /\ \A k \in 1 .. n : ys[k] = IF k \in moved THEN Copy(k) ELSE xs[k]
  <2>1. ys = [k \in 1 .. n |-> IF k \in moved THEN Copy(k) ELSE xs[k]]
    BY <1>1, <1>3 DEF n
  <2> QED BY <1>1, <2>1, SeqOfFunction DEF n
<1>22. Values(ys) = copies \cup (Values(xs) \ M)
  <2>1. Values(ys) = {ys[k] : k \in 1 .. n} \ {Null} /\ Values(xs) = {xs[k] : k \in 1 .. n} \ {Null}
    BY <1>21 DEF Values, n
  <2>2. \A k \in moved : k \in 1 .. n /\ ys[k] = Copy(k) /\ ys[k] # Null
    BY <1>5, <1>6, <1>21 DEF Null
  <2>3. \A k \in 1 .. n : k \notin moved => ys[k] = xs[k] /\ xs[k] \notin M
    BY <1>7, <1>21 DEF n
  <2>4. ASSUME NEW b \in Values(ys) PROVE b \in copies \cup (Values(xs) \ M)
    BY <2>1, <2>2, <2>3
  <2>5. ASSUME NEW b \in copies PROVE b \in Values(ys)
    BY <2>1, <2>2
  <2>6. ASSUME NEW b \in Values(xs) \ M PROVE b \in Values(ys)
    <3>1. PICK k \in 1 .. n : xs[k] = b
      BY <2>1
    <3>2. k \notin moved
      BY <3>1 DEF M
    <3> QED BY <2>1, <2>3, <2>6, <3>1, <3>2
  <2> QED BY <2>4, <2>5, <2>6
<1>23. R \cap Values(ys) = {} /\ R \subseteq Live(g) /\ Values(ys) \subseteq Live(g)
  BY <1>4, <1>5, <1>6, <1>8, <1>11, <1>22
<1>24. \A b \in Live(g) : b \in R \cup Values(ys) <=> \A c \in Live(g) : b \notin Values(g.blocks[c].refs)
  <2>1. \A b : (\A c \in Live(g) : b \notin Values(g.blocks[c].refs))
               <=> \A c \in Live(h) : b \notin Values(h.blocks[c].refs)
    BY <1>16
  <2>2. ASSUME NEW b \in left
        PROVE  b \in R \cup Values(ys) <=> \A c \in Live(h) : b \notin Values(h.blocks[c].refs)
    <3>1. b \notin copies
      BY <1>5, <1>6
    <3>2. b \in R \cup Values(ys) <=> b \in R \cup Values(xs)
      BY <1>22, <3>1
    <3> QED BY <3>2 DEF Sound
  <2>3. ASSUME NEW k \in moved PROVE \A c \in Live(h) : Copy(k) \notin Values(h.blocks[c].refs)
    BY <1>5, <1>6 DEF Sound, BlockOK
  <2> QED BY <1>11, <1>22, <2>1, <2>2, <2>3
<1>25. Sound(g, R \cup Values(ys))
  <2>1. Rooted(h)
    BY DEF Sound
  <2>2. \A b \in Live(g) : b = origin(b) \/ b \notin Live(h)
    <3>1. ASSUME NEW b \in Live(g), b \notin left PROVE b \notin Live(h)
      BY <1>5, <1>6, <1>15, <3>1
    <3>2. \A b \in left : b = origin(b)
      BY DEF origin
    <3> QED BY <3>1, <3>2
  <2>3. \A c \in Live(h) : Values(h.blocks[c].refs) \subseteq Live(h)
    BY DEF Sound, BlockOK
  <2>4. ASSUME NEW S \in SUBSET Live(g), S # {}
        PROVE  \E b \in S : \A c \in S : b \notin Values(g.blocks[c].refs)
    <3>1. PICK S0 : S0 = {origin(b) : b \in S}
      OBVIOUS
    <3>2. S0 \in SUBSET Live(h) /\ S0 # {}
      BY <1>16, <2>4, <3>1
    <3>3. PICK c0 \in S0 : \A c \in S0 : c0 \notin Values(h.blocks[c].refs)
      BY <2>1, <3>2 DEF Rooted
    <3>4. PICK b \in S : c0 = origin(b)
      BY <3>1, <3>3
    <3>5. ASSUME NEW c \in S PROVE b \notin Values(g.blocks[c].refs)
      <4>1. origin(c) \in S0 /\ g.blocks[c].refs = h.blocks[origin(c)].refs /\ origin(c) \in Live(h)
        BY <1>16, <3>1
      <4>2. c0 \notin Values(h.blocks[origin(c)].refs) /\ Values(h.blocks[origin(c)].refs) \subseteq Live(h)
        BY <2>3, <3>3, <4>1
      <4> QED BY <2>2, <3>4, <4>1, <4>2
    <3> QED BY <3>5
  <2>5. Rooted(g)
    BY <2>4 DEF Rooted
  <2> QED BY <1>11, <1>18, <1>19, <1>20, <1>23, <1>24, <2>5 DEF Sound
<1>26. Keeps(h, g, R)
  <2>1. \A b \in R : b \in left /\ b # Null /\ b \in Live(h)
    BY <1>4, <1>8
  <2> QED BY <1>11, <2>1 DEF Keeps, Kind
<1>27. Distinct(ys)
  <2> SUFFICES ASSUME NEW j \in 1 .. n, NEW k \in 1 .. n, ys[j] = ys[k], ys[k] # Null PROVE j = k
    BY <1>21 DEF Distinct
  <2>1. CASE j \in moved /\ k \in moved
    BY <1>6, <1>21, <2>1
  <2>2. CASE j \notin moved /\ k \notin moved
    BY <1>21, <2>2 DEF Distinct, n
  <2>3. \A i \in 1 .. n : i \notin moved /\ xs[i] # Null => xs[i] \in Live(h)
    BY <1>4 DEF Values, n
  <2> QED BY <1>6, <1>21, <2>1, <2>2, <2>3
<1>28. ASSUME NEW k \in 1 .. n PROVE Kind(g, ys[k]) = Kind(h, xs[k])
  <2>1. CASE k \in moved
    <3>1. ys[k] = Copy(k) /\ Copy(k) \in Live(g) /\ Copy(k) # Null
      BY <1>6, <1>11, <1>21, <2>1 DEF Null
    <3> QED BY <1>5, <1>12, <2>1, <3>1 DEF Kind
  <2>2. CASE k \notin moved
    <3>1. ys[k] = xs[k] /\ (xs[k] # Null => xs[k] \in left)
      BY <1>4, <1>7, <1>21, <2>2 DEF Values, n
    <3> QED BY <1>11, <3>1 DEF Kind
  <2> QED BY <2>1, <2>2
<1>29. ASSUME NEW b \in Values(ys) PROVE ~ g.blocks[b].pool
  <2>1. CASE b \in copies
    BY <1>12, <2>1
  <2>2. CASE b \in Values(xs) \ M
    <3>1. PICK k \in 1 .. n : xs[k] = b
      BY <2>2 DEF Values, n
    <3>2. k \notin moved /\ b \in left
      BY <1>4, <2>2, <3>1 DEF M
    <3>3. b \notin Pooled(h)
      BY <1>1, <3>1, <3>2 DEF moved, n
    <3> QED BY <1>11, <3>2, <3>3 DEF Pooled
  <2> QED BY <1>22, <2>1, <2>2
<1>30. ASSUME NEW k \in 1 .. n, xs[k] # Null PROVE g.blocks[ys[k]].data = h.blocks[xs[k]].data
  <2>1. CASE k \in moved
    <3>1. ys[k] = Copy(k)
      BY <1>21, <2>1
    <3> QED BY <1>12, <2>1, <3>1
  <2>2. CASE k \notin moved
    <3>1. ys[k] = xs[k] /\ xs[k] \in left
      BY <1>4, <1>7, <1>21, <1>30, <2>2 DEF Values, n
    <3> QED BY <1>11, <3>1
  <2> QED BY <2>1, <2>2
<1> QED BY <1>21, <1>23, <1>25, <1>26, <1>27, <1>28, <1>29, <1>30 DEF Gives, g, ys, n

(***************************************************************************)
(* mpc's own functions.                                                    *)
(***************************************************************************)
(* An operation that gives one value.                                      *)
Yielded(h, out, R, kinds) ==
  Gives(h, out.heap, R, Target(out.value)) /\ Kind(out.heap, out.value) \in kinds

LEMMA One ==
  ASSUME NEW x
  PROVE  IsSeq(<<x>>) /\ Len(<<x>>) = 1 /\ Distinct(<<x>>) /\ Values(<<x>>) = Target(x)
<1> DEFINE xs == <<x>>
<1>1. xs \in Seq({x}) /\ Len(xs) = 1 /\ xs[1] = x
  OBVIOUS
<1> HIDE DEF xs
<1>2. 1 .. Len(xs) = {1}
  BY <1>1
<1> QED BY <1>1, <1>2, SeqOfAnything DEF Distinct, Values, Target, xs

LEMMA Two ==
  ASSUME NEW x, NEW y, Target(x) \cap Target(y) = {}
  PROVE  IsSeq(<<x, y>>) /\ Len(<<x, y>>) = 2 /\ Distinct(<<x, y>>) /\ Values(<<x, y>>) = Target(x) \cup Target(y)
<1> DEFINE xs == <<x, y>>
<1>1. xs \in Seq({x, y}) /\ Len(xs) = 2 /\ xs[1] = x /\ xs[2] = y
  OBVIOUS
<1> HIDE DEF xs
<1>2. 1 .. Len(xs) = {1, 2}
  BY <1>1
<1> QED BY <1>1, <1>2, SeqOfAnything DEF Distinct, Values, Target, xs

LEMMA KeepsOn ==
  ASSUME NEW h, NEW g, NEW k, NEW R, Keeps(h, g, R), Keeps(g, k, R)
  PROVE  Keeps(h, k, R)
BY DEF Keeps

LEMMA KeepsLess ==
  ASSUME NEW h, NEW g, NEW R, NEW S, Keeps(h, g, R \cup S)
  PROVE  Keeps(h, g, R) /\ Keeps(h, g, S)
BY DEF Keeps

LEMMA KeepsSelf ==
  ASSUME NEW h, NEW R, NEW S, Sound(h, R \cup S)
  PROVE  Keeps(h, h, R)
BY SoundFacts DEF Keeps

LEMMA MallocGives ==
  ASSUME NEW h, NEW R, Sound(h, R), NEW kind \in EngineKinds, NEW data,
         NEW out, out = MpcMalloc(h, Block(kind, data, << >>))
  PROVE  /\ Gives(h, out.heap, R, Target(out.value)) /\ out.value # Null /\ Kind(out.heap, out.value) = kind
         /\ out.heap.blocks[out.value].data = data
<1> DEFINE pool == Cardinality(Pooled(h)) < MPC_INPUT_MEM_NUM
<1>1. pool \in BOOLEAN /\ out = Place(h, Block(kind, data, << >>), pool)
  BY DEF MpcMalloc
<1> HIDE DEF pool
<1> QED BY <1>1, PlaceGives

LEMMA CallocGives ==
  ASSUME NEW h, NEW R, Sound(h, R), NEW kind \in EngineKinds, NEW data,
         NEW out, out = Calloc(h, Block(kind, data, << >>))
  PROVE  /\ Gives(h, out.heap, R, Target(out.value)) /\ out.value # Null /\ Kind(out.heap, out.value) = kind
         /\ out.heap.blocks[out.value].data = data
<1>1. PICK pool \in BOOLEAN : pool = FALSE
  OBVIOUS
<1>2. out = Place(h, Block(kind, data, << >>), pool)
  BY <1>1 DEF Calloc
<1> QED BY <1>2, PlaceGives

LEMMA HandedKinds ==
  ASSUME NEW h, NEW R, NEW xs, Handed(h, R, xs), NEW kinds,
         \A k \in 1 .. Len(xs) : Kind(h, xs[k]) \in kinds \cup {"null"}
  PROVE  \A b \in Values(xs) : Kind(h, b) \in kinds
BY KindFacts DEF Handed, Values

LEMMA MpcFreeGives ==
  ASSUME NEW h, NEW R, NEW x, Sound(h, R \cup Target(x)), R \cap Target(x) = {},
         Kind(h, x) \in EngineKinds \cup {"null"}
  PROVE  Gives(h, MpcFree(h, x), R, {})
<1>1. \A b \in Values(<<x>>) : Kind(h, b) \in EngineKinds
  BY One, KindFacts DEF Target
<1>2. Handed(h, R, <<x>>)
  BY One DEF Handed
<1> QED BY <1>1, <1>2, MpcFreeAllGives DEF MpcFree

LEMMA FreeGives ==
  ASSUME NEW h, NEW R, NEW x, Sound(h, R \cup Target(x)), R \cap Target(x) = {},
         Kind(h, x) \in EngineKinds \cup {"null"}, x # Null => ~ h.blocks[x].pool
  PROVE  Gives(h, Free(h, x), R, {})
<1>1. \A b \in Values(<<x>>) : Kind(h, b) \in EngineKinds /\ ~ h.blocks[b].pool
  BY One, KindFacts DEF Target
<1>2. Handed(h, R, <<x>>)
  BY One DEF Handed
<1> QED BY <1>1, <1>2, FreeAllGives DEF Free

(* What is in a block, if there is one.                                    *)
Same(h, x, g, y) == x # Null => g.blocks[y].data = h.blocks[x].data

(* An error that is given, with what it says.                              *)
Says(out, said) == out.value # Null /\ out.heap.blocks[out.value].data = said

LEMMA ExportGives ==
  ASSUME NEW h, NEW R, NEW x, Sound(h, R \cup Target(x)), R \cap Target(x) = {},
         NEW out, out = MpcExport(h, x)
  PROVE  /\ Gives(h, out.heap, R, Target(out.value)) /\ Kind(out.heap, out.value) = Kind(h, x)
         /\ out.value # Null => ~ out.heap.blocks[out.value].pool
         /\ Same(h, x, out.heap, out.value)
<1>1. PICK all : all = ExportAll(h, <<x>>)
  OBVIOUS
<1>2. /\ Gives(h, all.heap, R, Values(all.value))
      /\ IsSeq(all.value) /\ Len(all.value) = 1
      /\ \A k \in 1 .. 1 : Kind(all.heap, all.value[k]) = Kind(h, x)
      /\ \A b \in Values(all.value) : ~ all.heap.blocks[b].pool
      /\ x # Null => all.heap.blocks[all.value[1]].data = h.blocks[x].data
  <2> DEFINE xs == <<x>>
  <2>1. IsSeq(xs) /\ Len(xs) = 1 /\ Distinct(xs) /\ Values(xs) = Target(x) /\ xs[1] = x
    BY One
  <2>2. all = ExportAll(h, xs)
    BY <1>1
  <2> HIDE DEF xs
  <2>3. \A k \in 1 .. 1 : xs[k] = x
    BY <2>1
  <2>4. Handed(h, R, xs)
    BY <2>1 DEF Handed
  <2>5. /\ Gives(h, all.heap, R, Values(all.value))
        /\ IsSeq(all.value) /\ Len(all.value) = Len(xs) /\ Distinct(all.value)
        /\ \A k \in 1 .. Len(xs) : Kind(all.heap, all.value[k]) = Kind(h, xs[k])
        /\ \A b \in Values(all.value) : ~ all.heap.blocks[b].pool
        /\ \A k \in 1 .. Len(xs) : xs[k] # Null => all.heap.blocks[all.value[k]].data = h.blocks[xs[k]].data
    BY <2>1, <2>2, <2>4, ExportAllGives
  <2> QED BY <2>1, <2>3, <2>5
<1>3. Values(all.value) = Target(all.value[1])
  BY <1>2 DEF Values, Target
<1>4. out.heap = all.heap /\ out.value = all.value[1]
  BY <1>1 DEF MpcExport, Result
<1> QED BY <1>2, <1>3, <1>4 DEF Target, Same

(* What mpc_err_merge makes of two errors.                                 *)
Merged(h, x, y) ==
  LET far == FurthestErrors(h, x, y)
      first == h.blocks[IF x \in far THEN x ELSE y].data
      last == h.blocks[IF y \in far THEN y ELSE x].data
      heard == IF first.failure # NoFailure THEN {} ELSE {e \in far : h.blocks[e].data.failure = NoFailure}
  IN  [pos |-> first.pos, expected |-> UNION {h.blocks[e].data.expected : e \in heard},
       failure |-> IF first.failure # NoFailure THEN first.failure ELSE last.failure]

LEMMA ErrMergeGives ==
  ASSUME NEW h, NEW R, NEW x, NEW y, Sound(h, R \cup Target(x) \cup Target(y)),
         R \cap Target(x) = {}, R \cap Target(y) = {}, Target(x) \cap Target(y) = {},
         Kind(h, x) \in {"null", "err"}, Kind(h, y) \in {"null", "err"},
         NEW m, m = ErrMerge(h, x, y)
  PROVE  Yielded(h, m, R, {"null", "err"}) /\ ({x, y} # {Null} => Says(m, Merged(h, x, y)))
<1>1. CASE {x, y} = {Null}
  <2>1. m.heap = h /\ m.value = Null /\ x = Null /\ y = Null
    BY <1>1 DEF ErrMerge, Result
  <2>2. Target(Null) = {} /\ Kind(h, Null) = "null"
    BY DEF Target, Kind
  <2> QED BY <1>1, <2>1, <2>2, KeepsSelf DEF Yielded, Gives
<1>2. CASE {x, y} # {Null}
  <2> DEFINE S == R \cup Target(x) \cup Target(y)
  <2>1. PICK data, e : /\ data = Merged(h, x, y) /\ e = MpcMalloc(h, Block("err", data, << >>))
                       /\ m = Result(MpcFreeAll(e.heap, <<x, y>>), e.value)
    BY <1>2 DEF ErrMerge, ErrorBlock, Merged
  <2>2. "err" \in EngineKinds
    BY DEF EngineKinds
  <2>3. Gives(h, e.heap, S, Target(e.value)) /\ e.value # Null /\ Kind(e.heap, e.value) = "err"
        /\ e.heap.blocks[e.value].data = data
    BY <2>1, <2>2, MallocGives
  <2>4. Sound(e.heap, S \cup Target(e.value)) /\ S \cap Target(e.value) = {} /\ Keeps(h, e.heap, S)
    BY <2>3 DEF Gives
  <2> DEFINE Q == R \cup Target(e.value)
  <2>5. Values(<<x, y>>) = Target(x) \cup Target(y) /\ IsSeq(<<x, y>>) /\ Distinct(<<x, y>>)
    BY Two
  <2>6. S \cup Target(e.value) = Q \cup Values(<<x, y>>) /\ Q \cap Values(<<x, y>>) = {}
    BY <2>4, <2>5
  <2>7. \A b \in Values(<<x, y>>) : Kind(e.heap, b) \in EngineKinds
    <3>1. \A b \in Values(<<x, y>>) : b \in S /\ Kind(h, b) = "err"
      BY <2>5, KindFacts DEF Target
    <3> QED BY <2>2, <2>4, <3>1 DEF Keeps
  <2>8. Gives(e.heap, m.heap, Q, {}) /\ m.value = e.value
    <3>1. m.heap = MpcFreeAll(e.heap, <<x, y>>) /\ m.value = e.value
      BY <2>1 DEF Result
    <3> HIDE DEF Q, S
    <3>2. Handed(e.heap, Q, <<x, y>>)
      BY <2>4, <2>5, <2>6 DEF Handed
    <3> QED BY <2>7, <3>1, <3>2, MpcFreeAllGives
  <2>9. Sound(m.heap, Q) /\ Keeps(e.heap, m.heap, Q)
    BY <2>8 DEF Gives
  <2>10. Keeps(h, e.heap, R) /\ Keeps(e.heap, m.heap, R)
    BY <2>4, <2>9 DEF Keeps
  <2>11. Keeps(h, m.heap, R)
    BY <2>10, KeepsOn
  <2>12. Kind(m.heap, m.value) = "err"
    BY <2>3, <2>8, <2>9 DEF Keeps, Target
  <2>13. R \cap Target(e.value) = {}
    BY <2>4
  <2>14. Yielded(h, m, R, {"null", "err"})
    BY <2>8, <2>9, <2>11, <2>12, <2>13 DEF Yielded, Gives
  <2>15. m.value # Null /\ m.heap.blocks[m.value].data = data
    BY <2>3, <2>8, <2>9 DEF Keeps, Target
  <2> QED BY <2>1, <2>14, <2>15 DEF Says
<1> QED BY <1>1, <1>2

LEMMA ErrNewGives ==
  ASSUME NEW h, NEW R, Sound(h, R), NEW level, NEW message, NEW e, e = ErrNew(h, level, message)
  PROVE  /\ Yielded(h, e, R, {"null", "err"}) /\ (level > 0 => e.value = Null)
         /\ ~ (level > 0) => Says(e, [pos |-> state.pos, expected |-> {Message("", {message})}, failure |-> NoFailure])
<1>1. ASSUME level > 0 PROVE Yielded(h, e, R, {"null", "err"}) /\ e.value = Null
  <2>1. e.heap = h /\ e.value = Null
    BY <1>1 DEF ErrNew, Result
  <2>2. Target(Null) = {} /\ Kind(h, Null) = "null" /\ R \cup {} = R
    BY DEF Target, Kind
  <2> QED BY <2>1, <2>2, KeepsSelf DEF Yielded, Gives
<1>2. ASSUME ~ (level > 0) PROVE Yielded(h, e, R, {"null", "err"})
  <2>1. PICK data : e = MpcMalloc(h, Block("err", data, << >>))
    BY <1>2 DEF ErrNew, ErrorBlock
  <2> QED BY <1>2, <2>1, MallocGives DEF Yielded, EngineKinds
<1>3. ~ (level > 0) => Says(e, [pos |-> state.pos, expected |-> {Message("", {message})}, failure |-> NoFailure])
  <2> HAVE ~ (level > 0)
  <2>1. PICK said : said = [pos |-> state.pos, expected |-> {Message("", {message})}, failure |-> NoFailure]
    OBVIOUS
  <2>2. e = MpcMalloc(h, Block("err", said, << >>))
    BY <2>1 DEF ErrNew, ErrorBlock
  <2>3. Says(e, said)
    BY <2>2, MallocGives DEF Says, EngineKinds
  <2> QED BY <2>1, <2>3
<1>4. Yielded(h, e, R, {"null", "err"}) /\ (level > 0 => e.value = Null)
  BY <1>1, <1>2
<1> QED BY <1>3, <1>4

LEMMA ErrFailGives ==
  ASSUME NEW h, NEW R, Sound(h, R), NEW failure, NEW e, e = ErrFail(h, failure)
  PROVE  /\ Yielded(h, e, R, {"null", "err"}) /\ (suppress > 0 => e.value = Null)
         /\ ~ (suppress > 0) => Says(e, [pos |-> state.pos, expected |-> {}, failure |-> failure])
<1>1. ASSUME suppress > 0 PROVE Yielded(h, e, R, {"null", "err"}) /\ e.value = Null
  <2>1. e.heap = h /\ e.value = Null
    BY <1>1 DEF ErrFail, Result
  <2>2. Target(Null) = {} /\ Kind(h, Null) = "null" /\ R \cup {} = R
    BY DEF Target, Kind
  <2> QED BY <2>1, <2>2, KeepsSelf DEF Yielded, Gives
<1>2. ASSUME ~ (suppress > 0) PROVE Yielded(h, e, R, {"null", "err"})
  <2>1. PICK data : e = MpcMalloc(h, Block("err", data, << >>))
    BY <1>2 DEF ErrFail, ErrorBlock
  <2> QED BY <1>2, <2>1, MallocGives DEF Yielded, EngineKinds
<1>3. ~ (suppress > 0) => Says(e, [pos |-> state.pos, expected |-> {}, failure |-> failure])
  <2> HAVE ~ (suppress > 0)
  <2>1. PICK said : said = [pos |-> state.pos, expected |-> {}, failure |-> failure]
    OBVIOUS
  <2>2. e = MpcMalloc(h, Block("err", said, << >>))
    BY <2>1 DEF ErrFail, ErrorBlock
  <2>3. Says(e, said)
    BY <2>2, MallocGives DEF Says, EngineKinds
  <2> QED BY <2>1, <2>3
<1>4. Yielded(h, e, R, {"null", "err"}) /\ (suppress > 0 => e.value = Null)
  BY <1>1, <1>2
<1> QED BY <1>3, <1>4

LEMMA TouchAllNothing ==
  ASSUME NEW h, NEW R, Sound(h, R), NEW xs, ToSet(xs) \subseteq Live(h)
  PROVE  TouchAll(h, xs) = h
<1>1. PICK blocks, next : h = [blocks |-> blocks, next |-> next, misused |-> {}]
  BY DEF Sound
<1>2. TouchAll(h, xs) = [h EXCEPT !.misused = {}]
  BY <1>1 DEF TouchAll
<1> QED BY <1>1, <1>2

(* All but one of the values are given back.                               *)
LEMMA NthFreeGives ==
  ASSUME NEW h, NEW R, NEW xs, Handed(h, R, xs), NEW n \in 1 .. Len(xs),
         \A k \in 1 .. Len(xs) : k # n => Kind(h, xs[k]) \in Plain,
         NEW out, out = NthFree(h, xs, n)
  PROVE  Yielded(h, out, R, {Kind(h, xs[n])}) /\ out.value = xs[n] /\ Keeps(h, out.heap, Target(xs[n]))
<1> DEFINE ys == [xs EXCEPT ![n] = Null]
           Q == R \cup Target(xs[n])
<1>1. IsSeq(xs) /\ DOMAIN xs = 1 .. Len(xs) /\ Len(xs) \in Nat /\ Distinct(xs)
      /\ Sound(h, R \cup Values(xs)) /\ R \cap Values(xs) = {}
  BY LenFacts DEF Handed
<1>2. IsSeq(ys) /\ Len(ys) = Len(xs) /\ \A k \in 1 .. Len(xs) : ys[k] = IF k = n THEN Null ELSE xs[k]
  <2>1. ys = [k \in 1 .. Len(xs) |-> IF k = n THEN Null ELSE xs[k]]
    BY <1>1
  <2> HIDE DEF ys
  <2> QED BY <1>1, <2>1, SeqOfFunction
<1>3. out.heap = MpcFreeAll(h, ys) /\ out.value = xs[n]
  BY DEF NthFree, Result
<1> HIDE DEF ys
<1>4. Distinct(ys)
  BY <1>1, <1>2 DEF Distinct
<1>5. Values(xs) = Values(ys) \cup Target(xs[n]) /\ Values(ys) \cap Target(xs[n]) = {}
  <2>1. \A k \in 1 .. Len(xs) : ys[k] # Null => ys[k] = xs[k] /\ k # n
    BY <1>2
  <2>2. \A k \in 1 .. Len(xs) : k # n => ys[k] = xs[k]
    BY <1>2
  <2>3. \A k \in 1 .. Len(xs) : xs[k] = xs[n] /\ xs[n] # Null => k = n
    BY <1>1 DEF Distinct
  <2> QED BY <1>2, <2>1, <2>2, <2>3 DEF Values, Target
<1>6. Handed(h, Q, ys)
  <2>1. R \cup Values(xs) = Q \cup Values(ys) /\ Q \cap Values(ys) = {}
    BY <1>1, <1>5
  <2> HIDE DEF Q
  <2> QED BY <1>1, <1>2, <1>4, <2>1 DEF Handed
<1>7. \A b \in Values(ys) : Kind(h, b) \in EngineKinds
  <2> SUFFICES ASSUME NEW b \in Values(ys) PROVE Kind(h, b) \in EngineKinds
    OBVIOUS
  <2>1. PICK k \in 1 .. Len(xs) : k # n /\ xs[k] = b /\ b # Null
    BY <1>2 DEF Values
  <2>2. Kind(h, b) \in Plain /\ Kind(h, b) # "null"
    BY <1>1, <2>1, KindFacts
  <2> QED BY <2>2 DEF Plain, EngineKinds
<1>8. Sound(out.heap, Q) /\ Keeps(h, out.heap, Q)
  <2> HIDE DEF Q
  <2>1. Gives(h, out.heap, Q, {})
    BY <1>3, <1>6, <1>7, MpcFreeAllGives
  <2>2. Q \cup {} = Q
    OBVIOUS
  <2> QED BY <2>1, <2>2 DEF Gives
<1>9. R \cap Target(xs[n]) = {} /\ Keeps(h, out.heap, R) /\ Keeps(h, out.heap, Target(xs[n]))
  BY <1>1, <1>5, <1>8, KeepsLess
<1>10. Kind(out.heap, xs[n]) = Kind(h, xs[n])
  BY <1>8 DEF Keeps, Target, Kind
<1> QED BY <1>3, <1>8, <1>9, <1>10 DEF Yielded, Gives

(* What mpcf_strfold joins.                                                *)
Joined(h, xs) == IF xs = << >> THEN << >> ELSE FlattenSeq([k \in DOMAIN xs |-> Data(h, xs[k], << >>)])

LEMMA StrfoldGives ==
  ASSUME NEW h, NEW R, NEW xs, Handed(h, R, xs), \A k \in 1 .. Len(xs) : Kind(h, xs[k]) = "chars",
         NEW out, out = Strfold(h, xs)
  PROVE  Yielded(h, out, R, {"chars"}) /\ Says(out, Joined(h, xs))
<1>1. IsSeq(xs) /\ DOMAIN xs = 1 .. Len(xs) /\ Len(xs) \in Nat /\ (xs # << >> => Len(xs) \in Nat \ {0})
      /\ Distinct(xs) /\ Sound(h, R \cup Values(xs)) /\ R \cap Values(xs) = {}
  BY LenFacts DEF Handed
<1>2. CASE xs = << >>
  <2>1. Values(xs) = {}
    BY <1>2 DEF Values
  <2>2. R \cup Values(xs) = R /\ "chars" \in EngineKinds
    BY <2>1 DEF EngineKinds
  <2>3. out = MpcMalloc(h, Block("chars", << >>, << >>))
    BY <1>2 DEF Strfold
  <2>4. Gives(h, out.heap, R, Target(out.value)) /\ Kind(out.heap, out.value) = "chars" /\ Says(out, << >>)
    <3>1. Sound(h, R)
      BY <1>1, <2>2
    <3> QED BY <2>2, <2>3, <3>1, MallocGives DEF Says
  <2> QED BY <1>2, <2>4 DEF Yielded, Joined
<1>3. CASE xs # << >>
  <2>1. \A k \in 1 .. Len(xs) : xs[k] \in Live(h)
    BY <1>1, KindFacts
  <2>2. TouchAll(h, xs) = h
    <3>1. ToSet(xs) \subseteq Live(h)
      BY <1>1, <2>1 DEF ToSet
    <3> QED BY <1>1, <3>1, TouchAllNothing
  <2>3. PICK joined : joined = Joined(h, xs) /\ out = NthFree(Update(h, xs[1], joined), xs, 1)
    BY <1>3, <2>2 DEF Strfold, Joined
  <2>4. PICK g : g = Update(h, xs[1], joined)
    OBVIOUS
  <2>5. 1 \in 1 .. Len(xs)
    BY <1>1, <1>3
  <2>6. Sound(g, R \cup Values(xs)) /\ Keeps(h, g, Live(h) \ {xs[1]}) /\ Kind(g, xs[1]) = Kind(h, xs[1])
        /\ g.blocks[xs[1]].data = joined
    <3>1. PICK b, Q : b = xs[1] /\ Q = R \cup Values(xs)
      OBVIOUS
    <3>2. b \in Live(h) /\ Sound(h, Q) /\ g = Update(h, b, joined)
      BY <1>1, <2>1, <2>4, <2>5, <3>1
    <3>3. Sound(g, Q) /\ Keeps(h, g, Live(h) \ {b}) /\ Kind(g, b) = Kind(h, b) /\ g.blocks[b].data = joined
      BY <3>2, UpdateGives
    <3> QED BY <3>1, <3>3
  <2>7. \A k \in 1 .. Len(xs) : Kind(g, xs[k]) = "chars"
    BY <2>1, <2>5, <2>6 DEF Keeps
  <2>8. Handed(g, R, xs)
    BY <1>1, <2>6 DEF Handed
  <2>9. Yielded(g, out, R, {Kind(g, xs[1])}) /\ out.value = xs[1] /\ Keeps(g, out.heap, Target(xs[1]))
    BY <2>3, <2>4, <2>5, <2>7, <2>8, NthFreeGives DEF Plain
  <2>10. Keeps(h, g, R)
    <3>1. R \subseteq Live(h) /\ xs[1] \in Values(xs)
      BY <1>1, <2>1, <2>5, SoundFacts DEF Values
    <3> QED BY <1>1, <2>6, <3>1 DEF Keeps
  <2>11. Kind(g, xs[1]) = "chars"
    BY <2>5, <2>7
  <2>12. Keeps(h, out.heap, R)
    BY <2>9, <2>10, KeepsOn DEF Yielded, Gives
  <2>13. Says(out, joined)
    <3>1. xs[1] # Null
      BY <1>1, <2>1, <2>5, SoundFacts
    <3> QED BY <2>6, <2>9, <3>1 DEF Keeps, Target, Says
  <2> QED BY <2>3, <2>9, <2>11, <2>12, <2>13 DEF Yielded, Gives
<1> QED BY <1>2, <1>3

(***************************************************************************)
(* What the functions of a grammar must do: give one value of a kind that  *)
(* their parser may return, for values of the kinds that its parts return, *)
(* all of them out of the pool, and leave alone what they are not given.   *)
(***************************************************************************)
Served(h, p, xs) ==
  /\ p.type = "AND" => Len(xs) = Len(p.xs)
  /\ p.type = "MANY1" => xs # << >>
  /\ \A k \in 1 .. Len(xs) : Kind(h, xs[k]) \in Yields(Part(p, k))

FoldsKeep ==
  \A p \in AllParsers : p.type \in {"AND", "MANY", "MANY1"} /\ p.f \notin MpcFolds =>
    \A h, R, xs : Handed(h, R, xs) /\ Unpooled(h, xs) /\ Served(h, p, xs) =>
      Yielded(h, UserFold(h, p.f, xs), R, Yields(p))

AppliesKeep ==
  \A p \in AllParsers : p.type = "APPLY" /\ p.f \notin MpcApplys =>
    \A h, R, x : Handed(h, R, <<x>>) /\ Unpooled(h, <<x>>) /\ Kind(h, x) \in Yields(p.x) =>
      Yielded(h, UserApply(h, p.f, x), R, Yields(p))

CtorsKeep ==
  \A p \in AllParsers : p.type = "MAYBE" /\ p.lf \notin MpcCtors =>
    \A h, R : Sound(h, R) => Yielded(h, UserCtor(h, p.lf), R, Yields(p))

Destroys(d, kinds) ==
  \A h, R, x : Handed(h, R, <<x>>) /\ Unpooled(h, <<x>>) /\ Kind(h, x) \in kinds =>
    Gives(h, UserDtor(h, d, x), R, {})

DtorsKeep ==
  \A p \in AllParsers : p.type = "AND" =>
    \A k \in 1 .. Len(p.xs) - 1 : p.dxs[k] \notin MpcDtors => Destroys(p.dxs[k], Yields(p.xs[k]))

FunctionsKeep == FoldsKeep /\ AppliesKeep /\ CtorsKeep /\ DtorsKeep

(* A fold picks one part and the others have no value.                     *)
LEMMA PickGives ==
  ASSUME NEW h, NEW R, NEW xs, Handed(h, R, xs), NEW n \in 1 .. Len(xs),
         \A k \in 1 .. Len(xs) : k # n => Kind(h, xs[k]) = "null",
         NEW out, out = Result(h, xs[n])
  PROVE  Yielded(h, out, R, {Kind(h, xs[n])})
<1>1. Sound(h, R \cup Values(xs)) /\ R \cap Values(xs) = {}
  BY DEF Handed
<1>2. \A k \in 1 .. Len(xs) : k # n => xs[k] = Null
  BY <1>1, KindFacts
<1>3. Values(xs) = Target(xs[n])
  BY <1>2 DEF Values, Target
<1>4. Keeps(h, h, R)
  BY <1>1, KeepsSelf
<1> QED BY <1>1, <1>3, <1>4 DEF Yielded, Gives, Result

LEMMA AllFreeGives ==
  ASSUME NEW h, NEW R, NEW xs, Handed(h, R, xs), \A k \in 1 .. Len(xs) : Kind(h, xs[k]) \in Plain,
         NEW out, out = ExportAll(h, xs)
  PROVE  Yielded(h, Result(FreeAll(out.heap, out.value), Null), R, {"null"})
<1> DEFINE g == FreeAll(out.heap, out.value)
<1>1. /\ Gives(h, out.heap, R, Values(out.value))
      /\ IsSeq(out.value) /\ Len(out.value) = Len(xs) /\ Distinct(out.value)
      /\ \A k \in 1 .. Len(xs) : Kind(out.heap, out.value[k]) = Kind(h, xs[k])
      /\ \A b \in Values(out.value) : ~ out.heap.blocks[b].pool
  BY ExportAllGives
<1>2. Handed(out.heap, R, out.value) /\ Keeps(h, out.heap, R)
  BY <1>1 DEF Handed, Gives
<1>3. \A k \in 1 .. Len(out.value) : Kind(out.heap, out.value[k]) \in EngineKinds \cup {"null"}
  BY <1>1 DEF Plain, EngineKinds
<1>4. \A b \in Values(out.value) : Kind(out.heap, b) \in EngineKinds
  BY <1>2, <1>3, HandedKinds
<1>5. Gives(out.heap, g, R, {})
  BY <1>1, <1>2, <1>4, FreeAllGives
<1> HIDE DEF g
<1>6. Target(Null) = {} /\ Kind(g, Null) = "null"
  BY DEF Target, Kind
<1>7. Keeps(h, g, R)
  BY <1>2, <1>5, KeepsOn DEF Gives
<1> QED BY <1>5, <1>6, <1>7 DEF Yielded, Gives, Result, g

LEMMA YieldedMore ==
  ASSUME NEW h, NEW out, NEW R, NEW kinds, Yielded(h, out, R, kinds), NEW more, kinds \subseteq more
  PROVE  Yielded(h, out, R, more)
BY DEF Yielded

LEMMA YieldedAfter ==
  ASSUME NEW h, NEW g, NEW R, Keeps(h, g, R), NEW out, NEW kinds, Yielded(g, out, R, kinds)
  PROVE  Yielded(h, out, R, kinds)
BY KeepsOn DEF Yielded, Gives

(* What a fold of a grammar is given are values of what the parts return.  *)
LEMMA ParseFoldGives ==
  ASSUME FoldsKeep, NEW p \in AllParsers, p.type \in {"AND", "MANY", "MANY1"},
         NEW h, NEW R, NEW xs, Handed(h, R, xs), Served(h, p, xs),
         NEW out, out = ParseFold(h, p.f, xs)
  PROVE  Yielded(h, out, R, Yields(p))
<1>1. Fits(p) /\ Closed(p)
  BY FitAssumption, ClosedAssumption
<1>2. IsSeq(xs) /\ DOMAIN xs = 1 .. Len(xs) /\ Len(xs) \in Nat
  BY LenFacts DEF Handed
<1>3. p.type = "AND" => AndFits(p) /\ p.xs \in Seq(AllParsers) /\ Len(xs) = Len(p.xs) /\ Len(p.xs) \in Nat
                        /\ DOMAIN p.xs = 1 .. Len(p.xs)
                        /\ \A k \in 1 .. Len(xs) : Kind(h, xs[k]) \in Yields(p.xs[k])
  <2> SUFFICES ASSUME p.type = "AND"
      PROVE AndFits(p) /\ p.xs \in Seq(AllParsers) /\ Len(xs) = Len(p.xs) /\ Len(p.xs) \in Nat
                        /\ DOMAIN p.xs = 1 .. Len(p.xs)
                        /\ \A k \in 1 .. Len(xs) : Kind(h, xs[k]) \in Yields(p.xs[k])
    OBVIOUS
  <2>1. p.xs \in Seq(AllParsers) /\ AndFits(p)
    BY <1>1 DEF Closed, Fits, ListTypes
  <2>2. \A k \in 1 .. Len(xs) : Kind(h, xs[k]) \in Yields(p.xs[k])
    BY DEF Served, Part, ListTypes
  <2> QED BY <2>1, <2>2 DEF Served
<1>4. p.type # "AND" => ManyFits(p) /\ \A k \in 1 .. Len(xs) : Kind(h, xs[k]) \in Yields(p.x)
  <2>1. p.type # "AND" => ManyFits(p)
    BY <1>1 DEF Fits
  <2>2. p.type # "AND" => \A k \in 1 .. Len(xs) : Kind(h, xs[k]) \in Yields(p.x)
    BY DEF Served, Part, ListTypes
  <2> QED BY <2>1, <2>2
<1>5. PICK kinds : FoldsAll(p, kinds) /\ \A k \in 1 .. Len(xs) : Kind(h, xs[k]) \in kinds
  <2>1. CASE p.type = "AND"
    <3> DEFINE all == UNION {Yields(p.xs[k]) : k \in DOMAIN p.xs}
    <3>1. FoldsAll(p, all)
      BY <1>3, <2>1 DEF AndFits
    <3>2. \A k \in 1 .. Len(xs) : Kind(h, xs[k]) \in all
      BY <1>3, <2>1
    <3> QED BY <3>1, <3>2
  <2>2. CASE p.type # "AND"
    BY <1>4, <2>2 DEF ManyFits
  <2> QED BY <2>1, <2>2
<1>6. ASSUME NEW n \in Nat \ {0}, NEW plain, p.type = "AND", Picks(p, n, plain)
      PROVE  n \in 1 .. Len(xs) /\ Kind(h, xs[n]) \in Yields(p)
             /\ \A k \in 1 .. Len(xs) : k # n => Kind(h, xs[k]) \in plain
  <2>1. n \in 1 .. Len(xs)
    BY <1>3, <1>6 DEF Picks
  <2> QED BY <1>3, <1>6, <2>1 DEF Picks
<1>7. ASSUME NEW n \in Nat \ {0}, p.type = "AND", Picks(p, n, {"null"}), out = Result(h, xs[n])
      PROVE  Yielded(h, out, R, Yields(p))
  <2>1. n \in 1 .. Len(xs) /\ Kind(h, xs[n]) \in Yields(p)
        /\ \A k \in 1 .. Len(xs) : k # n => Kind(h, xs[k]) = "null"
    BY <1>6, <1>7
  <2>2. Yielded(h, out, R, {Kind(h, xs[n])})
    BY <1>7, <2>1, PickGives
  <2> QED BY <2>1, <2>2, YieldedMore
<1>8. ASSUME NEW n \in Nat \ {0}, p.type = "AND", Picks(p, n, Plain), out = NthFree(h, xs, n)
      PROVE  Yielded(h, out, R, Yields(p))
  <2>1. n \in 1 .. Len(xs) /\ Kind(h, xs[n]) \in Yields(p)
        /\ \A k \in 1 .. Len(xs) : k # n => Kind(h, xs[k]) \in Plain
    BY <1>6, <1>8
  <2>2. Yielded(h, out, R, {Kind(h, xs[n])})
    BY <1>8, <2>1, NthFreeGives
  <2> QED BY <2>1, <2>2, YieldedMore
<1>9. CASE p.f \in {"mpcf_fst", "mpcf_snd", "mpcf_fst_free", "mpcf_snd_free"}
  <2>1. p.type = "AND" /\ AndFits(p)
    BY <1>3, <1>4, <1>9 DEF ManyFits, MpcFolds
  <2>2. CASE p.f = "mpcf_fst"
    <3>1. Picks(p, 1, {"null"}) /\ out = Result(h, xs[1])
      BY <2>1, <2>2 DEF AndFits, ParseFold
    <3> QED BY <1>7, <2>1, <3>1
  <2>3. CASE p.f = "mpcf_snd"
    <3>1. Picks(p, 2, {"null"}) /\ out = Result(h, xs[2])
      BY <2>1, <2>3 DEF AndFits, ParseFold
    <3> QED BY <1>7, <2>1, <3>1
  <2>4. CASE p.f = "mpcf_fst_free"
    <3>1. Picks(p, 1, Plain) /\ out = NthFree(h, xs, 1)
      BY <2>1, <2>4 DEF AndFits, ParseFold
    <3> QED BY <1>8, <2>1, <3>1
  <2>5. CASE p.f = "mpcf_snd_free"
    <3>1. Picks(p, 2, Plain) /\ out = NthFree(h, xs, 2)
      BY <2>1, <2>5 DEF AndFits, ParseFold
    <3> QED BY <1>8, <2>1, <3>1
  <2> QED BY <1>9, <2>2, <2>3, <2>4, <2>5
<1>10. CASE p.f = "mpcf_strfold"
  <2>1. out = Strfold(h, xs)
    BY <1>10 DEF ParseFold
  <2>2. "chars" \in Yields(p) /\ \A k \in 1 .. Len(xs) : Kind(h, xs[k]) = "chars"
    BY <1>5, <1>10 DEF FoldsAll
  <2>3. Yielded(h, out, R, {"chars"})
    BY <2>1, <2>2, StrfoldGives
  <2> QED BY <2>2, <2>3, YieldedMore
<1> DEFINE exported == ExportAll(h, xs)
<1>11. CASE p.f = "mpcf_all_free"
  <2>1. out = Result(FreeAll(exported.heap, exported.value), Null)
    BY <1>11 DEF ParseFold
  <2>2. "null" \in Yields(p) /\ \A k \in 1 .. Len(xs) : Kind(h, xs[k]) \in Plain
    BY <1>5, <1>11 DEF FoldsAll
  <2>3. Yielded(h, out, R, {"null"})
    BY <2>1, <2>2, AllFreeGives
  <2> QED BY <2>2, <2>3, YieldedMore
<1>12. CASE p.f \notin MpcFolds
  <2>1. PICK moved : moved = exported
    OBVIOUS
  <2>2. /\ Gives(h, moved.heap, R, Values(moved.value))
        /\ IsSeq(moved.value) /\ Len(moved.value) = Len(xs) /\ Distinct(moved.value)
        /\ \A k \in 1 .. Len(xs) : Kind(moved.heap, moved.value[k]) = Kind(h, xs[k])
        /\ \A b \in Values(moved.value) : ~ moved.heap.blocks[b].pool
    BY <2>1, ExportAllGives
  <2>3. out = UserFold(moved.heap, p.f, moved.value)
    BY <1>12, <2>1 DEF ParseFold, MpcFolds
  <2>4. Handed(moved.heap, R, moved.value) /\ Unpooled(moved.heap, moved.value) /\ Keeps(h, moved.heap, R)
    BY <2>2 DEF Handed, Gives, Unpooled
  <2>5. Served(moved.heap, p, moved.value)
    <3>1. xs # << >> => moved.value # << >>
      <4>1. xs # << >> => Len(xs) \in Nat \ {0}
        BY <1>2, LenFacts
      <4>2. Len(<< >>) = 0
        OBVIOUS
      <4> QED BY <2>2, <4>1, <4>2
    <3>2. \A k \in 1 .. Len(moved.value) : Kind(moved.heap, moved.value[k]) \in Yields(Part(p, k))
      BY <2>2 DEF Served
    <3> QED BY <2>2, <3>1, <3>2 DEF Served
  <2>6. Yielded(moved.heap, out, R, Yields(p))
    BY <1>12, <2>3, <2>4, <2>5 DEF FoldsKeep
  <2> QED BY <2>4, <2>6, YieldedAfter
<1> QED BY <1>9, <1>10, <1>11, <1>12 DEF MpcFolds

LEMMA HandedOne ==
  ASSUME NEW h, NEW R, NEW x, Sound(h, R \cup Target(x)), R \cap Target(x) = {}
  PROVE  Handed(h, R, <<x>>) /\ ((x # Null => ~ h.blocks[x].pool) => Unpooled(h, <<x>>))
<1>1. IsSeq(<<x>>) /\ Distinct(<<x>>) /\ Values(<<x>>) = Target(x)
  BY One
<1> QED BY <1>1 DEF Handed, Unpooled, Target

LEMMA MpcfIntGives ==
  ASSUME NEW h, NEW R, NEW x, Sound(h, R \cup Target(x)), R \cap Target(x) = {}, Kind(h, x) = "chars",
         ~ h.blocks[x].pool, NEW out, out = MpcfInt(h, x)
  PROVE  Yielded(h, out, R, {"int"}) /\ Says(out, Number(Data(h, x, << >>)))
<1> DEFINE S == R \cup Target(x)
<1>1. x \in Live(h) /\ x # Null
  BY KindFacts
<1>2. Touch(h, x) = h
  <2> DEFINE xs == <<x>>
  <2>1. DOMAIN xs = {1} /\ xs[1] = x
    OBVIOUS
  <2> HIDE DEF xs
  <2>2. ToSet(xs) \subseteq Live(h)
    BY <1>1, <2>1 DEF ToSet
  <2> QED BY <2>2, TouchAllNothing DEF Touch, xs
<1>3. PICK n, y : /\ n = Number(Data(h, x, << >>)) /\ y = Calloc(h, Block("int", n, << >>))
                  /\ out = Result(Free(y.heap, x), y.value)
  BY <1>2 DEF MpcfInt, CallocInt
<1>4. Gives(h, y.heap, S, Target(y.value)) /\ y.value # Null /\ Kind(y.heap, y.value) = "int"
      /\ y.heap.blocks[y.value].data = n
  <2>1. "int" \in EngineKinds
    BY DEF EngineKinds
  <2> QED BY <1>3, <2>1, CallocGives
<1>5. Sound(y.heap, S \cup Target(y.value)) /\ S \cap Target(y.value) = {} /\ Keeps(h, y.heap, S)
  BY <1>4 DEF Gives
<1> DEFINE Q == R \cup Target(y.value)
<1>6. Q \cup Target(x) = S \cup Target(y.value) /\ Q \cap Target(x) = {}
  BY <1>5
<1>7. Kind(y.heap, x) = "chars" /\ ~ y.heap.blocks[x].pool
  BY <1>1, <1>5 DEF Keeps, Target
<1>8. out.heap = Free(y.heap, x) /\ out.value = y.value
  BY <1>3 DEF Result
<1>9. Sound(out.heap, Q) /\ Keeps(y.heap, out.heap, Q)
  <2> HIDE DEF Q, S
  <2>1. Sound(y.heap, Q \cup Target(x)) /\ Q \cap Target(x) = {}
    BY <1>5, <1>6
  <2>2. Gives(y.heap, out.heap, Q, {})
    BY <1>7, <1>8, <2>1, FreeGives DEF EngineKinds
  <2>3. Q \cup {} = Q
    OBVIOUS
  <2> QED BY <2>2, <2>3 DEF Gives
<1>10. Keeps(h, y.heap, R) /\ Keeps(y.heap, out.heap, R)
  BY <1>5, <1>9, KeepsLess
<1>11. Keeps(h, out.heap, R)
  BY <1>10, KeepsOn
<1>12. Kind(out.heap, out.value) = "int" /\ Says(out, n)
  BY <1>4, <1>8, <1>9 DEF Keeps, Target, Says
<1> QED BY <1>3, <1>5, <1>8, <1>9, <1>11, <1>12 DEF Yielded, Gives

LEMMA ParseApplyGives ==
  ASSUME AppliesKeep, NEW p \in AllParsers, p.type = "APPLY",
         NEW h, NEW R, NEW x, Sound(h, R \cup Target(x)), R \cap Target(x) = {}, Kind(h, x) \in Yields(p.x),
         NEW out, out = ParseApply(h, p.f, x)
  PROVE  /\ Yielded(h, out, R, Yields(p))
         /\ p.f = "mpcf_free" => out.value = Null
         /\ p.f = "mpcf_int" => Says(out, Number(Data(h, x, << >>)))
<1>1. ApplyFits(p)
  BY FitAssumption DEF Fits
<1>2. PICK moved : moved = MpcExport(h, x)
  OBVIOUS
<1>3. /\ Gives(h, moved.heap, R, Target(moved.value)) /\ Kind(moved.heap, moved.value) = Kind(h, x)
      /\ moved.value # Null => ~ moved.heap.blocks[moved.value].pool
      /\ Same(h, x, moved.heap, moved.value)
  <2>1. Sound(h, R \cup Target(x)) /\ R \cap Target(x) = {} /\ moved = MpcExport(h, x)
    BY <1>2
  <2>2. Gives(h, moved.heap, R, Target(moved.value)) /\ Kind(moved.heap, moved.value) = Kind(h, x)
    <3>1. Gives(h, moved.heap, R, Target(moved.value))
      BY ONLY <2>1, ExportGives
    <3>2. Kind(moved.heap, moved.value) = Kind(h, x)
      BY ONLY <2>1, ExportGives
    <3> QED BY <3>1, <3>2
  <2>3. moved.value # Null => ~ moved.heap.blocks[moved.value].pool
    BY ONLY <2>1, ExportGives, Zenon
  <2>4. Same(h, x, moved.heap, moved.value)
    BY ONLY <2>1, ExportGives
  <2> QED BY <2>2, <2>3, <2>4
<1>4. Sound(moved.heap, R \cup Target(moved.value)) /\ R \cap Target(moved.value) = {} /\ Keeps(h, moved.heap, R)
  BY <1>3 DEF Gives
<1>5. CASE p.f = "mpcf_free"
  <2>1. out.heap = MpcFree(h, x) /\ out.value = Null
    BY <1>5 DEF ParseApply, Result
  <2>2. Kind(h, x) \in EngineKinds \cup {"null"} /\ "null" \in Yields(p)
    BY <1>1, <1>5 DEF ApplyFits, Plain, EngineKinds
  <2>3. Gives(h, out.heap, R, {})
    BY <2>1, <2>2, MpcFreeGives
  <2>4. Target(Null) = {} /\ Kind(out.heap, Null) = "null"
    BY DEF Target, Kind
  <2> QED BY <1>5, <2>1, <2>2, <2>3, <2>4 DEF Yielded
<1>6. CASE p.f = "mpcf_int"
  <2>1. out = MpcfInt(moved.heap, moved.value)
    BY <1>2, <1>6 DEF ParseApply
  <2>2. Kind(moved.heap, moved.value) = "chars" /\ "int" \in Yields(p)
    BY <1>1, <1>3, <1>6 DEF ApplyFits
  <2>3. moved.value # Null
    BY <1>4, <2>2, KindFacts
  <2>4. Yielded(moved.heap, out, R, {"int"}) /\ Says(out, Number(Data(moved.heap, moved.value, << >>)))
    BY <1>3, <1>4, <2>1, <2>2, <2>3, MpcfIntGives
  <2>5. Yielded(h, out, R, {"int"})
    BY <1>4, <2>4, YieldedAfter
  <2>6. Data(moved.heap, moved.value, << >>) = Data(h, x, << >>)
    <3>1. x \in Live(h) /\ x # Null /\ moved.value \in Live(moved.heap)
      BY <1>1, <1>3, <1>4, <1>6, <2>2, KindFacts DEF ApplyFits
    <3> QED BY <1>3, <3>1 DEF Same, Data
  <2>7. Yielded(h, out, R, Yields(p))
    BY <2>2, <2>5, YieldedMore
  <2> QED BY <1>6, <2>4, <2>6, <2>7
<1>7. CASE p.f \notin MpcApplys
  <2>1. out = UserApply(moved.heap, p.f, moved.value)
    BY <1>2, <1>7 DEF ParseApply, MpcApplys
  <2>2. Handed(moved.heap, R, <<moved.value>>) /\ Unpooled(moved.heap, <<moved.value>>)
    BY <1>3, <1>4, HandedOne
  <2>3. Yielded(moved.heap, out, R, Yields(p))
    BY <1>3, <1>7, <2>1, <2>2 DEF AppliesKeep
  <2>4. Yielded(h, out, R, Yields(p))
    BY <1>4, <2>3, YieldedAfter
  <2> QED BY <1>7, <2>4 DEF MpcApplys
<1> QED BY <1>5, <1>6, <1>7 DEF MpcApplys

LEMMA CtorGives ==
  ASSUME CtorsKeep, NEW p \in AllParsers, p.type = "MAYBE", NEW h, NEW R, Sound(h, R),
         NEW out, out = Ctor(h, p.lf)
  PROVE  Yielded(h, out, R, Yields(p)) /\ (p.lf = "mpcf_ctor_str" => Says(out, << >>))
<1>1. CASE p.lf = "mpcf_ctor_str"
  <2>1. "chars" \in Yields(p) /\ "chars" \in EngineKinds
    BY <1>1, FitAssumption DEF Fits, EngineKinds
  <2>2. out = Calloc(h, Block("chars", << >>, << >>))
    BY <1>1 DEF Ctor, CallocChars
  <2>3. Gives(h, out.heap, R, Target(out.value)) /\ Kind(out.heap, out.value) = "chars" /\ Says(out, << >>)
    BY <2>1, <2>2, CallocGives DEF Says
  <2> QED BY <2>1, <2>3 DEF Yielded
<1>2. CASE p.lf # "mpcf_ctor_str"
  <2>1. out = UserCtor(h, p.lf)
    BY <1>2 DEF Ctor
  <2> QED BY <1>2, <2>1 DEF CtorsKeep, MpcCtors
<1> QED BY <1>1, <1>2

(* What is destroyed is gone, but mpcf_dtor_null destroys nothing.         *)
LEMMA DtorGives ==
  ASSUME NEW d, NEW kinds, d = "free" => kinds \subseteq Plain, d \notin MpcDtors => Destroys(d, kinds),
         NEW h, NEW R, NEW x, Sound(h, R \cup Target(x)), R \cap Target(x) = {}, Kind(h, x) \in kinds,
         NEW g, g = ParseDtor(h, d, x)
  PROVE  \E L : /\ Gives(h, g, R, L) /\ \A b \in L : ~ g.blocks[b].pool
                /\ L = {} \/ (d = "mpcf_dtor_null" /\ ~ (kinds \subseteq {"null"}))
<1>1. PICK moved : moved = MpcExport(h, x)
  OBVIOUS
<1>2. /\ Gives(h, moved.heap, R, Target(moved.value)) /\ Kind(moved.heap, moved.value) = Kind(h, x)
      /\ moved.value # Null => ~ moved.heap.blocks[moved.value].pool
      /\ Same(h, x, moved.heap, moved.value)
  BY <1>1, ExportGives
<1>3. Sound(moved.heap, R \cup Target(moved.value)) /\ R \cap Target(moved.value) = {} /\ Keeps(h, moved.heap, R)
  BY <1>2 DEF Gives
<1>4. CASE d = "free"
  <2>1. Kind(h, x) \in EngineKinds \cup {"null"}
    BY <1>4 DEF Plain, EngineKinds
  <2>2. g = MpcFree(h, x)
    BY <1>4 DEF ParseDtor
  <2>3. Gives(h, g, R, {})
    BY <2>1, <2>2, MpcFreeGives
  <2> QED BY <2>3
<1>5. CASE d = "mpcf_dtor_null"
  <2>1. g = moved.heap
    BY <1>1, <1>5 DEF ParseDtor
  <2>2. Gives(h, g, R, Target(moved.value)) /\ \A b \in Target(moved.value) : ~ g.blocks[b].pool
    BY <1>2, <2>1 DEF Target
  <2>3. Target(moved.value) = {} \/ ~ (kinds \subseteq {"null"})
    <3>1. Kind(moved.heap, moved.value) = "null" <=> moved.value = Null
      BY <1>3, KindFacts
    <3> QED BY <1>2, <3>1 DEF Target
  <2> QED BY <1>5, <2>2, <2>3
<1>6. CASE d \notin MpcDtors
  <2>1. g = UserDtor(moved.heap, d, moved.value)
    BY <1>1, <1>6 DEF ParseDtor, MpcDtors
  <2>2. Handed(moved.heap, R, <<moved.value>>) /\ Unpooled(moved.heap, <<moved.value>>)
    BY <1>2, <1>3, HandedOne
  <2>3. Gives(moved.heap, g, R, {})
    BY <1>2, <1>6, <2>1, <2>2 DEF Destroys
  <2>4. Gives(h, g, R, {})
    BY <1>3, <2>3, KeepsOn DEF Gives
  <2> QED BY <2>4
<1> QED BY <1>4, <1>5, <1>6 DEF MpcDtors

Spared(p, k) == p.dxs[k] = "mpcf_dtor_null" /\ ~ (Yields(p.xs[k]) \subseteq {"null"})

LEMMA ParseDtorGives ==
  ASSUME DtorsKeep, NEW p \in AllParsers, p.type = "AND", NEW k \in 1 .. Len(p.xs) - 1,
         NEW h, NEW R, NEW x, Sound(h, R \cup Target(x)), R \cap Target(x) = {}, Kind(h, x) \in Yields(p.xs[k]),
         NEW g, g = ParseDtor(h, p.dxs[k], x)
  PROVE  \E L : Gives(h, g, R, L) /\ (\A b \in L : ~ g.blocks[b].pool) /\ (L = {} \/ Spared(p, k))
<1>1. AndFits(p)
  BY FitAssumption DEF Fits
<1>2. PICK d, kinds : d = p.dxs[k] /\ kinds = Yields(p.xs[k])
  OBVIOUS
<1>3. (d = "free" => kinds \subseteq Plain) /\ (d \notin MpcDtors => Destroys(d, kinds))
  BY <1>1, <1>2 DEF AndFits, DtorsKeep
<1>4. \E L : /\ Gives(h, g, R, L) /\ \A b \in L : ~ g.blocks[b].pool
             /\ L = {} \/ (d = "mpcf_dtor_null" /\ ~ (kinds \subseteq {"null"}))
  <2>1. Kind(h, x) \in kinds /\ g = ParseDtor(h, d, x)
    BY <1>2
  <2> QED BY <1>3, <2>1, DtorGives
<1> QED BY <1>2, <1>4 DEF Spared

(* What mpc_err_many1 makes of an error.                                   *)
Repeated(d) ==
  [d EXCEPT !.expected = {IF d.expected = {} THEN Message("", {""})
                          ELSE Message("one or more of", UNION {m.names : m \in d.expected})}]

LEMMA ErrMany1Gives ==
  ASSUME NEW h, NEW R, NEW x, Sound(h, R \cup Target(x)), NEW g, g = ErrMany1(h, x)
  PROVE  /\ Sound(g, R \cup Target(x)) /\ Keeps(h, g, R \ Target(x)) /\ Kind(g, x) = Kind(h, x)
         /\ x # Null => g.blocks[x].data = Repeated(h.blocks[x].data)
<1>1. CASE x = Null
  <2>1. g = h
    BY <1>1 DEF ErrMany1
  <2>2. Sound(h, (R \ Target(x)) \cup (R \cup Target(x)))
    <3>1. (R \ Target(x)) \cup (R \cup Target(x)) = R \cup Target(x)
      OBVIOUS
    <3> QED BY <3>1
  <2> QED BY <1>1, <2>1, <2>2, KeepsSelf
<1>2. CASE x # Null
  <2>1. PICK data : data = Repeated(h.blocks[x].data) /\ g = Update(h, x, data)
    BY <1>2 DEF ErrMany1, Repeated
  <2>2. x \in Live(h)
    BY <1>2, SoundFacts DEF Target
  <2>3. Sound(g, R \cup Target(x)) /\ Keeps(h, g, Live(h) \ {x}) /\ Kind(g, x) = Kind(h, x)
        /\ g.blocks[x].data = data
    BY <2>1, <2>2, UpdateGives
  <2>4. R \cup Target(x) \subseteq Live(h)
    BY SoundFacts
  <2>5. Keeps(h, g, R \ Target(x))
    BY <1>2, <2>3, <2>4 DEF Keeps, Target
  <2> QED BY <2>1, <2>3, <2>5
<1> QED BY <1>1, <1>2

LEMMA RoomGives ==
  ASSUME NEW h, NEW R, Sound(h, R), NEW p, NEW out, out = Room(h, p)
  PROVE  /\ Yielded(h, out, R, {"null", "results"})
         /\ p.type \notin {"AND", "OR"} => out.value = Null
<1>1. CASE p.type \in {"OR", "AND"} /\ Len(p.xs) > MPC_PARSE_STACK_MIN
  <2>1. out = MpcMalloc(h, Block("results", 0, << >>)) /\ "results" \in EngineKinds
    BY <1>1 DEF Room, EngineKinds
  <2>2. Gives(h, out.heap, R, Target(out.value)) /\ Kind(out.heap, out.value) = "results"
    BY <2>1, MallocGives
  <2> QED BY <1>1, <2>2 DEF Yielded
<1>2. CASE ~ (p.type \in {"OR", "AND"} /\ Len(p.xs) > MPC_PARSE_STACK_MIN)
  <2>1. out.heap = h /\ out.value = Null
    BY <1>2 DEF Room, Result
  <2>2. Target(Null) = {} /\ Kind(h, Null) = "null" /\ R \cup {} = R
    BY DEF Target, Kind
  <2> QED BY <2>1, <2>2, KeepsSelf DEF Yielded, Gives
<1> QED BY <1>1, <1>2

(***************************************************************************)
(* The destructors of a failing AND, one after the other.                  *)
(***************************************************************************)
(* Induction over a prefix of the numbers.                                 *)
LEMMA Climb ==
  ASSUME NEW n \in Nat, NEW S \in SUBSET (0 .. n), 0 \in S, \A m \in 0 .. n : m < n /\ m \in S => m + 1 \in S
  PROVE  \A m \in 0 .. n : m \in S
<1> SUFFICES ASSUME (0 .. n) \ S # {} PROVE FALSE
  OBVIOUS
<1> DEFINE T == (0 .. n) \ S
<1>1. T \subseteq Nat /\ T # {}
  OBVIOUS
<1>2. \E x \in T : \A y \in T : ~ (<<y, x>> \in OpToRel(<, Nat))
  <2> HIDE DEF T
  <2> QED BY <1>1, NatLessThanWellFounded, WFMin
<1>3. PICK x \in T : \A y \in T : ~ (y < x)
  BY <1>1, <1>2 DEF OpToRel
<1>4. x \in 0 .. n /\ x \notin S /\ x # 0
  BY <1>3
<1>5. x - 1 \in 0 .. n /\ x - 1 < n /\ x - 1 < x /\ x - 1 + 1 = x
  BY <1>4
<1>6. x - 1 \in S
  BY <1>3, <1>5
<1> QED BY <1>4, <1>5, <1>6

(* What is left after each of them.                                        *)
Path(left, h, p, results, m) ==
  left = [k \in 0 .. m |-> IF k = 0 THEN h ELSE ParseDtor(left[k - 1], p.dxs[k], results[k])]

LEMMA PathExists ==
  ASSUME NEW h, NEW p, NEW results, NEW n \in Nat
  PROVE  \E left : Path(left, h, p, results, n)
<1> DEFINE S == {m \in 0 .. n : \E left : Path(left, h, p, results, m)}
<1>1. 0 \in S
  <2> DEFINE left == [k \in 0 .. 0 |-> IF k = 0 THEN h ELSE h]
  <2>1. left = [k \in 0 .. 0 |-> IF k = 0 THEN h ELSE ParseDtor(left[k - 1], p.dxs[k], results[k])]
    OBVIOUS
  <2> HIDE DEF left
  <2> QED BY <2>1 DEF Path
<1>2. ASSUME NEW m \in 0 .. n, m < n, m \in S PROVE m + 1 \in S
  <2>1. PICK left : Path(left, h, p, results, m)
    BY <1>2
  <2> DEFINE last == ParseDtor(left[m], p.dxs[m + 1], results[m + 1])
             more == [k \in 0 .. m + 1 |-> IF k = m + 1 THEN last ELSE left[k]]
  <2>2. ASSUME NEW k \in 0 .. m + 1
        PROVE  more[k] = IF k = 0 THEN h ELSE ParseDtor(more[k - 1], p.dxs[k], results[k])
    <3>1. CASE k = m + 1
      <4>1. k # 0 /\ k - 1 = m /\ m \in 0 .. m + 1 /\ m # m + 1
        BY <3>1
      <4> QED BY <3>1, <4>1
    <3>2. CASE k # m + 1
      <4>1. k \in 0 .. m /\ (k # 0 => k - 1 \in 0 .. m + 1 /\ k - 1 # m + 1)
        BY <3>2
      <4>2. left[k] = IF k = 0 THEN h ELSE ParseDtor(left[k - 1], p.dxs[k], results[k])
        BY <2>1, <4>1 DEF Path
      <4> QED BY <3>2, <4>1, <4>2
    <3> QED BY <3>1, <3>2
  <2>3. DOMAIN more = 0 .. m + 1 /\ more = [k \in 0 .. m + 1 |-> more[k]]
    OBVIOUS
  <2> HIDE DEF more
  <2>4. Path(more, h, p, results, m + 1)
    BY <2>2, <2>3 DEF Path
  <2>5. m + 1 \in 0 .. n
    BY <1>2
  <2> QED BY <2>4, <2>5
<1>3. n \in 0 .. n /\ S \in SUBSET (0 .. n)
  OBVIOUS
<1> HIDE DEF S
<1>4. n \in S
  BY <1>1, <1>2, <1>3, Climb
<1> QED BY <1>4 DEF S

LEMMA DestroyFirstIs ==
  ASSUME NEW h, NEW p, NEW results, NEW n \in Nat
  PROVE  \E left : Path(left, h, p, results, n) /\ DestroyFirst(h, p, results, n) = left[n]
<1> DEFINE path == CHOOSE left : Path(left, h, p, results, n)
<1>1. Path(path, h, p, results, n)
  BY PathExists
<1>2. DestroyFirst(h, p, results, n) = path[n]
  BY DEF DestroyFirst, Path
<1> HIDE DEF path
<1> QED BY <1>1, <1>2

(* The values from the k-th on.                                            *)
After(xs, k) == {xs[j] : j \in k + 1 .. Len(xs)} \ {Null}

LEMMA AfterFacts ==
  ASSUME NEW xs, IsSeq(xs), Distinct(xs), NEW k \in 0 .. Len(xs), k < Len(xs)
  PROVE  /\ After(xs, k) = After(xs, k + 1) \cup Target(xs[k + 1])
         /\ After(xs, k + 1) \cap Target(xs[k + 1]) = {}
<1>1. Len(xs) \in Nat /\ k \in Nat
  BY LenFacts
<1> DEFINE n == Len(xs)
           i == k + 1
<1>2. i \in 1 .. n /\ k + 1 .. n = (i + 1 .. n) \cup {i} /\ i \notin i + 1 .. n
  BY <1>1
<1>3. \A j \in i + 1 .. n : j \in 1 .. n /\ j # i
  BY <1>1
<1>4. After(xs, k) = {xs[j] : j \in (i + 1 .. n) \cup {i}} \ {Null}
  BY <1>2 DEF After
<1>5. After(xs, i) = {xs[j] : j \in i + 1 .. n} \ {Null}
  BY DEF After
<1>6. \A j \in 1 .. n : xs[j] = xs[i] /\ xs[i] # Null => j = i
  BY <1>2 DEF Distinct
<1> HIDE DEF i, n
<1>7. After(xs, k) = After(xs, i) \cup Target(xs[i])
  BY <1>4, <1>5 DEF Target
<1>8. After(xs, i) \cap Target(xs[i]) = {}
  BY <1>3, <1>5, <1>6 DEF Target
<1> QED BY <1>7, <1>8 DEF i

LEMMA DestroyedGives ==
  ASSUME DtorsKeep, NEW p \in AllParsers, p.type = "AND", NEW h, NEW R, NEW xs, Handed(h, R, xs),
         Len(xs) <= Len(p.xs) - 1, \A k \in 1 .. Len(xs) : Kind(h, xs[k]) \in Yields(p.xs[k]),
         NEW g, g = Destroyed(h, p, xs)
  PROVE  \E L : /\ Gives(h, g, R, L) /\ \A b \in L : ~ g.blocks[b].pool
                /\ L = {} \/ \E k \in 1 .. Len(xs) : Spared(p, k)
<1> DEFINE n == Len(xs)
           careless == \E k \in 1 .. n : Spared(p, k)
<1>1. IsSeq(xs) /\ Distinct(xs) /\ n \in Nat /\ Sound(h, R \cup Values(xs)) /\ R \cap Values(xs) = {}
  BY LenFacts DEF Handed
<1>2. PICK left : Path(left, h, p, xs, n) /\ g = left[n]
  BY <1>1, DestroyFirstIs DEF Destroyed
<1> DEFINE Good(k, L) ==
             /\ Sound(left[k], R \cup After(xs, k) \cup L) /\ L \cap (R \cup After(xs, k)) = {}
             /\ Keeps(h, left[k], R \cup After(xs, k))
             /\ \A b \in L : ~ left[k].blocks[b].pool
             /\ L = {} \/ careless
           S == {k \in 0 .. n : \E L : Good(k, L)}
<1>3. \A k \in 0 .. n : R \cap After(xs, k) = {}
  <2>1. \A k \in 0 .. n : After(xs, k) \subseteq Values(xs)
    BY <1>1 DEF After, Values
  <2> QED BY <1>1, <2>1
<1>4. 0 \in S
  <2>1. 0 \in 0 .. n /\ left[0] = h
    BY <1>1, <1>2 DEF Path
  <2>2. After(xs, 0) = Values(xs)
    <3>1. 0 + 1 .. n = 1 .. n
      BY <1>1
    <3> HIDE DEF n
    <3> QED BY <3>1 DEF After, Values, n
  <2>3. Good(0, {})
    <3>1. Keeps(h, h, R \cup Values(xs))
      <4>1. Sound(h, (R \cup Values(xs)) \cup {})
        BY <1>1
      <4> QED BY <4>1, KeepsSelf
    <3>2. R \cup Values(xs) \cup {} = R \cup Values(xs)
      OBVIOUS
    <3> QED BY <1>1, <2>1, <2>2, <3>1, <3>2
  <2> QED BY <2>1, <2>3
<1>5. ASSUME NEW k \in 0 .. n, k < n, k \in S PROVE k + 1 \in S
  <2>1. PICK L : Good(k, L)
    BY <1>5
  <2>2. k + 1 \in 1 .. n /\ k + 1 \in 0 .. n /\ k + 1 # 0 /\ k + 1 - 1 = k
    BY <1>1, <1>5
  <2> DEFINE x == xs[k + 1]
             Q == R \cup After(xs, k + 1) \cup L
  <2>3. After(xs, k) = After(xs, k + 1) \cup Target(x) /\ After(xs, k + 1) \cap Target(x) = {}
    BY <1>1, <1>5, AfterFacts
  <2>4. left[k + 1] = ParseDtor(left[k], p.dxs[k + 1], x)
    BY <1>2, <2>2 DEF Path
  <2>5. k + 1 \in 1 .. Len(p.xs) - 1
    <3>1. Len(p.xs) \in Nat
      BY ClosedAssumption DEF Closed, ListTypes
    <3> QED BY <1>1, <2>2, <3>1
  <2>6. Kind(left[k], x) \in Yields(p.xs[k + 1])
    <3>1. Kind(h, x) \in Yields(p.xs[k + 1])
      BY <2>2
    <3>2. CASE x = Null
      BY <3>1, <3>2 DEF Kind
    <3>3. CASE x # Null
      <4>1. x \in R \cup After(xs, k)
        BY <2>3, <3>3 DEF Target
      <4> QED BY <2>1, <3>1, <4>1 DEF Keeps
    <3> QED BY <3>2, <3>3
  <2>7. Sound(left[k], Q \cup Target(x)) /\ Q \cap Target(x) = {}
    <3>1. R \cup After(xs, k) \cup L = Q \cup Target(x)
      BY <2>3
    <3>2. Q \cap Target(x) = {}
      BY <1>3, <2>1, <2>3
    <3> QED BY <2>1, <3>1, <3>2
  <2> HIDE DEF n, x, Q, S
  <2>8. PICK d, a : d = left[k + 1] /\ a = left[k]
    OBVIOUS
  <2>9. PICK M : /\ Gives(a, d, Q, M) /\ \A b \in M : ~ d.blocks[b].pool
                 /\ M = {} \/ Spared(p, k + 1)
    BY <2>4, <2>5, <2>6, <2>7, <2>8, ParseDtorGives
  <2>10. Sound(d, Q \cup M) /\ Q \cap M = {} /\ Keeps(a, d, Q)
    BY <2>9 DEF Gives
  <2> DEFINE K == R \cup After(xs, k + 1)
  <2>11. Sound(d, K \cup (L \cup M)) /\ (L \cup M) \cap K = {}
    <3>1. Q \cup M = K \cup (L \cup M)
      BY DEF Q
    <3>2. K \cap L = {}
      BY <2>1, <2>3
    <3> QED BY <2>10, <3>1, <3>2 DEF Q
  <2>12. Keeps(h, d, K)
    <3>1. Keeps(a, d, K)
      BY <2>10 DEF Q, Keeps
    <3>2. Keeps(h, a, K)
      BY <2>1, <2>3, <2>8 DEF Keeps
    <3> QED BY <3>1, <3>2, KeepsOn
  <2>13. \A b \in L \cup M : ~ d.blocks[b].pool
    <3>1. \A b \in L : ~ a.blocks[b].pool /\ b \in Q
      BY <2>1, <2>8 DEF Q
    <3> QED BY <2>9, <2>10, <3>1 DEF Keeps
  <2>14. L \cup M = {} \/ careless
    BY <2>1, <2>2, <2>9 DEF n
  <2>15. Good(k + 1, L \cup M)
    BY <2>8, <2>11, <2>12, <2>13, <2>14
  <2> QED BY <2>2, <2>15 DEF S
<1>6. n \in 0 .. n /\ S \in SUBSET (0 .. n)
  BY <1>1
<1>7. n \in S
  <2> HIDE DEF S, n
  <2> QED BY <1>1, <1>4, <1>5, <1>6, Climb DEF n
<1>8. PICK L : Good(n, L)
  BY <1>7
<1>9. After(xs, n) = {}
  <2>1. n + 1 .. n = {}
    BY <1>1
  <2> HIDE DEF n
  <2> QED BY <2>1 DEF After, n
<1>10. Gives(h, g, R, L)
  <2>1. R \cup After(xs, n) = R /\ R \cup After(xs, n) \cup L = R \cup L
    BY <1>9
  <2>2. Sound(g, R \cup L) /\ L \cap R = {} /\ Keeps(h, g, R)
    BY <1>2, <1>8, <2>1
  <2> QED BY <2>2 DEF Gives
<1> QED BY <1>2, <1>8, <1>10

(***************************************************************************)
(* Activations come and go, and what they hold with them.                  *)
(***************************************************************************)
LEMMA FitsOn ==
  ASSUME NEW h, NEW g, NEW f, Keeps(h, g, FrameHeld(f)), Fitting(h, f)
  PROVE  Fitting(g, f)
<1>1. Kind(g, f.room) = Kind(h, f.room)
  BY DEF Keeps, FrameHeld, Target, Kind
<1>2. ASSUME NEW k \in 1 .. Len(f.results) PROVE Kind(g, f.results[k]) = Kind(h, f.results[k])
  <2>1. CASE f.results[k] = Null
    BY <2>1 DEF Kind
  <2>2. CASE f.results[k] # Null
    <3>1. f.results[k] \in FrameHeld(f)
      BY <2>2 DEF FrameHeld, Values
    <3> QED BY <3>1 DEF Keeps
  <2> QED BY <2>1, <2>2
<1> QED BY <1>1, <1>2 DEF Fitting

LEMMA HoldOp ==
  ASSUME NEW h, NEW s, NEW X, Holding(h, s, X), NEW Y \in SUBSET X, NEW g, NEW T,
         Gives(h, g, StackHeld(s) \cup Y, T)
  PROVE  Holding(g, s, Y \cup T) /\ Y \cap T = {} /\ Keeps(h, g, Y)
<1>1. Sound(g, (StackHeld(s) \cup Y) \cup T) /\ (StackHeld(s) \cup Y) \cap T = {} /\ Keeps(h, g, StackHeld(s) \cup Y)
  BY DEF Gives
<1>2. (StackHeld(s) \cup Y) \cup T = StackHeld(s) \cup (Y \cup T)
  OBVIOUS
<1>3. (Y \cup T) \cap StackHeld(s) = {}
  BY <1>1 DEF Holding
<1>4. ASSUME NEW d \in 1 .. Len(s) PROVE FrameApart(s[d]) /\ Fitting(g, s[d])
  <2>1. FrameApart(s[d]) /\ Fitting(h, s[d])
    BY DEF Holding
  <2>2. FrameHeld(s[d]) \subseteq StackHeld(s)
    BY DEF StackHeld
  <2>3. Keeps(h, g, FrameHeld(s[d]))
    BY <1>1, <2>2 DEF Keeps
  <2> QED BY <2>1, <2>3, FitsOn
<1>5. Holding(g, s, Y \cup T)
  BY <1>1, <1>2, <1>3, <1>4 DEF Holding
<1> QED BY <1>1, <1>5, KeepsLess

LEMMA HeldPushed ==
  ASSUME NEW s, IsSeq(s), NEW f
  PROVE  StackHeld(Append(s, f)) = StackHeld(s) \cup FrameHeld(f)
<1>1. PICK t : t = Append(s, f)
  OBVIOUS
<1>2. Len(t) = Len(s) + 1 /\ (\A k \in 1 .. Len(s) : t[k] = s[k]) /\ t[Len(s) + 1] = f
  BY <1>1, AppendFacts
<1>3. 1 .. Len(t) = (1 .. Len(s)) \cup {Len(s) + 1}
  BY <1>2, LenFacts
<1>4. ASSUME NEW b PROVE b \in StackHeld(t) <=> b \in StackHeld(s) \/ b \in FrameHeld(f)
  <2>1. b \in StackHeld(t) <=> \E d \in 1 .. Len(t) : b \in FrameHeld(t[d])
    BY DEF StackHeld
  <2>2. b \in StackHeld(s) <=> \E d \in 1 .. Len(s) : b \in FrameHeld(s[d])
    BY DEF StackHeld
  <2>3. b \in StackHeld(s) <=> \E d \in 1 .. Len(s) : b \in FrameHeld(t[d])
    BY <1>2, <2>2
  <2> QED BY <1>2, <1>3, <2>1, <2>3
<1>5. StackHeld(t) = StackHeld(s) \cup FrameHeld(f)
  BY <1>4
<1> QED BY <1>1, <1>5

LEMMA HoldPush ==
  ASSUME NEW h, NEW s, IsSeq(s), NEW X, NEW f, Holding(h, s, X \cup FrameHeld(f)), X \cap FrameHeld(f) = {},
         FrameApart(f), Fitting(h, f)
  PROVE  Holding(h, Append(s, f), X)
<1>1. PICK t : t = Append(s, f)
  OBVIOUS
<1>2. Len(t) = Len(s) + 1 /\ (\A k \in 1 .. Len(s) : t[k] = s[k]) /\ t[Len(s) + 1] = f /\ Len(s) \in Nat
  BY <1>1, AppendFacts, LenFacts
<1>3. StackHeld(t) = StackHeld(s) \cup FrameHeld(f)
  BY <1>1, HeldPushed
<1>4. Sound(h, StackHeld(t) \cup X) /\ X \cap StackHeld(t) = {}
  <2>1. StackHeld(t) \cup X = StackHeld(s) \cup (X \cup FrameHeld(f))
    BY <1>3
  <2> QED BY <1>3, <2>1 DEF Holding
<1>5. \A d \in 1 .. Len(t) : d \in 1 .. Len(s) \/ d = Len(s) + 1
  BY <1>2
<1>6. \A d \in 1 .. Len(t) : FrameApart(t[d]) /\ Fitting(h, t[d])
  BY <1>2, <1>5 DEF Holding
<1>7. \A d \in 1 .. Len(s) : FrameHeld(s[d]) \cap FrameHeld(f) = {}
  <2>1. \A d \in 1 .. Len(s) : FrameHeld(s[d]) \subseteq StackHeld(s)
    BY DEF StackHeld
  <2> QED BY <2>1 DEF Holding
<1>8. ASSUME NEW d \in 1 .. Len(t), NEW e \in 1 .. Len(t), d # e
      PROVE  FrameHeld(t[d]) \cap FrameHeld(t[e]) = {}
  BY <1>2, <1>5, <1>7, <1>8 DEF Holding
<1> QED BY <1>1, <1>4, <1>6, <1>8 DEF Holding

LEMMA HoldPop ==
  ASSUME NEW h, NEW s, IsSeq(s), s # << >>, NEW X, Holding(h, s, X)
  PROVE  /\ Holding(h, Front(s), X \cup FrameHeld(Last(s))) /\ X \cap FrameHeld(Last(s)) = {}
         /\ FrameApart(Last(s)) /\ Fitting(h, Last(s))
<1>1. PICK u, f : u = Front(s) /\ f = Last(s)
  OBVIOUS
<1>2. IsSeq(u) /\ Len(u) = Len(s) - 1 /\ Len(s) \in Nat \ {0} /\ (\A k \in 1 .. Len(s) - 1 : u[k] = s[k])
      /\ s = Append(u, f) /\ f = s[Len(s)]
  BY <1>1, FrontFacts DEF Last
<1>3. StackHeld(s) = StackHeld(u) \cup FrameHeld(f)
  BY <1>2, HeldPushed
<1>4. Len(s) \in 1 .. Len(s) /\ \A d \in 1 .. Len(u) : d \in 1 .. Len(s) /\ d # Len(s)
  BY <1>2
<1>5. \A d \in 1 .. Len(u) : FrameHeld(u[d]) \cap FrameHeld(f) = {}
  BY <1>2, <1>4 DEF Holding
<1>6. StackHeld(u) \cap FrameHeld(f) = {}
  BY <1>5 DEF StackHeld
<1>7. X \cap StackHeld(s) = {}
  BY DEF Holding
<1>8. Sound(h, StackHeld(u) \cup (X \cup FrameHeld(f))) /\ (X \cup FrameHeld(f)) \cap StackHeld(u) = {}
  <2>1. StackHeld(s) \cup X = StackHeld(u) \cup (X \cup FrameHeld(f))
    BY <1>3
  <2> QED BY <1>3, <1>6, <1>7, <2>1 DEF Holding
<1>9. \A d \in 1 .. Len(u) : FrameApart(u[d]) /\ Fitting(h, u[d])
  BY <1>2, <1>4 DEF Holding
<1>10. \A d, e \in 1 .. Len(u) : d # e => FrameHeld(u[d]) \cap FrameHeld(u[e]) = {}
  BY <1>2, <1>4 DEF Holding
<1>11. FrameApart(f) /\ Fitting(h, f)
  BY <1>2, <1>4 DEF Holding
<1> QED BY <1>1, <1>3, <1>7, <1>8, <1>9, <1>10, <1>11 DEF Holding

(***************************************************************************)
(* The invariant of the heap, step by step.                                *)
(***************************************************************************)
LEMMA DefinitionYields ==
  ASSUME NEW p \in AllParsers
  PROVE  Yields(Definition(p)) \subseteq Yields(p)
BY FitAssumption DEF Fits, Definition

(* What happens to the error that is kept, and what error is returned.     *)
Stays == error' = error /\ (error # Null => heap'.blocks[error].data = heap.blocks[error].data)
Merges == error # Null => error' # Null /\ heap'.blocks[error'].data = Merged(heap, error, result)
Answers(said) == result' # Null /\ heap'.blocks[result'].data = said

(* What the activations hold that have nothing to do with the step.        *)
Undisturbed == Keeps(heap, heap', StackHeld(IF ctl = "call" THEN stack ELSE Front(stack)))

(* What is returned is what the fold has made of the results xs.           *)
Folds(h, xs) ==
  LET f == ParseFold(h, Top.p.f, xs)
  IN  /\ \E R : Handed(h, R, xs)
      /\ Served(h, Top.p, xs)
      /\ result' = f.value /\ Keeps(f.heap, heap', Target(f.value))

LEMMA HeapedNext ==
  ASSUME NEW h, h = heap', NEW s, s = stack', NEW e, e = error', NEW v, v = Returning', NEW G,
         Holding(h, s, Target(e) \cup Target(v) \cup G), G \cap (Target(e) \cup Target(v)) = {},
         \A b \in G : ~ h.blocks[b].pool, limited' \/ G = {},
         Target(e) \cap Target(v) = {}, Kind(h, e) \in {"null", "err"},
         ctl' = "return" /\ ok' => Kind(h, v) \in Yields(Asked(s, root')),
         ctl' = "return" /\ ~ ok' => Kind(h, v) \in {"null", "err"} /\ (suppress' > 0 => v = Null),
         ctl' # "done"
  PROVE  Heaped'
<1>1. Lost(G)'
  BY DEF Lost
<1>2. Holding(heap', stack', Target(error') \cup Target(Returning') \cup G)
  OBVIOUS
<1>3. ctl' = "return" => result' = v
  BY DEF Returning
<1> QED BY <1>1, <1>2, <1>3 DEF Heaped, Failing

LEMMA AnswerHeaped ==
  ASSUME Control, Heaped, ctl = "call", ctl' = "return", UNCHANGED <<root, stack, suppress, error>>,
         limited => limited', NEW out, heap' = out.heap, result' = out.value,
         NEW kinds, \A R : Sound(heap, R) => Yielded(heap, out, R, kinds),
         ok' => kinds \subseteq Yields(Definition(arg)),
         ~ ok' => kinds \subseteq {"null", "err"} /\ (suppress > 0 => out.value = Null)
  PROVE  Heaped' /\ Undisturbed /\ Stays
<1>1. PICK G : Holding(heap, stack, Target(error) \cup Target(Returning) \cup G) /\ Lost(G)
  BY DEF Heaped
<1>2. Returning = Null /\ Target(Null) = {}
  BY DEF Returning, Target
<1> DEFINE Y == Target(error) \cup G
           v == out.value
           h == out.heap
<1>3. Holding(heap, stack, Y) /\ G \cap Target(error) = {} /\ (\A b \in G : ~ heap.blocks[b].pool) /\ (limited \/ G = {})
  BY <1>1, <1>2 DEF Lost
<1>4. Sound(heap, StackHeld(stack) \cup Y)
  BY <1>3 DEF Holding
<1>5. Gives(heap, h, StackHeld(stack) \cup Y, Target(v)) /\ Kind(h, v) \in kinds
  BY <1>4 DEF Yielded
<1> HIDE DEF h, v
<1>6. Holding(h, stack, Y \cup Target(v)) /\ Y \cap Target(v) = {} /\ Keeps(heap, h, Y)
  BY <1>3, <1>5, HoldOp
<1>7. Kind(h, error) \in {"null", "err"}
  <2>1. Kind(heap, error) \in {"null", "err"}
    BY DEF Heaped
  <2> QED BY <1>6, <2>1 DEF Keeps, Target, Kind
<1>8. \A b \in G : ~ h.blocks[b].pool
  BY <1>3, <1>6 DEF Keeps
<1>9. ok' => Kind(h, v) \in Yields(Asked(stack, root))
  <2>1. arg = Asked(stack, root) /\ arg \in AllParsers
    BY Asking DEF Control, Turn
  <2> QED BY <1>5, <2>1, DefinitionYields
<1>10. Y \cup Target(v) = Target(error) \cup Target(v) \cup G
  OBVIOUS
<1>11. heap' = h /\ stack' = stack /\ error' = error /\ Returning' = v
  BY DEF Returning, h, v
<1>12. Holding(h, stack, Target(error) \cup Target(v) \cup G) /\ G \cap (Target(error) \cup Target(v)) = {}
       /\ Target(error) \cap Target(v) = {}
  BY <1>3, <1>6, <1>10
<1>13. (ok' => Kind(h, v) \in Yields(Asked(stack, root')))
       /\ (~ ok' => Kind(h, v) \in {"null", "err"} /\ (suppress' > 0 => v = Null)) /\ (limited' \/ G = {})
  BY <1>3, <1>5, <1>9 DEF v
<1>14. Heaped'
  BY <1>7, <1>8, <1>11, <1>12, <1>13, HeapedNext
<1>15. Stays
  BY <1>6, <1>11 DEF Keeps, Target, Stays
<1>16. Undisturbed
  BY <1>5, <1>11 DEF Undisturbed, Gives, Keeps
<1> QED BY <1>14, <1>15, <1>16

(* Nothing is given.                                                       *)
LEMMA NothingGives ==
  ASSUME NEW h, NEW R, Sound(h, R), NEW out, out = Result(h, Null)
  PROVE  Yielded(h, out, R, {"null"})
<1>1. Target(Null) = {} /\ Kind(h, Null) = "null" /\ R \cup {} = R
  BY DEF Target, Kind
<1> QED BY <1>1, KeepsSelf DEF Yielded, Gives, Result

LEMMA FailsHeaped ==
  ASSUME Control, Heaped, TooDeep \/ UndefinedFails
  PROVE  /\ Heaped' /\ Undisturbed /\ Stays
         /\ suppress > 0 \/ \E failure : failure # NoFailure /\ Answers([pos |-> state.pos, expected |-> {}, failure |-> failure])
<1>1. PICK failure, e : failure # NoFailure /\ e = ErrFail(heap, failure) /\ heap' = e.heap /\ result' = e.value
  BY DEF TooDeep, UndefinedFails, Return, NoFailure
<1> DEFINE kinds == {"null", "err"}
<1>2. \A R : Sound(heap, R) => Yielded(heap, e, R, kinds)
  BY <1>1, ErrFailGives
<1>3. suppress > 0 => e.value = Null
  BY <1>1 DEF ErrFail, Result
<1>4. ctl = "call" /\ ctl' = "return" /\ ~ ok' /\ UNCHANGED <<root, stack, suppress, error>> /\ (limited => limited')
  <2>1. CASE TooDeep
    BY <2>1 DEF TooDeep, Return, setting
  <2>2. CASE UndefinedFails
    BY <2>2 DEF UndefinedFails, Called, Return, setting, history
  <2> QED BY <2>1, <2>2
<1>5. ~ ok' => kinds \subseteq {"null", "err"} /\ (suppress > 0 => e.value = Null)
  BY <1>3
<1> HIDE DEF kinds
<1>6. Heaped' /\ Undisturbed /\ Stays
  BY <1>1, <1>2, <1>4, <1>5, AnswerHeaped
<1>7. PICK said : said = [pos |-> state.pos, expected |-> {}, failure |-> failure]
  OBVIOUS
<1>8. \E R : Sound(heap, R)
  BY DEF Heaped, Holding
<1>9. ~ (suppress > 0) => Answers(said)
  <2>1. ~ (suppress > 0) => Says(e, said)
    BY <1>1, <1>7, <1>8, ErrFailGives
  <2> QED BY <1>1, <2>1 DEF Says, Answers
<1> QED BY <1>1, <1>6, <1>7, <1>9

LEMMA TakesHeaped ==
  ASSUME Control, Heaped, TakeChar \/ TakeString
  PROVE  Heaped' /\ Undisturbed /\ Stays
<1>1. PICK data, c : c = MpcMalloc(heap, Block("chars", data, << >>)) /\ heap' = c.heap /\ result' = c.value
  BY DEF TakeChar, TakeString, Return
<1>2. ASSUME NEW R, Sound(heap, R) PROVE Yielded(heap, c, R, {"chars"})
  <2>1. "chars" \in EngineKinds
    BY DEF EngineKinds
  <2> QED BY <1>1, <1>2, <2>1, MallocGives DEF Yielded
<1>3. ctl = "call" /\ ctl' = "return" /\ ok' /\ UNCHANGED <<root, stack, suppress, error>> /\ limited' = limited
      /\ Definition(arg).type \in CharTypes
  BY DEF TakeChar, TakeString, Called, Return, setting, history, CharTypes
<1>4. "chars" \in Yields(Definition(arg))
  BY <1>3, Asking, FitAssumption DEF Fits
<1> QED BY <1>1, <1>2, <1>3, <1>4, AnswerHeaped

LEMMA RefusesHeaped ==
  ASSUME Control, Heaped, RefuseChar \/ RefuseString \/ StartOfInput \/ EndOfInput
  PROVE  Heaped' /\ Undisturbed /\ Stays
<1>1. PICK out : out = Result(heap, Null)
  OBVIOUS
<1>2. out.heap = heap /\ out.value = Null
  BY <1>1 DEF Result
<1>3. ctl = "call" /\ ctl' = "return" /\ heap' = heap /\ result' = Null
      /\ UNCHANGED <<root, stack, suppress, error>> /\ limited' = limited
  BY DEF RefuseChar, RefuseString, StartOfInput, EndOfInput, Called, Return, setting, history
<1>4. \A R : Sound(heap, R) => Yielded(heap, out, R, {"null"})
  BY <1>1, NothingGives
<1>5. ok' => Definition(arg).type \in InputTypes
  BY DEF RefuseChar, RefuseString, StartOfInput, EndOfInput, Called, Return, InputTypes
<1>6. ok' => "null" \in Yields(Definition(arg))
  BY <1>3, <1>5, Asking, FitAssumption DEF Fits
<1> QED BY <1>2, <1>3, <1>4, <1>6, AnswerHeaped

LEMMA OpenHeaped ==
  ASSUME Control, Heaped, OpenOne \/ OpenExpect \/ OpenOr \/ OpenAnd
  PROVE  Heaped' /\ Undisturbed /\ Stays
<1> DEFINE p == Definition(arg)
<1>1. ctl = "call" /\ p.type \in SingleTypes \cup ListTypes
  BY DEF OpenOne, OpenExpect, OpenOr, OpenAnd, Called, SingleTypes, ListTypes
<1> HIDE DEF p
<1>2. PICK room : /\ room = Room(heap, p) /\ heap' = room.heap
                  /\ stack' = Append(stack, [p |-> p, j |-> 1, results |-> << >>, room |-> room.value, entry |-> state])
                  /\ ctl' = "call" /\ error' = error /\ limited' = limited
  BY DEF OpenOne, OpenExpect, OpenOr, OpenAnd, Called, Open, setting, place, history, p
<1>3. PICK f : f = [p |-> p, j |-> 1, results |-> << >>, room |-> room.value, entry |-> state]
  OBVIOUS
<1>4. f.p = p /\ f.results = << >> /\ f.room = room.value
  BY <1>3
<1>5. PICK G : Holding(heap, stack, Target(error) \cup Target(Returning) \cup G) /\ Lost(G)
  BY DEF Heaped
<1>6. Returning = Null /\ Target(Null) = {}
  BY <1>1 DEF Returning, Target
<1> DEFINE Y == Target(error) \cup G
<1>7. Holding(heap, stack, Y) /\ G \cap Target(error) = {} /\ (\A b \in G : ~ heap.blocks[b].pool) /\ (limited \/ G = {})
  BY <1>5, <1>6 DEF Lost
<1>8. PICK h : h = heap'
  OBVIOUS
<1>9. /\ Gives(heap, h, StackHeld(stack) \cup Y, Target(room.value))
      /\ Kind(h, room.value) \in {"null", "results"}
      /\ p.type \notin {"AND", "OR"} => room.value = Null
  <2>1. Sound(heap, StackHeld(stack) \cup Y)
    BY <1>7 DEF Holding
  <2> QED BY <1>2, <1>8, <2>1, RoomGives DEF Yielded
<1>10. Holding(h, stack, Y \cup Target(room.value)) /\ Y \cap Target(room.value) = {} /\ Keeps(heap, h, Y)
  BY <1>7, <1>9, HoldOp
<1>11. FrameHeld(f) = Target(room.value) /\ FrameApart(f) /\ Fitting(h, f)
  <2>1. Values(<< >>) = {} /\ Distinct(<< >>)
    BY DEF Values, Distinct
  <2>2. \A k \in 1 .. Len(<< >>) : FALSE
    OBVIOUS
  <2> QED BY <1>4, <1>9, <2>1, <2>2 DEF FrameHeld, FrameApart, Fitting
<1>12. IsSeq(stack)
  BY DEF Control, Nested, StackOK
<1>13. PICK s : s = stack'
  OBVIOUS
<1>14. Holding(h, s, Y)
  BY <1>2, <1>3, <1>10, <1>11, <1>12, <1>13, HoldPush
<1>15. Kind(h, error) \in {"null", "err"} /\ \A b \in G : ~ h.blocks[b].pool
  <2>1. Kind(heap, error) \in {"null", "err"}
    BY DEF Heaped
  <2> QED BY <1>7, <1>10, <2>1 DEF Keeps, Target, Kind
<1>16. Returning' = Null
  BY <1>2 DEF Returning
<1>17. Holding(h, s, Target(error) \cup Target(Null) \cup G) /\ G \cap (Target(error) \cup Target(Null)) = {}
       /\ Target(error) \cap Target(Null) = {}
  BY <1>6, <1>7, <1>14
<1>18. Heaped'
  BY <1>2, <1>7, <1>8, <1>13, <1>15, <1>16, <1>17, HeapedNext
<1>19. Stays
  BY <1>2, <1>8, <1>10 DEF Keeps, Target, Stays
<1>20. Undisturbed
  BY <1>1, <1>8, <1>9 DEF Undisturbed, Gives, Keeps
<1> QED BY <1>18, <1>19, <1>20

(***************************************************************************)
(* An activation that goes on or returns has these pointers in its hands;  *)
(* the rest of the heap has to stay as it is.                              *)
(***************************************************************************)
Loose == Target(error) \cup Target(result) \cup FrameHeld(Top)
Rest(G) == StackHeld(Front(stack)) \cup G

Waiting(G) ==
  /\ Holding(heap, Front(stack), Loose \cup G) /\ G \cap Loose = {}
  /\ \A b \in G : ~ heap.blocks[b].pool
  /\ limited \/ G = {}

LEMMA TopHolds ==
  ASSUME Control, Heaped, ctl = "return", stack # << >>
  PROVE  /\ \E G : Waiting(G)
         /\ FrameApart(Top) /\ Fitting(heap, Top)
         /\ Target(error) \cap Target(result) = {} /\ FrameHeld(Top) \cap (Target(error) \cup Target(result)) = {}
         /\ Kind(heap, error) \in {"null", "err"}
         /\ ok => Kind(heap, result) \in Yields(Child(Top))
         /\ ~ ok => Kind(heap, result) \in {"null", "err"} /\ (suppress > 0 => result = Null)
<1>1. PICK G : Holding(heap, stack, Target(error) \cup Target(result) \cup G) /\ Lost(G)
  BY DEF Heaped, Returning
<1>2. IsSeq(stack) /\ Top = Last(stack)
  BY DEF Control, Nested, StackOK, Top
<1> DEFINE X == Target(error) \cup Target(result) \cup G
<1>3. /\ Holding(heap, Front(stack), X \cup FrameHeld(Top)) /\ X \cap FrameHeld(Top) = {}
      /\ FrameApart(Top) /\ Fitting(heap, Top)
  BY <1>1, <1>2, HoldPop
<1>4. X \cup FrameHeld(Top) = Loose \cup G
  BY DEF Loose
<1>5. G \cap Loose = {} /\ (\A b \in G : ~ heap.blocks[b].pool) /\ (limited \/ G = {})
  BY <1>1, <1>3 DEF Lost, Returning, Loose
<1>6. Waiting(G)
  BY <1>3, <1>4, <1>5 DEF Waiting
<1>7. Asked(stack, root) = Child(Top)
  BY <1>2 DEF Asked
<1>8. Target(error) \cap Target(result) = {}
  BY DEF Heaped, Returning
<1> QED BY <1>3, <1>6, <1>7, <1>8 DEF Heaped, Failing

LEMMA WaitingFacts ==
  ASSUME NEW G, Waiting(G)
  PROVE  Sound(heap, Rest(G) \cup Loose) /\ Rest(G) \cap Loose = {}
<1>1. StackHeld(Front(stack)) \cup (Loose \cup G) = Rest(G) \cup Loose
  BY DEF Rest
<1> QED BY <1>1 DEF Waiting, Holding, Rest

LEMMA LeaveHeaped ==
  ASSUME Control, ctl = "return", stack # << >>,
         ctl' = "return", stack' = Front(stack), root' = root, limited' = limited,
         NEW h, h = heap', NEW e, e = error', NEW v, v = result', NEW G, Waiting(G), NEW L,
         Gives(heap, h, Rest(G), (Target(e) \cup Target(v)) \cup L), L \cap (Target(e) \cup Target(v)) = {},
         \A b \in L : ~ h.blocks[b].pool, limited \/ L = {},
         Target(e) \cap Target(v) = {}, Kind(h, e) \in {"null", "err"},
         ok' => Kind(h, v) \in Yields(Top.p),
         ~ ok' => Kind(h, v) \in {"null", "err"} /\ (suppress' > 0 => v = Null)
  PROVE  Heaped' /\ Undisturbed
<1>1. PICK u : u = Front(stack)
  OBVIOUS
<1> DEFINE T == (Target(e) \cup Target(v)) \cup L
<1>2. Holding(h, u, G \cup T) /\ G \cap T = {} /\ Keeps(heap, h, G)
  <2> DEFINE X == Loose \cup G
  <2>1. Holding(heap, u, X) /\ G \in SUBSET X
    BY <1>1 DEF Waiting
  <2>2. Gives(heap, h, StackHeld(u) \cup G, T)
    BY <1>1 DEF Rest
  <2> HIDE DEF X, T
  <2> QED BY <2>1, <2>2, HoldOp
<1> DEFINE M == G \cup L
<1>3. Holding(h, u, Target(e) \cup Target(v) \cup M) /\ M \cap (Target(e) \cup Target(v)) = {}
  <2>1. G \cup T = Target(e) \cup Target(v) \cup M
    OBVIOUS
  <2> QED BY <1>2, <2>1
<1>4. (\A b \in M : ~ h.blocks[b].pool) /\ (limited' \/ M = {})
  BY <1>2 DEF Waiting, Keeps
<1>5. ok' => Kind(h, v) \in Yields(Asked(u, root'))
  <2>1. StackOK(u, text, root) /\ Top.p = Definition(Asked(u, root))
    BY <1>1, Pop DEF Control, Nested, Top
  <2>2. Asked(u, root) \in AllParsers
    BY <2>1, AskedFacts DEF Control, Given
  <2> QED BY <2>1, <2>2, DefinitionYields
<1>6. Returning' = v
  BY DEF Returning
<1> HIDE DEF M
<1>7. Undisturbed
  BY DEF Undisturbed, Gives, Keeps, Rest
<1> QED BY <1>1, <1>3, <1>4, <1>5, <1>6, <1>7, HeapedNext

LEMMA RunHeaped ==
  ASSUME Control, ctl = "return", stack # << >>,
         ctl' = "call", NEW f, stack' = [stack EXCEPT ![Len(stack)] = f], limited' = limited,
         NEW h, h = heap', NEW e, e = error', NEW G, Waiting(G),
         Gives(heap, h, Rest(G), Target(e) \cup FrameHeld(f)), Target(e) \cap FrameHeld(f) = {},
         FrameApart(f), Fitting(h, f), Kind(h, e) \in {"null", "err"}
  PROVE  Heaped' /\ Undisturbed
<1>1. PICK u, s : u = Front(stack) /\ s = stack'
  OBVIOUS
<1>2. IsSeq(stack)
  BY DEF Control, Nested, StackOK
<1>3. s = Append(u, f) /\ IsSeq(u)
  BY <1>1, <1>2, ReplaceLast, FrontFacts
<1> DEFINE T == Target(e) \cup FrameHeld(f)
<1>4. Holding(h, u, G \cup T) /\ G \cap T = {} /\ Keeps(heap, h, G)
  <2> DEFINE X == Loose \cup G
  <2>1. Holding(heap, u, X) /\ G \in SUBSET X
    BY <1>1 DEF Waiting
  <2>2. Gives(heap, h, StackHeld(u) \cup G, T)
    BY <1>1 DEF Rest
  <2> HIDE DEF X, T
  <2> QED BY <2>1, <2>2, HoldOp
<1>5. Holding(h, s, Target(e) \cup G)
  <2>1. G \cup T = (Target(e) \cup G) \cup FrameHeld(f)
    OBVIOUS
  <2>2. (Target(e) \cup G) \cap FrameHeld(f) = {}
    BY <1>4
  <2> QED BY <1>3, <1>4, <2>1, <2>2, HoldPush
<1>6. (\A b \in G : ~ h.blocks[b].pool) /\ (limited' \/ G = {})
  BY <1>4 DEF Waiting, Keeps
<1>7. Returning' = Null /\ Target(Null) = {}
  BY DEF Returning, Target
<1>8. Holding(h, s, Target(e) \cup Target(Null) \cup G) /\ G \cap (Target(e) \cup Target(Null)) = {}
      /\ Target(e) \cap Target(Null) = {}
  BY <1>4, <1>5, <1>7
<1>9. Undisturbed
  BY DEF Undisturbed, Gives, Keeps, Rest
<1> QED BY <1>1, <1>6, <1>7, <1>8, <1>9, HeapedNext

LEMMA GivesOn ==
  ASSUME NEW h, NEW g, NEW R, NEW S, NEW T, Gives(h, g, R \cup S, T), R \cap S = {}
  PROVE  Gives(h, g, R, S \cup T) /\ S \cap T = {} /\ Keeps(h, g, S)
<1>1. (R \cup S) \cup T = R \cup (S \cup T)
  OBVIOUS
<1> QED BY <1>1, KeepsLess DEF Gives

LEMMA StayGives ==
  ASSUME NEW h, NEW R, NEW S, Sound(h, R \cup S), R \cap S = {}
  PROVE  Gives(h, h, R, S)
BY KeepsSelf DEF Gives

LEMMA ThenGives ==
  ASSUME NEW h, NEW g, NEW k, NEW R, NEW S, NEW T, Gives(h, g, R, S), Gives(g, k, R, T)
  PROVE  Gives(h, k, R, T)
BY KeepsOn DEF Gives

(* The room for the results goes last.                                     *)
LEMMA RoomFreed ==
  ASSUME NEW h, NEW k, NEW Q, NEW r, NEW T, Gives(h, k, Q \cup Target(r), T), Q \cap Target(r) = {},
         Kind(h, r) \in {"null", "results"}, NEW g, g = MpcFree(k, r)
  PROVE  Gives(h, g, Q, T) /\ Keeps(k, g, T)
<1>1. Sound(k, (Q \cup Target(r)) \cup T) /\ (Q \cup Target(r)) \cap T = {} /\ Keeps(h, k, Q \cup Target(r))
  BY DEF Gives
<1>2. Kind(k, r) \in EngineKinds \cup {"null"}
  <2>1. Kind(k, r) = Kind(h, r)
    BY <1>1 DEF Keeps, Target, Kind
  <2> QED BY <2>1 DEF EngineKinds
<1> DEFINE R == Q \cup T
<1>3. Sound(k, R \cup Target(r)) /\ R \cap Target(r) = {}
  <2>1. (Q \cup Target(r)) \cup T = R \cup Target(r)
    OBVIOUS
  <2> QED BY <1>1, <2>1
<1>4. Sound(g, R) /\ Keeps(k, g, R)
  <2> HIDE DEF R
  <2>1. Gives(k, g, R, {}) /\ R \cup {} = R
    BY <1>2, <1>3, MpcFreeGives
  <2> QED BY <2>1 DEF Gives
<1>5. Keeps(h, k, Q) /\ Keeps(k, g, Q) /\ Keeps(k, g, T)
  BY <1>1, <1>4 DEF Keeps
<1>6. Keeps(h, g, Q) /\ Q \cap T = {}
  BY <1>1, <1>5, KeepsOn
<1> QED BY <1>4, <1>5, <1>6 DEF Gives

LEMMA EmptyFrame ==
  ASSUME NEW h, NEW f, Fitting(h, f), f.p.type \notin {"AND", "OR"}, f.results = << >>
  PROVE  FrameHeld(f) = {}
<1>1. Values(<< >>) = {} /\ Len(<< >>) = 0 /\ Target(Null) = {}
  BY DEF Values, Target
<1>2. f.room = Null
  BY <1>1, EngineAssumption DEF Fitting
<1> QED BY <1>1, <1>2 DEF FrameHeld

LEMMA Suppressed ==
  ASSUME Control, stack # << >>, Top.p.type = "EXPECT"
  PROVE  suppress \in Nat \ {0}
<1> DEFINE S == {c \in 1 .. Len(stack) : stack[c].p.type = "EXPECT"}
<1>1. IsSeq(stack) /\ suppress = Among(stack, "EXPECT", Len(stack)) /\ Len(stack) \in Nat \ {0}
  BY LenFacts DEF Control, Nested, StackOK
<1>2. Len(stack) \in S
  BY <1>1 DEF Top, Last
<1>3. suppress = Cardinality(S) /\ IsFiniteSet(S)
  BY <1>1, AmongType DEF Among
<1> HIDE DEF S
<1>4. Cardinality(S) \in Nat /\ Cardinality(S) # 0
  <2>1. Cardinality(S) \in Nat
    BY <1>3, FS_CardinalityType
  <2>2. Cardinality(S) = 0 <=> S = {}
    BY <1>3, FS_EmptySet
  <2> QED BY <1>2, <2>1, <2>2
<1> QED BY <1>3, <1>4

(* Nothing happens to the heap.                                            *)
LEMMA PassedHeaped ==
  ASSUME Control, Heaped, ApplyFails \/ ExpectSucceeds \/ MaybeTakes
  PROVE  Heaped' /\ Undisturbed /\ Stays
<1>1. /\ ctl = "return" /\ stack # << >> /\ Top.p.type \in {"APPLY", "EXPECT", "MAYBE"}
      /\ ctl' = "return" /\ stack' = Front(stack) /\ root' = root /\ limited' = limited
      /\ heap' = heap /\ error' = error /\ result' = result
  BY DEF ApplyFails, ExpectSucceeds, MaybeTakes, Returned, Leave, Return, setting, history
<1>2. (ok' => ok /\ Top.p.type \in {"EXPECT", "MAYBE"}) /\ (~ ok' => ~ ok /\ suppress' = suppress)
  BY DEF ApplyFails, ExpectSucceeds, MaybeTakes, Returned, Leave, Return
<1>3. PICK G : Waiting(G)
  BY <1>1, TopHolds
<1>4. /\ Fitting(heap, Top) /\ Target(error) \cap Target(result) = {} /\ Kind(heap, error) \in {"null", "err"}
      /\ ok => Kind(heap, result) \in Yields(Child(Top))
      /\ ~ ok => Kind(heap, result) \in {"null", "err"} /\ (suppress > 0 => result = Null)
  BY <1>1, TopHolds
<1>5. FrameHeld(Top) = {}
  BY <1>1, <1>4, EmptyFrame DEF Fitting
<1>6. Loose = (Target(error) \cup Target(result)) \cup {}
  BY <1>5 DEF Loose
<1>7. Gives(heap, heap, Rest(G), (Target(error) \cup Target(result)) \cup {})
  BY <1>3, <1>6, WaitingFacts, StayGives
<1>8. ok' => Kind(heap, result) \in Yields(Top.p)
  <2>1. Top.p \in AllParsers
    BY <1>1, OnTop DEF FrameOK
  <2>2. Top.p.type \in {"EXPECT", "MAYBE"} => Child(Top) = Top.p.x /\ Yields(Top.p.x) \subseteq Yields(Top.p)
    BY <2>1, FitAssumption DEF Fits, Child, ListTypes
  <2> QED BY <1>2, <1>4, <2>2
<1>9. ~ ok' => Kind(heap, result) \in {"null", "err"} /\ (suppress' > 0 => result = Null)
  BY <1>2, <1>4
<1>10. Heaped' /\ Undisturbed
  BY <1>1, <1>3, <1>4, <1>7, <1>8, <1>9, LeaveHeaped
<1>11. Stays
  BY <1>1 DEF Stays
<1> QED BY <1>10, <1>11

LEMMA ApplySucceedsHeaped ==
  ASSUME AppliesKeep, Control, Heaped, ApplySucceeds
  PROVE  /\ Heaped' /\ Undisturbed /\ Stays
         /\ Top.p.f = "mpcf_free" => result' = Null
         /\ Top.p.f = "mpcf_int" => Answers(Number(Data(heap, result, << >>)))
<1>1. /\ ctl = "return" /\ ok = TRUE /\ stack # << >> /\ Top.p.type = "APPLY"
      /\ ctl' = "return" /\ ok' = TRUE /\ stack' = Front(stack) /\ root' = root /\ limited' = limited /\ error' = error
  BY DEF ApplySucceeds, Returned, Leave, Return, setting, history
<1>2. PICK a : a = ParseApply(heap, Top.p.f, result) /\ heap' = a.heap /\ result' = a.value
  BY DEF ApplySucceeds, Leave, Return
<1>3. PICK G : Waiting(G)
  BY <1>1, TopHolds
<1>4. /\ Fitting(heap, Top) /\ Target(error) \cap Target(result) = {} /\ Kind(heap, error) \in {"null", "err"}
      /\ Kind(heap, result) \in Yields(Child(Top))
  BY <1>1, TopHolds
<1>5. FrameHeld(Top) = {}
  BY <1>1, <1>4, EmptyFrame DEF Fitting
<1> DEFINE R == Rest(G) \cup Target(error)
<1>6. Sound(heap, R \cup Target(result)) /\ R \cap Target(result) = {} /\ Rest(G) \cap Target(error) = {}
  <2>1. Sound(heap, Rest(G) \cup Loose) /\ Rest(G) \cap Loose = {}
    BY <1>3, WaitingFacts
  <2>2. Rest(G) \cup Loose = R \cup Target(result)
    BY <1>5 DEF Loose
  <2> QED BY <1>4, <2>1, <2>2 DEF Loose
<1>7. /\ Gives(heap, a.heap, R, Target(a.value)) /\ Kind(a.heap, a.value) \in Yields(Top.p)
      /\ Top.p.f = "mpcf_free" => a.value = Null
      /\ Top.p.f = "mpcf_int" => Says(a, Number(Data(heap, result, << >>)))
  <2>1. Top.p \in AllParsers /\ Child(Top) = Top.p.x
    BY <1>1, OnTop DEF FrameOK, Child, ListTypes
  <2> HIDE DEF R
  <2>2. /\ Yielded(heap, a, R, Yields(Top.p))
        /\ Top.p.f = "mpcf_free" => a.value = Null
        /\ Top.p.f = "mpcf_int" => Says(a, Number(Data(heap, result, << >>)))
    BY <1>1, <1>2, <1>4, <1>6, <2>1, ParseApplyGives
  <2> QED BY <2>2 DEF Yielded
<1>8. /\ Gives(heap, a.heap, Rest(G), Target(error) \cup Target(a.value))
      /\ Target(error) \cap Target(a.value) = {} /\ Keeps(heap, a.heap, Target(error))
  <2>1. Gives(heap, a.heap, Rest(G) \cup Target(error), Target(a.value)) /\ Rest(G) \cap Target(error) = {}
    BY <1>6, <1>7
  <2> HIDE DEF R
  <2> QED BY <2>1, GivesOn
<1>9. Kind(a.heap, error) \in {"null", "err"}
  BY <1>4, <1>8 DEF Keeps, Target, Kind
<1>10. Gives(heap, a.heap, Rest(G), (Target(error) \cup Target(a.value)) \cup {})
  <2>1. (Target(error) \cup Target(a.value)) \cup {} = Target(error) \cup Target(a.value)
    OBVIOUS
  <2> QED BY <1>8, <2>1
<1>11. Heaped' /\ Undisturbed
  BY <1>1, <1>2, <1>3, <1>7, <1>8, <1>9, <1>10, LeaveHeaped
<1>12. Stays
  BY <1>1, <1>2, <1>8 DEF Keeps, Target, Stays
<1> QED BY <1>2, <1>7, <1>11, <1>12 DEF Says, Answers

LEMMA ExpectFailsHeaped ==
  ASSUME Control, Heaped, ExpectFails
  PROVE  /\ Heaped' /\ Undisturbed /\ Stays
         /\ suppress' > 0 \/ Answers([pos |-> state.pos, expected |-> {Message("", {Top.p.message})}, failure |-> NoFailure])
<1>1. /\ ctl = "return" /\ ok = FALSE /\ stack # << >> /\ Top.p.type = "EXPECT"
      /\ ctl' = "return" /\ ok' = FALSE /\ stack' = Front(stack) /\ root' = root /\ limited' = limited /\ error' = error
      /\ suppress' = suppress - 1
  BY DEF ExpectFails, Returned, Leave, Return, Report, setting
<1>2. PICK a : a = ErrNew(heap, suppress', Top.p.message) /\ heap' = a.heap /\ result' = a.value
  BY <1>1 DEF ExpectFails, Leave, Return
<1>3. PICK G : Waiting(G)
  BY <1>1, TopHolds
<1>4. Fitting(heap, Top) /\ Kind(heap, error) \in {"null", "err"} /\ result = Null
  <2>1. suppress > 0
    BY <1>1, Suppressed
  <2> QED BY <1>1, <2>1, TopHolds
<1>5. FrameHeld(Top) = {}
  BY <1>1, <1>4, EmptyFrame DEF Fitting
<1>6. Sound(heap, Rest(G) \cup Target(error)) /\ Rest(G) \cap Target(error) = {}
  <2>1. Sound(heap, Rest(G) \cup Loose) /\ Rest(G) \cap Loose = {}
    BY <1>3, WaitingFacts
  <2>2. Rest(G) \cup Loose = Rest(G) \cup Target(error)
    BY <1>4, <1>5 DEF Loose, Target
  <2> QED BY <2>1, <2>2 DEF Loose
<1> DEFINE R == Rest(G) \cup Target(error)
<1>7. Gives(heap, a.heap, R, Target(a.value)) /\ Kind(a.heap, a.value) \in {"null", "err"} /\ (suppress' > 0 => a.value = Null)
  <2> HIDE DEF R
  <2>1. Yielded(heap, a, R, {"null", "err"}) /\ (suppress' > 0 => a.value = Null)
    BY <1>2, <1>6, ErrNewGives DEF R
  <2> QED BY <2>1 DEF Yielded
<1>8. /\ Gives(heap, a.heap, Rest(G), Target(error) \cup Target(a.value))
      /\ Target(error) \cap Target(a.value) = {} /\ Keeps(heap, a.heap, Target(error))
  <2>1. Gives(heap, a.heap, Rest(G) \cup Target(error), Target(a.value)) /\ Rest(G) \cap Target(error) = {}
    BY <1>6, <1>7
  <2> HIDE DEF R
  <2> QED BY <2>1, GivesOn
<1>9. Kind(a.heap, error) \in {"null", "err"}
  BY <1>4, <1>8 DEF Keeps, Target, Kind
<1>10. Gives(heap, a.heap, Rest(G), (Target(error) \cup Target(a.value)) \cup {})
  <2>1. (Target(error) \cup Target(a.value)) \cup {} = Target(error) \cup Target(a.value)
    OBVIOUS
  <2> QED BY <1>8, <2>1
<1>11. Heaped' /\ Undisturbed
  BY <1>1, <1>2, <1>3, <1>7, <1>8, <1>9, <1>10, LeaveHeaped
<1>12. Stays
  BY <1>1, <1>2, <1>8 DEF Keeps, Target, Stays
<1>13. PICK said : said = [pos |-> state.pos, expected |-> {Message("", {Top.p.message})}, failure |-> NoFailure]
  OBVIOUS
<1>14. ~ (suppress' > 0) => Answers(said)
  <2>1. ~ (suppress' > 0) => Says(a, said)
    BY <1>2, <1>6, <1>13, ErrNewGives
  <2> QED BY <1>2, <2>1 DEF Says, Answers
<1> QED BY <1>11, <1>12, <1>13, <1>14

(* The error there was and the one that is returned become one.            *)
LEMMA MergedTop ==
  ASSUME Control, Heaped, ctl = "return", stack # << >>, ok = FALSE, NEW G, Waiting(G),
         NEW m, m = ErrMerge(heap, error, result)
  PROVE  /\ Gives(heap, m.heap, Rest(G), FrameHeld(Top) \cup Target(m.value))
         /\ FrameHeld(Top) \cap Target(m.value) = {} /\ Kind(m.heap, m.value) \in {"null", "err"}
         /\ Keeps(heap, m.heap, FrameHeld(Top)) /\ Fitting(m.heap, Top)
         /\ error # Null => Says(m, Merged(heap, error, result))
<1>1. /\ Fitting(heap, Top) /\ Kind(heap, error) \in {"null", "err"} /\ Kind(heap, result) \in {"null", "err"}
      /\ Target(error) \cap Target(result) = {} /\ FrameHeld(Top) \cap (Target(error) \cup Target(result)) = {}
  BY TopHolds
<1>2. Sound(heap, Rest(G) \cup Loose) /\ Rest(G) \cap Loose = {}
  BY WaitingFacts
<1> DEFINE R == Rest(G) \cup FrameHeld(Top)
<1>3. Sound(heap, R \cup Target(error) \cup Target(result)) /\ R \cap Target(error) = {} /\ R \cap Target(result) = {}
      /\ Rest(G) \cap FrameHeld(Top) = {}
  <2>1. Rest(G) \cup Loose = R \cup Target(error) \cup Target(result)
    BY DEF Loose
  <2> QED BY <1>1, <1>2, <2>1 DEF Loose
<1>4. Gives(heap, m.heap, R, Target(m.value)) /\ Kind(m.heap, m.value) \in {"null", "err"}
  <2> HIDE DEF R
  <2>1. Yielded(heap, m, R, {"null", "err"})
    BY <1>1, <1>3, ErrMergeGives
  <2> QED BY <2>1 DEF Yielded
<1>5. /\ Gives(heap, m.heap, Rest(G), FrameHeld(Top) \cup Target(m.value))
      /\ FrameHeld(Top) \cap Target(m.value) = {} /\ Keeps(heap, m.heap, FrameHeld(Top))
  <2>1. PICK k, Q, S, T : k = m.heap /\ Q = Rest(G) /\ S = FrameHeld(Top) /\ T = Target(m.value)
    OBVIOUS
  <2>2. Gives(heap, k, Q \cup S, T) /\ Q \cap S = {}
    BY <1>3, <1>4, <2>1
  <2>3. Gives(heap, k, Q, S \cup T) /\ S \cap T = {} /\ Keeps(heap, k, S)
    BY <2>2, GivesOn
  <2> QED BY <2>1, <2>3
<1>6. error # Null => Says(m, Merged(heap, error, result))
  <2> HIDE DEF R
  <2>1. {error, result} # {Null} => Says(m, Merged(heap, error, result))
    BY <1>1, <1>3, ErrMergeGives
  <2> QED BY <2>1
<1>7. Fitting(m.heap, Top)
  BY <1>1, <1>5, FitsOn
<1> QED BY <1>4, <1>5, <1>6, <1>7

LEMMA MaybeLiftsHeaped ==
  ASSUME CtorsKeep, Control, Heaped, MaybeLifts
  PROVE  Heaped' /\ Undisturbed /\ Merges /\ (Top.p.lf = "mpcf_ctor_str" => Answers(<< >>))
<1>1. /\ ctl = "return" /\ ok = FALSE /\ stack # << >> /\ Top.p.type = "MAYBE"
      /\ ctl' = "return" /\ ok' = TRUE /\ stack' = Front(stack) /\ root' = root /\ limited' = limited
  BY DEF MaybeLifts, Returned, Leave, Return, setting, history
<1>2. PICK m, c : /\ m = ErrMerge(heap, error, result) /\ c = Ctor(m.heap, Top.p.lf)
                  /\ heap' = c.heap /\ error' = m.value /\ result' = c.value
  BY DEF MaybeLifts, Leave, Return
<1>3. PICK G : Waiting(G)
  BY <1>1, TopHolds
<1>4. FrameHeld(Top) = {}
  <2>1. Fitting(heap, Top)
    BY <1>1, TopHolds
  <2> QED BY <1>1, <2>1, EmptyFrame DEF Fitting
<1>5. Gives(heap, m.heap, Rest(G), Target(m.value)) /\ Kind(m.heap, m.value) \in {"null", "err"}
  <2>1. Gives(heap, m.heap, Rest(G), FrameHeld(Top) \cup Target(m.value)) /\ Kind(m.heap, m.value) \in {"null", "err"}
    BY <1>1, <1>2, <1>3, MergedTop
  <2>2. FrameHeld(Top) \cup Target(m.value) = Target(m.value)
    BY <1>4
  <2> QED BY <2>1, <2>2
<1> DEFINE R == Rest(G) \cup Target(m.value)
<1>6. Sound(m.heap, R) /\ Rest(G) \cap Target(m.value) = {}
  BY <1>5 DEF Gives
<1>7. /\ Gives(m.heap, c.heap, R, Target(c.value)) /\ Kind(c.heap, c.value) \in Yields(Top.p)
      /\ Top.p.lf = "mpcf_ctor_str" => Says(c, << >>)
  <2>1. Top.p \in AllParsers
    BY <1>1, OnTop DEF FrameOK
  <2> HIDE DEF R
  <2>2. Yielded(m.heap, c, R, Yields(Top.p)) /\ (Top.p.lf = "mpcf_ctor_str" => Says(c, << >>))
    BY <1>1, <1>2, <1>6, <2>1, CtorGives
  <2> QED BY <2>2 DEF Yielded
<1>8. /\ Gives(m.heap, c.heap, Rest(G), Target(m.value) \cup Target(c.value))
      /\ Target(m.value) \cap Target(c.value) = {} /\ Keeps(m.heap, c.heap, Target(m.value))
  <2>1. Gives(m.heap, c.heap, Rest(G) \cup Target(m.value), Target(c.value)) /\ Rest(G) \cap Target(m.value) = {}
    BY <1>6, <1>7
  <2> HIDE DEF R
  <2> QED BY <2>1, GivesOn
<1>9. Kind(c.heap, m.value) \in {"null", "err"}
  BY <1>5, <1>8 DEF Keeps, Target, Kind
<1>10. Gives(heap, c.heap, Rest(G), (Target(m.value) \cup Target(c.value)) \cup {})
  <2>1. (Target(m.value) \cup Target(c.value)) \cup {} = Target(m.value) \cup Target(c.value)
    OBVIOUS
  <2> QED BY <1>5, <1>8, <2>1, ThenGives
<1>11. Heaped' /\ Undisturbed
  BY <1>1, <1>2, <1>3, <1>7, <1>8, <1>9, <1>10, LeaveHeaped
<1>12. Merges
  <2>1. error # Null => Says(m, Merged(heap, error, result))
    BY <1>1, <1>2, <1>3, MergedTop
  <2>2. m.value # Null => heap'.blocks[error'].data = m.heap.blocks[m.value].data
    BY <1>2, <1>8 DEF Keeps, Target
  <2> QED BY <1>2, <2>1, <2>2 DEF Says, Merges
<1> QED BY <1>2, <1>7, <1>11, <1>12 DEF Says, Answers

(* The results are folded, and their room is freed.                        *)
LEMMA FoldedGives ==
  ASSUME FoldsKeep, NEW p \in AllParsers, p.type \in {"AND", "MANY", "MANY1"},
         NEW h, NEW Q, NEW r, NEW xs, IsSeq(xs), Distinct(xs), Served(h, p, xs),
         Sound(h, (Q \cup Target(r)) \cup Values(xs)), (Q \cup Target(r)) \cap Values(xs) = {}, Q \cap Target(r) = {},
         Kind(h, r) \in {"null", "results"},
         NEW out, out = ParseFold(h, p.f, xs), NEW g, g = MpcFree(out.heap, r)
  PROVE  /\ Gives(h, g, Q, Target(out.value)) /\ Kind(g, out.value) \in Yields(p)
         /\ Keeps(out.heap, g, Target(out.value))
<1> DEFINE R == Q \cup Target(r)
<1>1. Gives(h, out.heap, R, Target(out.value)) /\ Kind(out.heap, out.value) \in Yields(p)
  <2>1. Handed(h, R, xs)
    BY DEF Handed
  <2> HIDE DEF R
  <2>2. Yielded(h, out, R, Yields(p))
    BY <2>1, ParseFoldGives
  <2> QED BY <2>2 DEF Yielded
<1>2. Gives(h, g, Q, Target(out.value)) /\ Keeps(out.heap, g, Target(out.value))
  BY <1>1, RoomFreed
<1> QED BY <1>1, <1>2 DEF Keeps, Target, Kind

LEMMA ManyEndsHeaped ==
  ASSUME FoldsKeep, Control, Heaped, ManyEnds
  PROVE  Heaped' /\ Undisturbed /\ Merges /\ \E h : Keeps(heap, h, FrameHeld(Top)) /\ Folds(h, Top.results)
<1>1. /\ ctl = "return" /\ ok = FALSE /\ stack # << >> /\ Top.p.type \in {"MANY", "MANY1"}
      /\ ctl' = "return" /\ ok' = TRUE /\ stack' = Front(stack) /\ root' = root /\ limited' = limited
      /\ (Top.p.type = "MANY" \/ Top.results # << >>)
  BY DEF ManyEnds, Returned, Leave, Return, setting, history
<1>2. PICK m, f, g : /\ m = ErrMerge(heap, error, result) /\ f = ParseFold(m.heap, Top.p.f, Top.results)
                     /\ g = MpcFree(f.heap, Top.room) /\ heap' = g /\ error' = m.value /\ result' = f.value
  BY DEF ManyEnds, Leave, Return
<1>3. PICK G : Waiting(G)
  BY <1>1, TopHolds
<1>4. /\ Gives(heap, m.heap, Rest(G), FrameHeld(Top) \cup Target(m.value))
      /\ FrameHeld(Top) \cap Target(m.value) = {} /\ Kind(m.heap, m.value) \in {"null", "err"}
      /\ Keeps(heap, m.heap, FrameHeld(Top)) /\ Fitting(m.heap, Top)
  BY <1>1, <1>2, <1>3, MergedTop
<1>5. FrameApart(Top) /\ FrameOK(Top, text) /\ Top.p \in AllParsers
  BY <1>1, TopHolds, OnTop DEF FrameOK
<1> DEFINE Q == Rest(G) \cup Target(m.value)
<1>6. /\ Sound(m.heap, (Q \cup Target(Top.room)) \cup Values(Top.results))
      /\ (Q \cup Target(Top.room)) \cap Values(Top.results) = {} /\ Q \cap Target(Top.room) = {}
      /\ Rest(G) \cap Target(m.value) = {}
  <2>1. Rest(G) \cup (FrameHeld(Top) \cup Target(m.value)) = (Q \cup Target(Top.room)) \cup Values(Top.results)
    BY DEF FrameHeld
  <2>2. Target(Top.room) \cap Values(Top.results) = {}
    BY <1>5 DEF FrameApart, Target
  <2>3. Rest(G) \cap (FrameHeld(Top) \cup Target(m.value)) = {}
    BY <1>4 DEF Gives
  <2> QED BY <1>4, <2>1, <2>2, <2>3 DEF Gives, FrameHeld
<1>7. Served(m.heap, Top.p, Top.results)
  BY <1>1, <1>4 DEF Served, Fitting
<1>8. /\ Gives(m.heap, g, Q, Target(f.value)) /\ Kind(g, f.value) \in Yields(Top.p)
      /\ Keeps(f.heap, g, Target(f.value))
  <2>1. IsSeq(Top.results) /\ Distinct(Top.results) /\ Kind(m.heap, Top.room) \in {"null", "results"}
    BY <1>4, <1>5 DEF FrameOK, FrameApart, Fitting
  <2> HIDE DEF Q
  <2> QED BY <1>1, <1>2, <1>5, <1>6, <1>7, <2>1, FoldedGives
<1>9. /\ Gives(m.heap, g, Rest(G), Target(m.value) \cup Target(f.value))
      /\ Target(m.value) \cap Target(f.value) = {} /\ Keeps(m.heap, g, Target(m.value))
  <2>1. Gives(m.heap, g, Rest(G) \cup Target(m.value), Target(f.value)) /\ Rest(G) \cap Target(m.value) = {}
    BY <1>6, <1>8
  <2> HIDE DEF Q
  <2> QED BY <2>1, GivesOn
<1>10. Kind(g, m.value) \in {"null", "err"}
  BY <1>4, <1>9 DEF Keeps, Target, Kind
<1>11. Gives(heap, g, Rest(G), (Target(m.value) \cup Target(f.value)) \cup {})
  <2>1. (Target(m.value) \cup Target(f.value)) \cup {} = Target(m.value) \cup Target(f.value)
    OBVIOUS
  <2>2. Keeps(heap, m.heap, Rest(G))
    BY <1>4 DEF Gives
  <2>3. Keeps(heap, g, Rest(G))
    BY <1>9, <2>2, KeepsOn DEF Gives
  <2> QED BY <1>9, <2>1, <2>3 DEF Gives
<1>12. Heaped' /\ Undisturbed
  BY <1>1, <1>2, <1>3, <1>8, <1>9, <1>10, <1>11, LeaveHeaped
<1>13. Merges
  <2>1. error # Null => Says(m, Merged(heap, error, result))
    BY <1>1, <1>2, <1>3, MergedTop
  <2>2. m.value # Null => heap'.blocks[error'].data = m.heap.blocks[m.value].data
    BY <1>2, <1>9 DEF Keeps, Target
  <2> QED BY <1>2, <2>1, <2>2 DEF Says, Merges
<1>14. Folds(m.heap, Top.results)
  <2>1. Handed(m.heap, Q \cup Target(Top.room), Top.results)
    BY <1>5, <1>6 DEF Handed, FrameOK, FrameApart
  <2> HIDE DEF Q
  <2> QED BY <1>2, <1>7, <1>8, <2>1 DEF Folds
<1> QED BY <1>4, <1>12, <1>13, <1>14

LEMMA Many1FailsHeaped ==
  ASSUME Control, Heaped, Many1Fails
  PROVE  Heaped' /\ Undisturbed /\ Stays /\ (result # Null => Answers(Repeated(heap.blocks[result].data)))
<1>1. /\ ctl = "return" /\ ok = FALSE /\ stack # << >> /\ Top.p.type = "MANY1" /\ Top.results = << >>
      /\ ctl' = "return" /\ ok' = FALSE /\ stack' = Front(stack) /\ root' = root /\ limited' = limited
      /\ error' = error /\ result' = result /\ suppress' = suppress /\ heap' = ErrMany1(heap, result)
  BY DEF Many1Fails, Returned, Leave, Return, setting, history
<1>2. PICK g : g = heap'
  OBVIOUS
<1>3. PICK G : Waiting(G)
  BY <1>1, TopHolds
<1>4. /\ Fitting(heap, Top) /\ Target(error) \cap Target(result) = {} /\ Kind(heap, error) \in {"null", "err"}
      /\ Kind(heap, result) \in {"null", "err"} /\ (suppress > 0 => result = Null)
  BY <1>1, TopHolds
<1>5. FrameHeld(Top) = {}
  BY <1>1, <1>4, EmptyFrame
<1> DEFINE R == Rest(G) \cup Target(error)
<1>6. Sound(heap, R \cup Target(result)) /\ R \cap Target(result) = {} /\ Rest(G) \cap Target(error) = {}
  <2>1. Sound(heap, Rest(G) \cup Loose) /\ Rest(G) \cap Loose = {}
    BY <1>3, WaitingFacts
  <2>2. Rest(G) \cup Loose = R \cup Target(result)
    BY <1>5 DEF Loose
  <2> QED BY <1>4, <2>1, <2>2 DEF Loose
<1>7. Sound(g, R \cup Target(result)) /\ Keeps(heap, g, R) /\ Kind(g, result) = Kind(heap, result)
      /\ (result # Null => g.blocks[result].data = Repeated(heap.blocks[result].data))
  <2> HIDE DEF R
  <2>1. g = ErrMany1(heap, result) /\ R \ Target(result) = R
    BY <1>1, <1>2, <1>6
  <2>2. Sound(g, R \cup Target(result)) /\ Keeps(heap, g, R \ Target(result)) /\ Kind(g, result) = Kind(heap, result)
        /\ (result # Null => g.blocks[result].data = Repeated(heap.blocks[result].data))
    BY <1>6, <2>1, ErrMany1Gives
  <2> QED BY <2>1, <2>2
<1>8. Gives(heap, g, Rest(G), (Target(error) \cup Target(result)) \cup {})
  <2>1. R \cup Target(result) = Rest(G) \cup ((Target(error) \cup Target(result)) \cup {})
    OBVIOUS
  <2>2. Keeps(heap, g, Rest(G))
    BY <1>7 DEF Keeps
  <2> QED BY <1>6, <1>7, <2>1, <2>2 DEF Gives
<1>9. Kind(g, error) = Kind(heap, error) /\ Kind(g, result) = Kind(heap, result)
  BY <1>7 DEF Keeps, Target, Kind
<1>10. Heaped' /\ Undisturbed
  BY <1>1, <1>2, <1>3, <1>4, <1>8, <1>9, LeaveHeaped
<1>11. Stays
  BY <1>1, <1>2, <1>7 DEF Keeps, Target, Stays
<1>12. result # Null => Answers(Repeated(heap.blocks[result].data))
  BY <1>1, <1>2, <1>7 DEF Answers
<1> QED BY <1>10, <1>11, <1>12

(***************************************************************************)
(* OR.  Nothing is kept but the room, which goes when it returns.          *)
(***************************************************************************)
LEMMA OrHolds ==
  ASSUME NEW h, NEW f, Fitting(h, f), f.p.type = "OR"
  PROVE  FrameHeld(f) = Target(f.room) /\ f.results = << >>
<1>1. f.results = << >> /\ Values(<< >>) = {}
  BY DEF Fitting, Values
<1> QED BY <1>1 DEF FrameHeld

LEMMA OrTakesHeaped ==
  ASSUME Control, Heaped, OrTakes
  PROVE  Heaped' /\ Undisturbed /\ Stays /\ Keeps(heap, heap', Target(result))
<1>1. /\ ctl = "return" /\ ok = TRUE /\ stack # << >> /\ Top.p.type = "OR"
      /\ ctl' = "return" /\ ok' = TRUE /\ stack' = Front(stack) /\ root' = root /\ limited' = limited
      /\ error' = error /\ result' = result /\ heap' = MpcFree(heap, Top.room)
  BY DEF OrTakes, Returned, Leave, Return, setting, history
<1>2. PICK g : g = heap'
  OBVIOUS
<1>3. PICK G : Waiting(G)
  BY <1>1, TopHolds
<1>4. /\ Fitting(heap, Top) /\ Target(error) \cap Target(result) = {} /\ Kind(heap, error) \in {"null", "err"}
      /\ Kind(heap, result) \in Yields(Child(Top))
      /\ FrameHeld(Top) \cap (Target(error) \cup Target(result)) = {}
  BY <1>1, TopHolds
<1>5. FrameHeld(Top) = Target(Top.room)
  BY <1>1, <1>4, OrHolds
<1> DEFINE T == Target(error) \cup Target(result)
<1>6. Gives(heap, heap, Rest(G) \cup Target(Top.room), T) /\ Rest(G) \cap Target(Top.room) = {}
  <2>1. Sound(heap, Rest(G) \cup Loose) /\ Rest(G) \cap Loose = {}
    BY <1>3, WaitingFacts
  <2>2. Rest(G) \cup Loose = (Rest(G) \cup Target(Top.room)) \cup T
    BY <1>5 DEF Loose
  <2>3. (Rest(G) \cup Target(Top.room)) \cap T = {}
    BY <1>4, <1>5, <2>1 DEF Loose
  <2> HIDE DEF T
  <2>4. Gives(heap, heap, Rest(G) \cup Target(Top.room), T)
    BY <2>1, <2>2, <2>3, StayGives
  <2> QED BY <1>5, <2>1, <2>4 DEF Loose
<1>7. Gives(heap, g, Rest(G), T) /\ Keeps(heap, g, T)
  <2>1. PICK Q, r : Q = Rest(G) /\ r = Top.room
    OBVIOUS
  <2>2. Gives(heap, heap, Q \cup Target(r), T) /\ Q \cap Target(r) = {} /\ g = MpcFree(heap, r)
    BY <1>1, <1>2, <1>6, <2>1
  <2>3. Kind(heap, r) \in {"null", "results"}
    BY <1>4, <2>1 DEF Fitting
  <2> HIDE DEF T
  <2>4. Gives(heap, g, Q, T) /\ Keeps(heap, g, T)
    BY <2>2, <2>3, RoomFreed
  <2> QED BY <2>1, <2>4
<1>8. Kind(g, error) = Kind(heap, error) /\ Kind(g, result) = Kind(heap, result)
  BY <1>7 DEF Keeps, Target, Kind
<1>9. Kind(g, result) \in Yields(Top.p)
  <2>1. Top.p \in AllParsers /\ Child(Top) = Top.p.xs[Top.j] /\ Top.j \in 1 .. Len(Top.p.xs) /\ Closed(Top.p)
    BY <1>1, OnTop DEF FrameOK, Child, ListTypes
  <2>2. Top.j \in DOMAIN Top.p.xs
    BY <1>1, <2>1 DEF Closed, ListTypes
  <2>3. Yields(Top.p.xs[Top.j]) \subseteq Yields(Top.p)
    BY <1>1, <2>1, <2>2, FitAssumption DEF Fits
  <2> QED BY <1>4, <1>8, <2>1, <2>3
<1>10. Gives(heap, g, Rest(G), T \cup {})
  <2>1. T \cup {} = T
    OBVIOUS
  <2> HIDE DEF T
  <2> QED BY <1>7, <2>1
<1>11. Heaped' /\ Undisturbed
  BY <1>1, <1>2, <1>3, <1>4, <1>8, <1>9, <1>10, LeaveHeaped
<1>12. Stays
  BY <1>1, <1>2, <1>7 DEF Keeps, Target, Stays
<1>13. Keeps(heap, heap', Target(result))
  BY <1>2, <1>7 DEF Keeps
<1> QED BY <1>11, <1>12, <1>13

LEMMA OrFailsHeaped ==
  ASSUME Control, Heaped, OrFails
  PROVE  Heaped' /\ Undisturbed /\ Merges
<1>1. /\ ctl = "return" /\ ok = FALSE /\ stack # << >> /\ Top.p.type = "OR"
      /\ ctl' = "return" /\ ok' = FALSE /\ stack' = Front(stack) /\ root' = root /\ limited' = limited
      /\ result' = Null
  BY DEF OrFails, Returned, Leave, Return, setting, history
<1>2. PICK m, g : m = ErrMerge(heap, error, result) /\ g = MpcFree(m.heap, Top.room) /\ heap' = g /\ error' = m.value
  BY DEF OrFails, Leave, Return
<1>3. PICK G : Waiting(G)
  BY <1>1, TopHolds
<1>4. /\ Gives(heap, m.heap, Rest(G), FrameHeld(Top) \cup Target(m.value))
      /\ FrameHeld(Top) \cap Target(m.value) = {} /\ Kind(m.heap, m.value) \in {"null", "err"}
      /\ Keeps(heap, m.heap, FrameHeld(Top)) /\ Fitting(m.heap, Top)
  BY <1>1, <1>2, <1>3, MergedTop
<1>5. FrameHeld(Top) = Target(Top.room) /\ Kind(m.heap, Top.room) \in {"null", "results"}
  BY <1>1, <1>4, OrHolds DEF Fitting
<1>6. PICK Q, r, T : Q = Rest(G) /\ r = Top.room /\ T = Target(m.value)
  OBVIOUS
<1>7. Gives(m.heap, m.heap, Q \cup Target(r), T) /\ Q \cap Target(r) = {}
  <2>1. Sound(m.heap, Q \cup (Target(r) \cup T)) /\ Q \cap (Target(r) \cup T) = {} /\ Target(r) \cap T = {}
    BY <1>4, <1>5, <1>6 DEF Gives
  <2>2. Q \cup (Target(r) \cup T) = (Q \cup Target(r)) \cup T /\ (Q \cup Target(r)) \cap T = {}
    BY <2>1
  <2> QED BY <2>1, <2>2, StayGives
<1>8. Gives(m.heap, g, Q, T) /\ Keeps(m.heap, g, T)
  BY <1>2, <1>5, <1>6, <1>7, RoomFreed
<1>9. Gives(heap, g, Q, T)
  <2>1. Keeps(heap, m.heap, Q) /\ Keeps(m.heap, g, Q)
    BY <1>4, <1>6, <1>8 DEF Gives
  <2>2. Keeps(heap, g, Q)
    BY <2>1, KeepsOn
  <2> QED BY <1>8, <2>2 DEF Gives
<1>10. Kind(g, m.value) \in {"null", "err"}
  BY <1>4, <1>6, <1>8 DEF Keeps, Target, Kind
<1>11. PICK e, v : e = m.value /\ v = Null
  OBVIOUS
<1>12. Target(v) = {} /\ Kind(g, v) = "null" /\ (T \cup Target(v)) \cup {} = T
  BY <1>11 DEF Target, Kind
<1>13. g = heap' /\ e = error' /\ v = result'
  BY <1>1, <1>2, <1>11
<1>14. /\ Gives(heap, g, Rest(G), (Target(e) \cup Target(v)) \cup {})
       /\ Target(e) \cap Target(v) = {} /\ Kind(g, e) \in {"null", "err"}
  BY <1>6, <1>9, <1>10, <1>11, <1>12
<1>15. Heaped' /\ Undisturbed
  BY <1>1, <1>3, <1>11, <1>12, <1>13, <1>14, LeaveHeaped
<1>16. Merges
  <2>1. error # Null => Says(m, Merged(heap, error, result))
    BY <1>1, <1>2, <1>3, MergedTop
  <2>2. m.value # Null => heap'.blocks[error'].data = m.heap.blocks[m.value].data
    BY <1>2, <1>6, <1>8 DEF Keeps, Target
  <2> QED BY <1>2, <2>1, <2>2 DEF Says, Merges
<1> QED BY <1>15, <1>16

LEMMA OrTriesNextHeaped ==
  ASSUME Control, Heaped, OrTriesNext
  PROVE  Heaped' /\ Undisturbed /\ Merges
<1>1. PICK f : f = [Top EXCEPT !.j = @ + 1]
  OBVIOUS
<1>2. /\ ctl = "return" /\ ok = FALSE /\ stack # << >> /\ Top.p.type = "OR"
      /\ ctl' = "call" /\ stack' = [stack EXCEPT ![Len(stack)] = f] /\ limited' = limited
  BY <1>1 DEF OrTriesNext, Returned, Run, history
<1>3. PICK m : m = ErrMerge(heap, error, result) /\ heap' = m.heap /\ error' = m.value
  BY DEF OrTriesNext
<1>4. f.p = Top.p /\ f.results = Top.results /\ f.room = Top.room
  <2>1. PICK g : g = Top
    OBVIOUS
  <2>2. g = [p |-> g.p, j |-> g.j, results |-> g.results, room |-> g.room, entry |-> g.entry]
    BY <1>2, <2>1, OnTop DEF FrameOK
  <2>3. f = [g EXCEPT !.j = @ + 1]
    BY <1>1, <2>1
  <2> QED BY <2>1, <2>2, <2>3
<1>5. PICK G : Waiting(G)
  BY <1>2, TopHolds
<1>6. /\ Gives(heap, m.heap, Rest(G), FrameHeld(Top) \cup Target(m.value))
      /\ FrameHeld(Top) \cap Target(m.value) = {} /\ Kind(m.heap, m.value) \in {"null", "err"}
      /\ Fitting(m.heap, Top)
  BY <1>2, <1>3, <1>5, MergedTop
<1>7. FrameApart(Top)
  BY <1>2, TopHolds
<1>8. FrameHeld(f) = FrameHeld(Top) /\ FrameApart(f) /\ Fitting(m.heap, f)
  BY <1>4, <1>6, <1>7 DEF FrameHeld, FrameApart, Fitting
<1>9. Gives(heap, m.heap, Rest(G), Target(m.value) \cup FrameHeld(f)) /\ Target(m.value) \cap FrameHeld(f) = {}
  <2>1. FrameHeld(Top) \cup Target(m.value) = Target(m.value) \cup FrameHeld(f)
    BY <1>8
  <2> QED BY <1>6, <1>8, <2>1
<1>10. PICK h, e : h = m.heap /\ e = m.value
  OBVIOUS
<1>11. h = heap' /\ e = error'
  BY <1>3, <1>10
<1>12. /\ Gives(heap, h, Rest(G), Target(e) \cup FrameHeld(f)) /\ Target(e) \cap FrameHeld(f) = {}
       /\ Fitting(h, f) /\ Kind(h, e) \in {"null", "err"}
  BY <1>6, <1>8, <1>9, <1>10
<1>13. Heaped' /\ Undisturbed
  BY <1>2, <1>5, <1>8, <1>11, <1>12, RunHeaped
<1>14. Merges
  <2>1. error # Null => Says(m, Merged(heap, error, result))
    BY <1>2, <1>3, <1>5, MergedTop
  <2>2. m.value # Null => heap'.blocks[error'].data = m.heap.blocks[m.value].data
    BY <1>3 DEF Keeps, Target
  <2> QED BY <1>3, <2>1, <2>2 DEF Says, Merges
<1> QED BY <1>13, <1>14

(***************************************************************************)
(* Results are added to what an activation holds.                          *)
(***************************************************************************)
LEMMA AppendHolds ==
  ASSUME NEW xs, IsSeq(xs), Distinct(xs), NEW x, Target(x) \cap Values(xs) = {},
         NEW ys, ys = Append(xs, x)
  PROVE  Values(ys) = Values(xs) \cup Target(x) /\ Distinct(ys)
<1>1. Len(xs) \in Nat /\ Len(ys) = Len(xs) + 1 /\ (\A k \in 1 .. Len(xs) : ys[k] = xs[k]) /\ ys[Len(ys)] = x
  BY AppendFacts, LenFacts
<1>2. PICK n : n = Len(xs)
  OBVIOUS
<1>3. 1 .. Len(ys) = (1 .. n) \cup {n + 1} /\ n \in Nat /\ n + 1 \notin 1 .. n /\ ys[n + 1] = x
      /\ \A k \in 1 .. n : ys[k] = xs[k]
  BY <1>1, <1>2
<1>4. {ys[k] : k \in 1 .. Len(ys)} = {xs[k] : k \in 1 .. n} \cup {x}
  BY <1>3
<1>5. Values(ys) = Values(xs) \cup Target(x)
  BY <1>2, <1>4 DEF Values, Target
<1>6. ASSUME NEW j \in 1 .. Len(ys), NEW k \in 1 .. Len(ys), ys[j] = ys[k], ys[j] # Null
      PROVE  j = k
  <2>1. CASE j \in 1 .. n /\ k \in 1 .. n
    BY <1>2, <1>3, <1>6, <2>1 DEF Distinct
  <2>2. ASSUME NEW i \in 1 .. n, ys[i] = x, x # Null
        PROVE  FALSE
    BY <1>2, <1>3, <2>2 DEF Values, Target
  <2> QED BY <1>3, <1>6, <2>1, <2>2
<1> QED BY <1>5, <1>6 DEF Distinct

LEMMA Grown ==
  ASSUME NEW h, NEW t, NEW from, FrameOK(t, from), t.p.type \in {"AND", "MANY", "MANY1"},
         FrameApart(t), Fitting(h, t), NEW x, Kind(h, x) \in Yields(Child(t)), Target(x) \cap FrameHeld(t) = {},
         NEW f, f.p = t.p, f.results = Append(t.results, x),
         f.room # Null => f.room \notin Values(t.results) \cup Target(x),
         Kind(h, f.room) \in {"null", "results"},
         t.p.type # "AND" /\ Len(t.results) + 1 < MPC_PARSE_STACK_MIN => f.room = Null
  PROVE  FrameApart(f) /\ Fitting(h, f) /\ FrameHeld(f) = Target(f.room) \cup (Values(t.results) \cup Target(x))
<1>1. PICK xs, ys, n : xs = t.results /\ ys = f.results /\ n = Len(xs)
  OBVIOUS
<1>2. IsSeq(xs) /\ Distinct(xs) /\ ys = Append(xs, x) /\ Target(x) \cap Values(xs) = {}
  BY <1>1 DEF FrameOK, FrameApart, FrameHeld
<1>3. Values(ys) = Values(xs) \cup Target(x) /\ Distinct(ys)
  BY <1>2, AppendHolds
<1>4. n \in Nat /\ Len(ys) = n + 1 /\ (\A k \in 1 .. n : ys[k] = xs[k]) /\ ys[n + 1] = x
  BY <1>1, <1>2, AppendFacts, LenFacts
<1>5. \A k \in 1 .. n + 1 : k \in 1 .. n \/ k = n + 1
  BY <1>4
<1>6. Kind(h, x) \in Yields(Part(t.p, n + 1))
  <2>1. CASE t.p.type = "AND"
    <3>1. Len(t.results) = t.j - 1 /\ t.j \in Nat
      BY <2>1 DEF FrameOK
    <3>2. n + 1 = t.j
      BY <1>1, <1>4, <3>1
    <3>3. Part(t.p, t.j) = Child(t)
      BY <2>1 DEF Part, Child, ListTypes
    <3> QED BY <3>2, <3>3
  <2>2. CASE t.p.type # "AND"
    <3>1. Part(t.p, n + 1) = Child(t)
      BY <2>2 DEF Part, Child, ListTypes
    <3> QED BY <3>1
  <2> QED BY <2>1, <2>2
<1>7. \A k \in 1 .. n : Kind(h, xs[k]) \in Yields(Part(t.p, k))
  BY <1>1 DEF Fitting
<1>8. \A k \in 1 .. Len(ys) : Kind(h, ys[k]) \in Yields(Part(f.p, k))
  <2> SUFFICES ASSUME NEW k \in 1 .. n + 1 PROVE Kind(h, ys[k]) \in Yields(Part(t.p, k))
    BY <1>4
  <2>1. CASE k \in 1 .. n
    BY <1>4, <1>7, <2>1
  <2>2. CASE k = n + 1
    BY <1>4, <1>6, <2>2
  <2> QED BY <1>5, <2>1, <2>2
<1>9. Fitting(h, f)
  BY <1>1, <1>4, <1>8 DEF Fitting
<1>10. FrameApart(f) /\ FrameHeld(f) = Target(f.room) \cup (Values(xs) \cup Target(x))
  BY <1>1, <1>3 DEF FrameApart, FrameHeld
<1> QED BY <1>1, <1>9, <1>10

LEMMA AndGoesOnHeaped ==
  ASSUME Control, Heaped, AndGoesOn
  PROVE  Heaped' /\ Undisturbed /\ Stays
<1>1. PICK f : f = [Top EXCEPT !.j = @ + 1, !.results = Append(@, result)]
  OBVIOUS
<1>2. /\ ctl = "return" /\ ok = TRUE /\ stack # << >> /\ Top.p.type = "AND"
      /\ ctl' = "call" /\ stack' = [stack EXCEPT ![Len(stack)] = f] /\ limited' = limited
      /\ heap' = heap /\ error' = error
  BY <1>1 DEF AndGoesOn, Returned, Run, history
<1>3. f.p = Top.p /\ f.results = Append(Top.results, result) /\ f.room = Top.room
  <2>1. PICK g : g = Top
    OBVIOUS
  <2>2. g = [p |-> g.p, j |-> g.j, results |-> g.results, room |-> g.room, entry |-> g.entry]
    BY <1>2, <2>1, OnTop DEF FrameOK
  <2>3. f = [g EXCEPT !.j = @ + 1, !.results = Append(@, result)]
    BY <1>1, <2>1
  <2> QED BY <2>1, <2>2, <2>3
<1>4. PICK G : Waiting(G)
  BY <1>2, TopHolds
<1>5. /\ FrameApart(Top) /\ Fitting(heap, Top) /\ FrameOK(Top, text)
      /\ Target(error) \cap Target(result) = {} /\ FrameHeld(Top) \cap (Target(error) \cup Target(result)) = {}
      /\ Kind(heap, error) \in {"null", "err"} /\ Kind(heap, result) \in Yields(Child(Top))
  BY <1>2, TopHolds, OnTop
<1>6. FrameApart(f) /\ Fitting(heap, f) /\ FrameHeld(f) = Target(Top.room) \cup (Values(Top.results) \cup Target(result))
  <2>1. Target(result) \cap FrameHeld(Top) = {} /\ Kind(heap, Top.room) \in {"null", "results"}
    BY <1>5 DEF Fitting
  <2>2. Top.room # Null => Top.room \notin Values(Top.results) \cup Target(result)
    BY <1>5, <2>1 DEF FrameApart, FrameHeld, Target
  <2> QED BY <1>2, <1>3, <1>5, <2>1, <2>2, Grown
<1>7. Gives(heap, heap, Rest(G), Target(error) \cup FrameHeld(f)) /\ Target(error) \cap FrameHeld(f) = {}
  <2>1. Loose = Target(error) \cup FrameHeld(f) /\ Target(error) \cap FrameHeld(f) = {}
    BY <1>5, <1>6 DEF Loose, FrameHeld
  <2> QED BY <1>4, <2>1, WaitingFacts, StayGives
<1>8. Heaped' /\ Undisturbed
  BY <1>2, <1>4, <1>5, <1>6, <1>7, RunHeaped
<1>9. Stays
  BY <1>2 DEF Stays
<1> QED BY <1>8, <1>9

LEMMA ManyGoesOnHeaped ==
  ASSUME Control, Heaped, ManyGoesOn
  PROVE  Heaped' /\ Undisturbed /\ Stays /\ Keeps(heap, heap', FrameHeld(Top) \cup Target(result))
<1>1. PICK n : n = Len(Top.results) + 1
  OBVIOUS
<1>2. PICK room : room = IF n = MPC_PARSE_STACK_MIN THEN MpcMalloc(heap, Block("results", 0, << >>))
                         ELSE Result(heap, Top.room)
  OBVIOUS
<1>3. PICK f : f = [Top EXCEPT !.results = Append(Top.results, result), !.room = room.value]
  OBVIOUS
<1>4. ctl = "return" /\ ok = TRUE /\ stack # << >> /\ Top.p.type \in {"MANY", "MANY1"}
  BY DEF ManyGoesOn, Returned
<1>5. /\ FrameApart(Top) /\ Fitting(heap, Top) /\ FrameOK(Top, text)
      /\ Target(error) \cap Target(result) = {} /\ FrameHeld(Top) \cap (Target(error) \cup Target(result)) = {}
      /\ Kind(heap, error) \in {"null", "err"} /\ Kind(heap, result) \in Yields(Child(Top))
  BY <1>4, TopHolds, OnTop
<1>6. Len(Append(Top.results, result)) = n /\ Len(Top.results) \in Nat
  BY <1>1, <1>5, AppendFacts, LenFacts DEF FrameOK
<1>7. /\ ctl' = "call" /\ stack' = [stack EXCEPT ![Len(stack)] = f] /\ limited' = limited
      /\ heap' = room.heap /\ error' = error
  BY <1>2, <1>3, <1>6 DEF ManyGoesOn, Run, history
<1>8. f.p = Top.p /\ f.results = Append(Top.results, result) /\ f.room = room.value
  <2>1. PICK g, ys : g = Top /\ ys = Append(Top.results, result)
    OBVIOUS
  <2>2. g = [p |-> g.p, j |-> g.j, results |-> g.results, room |-> g.room, entry |-> g.entry]
    BY <1>5, <2>1 DEF FrameOK
  <2>3. f = [g EXCEPT !.results = ys, !.room = room.value]
    BY <1>3, <2>1
  <2> QED BY <2>1, <2>2, <2>3
<1>9. PICK G : Waiting(G)
  BY <1>4, TopHolds
<1>10. PICK h, v, e, x, Q : h = room.heap /\ v = room.value /\ e = error /\ x = result /\ Q = Rest(G)
  OBVIOUS
<1> DEFINE S == Values(Top.results) \cup Target(x)
<1>11. Sound(heap, Q \cup Loose) /\ Q \cap Loose = {} /\ Loose = (Target(e) \cup Target(Top.room)) \cup S
  BY <1>9, <1>10, WaitingFacts DEF Loose, FrameHeld
<1>12. /\ Gives(heap, h, Q, Target(e) \cup (Target(v) \cup S)) /\ Keeps(heap, h, FrameHeld(Top) \cup S \cup Target(e))
       /\ Target(v) \cap (S \cup Target(e)) = {} /\ Kind(h, v) \in {"null", "results"}
       /\ (n < MPC_PARSE_STACK_MIN => v = Null)
  <2>1. CASE n = MPC_PARSE_STACK_MIN
    <3>1. Top.room = Null /\ Target(Null) = {}
      BY <1>1, <1>4, <1>5, <1>6, <2>1, EngineAssumption DEF Fitting, Target
    <3>2. PICK R : R = Q \cup Loose
      OBVIOUS
    <3>3. Gives(heap, h, R, Target(v)) /\ Kind(h, v) = "results"
      <4>1. room = MpcMalloc(heap, Block("results", 0, << >>)) /\ "results" \in EngineKinds
        BY <1>2, <2>1 DEF EngineKinds
      <4> QED BY <1>10, <1>11, <3>2, <4>1, MallocGives
    <3>4. Loose = Target(e) \cup S /\ FrameHeld(Top) \subseteq S
      BY <1>11, <3>1 DEF FrameHeld
    <3>5. R \cup Target(v) = Q \cup (Target(e) \cup (Target(v) \cup S))
      BY <3>2, <3>4
    <3>6. Sound(h, Q \cup (Target(e) \cup (Target(v) \cup S))) /\ R \cap Target(v) = {} /\ Keeps(heap, h, R)
      BY <3>3, <3>5 DEF Gives
    <3>7. Keeps(heap, h, Q) /\ Keeps(heap, h, FrameHeld(Top) \cup S \cup Target(e))
      BY <3>2, <3>4, <3>6 DEF Keeps
    <3>8. Q \cap (Target(e) \cup (Target(v) \cup S)) = {} /\ Target(v) \cap (S \cup Target(e)) = {}
      BY <1>11, <3>2, <3>4, <3>6
    <3> QED BY <2>1, <3>3, <3>6, <3>7, <3>8, EngineAssumption DEF Gives
  <2>2. CASE n # MPC_PARSE_STACK_MIN
    <3>1. h = heap /\ v = Top.room
      BY <1>2, <1>10, <2>2 DEF Result
    <3>2. Target(e) \cup (Target(v) \cup S) = Loose
      BY <1>11, <3>1
    <3>3. Gives(heap, h, Q, Target(e) \cup (Target(v) \cup S))
      BY <1>11, <3>1, <3>2, StayGives
    <3>4. Keeps(heap, h, FrameHeld(Top) \cup S \cup Target(e))
      <4>1. FrameHeld(Top) \cup S \cup Target(e) \subseteq Loose
        BY <1>10 DEF Loose, FrameHeld
      <4>2. Sound(heap, FrameHeld(Top) \cup S \cup Target(e) \cup (Q \cup Loose))
        <5>1. FrameHeld(Top) \cup S \cup Target(e) \cup (Q \cup Loose) = Q \cup Loose
          BY <4>1
        <5> QED BY <1>11, <5>1
      <4> QED BY <3>1, <4>2 DEF Sound, Keeps
    <3>5. Target(v) \cap (S \cup Target(e)) = {}
      BY <1>5, <1>10, <3>1 DEF FrameApart, FrameHeld, Target
    <3>6. Kind(h, v) \in {"null", "results"} /\ (n < MPC_PARSE_STACK_MIN => v = Null)
      BY <1>1, <1>4, <1>5, <1>6, <3>1, EngineAssumption DEF Fitting
    <3> QED BY <3>3, <3>4, <3>5, <3>6
  <2> QED BY <2>1, <2>2
<1>13. Fitting(h, Top) /\ Kind(h, x) \in Yields(Child(Top)) /\ Kind(h, e) \in {"null", "err"}
  <2>1. Keeps(heap, h, FrameHeld(Top)) /\ Keeps(heap, h, Target(x)) /\ Keeps(heap, h, Target(e))
    BY <1>12 DEF Keeps
  <2>2. Kind(h, x) = Kind(heap, x) /\ Kind(h, e) = Kind(heap, e)
    BY <2>1 DEF Keeps, Target, Kind
  <2> QED BY <1>5, <1>10, <2>1, <2>2, FitsOn
<1>14. FrameApart(f) /\ Fitting(h, f) /\ FrameHeld(f) = Target(v) \cup S
  <2>1. v # Null => v \notin S
    BY <1>12 DEF Target
  <2>2. Target(x) \cap FrameHeld(Top) = {}
    BY <1>5, <1>10
  <2>3. f.results = Append(Top.results, x) /\ f.room = v
    BY <1>8, <1>10
  <2> QED BY <1>1, <1>4, <1>5, <1>8, <1>12, <1>13, <2>1, <2>2, <2>3, Grown
<1>15. Gives(heap, h, Rest(G), Target(e) \cup FrameHeld(f)) /\ Target(e) \cap FrameHeld(f) = {}
  <2>1. Target(e) \cap S = {}
    BY <1>5, <1>10 DEF FrameHeld
  <2> QED BY <1>10, <1>12, <1>14, <2>1
<1>16. h = heap' /\ e = error'
  BY <1>7, <1>10
<1> HIDE DEF S
<1>17. Heaped' /\ Undisturbed
  BY <1>4, <1>7, <1>9, <1>13, <1>14, <1>15, <1>16, RunHeaped
<1>18. Stays
  BY <1>7, <1>10, <1>12 DEF Keeps, Target, Stays
<1>19. Keeps(heap, heap', FrameHeld(Top) \cup Target(result))
  BY <1>10, <1>12, <1>16 DEF Keeps, S
<1> QED BY <1>17, <1>18, <1>19

LEMMA AndSucceedsHeaped ==
  ASSUME FoldsKeep, Control, Heaped, AndSucceeds
  PROVE  Heaped' /\ Undisturbed /\ Stays /\ Folds(heap, Append(Top.results, result))
<1>1. /\ ctl = "return" /\ ok = TRUE /\ stack # << >> /\ Top.p.type = "AND" /\ Top.j = Len(Top.p.xs)
      /\ ctl' = "return" /\ ok' = TRUE /\ stack' = Front(stack) /\ root' = root /\ limited' = limited
      /\ error' = error
  BY DEF AndSucceeds, Returned, Leave, Return, setting, history
<1>2. PICK xs : xs = Append(Top.results, result)
  OBVIOUS
<1>3. PICK f, g : f = ParseFold(heap, Top.p.f, xs) /\ g = MpcFree(f.heap, Top.room) /\ heap' = g /\ result' = f.value
  BY <1>2 DEF AndSucceeds, Leave, Return
<1>4. PICK G : Waiting(G)
  BY <1>1, TopHolds
<1>5. /\ FrameApart(Top) /\ Fitting(heap, Top) /\ FrameOK(Top, text) /\ Top.p \in AllParsers
      /\ Target(error) \cap Target(result) = {} /\ FrameHeld(Top) \cap (Target(error) \cup Target(result)) = {}
      /\ Kind(heap, error) \in {"null", "err"} /\ Kind(heap, result) \in Yields(Child(Top))
  BY <1>1, TopHolds, OnTop DEF FrameOK
<1>6. PICK t : t = [Top EXCEPT !.results = xs]
  OBVIOUS
<1>7. t.p = Top.p /\ t.results = xs /\ t.room = Top.room
  <2>1. PICK s : s = Top
    OBVIOUS
  <2>2. s = [p |-> s.p, j |-> s.j, results |-> s.results, room |-> s.room, entry |-> s.entry]
    BY <1>5, <2>1 DEF FrameOK
  <2>3. t = [s EXCEPT !.results = xs]
    BY <1>6, <2>1
  <2> QED BY <2>1, <2>2, <2>3
<1>8. FrameApart(t) /\ Fitting(heap, t) /\ FrameHeld(t) = Target(Top.room) \cup (Values(Top.results) \cup Target(result))
  <2>1. Target(result) \cap FrameHeld(Top) = {} /\ Kind(heap, Top.room) \in {"null", "results"}
    BY <1>5 DEF Fitting
  <2>2. Top.room # Null => Top.room \notin Values(Top.results) \cup Target(result)
    BY <1>5, <2>1 DEF FrameApart, FrameHeld, Target
  <2> QED BY <1>1, <1>2, <1>5, <1>7, <2>1, <2>2, Grown
<1>9. IsSeq(xs) /\ Len(xs) = Len(Top.p.xs)
  <2>1. IsSeq(Top.results) /\ Len(Top.results) = Top.j - 1 /\ Top.j \in Nat
    BY <1>1, <1>5 DEF FrameOK
  <2>2. IsSeq(xs) /\ Len(xs) = Len(Top.results) + 1
    BY <1>2, <2>1, AppendFacts
  <2> QED BY <1>1, <2>1, <2>2
<1>10. /\ Distinct(xs) /\ Target(Top.room) \cap Values(xs) = {} /\ Kind(heap, Top.room) \in {"null", "results"}
       /\ FrameHeld(t) = Target(Top.room) \cup Values(xs)
  BY <1>7, <1>8 DEF FrameApart, FrameHeld, Fitting, Target
<1>11. Served(heap, Top.p, xs)
  BY <1>1, <1>7, <1>8, <1>9 DEF Served, Fitting
<1> DEFINE Q == Rest(G) \cup Target(error)
<1>12. /\ Sound(heap, (Q \cup Target(Top.room)) \cup Values(xs))
       /\ (Q \cup Target(Top.room)) \cap Values(xs) = {} /\ Q \cap Target(Top.room) = {}
       /\ Rest(G) \cap Target(error) = {}
  <2>1. Loose = Target(error) \cup FrameHeld(t)
    BY <1>8 DEF Loose, FrameHeld
  <2>2. Sound(heap, Rest(G) \cup Loose) /\ Rest(G) \cap Loose = {}
    BY <1>4, WaitingFacts
  <2>3. Rest(G) \cup Loose = (Q \cup Target(Top.room)) \cup Values(xs)
    BY <1>10, <2>1
  <2>4. Target(error) \cap FrameHeld(t) = {}
    BY <1>5, <1>8 DEF FrameHeld
  <2> QED BY <1>10, <2>1, <2>2, <2>3, <2>4
<1>13. /\ Gives(heap, g, Q, Target(f.value)) /\ Kind(g, f.value) \in Yields(Top.p)
       /\ Keeps(f.heap, g, Target(f.value))
  <2> HIDE DEF Q
  <2> QED BY <1>1, <1>3, <1>5, <1>9, <1>10, <1>11, <1>12, FoldedGives
<1>14. PICK e, v, R : e = error /\ v = f.value /\ R = Rest(G)
  OBVIOUS
<1>15. Gives(heap, g, R, Target(e) \cup Target(v)) /\ Target(e) \cap Target(v) = {} /\ Keeps(heap, g, Target(e))
  <2>1. Gives(heap, g, R \cup Target(e), Target(v)) /\ R \cap Target(e) = {}
    BY <1>12, <1>13, <1>14
  <2> QED BY <2>1, GivesOn
<1>16. Kind(g, e) \in {"null", "err"}
  BY <1>5, <1>14, <1>15 DEF Keeps, Target, Kind
<1>17. Gives(heap, g, Rest(G), (Target(e) \cup Target(v)) \cup {})
  <2>1. (Target(e) \cup Target(v)) \cup {} = Target(e) \cup Target(v)
    OBVIOUS
  <2> QED BY <1>14, <1>15, <2>1
<1>18. g = heap' /\ e = error' /\ v = result' /\ Kind(g, v) \in Yields(Top.p)
  BY <1>1, <1>3, <1>13, <1>14
<1>19. Heaped' /\ Undisturbed
  BY <1>1, <1>4, <1>15, <1>16, <1>17, <1>18, LeaveHeaped
<1>20. Stays
  BY <1>1, <1>3, <1>14, <1>15 DEF Keeps, Target, Stays
<1>21. Folds(heap, xs)
  <2>1. Handed(heap, Q \cup Target(Top.room), xs)
    BY <1>9, <1>10, <1>12 DEF Handed
  <2> HIDE DEF Q
  <2> QED BY <1>3, <1>11, <1>13, <2>1 DEF Folds
<1> QED BY <1>2, <1>19, <1>20, <1>21

(* What a destructor has spared is lost where no failure was to be: at a   *)
(* part that is not to fail, and fails at the limit of the depth.          *)
LEMMA AndFailsHeaped ==
  ASSUME DtorsKeep, Control, Heaped, AndFails
  PROVE  Heaped' /\ Undisturbed /\ Stays /\ (result # Null => Answers(heap.blocks[result].data))
<1>1. /\ ctl = "return" /\ ok = FALSE /\ stack # << >> /\ Top.p.type = "AND"
      /\ ctl' = "return" /\ ok' = FALSE /\ stack' = Front(stack) /\ root' = root /\ limited' = limited
      /\ error' = error /\ result' = result /\ suppress' = suppress
  BY DEF AndFails, Returned, Leave, Return, setting, history
<1>2. PICK xs, d, g : /\ xs = Top.results /\ d = Destroyed(heap, Top.p, xs)
                      /\ g = MpcFree(d, Top.room) /\ heap' = g
  BY DEF AndFails, Leave, Return
<1>3. PICK G : Waiting(G)
  BY <1>1, TopHolds
<1>4. /\ FrameApart(Top) /\ Fitting(heap, Top) /\ FrameOK(Top, text) /\ Top.p \in AllParsers /\ Closed(Top.p)
      /\ Target(error) \cap Target(result) = {} /\ FrameHeld(Top) \cap (Target(error) \cup Target(result)) = {}
      /\ Kind(heap, error) \in {"null", "err"} /\ Kind(heap, result) \in {"null", "err"}
      /\ (suppress > 0 => result = Null)
  BY <1>1, TopHolds, OnTop DEF FrameOK
<1>5. /\ IsSeq(xs) /\ Distinct(xs) /\ Target(Top.room) \cap Values(xs) = {} /\ Kind(heap, Top.room) \in {"null", "results"}
      /\ FrameHeld(Top) = Target(Top.room) \cup Values(xs)
  BY <1>2, <1>4 DEF FrameOK, FrameApart, FrameHeld, Fitting, Target
<1>6. Len(xs) = Top.j - 1 /\ Top.j \in 1 .. Len(Top.p.xs) /\ DOMAIN Top.p.xs = 1 .. Len(Top.p.xs) /\ Len(Top.p.xs) \in Nat
  <2>1. Top.p.xs \in Seq(AllParsers)
    BY <1>1, <1>4 DEF Closed, ListTypes
  <2> QED BY <1>1, <1>2, <1>4, <2>1 DEF FrameOK, ListTypes
<1>7. \A k \in 1 .. Len(xs) : Kind(heap, xs[k]) \in Yields(Top.p.xs[k])
  BY <1>1, <1>2, <1>4 DEF Fitting, Part, ListTypes
<1>8. PICK Q, T, r : Q = Rest(G) /\ T = Target(error) \cup Target(result) /\ r = Top.room
  OBVIOUS
<1> DEFINE R == (Q \cup T) \cup Target(r)
<1>9. /\ Sound(heap, R \cup Values(xs)) /\ R \cap Values(xs) = {}
      /\ Q \cap T = {} /\ (Q \cup T) \cap Target(r) = {}
  <2>1. Sound(heap, Q \cup Loose) /\ Q \cap Loose = {}
    BY <1>3, <1>8, WaitingFacts
  <2>2. Loose = T \cup Target(r) \cup Values(xs)
    BY <1>5, <1>8 DEF Loose
  <2>3. Q \cup Loose = R \cup Values(xs)
    BY <2>2
  <2>4. T \cap (Target(r) \cup Values(xs)) = {} /\ Target(r) \cap Values(xs) = {}
    BY <1>4, <1>5, <1>8
  <2> QED BY <2>1, <2>2, <2>3, <2>4
<1>10. PICK L : /\ Gives(heap, d, R, L) /\ \A b \in L : ~ d.blocks[b].pool
                /\ L = {} \/ \E k \in 1 .. Len(xs) : Spared(Top.p, k)
  <2>1. Handed(heap, R, xs)
    BY <1>5, <1>9 DEF Handed
  <2>2. Len(xs) <= Len(Top.p.xs) - 1
    BY <1>6
  <2> HIDE DEF R
  <2> QED BY <1>1, <1>2, <1>4, <1>7, <2>1, <2>2, DestroyedGives
<1>11. limited \/ L = {}
  <2> SUFFICES ASSUME NEW k \in 1 .. Len(xs), Spared(Top.p, k) PROVE limited
    BY <1>10
  <2>1. k \in 1 .. Len(Top.p.xs) - 1 /\ Top.j \in k + 1 .. Len(Top.p.xs)
    BY <1>6
  <2>2. AndFits(Top.p)
    BY <1>1, <1>4, FitAssumption DEF Fits
  <2>3. Top.p.xs[Top.j] \in Unfailing
    BY <2>1, <2>2 DEF AndFits, Spared
  <2>4. Child(Top) \in Unfailing
    BY <1>1, <2>3 DEF Child, ListTypes
  <2>5. Asked(stack, root) \in Unfailing
    BY <1>1, <2>4, OnTop DEF Asked
  <2> QED BY <1>1, <2>5 DEF Control, Excused, Failing
<1>12. Gives(heap, g, Q \cup T, L) /\ Keeps(d, g, L)
  <2>1. Gives(heap, d, (Q \cup T) \cup Target(r), L) /\ Kind(heap, r) \in {"null", "results"} /\ g = MpcFree(d, r)
    BY <1>2, <1>5, <1>8, <1>10
  <2>2. PICK P : P = Q \cup T
    OBVIOUS
  <2>3. Gives(heap, d, P \cup Target(r), L) /\ P \cap Target(r) = {}
    BY <1>9, <2>1, <2>2
  <2>4. Gives(heap, g, P, L) /\ Keeps(d, g, L)
    BY <2>1, <2>3, RoomFreed
  <2> QED BY <2>2, <2>4
<1>13. Gives(heap, g, Q, T \cup L) /\ T \cap L = {} /\ Keeps(heap, g, T)
  BY <1>9, <1>12, GivesOn
<1>14. PICK e, v : e = error /\ v = result
  OBVIOUS
<1>15. Kind(g, e) = Kind(heap, e) /\ Kind(g, v) = Kind(heap, v)
  BY <1>8, <1>13, <1>14 DEF Keeps, Target, Kind
<1>16. /\ Gives(heap, g, Rest(G), (Target(e) \cup Target(v)) \cup L) /\ L \cap (Target(e) \cup Target(v)) = {}
       /\ Target(e) \cap Target(v) = {}
       /\ Kind(g, e) \in {"null", "err"} /\ Kind(g, v) \in {"null", "err"} /\ (suppress' > 0 => v = Null)
       /\ g = heap' /\ e = error' /\ v = result'
  BY <1>1, <1>2, <1>4, <1>8, <1>13, <1>14, <1>15
<1>17. \A b \in L : ~ g.blocks[b].pool
  BY <1>10, <1>12 DEF Keeps
<1> HIDE DEF R
<1>18. Heaped' /\ Undisturbed
  BY <1>1, <1>3, <1>11, <1>16, <1>17, LeaveHeaped
<1>19. Stays
  BY <1>1, <1>2, <1>8, <1>13 DEF Keeps, Target, Stays
<1>20. result # Null => Answers(heap.blocks[result].data)
  BY <1>1, <1>2, <1>8, <1>13 DEF Keeps, Target, Answers
<1> QED BY <1>18, <1>19, <1>20

(***************************************************************************)
(* The end, the beginning, and all steps.                                  *)
(***************************************************************************)
LEMMA EmptyHolds ==
  ASSUME NEW h, NEW X
  PROVE  Holding(h, << >>, X) <=> Sound(h, X)
<1>1. StackHeld(<< >>) = {} /\ 1 .. Len(<< >>) = {} /\ StackHeld(<< >>) \cup X = X
  BY DEF StackHeld
<1> QED BY <1>1 DEF Holding

LEMMA FinishHeaped ==
  ASSUME Control, Heaped, Finish
  PROVE  /\ Heaped' /\ (~ ok /\ error # Null => Answers(Merged(heap, error, result)))
         /\ ok => (result' = Null <=> result = Null) /\ Same(heap, result, heap', result')
<1>1. ctl = "return" /\ stack = << >> /\ stack' = << >> /\ ctl' = "done" /\ error' = Null /\ limited' = limited
  BY DEF Finish, history
<1>2. PICK G : Holding(heap, stack, Target(error) \cup Target(result) \cup G) /\ Lost(G)
  BY <1>1 DEF Heaped, Returning
<1>3. PICK e, v : e = error /\ v = result
  OBVIOUS
<1>4. /\ Sound(heap, Target(e) \cup Target(v) \cup G) /\ Target(e) \cap Target(v) = {}
      /\ G \cap (Target(e) \cup Target(v)) = {} /\ (\A b \in G : ~ heap.blocks[b].pool) /\ (limited \/ G = {})
      /\ Kind(heap, e) \in {"null", "err"}
  BY <1>1, <1>2, <1>3, EmptyHolds DEF Heaped, Lost, Returning
<1>5. PICK out : /\ heap' = out.heap /\ result' = out.value
                 /\ \E g, x : /\ Gives(heap, g, G, Target(x)) /\ out = MpcExport(g, x)
                              /\ ~ ok => Kind(g, x) \in {"null", "err"}
                              /\ ~ ok /\ e # Null => x # Null /\ g.blocks[x].data = Merged(heap, e, v)
                              /\ ok => x = v /\ Keeps(heap, g, Target(v))
  <2>1. CASE ok
    <3>1. PICK g : g = MpcFree(heap, e)
      OBVIOUS
    <3>2. PICK R : R = Target(v) \cup G
      OBVIOUS
    <3>3. Sound(heap, R \cup Target(e)) /\ R \cap Target(e) = {}
      <4>1. R \cup Target(e) = Target(e) \cup Target(v) \cup G
        BY <3>2
      <4> QED BY <1>4, <3>2, <4>1
    <3>4. Gives(heap, g, R, {})
      BY <1>4, <3>1, <3>3, MpcFreeGives DEF EngineKinds
    <3>5. Gives(heap, g, G, Target(v))
      <4>1. R \cup {} = G \cup Target(v) /\ G \cap Target(v) = {}
        BY <1>4, <3>2
      <4>2. Keeps(heap, g, G)
        BY <3>2, <3>4 DEF Gives, Keeps
      <4> QED BY <3>4, <4>1, <4>2 DEF Gives
    <3>6. PICK out : out = MpcExport(g, v)
      OBVIOUS
    <3>7. heap' = out.heap /\ result' = out.value
      BY <1>3, <2>1, <3>1, <3>6 DEF Finish
    <3>8. Keeps(heap, g, Target(v))
      BY <3>2, <3>4 DEF Gives, Keeps
    <3> QED BY <2>1, <3>5, <3>6, <3>7, <3>8
  <2>2. CASE ~ ok
    <3>1. Kind(heap, v) \in {"null", "err"}
      BY <1>1, <1>3, <2>2 DEF Heaped, Failing
    <3>2. PICK m : m = ErrMerge(heap, e, v)
      OBVIOUS
    <3>3. Sound(heap, G \cup Target(e) \cup Target(v))
      <4>1. G \cup Target(e) \cup Target(v) = Target(e) \cup Target(v) \cup G
        OBVIOUS
      <4> QED BY <1>4, <4>1
    <3>4. Yielded(heap, m, G, {"null", "err"}) /\ ({e, v} # {Null} => Says(m, Merged(heap, e, v)))
      BY <1>4, <3>1, <3>2, <3>3, ErrMergeGives
    <3>5. PICK out : out = MpcExport(m.heap, m.value)
      OBVIOUS
    <3>6. heap' = out.heap /\ result' = out.value
      BY <1>3, <2>2, <3>2, <3>5 DEF Finish
    <3>7. e # Null => m.value # Null /\ m.heap.blocks[m.value].data = Merged(heap, e, v)
      BY <3>4 DEF Says
    <3> QED BY <2>2, <3>4, <3>5, <3>6, <3>7 DEF Yielded
  <2> QED BY <2>1, <2>2
<1>6. PICK g, x : /\ Gives(heap, g, G, Target(x)) /\ out = MpcExport(g, x)
                  /\ ~ ok => Kind(g, x) \in {"null", "err"}
                  /\ ~ ok /\ e # Null => x # Null /\ g.blocks[x].data = Merged(heap, e, v)
                  /\ ok => x = v /\ Keeps(heap, g, Target(v))
  BY <1>5
<1>7. PICK h, y : h = out.heap /\ y = out.value
  OBVIOUS
<1>8. Gives(g, h, G, Target(y)) /\ Kind(h, y) = Kind(g, x) /\ (y # Null => ~ h.blocks[y].pool) /\ Same(g, x, h, y)
  <2>1. Sound(g, G \cup Target(x)) /\ G \cap Target(x) = {} /\ out = MpcExport(g, x)
    BY <1>6 DEF Gives
  <2>2. /\ Gives(g, out.heap, G, Target(out.value)) /\ Kind(out.heap, out.value) = Kind(g, x)
        /\ out.value # Null => ~ out.heap.blocks[out.value].pool
        /\ Same(g, x, out.heap, out.value)
    BY <2>1, ExportGives
  <2> QED BY <1>7, <2>2
<1>9. Gives(heap, h, G, Target(y))
  BY <1>6, <1>8, ThenGives DEF Gives
<1>10. Target(Null) = {} /\ Kind(h, Null) = "null"
  BY DEF Target, Kind
<1>11. Holding(h, << >>, Target(Null) \cup Target(y) \cup G) /\ Target(Null) \cap Target(y) = {}
       /\ G \cap (Target(Null) \cup Target(y)) = {} /\ (\A b \in G : ~ h.blocks[b].pool)
  <2>1. Target(Null) \cup Target(y) \cup G = G \cup Target(y)
    BY <1>10
  <2>2. Sound(h, G \cup Target(y)) /\ G \cap Target(y) = {}
    BY <1>9 DEF Gives
  <2>3. \A b \in G : ~ h.blocks[b].pool
    BY <1>4, <1>9 DEF Gives, Keeps
  <2> QED BY <1>10, <2>1, <2>2, <2>3, EmptyHolds
<1>12. h = heap' /\ y = Returning' /\ y = result'
  BY <1>1, <1>5, <1>7 DEF Returning
<1>13. Lost(G)'
  BY <1>1, <1>4, <1>11, <1>12 DEF Lost
<1>14. Holding(heap', stack', Target(error') \cup Target(Returning') \cup G)
  BY <1>1, <1>11, <1>12
<1>15. Target(error') \cap Target(Returning') = {} /\ Kind(heap', error') \in {"null", "err"}
       /\ (result' # Null => ~ heap'.blocks[result'].pool)
  BY <1>1, <1>8, <1>10, <1>11, <1>12
<1>16. Heaped'
  <2>1. ok' = ok /\ (~ ok => Kind(h, y) \in {"null", "err"})
    BY <1>6, <1>8 DEF Finish
  <2> QED BY <1>1, <1>12, <1>13, <1>14, <1>15, <2>1 DEF Heaped, Failing
<1>17. ~ ok /\ e # Null => Answers(Merged(heap, e, v))
  <2> HAVE ~ ok /\ e # Null
  <2>1. x # Null /\ h.blocks[y].data = Merged(heap, e, v)
    BY <1>6, <1>8 DEF Same
  <2>2. y # Null
    <3>1. Kind(g, x) # "null"
      BY <1>6, <2>1, KindFacts DEF Gives
    <3> QED BY <1>8, <3>1 DEF Kind
  <2> QED BY <1>12, <2>1, <2>2 DEF Answers
<1>18. ok => (y = Null <=> v = Null) /\ Same(heap, v, h, y)
  <2> HAVE ok
  <2>1. x = v /\ Keeps(heap, g, Target(v)) /\ Kind(h, y) = Kind(g, x) /\ Same(g, x, h, y)
    BY <1>6, <1>8
  <2>2. (Kind(h, y) = "null" <=> y = Null) /\ (Kind(g, x) = "null" <=> x = Null)
    BY <1>6, <1>8, KindFacts DEF Gives
  <2> QED BY <2>1, <2>2 DEF Keeps, Target, Same
<1> QED BY <1>3, <1>12, <1>16, <1>17, <1>18

LEMMA EmptySound == Sound(EmptyHeap, {})
<1>1. Live(EmptyHeap) = {} /\ EmptyHeap.next = 1
  BY DEF Live, EmptyHeap
<1>2. EmptyHeap = [blocks |-> EmptyHeap.blocks, next |-> EmptyHeap.next, misused |-> {}]
  BY DEF EmptyHeap
<1> QED BY <1>1, <1>2 DEF Sound, Rooted

LEMMA HeapedInit ==
  ASSUME Init
  PROVE  Heaped
<1>1. /\ stack = << >> /\ ctl = "call" /\ Returning = Null /\ Target(Null) = {}
      /\ heap = Initially.heap /\ error = Initially.value
  BY DEF Init, Returning, Target
<1>2. PICK out : out = Initially
  OBVIOUS
<1>3. Gives(EmptyHeap, out.heap, {}, Target(out.value)) /\ Kind(out.heap, out.value) = "err"
  <2>1. PICK data : out = MpcMalloc(EmptyHeap, Block("err", data, << >>))
    BY <1>2 DEF Initially, ErrorBlock
  <2> QED BY <2>1, EmptySound, MallocGives DEF EngineKinds
<1>4. PICK h, e, v : h = heap /\ e = error /\ v = Returning
  OBVIOUS
<1>5. Sound(h, Target(e)) /\ Kind(h, e) = "err" /\ Target(v) = {}
  <2>1. h = out.heap /\ e = out.value
    BY <1>1, <1>2, <1>4
  <2>2. {} \cup Target(e) = Target(e)
    OBVIOUS
  <2> QED BY <1>1, <1>3, <1>4, <2>1, <2>2 DEF Gives
<1>6. Holding(h, << >>, Target(e) \cup Target(v) \cup {})
  <2>1. Target(e) \cup Target(v) \cup {} = Target(e)
    BY <1>5
  <2> QED BY <1>5, <2>1, EmptyHolds
<1>7. Lost({})
  BY DEF Lost
<1>8. Holding(heap, stack, Target(error) \cup Target(Returning) \cup {}) /\ Target(error) \cap Target(Returning) = {}
      /\ Kind(heap, error) \in {"null", "err"}
  BY <1>1, <1>4, <1>5, <1>6
<1> QED BY <1>1, <1>7, <1>8 DEF Heaped, Failing

LEMMA HeapedStutter ==
  ASSUME Heaped, UNCHANGED vars
  PROVE  Heaped'
<1>1. PICK G : Holding(heap, stack, Target(error) \cup Target(Returning) \cup G) /\ Lost(G)
  BY DEF Heaped
<1>2. Returning' = Returning /\ UNCHANGED <<heap, stack, error, result, ctl, ok, suppress, limited, root>>
  BY DEF vars, Returning
<1>3. Holding(heap', stack', Target(error') \cup Target(Returning') \cup G)
  BY <1>1, <1>2
<1>4. Lost(G)'
  BY <1>1, <1>2 DEF Lost
<1> QED BY <1>2, <1>3, <1>4 DEF Heaped, Failing

LEMMA HeapedStep ==
  ASSUME FunctionsKeep, Control, Heaped, [Next]_vars
  PROVE  Heaped'
<1>0. FoldsKeep /\ AppliesKeep /\ CtorsKeep /\ DtorsKeep
  BY DEF FunctionsKeep
<1>1. CASE TooDeep \/ UndefinedFails
  BY <1>1, FailsHeaped
<1>2. CASE TakeChar \/ TakeString
  BY <1>2, TakesHeaped
<1>3. CASE RefuseChar \/ RefuseString \/ StartOfInput \/ EndOfInput
  BY <1>3, RefusesHeaped
<1>4. CASE OpenOne \/ OpenExpect \/ OpenOr \/ OpenAnd
  BY <1>4, OpenHeaped
<1>5. CASE ApplyFails \/ ExpectSucceeds \/ MaybeTakes
  BY <1>5, PassedHeaped
<1>6. CASE ApplySucceeds \/ ExpectFails \/ MaybeLifts
  BY <1>0, <1>6, ApplySucceedsHeaped, ExpectFailsHeaped, MaybeLiftsHeaped
<1>7. CASE ManyGoesOn \/ ManyEnds \/ Many1Fails
  BY <1>0, <1>7, ManyGoesOnHeaped, ManyEndsHeaped, Many1FailsHeaped
<1>8. CASE OrTakes \/ OrTriesNext \/ OrFails
  BY <1>8, OrTakesHeaped, OrTriesNextHeaped, OrFailsHeaped
<1>9. CASE AndGoesOn \/ AndSucceeds \/ AndFails
  BY <1>0, <1>9, AndGoesOnHeaped, AndSucceedsHeaped, AndFailsHeaped
<1>10. CASE Finish
  BY <1>10, FinishHeaped
<1>11. CASE UNCHANGED vars
  BY <1>11, HeapedStutter
<1> QED BY <1>1, <1>2, <1>3, <1>4, <1>5, <1>6, <1>7, <1>8, <1>9, <1>10, <1>11 DEF Next, Finished

LEMMA InvHeaped ==
  ASSUME FunctionsKeep
  PROVE  Spec => []Heaped
<1>1. Init => Heaped
  BY HeapedInit
<1>2. Control /\ Heaped /\ [Next]_vars => Heaped'
  BY HeapedStep
<1> QED BY <1>1, <1>2, InvControl, PTL DEF Spec

-------------------------------------------------------------------------------
(***************************************************************************)
(* What the invariant says of the owners.                                  *)
(***************************************************************************)
OncePointed(roots, R) ==
  /\ \A i \in DOMAIN roots : roots[i] # Null => roots[i] \in R
  /\ \A b \in R : b # Null /\ \E i \in DOMAIN roots : roots[i] = b
  /\ \A i, j \in DOMAIN roots : roots[i] = roots[j] /\ roots[i] # Null => i = j

LEMMA SoundOwned ==
  ASSUME NEW h, NEW R, NEW G, Sound(h, R \cup G), NEW roots, OncePointed(roots, R)
  PROVE  OwnedOnce(h, roots) /\ (G = {} => NoneLost(h, roots))
<1> DEFINE owners == Live(h) \cup {Null}
           P == [c \in owners |-> Pointers(h, roots, c)]
           At(c) == {<<c, i>> : i \in {j \in DOMAIN P[c] : P[c][j] # Null}}
           places == Places(h, roots)
           pointed == Pointed(h, roots)
           F == [spot \in places |-> P[spot[1]][spot[2]]]
<1>1. Null \notin Live(h) /\ R \subseteq Live(h) /\ IsFiniteSet(Live(h))
  <2>1. IsFiniteSet(1 .. h.next - 1)
    BY SoundFacts, FS_Interval
  <2>2. Live(h) \subseteq 1 .. h.next - 1
    BY DEF Sound
  <2> QED BY <2>1, <2>2, SoundFacts, FS_Subset
<1>2. P[Null] = roots /\ (\A c \in Live(h) : P[c] = h.blocks[c].refs)
  BY <1>1 DEF Pointers
<1>3. \A c \in owners : P[c] = Pointers(h, roots, c)
  OBVIOUS
<1> HIDE DEF P
<1>4. /\ places = UNION {At(c) : c \in owners}
      /\ \A spot \in places : /\ spot[1] \in owners /\ spot[2] \in DOMAIN P[spot[1]]
                               /\ spot = <<spot[1], spot[2]>> /\ P[spot[1]][spot[2]] # Null
      /\ \A c \in owners : \A i \in DOMAIN P[c] : P[c][i] # Null => <<c, i>> \in places
  <2>1. places = UNION {At(c) : c \in owners}
    BY <1>3 DEF Places
  <2>2. ASSUME NEW spot \in places
        PROVE  /\ spot[1] \in owners /\ spot[2] \in DOMAIN P[spot[1]]
               /\ spot = <<spot[1], spot[2]>> /\ P[spot[1]][spot[2]] # Null
    <3> HIDE DEF owners, places
    <3>1. PICK c \in owners : spot \in At(c)
      BY <2>1, <2>2
    <3>2. PICK i \in DOMAIN P[c] : P[c][i] # Null /\ spot = <<c, i>>
      BY <3>1
    <3> QED BY <3>2
  <2>3. ASSUME NEW c \in owners, NEW i \in DOMAIN P[c], P[c][i] # Null
        PROVE  <<c, i>> \in places
    <3> HIDE DEF owners, places
    <3>1. <<c, i>> \in At(c)
      BY <2>3
    <3> HIDE DEF At
    <3> QED BY <2>1, <3>1
  <2> QED BY <2>1, <2>2, <2>3
<1>5. pointed = {P[spot[1]][spot[2]] : spot \in places}
  <2> HIDE DEF owners, places
  <2>1. \A spot \in places : P[spot[1]][spot[2]] = Pointers(h, roots, spot[1])[spot[2]]
    BY <1>3, <1>4
  <2> QED BY <2>1 DEF Pointed, places
<1>6. ASSUME NEW c \in owners, NEW i \in DOMAIN P[c], P[c][i] # Null
      PROVE  /\ P[c][i] \in Live(h)
             /\ c = Null => P[c][i] \in R
             /\ c # Null => c \in Live(h) /\ i \in 1 .. Len(h.blocks[c].refs) /\ P[c][i] \in Values(h.blocks[c].refs)
  <2>1. CASE c = Null
    BY <1>1, <1>2, <1>6, <2>1 DEF OncePointed
  <2>2. CASE c # Null
    <3>1. c \in Live(h) /\ P[c] = h.blocks[c].refs
      BY <1>2, <2>2
    <3>2. BlockOK(h, c)
      BY <3>1 DEF Sound
    <3>3. i \in 1 .. Len(h.blocks[c].refs)
      BY <3>1, <3>2, LenFacts DEF BlockOK
    <3>4. P[c][i] \in Values(h.blocks[c].refs)
      BY <1>6, <3>1, <3>3 DEF Values
    <3> QED BY <2>2, <3>1, <3>2, <3>3, <3>4 DEF BlockOK
  <2> QED BY <2>1, <2>2
<1> HIDE DEF places, pointed
<1>7. pointed \subseteq Live(h)
  BY <1>4, <1>5, <1>6
<1>8. ASSUME NEW c \in owners, NEW i \in DOMAIN P[c], NEW d \in owners, NEW j \in DOMAIN P[d],
             P[c][i] = P[d][j], P[c][i] # Null
      PROVE  c = d /\ i = j
  <2>1. CASE c = Null /\ d = Null
    BY <1>2, <1>8, <2>1 DEF OncePointed
  <2>2. CASE c # Null /\ d # Null
    <3>1. /\ c \in Live(h) /\ i \in 1 .. Len(h.blocks[c].refs) /\ P[c][i] \in Values(h.blocks[c].refs)
          /\ d \in Live(h) /\ j \in 1 .. Len(h.blocks[d].refs) /\ P[c][i] \in Values(h.blocks[d].refs)
      BY <1>6, <1>8, <2>2
    <3>2. c = d
      BY <3>1 DEF Sound
    <3>3. Distinct(h.blocks[c].refs) /\ P[c] = h.blocks[c].refs
      BY <1>2, <3>1 DEF Sound, BlockOK
    <3> QED BY <1>8, <3>1, <3>2, <3>3 DEF Distinct
  <2>3. ASSUME NEW b \in R \cup G, NEW a \in Live(h), b \in Values(h.blocks[a].refs) PROVE FALSE
    BY <2>3 DEF Sound
  <2>4. CASE c = Null /\ d # Null
    BY <1>6, <1>8, <2>3, <2>4
  <2>5. CASE c # Null /\ d = Null
    BY <1>6, <1>8, <2>3, <2>5
  <2> QED BY <2>1, <2>2, <2>4, <2>5
<1>9. Cardinality(places) = Cardinality(pointed)
  <2>1. F \in [places -> pointed]
    BY <1>5
  <2>2. ASSUME NEW x \in places, NEW y \in places, F[x] = F[y] PROVE x = y
    <3>1. P[x[1]][x[2]] = P[y[1]][y[2]]
      BY <2>2
    <3>2. /\ x[1] \in owners /\ x[2] \in DOMAIN P[x[1]] /\ P[x[1]][x[2]] # Null /\ x = <<x[1], x[2]>>
          /\ y[1] \in owners /\ y[2] \in DOMAIN P[y[1]] /\ y = <<y[1], y[2]>>
      BY <1>4
    <3>3. x[1] = y[1] /\ x[2] = y[2]
      BY <1>8, <3>1, <3>2
    <3> QED BY <3>2, <3>3
  <2>3. \A b \in pointed : \E x \in places : F[x] = b
    BY <1>5
  <2>4. IsFiniteSet(pointed)
    BY <1>1, <1>7, FS_Subset
  <2> HIDE DEF F
  <2>5. F \in Injection(places, pointed) /\ F \in Surjection(places, pointed)
    BY <2>1, <2>2, <2>3 DEF Injection, Surjection, IsInjective
  <2> QED BY <2>4, <2>5, FS_Injection
<1>10. ASSUME G = {}, NEW b \in Live(h) PROVE b \in pointed
  <2>1. CASE b \in R
    <3>1. PICK i \in DOMAIN roots : roots[i] = b /\ b # Null
      BY <2>1 DEF OncePointed
    <3>2. <<Null, i>> \in places
      BY <1>2, <1>4, <3>1
    <3> QED BY <1>2, <1>5, <3>1, <3>2
  <2>2. CASE b \notin R
    <3>1. PICK c \in Live(h) : b \in Values(h.blocks[c].refs)
      BY <1>10, <2>2 DEF Sound
    <3>2. PICK i \in 1 .. Len(h.blocks[c].refs) : h.blocks[c].refs[i] = b /\ b # Null
      BY <3>1 DEF Values
    <3>3. i \in DOMAIN P[c] /\ P[c][i] = b
      BY <1>2, <3>2, LenFacts DEF Sound, BlockOK
    <3>4. <<c, i>> \in places
      BY <1>4, <3>2, <3>3
    <3> QED BY <1>5, <3>3, <3>4
  <2> QED BY <2>1, <2>2
<1> QED BY <1>7, <1>9, <1>10 DEF OwnedOnce, NoneLost, places, pointed

LEMMA RootsOnce ==
  ASSUME IsSeq(stack), \A d \in 1 .. Len(stack) : IsSeq(stack[d].results), NEW X, NEW h,
         Holding(h, stack, (Target(error) \cup Target(Returning)) \cup X),
         Target(error) \cap Target(Returning) = {}
  PROVE  OncePointed(RootPointers, StackHeld(stack) \cup (Target(error) \cup Target(Returning)))
<1> DEFINE Held(d, k) == IF k = 0 THEN stack[d].room ELSE stack[d].results[k]
           R == StackHeld(stack) \cup (Target(error) \cup Target(Returning))
           roots == RootPointers
<1>1. Len(stack) \in Nat /\ DOMAIN stack = 1 .. Len(stack)
      /\ \A d \in 1 .. Len(stack) : Len(stack[d].results) \in Nat
  BY LenFacts
<1>2. DOMAIN roots = Holders
  BY DEF RootPointers
<1>3. <<0, 0>> \in Holders /\ roots[<<0, 0>>] = error
  BY DEF Holders, RootPointers
<1>4. ctl # "call" => <<0, 1>> \in Holders /\ roots[<<0, 1>>] = result /\ Returning = result
  BY DEF Holders, RootPointers, Returning
<1>5. ASSUME NEW d \in 1 .. Len(stack), NEW k \in 0 .. Len(stack[d].results)
      PROVE  <<d, k>> \in Holders /\ roots[<<d, k>>] = Held(d, k)
  <2>1. <<d, k>> \in Holders
    BY <1>1 DEF Holders
  <2>2. d # 0
    BY <1>1
  <2> QED BY <2>1, <2>2 DEF RootPointers
<1>6. ASSUME NEW i \in Holders
      PROVE  \/ i = <<0, 0>>
             \/ i = <<0, 1>> /\ ctl # "call"
             \/ \E d \in 1 .. Len(stack) : \E k \in 0 .. Len(stack[d].results) : i = <<d, k>>
  BY <1>1 DEF Holders
<1>7. ASSUME NEW d \in 1 .. Len(stack), NEW k \in 0 .. Len(stack[d].results), Held(d, k) # Null
      PROVE  Held(d, k) \in FrameHeld(stack[d]) /\ Held(d, k) \in StackHeld(stack)
  <2>1. Held(d, k) \in FrameHeld(stack[d])
    BY <1>1, <1>7 DEF FrameHeld, Target, Values
  <2> QED BY <2>1 DEF StackHeld
<1>8. ASSUME NEW b \in StackHeld(stack)
      PROVE  b # Null /\ \E d \in 1 .. Len(stack) : \E k \in 0 .. Len(stack[d].results) : Held(d, k) = b
  <2>1. PICK d \in 1 .. Len(stack) : b \in FrameHeld(stack[d])
    BY DEF StackHeld
  <2>2. CASE b \in Target(stack[d].room)
    <3>1. Held(d, 0) = b /\ 0 \in 0 .. Len(stack[d].results) /\ b # Null
      BY <1>1, <2>2 DEF Target
    <3> QED BY <3>1
  <2>3. CASE b \in Values(stack[d].results)
    <3>1. PICK k \in 1 .. Len(stack[d].results) : stack[d].results[k] = b /\ b # Null
      BY <2>3 DEF Values
    <3>2. Held(d, k) = b /\ k \in 0 .. Len(stack[d].results)
      BY <1>1, <3>1
    <3> QED BY <3>1, <3>2
  <2> QED BY <2>1, <2>2, <2>3 DEF FrameHeld
<1>9. ASSUME NEW d \in 1 .. Len(stack), NEW k \in 0 .. Len(stack[d].results),
             NEW e \in 1 .. Len(stack), NEW m \in 0 .. Len(stack[e].results),
             Held(d, k) = Held(e, m), Held(d, k) # Null
      PROVE  d = e /\ k = m
  <2>1. d = e
    <3>1. PICK b : b = Held(d, k) /\ b = Held(e, m)
      BY <1>9
    <3> HIDE DEF Held
    <3>2. b \in FrameHeld(stack[d]) /\ b \in FrameHeld(stack[e])
      BY <1>7, <1>9, <3>1
    <3>3. d # e => FrameHeld(stack[d]) \cap FrameHeld(stack[e]) = {}
      BY DEF Holding
    <3> QED BY <3>2, <3>3
  <2>2. FrameApart(stack[d])
    BY DEF Holding
  <2>3. CASE k = 0 /\ m = 0
    BY <2>1, <2>3
  <2>4. CASE k # 0 /\ m # 0
    <3>1. k \in 1 .. Len(stack[d].results) /\ m \in 1 .. Len(stack[d].results)
      BY <1>1, <2>1, <2>4
    <3> QED BY <1>9, <2>1, <2>2, <2>4, <3>1 DEF FrameApart, Distinct
  <2>5. CASE k = 0 /\ m # 0
    <3>1. m \in 1 .. Len(stack[d].results)
      BY <1>1, <2>1, <2>5
    <3> QED BY <1>9, <2>1, <2>2, <2>5, <3>1 DEF FrameApart, Values
  <2>6. CASE k # 0 /\ m = 0
    <3>1. k \in 1 .. Len(stack[d].results)
      BY <1>1, <2>6
    <3> QED BY <1>9, <2>1, <2>2, <2>6, <3>1 DEF FrameApart, Values
  <2> QED BY <2>3, <2>4, <2>5, <2>6
<1>10. (Target(error) \cup Target(Returning)) \cap StackHeld(stack) = {}
  BY DEF Holding
<1> HIDE DEF Held, roots
<1>11. \A i \in DOMAIN roots : roots[i] # Null => roots[i] \in R
  <2> SUFFICES ASSUME NEW i \in Holders, roots[i] # Null PROVE roots[i] \in R
    BY <1>2
  <2> QED BY <1>3, <1>4, <1>5, <1>6, <1>7 DEF Target
<1>12. ASSUME NEW b \in R PROVE b # Null /\ \E i \in DOMAIN roots : roots[i] = b
  <2>1. CASE b \in Target(error)
    BY <1>2, <1>3, <2>1 DEF Target
  <2>2. CASE b \in Target(Returning)
    <3>1. b = Returning /\ b # Null
      BY <2>2 DEF Target
    <3>2. ctl # "call"
      BY <3>1 DEF Returning
    <3> QED BY <1>2, <1>4, <3>1, <3>2
  <2>3. CASE b \in StackHeld(stack)
    <3>1. b # Null /\ \E d \in 1 .. Len(stack) : \E k \in 0 .. Len(stack[d].results) : Held(d, k) = b
      BY <1>8, <2>3
    <3>2. PICK d \in 1 .. Len(stack) : \E k \in 0 .. Len(stack[d].results) : Held(d, k) = b
      BY <3>1
    <3>3. PICK k \in 0 .. Len(stack[d].results) : Held(d, k) = b
      BY <3>2
    <3>4. <<d, k>> \in Holders /\ roots[<<d, k>>] = b
      BY <1>5, <3>3
    <3> QED BY <1>2, <3>1, <3>4
  <2> QED BY <2>1, <2>2, <2>3
<1>13. ASSUME NEW i \in Holders, NEW j \in Holders, roots[i] = roots[j], roots[i] # Null PROVE i = j
  <2>1. CASE i \in {<<0, 0>>, <<0, 1>>} /\ j \in {<<0, 0>>, <<0, 1>>}
    <3>1. <<0, 1>> # <<0, 0>>
      OBVIOUS
    <3>2. (i = <<0, 1>> \/ j = <<0, 1>>) => ctl # "call"
      <4>1. \A d \in 1 .. Len(stack) : \A k : <<d, k>> # <<0, 1>>
        BY <1>1
      <4> QED BY <1>6, <3>1, <4>1
    <3>3. ctl # "call" => ~ (error = result /\ error # Null)
      BY <1>4 DEF Target
    <3> QED BY <1>3, <1>4, <1>13, <2>1, <3>2, <3>3
  <2>2. ASSUME NEW d \in 1 .. Len(stack), NEW k \in 0 .. Len(stack[d].results), i = <<d, k>>
        PROVE  i = j
    <3>1. roots[i] \in StackHeld(stack) /\ roots[i] = Held(d, k)
      BY <1>5, <1>7, <1>13, <2>2
    <3>2. j # <<0, 0>> /\ (ctl # "call" => j # <<0, 1>>)
      BY <1>3, <1>4, <1>10, <1>13, <3>1 DEF Target
    <3>3. PICK e \in 1 .. Len(stack) : \E m \in 0 .. Len(stack[e].results) : j = <<e, m>>
      BY <1>6, <3>2
    <3>4. PICK m \in 0 .. Len(stack[e].results) : j = <<e, m>>
      BY <3>3
    <3>5. roots[j] = Held(e, m)
      BY <1>5, <3>4
    <3> QED BY <1>9, <1>13, <2>2, <3>1, <3>4, <3>5
  <2>3. ASSUME NEW d \in 1 .. Len(stack), NEW k \in 0 .. Len(stack[d].results), j = <<d, k>>
        PROVE  i = j
    <3>1. roots[j] \in StackHeld(stack) /\ roots[j] = Held(d, k)
      BY <1>5, <1>7, <1>13, <2>3
    <3>2. i # <<0, 0>> /\ (ctl # "call" => i # <<0, 1>>)
      BY <1>3, <1>4, <1>10, <1>13, <3>1 DEF Target
    <3>3. PICK e \in 1 .. Len(stack) : \E m \in 0 .. Len(stack[e].results) : i = <<e, m>>
      BY <1>6, <3>2
    <3>4. PICK m \in 0 .. Len(stack[e].results) : i = <<e, m>>
      BY <3>3
    <3>5. roots[i] = Held(e, m)
      BY <1>5, <3>4
    <3> QED BY <1>9, <1>13, <2>3, <3>1, <3>4, <3>5
  <2> QED BY <1>6, <2>1, <2>2, <2>3
<1> QED BY <1>2, <1>11, <1>12, <1>13 DEF OncePointed, roots

(* On a fit grammar whose own functions keep to their part, every block    *)
(* has one owner at any time: nothing is freed twice, used after it was    *)
(* freed, or, while the limit on the depth is not met, lost.               *)
THEOREM InvOwned ==
  ASSUME FunctionsKeep
  PROVE  Spec => []Owned
<1>1. Control /\ Heaped => Owned
  <2> SUFFICES ASSUME Control, Heaped PROVE Owned
    OBVIOUS
  <2>1. PICK G : Holding(heap, stack, Target(error) \cup Target(Returning) \cup G) /\ Lost(G)
    BY DEF Heaped
  <2>2. IsSeq(stack) /\ \A d \in 1 .. Len(stack) : IsSeq(stack[d].results)
    BY DEF Control, Nested, StackOK, FrameOK
  <2>3. PICK R : R = StackHeld(stack) \cup (Target(error) \cup Target(Returning))
    OBVIOUS
  <2>4. OncePointed(RootPointers, R)
    BY <2>1, <2>2, <2>3, RootsOnce DEF Heaped
  <2>5. Sound(heap, R \cup G)
    <3>1. StackHeld(stack) \cup (Target(error) \cup Target(Returning) \cup G) = R \cup G
      BY <2>3
    <3> QED BY <2>1, <3>1 DEF Holding
  <2>6. OwnedOnce(heap, RootPointers) /\ (G = {} => NoneLost(heap, RootPointers))
    BY <2>4, <2>5, SoundOwned
  <2>7. heap.misused = {} /\ (limited \/ G = {})
    BY <2>1, <2>5, SoundFacts DEF Lost
  <2> QED BY <2>6, <2>7 DEF Owned
<1> QED BY <1>1, InvControl, InvHeaped, PTL

(* What a parse returns, and all that it points to, is out of the pool     *)
(* that mpc_input_delete frees.                                            *)
THEOREM InvResultOutlivesInput ==
  ASSUME FunctionsKeep
  PROVE  Spec => []ResultOutlivesInput
<1>1. Control /\ Heaped => ResultOutlivesInput
  <2> SUFFICES ASSUME Control, Heaped, ctl = "done" PROVE Pooled(heap) = {}
    BY DEF ResultOutlivesInput
  <2>1. PICK G : Holding(heap, stack, Target(error) \cup Target(Returning) \cup G) /\ Lost(G)
    BY DEF Heaped
  <2>2. stack = << >> /\ error = Null /\ Returning = result /\ (result # Null => ~ heap.blocks[result].pool)
    BY DEF Heaped, Returning
  <2>3. Sound(heap, Target(error) \cup Target(Returning) \cup G)
    BY <2>1, <2>2, EmptyHolds
  <2>4. ASSUME NEW b \in Live(heap) PROVE ~ heap.blocks[b].pool
    <3>1. CASE b \in Target(error) \cup Target(Returning) \cup G
      BY <2>1, <2>2, <3>1 DEF Target, Lost
    <3>2. CASE b \notin Target(error) \cup Target(Returning) \cup G
      <4>1. PICK c \in Live(heap) : b \in Values(heap.blocks[c].refs)
        BY <2>3, <3>2 DEF Sound
      <4> QED BY <2>3, <4>1 DEF Sound, BlockOK
    <3> QED BY <3>1, <3>2
  <2> QED BY <2>4 DEF Pooled
<1> QED BY <1>1, InvControl, InvHeaped, PTL

(* mpc's own functions keep to what the engine hands them.                 *)
LEMMA MpcFunctionsKeep ==
  ASSUME OnlyMpcFunctions
  PROVE  FunctionsKeep
<1>1. FoldsKeep
  BY DEF OnlyMpcFunctions, FoldsKeep
<1>2. AppliesKeep
  BY DEF OnlyMpcFunctions, AppliesKeep
<1>3. CtorsKeep
  BY DEF OnlyMpcFunctions, CtorsKeep
<1>4. DtorsKeep
  BY DEF OnlyMpcFunctions, DtorsKeep
<1> QED BY <1>1, <1>2, <1>3, <1>4 DEF FunctionsKeep

(* Of a grammar that uses mpc's own functions only, nothing has to be      *)
(* assumed but that it is fit: mpc keeps the memory and the pool by itself. *)
THEOREM MpcAloneOwns ==
  ASSUME OnlyMpcFunctions
  PROVE  Spec => [](Owned /\ ResultOutlivesInput)
<1>1. FunctionsKeep
  BY MpcFunctionsKeep
<1>2. Spec => []Owned
  BY <1>1, InvOwned
<1>3. Spec => []ResultOutlivesInput
  BY <1>1, InvResultOutlivesInput
<1> QED BY <1>2, <1>3, PTL

(***************************************************************************)
(* What an error says, and what has been reported up to now: either one    *)
(* error knows it all, or two do that have not been merged yet.            *)
(***************************************************************************)
Names(d) == UNION {m.names : m \in d.expected}
ReportedAt(rep, pos) == {r[2] : r \in {q \in rep : q[1] = pos}}

IsError(d) ==
  /\ d = [pos |-> d.pos, expected |-> d.expected, failure |-> d.failure]
  /\ d.pos \in Int
  /\ d.failure = NoFailure => Names(d) # {}

Tells(d, rep) ==
  /\ IsError(d)
  /\ \A r \in rep : r[1] \in Int /\ r[1] <= d.pos
  /\ d.failure = NoFailure => Names(d) = ReportedAt(rep, d.pos)

TellBoth(d, e, rep) ==
  /\ IsError(d) /\ IsError(e)
  /\ \A r \in rep : r[1] \in Int /\ (r[1] <= d.pos \/ r[1] <= e.pos)
  /\ d.pos > e.pos /\ d.failure = NoFailure => Names(d) = ReportedAt(rep, d.pos)
  /\ e.pos > d.pos /\ e.failure = NoFailure => Names(e) = ReportedAt(rep, e.pos)
  /\ d.pos = e.pos /\ d.failure = NoFailure /\ e.failure = NoFailure =>
       Names(d) \cup Names(e) = ReportedAt(rep, d.pos)

(* The inductive invariant.                                                *)
Pending == Failing /\ result # Null

Heard ==
  /\ ctl # "done" => error # Null
  /\ Pending => TellBoth(heap.blocks[error].data, heap.blocks[result].data, reported)
  /\ ctl # "done" /\ ~ Pending => Tells(heap.blocks[error].data, reported)
  /\ ctl = "done" /\ ~ ok => result # Null /\ Tells(heap.blocks[result].data, reported)

-------------------------------------------------------------------------------
(***************************************************************************)
(* Merging and repeating.                                                  *)
(***************************************************************************)
LEMMA FromOne ==
  ASSUME NEW h, NEW x, NEW y, NEW z \in {x, y}, FurthestErrors(h, x, y) = {z}, NEW d, d = Merged(h, x, y)
  PROVE  LET c == h.blocks[z].data
         IN  /\ d = [pos |-> d.pos, expected |-> d.expected, failure |-> d.failure]
             /\ d.pos = c.pos /\ d.failure = c.failure /\ (c.failure = NoFailure => d.expected = c.expected)
<1> DEFINE c == h.blocks[z].data
           heard == IF c.failure # NoFailure THEN {} ELSE {e \in {z} : h.blocks[e].data.failure = NoFailure}
<1>1. d = [pos |-> c.pos, expected |-> UNION {h.blocks[e].data.expected : e \in heard},
           failure |-> IF c.failure # NoFailure THEN c.failure ELSE c.failure]
  BY DEF Merged
<1>2. c.failure = NoFailure => heard = {z}
  OBVIOUS
<1>3. c.failure = NoFailure => UNION {h.blocks[e].data.expected : e \in heard} = c.expected
  BY <1>2
<1> HIDE DEF heard, c
<1> QED BY <1>1, <1>3 DEF c

LEMMA FromBoth ==
  ASSUME NEW h, NEW x, NEW y, FurthestErrors(h, x, y) = {x, y}, NEW d, d = Merged(h, x, y)
  PROVE  LET b == h.blocks[x].data
             c == h.blocks[y].data
         IN  /\ d = [pos |-> d.pos, expected |-> d.expected, failure |-> d.failure]
             /\ d.pos = b.pos /\ (d.failure = NoFailure <=> b.failure = NoFailure /\ c.failure = NoFailure)
             /\ d.failure = NoFailure => d.expected = b.expected \cup c.expected
<1> DEFINE b == h.blocks[x].data
           c == h.blocks[y].data
           heard == IF b.failure # NoFailure THEN {} ELSE {e \in {x, y} : h.blocks[e].data.failure = NoFailure}
<1>1. d = [pos |-> b.pos, expected |-> UNION {h.blocks[e].data.expected : e \in heard},
           failure |-> IF b.failure # NoFailure THEN b.failure ELSE c.failure]
  BY DEF Merged
<1>2. b.failure = NoFailure /\ c.failure = NoFailure => heard = {x, y}
  OBVIOUS
<1>3. b.failure = NoFailure /\ c.failure = NoFailure =>
        UNION {h.blocks[e].data.expected : e \in heard} = b.expected \cup c.expected
  BY <1>2
<1> HIDE DEF heard, b, c
<1>4. d.failure = NoFailure <=> b.failure = NoFailure /\ c.failure = NoFailure
  BY <1>1
<1> QED BY <1>1, <1>3, <1>4 DEF b, c

LEMMA MergedTells ==
  ASSUME NEW h, NEW x, NEW y, x # Null, NEW rep, NEW d, d = Merged(h, x, y),
         y = Null => Tells(h.blocks[x].data, rep),
         y # Null => TellBoth(h.blocks[x].data, h.blocks[y].data, rep)
  PROVE  Tells(d, rep)
<1>1. PICK b, c : b = h.blocks[x].data /\ c = h.blocks[y].data
  OBVIOUS
<1>2. ASSUME NEW z \in {x, y}, FurthestErrors(h, x, y) = {z}, Tells(h.blocks[z].data, rep)
      PROVE  Tells(d, rep)
  <2>1. PICK a : a = h.blocks[z].data
    OBVIOUS
  <2>2. /\ d = [pos |-> d.pos, expected |-> d.expected, failure |-> d.failure]
        /\ d.pos = a.pos /\ d.failure = a.failure /\ (a.failure = NoFailure => d.expected = a.expected)
    BY <1>2, <2>1, FromOne
  <2>3. a.failure = NoFailure => Names(d) = Names(a)
    BY <2>2 DEF Names
  <2> QED BY <1>2, <2>1, <2>2, <2>3 DEF Tells, IsError
<1>3. CASE y = Null
  <2>1. FurthestErrors(h, x, y) = {x}
    <3>1. {x, y} \ {Null} = {x} /\ b.pos <= b.pos
      BY <1>1, <1>3 DEF Tells, IsError
    <3> QED BY <1>1, <3>1 DEF FurthestErrors
  <2> QED BY <1>2, <1>3, <2>1
<1>4. CASE y # Null
  <2>1. TellBoth(b, c, rep) /\ b.pos \in Int /\ c.pos \in Int
    BY <1>1, <1>4 DEF TellBoth, IsError
  <2>2. {x, y} \ {Null} = {x, y}
    BY <1>4
  <2>3. FurthestErrors(h, x, y) = {e \in {x, y} : \A other \in {x, y} : h.blocks[other].data.pos <= h.blocks[e].data.pos}
    BY <2>2 DEF FurthestErrors
  <2>4. CASE b.pos > c.pos
    <3>1. FurthestErrors(h, x, y) = {x}
      BY <1>1, <2>1, <2>3, <2>4
    <3>2. Tells(b, rep)
      BY <2>1, <2>4 DEF TellBoth, Tells, IsError
    <3> QED BY <1>1, <1>2, <3>1, <3>2
  <2>5. CASE c.pos > b.pos
    <3>1. FurthestErrors(h, x, y) = {y}
      BY <1>1, <2>1, <2>3, <2>5
    <3>2. Tells(c, rep)
      BY <2>1, <2>5 DEF TellBoth, Tells, IsError
    <3> QED BY <1>1, <1>2, <3>1, <3>2
  <2>6. CASE b.pos = c.pos
    <3>1. FurthestErrors(h, x, y) = {x, y}
      BY <1>1, <2>1, <2>3, <2>6
    <3>2. /\ d = [pos |-> d.pos, expected |-> d.expected, failure |-> d.failure]
          /\ d.pos = b.pos /\ (d.failure = NoFailure <=> b.failure = NoFailure /\ c.failure = NoFailure)
          /\ d.failure = NoFailure => d.expected = b.expected \cup c.expected
      BY <1>1, <3>1, FromBoth
    <3>3. d.failure = NoFailure => Names(d) = Names(b) \cup Names(c)
      BY <3>2 DEF Names
    <3> QED BY <2>1, <2>6, <3>2, <3>3 DEF TellBoth, Tells, IsError
  <2> QED BY <2>1, <2>4, <2>5, <2>6
<1> QED BY <1>3, <1>4

LEMMA RepeatedTells ==
  ASSUME NEW d, NEW e, NEW rep, TellBoth(d, e, rep), NEW f, f = Repeated(e)
  PROVE  TellBoth(d, f, rep)
<1>1. PICK m : m = IF e.expected = {} THEN Message("", {""})
                   ELSE Message("one or more of", UNION {n.names : n \in e.expected})
  OBVIOUS
<1>2. e = [pos |-> e.pos, expected |-> e.expected, failure |-> e.failure]
  BY DEF TellBoth, IsError
<1>3. f = [pos |-> e.pos, expected |-> {m}, failure |-> e.failure]
  BY <1>1, <1>2 DEF Repeated
<1>4. Names(f) = m.names /\ f.pos = e.pos /\ f.failure = e.failure
      /\ f = [pos |-> f.pos, expected |-> f.expected, failure |-> f.failure]
  BY <1>3 DEF Names
<1>5. e.failure = NoFailure => e.expected # {}
  BY DEF TellBoth, IsError, Names
<1>6. e.failure = NoFailure => Names(f) = Names(e)
  BY <1>1, <1>4, <1>5 DEF Names, Message
<1> QED BY <1>4, <1>6 DEF TellBoth, IsError

(* An expectation more, at any place.                                      *)
LEMMA NewlyReported ==
  ASSUME NEW d, NEW rep, Tells(d, rep), NEW pos \in Int, NEW message, NEW m, m.names = {message},
         NEW e, e = [pos |-> pos, expected |-> {m}, failure |-> NoFailure]
  PROVE  TellBoth(d, e, rep \cup {<<pos, message>>})
<1> DEFINE t == <<pos, message>>
<1>1. t[1] = pos /\ t[2] = message
  OBVIOUS
<1> HIDE DEF t
<1>2. PICK both : both = rep \cup {t}
  OBVIOUS
<1>3. e.expected = {m} /\ e.pos = pos /\ e.failure = NoFailure
      /\ e = [pos |-> e.pos, expected |-> e.expected, failure |-> e.failure]
  OBVIOUS
<1>4. Names(e) = {message}
  BY <1>3 DEF Names
<1>5. IsError(d) /\ IsError(e) /\ d.pos \in Int
  BY <1>3, <1>4 DEF IsError, Tells
<1>6. \A r \in rep : r[1] \in Int /\ r[1] <= d.pos
  BY DEF Tells
<1>7. \A r \in both : r[1] \in Int /\ (r[1] <= d.pos \/ r[1] <= e.pos)
  <2> SUFFICES ASSUME NEW r \in both PROVE r[1] \in Int /\ (r[1] <= d.pos \/ r[1] <= e.pos)
    OBVIOUS
  <2>1. CASE r \in rep
    BY <1>6, <2>1
  <2>2. CASE r = t
    BY <1>1, <1>3, <2>2
  <2> QED BY <1>2, <2>1, <2>2
<1>8. ASSUME NEW at, at # pos PROVE ReportedAt(both, at) = ReportedAt(rep, at)
  <2>1. {q \in both : q[1] = at} = {q \in rep : q[1] = at}
    BY <1>1, <1>2, <1>8
  <2> QED BY <2>1 DEF ReportedAt
<1>9. ReportedAt(both, pos) = ReportedAt(rep, pos) \cup {message}
  <2>1. {q \in both : q[1] = pos} = {q \in rep : q[1] = pos} \cup {t}
    BY <1>1, <1>2
  <2> QED BY <1>1, <2>1 DEF ReportedAt
<1>10. pos > d.pos => ReportedAt(rep, pos) = {}
  BY <1>5, <1>6 DEF ReportedAt
<1>11. d.failure = NoFailure => Names(d) = ReportedAt(rep, d.pos)
  BY DEF Tells
<1>12. d.pos > pos => d.pos # pos
  BY <1>5
<1>13. /\ d.pos > e.pos /\ d.failure = NoFailure => Names(d) = ReportedAt(both, d.pos)
       /\ e.pos > d.pos => Names(e) = ReportedAt(both, e.pos)
       /\ d.pos = e.pos /\ d.failure = NoFailure => Names(d) \cup Names(e) = ReportedAt(both, d.pos)
  BY <1>3, <1>4, <1>8, <1>9, <1>10, <1>11, <1>12
<1>14. both = rep \cup {<<pos, message>>}
  BY <1>2 DEF t
<1> QED BY <1>3, <1>5, <1>7, <1>13, <1>14 DEF TellBoth

(* An outright failure is no expectation.                                  *)
LEMMA NewlyFailed ==
  ASSUME NEW d, NEW rep, Tells(d, rep), NEW pos \in Int, NEW failure, failure # NoFailure,
         NEW e, e = [pos |-> pos, expected |-> {}, failure |-> failure]
  PROVE  TellBoth(d, e, rep)
<1>1. e.pos = pos /\ e.failure # NoFailure /\ e = [pos |-> e.pos, expected |-> e.expected, failure |-> e.failure]
  OBVIOUS
<1> QED BY <1>1 DEF TellBoth, Tells, IsError

-------------------------------------------------------------------------------
(***************************************************************************)
(* The invariant, step by step.                                            *)
(***************************************************************************)
(* A step that reports nothing, keeps the error and returns none.          *)
LEMMA Unheard ==
  ASSUME Heard, ctl # "done", ~ Pending, Stays, reported' = reported, ctl' # "done", ~ Pending'
  PROVE  Heard'
<1>1. error # Null /\ Tells(heap.blocks[error].data, reported)
  BY DEF Heard
<1>2. error' # Null /\ heap'.blocks[error'].data = heap.blocks[error].data
  BY <1>1 DEF Stays
<1>3. PICK d : d = heap'.blocks[error'].data
  OBVIOUS
<1>4. Tells(d, reported')
  BY <1>1, <1>2, <1>3
<1> QED BY <1>2, <1>3, <1>4 DEF Heard

(* The error that is returned is merged into the one that is kept.         *)
LEMMA HeardMerge ==
  ASSUME Heard, Failing, Merges, reported' = reported, ctl' # "done", ~ Pending'
  PROVE  Heard'
<1>1. ctl # "done" /\ error # Null
  BY DEF Heard, Failing
<1>2. PICK d : d = Merged(heap, error, result)
  OBVIOUS
<1>3. result = Null => Tells(heap.blocks[error].data, reported)
  BY <1>1 DEF Heard, Pending
<1>4. result # Null => TellBoth(heap.blocks[error].data, heap.blocks[result].data, reported)
  BY DEF Heard, Pending
<1>5. Tells(d, reported')
  BY <1>1, <1>2, <1>3, <1>4, MergedTells
<1>6. error' # Null /\ heap'.blocks[error'].data = d
  BY <1>1, <1>2 DEF Merges
<1> QED BY <1>5, <1>6 DEF Heard

(* An activation fails as its child has.                                   *)
LEMMA HeardPass ==
  ASSUME Heard, Failing, Stays, reported' = reported, Failing', result' = result,
         NEW e, result # Null => Answers(e) /\ (e = heap.blocks[result].data \/ e = Repeated(heap.blocks[result].data))
  PROVE  Heard'
<1>1. ctl # "done" /\ ctl' # "done" /\ error # Null
  BY DEF Heard, Failing
<1>2. CASE result = Null
  <2>1. ~ Pending /\ ~ Pending'
    BY <1>2 DEF Pending
  <2> QED BY <1>1, <2>1, Unheard
<1>3. CASE result # Null
  <2>1. PICK b, c : b = heap.blocks[error].data /\ c = heap.blocks[result].data
    OBVIOUS
  <2>2. TellBoth(b, c, reported)
    BY <1>3, <2>1 DEF Heard, Pending
  <2>3. TellBoth(b, e, reported)
    BY <1>3, <2>1, <2>2, RepeatedTells
  <2>4. error' # Null /\ heap'.blocks[error'].data = b /\ heap'.blocks[result'].data = e
    BY <1>1, <1>3, <2>1 DEF Stays, Answers
  <2>5. TellBoth(heap'.blocks[error'].data, heap'.blocks[result'].data, reported')
    BY <2>3, <2>4
  <2> QED BY <1>1, <1>3, <2>4, <2>5 DEF Heard, Pending, Failing
<1> QED BY <1>2, <1>3

(* A new error beside the one that is kept.                                *)
LEMMA HeardNew ==
  ASSUME Heard, ctl # "done", Stays, Failing', NEW e, Answers(e),
         TellBoth(heap.blocks[error].data, e, reported')
  PROVE  Heard'
<1>1. error' # Null /\ heap'.blocks[error'].data = heap.blocks[error].data
  BY DEF Heard, Stays
<1>2. result' # Null /\ heap'.blocks[result'].data = e
  BY DEF Answers
<1>3. TellBoth(heap'.blocks[error'].data, heap'.blocks[result'].data, reported')
  BY <1>1, <1>2
<1> QED BY <1>1, <1>2, <1>3 DEF Heard, Pending, Failing

LEMMA HeardInit ==
  ASSUME Init
  PROVE  Heard
<1>1. ctl = "call" /\ reported = {} /\ heap = Initially.heap /\ error = Initially.value
  BY DEF Init
<1>2. PICK none : none = -1
  OBVIOUS
<1>3. none \in Int
  BY <1>2
<1>4. PICK failure : failure = "Unknown Error"
  OBVIOUS
<1>5. failure # NoFailure
  BY <1>4, Zenon DEF NoFailure
<1>6. PICK data : data = [pos |-> none, expected |-> {}, failure |-> failure]
  OBVIOUS
<1>7. PICK out : out = MpcMalloc(EmptyHeap, Block("err", data, << >>))
  OBVIOUS
<1>8. Initially = out
  BY <1>2, <1>4, <1>6, <1>7, Zenon DEF Initially, ErrorBlock
<1>9. "err" \in EngineKinds
  BY DEF EngineKinds
<1>10. out.value # Null /\ out.heap.blocks[out.value].data = data
  BY <1>7, <1>9, EmptySound, MallocGives
<1>11. data.pos \in Int /\ data.failure # NoFailure
       /\ data = [pos |-> data.pos, expected |-> data.expected, failure |-> data.failure]
  BY <1>3, <1>5, <1>6
<1>12. Tells(data, {})
  BY <1>11 DEF Tells, IsError
<1> QED BY <1>1, <1>8, <1>10, <1>12 DEF Heard, Pending, Failing

LEMMA FailsHeard ==
  ASSUME Control, Heaped, Heard, TooDeep \/ UndefinedFails
  PROVE  Heard'
<1>1. ctl = "call" /\ Failing' /\ reported' = reported /\ suppress' = suppress
  BY DEF TooDeep, UndefinedFails, Called, Return, Failing, history
<1>2. ctl # "done" /\ ~ Pending /\ ctl' # "done"
  BY <1>1 DEF Pending, Failing
<1>3. Heaped' /\ Stays
  BY FailsHeaped
<1>4. CASE suppress > 0
  <2>1. result' = Null
    BY <1>1, <1>3, <1>4 DEF Heaped
  <2> QED BY <1>1, <1>2, <1>3, <2>1, Unheard DEF Pending
<1>5. CASE ~ (suppress > 0)
  <2>1. PICK failure : failure # NoFailure /\ Answers([pos |-> state.pos, expected |-> {}, failure |-> failure])
    BY <1>5, FailsHeaped
  <2>2. PICK e : e = [pos |-> state.pos, expected |-> {}, failure |-> failure]
    OBVIOUS
  <2>3. state.pos \in Int /\ Tells(heap.blocks[error].data, reported)
    BY <1>2, Position DEF Heard
  <2>4. TellBoth(heap.blocks[error].data, e, reported')
    BY <1>1, <2>1, <2>2, <2>3, NewlyFailed
  <2> QED BY <1>1, <1>2, <1>3, <2>1, <2>2, <2>4, HeardNew
<1> QED BY <1>4, <1>5

LEMMA ExpectFailsHeard ==
  ASSUME Control, Heaped, Heard, ExpectFails
  PROVE  Heard'
<1>1. /\ ctl = "return" /\ ok = FALSE /\ stack # << >> /\ Top.p.type = "EXPECT" /\ Failing'
      /\ suppress' = suppress - 1
      /\ reported' = IF suppress' > 0 THEN reported ELSE reported \cup {<<state.pos, Top.p.message>>}
  BY DEF ExpectFails, Returned, Leave, Return, Report, Failing
<1>2. result = Null
  <2>1. suppress > 0
    BY <1>1, Suppressed
  <2> QED BY <1>1, <2>1, TopHolds
<1>3. ctl # "done" /\ ~ Pending /\ ctl' # "done"
  BY <1>1, <1>2 DEF Pending, Failing
<1>4. Heaped' /\ Stays
  BY ExpectFailsHeaped
<1>5. CASE suppress' > 0
  <2>1. result' = Null /\ reported' = reported
    BY <1>1, <1>4, <1>5 DEF Heaped
  <2> QED BY <1>3, <1>4, <2>1, Unheard DEF Pending
<1>6. CASE ~ (suppress' > 0)
  <2>1. PICK m : m = Message("", {Top.p.message})
    OBVIOUS
  <2>2. m.names = {Top.p.message}
    BY <2>1 DEF Message
  <2>3. PICK e : e = [pos |-> state.pos, expected |-> {m}, failure |-> NoFailure]
    OBVIOUS
  <2>4. Answers(e)
    BY <1>6, <2>1, <2>3, ExpectFailsHeaped
  <2>5. state.pos \in Int /\ Tells(heap.blocks[error].data, reported)
    BY <1>3, Position DEF Heard
  <2>6. PICK d : d = heap.blocks[error].data
    OBVIOUS
  <2>7. TellBoth(d, e, reported \cup {<<state.pos, Top.p.message>>})
    BY <2>2, <2>3, <2>5, <2>6, NewlyReported
  <2>8. TellBoth(heap.blocks[error].data, e, reported')
    BY <1>1, <1>6, <2>6, <2>7
  <2> QED BY <1>1, <1>3, <1>4, <2>4, <2>8, HeardNew
<1> QED BY <1>5, <1>6

LEMMA FinishHeard ==
  ASSUME Control, Heaped, Heard, Finish
  PROVE  Heard'
<1>1. ctl = "return" /\ ctl' = "done" /\ ok' = ok /\ reported' = reported
  BY DEF Finish, history
<1>2. ~ ok => result' # Null /\ Tells(heap'.blocks[result'].data, reported')
  <2> HAVE ~ ok
  <2>1. Failing /\ ctl # "done" /\ error # Null
    BY <1>1 DEF Heard, Failing
  <2>2. PICK d : d = Merged(heap, error, result)
    OBVIOUS
  <2>3. result = Null => Tells(heap.blocks[error].data, reported)
    BY <2>1 DEF Heard, Pending
  <2>4. result # Null => TellBoth(heap.blocks[error].data, heap.blocks[result].data, reported)
    BY <2>1 DEF Heard, Pending
  <2>5. Tells(d, reported)
    BY <2>1, <2>2, <2>3, <2>4, MergedTells
  <2>6. result' # Null /\ heap'.blocks[result'].data = d
    BY <2>1, <2>2, FinishHeaped DEF Answers
  <2> QED BY <1>1, <2>5, <2>6
<1> QED BY <1>1, <1>2 DEF Heard, Pending, Failing

LEMMA UnheardSteps ==
  ASSUME FunctionsKeep, Control, Heaped, Heard,
         \/ TakeChar \/ RefuseChar \/ TakeString \/ RefuseString \/ StartOfInput \/ EndOfInput
         \/ OpenOne \/ OpenExpect \/ OpenOr \/ OpenAnd
         \/ ApplySucceeds \/ ExpectSucceeds \/ MaybeTakes \/ ManyGoesOn
         \/ OrTakes \/ AndGoesOn \/ AndSucceeds
  PROVE  Heard'
<1>1. CASE TakeChar \/ TakeString
  <2>1. ctl = "call" /\ ctl' = "return" /\ ok' /\ reported' = reported
    BY <1>1 DEF TakeChar, TakeString, Called, Return, history
  <2>2. Stays
    BY <1>1, TakesHeaped
  <2> QED BY <2>1, <2>2, Unheard DEF Pending, Failing
<1>2. CASE RefuseChar \/ RefuseString \/ StartOfInput \/ EndOfInput
  <2>1. ctl = "call" /\ ctl' = "return" /\ result' = Null /\ reported' = reported
    BY <1>2 DEF RefuseChar, RefuseString, StartOfInput, EndOfInput, Called, Return, history
  <2>2. Stays
    BY <1>2, RefusesHeaped
  <2> QED BY <2>1, <2>2, Unheard DEF Pending, Failing
<1>3. CASE OpenOne \/ OpenExpect \/ OpenOr \/ OpenAnd
  <2>1. ctl = "call" /\ ctl' = "call" /\ reported' = reported
    BY <1>3 DEF OpenOne, OpenExpect, OpenOr, OpenAnd, Called, Open, history
  <2>2. Stays
    BY <1>3, OpenHeaped
  <2> QED BY <2>1, <2>2, Unheard DEF Pending, Failing
<1>4. CASE ApplySucceeds \/ ExpectSucceeds \/ MaybeTakes \/ OrTakes \/ AndSucceeds
  <2>1. ctl = "return" /\ ok = TRUE /\ ctl' = "return" /\ ok' = TRUE /\ reported' = reported
    BY <1>4 DEF ApplySucceeds, ExpectSucceeds, MaybeTakes, OrTakes, AndSucceeds, Returned, Leave, Return, history
  <2>2. Stays
    BY <1>4, ApplySucceedsHeaped, PassedHeaped, OrTakesHeaped, AndSucceedsHeaped DEF FunctionsKeep
  <2> QED BY <2>1, <2>2, Unheard DEF Pending, Failing
<1>5. CASE ManyGoesOn \/ AndGoesOn
  <2>1. ctl = "return" /\ ok = TRUE /\ ctl' = "call" /\ reported' = reported
    BY <1>5 DEF ManyGoesOn, AndGoesOn, Returned, Run, history
  <2>2. Stays
    BY <1>5, ManyGoesOnHeaped, AndGoesOnHeaped
  <2> QED BY <2>1, <2>2, Unheard DEF Pending, Failing
<1> QED BY <1>1, <1>2, <1>3, <1>4, <1>5

LEMMA PassSteps ==
  ASSUME FunctionsKeep, Control, Heaped, Heard, ApplyFails \/ AndFails \/ Many1Fails
  PROVE  Heard'
<1>1. Failing /\ Failing' /\ result' = result /\ reported' = reported
  BY DEF ApplyFails, AndFails, Many1Fails, Returned, Leave, Return, history, Failing
<1>2. PICK d : d = heap.blocks[result].data
  OBVIOUS
<1>3. CASE ApplyFails
  <2>1. heap' = heap
    BY <1>3 DEF ApplyFails, Leave, Return
  <2>2. result # Null => Answers(d)
    BY <1>1, <1>2, <2>1 DEF Answers
  <2>3. Stays
    BY <1>3, PassedHeaped
  <2> QED BY <1>1, <1>2, <2>2, <2>3, HeardPass
<1>4. CASE AndFails
  <2>1. Stays /\ (result # Null => Answers(d))
    BY <1>2, <1>4, AndFailsHeaped DEF FunctionsKeep
  <2> QED BY <1>1, <1>2, <2>1, HeardPass
<1>5. CASE Many1Fails
  <2>1. PICK e : e = Repeated(d)
    OBVIOUS
  <2>2. Stays /\ (result # Null => Answers(e))
    BY <1>2, <1>5, <2>1, Many1FailsHeaped
  <2> QED BY <1>1, <1>2, <2>1, <2>2, HeardPass
<1> QED BY <1>3, <1>4, <1>5

LEMMA MergeSteps ==
  ASSUME FunctionsKeep, Control, Heaped, Heard, MaybeLifts \/ ManyEnds \/ OrTriesNext \/ OrFails
  PROVE  Heard'
<1>1. Failing
  BY DEF MaybeLifts, ManyEnds, OrTriesNext, OrFails, Returned, Failing
<1>2. Merges
  BY MaybeLiftsHeaped, ManyEndsHeaped, OrTriesNextHeaped, OrFailsHeaped DEF FunctionsKeep
<1>3. reported' = reported /\ ctl' # "done" /\ ~ Pending'
  <2>1. CASE MaybeLifts \/ ManyEnds
    BY <2>1 DEF MaybeLifts, ManyEnds, Leave, Return, history, Pending, Failing
  <2>2. CASE OrTriesNext
    BY <2>2 DEF OrTriesNext, Run, history, Pending, Failing
  <2>3. CASE OrFails
    BY <2>3 DEF OrFails, Leave, Return, history, Pending, Failing
  <2> QED BY <2>1, <2>2, <2>3
<1> QED BY <1>1, <1>2, <1>3, HeardMerge

LEMMA HeardStutter ==
  ASSUME Heard, UNCHANGED vars
  PROVE  Heard'
BY DEF Heard, Pending, Failing, vars

LEMMA HeardStep ==
  ASSUME FunctionsKeep, Control, Heaped, Heard, [Next]_vars
  PROVE  Heard'
<1>1. CASE TooDeep \/ UndefinedFails
  BY <1>1, FailsHeard
<1>2. CASE \/ TakeChar \/ RefuseChar \/ TakeString \/ RefuseString \/ StartOfInput \/ EndOfInput
           \/ OpenOne \/ OpenExpect \/ OpenOr \/ OpenAnd
           \/ ApplySucceeds \/ ExpectSucceeds \/ MaybeTakes \/ ManyGoesOn
           \/ OrTakes \/ AndGoesOn \/ AndSucceeds
  BY <1>2, UnheardSteps
<1>3. CASE ApplyFails \/ AndFails \/ Many1Fails
  BY <1>3, PassSteps
<1>4. CASE MaybeLifts \/ ManyEnds \/ OrTriesNext \/ OrFails
  BY <1>4, MergeSteps
<1>5. CASE ExpectFails
  BY <1>5, ExpectFailsHeard
<1>6. CASE Finish
  BY <1>6, FinishHeard
<1>7. CASE Finished \/ UNCHANGED vars
  BY <1>7, HeardStutter DEF Finished
<1> QED BY <1>1, <1>2, <1>3, <1>4, <1>5, <1>6, <1>7 DEF Next

LEMMA InvHeard ==
  ASSUME FunctionsKeep
  PROVE  Spec => []Heard
<1>1. Init => Heard
  BY HeardInit
<1>2. Control /\ Heaped /\ Heard /\ [Next]_vars => Heard'
  BY HeardStep
<1> QED BY <1>1, <1>2, InvControl, InvHeaped, PTL DEF Spec

-------------------------------------------------------------------------------
(* The error that a failing parse returns is about the furthest place at   *)
(* which something was expected, and names all that was expected there.    *)
THEOREM InvFurthestError ==
  ASSUME FunctionsKeep
  PROVE  Spec => []FurthestError
<1>1. Heard => FurthestError
  <2> SUFFICES ASSUME Heard, ctl = "done", ~ ok, reported # {}, heap.blocks[result].data.failure = NoFailure
               PROVE  LET e == heap.blocks[result].data
                          furthest == Max({r[1] : r \in reported})
                      IN  /\ e.pos = furthest
                          /\ UNION {m.names : m \in e.expected} = {r[2] : r \in {q \in reported : q[1] = furthest}}
    BY DEF FurthestError
  <2>1. PICK e, places : e = heap.blocks[result].data /\ places = {r[1] : r \in reported}
    OBVIOUS
  <2>2. Tells(e, reported) /\ e.failure = NoFailure
    BY <2>1 DEF Heard
  <2>3. Names(e) # {} /\ Names(e) = ReportedAt(reported, e.pos) /\ e.pos \in Int
    BY <2>2 DEF Tells, IsError
  <2>4. e.pos \in places /\ \A at \in places : at \in Int /\ at <= e.pos
    BY <2>1, <2>2, <2>3 DEF Tells, ReportedAt
  <2>5. Max(places) = e.pos
    <3>1. \A x \in places : (\A y \in places : x >= y) => x = e.pos
      BY <2>3, <2>4
    <3>2. \E x \in places : \A y \in places : x >= y
      BY <2>3, <2>4
    <3> QED BY <3>1, <3>2 DEF Max
  <2> QED BY <2>1, <2>3, <2>5 DEF Names, ReportedAt
<1> QED BY <1>1, InvHeard, PTL
===============================================================================
