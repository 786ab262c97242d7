------------------------------- MODULE MpcProofs -------------------------------
(***************************************************************************)
(* The engine on any closed grammar, any texts and any limit on the depth: *)
(* where it is in the input, its marks, and that what fails gives back the *)
(* input.                                                                  *)
(***************************************************************************)
EXTENDS MpcKinds, SequenceTheorems, FiniteSetTheorems, TLAPS

(***************************************************************************)
(* Sequences whose elements are of no common type.                         *)
(***************************************************************************)
IsSeq(s) == s \in Seq(ToSet(s))

LEMMA SeqOfAnything ==
  ASSUME NEW S, NEW s \in Seq(S)
  PROVE  IsSeq(s)
<1> DEFINE T == ToSet(s)
<1>1. \A k \in 1 .. Len(s) : s[k] \in T
  BY DEF ToSet
<1> HIDE DEF T
<1>2. s \in Seq(T)
  BY <1>1
<1> QED BY <1>2 DEF IsSeq, T

LEMMA LenFacts ==
  ASSUME NEW s, IsSeq(s)
  PROVE  Len(s) \in Nat /\ DOMAIN s = 1 .. Len(s) /\ (s # << >> => Len(s) \in Nat \ {0})
BY DEF IsSeq

LEMMA AppendFacts ==
  ASSUME NEW s, IsSeq(s), NEW x
  PROVE  LET t == Append(s, x)
         IN  /\ IsSeq(t) /\ t # << >> /\ Len(t) = Len(s) + 1
             /\ \A k \in 1 .. Len(s) : t[k] = s[k]
             /\ t[Len(t)] = x /\ Front(t) = s
<1> DEFINE S == ToSet(s) \cup {x}
           t == Append(s, x)
<1>1. s \in Seq(S)
  <2>1. s \in Seq(ToSet(s))
    BY DEF IsSeq
  <2> HIDE DEF IsSeq
  <2> QED BY <2>1, SeqMonotonic
<1> HIDE DEF S
<1>2. x \in S
  BY DEF S
<1>3. t \in Seq(S) /\ t # << >> /\ Len(t) = Len(s) + 1 /\ Len(s) \in Nat
      /\ (\A k \in 1 .. Len(s) : t[k] = s[k]) /\ t[Len(t)] = x
  BY <1>1, <1>2
<1> HIDE DEF t
<1>4. Front(t) = s
  <2>1. /\ Front(t) \in Seq(S) /\ Len(Front(t)) = (IF 1 <= Len(t) - 1 THEN Len(t) - 1 - 1 + 1 ELSE 0)
        /\ \A k \in 1 .. Len(t) - 1 - 1 + 1 : Front(t)[k] = t[1 + k - 1]
    <3>1. \A k \in 1 .. Len(t) - 1 : t[k] \in S
      BY <1>3
    <3> QED BY <1>3, <3>1, SubSeqProperties DEF Front
  <2>2. Len(Front(t)) = Len(s) /\ \A k \in 1 .. Len(s) : Front(t)[k] = s[k]
    BY <1>3, <2>1
  <2> QED BY <1>1, <2>1, <2>2, SeqEqual
<1> QED BY <1>3, <1>4, SeqOfAnything DEF t

LEMMA FrontFacts ==
  ASSUME NEW s, IsSeq(s), s # << >>
  PROVE  /\ IsSeq(Front(s)) /\ Len(Front(s)) = Len(s) - 1 /\ Len(s) \in Nat \ {0}
         /\ \A k \in 1 .. Len(s) - 1 : Front(s)[k] = s[k]
         /\ s = Append(Front(s), s[Len(s)])
<1> DEFINE S == ToSet(s)
<1>1. s \in Seq(S) /\ Len(s) \in Nat \ {0}
  BY DEF IsSeq
<1> HIDE DEF S
<1>2. /\ Front(s) \in Seq(S) /\ Len(Front(s)) = (IF 1 <= Len(s) - 1 THEN Len(s) - 1 - 1 + 1 ELSE 0)
      /\ \A k \in 1 .. Len(s) - 1 - 1 + 1 : Front(s)[k] = s[1 + k - 1]
  <2>1. \A k \in 1 .. Len(s) - 1 : s[k] \in S
    BY <1>1
  <2> QED BY <1>1, <2>1, SubSeqProperties DEF Front
<1> DEFINE f == Front(s)
           n == Len(s)
<1>3. Len(f) = n - 1 /\ \A k \in 1 .. n - 1 : f[k] = s[k]
  <2> n \in Nat \ {0}
    BY <1>1
  <2> HIDE DEF f, n
  <2>1. Len(f) = (IF 1 <= n - 1 THEN n - 1 - 1 + 1 ELSE 0)
        /\ \A k \in 1 .. n - 1 - 1 + 1 : f[k] = s[1 + k - 1]
    BY <1>2 DEF f, n
  <2>2. n - 1 - 1 + 1 = n - 1 /\ \A k \in 1 .. n - 1 : 1 + k - 1 = k
    OBVIOUS
  <2> QED BY <2>1, <2>2
<1>4. s = Append(Front(s), s[Len(s)])
  BY <1>1, <1>2, <1>3
<1> QED BY <1>1, <1>2, <1>3, <1>4, SeqOfAnything

LEMMA ReplaceLast ==
  ASSUME NEW s, IsSeq(s), s # << >>, NEW x
  PROVE  [s EXCEPT ![Len(s)] = x] = Append(Front(s), x)
<1> DEFINE S == ToSet(s) \cup {x}
           t == [s EXCEPT ![Len(s)] = x]
<1>1. s \in Seq(S)
  <2>1. s \in Seq(ToSet(s))
    BY DEF IsSeq
  <2> QED BY <2>1, SeqMonotonic
<1> HIDE DEF S
<1>2. x \in S /\ Len(s) \in 1 .. Len(s)
  <2>1. x \in S
    BY DEF S
  <2> QED BY <1>1, <2>1, EmptySeq
<1>3. t \in Seq(S) /\ Len(t) = Len(s) /\ \A k \in 1 .. Len(s) : t[k] = IF k = Len(s) THEN x ELSE s[k]
  BY <1>1, <1>2, ExceptSeq
<1> HIDE DEF t
<1>4. IsSeq(Front(s)) /\ Len(Front(s)) = Len(s) - 1 /\ \A k \in 1 .. Len(s) - 1 : Front(s)[k] = s[k]
  BY FrontFacts
<1> DEFINE f == Front(s)
           u == Append(f, x)
<1>5. f \in Seq(S)
  <2>1. \A k \in 1 .. Len(s) - 1 : s[k] \in S
    BY <1>1
  <2> QED BY <1>1, <2>1, SubSeqProperties DEF Front
<1> HIDE DEF f
<1>6. u \in Seq(S) /\ Len(u) = Len(f) + 1 /\ (\A k \in 1 .. Len(f) : u[k] = f[k]) /\ u[Len(f) + 1] = x
  BY <1>2, <1>5
<1> HIDE DEF u
<1>7. Len(u) = Len(t) /\ \A k \in 1 .. Len(t) : t[k] = u[k]
  BY <1>2, <1>3, <1>4, <1>6 DEF f
<1>8. t = u
  BY <1>3, <1>6, <1>7, SeqEqual
<1> QED BY <1>8 DEF t, u, f
(***************************************************************************)
(* The activations.                                                        *)
(***************************************************************************)
(* The parser that an activation is running, and the one that the whole    *)
(* parse is at.                                                            *)
Child(f) == IF f.p.type \in ListTypes THEN f.p.xs[f.j] ELSE f.p.x
Asked(s, r) == IF s = << >> THEN r ELSE Child(Last(s))

(* Activations that run a child only where they have begun themselves.     *)
Still(f) ==
  \/ f.p.type \in {"EXPECT", "APPLY", "MAYBE", "OR"}
  \/ f.p.type \in {"MANY", "MANY1"} /\ f.results = << >>

FrameOK(f, t) ==
  /\ f = [p |-> f.p, j |-> f.j, results |-> f.results, room |-> f.room, entry |-> f.entry]
  /\ f.p \in AllParsers /\ f.p.type \in SingleTypes \cup ListTypes
  /\ f.j \in Nat /\ (f.p.type \in ListTypes => f.j \in 1 .. Len(f.p.xs))
  /\ IsSeq(f.results) /\ (f.p.type = "AND" => Len(f.results) = f.j - 1)
  /\ f.entry \in InputStates(t)

(* An activation and the one that it waits for.                            *)
Linked(f, g) == g.p = Definition(Child(f)) /\ (Still(f) => g.entry = f.entry)

StackOK(s, t, r) ==
  /\ IsSeq(s)
  /\ \A d \in 1 .. Len(s) : FrameOK(s[d], t)
  /\ s # << >> => s[1].p = Definition(r)
  /\ \A d \in 1 .. Len(s) - 1 : Linked(s[d], s[d + 1])

LEMMA DefinitionFacts ==
  ASSUME NEW p \in AllParsers
  PROVE  /\ Definition(p) \in AllParsers /\ Definition(p).type # "NAMED"
         /\ p \in Unfailing => Definition(p) = p
<1>1. Closed(p)
  BY ClosedAssumption
<1> QED BY <1>1, UnfailingAssumption DEF Closed, Definition

LEMMA ChildFacts ==
  ASSUME NEW f, NEW t, FrameOK(f, t)
  PROVE  Child(f) \in AllParsers
<1>1. Closed(f.p)
  BY ClosedAssumption DEF FrameOK
<1>2. CASE f.p.type \in ListTypes
  <2>1. f.p.xs \in Seq(AllParsers) /\ f.j \in 1 .. Len(f.p.xs)
    BY <1>1, <1>2 DEF Closed, FrameOK
  <2> QED BY <2>1, <1>2, ElementOfSeq DEF Child
<1>3. CASE f.p.type \notin ListTypes
  BY <1>1, <1>3 DEF Closed, FrameOK, Child
<1> QED BY <1>2, <1>3

LEMMA AskedFacts ==
  ASSUME NEW s, NEW t, NEW r \in Roots, StackOK(s, t, r)
  PROVE  Asked(s, r) \in AllParsers
<1>1. CASE s = << >>
  BY <1>1, ClosedAssumption DEF Asked
<1>2. CASE s # << >>
  <2>1. Len(s) \in 1 .. Len(s)
    BY <1>2, LenFacts DEF StackOK
  <2>2. FrameOK(Last(s), t)
    BY <2>1 DEF StackOK, Last
  <2> QED BY <1>2, <2>2, ChildFacts DEF Asked
<1> QED BY <1>1, <1>2

LEMMA Push ==
  ASSUME NEW s, NEW t, NEW r, NEW f, StackOK(s, t, r), FrameOK(f, t), f.p = Definition(Asked(s, r)),
         s # << >> /\ Still(Last(s)) => f.entry = Last(s).entry
  PROVE  StackOK(Append(s, f), t, r)
<1> DEFINE u == Append(s, f)
           n == Len(s)
<1>1. IsSeq(u) /\ u # << >> /\ Len(u) = n + 1 /\ (\A k \in 1 .. n : u[k] = s[k]) /\ u[n + 1] = f
  BY AppendFacts DEF StackOK
<1>2. n \in Nat /\ (s # << >> => n \in Nat \ {0})
  BY LenFacts DEF StackOK
<1>0. s = << >> => n = 0
  OBVIOUS
<1> HIDE DEF u, n
<1>3. \A d \in 1 .. n + 1 : FrameOK(u[d], t)
  <2> SUFFICES ASSUME NEW d \in 1 .. n + 1 PROVE FrameOK(u[d], t)
    OBVIOUS
  <2>1. CASE d = n + 1
    BY <1>1, <2>1
  <2>2. CASE d # n + 1
    <3>1. d \in 1 .. n
      BY <1>2, <2>2
    <3> QED BY <1>1, <3>1 DEF StackOK, n
  <2> QED BY <2>1, <2>2
<1>4. u[1].p = Definition(r)
  <2>1. CASE s = << >>
    BY <1>0, <1>1, <2>1 DEF Asked
  <2>2. CASE s # << >>
    <3>1. 1 \in 1 .. n
      BY <1>2, <2>2
    <3> QED BY <1>1, <3>1, <2>2 DEF StackOK
  <2> QED BY <2>1, <2>2
<1>5. \A d \in 1 .. n : Linked(u[d], u[d + 1])
  <2> SUFFICES ASSUME NEW d \in 1 .. n PROVE Linked(u[d], u[d + 1])
    OBVIOUS
  <2>1. CASE d = n
    <3>1. s # << >>
      BY <1>0, <1>2
    <3>2. u[d] = Last(s) /\ u[d + 1] = f
      BY <1>1, <2>1 DEF Last, n
    <3> QED BY <3>1, <3>2 DEF Linked, Asked
  <2>2. CASE d # n
    <3>1. d \in 1 .. n - 1 /\ d + 1 \in 1 .. n
      BY <1>2, <2>2
    <3> QED BY <1>1, <3>1 DEF StackOK, n
  <2> QED BY <2>1, <2>2
<1>6. Len(u) - 1 = n
  BY <1>1, <1>2
<1> QED BY <1>1, <1>3, <1>4, <1>5, <1>6 DEF StackOK, u

LEMMA Pop ==
  ASSUME NEW s, NEW t, NEW r, StackOK(s, t, r), s # << >>
  PROVE  /\ StackOK(Front(s), t, r) /\ FrameOK(Last(s), t)
         /\ Last(s).p = Definition(Asked(Front(s), r))
         /\ Front(s) # << >> /\ Still(Last(Front(s))) => Last(s).entry = Last(Front(s)).entry
<1> DEFINE u == Front(s)
           n == Len(s)
<1>1. IsSeq(u) /\ Len(u) = n - 1 /\ n \in Nat \ {0} /\ \A k \in 1 .. n - 1 : u[k] = s[k]
  BY FrontFacts DEF StackOK
<1>2. u # << >> => Len(u) \in Nat \ {0}
  BY <1>1, LenFacts
<1>0. u = << >> => Len(u) = 0
  OBVIOUS
<1> HIDE DEF u, n
<1>3. \A d \in 1 .. n - 1 : FrameOK(u[d], t)
  <2> SUFFICES ASSUME NEW d \in 1 .. n - 1 PROVE FrameOK(u[d], t)
    OBVIOUS
  <2>1. d \in 1 .. n
    BY <1>1
  <2> QED BY <1>1, <2>1 DEF StackOK, n
<1>4. u # << >> => u[1].p = Definition(r)
  <2> SUFFICES ASSUME u # << >> PROVE u[1].p = Definition(r)
    OBVIOUS
  <2>1. 1 \in 1 .. n - 1
    BY <1>1, <1>2
  <2> QED BY <1>1, <2>1 DEF StackOK
<1>5. \A d \in 1 .. n - 1 - 1 : Linked(u[d], u[d + 1])
  <2> SUFFICES ASSUME NEW d \in 1 .. n - 1 - 1 PROVE Linked(u[d], u[d + 1])
    OBVIOUS
  <2>1. d \in 1 .. n - 1 /\ d + 1 \in 1 .. n - 1
    BY <1>1
  <2> QED BY <1>1, <2>1 DEF StackOK, n
<1>6. StackOK(u, t, r)
  BY <1>1, <1>3, <1>4, <1>5 DEF StackOK
<1>7. FrameOK(Last(s), t)
  <2>1. n \in 1 .. n
    BY <1>1
  <2> QED BY <2>1 DEF StackOK, Last, n
<1>8. CASE u = << >>
  <2>1. n = 1
    BY <1>0, <1>1, <1>8
  <2> QED BY <1>6, <1>7, <1>8, <2>1 DEF StackOK, Asked, Last, u, n
<1>9. CASE u # << >>
  <2>1. n - 1 \in 1 .. n - 1 /\ n - 1 + 1 = n
    BY <1>1, <1>2, <1>9
  <2>2. Linked(s[n - 1], s[n])
    BY <2>1 DEF StackOK, n
  <2>3. Last(u) = s[n - 1] /\ Last(s) = s[n]
    BY <1>1, <2>1 DEF Last, n
  <2> QED BY <1>6, <1>7, <1>9, <2>2, <2>3 DEF Linked, Asked, u
<1> QED BY <1>8, <1>9

(***************************************************************************)
(* Counting the activations of a type, and the marks of the ANDs.          *)
(***************************************************************************)
LEMMA AmongType ==
  ASSUME NEW s, NEW type, NEW d \in Nat
  PROVE  Among(s, type, d) \in 0 .. d /\ IsFiniteSet({c \in 1 .. d : s[c].p.type = type})
<1>1. IsFiniteSet(1 .. d) /\ Cardinality(1 .. d) = d
  BY FS_Interval
<1>2. {c \in 1 .. d : s[c].p.type = type} \in SUBSET (1 .. d)
  OBVIOUS
<1>3. /\ IsFiniteSet({c \in 1 .. d : s[c].p.type = type})
      /\ Cardinality({c \in 1 .. d : s[c].p.type = type}) <= d
  BY <1>1, <1>2, FS_Subset
<1> QED BY <1>3, FS_CardinalityType DEF Among

LEMMA AmongNext ==
  ASSUME NEW s, NEW type, NEW d \in Nat
  PROVE  /\ s[d + 1].p.type = type => Among(s, type, d + 1) = Among(s, type, d) + 1
         /\ s[d + 1].p.type # type => Among(s, type, d + 1) = Among(s, type, d)
<1> DEFINE A == {c \in 1 .. d : s[c].p.type = type}
           B == {c \in 1 .. d + 1 : s[c].p.type = type}
<1>1. IsFiniteSet(A) /\ d + 1 \notin A
  <2>1. A \in SUBSET (1 .. d) /\ d + 1 \notin A
    OBVIOUS
  <2>2. IsFiniteSet(1 .. d)
    BY FS_Interval
  <2> HIDE DEF A
  <2> QED BY <2>1, <2>2, FS_Subset
<1>2. Among(s, type, d) = Cardinality(A) /\ Among(s, type, d + 1) = Cardinality(B)
  BY DEF Among
<1>3. s[d + 1].p.type = type => B = A \cup {d + 1}
  OBVIOUS
<1>4. s[d + 1].p.type # type => B = A
  OBVIOUS
<1>5. Cardinality(A \cup {d + 1}) = Cardinality(A) + 1
  BY <1>1, FS_AddElement
<1> HIDE DEF A, B
<1> QED BY <1>2, <1>3, <1>4, <1>5

LEMMA AmongSame ==
  ASSUME NEW s, NEW u, NEW type, NEW d \in Nat, \A k \in 1 .. d : s[k].p.type = u[k].p.type
  PROVE  Among(s, type, d) = Among(u, type, d)
<1>1. {c \in 1 .. d : s[c].p.type = type} = {c \in 1 .. d : u[c].p.type = type}
  OBVIOUS
<1> QED BY <1>1 DEF Among

LEMMA AmongGrows ==
  ASSUME NEW s, NEW type, NEW d \in Nat, NEW e \in 1 .. d, s[e].p.type = type
  PROVE  Among(s, type, e) \in 1 .. Among(s, type, d)
<1> DEFINE A == {c \in 1 .. d : s[c].p.type = type}
           B == {c \in 1 .. e : s[c].p.type = type}
<1>1. A \in SUBSET (1 .. d) /\ B \in SUBSET A /\ e \in B
  OBVIOUS
<1>2. Among(s, type, d) = Cardinality(A) /\ Among(s, type, e) = Cardinality(B)
  BY DEF Among
<1> HIDE DEF A, B
<1>3. IsFiniteSet(A)
  <2>1. IsFiniteSet(1 .. d)
    BY FS_Interval
  <2> QED BY <1>1, <2>1, FS_Subset
<1>4. IsFiniteSet(B) /\ Cardinality(B) <= Cardinality(A)
  BY <1>1, <1>3, FS_Subset
<1>5. Cardinality(B) \in Nat /\ Cardinality(A) \in Nat /\ Cardinality(B) # 0
  BY <1>1, <1>3, <1>4, FS_EmptySet, FS_CardinalityType
<1> QED BY <1>2, <1>4, <1>5

(* MarksFollowStack of a stack and its marks.                              *)
MarksOK(s, m) ==
  /\ IsSeq(m) /\ Len(m) = Among(s, "AND", Len(s))
  /\ \A d \in 1 .. Len(s) : s[d].p.type = "AND" => m[Among(s, "AND", d)] = s[d].entry

LEMMA AmongPushed ==
  ASSUME NEW s, IsSeq(s), NEW f, NEW type
  PROVE  /\ \A d \in 0 .. Len(s) : Among(Append(s, f), type, d) = Among(s, type, d)
         /\ f.p.type = type => Among(Append(s, f), type, Len(s) + 1) = Among(s, type, Len(s)) + 1
         /\ f.p.type # type => Among(Append(s, f), type, Len(s) + 1) = Among(s, type, Len(s))
<1> DEFINE n == Len(s)
           u == Append(s, f)
<1>1. n \in Nat /\ Len(u) = n + 1 /\ (\A k \in 1 .. n : u[k] = s[k]) /\ u[n + 1] = f
  BY LenFacts, AppendFacts
<1> HIDE DEF n, u
<1>2. \A d \in 0 .. n : Among(u, type, d) = Among(s, type, d)
  <2> SUFFICES ASSUME NEW d \in 0 .. n PROVE Among(u, type, d) = Among(s, type, d)
    OBVIOUS
  <2>1. d \in Nat /\ \A k \in 1 .. d : u[k].p.type = s[k].p.type
    BY <1>1
  <2> QED BY <2>1, AmongSame
<1>3. Among(u, type, n) = Among(s, type, n)
  BY <1>1, <1>2
<1>4. /\ u[n + 1].p.type = type => Among(u, type, n + 1) = Among(u, type, n) + 1
      /\ u[n + 1].p.type # type => Among(u, type, n + 1) = Among(u, type, n)
  BY <1>1, AmongNext
<1> QED BY <1>1, <1>2, <1>3, <1>4 DEF n, u

LEMMA MarksPushed ==
  ASSUME NEW s, NEW m, IsSeq(s), MarksOK(s, m), NEW f
  PROVE  /\ f.p.type = "AND" => MarksOK(Append(s, f), Append(m, f.entry))
         /\ f.p.type # "AND" => MarksOK(Append(s, f), m)
<1> DEFINE u == Append(s, f)
           n == Len(s)
           k == Append(m, f.entry)
<1>1. n \in Nat /\ Len(u) = n + 1 /\ (\A d \in 1 .. n : u[d] = s[d]) /\ u[n + 1] = f
  BY LenFacts, AppendFacts
<1>2. /\ \A d \in 0 .. n : Among(u, "AND", d) = Among(s, "AND", d)
      /\ f.p.type = "AND" => Among(u, "AND", n + 1) = Among(s, "AND", n) + 1
      /\ f.p.type # "AND" => Among(u, "AND", n + 1) = Among(s, "AND", n)
  BY AmongPushed
<1>3. IsSeq(m) /\ Len(m) = Among(s, "AND", n) /\ Len(m) \in Nat
  BY LenFacts DEF MarksOK
<1>4. /\ IsSeq(k) /\ Len(k) = Len(m) + 1
      /\ (\A i \in 1 .. Len(m) : k[i] = m[i]) /\ k[Len(m) + 1] = f.entry
  BY <1>3, AppendFacts
<1>5. \A d \in 1 .. n : s[d].p.type = "AND" =>
        Among(s, "AND", d) \in 1 .. Len(m) /\ m[Among(s, "AND", d)] = s[d].entry
  BY <1>1, <1>3, AmongGrows DEF MarksOK
<1> HIDE DEF u, n, k
<1>6. ASSUME f.p.type = "AND" PROVE MarksOK(u, k)
  <2>1. Len(k) = Among(u, "AND", Len(u))
    BY <1>1, <1>2, <1>3, <1>4, <1>6
  <2>2. ASSUME NEW d \in 1 .. Len(u), u[d].p.type = "AND" PROVE k[Among(u, "AND", d)] = u[d].entry
    <3>1. CASE d = n + 1
      BY <1>1, <1>2, <1>3, <1>4, <1>6, <3>1
    <3>2. CASE d # n + 1
      <4>1. d \in 1 .. n /\ d \in 0 .. n
        BY <1>1, <3>2
      <4> QED BY <1>1, <1>2, <1>4, <1>5, <2>2, <4>1
    <3> QED BY <3>1, <3>2
  <2> QED BY <1>4, <2>1, <2>2 DEF MarksOK
<1>7. ASSUME f.p.type # "AND" PROVE MarksOK(u, m)
  <2>1. Len(m) = Among(u, "AND", Len(u))
    BY <1>1, <1>2, <1>3, <1>7
  <2>2. ASSUME NEW d \in 1 .. Len(u), u[d].p.type = "AND" PROVE m[Among(u, "AND", d)] = u[d].entry
    <3>1. d \in 1 .. n /\ d \in 0 .. n
      BY <1>1, <1>7, <2>2
    <3> QED BY <1>1, <1>2, <1>5, <2>2, <3>1
  <2> QED BY <1>3, <2>1, <2>2 DEF MarksOK
<1> QED BY <1>6, <1>7 DEF u, k

LEMMA MarksPopped ==
  ASSUME NEW s, NEW m, IsSeq(s), s # << >>, MarksOK(s, m)
  PROVE  /\ Last(s).p.type = "AND" => m # << >> /\ Last(m) = Last(s).entry /\ MarksOK(Front(s), Front(m))
         /\ Last(s).p.type # "AND" => MarksOK(Front(s), m)
<1> DEFINE u == Front(s)
           n == Len(s) - 1
           f == Last(s)
<1>1. IsSeq(u) /\ n \in Nat /\ Len(u) = n /\ Len(s) = n + 1 /\ (\A d \in 1 .. n : u[d] = s[d]) /\ s = Append(u, f)
  BY FrontFacts DEF Last
<1>2. f = s[n + 1]
  BY <1>1 DEF Last
<1> HIDE DEF u, n, f
<1>0. /\ \A d \in 0 .. Len(u) : Among(Append(u, f), "AND", d) = Among(u, "AND", d)
      /\ f.p.type = "AND" => Among(Append(u, f), "AND", Len(u) + 1) = Among(u, "AND", Len(u)) + 1
      /\ f.p.type # "AND" => Among(Append(u, f), "AND", Len(u) + 1) = Among(u, "AND", Len(u))
  BY <1>1, AmongPushed
<1>3. \A d \in 0 .. n : Among(s, "AND", d) = Among(u, "AND", d)
  BY <1>0, <1>1
<1>4. /\ f.p.type = "AND" => Among(s, "AND", n + 1) = Among(u, "AND", n) + 1
      /\ f.p.type # "AND" => Among(s, "AND", n + 1) = Among(u, "AND", n)
  BY <1>0, <1>1
<1>5. Among(u, "AND", n) \in Nat
  <2>1. Among(u, "AND", n) \in 0 .. n
    BY <1>1, AmongType, Zenon
  <2> QED BY <1>1, <2>1
<1>6. IsSeq(m) /\ Len(m) \in Nat /\ Len(m) = Among(s, "AND", n + 1)
  BY <1>1, LenFacts DEF MarksOK
<1>7. ASSUME NEW d \in 1 .. n, u[d].p.type = "AND"
      PROVE  Among(u, "AND", d) \in 1 .. Among(u, "AND", n) /\ m[Among(u, "AND", d)] = u[d].entry
  <2>1. s[d].p.type = "AND" /\ d \in 1 .. Len(s) /\ d \in 0 .. n
    BY <1>1, <1>7
  <2>2. m[Among(s, "AND", d)] = s[d].entry
    BY <2>1 DEF MarksOK
  <2>3. Among(u, "AND", d) \in 1 .. Among(u, "AND", n)
    BY <1>1, <1>7, AmongGrows
  <2> QED BY <1>1, <1>3, <2>1, <2>2, <2>3
<1>8. ASSUME f.p.type = "AND" PROVE m # << >> /\ Last(m) = f.entry /\ MarksOK(u, Front(m))
  <2>1. Len(m) = Among(u, "AND", n) + 1
    BY <1>4, <1>6, <1>8
  <2>2. m # << >>
    BY <1>5, <2>1
  <2>3. Last(m) = f.entry
    <3>1. n + 1 \in 1 .. Len(s) /\ s[n + 1].p.type = "AND"
      BY <1>1, <1>2, <1>8
    <3> QED BY <1>2, <1>6, <3>1 DEF MarksOK, Last
  <2>4. IsSeq(Front(m)) /\ Len(Front(m)) = Len(m) - 1 /\ \A k \in 1 .. Len(m) - 1 : Front(m)[k] = m[k]
    BY <1>6, <2>2, FrontFacts
  <2>5. Len(m) - 1 = Among(u, "AND", n)
    BY <1>5, <2>1
  <2>6. \A d \in 1 .. n : u[d].p.type = "AND" => Front(m)[Among(u, "AND", d)] = u[d].entry
    BY <1>7, <2>4, <2>5
  <2> QED BY <1>1, <2>2, <2>3, <2>4, <2>5, <2>6 DEF MarksOK
<1>9. ASSUME f.p.type # "AND" PROVE MarksOK(u, m)
  BY <1>1, <1>4, <1>6, <1>7, <1>9 DEF MarksOK
<1> QED BY <1>8, <1>9 DEF u, f

(***************************************************************************)
(* The inductive invariant: TypeOK and MarksFollowStack, with what a step  *)
(* needs of the activations, and, for FailureRestores, that an activation  *)
(* which may fail as its child does finds the input where it has begun.    *)
(***************************************************************************)
Given == text \in Texts /\ source \in Sources /\ root \in Roots

Placed == state \in InputStates(text) /\ (source = "file" => file = state.pos)

Nested ==
  /\ StackOK(stack, text, root) /\ Len(stack) <= MaxDepth
  /\ suppress = Among(stack, "EXPECT", Len(stack))

Marked == MarksOK(stack, marks) /\ slots \in Nat /\ Len(marks) <= slots

Turn ==
  /\ ctl \in {"call", "return", "done"} /\ ok \in BOOLEAN
  /\ ctl = "call" => arg = Asked(stack, root)

Failing == ctl = "return" /\ ~ ok

Unmoved ==
  (ctl = "call" \/ Failing) /\ stack # << >> /\ Still(Last(stack)) => state = Last(stack).entry

Excused == Failing /\ Asked(stack, root) \in Unfailing => limited

Control == Given /\ Placed /\ Nested /\ Marked /\ Turn /\ Unmoved /\ Excused

(* What the steps do to it: a parser has answered at once, has begun to    *)
(* run a child, runs its next child, or returns.                           *)
LEMMA Answered ==
  ASSUME Control, ctl = "call", ctl' = "return", ok' \in BOOLEAN,
         UNCHANGED <<text, source, root, stack, marks, suppress>>,
         Placed', slots' \in Nat, Len(marks) <= slots',
         ~ ok' => state' = state /\ (arg \notin Unfailing \/ limited')
  PROVE  Control'
<1>1. Given' /\ Placed'
  BY DEF Control, Given
<1>2. Nested'
  BY DEF Control, Nested
<1>3. Marked'
  BY DEF Control, Marked
<1>4. Turn'
  BY DEF Control, Turn
<1>5. Unmoved'
  BY DEF Control, Unmoved, Failing
<1>6. Excused'
  BY DEF Control, Excused, Turn, Failing
<1> QED BY <1>1, <1>2, <1>3, <1>4, <1>5, <1>6 DEF Control

LEMMA Opened ==
  ASSUME Control, ctl = "call", UNCHANGED <<text, source, root, state, file, ctl, ok>>,
         Len(stack) < MaxDepth,
         NEW f, FrameOK(f, text), f.p = Definition(arg), f.entry = state,
         stack' = Append(stack, f), arg' = Child(f),
         marks' = IF f.p.type = "AND" THEN Append(marks, state) ELSE marks,
         slots' \in Nat, Len(marks') <= slots',
         suppress' = IF f.p.type = "EXPECT" THEN suppress + 1 ELSE suppress
  PROVE  Control'
<1>0. IsSeq(stack) /\ Len(stack) \in Nat /\ Len(stack') = Len(stack) + 1
      /\ stack' # << >> /\ Last(stack') = f
  BY LenFacts, AppendFacts DEF Control, Nested, StackOK, Last
<1>1. Given' /\ Placed'
  BY DEF Control, Given, Placed
<1>2. StackOK(stack', text', root')
  <2>1. StackOK(stack, text, root) /\ arg = Asked(stack, root)
    BY DEF Control, Nested, Turn
  <2>2. stack # << >> /\ Still(Last(stack)) => f.entry = Last(stack).entry
    BY DEF Control, Unmoved
  <2> QED BY <2>1, <2>2, Push
<1>3. Nested'
  <2>1. suppress' = Among(stack', "EXPECT", Len(stack'))
    BY <1>0, AmongPushed DEF Control, Nested
  <2>2. Len(stack') <= MaxDepth
    BY <1>0, EngineAssumption
  <2> QED BY <1>2, <2>1, <2>2 DEF Nested
<1>4. Marked'
  <2>1. MarksOK(stack', marks')
    BY <1>0, MarksPushed DEF Control, Marked
  <2> QED BY <2>1 DEF Marked
<1>5. Turn'
  BY <1>0 DEF Control, Turn, Asked
<1>6. Unmoved' /\ Excused'
  BY <1>0 DEF Unmoved, Excused, Failing
<1> QED BY <1>1, <1>3, <1>4, <1>5, <1>6 DEF Control

LEMMA Exchange ==
  ASSUME NEW s, NEW t, NEW r, NEW m, StackOK(s, t, r), s # << >>, MarksOK(s, m),
         NEW f, FrameOK(f, t), f.p = Last(s).p, f.entry = Last(s).entry, Still(f) => Still(Last(s)),
         NEW v, v = Append(Front(s), f)
  PROVE  /\ StackOK(v, t, r) /\ MarksOK(v, m) /\ v # << >> /\ Last(v) = f /\ Len(v) = Len(s)
         /\ Among(v, "EXPECT", Len(v)) = Among(s, "EXPECT", Len(s))
<1> DEFINE u == Front(s)
           g == Last(s)
<1>0. IsSeq(s)
  BY DEF StackOK
<1>1. /\ StackOK(u, t, r) /\ g.p = Definition(Asked(u, r))
      /\ u # << >> /\ Still(Last(u)) => g.entry = Last(u).entry
  BY Pop
<1>2. IsSeq(u) /\ Len(u) \in Nat /\ Len(s) = Len(u) + 1 /\ s = Append(u, g)
  BY <1>0, FrontFacts DEF Last
<1>3. v = Append(u, f)
  OBVIOUS
<1>4. v # << >> /\ Last(v) = f /\ Len(v) = Len(u) + 1
  BY <1>2, <1>3, AppendFacts DEF Last
<1>5. f.p.type = "AND" => m # << >> /\ Last(m) = f.entry /\ MarksOK(u, Front(m))
  BY <1>0, MarksPopped
<1>6. f.p.type # "AND" => MarksOK(u, m)
  BY <1>0, MarksPopped
<1>7. IsSeq(m)
  BY DEF MarksOK
<1> HIDE DEF u, g
<1>8. StackOK(v, t, r)
  <2>1. f.p = Definition(Asked(u, r)) /\ (u # << >> /\ Still(Last(u)) => f.entry = Last(u).entry)
    BY <1>1 DEF g
  <2>2. StackOK(Append(u, f), t, r)
    BY <1>1, <2>1, Push
  <2> QED BY <1>3, <2>2
<1>9. ASSUME NEW type PROVE Among(v, type, Len(v)) = Among(s, type, Len(s))
  <2>1. /\ f.p.type = type => Among(Append(u, f), type, Len(u) + 1) = Among(u, type, Len(u)) + 1
        /\ f.p.type # type => Among(Append(u, f), type, Len(u) + 1) = Among(u, type, Len(u))
    BY <1>2, AmongPushed
  <2>2. /\ g.p.type = type => Among(Append(u, g), type, Len(u) + 1) = Among(u, type, Len(u)) + 1
        /\ g.p.type # type => Among(Append(u, g), type, Len(u) + 1) = Among(u, type, Len(u))
    BY <1>2, AmongPushed
  <2>3. f.p = g.p
    BY DEF g
  <2> QED BY <1>2, <1>3, <1>4, <2>1, <2>2, <2>3
<1>10. MarksOK(v, m)
  <2>1. CASE f.p.type = "AND"
    <3>1. m = Append(Front(m), f.entry)
      BY <1>5, <1>7, <2>1, FrontFacts DEF Last
    <3>2. MarksOK(Append(u, f), Append(Front(m), f.entry))
      BY <1>2, <1>5, <2>1, MarksPushed
    <3> QED BY <1>3, <3>1, <3>2
  <2>2. CASE f.p.type # "AND"
    <3>1. MarksOK(u, m)
      BY <1>6, <2>2
    <3>2. MarksOK(Append(u, f), m)
      BY <1>2, <2>2, <3>1, MarksPushed
    <3> QED BY <1>3, <3>2
  <2> QED BY <2>1, <2>2
<1> QED BY <1>2, <1>4, <1>8, <1>9, <1>10

LEMMA Resumed ==
  ASSUME Control, ctl = "return", ctl' = "call", stack # << >>,
         UNCHANGED <<text, source, root, state, file, marks, slots, suppress, ok>>,
         NEW f, FrameOK(f, text), f.p = Last(stack).p, f.entry = Last(stack).entry,
         stack' = [stack EXCEPT ![Len(stack)] = f], arg' = Child(f),
         Still(f) => ~ ok /\ Still(Last(stack))
  PROVE  Control'
<1>1. PICK v : v = stack'
  OBVIOUS
<1>2. /\ StackOK(v, text, root) /\ MarksOK(v, marks) /\ v # << >> /\ Last(v) = f /\ Len(v) = Len(stack)
      /\ Among(v, "EXPECT", Len(v)) = Among(stack, "EXPECT", Len(stack))
  <2>1. StackOK(stack, text, root) /\ MarksOK(stack, marks)
    BY DEF Control, Nested, Marked
  <2>2. v = Append(Front(stack), f) /\ (Still(f) => Still(Last(stack)))
    <3>1. IsSeq(stack)
      BY <2>1 DEF StackOK
    <3> QED BY <1>1, <3>1, ReplaceLast
  <2> QED BY <2>1, <2>2, Exchange
<1>3. Given' /\ Placed'
  BY DEF Control, Given, Placed
<1>4. Nested'
  BY <1>1, <1>2 DEF Control, Nested
<1>5. Marked'
  BY <1>1, <1>2 DEF Control, Marked
<1>6. Turn'
  BY <1>1, <1>2 DEF Control, Turn, Asked
<1>7. Unmoved' /\ Excused'
  BY <1>1, <1>2 DEF Control, Unmoved, Excused, Failing
<1> QED BY <1>3, <1>4, <1>5, <1>6, <1>7 DEF Control

LEMMA Left ==
  ASSUME Control, ctl = "return", ctl' = "return", ok' \in BOOLEAN, stack # << >>,
         UNCHANGED <<text, source, root>>, stack' = Front(stack), Placed',
         marks' = IF Last(stack).p.type = "AND" THEN Front(marks) ELSE marks,
         slots' \in Nat, Len(marks') <= slots',
         suppress' = IF Last(stack).p.type = "EXPECT" THEN suppress - 1 ELSE suppress,
         ~ ok' => ~ ok /\ state' = Last(stack).entry /\ Last(stack).p.type \notin {"MAYBE", "MANY"},
         limited => limited'
  PROVE  Control'
<1> DEFINE u == Front(stack)
           f == Last(stack)
<1>0. StackOK(stack, text, root) /\ IsSeq(stack) /\ Len(stack) \in Nat
  BY LenFacts DEF Control, Nested, StackOK
<1>1. /\ StackOK(u, text, root) /\ FrameOK(f, text) /\ f.p = Definition(Asked(u, root))
      /\ u # << >> /\ Still(Last(u)) => f.entry = Last(u).entry
  BY <1>0, Pop
<1>2. IsSeq(u) /\ Len(u) \in Nat /\ Len(stack) = Len(u) + 1 /\ stack = Append(u, f)
  BY <1>0, FrontFacts DEF Last
<1>3. Given' /\ Placed'
  BY DEF Control, Given
<1>4. Nested'
  <2>1. Among(u, "EXPECT", Len(u)) = suppress'
    <3>1. /\ f.p.type = "EXPECT" => suppress = Among(u, "EXPECT", Len(u)) + 1
          /\ f.p.type # "EXPECT" => suppress = Among(u, "EXPECT", Len(u))
      <4>1. /\ f.p.type = "EXPECT" => Among(Append(u, f), "EXPECT", Len(u) + 1) = Among(u, "EXPECT", Len(u)) + 1
            /\ f.p.type # "EXPECT" => Among(Append(u, f), "EXPECT", Len(u) + 1) = Among(u, "EXPECT", Len(u))
        BY <1>2, AmongPushed
      <4>2. suppress = Among(stack, "EXPECT", Len(stack))
        BY DEF Control, Nested
      <4> HIDE DEF u, f
      <4> QED BY <1>2, <4>1, <4>2
    <3>2. Among(u, "EXPECT", Len(u)) \in 0 .. Len(u)
      BY <1>2, AmongType
    <3> HIDE DEF u
    <3> QED BY <3>1, <3>2
  <2> QED BY <1>1, <1>2, <2>1, EngineAssumption DEF Control, Nested
<1>5. Marked'
  <2>1. MarksOK(u, marks')
    BY <1>0, MarksPopped DEF Control, Marked
  <2> QED BY <2>1 DEF Marked
<1>6. Turn'
  BY DEF Turn
<1>7. Unmoved'
  BY <1>1 DEF Unmoved, Failing
<1>8. Excused'
  <2> SUFFICES ASSUME ~ ok', Asked(u, root) \in Unfailing PROVE limited
    BY DEF Control, Excused, Failing
  <2>1. Asked(u, root) \in AllParsers
    BY <1>1, AskedFacts DEF Control, Given
  <2>2. f.p = Asked(u, root)
    BY <1>1, <2>1, DefinitionFacts
  <2>3. f.p.type \in {"EXPECT", "APPLY"} /\ f.p.x \in Unfailing
    BY <2>1, <2>2, UnfailingAssumption
  <2>4. Asked(stack, root) = f.p.x
    BY <2>3 DEF Asked, Child, ListTypes
  <2> QED BY <2>3, <2>4 DEF Control, Excused, Failing
<1> QED BY <1>3, <1>4, <1>5, <1>6, <1>7, <1>8 DEF Control

(***************************************************************************)
(* The steps one by one.                                                   *)
(***************************************************************************)
LEMMA RoomForMark ==
  ASSUME NEW n \in Nat, slots \in Nat
  PROVE  SlotsForMark(n) \in Nat /\ n <= SlotsForMark(n)
<1>1. n \div 2 \in Nat
  OBVIOUS
<1> QED BY <1>1 DEF SlotsForMark

LEMMA RoomAfterUnmark ==
  ASSUME NEW n \in Nat, NEW s \in Nat, n <= s
  PROVE  SlotsAfterUnmark(n, s) \in Nat /\ n <= SlotsAfterUnmark(n, s)
BY EngineAssumption DEF SlotsAfterUnmark

LEMMA Asking ==
  ASSUME Control, ctl = "call"
  PROVE  /\ arg \in AllParsers /\ Definition(arg) \in AllParsers
         /\ Definition(arg).type \notin {"MAYBE", "MANY", "EXPECT", "APPLY"} => arg \notin Unfailing
<1>1. arg = Asked(stack, root) /\ StackOK(stack, text, root) /\ root \in Roots
  BY DEF Control, Turn, Nested, Given
<1>2. arg \in AllParsers
  BY <1>1, AskedFacts
<1> QED BY <1>2, DefinitionFacts, UnfailingAssumption

LEMMA Position ==
  ASSUME Control
  PROVE  /\ text \in Seq(ToSet(text)) /\ Len(text) \in Nat /\ EndChar \notin ToSet(text)
         /\ state.pos \in 0 .. Len(text) /\ state.term \in BOOLEAN /\ state.last \in ToSet(text) \cup {EndChar}
         /\ source = "file" => file = state.pos
BY TextsAssumption DEF Control, Given, Placed, InputStates

LEMMA CharFacts ==
  ASSUME Control, NEW k \in Nat \ {0}, CharAt(k) # EndChar
  PROVE  state.pos + k \in 0 .. Len(text) /\ CharAt(k) \in ToSet(text)
<1>1. CharAt(k) = IF state.pos + k <= Len(text) THEN text[state.pos + k] ELSE EndChar
  BY Position DEF CharAt
<1>2. state.pos + k \in 1 .. Len(text)
  BY <1>1, Position
<1> QED BY <1>1, <1>2, Position, ElementOfSeq

LEMMA MovedFacts ==
  ASSUME Control, NEW k \in Nat \ {0}, CharAt(k) # EndChar
  PROVE  Moved(k) \in InputStates(text) /\ Moved(k).pos = state.pos + k
<1>1. state \in InputStates(text)
  BY DEF Control, Placed
<1>2. state.pos + k \in 0 .. Len(text) /\ CharAt(k) \in ToSet(text)
  BY CharFacts
<1> QED BY <1>1, <1>2 DEF Moved, InputStates

LEMMA ControlInit ==
  ASSUME Init
  PROVE  Control
<1>1. Given /\ Turn /\ Excused
  BY DEF Init, Given, Turn, Excused, Failing, Asked
<1>2. Placed
  <2>1. Len(text) \in Nat
    BY TextsAssumption DEF Init
  <2> QED BY <2>1 DEF Init, Placed, InputStates
<1>3. IsSeq(<< >>)
  BY DEF IsSeq
<1>4. \A type : Among(<< >>, type, 0) = 0
  <2> SUFFICES ASSUME NEW type PROVE Among(<< >>, type, 0) = 0
    OBVIOUS
  <2>1. Among(<< >>, type, 0) \in 0 .. 0
    BY AmongType
  <2> QED BY <2>1
<1>5. Nested
  BY <1>3, <1>4, EngineAssumption DEF Init, Nested, StackOK
<1>6. Marked
  BY <1>3, <1>4, EngineAssumption DEF Init, Marked, MarksOK
<1>7. Unmoved
  BY DEF Init, Unmoved
<1> QED BY <1>1, <1>2, <1>5, <1>6, <1>7 DEF Control

LEMMA TooDeepControl ==
  ASSUME Control, TooDeep
  PROVE  Control'
<1>1. slots \in Nat /\ Len(marks) <= slots
  BY DEF Control, Marked
<1>2. Placed'
  BY DEF Control, Placed, TooDeep, place, setting
<1> QED BY <1>1, <1>2, Answered DEF TooDeep, Return, setting, place, marking

LEMMA UndefinedFailsControl ==
  ASSUME Control, UndefinedFails
  PROVE  Control'
<1>1. slots \in Nat /\ Len(marks) <= slots
  BY DEF Control, Marked
<1>2. Placed'
  BY DEF Control, Placed, UndefinedFails, place, setting
<1>3. arg \notin Unfailing
  BY Asking DEF UndefinedFails, Called
<1> QED BY <1>1, <1>2, <1>3, Answered DEF UndefinedFails, Called, Return, setting, place, marking

LEMMA TakeCharControl ==
  ASSUME Control, TakeChar
  PROVE  Control'
<1>1. slots \in Nat /\ Len(marks) <= slots
  BY DEF Control, Marked
<1>2. Placed'
  <2>1. Moved(1) \in InputStates(text) /\ Moved(1).pos = state.pos + 1
    BY MovedFacts DEF TakeChar, Terminated
  <2> QED BY <2>1, Position DEF Placed, TakeChar, setting
<1> QED BY <1>1, <1>2, Answered DEF TakeChar, Called, Return, setting, marking

LEMMA RefuseCharControl ==
  ASSUME Control, RefuseChar
  PROVE  Control'
<1>1. slots \in Nat /\ Len(marks) <= slots
  BY DEF Control, Marked
<1>2. Placed'
  <2>1. source = "file" => file' = file
    BY Position DEF RefuseChar, PutBack
  <2> QED BY <2>1 DEF Control, Placed, RefuseChar, setting
<1>3. arg \notin Unfailing
  BY Asking DEF RefuseChar, Called
<1> QED BY <1>1, <1>2, <1>3, Answered DEF RefuseChar, Called, Return, setting, marking

LEMMA MarkAndUnmarkSlots ==
  ASSUME Control, MarkAndUnmark
  PROVE  slots' \in Nat /\ Len(marks) <= slots' /\ marks' = marks
<1>1. Len(marks) \in Nat /\ slots \in Nat
  BY LenFacts DEF Control, Marked, MarksOK
<1>2. SlotsForMark(Len(marks) + 1) \in Nat /\ Len(marks) + 1 <= SlotsForMark(Len(marks) + 1)
  BY <1>1, RoomForMark
<1>3. Len(marks) <= SlotsForMark(Len(marks) + 1)
  BY <1>1, <1>2
<1> QED BY <1>1, <1>2, <1>3, RoomAfterUnmark DEF MarkAndUnmark

LEMMA TakeStringControl ==
  ASSUME Control, TakeString
  PROVE  Control'
<1> DEFINE s == Definition(arg).string
<1>1. slots' \in Nat /\ Len(marks) <= slots' /\ marks' = marks
  BY MarkAndUnmarkSlots DEF TakeString
<1>2. Definition(arg).type = "STRING" /\ ctl = "call"
  BY DEF TakeString, Called
<1>3. Len(s) \in Nat \ {0} /\ s[Len(s)] # EndChar
  <2>1. s \in Seq(ToSet(s)) /\ s # << >> /\ EndChar \notin ToSet(s)
    BY <1>2, Asking, ClosedAssumption DEF Closed
  <2> HIDE DEF s
  <2>2. Len(s) \in 1 .. Len(s)
    BY <2>1, EmptySeq
  <2> QED BY <2>1, <2>2, ElementOfSeq
<1>4. CharAt(Len(s)) = s[Len(s)]
  <2>1. \A k \in 1 .. Len(s) : CharAt(k) = s[k]
    BY DEF TakeString, ReadsString
  <2> HIDE DEF s
  <2> QED BY <1>3, <2>1
<1>5. state' = Moved(Len(s)) /\ file' = file + Len(s) /\ UNCHANGED <<text, source, root, stack, suppress>>
      /\ ctl' = "return" /\ ok' = TRUE
  BY DEF TakeString, Return, setting
<1> HIDE DEF s
<1>6. Placed'
  <2>1. Moved(Len(s)) \in InputStates(text) /\ Moved(Len(s)).pos = state.pos + Len(s)
    BY <1>3, <1>4, MovedFacts
  <2> QED BY <1>3, <1>5, <2>1, Position DEF Placed
<1> QED BY <1>1, <1>2, <1>5, <1>6, Answered

LEMMA RefuseStringControl ==
  ASSUME Control, RefuseString
  PROVE  Control'
<1>1. slots' \in Nat /\ Len(marks) <= slots' /\ marks' = marks
  BY MarkAndUnmarkSlots DEF RefuseString
<1>2. Placed'
  BY DEF Control, Placed, RefuseString, setting
<1>3. arg \notin Unfailing
  BY Asking DEF RefuseString, Called
<1> QED BY <1>1, <1>2, <1>3, Answered DEF RefuseString, Called, Return, setting

LEMMA StartOfInputControl ==
  ASSUME Control, StartOfInput
  PROVE  Control'
<1>1. slots \in Nat /\ Len(marks) <= slots
  BY DEF Control, Marked
<1>2. Placed'
  BY DEF Control, Placed, StartOfInput, place, setting
<1>3. arg \notin Unfailing
  BY Asking DEF StartOfInput, Called
<1> QED BY <1>1, <1>2, <1>3, Answered DEF StartOfInput, Called, Return, setting, place, marking

LEMMA EndOfInputControl ==
  ASSUME Control, EndOfInput
  PROVE  Control'
<1> DEFINE ended == ~ state.term /\ Terminated
<1>1. slots \in Nat /\ Len(marks) <= slots
  BY DEF Control, Marked
<1>2. ok' = ended /\ ctl' = "return" /\ state' = [state EXCEPT !.term = @ \/ ended] /\ file' = file
      /\ UNCHANGED <<text, source, root, stack, marks, slots, suppress>>
  BY DEF EndOfInput, Return, setting, marking
<1>3. ended \in BOOLEAN /\ state \in InputStates(text)
  BY DEF Control, Placed
<1>4. arg \notin Unfailing /\ ctl = "call"
  BY Asking DEF EndOfInput, Called
<1> HIDE DEF ended
<1>5. state' \in InputStates(text) /\ state'.pos = state.pos
  BY <1>2, <1>3 DEF InputStates
<1>6. Placed'
  BY <1>2, <1>5, Position DEF Placed
<1>7. ~ ended => state' = state
  <2> SUFFICES ASSUME ~ ended PROVE state' = state
    OBVIOUS
  <2>1. state'.term = state.term
    BY <1>2, <1>3 DEF InputStates
  <2> QED BY <1>2, <1>3, <2>1 DEF InputStates
<1> QED BY <1>1, <1>2, <1>3, <1>4, <1>6, <1>7, Answered

(* A parser that is made of parsers begins with the first of them.         *)
LEMMA FirstFrame ==
  ASSUME Control, ctl = "call", Definition(arg).type \in SingleTypes \cup ListTypes, NEW room,
         NEW child, child = IF Definition(arg).type \in ListTypes THEN Definition(arg).xs[1] ELSE Definition(arg).x,
         NEW f, f = [p |-> Definition(arg), j |-> 1, results |-> << >>, room |-> room, entry |-> state]
  PROVE  FrameOK(f, text) /\ Child(f) = child /\ f.p = Definition(arg) /\ f.entry = state
<1>1. f.p = Definition(arg) /\ f.j = 1 /\ f.results = << >> /\ f.room = room /\ f.entry = state
  OBVIOUS
<1>2. f.p \in AllParsers /\ state \in InputStates(text)
  BY <1>1, Asking DEF Control, Placed
<1>3. IsSeq(f.results) /\ Len(f.results) = 0
  BY <1>1 DEF IsSeq
<1>4. f.p.type \in ListTypes => f.j \in 1 .. Len(f.p.xs)
  <2> SUFFICES ASSUME f.p.type \in ListTypes PROVE 1 \in 1 .. Len(f.p.xs)
    BY <1>1
  <2>1. f.p.xs \in Seq(AllParsers) /\ f.p.xs # << >>
    BY <1>2, ClosedAssumption DEF Closed
  <2> QED BY <2>1, EmptySeq
<1>5. FrameOK(f, text)
  BY <1>1, <1>2, <1>3, <1>4 DEF FrameOK
<1> QED BY <1>1, <1>5 DEF Child

LEMMA OpenControl ==
  ASSUME Control, OpenOne \/ OpenExpect \/ OpenOr \/ OpenAnd
  PROVE  Control'
<1> DEFINE p == Definition(arg)
           room == Room(heap, p).value
           f == [p |-> p, j |-> 1, results |-> << >>, room |-> room, entry |-> state]
           child == IF p.type \in ListTypes THEN p.xs[1] ELSE p.x
<1>1. ctl = "call" /\ Len(stack) < MaxDepth /\ p.type \in SingleTypes \cup ListTypes
  BY DEF OpenOne, OpenExpect, OpenOr, OpenAnd, Called, SingleTypes, ListTypes
<1>2. stack' = Append(stack, f) /\ arg' = child
      /\ UNCHANGED <<text, source, root, state, file, ctl, ok>>
  BY DEF OpenOne, OpenExpect, OpenOr, OpenAnd, Called, Open, ListTypes, setting, place
<1>3. suppress' = IF p.type = "EXPECT" THEN suppress + 1 ELSE suppress
  BY DEF OpenOne, OpenExpect, OpenOr, OpenAnd, Called
<1>4. p.type # "AND" => UNCHANGED <<marks, slots>>
  BY DEF OpenOne, OpenExpect, OpenOr, OpenAnd, Called, marking
<1>5. p.type = "AND" => marks' = Append(marks, state) /\ slots' = SlotsForMark(Len(marks) + 1)
  BY DEF OpenOne, OpenExpect, OpenOr, OpenAnd, Called, Mark
<1>6. IsSeq(marks) /\ Len(marks) \in Nat /\ slots \in Nat /\ Len(marks) <= slots
  BY LenFacts DEF Control, Marked, MarksOK
<1> HIDE DEF p
<1>7. marks' = (IF p.type = "AND" THEN Append(marks, state) ELSE marks)
  BY <1>4, <1>5
<1>8. slots' \in Nat /\ Len(marks') <= slots'
  <2>1. CASE p.type = "AND"
    <3>1. Len(marks') = Len(marks) + 1
      BY <1>5, <1>6, <2>1, AppendFacts
    <3>2. Len(marks) + 1 \in Nat
      BY <1>6
    <3> QED BY <1>5, <1>6, <2>1, <3>1, <3>2, RoomForMark
  <2>2. CASE p.type # "AND"
    BY <1>4, <1>6, <2>2
  <2> QED BY <2>1, <2>2
<1> HIDE DEF room, f, child
<1>9. FrameOK(f, text) /\ Child(f) = child /\ f.p = p /\ f.entry = state
  BY <1>1, FirstFrame DEF f, child, p
<1> QED BY <1>1, <1>2, <1>3, <1>7, <1>8, <1>9, Opened DEF p

(* An activation that goes on.                                             *)
LEMMA OnTop ==
  ASSUME Control, stack # << >>
  PROVE  /\ Top = Last(stack) /\ FrameOK(Top, text) /\ Closed(Top.p)
         /\ Failing /\ Still(Top) => state = Top.entry
<1>1. FrameOK(Last(stack), text)
  BY Pop DEF Control, Nested
<1>2. Closed(Last(stack).p)
  BY <1>1, ClosedAssumption DEF FrameOK
<1> QED BY <1>1, <1>2 DEF Top, Control, Unmoved

LEMMA ManyGoesOnControl ==
  ASSUME Control, ManyGoesOn
  PROVE  Control'
<1> DEFINE results == Append(Top.results, result)
           room == IF Len(results) = MPC_PARSE_STACK_MIN
                   THEN MpcMalloc(heap, Block("results", 0, << >>)) ELSE Result(heap, Top.room)
           f == [Top EXCEPT !.results = results, !.room = room.value]
<1>1. ctl = "return" /\ stack # << >> /\ Top.p.type \in {"MANY", "MANY1"}
  BY DEF ManyGoesOn, Returned
<1>2. /\ stack' = [stack EXCEPT ![Len(stack)] = f] /\ ctl' = "call" /\ arg' = Top.p.x
      /\ UNCHANGED <<text, source, root, state, file, marks, slots, suppress, ok>>
  BY DEF ManyGoesOn, Run, setting, place, marking
<1>3. FrameOK(Top, text) /\ Top = Last(stack)
  BY <1>1, OnTop
<1>4. IsSeq(results) /\ results # << >>
  BY <1>3, AppendFacts DEF FrameOK
<1> HIDE DEF results, room
<1>0. f = [Top EXCEPT !.results = results, !.room = room.value]
  OBVIOUS
<1> HIDE DEF f
<1>5. f.p = Top.p /\ f.j = Top.j /\ f.results = results /\ f.room = room.value /\ f.entry = Top.entry
      /\ f = [p |-> f.p, j |-> f.j, results |-> f.results, room |-> f.room, entry |-> f.entry]
  <2>1. PICK g : g = Top
    OBVIOUS
  <2>2. g = [p |-> g.p, j |-> g.j, results |-> g.results, room |-> g.room, entry |-> g.entry]
    BY <1>3, <2>1 DEF FrameOK
  <2> QED BY <1>0, <2>1, <2>2
<1>6. FrameOK(f, text)
  BY <1>1, <1>3, <1>4, <1>5 DEF FrameOK
<1>7. ~ Still(f) /\ Child(f) = Top.p.x
  BY <1>1, <1>4, <1>5 DEF Still, Child, ListTypes
<1> QED BY <1>1, <1>2, <1>3, <1>5, <1>6, <1>7, Resumed

LEMMA OrTriesNextControl ==
  ASSUME Control, OrTriesNext
  PROVE  Control'
<1> DEFINE f == [Top EXCEPT !.j = @ + 1]
<1>1. ctl = "return" /\ stack # << >> /\ Top.p.type = "OR" /\ ok = FALSE /\ Top.j < Len(Top.p.xs)
  BY DEF OrTriesNext, Returned
<1>2. /\ stack' = [stack EXCEPT ![Len(stack)] = f] /\ ctl' = "call" /\ arg' = Top.p.xs[Top.j + 1]
      /\ UNCHANGED <<text, source, root, state, file, marks, slots, suppress, ok>>
  BY DEF OrTriesNext, Run, setting, place, marking
<1>3. FrameOK(Top, text) /\ Top = Last(stack)
  BY <1>1, OnTop
<1>4. f.p = Top.p /\ f.j = Top.j + 1 /\ f.results = Top.results /\ f.room = Top.room /\ f.entry = Top.entry
      /\ f = [p |-> f.p, j |-> f.j, results |-> f.results, room |-> f.room, entry |-> f.entry]
  BY <1>3 DEF FrameOK
<1> HIDE DEF f
<1>5. Top.j + 1 \in 1 .. Len(Top.p.xs)
  <2>1. Top.p.xs \in Seq(AllParsers)
    BY <1>1, OnTop DEF Closed, ListTypes
  <2> QED BY <1>1, <1>3, <2>1 DEF FrameOK
<1>6. FrameOK(f, text)
  BY <1>1, <1>3, <1>4, <1>5 DEF FrameOK
<1>7. Still(Top) /\ Child(f) = Top.p.xs[Top.j + 1]
  BY <1>1, <1>4 DEF Still, Child, ListTypes
<1> QED BY <1>1, <1>2, <1>3, <1>4, <1>6, <1>7, Resumed

LEMMA AndGoesOnControl ==
  ASSUME Control, AndGoesOn
  PROVE  Control'
<1> DEFINE results == Append(Top.results, result)
           f == [Top EXCEPT !.j = @ + 1, !.results = results]
<1>1. ctl = "return" /\ stack # << >> /\ Top.p.type = "AND" /\ Top.j < Len(Top.p.xs)
  BY DEF AndGoesOn, Returned
<1>2. /\ stack' = [stack EXCEPT ![Len(stack)] = f] /\ ctl' = "call" /\ arg' = Top.p.xs[Top.j + 1]
      /\ UNCHANGED <<text, source, root, state, file, marks, slots, suppress, ok>>
  BY DEF AndGoesOn, Run, setting, place, marking
<1>3. FrameOK(Top, text) /\ Top = Last(stack)
  BY <1>1, OnTop
<1>4. IsSeq(results) /\ Len(results) = Len(Top.results) + 1
  BY <1>3, AppendFacts DEF FrameOK
<1> HIDE DEF results
<1>0. f = [Top EXCEPT !.j = @ + 1, !.results = results]
  OBVIOUS
<1> HIDE DEF f
<1>5. f.p = Top.p /\ f.j = Top.j + 1 /\ f.results = results /\ f.room = Top.room /\ f.entry = Top.entry
      /\ f = [p |-> f.p, j |-> f.j, results |-> f.results, room |-> f.room, entry |-> f.entry]
  <2>1. PICK g : g = Top
    OBVIOUS
  <2>2. g = [p |-> g.p, j |-> g.j, results |-> g.results, room |-> g.room, entry |-> g.entry]
    BY <1>3, <2>1 DEF FrameOK
  <2> QED BY <1>0, <2>1, <2>2
<1>6. Top.j + 1 \in 1 .. Len(Top.p.xs)
  <2>1. Top.p.xs \in Seq(AllParsers)
    BY <1>1, OnTop DEF Closed, ListTypes
  <2> QED BY <1>1, <1>3, <2>1 DEF FrameOK
<1>7. FrameOK(f, text)
  BY <1>1, <1>3, <1>4, <1>5, <1>6 DEF FrameOK
<1>8. ~ Still(f) /\ Child(f) = Top.p.xs[Top.j + 1]
  BY <1>1, <1>5 DEF Still, Child, ListTypes
<1> QED BY <1>1, <1>2, <1>3, <1>5, <1>7, <1>8, Resumed

(* An activation that returns; the AND takes its mark with it.             *)
LEMMA UnmarkFacts ==
  ASSUME Control, stack # << >>, Top.p.type = "AND", Unmark
  PROVE  /\ marks # << >> /\ Last(marks) = Top.entry
         /\ marks' = Front(marks) /\ slots' \in Nat /\ Len(marks') <= slots'
<1>1. IsSeq(marks) /\ marks # << >> /\ Last(marks) = Top.entry
  BY MarksPopped DEF Control, Marked, Nested, StackOK, MarksOK, Top
<1>2. Len(Front(marks)) = Len(marks) - 1 /\ Len(marks) \in Nat \ {0}
  BY <1>1, FrontFacts
<1>3. Len(marks) - 1 \in Nat /\ slots \in Nat /\ Len(marks) - 1 <= slots
  BY <1>2 DEF Control, Marked
<1> QED BY <1>1, <1>2, <1>3, RoomAfterUnmark DEF Unmark

(* The returns that leave the input and its marks alone.                   *)
LEMMA ReturnedControl ==
  ASSUME Control, ctl = "return", stack # << >>, NEW good \in BOOLEAN, NEW value, NEW h,
         Leave(good, value, h), UNCHANGED <<state, file, marks, slots>>, Top.p.type # "AND",
         suppress' = IF Top.p.type = "EXPECT" THEN suppress - 1 ELSE suppress,
         limited' = limited,
         ~ good => ~ ok /\ Still(Top) /\ Top.p.type \notin {"MAYBE", "MANY"}
  PROVE  Control'
<1>1. slots \in Nat /\ Len(marks) <= slots
  BY DEF Control, Marked
<1>2. ctl' = "return" /\ ok' = good /\ stack' = Front(stack) /\ UNCHANGED <<text, source, root>>
  BY DEF Leave, Return, setting
<1>3. Placed'
  BY <1>2 DEF Control, Placed
<1>4. ~ ok' => state' = Last(stack).entry
  BY <1>2, OnTop DEF Failing
<1>5. Top = Last(stack)
  BY DEF Top
<1> QED BY <1>1, <1>2, <1>3, <1>4, <1>5, Left

LEMMA ApplyControl ==
  ASSUME Control, ApplySucceeds \/ ApplyFails
  PROVE  Control'
<1>1. CASE ApplySucceeds
  BY <1>1, ReturnedControl DEF ApplySucceeds, Returned, place, marking, history
<1>2. CASE ApplyFails
  BY <1>2, ReturnedControl DEF ApplyFails, Returned, Still, place, marking, history
<1> QED BY <1>1, <1>2

LEMMA ExpectControl ==
  ASSUME Control, ExpectSucceeds \/ ExpectFails
  PROVE  Control'
<1>1. CASE ExpectSucceeds
  BY <1>1, ReturnedControl DEF ExpectSucceeds, Returned, place, marking, history
<1>2. CASE ExpectFails
  BY <1>2, ReturnedControl DEF ExpectFails, Returned, Report, Still, place, marking
<1> QED BY <1>1, <1>2

LEMMA MaybeControl ==
  ASSUME Control, MaybeTakes \/ MaybeLifts
  PROVE  Control'
<1>1. CASE MaybeTakes
  BY <1>1, ReturnedControl DEF MaybeTakes, Returned, place, marking, history
<1>2. CASE MaybeLifts
  BY <1>2, ReturnedControl DEF MaybeLifts, Returned, place, marking, history
<1> QED BY <1>1, <1>2

LEMMA ManyControl ==
  ASSUME Control, ManyEnds \/ Many1Fails
  PROVE  Control'
<1>1. CASE ManyEnds
  BY <1>1, ReturnedControl DEF ManyEnds, Returned, place, marking, history
<1>2. CASE Many1Fails
  BY <1>2, ReturnedControl DEF Many1Fails, Returned, Still, place, marking, history
<1> QED BY <1>1, <1>2

LEMMA OrControl ==
  ASSUME Control, OrTakes \/ OrFails
  PROVE  Control'
<1>1. CASE OrTakes
  BY <1>1, ReturnedControl DEF OrTakes, Returned, place, marking, history
<1>2. CASE OrFails
  BY <1>2, ReturnedControl DEF OrFails, Returned, Still, place, marking, history
<1> QED BY <1>1, <1>2

LEMMA AndSucceedsControl ==
  ASSUME Control, AndSucceeds
  PROVE  Control'
<1>1. ctl = "return" /\ stack # << >> /\ Top.p.type = "AND" /\ Top = Last(stack) /\ Unmark
  BY DEF AndSucceeds, Returned, Top
<1>2. marks' = Front(marks) /\ slots' \in Nat /\ Len(marks') <= slots'
  BY <1>1, UnmarkFacts
<1>3. ctl' = "return" /\ ok' = TRUE /\ stack' = Front(stack)
      /\ UNCHANGED <<text, source, root, state, file, suppress, limited>>
  BY DEF AndSucceeds, Leave, Return, setting, place, history
<1>4. Placed'
  BY <1>3 DEF Control, Placed
<1> QED BY <1>1, <1>2, <1>3, <1>4, Left

LEMMA AndFailsControl ==
  ASSUME Control, AndFails
  PROVE  Control' /\ state' = Top.entry
<1>1. ctl = "return" /\ ok = FALSE /\ stack # << >> /\ Top.p.type = "AND" /\ Top = Last(stack) /\ Unmark
  BY DEF AndFails, Returned, Rewind, Top
<1>2. marks' = Front(marks) /\ slots' \in Nat /\ Len(marks') <= slots' /\ Last(marks) = Top.entry
  BY <1>1, UnmarkFacts
<1>3. ctl' = "return" /\ ok' = FALSE /\ stack' = Front(stack)
      /\ UNCHANGED <<text, source, root, suppress, limited>>
  BY DEF AndFails, Leave, Return, setting, history
<1>4. state' = Top.entry /\ (source = "file" => file' = state'.pos)
  BY <1>2 DEF AndFails, Rewind
<1>5. Placed'
  <2>1. Top.entry \in InputStates(text)
    BY <1>1, OnTop DEF FrameOK
  <2> QED BY <1>3, <1>4, <2>1 DEF Placed
<1> QED BY <1>1, <1>2, <1>3, <1>4, <1>5, Left

LEMMA FinishControl ==
  ASSUME Control, Finish
  PROVE  Control'
<1>1. stack = << >> /\ ctl' = "done"
      /\ UNCHANGED <<text, source, root, state, file, marks, slots, suppress, stack, ok, limited>>
  BY DEF Finish, setting, place, marking, history
<1>2. Given' /\ Placed' /\ Nested' /\ Marked' /\ Turn' /\ Unmoved' /\ Excused'
  BY <1>1 DEF Control, Given, Placed, Nested, Marked, Turn, Unmoved, Excused, Failing
<1> QED BY <1>2 DEF Control

LEMMA StutterControl ==
  ASSUME Control, UNCHANGED vars
  PROVE  Control'
BY DEF Control, Given, Placed, Nested, Marked, Turn, Unmoved, Excused, Failing, vars

LEMMA ControlStep ==
  ASSUME Control, [Next]_vars
  PROVE  Control'
<1>1. CASE TooDeep \/ UndefinedFails
  BY <1>1, TooDeepControl, UndefinedFailsControl
<1>2. CASE TakeChar \/ RefuseChar \/ TakeString \/ RefuseString
  BY <1>2, TakeCharControl, RefuseCharControl, TakeStringControl, RefuseStringControl
<1>3. CASE StartOfInput \/ EndOfInput
  BY <1>3, StartOfInputControl, EndOfInputControl
<1>4. CASE OpenOne \/ OpenExpect \/ OpenOr \/ OpenAnd
  BY <1>4, OpenControl
<1>5. CASE ManyGoesOn \/ OrTriesNext \/ AndGoesOn
  BY <1>5, ManyGoesOnControl, OrTriesNextControl, AndGoesOnControl
<1>6. CASE ApplySucceeds \/ ApplyFails \/ ExpectSucceeds \/ ExpectFails \/ MaybeTakes \/ MaybeLifts
  BY <1>6, ApplyControl, ExpectControl, MaybeControl
<1>7. CASE ManyEnds \/ Many1Fails \/ OrTakes \/ OrFails
  BY <1>7, ManyControl, OrControl
<1>8. CASE AndSucceeds \/ AndFails
  BY <1>8, AndSucceedsControl, AndFailsControl
<1>9. CASE Finish
  BY <1>9, FinishControl
<1>10. CASE UNCHANGED vars
  BY <1>10, StutterControl
<1> QED BY <1>1, <1>2, <1>3, <1>4, <1>5, <1>6, <1>7, <1>8, <1>9, <1>10 DEF Next, Finished

LEMMA InvControl == Spec => []Control
<1>1. Init => Control
  BY ControlInit
<1>2. Control /\ [Next]_vars => Control'
  BY ControlStep
<1> QED BY <1>1, <1>2, PTL DEF Spec

-------------------------------------------------------------------------------
(* The state of the input stays in the text and the file pointer with it;  *)
(* errors are held back exactly inside an EXPECT.                          *)
THEOREM InvTypeOK == Spec => []TypeOK
<1>1. Control => TypeOK
  BY DEF Control, Placed, Nested, Turn, TypeOK
<1> QED BY <1>1, InvControl, PTL

(* Each AND under way has its mark, where it has begun, and the array of   *)
(* marks holds them.                                                       *)
THEOREM InvMarksFollowStack == Spec => []MarksFollowStack
<1>1. Control => MarksFollowStack
  <2> SUFFICES ASSUME Control PROVE MarksFollowStack
    OBVIOUS
  <2>1. DOMAIN stack = 1 .. Len(stack)
    BY LenFacts DEF Control, Nested, StackOK
  <2> QED BY <2>1 DEF Control, Marked, MarksOK, MarksFollowStack
<1> QED BY <1>1, InvControl, PTL

(* Whatever fails leaves the input as it has found it.                     *)
LEMMA FailureStep ==
  ASSUME Control, [Next]_vars, ~ UNCHANGED vars, ctl' = "return", ~ ok'
  PROVE  state' = IF Len(stack') < Len(stack) THEN Top.entry ELSE state
<1>1. CASE ctl = "call" /\ UNCHANGED <<state, stack>>
  <2>1. Len(stack) \in Nat
    BY LenFacts DEF Control, Nested, StackOK
  <2> QED BY <1>1, <2>1
<1>2. CASE stack # << >> /\ stack' = Front(stack) /\ state' = Top.entry
  <2>1. Len(stack') = Len(stack) - 1 /\ Len(stack) \in Nat
    BY <1>2, FrontFacts DEF Control, Nested, StackOK
  <2> QED BY <1>2, <2>1
<1>3. CASE TooDeep \/ UndefinedFails \/ RefuseChar \/ RefuseString \/ StartOfInput
  BY <1>1, <1>3 DEF TooDeep, UndefinedFails, RefuseChar, RefuseString, StartOfInput, Called, place
<1>4. CASE EndOfInput
  <2> DEFINE ended == ~ state.term /\ Terminated
  <2>1. ok' = ended /\ ctl = "call" /\ state' = [state EXCEPT !.term = @ \/ ended] /\ stack' = stack
    BY <1>4 DEF EndOfInput, Called, Return
  <2>2. ended = FALSE /\ state \in InputStates(text)
    BY <2>1 DEF Control, Placed
  <2> HIDE DEF ended
  <2>3. state'.term = state.term
    BY <2>1, <2>2 DEF InputStates
  <2>4. state' = state
    BY <2>1, <2>2, <2>3 DEF InputStates
  <2> QED BY <1>1, <2>1, <2>4
<1>5. CASE ApplyFails \/ ExpectFails \/ Many1Fails \/ OrFails
  <2>1. stack # << >> /\ stack' = Front(stack) /\ state' = state /\ Failing /\ Still(Top)
    BY <1>5 DEF ApplyFails, ExpectFails, Many1Fails, OrFails, Returned, Leave, place, Failing, Still
  <2> QED BY <1>2, <2>1, OnTop
<1>6. CASE AndFails
  BY <1>2, <1>6, AndFailsControl DEF AndFails, Returned, Leave
<1>7. ~ (TakeChar \/ TakeString \/ OpenOne \/ OpenExpect \/ OpenOr \/ OpenAnd \/ ApplySucceeds
         \/ ExpectSucceeds \/ MaybeTakes \/ MaybeLifts \/ ManyEnds \/ OrTakes \/ AndSucceeds)
  BY DEF TakeChar, TakeString, OpenOne, OpenExpect, OpenOr, OpenAnd, ApplySucceeds, ExpectSucceeds,
         MaybeTakes, MaybeLifts, ManyEnds, OrTakes, AndSucceeds, Leave, Return, Open, Called
<1>8. ~ (ManyGoesOn \/ OrTriesNext \/ AndGoesOn \/ Finish)
  BY DEF ManyGoesOn, OrTriesNext, AndGoesOn, Run, Finish
<1> QED BY <1>3, <1>4, <1>5, <1>6, <1>7, <1>8 DEF Next, Finished

THEOREM RestoredOnFailure == Spec => FailureRestores
<1>1. Control /\ [Next]_vars =>
        [ctl' = "return" /\ ~ ok' =>
           state' = IF Len(stack') < Len(stack) THEN Top.entry ELSE state]_vars
  BY FailureStep
<1> QED BY <1>1, InvControl, PTL DEF Spec, FailureRestores
================================================================================
