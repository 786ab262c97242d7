------------------------------- MODULE PegProofs -------------------------------
(***************************************************************************)
(* What a parse returns is what the parser means: for every closed grammar *)
(* and any functions what it accepts and where it ends, and for a grammar  *)
(* that uses mpc's functions alone the value, too.                         *)
(***************************************************************************)
EXTENDS MpcHeapProofs, Peg

(***************************************************************************)
(* The equations, one by one.                                              *)
(***************************************************************************)
LEMMA MatchFacts ==
  ASSUME NEW p \in AllParsers, NEW t \in Texts, NEW i \in PlacesIn(t)
  PROVE  LET m == Match(p, t, i)
             x == Match(p.x, t, i)
         IN  /\ p.type = "NAMED" => m = Match(Grammar[p.name], t, i)
             /\ p.type = "UNDEFINED" => m = Failure
             /\ p.type \in {"SINGLE", "ONEOF", "NONEOF"} =>
                  m = IF i < Len(t) /\ Accepts(p, t[i + 1]) THEN Success(i + 1, <<t[i + 1]>>) ELSE Failure
             /\ p.type = "STRING" => m = IF Reads(p, t, i) THEN Success(i + Len(p.string), p.string) ELSE Failure
             /\ p.type = "SOI" => m = IF i = 0 \/ Len(t) = 0 THEN Success(i, << >>) ELSE Failure
             /\ p.type = "EOI" => m = IF i = Len(t) THEN Success(i + 1, << >>) ELSE Failure
             /\ p.type = "EXPECT" => m = x
             /\ p.type = "APPLY" => m = IF Succeeds(x) THEN Success(x.at, Combined(p.f, <<x.string>>)) ELSE x
             /\ p.type = "MAYBE" => m = IF Fails(x) THEN Success(i, << >>) ELSE x
             /\ p.type = "MANY" => m = Folded(p, MatchFrom(p, 1, t, i))
             /\ p.type = "MANY1" => m = IF Succeeds(x) THEN Folded(p, MatchFrom(p, 1, t, i)) ELSE x
             /\ p.type = "OR" => m = MatchFrom(p, 1, t, i)
             /\ p.type = "AND" => m = Folded(p, MatchFrom(p, 1, t, i))
<1>1. Match(p, t, i) = Meant(Match, MatchFrom, p, t, i)
  BY MeaningAssumption
<1> QED BY <1>1 DEF Meant

LEMMA FromFacts ==
  ASSUME NEW p \in AllParsers, p.type \in ListTypes \cup {"MANY", "MANY1"}, NEW j \in Parts(p),
         NEW t \in Texts, NEW i \in PlacesIn(t)
  PROVE  LET m == MatchFrom(p, j, t, i)
             x == Match(Part(p, j), t, i)
         IN  /\ p.type = "OR" => m = IF Fails(x) /\ j < Len(p.xs) THEN MatchFrom(p, j + 1, t, i) ELSE x
             /\ p.type = "AND" =>
                  m = IF Succeeds(x)
                      THEN Prefixed(x.string, IF j < Len(p.xs) THEN MatchFrom(p, j + 1, t, x.at) ELSE Success(x.at, << >>))
                      ELSE x
             /\ p.type \in {"MANY", "MANY1"} =>
                  m = IF Succeeds(x) THEN Prefixed(x.string, MatchFrom(p, 1, t, x.at))
                      ELSE IF Fails(x) THEN Success(i, << >>) ELSE x
             /\ p.type # "OR" => IsSeq(m.string)
<1>1. /\ MatchFrom(p, j, t, i) = MeantFrom(Match, MatchFrom, p, j, t, i)
      /\ p.type # "OR" => IsSeq(MatchFrom(p, j, t, i).string)
  BY MeaningAssumption DEF IsSeq
<1> QED BY <1>1 DEF MeantFrom, ListTypes

-------------------------------------------------------------------------------
(***************************************************************************)
(* Where the input is.                                                     *)
(***************************************************************************)
(* The end is taken at the end only, and the character before is known by  *)
(* where the input is.                                                     *)
Well(s, t) ==
  /\ s \in InputStates(t)
  /\ s.term => s.pos = Len(t)
  /\ s.last = EndChar <=> s.pos = 0

WellPlaced == Well(state, text) /\ \A d \in 1 .. Len(stack) : Well(stack[d].entry, text)

LEMMA PlaceFacts ==
  ASSUME NEW t \in Texts, NEW s, Well(s, t)
  PROVE  /\ PlaceOf(s) \in PlacesIn(t)
         /\ PlaceOf(s) = IF s.term THEN Len(t) + 1 ELSE s.pos
         /\ Len(t) \in Nat
<1>1. Len(t) \in Nat
  BY TextsAssumption
<1> QED BY <1>1 DEF Well, PlaceOf, PlacesIn, InputStates

LEMMA HereFacts ==
  ASSUME Control, Well(state, text)
  PROVE  LET i == PlaceOf(state)
         IN  /\ i \in PlacesIn(text) /\ i \in Nat /\ Len(text) \in Nat
             /\ Terminated <=> i >= Len(text)
             /\ i < Len(text) => i = state.pos /\ ~ state.term /\ CharAt(1) = text[i + 1]
             /\ \A k \in Nat \ {0} : CharAt(k) = IF state.pos + k <= Len(text) THEN text[state.pos + k] ELSE EndChar
<1>1. /\ text \in Seq(ToSet(text)) /\ Len(text) \in Nat /\ EndChar \notin ToSet(text)
      /\ state.pos \in 0 .. Len(text) /\ state.term \in BOOLEAN
      /\ source = "file" => file = state.pos
  BY Position
<1>2. ASSUME NEW k \in Nat \ {0}
      PROVE  CharAt(k) = IF state.pos + k <= Len(text) THEN text[state.pos + k] ELSE EndChar
  BY <1>1 DEF CharAt
<1>3. state.pos < Len(text) => text[state.pos + 1] # EndChar
  <2> SUFFICES ASSUME state.pos < Len(text) PROVE text[state.pos + 1] # EndChar
    OBVIOUS
  <2>1. state.pos + 1 \in 1 .. Len(text)
    BY <1>1
  <2> QED BY <1>1, <2>1, ElementOfSeq
<1>4. CharAt(1) = IF state.pos < Len(text) THEN text[state.pos + 1] ELSE EndChar
  BY <1>1, <1>2
<1>5. Terminated <=> state.pos = Len(text)
  BY <1>1, <1>3, <1>4 DEF Terminated
<1>6. PlaceOf(state) = IF state.term THEN Len(text) + 1 ELSE state.pos
  BY PlaceFacts DEF Control, Given
<1>7. state.term => state.pos = Len(text)
  BY DEF Well
<1> QED BY <1>1, <1>2, <1>4, <1>5, <1>6, <1>7, PlaceFacts DEF Control, Given, PlacesIn

LEMMA MovedWell ==
  ASSUME Control, Well(state, text), NEW k \in Nat \ {0}, CharAt(k) # EndChar
  PROVE  Well(Moved(k), text) /\ PlaceOf(Moved(k)) = state.pos + k /\ ~ state.term /\ PlaceOf(state) = state.pos
<1>1. Moved(k) \in InputStates(text) /\ Moved(k).pos = state.pos + k
  BY MovedFacts
<1>2. state \in InputStates(text)
  BY DEF Well
<1>3. Moved(k).last = CharAt(k) /\ Moved(k).term = state.term
  BY <1>2 DEF Moved, InputStates
<1>4. state.pos + k <= Len(text) /\ state.pos \in Nat /\ Len(text) \in Nat
  BY CharFacts, Position
<1>5. ~ state.term
  BY <1>4 DEF Well
<1> QED BY <1>1, <1>3, <1>4, <1>5 DEF Well, PlaceOf

LEMMA WellInit ==
  ASSUME Init
  PROVE  WellPlaced
<1>1. Len(text) \in Nat
  BY TextsAssumption DEF Init
<1> QED BY <1>1 DEF Init, WellPlaced, Well, InputStates

(* The steps that leave the input alone.                                   *)
LEMMA WellStays ==
  ASSUME Control, WellPlaced, text' = text, Well(state', text),
         \/ stack' = stack
         \/ stack # << >> /\ stack' = Front(stack)
         \/ \E f : f.entry = state /\ stack' = Append(stack, f)
         \/ \E f : f.entry = Top.entry /\ stack # << >> /\ stack' = [stack EXCEPT ![Len(stack)] = f]
  PROVE  WellPlaced'
<1>1. IsSeq(stack) /\ Len(stack) \in Nat
  BY LenFacts DEF Control, Nested, StackOK
<1>2. \A d \in 1 .. Len(stack) : Well(stack[d].entry, text)
  BY DEF WellPlaced
<1>3. CASE stack' = stack
  BY <1>3 DEF WellPlaced
<1>4. CASE stack # << >> /\ stack' = Front(stack)
  <2>1. Len(stack') = Len(stack) - 1 /\ \A k \in 1 .. Len(stack) - 1 : stack'[k] = stack[k]
    BY <1>1, <1>4, FrontFacts
  <2> QED BY <1>1, <1>2, <2>1 DEF WellPlaced
<1>5. CASE \E f : f.entry = state /\ stack' = Append(stack, f)
  <2>1. PICK f : f.entry = state /\ stack' = Append(stack, f)
    BY <1>5
  <2>2. /\ Len(stack') = Len(stack) + 1 /\ \A k \in 1 .. Len(stack) : stack'[k] = stack[k]
        /\ stack'[Len(stack')] = f
    BY <1>1, <2>1, AppendFacts
  <2> QED BY <1>1, <1>2, <2>1, <2>2 DEF WellPlaced
<1>6. CASE \E f : f.entry = Top.entry /\ stack # << >> /\ stack' = [stack EXCEPT ![Len(stack)] = f]
  <2>1. PICK f : f.entry = Top.entry /\ stack' = [stack EXCEPT ![Len(stack)] = f]
    BY <1>6
  <2>2. stack' = Append(Front(stack), f)
    BY <1>1, <1>6, <2>1, ReplaceLast
  <2>3. IsSeq(Front(stack)) /\ Len(Front(stack)) = Len(stack) - 1 /\ Len(stack) \in Nat \ {0}
        /\ \A k \in 1 .. Len(stack) - 1 : Front(stack)[k] = stack[k]
    BY <1>1, <1>6, FrontFacts
  <2>4. /\ Len(stack') = Len(stack) /\ \A k \in 1 .. Len(stack) - 1 : stack'[k] = stack[k]
        /\ stack'[Len(stack')] = f
    BY <2>2, <2>3, AppendFacts
  <2>5. Well(f.entry, text)
    BY <1>2, <2>1, <2>3 DEF Top, Last
  <2> QED BY <1>1, <1>2, <2>3, <2>4, <2>5 DEF WellPlaced
<1> QED BY <1>3, <1>4, <1>5, <1>6

LEMMA TakenString ==
  ASSUME Control, TakeString, NEW s, s = Definition(arg).string
  PROVE  /\ Len(s) \in Nat \ {0} /\ CharAt(Len(s)) # EndChar
         /\ \A k \in 1 .. Len(s) : CharAt(k) = s[k] /\ s[k] # EndChar
<1>1. Definition(arg).type = "STRING" /\ ctl = "call" /\ \A k \in 1 .. Len(s) : CharAt(k) = s[k]
  BY DEF TakeString, Called, ReadsString
<1>2. s \in Seq(ToSet(s)) /\ s # << >> /\ EndChar \notin ToSet(s)
  BY <1>1, Asking, ClosedAssumption DEF Closed
<1>3. Len(s) \in 1 .. Len(s) /\ Len(s) \in Nat \ {0}
  BY <1>2, EmptySeq
<1>4. \A k \in 1 .. Len(s) : s[k] # EndChar
  BY <1>2, ElementOfSeq
<1> QED BY <1>1, <1>3, <1>4

LEMMA WellStep ==
  ASSUME Control, WellPlaced, [Next]_vars
  PROVE  WellPlaced'
<1>0. Well(state, text)
  BY DEF WellPlaced
<1>1. CASE \/ TooDeep \/ UndefinedFails \/ RefuseChar \/ RefuseString \/ StartOfInput
  <2>1. UNCHANGED <<text, state, stack>>
    BY <1>1 DEF TooDeep, UndefinedFails, RefuseChar, RefuseString, StartOfInput, setting, place
  <2> QED BY <1>0, <2>1, WellStays
<1>2. CASE TakeChar
  <2>1. UNCHANGED <<text, stack>> /\ state' = Moved(1) /\ CharAt(1) # EndChar
    BY <1>2 DEF TakeChar, Terminated, setting
  <2>2. Well(Moved(1), text)
    BY <1>0, <2>1, MovedWell
  <2> QED BY <2>1, <2>2, WellStays
<1>3. CASE TakeString
  <2>1. PICK s : s = Definition(arg).string
    OBVIOUS
  <2>2. UNCHANGED <<text, stack>> /\ state' = Moved(Len(s))
    BY <1>3, <2>1 DEF TakeString, setting
  <2>3. Len(s) \in Nat \ {0} /\ CharAt(Len(s)) # EndChar
    BY <1>3, <2>1, TakenString
  <2>4. Well(Moved(Len(s)), text)
    BY <1>0, <2>3, MovedWell
  <2> QED BY <2>2, <2>4, WellStays
<1>4. CASE EndOfInput
  <2>1. UNCHANGED <<text, stack>> /\ state' = [state EXCEPT !.term = @ \/ (~ state.term /\ Terminated)]
    BY <1>4 DEF EndOfInput, setting
  <2>2. state \in InputStates(text) /\ state.term \in BOOLEAN
    BY <1>0 DEF Well, InputStates
  <2>3. Terminated => state.pos = Len(text)
    <3> SUFFICES ASSUME Terminated PROVE state.pos = Len(text)
      OBVIOUS
    <3>1. PlaceOf(state) >= Len(text) /\ PlaceOf(state) = IF state.term THEN Len(text) + 1 ELSE state.pos
      BY <1>0, HereFacts, PlaceFacts DEF Control, Given
    <3> QED BY <1>0, <2>2, <3>1, Position DEF Well
  <2>4. PICK term \in BOOLEAN : term = (state.term \/ (~ state.term /\ Terminated))
    OBVIOUS
  <2>5. state' = [state EXCEPT !.term = term]
    BY <2>1, <2>2, <2>4
  <2>6. term => state.pos = Len(text)
    BY <1>0, <2>3, <2>4 DEF Well
  <2>7. Well(state', text)
    BY <1>0, <2>2, <2>5, <2>6 DEF Well, InputStates
  <2> QED BY <2>1, <2>7, WellStays
<1>5. CASE OpenOne \/ OpenExpect \/ OpenOr \/ OpenAnd
  <2>1. UNCHANGED <<text, state>> /\ \E f : f.entry = state /\ stack' = Append(stack, f)
    <3>1. PICK p, room, f : f = [p |-> p, j |-> 1, results |-> << >>, room |-> room, entry |-> state]
                            /\ stack' = Append(stack, f) /\ UNCHANGED <<text, state>>
      BY <1>5 DEF OpenOne, OpenExpect, OpenOr, OpenAnd, Open, setting, place
    <3>2. f.entry = state
      BY <3>1
    <3> QED BY <3>1, <3>2
  <2> QED BY <1>0, <2>1, WellStays
<1>6. CASE ManyGoesOn \/ OrTriesNext \/ AndGoesOn
  <2>1. UNCHANGED <<text, state>> /\ stack # << >>
    BY <1>6 DEF ManyGoesOn, OrTriesNext, AndGoesOn, Returned, Run, setting, place
  <2>2. \E f : f.entry = Top.entry /\ stack' = [stack EXCEPT ![Len(stack)] = f]
    <3>1. Top = [p |-> Top.p, j |-> Top.j, results |-> Top.results, room |-> Top.room, entry |-> Top.entry]
      BY <2>1, OnTop DEF FrameOK
    <3>2. \/ \E results, room : stack' = [stack EXCEPT ![Len(stack)] = [Top EXCEPT !.results = results, !.room = room]]
          \/ stack' = [stack EXCEPT ![Len(stack)] = [Top EXCEPT !.j = @ + 1]]
          \/ \E results : stack' = [stack EXCEPT ![Len(stack)] = [Top EXCEPT !.j = @ + 1, !.results = results]]
      <4>1. CASE ManyGoesOn
        BY <4>1 DEF ManyGoesOn, Run
      <4>2. CASE OrTriesNext
        BY <4>2 DEF OrTriesNext, Run
      <4>3. CASE AndGoesOn
        <5>1. stack' = [stack EXCEPT ![Len(stack)] = [Top EXCEPT !.j = @ + 1, !.results = Append(@, result)]]
          BY <4>3 DEF AndGoesOn, Run
        <5>2. stack' = [stack EXCEPT ![Len(stack)] = [Top EXCEPT !.j = @ + 1, !.results = Append(Top.results, result)]]
          BY <3>1, <5>1
        <5> QED BY <5>2
      <4> QED BY <1>6, <4>1, <4>2, <4>3
    <3>3. PICK t : t = Top
      OBVIOUS
    <3>4. ASSUME NEW results, NEW room
          PROVE  [t EXCEPT !.results = results, !.room = room].entry = t.entry
                 /\ [t EXCEPT !.j = @ + 1].entry = t.entry
                 /\ [t EXCEPT !.j = @ + 1, !.results = results].entry = t.entry
      BY <3>1, <3>3
    <3>5. \E f : f.entry = t.entry /\ stack' = [stack EXCEPT ![Len(stack)] = f]
      <4>1. CASE \E results, room : stack' = [stack EXCEPT ![Len(stack)] = [t EXCEPT !.results = results, !.room = room]]
        BY <3>4, <4>1
      <4>2. CASE stack' = [stack EXCEPT ![Len(stack)] = [t EXCEPT !.j = @ + 1]]
        <5>1. PICK f : f = [t EXCEPT !.j = @ + 1]
          OBVIOUS
        <5> QED BY <3>4, <4>2, <5>1
      <4>3. CASE \E results : stack' = [stack EXCEPT ![Len(stack)] = [t EXCEPT !.j = @ + 1, !.results = results]]
        BY <3>4, <4>3
      <4> QED BY <3>2, <3>3, <4>1, <4>2, <4>3
    <3> QED BY <3>3, <3>5
  <2> QED BY <1>0, <2>1, <2>2, WellStays
<1>7. CASE \/ ApplySucceeds \/ ApplyFails \/ ExpectSucceeds \/ ExpectFails \/ MaybeTakes \/ MaybeLifts
           \/ ManyEnds \/ Many1Fails \/ OrTakes \/ OrFails \/ AndSucceeds
  <2>1. UNCHANGED <<text, state>> /\ stack # << >> /\ stack' = Front(stack)
    BY <1>7 DEF ApplySucceeds, ApplyFails, ExpectSucceeds, ExpectFails, MaybeTakes, MaybeLifts,
                ManyEnds, Many1Fails, OrTakes, OrFails, AndSucceeds, Returned, Leave, setting, place
  <2> QED BY <1>0, <2>1, WellStays
<1>8. CASE AndFails
  <2>1. text' = text /\ stack # << >> /\ stack' = Front(stack)
    BY <1>8 DEF AndFails, Returned, Leave, setting
  <2>2. state' = Top.entry
    BY <1>8, AndFailsControl
  <2>3. Len(stack) \in 1 .. Len(stack)
    BY <2>1, LenFacts DEF Control, Nested, StackOK
  <2>4. Well(Top.entry, text)
    BY <2>3 DEF WellPlaced, Top, Last
  <2> QED BY <2>1, <2>2, <2>4, WellStays
<1>9. CASE Finish
  <2>1. UNCHANGED <<text, state, stack>>
    BY <1>9 DEF Finish, setting, place
  <2> QED BY <1>0, <2>1, WellStays
<1>10. CASE UNCHANGED vars
  <2>1. UNCHANGED <<text, state, stack>>
    BY <1>10 DEF vars
  <2> QED BY <1>0, <2>1, WellStays
<1> QED BY <1>1, <1>2, <1>3, <1>4, <1>5, <1>6, <1>7, <1>8, <1>9, <1>10 DEF Next, Finished

-------------------------------------------------------------------------------
(***************************************************************************)
(* What is still to come of an activation is what its parser means, given  *)
(* where the child that it waits for has begun.                            *)
(***************************************************************************)
SameEnd(m, n) == m.verdict = n.verdict /\ (Succeeds(m) => m.at = n.at)

(* A MANY1 that has no result yet is decided by the first.                 *)
Goes(f) == f.p.type \in {"OR", "AND", "MANY"} \/ (f.p.type = "MANY1" /\ f.results # << >>)

Due(f, t, i) ==
  /\ i \in PlacesIn(t)
  /\ Still(f) => i = PlaceOf(f.entry)
  /\ f.p.type \in {"MANY", "MANY1"} => f.j = 1
  /\ Goes(f) => SameEnd(Match(f.p, t, PlaceOf(f.entry)), MatchFrom(f.p, f.j, t, i))

(* Where the child of the d-th activation has begun, if the innermost one  *)
(* has begun at i.                                                         *)
Begins(s, i, d) == IF d = Len(s) THEN i ELSE PlaceOf(s[d + 1].entry)

Following(s, t, i) ==
  /\ Begins(s, i, 0) = 0 /\ i \in PlacesIn(t)
  /\ \A d \in 1 .. Len(s) : Due(s[d], t, Begins(s, i, d))

(* The parser that has just returned did what it means.                    *)
Judged(p, t, i) ==
  LET m == Match(p, t, i)
  IN  /\ m.verdict = IF ok THEN "success" ELSE "failure"
      /\ ok => m.at = PlaceOf(state)

AgreesAt(i) ==
  /\ ctl # "done" => Following(stack, text, i)
  /\ ctl = "call" => i = PlaceOf(state)
  /\ ctl = "return" => Judged(Asked(stack, root), text, i) /\ (~ ok => PlaceOf(state) = i)
  /\ ctl = "done" => Judged(root, text, 0)

Agreeing == WellPlaced /\ (~ limited => \E i : AgreesAt(i))

(* Where the innermost parser has begun, after a step.                     *)
Follows(i, j) ==
  j = IF ctl' = "call" THEN PlaceOf(state') ELSE IF Len(stack') < Len(stack) THEN PlaceOf(Top.entry) ELSE i

LEMMA FollowingPush ==
  ASSUME NEW s, IsSeq(s), NEW t, NEW f, NEW i, Following(s, t, PlaceOf(f.entry)), Due(f, t, i)
  PROVE  Following(Append(s, f), t, i)
<1> DEFINE u == Append(s, f)
           n == Len(s)
<1>1. n \in Nat /\ Len(u) = n + 1 /\ (\A k \in 1 .. n : u[k] = s[k]) /\ u[n + 1] = f
  BY LenFacts, AppendFacts
<1> HIDE DEF u
<1>2. Begins(u, i, n + 1) = i
  BY <1>1 DEF Begins
<1>3. ASSUME NEW d \in 0 .. n PROVE Begins(u, i, d) = Begins(s, PlaceOf(f.entry), d)
  <2>1. CASE d = n
    BY <1>1, <2>1 DEF Begins
  <2>2. CASE d # n
    <3>1. d + 1 \in 1 .. n /\ d # n + 1
      BY <1>1, <2>2
    <3> QED BY <1>1, <2>2, <3>1 DEF Begins
  <2> QED BY <2>1, <2>2
<1>4. ASSUME NEW d \in 1 .. n + 1 PROVE Due(u[d], t, Begins(u, i, d))
  <2>1. CASE d = n + 1
    BY <1>1, <1>2, <2>1
  <2>2. CASE d # n + 1
    <3>1. d \in 1 .. n /\ d \in 0 .. n
      BY <1>1, <2>2
    <3> QED BY <1>1, <1>3, <3>1 DEF Following
  <2> QED BY <2>1, <2>2
<1>5. Begins(u, i, 0) = 0
  BY <1>1, <1>3 DEF Following
<1> QED BY <1>1, <1>4, <1>5 DEF Following, Due, u

LEMMA FollowingPop ==
  ASSUME NEW s, IsSeq(s), s # << >>, NEW t, NEW i, Following(s, t, i), PlaceOf(Last(s).entry) \in PlacesIn(t)
  PROVE  Due(Last(s), t, i) /\ Following(Front(s), t, PlaceOf(Last(s).entry))
<1> DEFINE u == Front(s)
           n == Len(s)
<1>1. n \in Nat \ {0} /\ Len(u) = n - 1 /\ \A k \in 1 .. n - 1 : u[k] = s[k]
  BY FrontFacts
<1>2. PICK f : f = Last(s) /\ f = s[n]
  BY DEF Last
<1>3. Due(f, t, i)
  <2>1. Begins(s, i, n) = i /\ n \in 1 .. n
    BY <1>1 DEF Begins
  <2> QED BY <1>2, <2>1 DEF Following
<1> HIDE DEF u
<1>4. ASSUME NEW d \in 0 .. n - 1 PROVE Begins(u, PlaceOf(f.entry), d) = Begins(s, i, d)
  <2>1. CASE d = n - 1
    <3>1. d + 1 = n /\ d # n
      BY <1>1, <2>1
    <3> QED BY <1>1, <1>2, <2>1, <3>1 DEF Begins
  <2>2. CASE d # n - 1
    <3>1. d + 1 \in 1 .. n - 1 /\ d # n
      BY <1>1, <2>2
    <3> QED BY <1>1, <2>2, <3>1 DEF Begins
  <2> QED BY <2>1, <2>2
<1>5. ASSUME NEW d \in 1 .. n - 1 PROVE Due(u[d], t, Begins(u, PlaceOf(f.entry), d))
  <2>1. d \in 1 .. n /\ d \in 0 .. n - 1
    BY <1>1
  <2> QED BY <1>1, <1>4, <2>1 DEF Following
<1>6. Begins(u, PlaceOf(f.entry), 0) = 0
  <2>1. 0 \in 0 .. n - 1
    BY <1>1
  <2> QED BY <1>4, <2>1 DEF Following
<1>7. Following(u, t, PlaceOf(f.entry))
  BY <1>1, <1>2, <1>5, <1>6 DEF Following
<1> QED BY <1>2, <1>3, <1>7 DEF u

LEMMA MatchDefinition ==
  ASSUME NEW p \in AllParsers, NEW t \in Texts, NEW i \in PlacesIn(t)
  PROVE  Match(Definition(p), t, i) = Match(p, t, i)
BY MatchFacts DEF Definition

(* A parser has answered at once, has begun to run a child, runs its next  *)
(* child, or returns.                                                      *)
LEMMA AnsweredAgrees ==
  ASSUME ctl = "call", NEW i, AgreesAt(i), UNCHANGED <<text, root, stack>>, ctl' = "return",
         Control, NEW p, p = Definition(arg), Judged(p, text, i)', ~ ok' => PlaceOf(state') = i
  PROVE  AgreesAt(i)'
<1>1. arg = Asked(stack, root) /\ arg \in AllParsers /\ text \in Texts /\ i \in PlacesIn(text)
  BY Asking DEF Control, Turn, Given, AgreesAt, Following
<1>2. Match(p, text, i) = Match(arg, text, i)
  BY <1>1, MatchDefinition
<1>3. Following(stack', text', i)
  BY DEF AgreesAt
<1> QED BY <1>1, <1>2, <1>3 DEF AgreesAt, Judged

LEMMA OpenedAgrees ==
  ASSUME Control, WellPlaced, NEW i, AgreesAt(i), OpenOne \/ OpenExpect \/ OpenOr \/ OpenAnd,
         NEW j, Follows(i, j)
  PROVE  AgreesAt(j)'
<1> DEFINE p == Definition(arg)
<1>1. ctl = "call" /\ ctl' = "call" /\ p.type \in SingleTypes \cup ListTypes /\ UNCHANGED <<text, state>>
  BY DEF OpenOne, OpenExpect, OpenOr, OpenAnd, Called, Open, SingleTypes, ListTypes, setting, place
<1>2. PICK room, f : /\ stack' = Append(stack, f)
                     /\ f = [p |-> p, j |-> 1, results |-> << >>, room |-> room, entry |-> state]
  BY DEF OpenOne, OpenExpect, OpenOr, OpenAnd, Called, Open
<1>3. i = PlaceOf(state) /\ j = i /\ Following(stack, text, i)
  BY <1>1 DEF AgreesAt, Follows
<1>4. /\ IsSeq(stack) /\ p \in AllParsers /\ text \in Texts /\ i \in PlacesIn(text)
  BY <1>1, <1>3, Asking DEF Control, Nested, StackOK, Given, Following
<1> HIDE DEF p
<1>5. f.p = p /\ f.j = 1 /\ f.results = << >> /\ f.entry = state
  BY <1>2
<1>6. Goes(f) => SameEnd(Match(p, text, i), MatchFrom(p, 1, text, i))
  <2> SUFFICES ASSUME Goes(f) PROVE SameEnd(Match(p, text, i), MatchFrom(p, 1, text, i))
    OBVIOUS
  <2>1. p.type \in {"OR", "AND", "MANY"}
    BY <1>5 DEF Goes
  <2>2. Match(p, text, i) \in {MatchFrom(p, 1, text, i), Folded(p, MatchFrom(p, 1, text, i))}
    BY <1>4, <2>1, MatchFacts
  <2> QED BY <2>2 DEF Folded, SameEnd, Succeeds, Success
<1>7. Due(f, text, i)
  BY <1>3, <1>4, <1>5, <1>6 DEF Due
<1>8. Following(Append(stack, f), text, i)
  BY <1>3, <1>4, <1>5, <1>7, FollowingPush
<1> QED BY <1>1, <1>2, <1>3, <1>8 DEF AgreesAt

(* The activation on top, which its child has returned to.                 *)
LEMMA TopFacts ==
  ASSUME Control, WellPlaced, NEW i, AgreesAt(i), ctl = "return", stack # << >>,
         NEW e, e = PlaceOf(Top.entry), NEW x, x = Match(Part(Top.p, Top.j), text, i)
  PROVE  /\ Due(Top, text, i) /\ Following(Front(stack), text, e)
         /\ i \in PlacesIn(text) /\ e \in PlacesIn(text) /\ text \in Texts
         /\ FrameOK(Top, text) /\ Top.p \in AllParsers /\ Top.p.type \in SingleTypes \cup ListTypes
         /\ Top.p.type \in ListTypes \cup {"MANY", "MANY1"} => Top.j \in Parts(Top.p)
         /\ x.verdict = (IF ok THEN "success" ELSE "failure") /\ Succeeds(x) = ok /\ Fails(x) = ~ ok
         /\ ok => x.at = PlaceOf(state)
         /\ ~ ok => i = PlaceOf(state)
         /\ PlaceOf(state) \in PlacesIn(text)
         /\ IsSeq(stack)
<1>1. Top = Last(stack) /\ FrameOK(Top, text) /\ text \in Texts /\ IsSeq(stack)
  BY OnTop DEF Control, Given, Nested, StackOK
<1>2. Well(state, text) /\ Well(Top.entry, text)
  <2>1. Len(stack) \in 1 .. Len(stack)
    BY <1>1, LenFacts
  <2> QED BY <2>1 DEF WellPlaced, Top, Last
<1>3. e \in PlacesIn(text) /\ PlaceOf(state) \in PlacesIn(text)
  BY <1>1, <1>2, PlaceFacts
<1>4. Following(stack, text, i) /\ Judged(Asked(stack, root), text, i) /\ (~ ok => PlaceOf(state) = i)
  BY DEF AgreesAt
<1>5. Due(Top, text, i) /\ Following(Front(stack), text, e)
  BY <1>1, <1>3, <1>4, FollowingPop
<1>6. Asked(stack, root) = Part(Top.p, Top.j)
  BY <1>1 DEF Asked, Child, Part
<1>7. ok \in BOOLEAN
  BY DEF Control, Turn
<1>8. Top.p.type \in ListTypes \cup {"MANY", "MANY1"} => Top.j \in Parts(Top.p)
  <2>1. CASE Top.p.type \in ListTypes
    <3>1. Top.p.xs \in Seq(AllParsers) /\ Top.j \in 1 .. Len(Top.p.xs)
      BY <1>1, <2>1, OnTop DEF Closed, FrameOK
    <3> QED BY <2>1, <3>1 DEF Parts
  <2>2. CASE Top.p.type \in {"MANY", "MANY1"}
    BY <1>5, <2>2 DEF Due, Parts, ListTypes
  <2> QED BY <2>1, <2>2
<1> QED BY <1>1, <1>3, <1>4, <1>5, <1>6, <1>7, <1>8 DEF Judged, Succeeds, Fails, Due, FrameOK

LEMMA ResumedAgrees ==
  ASSUME Control, WellPlaced, NEW i, AgreesAt(i), ctl = "return", ctl' = "call", stack # << >>,
         UNCHANGED <<text, root, state>>, NEW f, stack' = [stack EXCEPT ![Len(stack)] = f],
         f.entry = Top.entry, Due(f, text, PlaceOf(state)), NEW j, Follows(i, j)
  PROVE  AgreesAt(j)'
<1>1. j = PlaceOf(state)
  BY DEF Follows, PlaceOf
<1>2. Following(Front(stack), text, PlaceOf(f.entry)) /\ IsSeq(stack)
  BY TopFacts
<1>3. stack' = Append(Front(stack), f) /\ IsSeq(Front(stack))
  BY <1>2, ReplaceLast, FrontFacts
<1>4. PICK s : s = Front(stack) /\ IsSeq(s) /\ Following(s, text, PlaceOf(f.entry)) /\ stack' = Append(s, f)
  BY <1>2, <1>3
<1>5. Following(Append(s, f), text, j)
  BY <1>1, <1>4, FollowingPush
<1> QED BY <1>1, <1>4, <1>5 DEF AgreesAt

LEMMA LeftAgrees ==
  ASSUME Control, WellPlaced, NEW i, AgreesAt(i), ctl = "return", ctl' = "return", stack # << >>,
         UNCHANGED <<text, root>>, stack' = Front(stack),
         NEW e, e = PlaceOf(Top.entry), NEW p, p = Top.p, Judged(p, text, e)', ~ ok' => PlaceOf(state') = e,
         NEW j, Follows(i, j)
  PROVE  AgreesAt(j)'
<1>1. Following(Front(stack), text, e) /\ IsSeq(stack) /\ text \in Texts /\ e \in PlacesIn(text)
  BY TopFacts
<1>2. j = e
  <2>1. Len(stack') = Len(stack) - 1 /\ Len(stack) \in Nat
    BY <1>1, FrontFacts
  <2> QED BY <2>1 DEF Follows
<1>3. /\ StackOK(Front(stack), text, root)
      /\ Top.p = Definition(Asked(Front(stack), root))
  BY Pop DEF Control, Nested, Top
<1>4. Asked(Front(stack), root) \in AllParsers
  BY <1>3, AskedFacts DEF Control, Given
<1>5. Match(p, text, e) = Match(Asked(stack', root'), text, e)
  BY <1>1, <1>3, <1>4, MatchDefinition
<1> QED BY <1>1, <1>2, <1>5 DEF AgreesAt, Judged

(***************************************************************************)
(* The parsers that take characters.                                       *)
(***************************************************************************)
LEMMA AskedFacts2 ==
  ASSUME Control, WellPlaced, NEW i, AgreesAt(i), ctl = "call", NEW p, p = Definition(arg)
  PROVE  /\ i = PlaceOf(state) /\ i \in PlacesIn(text) /\ text \in Texts /\ p \in AllParsers
         /\ Well(state, text)
BY Asking DEF Control, Given, AgreesAt, Following, WellPlaced

LEMMA CharAgrees ==
  ASSUME Control, WellPlaced, NEW i, AgreesAt(i), TakeChar \/ RefuseChar
  PROVE  AgreesAt(i)'
<1>1. PICK p : p = Definition(arg)
  OBVIOUS
<1>2. /\ ctl = "call" /\ ctl' = "return" /\ p.type \in {"SINGLE", "ONEOF", "NONEOF"}
      /\ UNCHANGED <<text, root, stack>>
  BY <1>1 DEF TakeChar, RefuseChar, Called, Return, setting
<1>3. i = PlaceOf(state) /\ i \in PlacesIn(text) /\ text \in Texts /\ p \in AllParsers /\ Well(state, text)
  BY <1>1, <1>2, AskedFacts2
<1>4. Match(p, text, i) =
        IF i < Len(text) /\ Accepts(p, text[i + 1]) THEN Success(i + 1, <<text[i + 1]>>) ELSE Failure
  BY <1>2, <1>3, MatchFacts
<1>5. /\ i \in Nat /\ Len(text) \in Nat /\ (Terminated <=> i >= Len(text))
      /\ i < Len(text) => CharAt(1) = text[i + 1]
  BY <1>3, HereFacts
<1>6. CASE TakeChar
  <2>1. ok' = TRUE /\ state' = Moved(1) /\ ~ Terminated /\ Accepts(p, CharAt(1))
    BY <1>1, <1>6 DEF TakeChar, Return
  <2>2. Match(p, text, i) = Success(i + 1, <<text[i + 1]>>)
    BY <1>4, <1>5, <2>1
  <2>3. PlaceOf(Moved(1)) = i + 1
    BY <1>3, <2>1, MovedWell DEF Terminated
  <2>4. Judged(p, text, i)'
    BY <1>2, <2>1, <2>2, <2>3 DEF Judged, Success, PlaceOf
  <2> QED BY <1>1, <1>2, <2>1, <2>4, AnsweredAgrees
<1>7. CASE RefuseChar
  <2>1. ok' = FALSE /\ state' = state /\ (Terminated \/ ~ Accepts(p, CharAt(1)))
    BY <1>1, <1>7 DEF RefuseChar, Return
  <2>2. Match(p, text, i) = Failure
    BY <1>4, <1>5, <2>1
  <2>3. Judged(p, text, i)'
    BY <1>2, <2>1, <2>2 DEF Judged, Failure
  <2> QED BY <1>1, <1>2, <1>3, <2>1, <2>3, AnsweredAgrees DEF PlaceOf
<1> QED BY <1>6, <1>7

LEMMA StringAgrees ==
  ASSUME Control, WellPlaced, NEW i, AgreesAt(i), TakeString \/ RefuseString
  PROVE  AgreesAt(i)'
<1>1. PICK p, s : p = Definition(arg) /\ s = p.string
  OBVIOUS
<1>2. ctl = "call" /\ ctl' = "return" /\ p.type = "STRING" /\ UNCHANGED <<text, root, stack>>
  BY <1>1 DEF TakeString, RefuseString, Called, Return, setting
<1>3. i = PlaceOf(state) /\ i \in PlacesIn(text) /\ text \in Texts /\ p \in AllParsers /\ Well(state, text)
  BY <1>1, <1>2, AskedFacts2
<1>4. Match(p, text, i) = IF Reads(p, text, i) THEN Success(i + Len(s), s) ELSE Failure
  <2>1. Match(p, text, i) = IF Reads(p, text, i) THEN Success(i + Len(p.string), p.string) ELSE Failure
    BY <1>2, <1>3, MatchFacts
  <2> QED BY <1>1, <2>1
<1>5. s \in Seq(ToSet(s)) /\ s # << >> /\ EndChar \notin ToSet(s) /\ Len(s) \in Nat \ {0}
  <2>1. s \in Seq(ToSet(s)) /\ s # << >> /\ EndChar \notin ToSet(s)
    BY <1>1, <1>2, <1>3, ClosedAssumption DEF Closed
  <2> QED BY <2>1, EmptySeq
<1>6. \A k \in 1 .. Len(s) : s[k] # EndChar
  BY <1>5, ElementOfSeq
<1>7. /\ i \in Nat /\ Len(text) \in Nat
      /\ i < Len(text) => i = state.pos /\ ~ state.term
      /\ \A k \in Nat \ {0} : CharAt(k) = IF state.pos + k <= Len(text) THEN text[state.pos + k] ELSE EndChar
  BY <1>3, HereFacts
<1>8. state.pos \in Nat /\ (state.term => i = Len(text) + 1) /\ (~ state.term => i = state.pos)
  BY <1>3, Position, PlaceFacts
<1>9. CASE TakeString
  <2>1. ok' = TRUE /\ state' = Moved(Len(s))
    BY <1>1, <1>9 DEF TakeString, Return
  <2>2. CharAt(Len(s)) # EndChar /\ \A k \in 1 .. Len(s) : CharAt(k) = s[k] /\ s[k] # EndChar
    BY <1>1, <1>9, TakenString
  <2>3. PlaceOf(Moved(Len(s))) = i + Len(s) /\ i = state.pos
    <3>1. /\ PlaceOf(Moved(Len(s))) = state.pos + Len(s) /\ PlaceOf(state) = state.pos
      BY <1>3, <1>5, <2>2, MovedWell
    <3> QED BY <1>3, <3>1
  <2>4. Reads(p, text, i)
    <3> SUFFICES ASSUME NEW k \in 1 .. Len(s) PROVE i + k <= Len(text) /\ text[i + k] = s[k]
      BY <1>1 DEF Reads
    <3>1. k \in Nat \ {0} /\ CharAt(k) = s[k] /\ s[k] # EndChar
      BY <1>5, <2>2
    <3> QED BY <1>7, <2>3, <3>1
  <2>5. Judged(p, text, i)'
    BY <1>2, <1>4, <2>1, <2>3, <2>4 DEF Judged, Success, PlaceOf
  <2> QED BY <1>1, <1>2, <2>1, <2>5, AnsweredAgrees
<1>10. CASE RefuseString
  <2>1. ok' = FALSE /\ state' = state /\ \E k \in 1 .. Len(s) : CharAt(k) # s[k]
    BY <1>1, <1>10 DEF RefuseString, ReadsString, Return
  <2>2. ~ Reads(p, text, i)
    <3> SUFFICES ASSUME Reads(p, text, i) PROVE FALSE
      OBVIOUS
    <3>1. \A k \in 1 .. Len(s) : i + k <= Len(text) /\ text[i + k] = s[k]
      BY <1>1 DEF Reads
    <3>2. i = state.pos
      <4>1. i + 1 <= Len(text)
        BY <1>5, <3>1
      <4> QED BY <1>7, <4>1
    <3>3. \A k \in 1 .. Len(s) : CharAt(k) = s[k]
      <4> SUFFICES ASSUME NEW k \in 1 .. Len(s) PROVE CharAt(k) = s[k]
        OBVIOUS
      <4>1. k \in Nat \ {0} /\ i + k <= Len(text) /\ text[i + k] = s[k]
        BY <1>5, <3>1
      <4>2. CharAt(k) = IF state.pos + k <= Len(text) THEN text[state.pos + k] ELSE EndChar
        BY <1>7, <4>1
      <4> QED BY <3>2, <4>1, <4>2
    <3> QED BY <2>1, <3>3
  <2>3. Judged(p, text, i)'
    BY <1>2, <1>4, <2>1, <2>2 DEF Judged, Failure
  <2> QED BY <1>1, <1>2, <1>3, <2>1, <2>3, AnsweredAgrees DEF PlaceOf
<1> QED BY <1>9, <1>10

LEMMA InputAgrees ==
  ASSUME Control, WellPlaced, NEW i, AgreesAt(i), StartOfInput \/ EndOfInput
  PROVE  AgreesAt(i)'
<1>1. PICK p : p = Definition(arg)
  OBVIOUS
<1>2. ctl = "call" /\ ctl' = "return" /\ p.type \in {"SOI", "EOI"} /\ UNCHANGED <<text, root, stack>>
  BY <1>1 DEF StartOfInput, EndOfInput, Called, Return, setting
<1>3. i = PlaceOf(state) /\ i \in PlacesIn(text) /\ text \in Texts /\ p \in AllParsers /\ Well(state, text)
  BY <1>1, <1>2, AskedFacts2
<1>4. /\ Len(text) \in Nat /\ state.pos \in 0 .. Len(text) /\ state.term \in BOOLEAN
      /\ i = IF state.term THEN Len(text) + 1 ELSE state.pos
      /\ state.term => state.pos = Len(text)
      /\ Terminated <=> i >= Len(text)
  BY <1>3, Position, PlaceFacts, HereFacts DEF Well
<1>5. CASE StartOfInput
  <2>0. PICK started \in BOOLEAN : started = (state.last = EndChar) /\ (started <=> state.last = EndChar)
    OBVIOUS
  <2>1. p.type = "SOI" /\ ok' = started /\ state' = state
    BY <1>1, <1>5, <2>0 DEF StartOfInput, Called, Return, place
  <2>2. Match(p, text, i) = IF i = 0 \/ Len(text) = 0 THEN Success(i, << >>) ELSE Failure
    BY <1>3, <2>1, MatchFacts
  <2>3. ok' <=> i = 0 \/ Len(text) = 0
    <3>1. state.last = EndChar <=> state.pos = 0
      BY <1>3 DEF Well
    <3> QED BY <1>4, <2>0, <2>1, <3>1
  <2>4. Judged(p, text, i)'
    BY <1>2, <1>3, <2>1, <2>2, <2>3 DEF Judged, Success, Failure
  <2> QED BY <1>1, <1>2, <1>3, <2>1, <2>4, AnsweredAgrees DEF PlaceOf
<1>6. CASE EndOfInput
  <2>1. PICK ended \in BOOLEAN : ended = (~ state.term /\ Terminated) /\ (ended <=> ~ state.term /\ Terminated)
    OBVIOUS
  <2>2. p.type = "EOI" /\ ok' = ended /\ state' = [state EXCEPT !.term = @ \/ ended]
    BY <1>1, <1>6, <2>1 DEF EndOfInput, Called, Return
  <2>3. Match(p, text, i) = IF i = Len(text) THEN Success(i + 1, << >>) ELSE Failure
    BY <1>3, <2>2, MatchFacts
  <2>4. ended <=> i = Len(text)
    <3>1. ended <=> ~ state.term /\ i >= Len(text)
      BY <1>4, <2>1
    <3> HIDE DEF Terminated
    <3> QED BY <1>4, <3>1
  <2>5. state'.pos = state.pos /\ state'.term = (state.term \/ ended)
    BY <1>3, <2>2 DEF Well, InputStates
  <2>6. PlaceOf(state') = IF ended THEN i + 1 ELSE i
    BY <1>3, <1>4, <2>1, <2>5 DEF PlaceOf
  <2>7. Judged(p, text, i)'
    BY <1>2, <1>3, <2>2, <2>3, <2>4, <2>6 DEF Judged, Success, Failure, PlaceOf
  <2> QED BY <1>1, <1>2, <1>3, <2>2, <2>6, <2>7, AnsweredAgrees
<1> QED BY <1>5, <1>6

LEMMA UndefinedAgrees ==
  ASSUME Control, WellPlaced, NEW i, AgreesAt(i), UndefinedFails
  PROVE  AgreesAt(i)'
<1>1. PICK p : p = Definition(arg)
  OBVIOUS
<1>2. /\ ctl = "call" /\ ctl' = "return" /\ p.type = "UNDEFINED" /\ UNCHANGED <<text, root, stack, state>>
      /\ ok' = FALSE
  BY <1>1 DEF UndefinedFails, Called, Return, setting, place
<1>3. i = PlaceOf(state) /\ i \in PlacesIn(text) /\ text \in Texts /\ p \in AllParsers
  BY <1>1, <1>2, AskedFacts2
<1>4. Match(p, text, i) = Failure
  BY <1>2, <1>3, MatchFacts
<1>5. Judged(p, text, i)'
  BY <1>2, <1>4 DEF Judged, Failure
<1> QED BY <1>1, <1>2, <1>3, <1>5, AnsweredAgrees DEF PlaceOf

(***************************************************************************)
(* The parsers that are made of parsers.                                   *)
(***************************************************************************)
LEMMA SingleAgrees ==
  ASSUME Control, WellPlaced, NEW i, AgreesAt(i), NEW j, Follows(i, j),
         ApplySucceeds \/ ApplyFails \/ ExpectSucceeds \/ ExpectFails \/ MaybeTakes \/ MaybeLifts
  PROVE  AgreesAt(j)'
<1>1. PICK p, e, x : p = Top.p /\ e = PlaceOf(Top.entry) /\ x = Match(Part(Top.p, Top.j), text, i)
  OBVIOUS
<1>2. /\ ctl = "return" /\ ctl' = "return" /\ stack # << >> /\ stack' = Front(stack)
      /\ UNCHANGED <<text, root, state>> /\ p.type \in {"APPLY", "EXPECT", "MAYBE"}
      /\ ok' = IF p.type = "MAYBE" THEN TRUE ELSE ok
  BY <1>1 DEF ApplySucceeds, ApplyFails, ExpectSucceeds, ExpectFails, MaybeTakes, MaybeLifts,
              Returned, Leave, Return, setting, place
<1>3. /\ Due(Top, text, i) /\ e \in PlacesIn(text) /\ text \in Texts /\ p \in AllParsers
      /\ x.verdict = (IF ok THEN "success" ELSE "failure") /\ Succeeds(x) = ok /\ Fails(x) = ~ ok
      /\ ok => x.at = PlaceOf(state)
      /\ ~ ok => i = PlaceOf(state)
  BY <1>1, <1>2, TopFacts
<1>4. i = e
  BY <1>1, <1>2, <1>3 DEF Due, Still
<1>5. x = Match(p.x, text, e)
  BY <1>1, <1>2, <1>4 DEF Part, ListTypes
<1>6. /\ p.type = "EXPECT" => Match(p, text, e) = x
      /\ p.type = "APPLY" => Match(p, text, e) = IF Succeeds(x) THEN Success(x.at, Combined(p.f, <<x.string>>)) ELSE x
      /\ p.type = "MAYBE" => Match(p, text, e) = IF Fails(x) THEN Success(e, << >>) ELSE x
  BY <1>3, <1>5, MatchFacts
<1>7. Judged(p, text, e)'
  <2>1. CASE ok
    <3>1. x.verdict = "success" /\ x.at = PlaceOf(state)
      BY <1>3, <2>1
    <3>2. Match(p, text, e).verdict = "success" /\ Match(p, text, e).at = PlaceOf(state)
      BY <1>2, <1>6, <3>1 DEF Succeeds, Fails, Success
    <3> QED BY <1>2, <2>1, <3>2 DEF Judged, PlaceOf
  <2>2. CASE ~ ok
    <3>1. x.verdict = "failure" /\ e = PlaceOf(state)
      BY <1>3, <1>4, <2>2
    <3>2. Match(p, text, e) = IF p.type = "MAYBE" THEN Success(e, << >>) ELSE x
      BY <1>2, <1>6, <3>1 DEF Succeeds, Fails
    <3> QED BY <1>2, <2>2, <3>1, <3>2 DEF Judged, PlaceOf, Success
  <2> QED BY <2>1, <2>2
<1>8. ~ ok' => PlaceOf(state') = e
  BY <1>2, <1>3, <1>4 DEF PlaceOf
<1> QED BY <1>1, <1>2, <1>7, <1>8, LeftAgrees

LEMMA ManyFacts ==
  ASSUME Control, WellPlaced, NEW i, AgreesAt(i), ctl = "return", stack # << >>,
         NEW p, p = Top.p, p.type \in {"MANY", "MANY1"},
         NEW e, e = PlaceOf(Top.entry), NEW x, x = Match(Part(Top.p, Top.j), text, i)
  PROVE  /\ MatchFrom(p, 1, text, i) =
              IF Succeeds(x) THEN Prefixed(x.string, MatchFrom(p, 1, text, x.at))
              ELSE IF Fails(x) THEN Success(i, << >>) ELSE x
         /\ Top.j = 1 /\ Top.p.x = Part(Top.p, Top.j)
         /\ Top.results = << >> => i = e /\ x = Match(p.x, text, e)
         /\ Top.results = << >> /\ p.type = "MANY1" =>
              Match(p, text, e) = IF Succeeds(x) THEN Folded(p, MatchFrom(p, 1, text, i)) ELSE x
         /\ Top.results # << >> \/ p.type = "MANY" \/ Succeeds(x) =>
              SameEnd(Match(p, text, e), MatchFrom(p, 1, text, i))
<1>1. /\ Due(Top, text, i) /\ i \in PlacesIn(text) /\ e \in PlacesIn(text) /\ text \in Texts /\ p \in AllParsers
  BY TopFacts
<1>2. Top.j = 1 /\ 1 \in Parts(p) /\ Part(Top.p, Top.j) = p.x /\ Part(p, 1) = p.x
  BY <1>1 DEF Due, Parts, Part, ListTypes
<1>3. MatchFrom(p, 1, text, i) =
        IF Succeeds(x) THEN Prefixed(x.string, MatchFrom(p, 1, text, x.at))
        ELSE IF Fails(x) THEN Success(i, << >>) ELSE x
  <2>1. x = Match(Part(p, 1), text, i) /\ p.type \in ListTypes \cup {"MANY", "MANY1"}
    BY <1>2
  <2> QED BY <1>1, <1>2, <2>1, FromFacts
<1>4. Top.results = << >> => i = e
  BY <1>1 DEF Due, Still
<1>5. p.type = "MANY1" =>
        Match(p, text, e) =
          IF Succeeds(Match(p.x, text, e)) THEN Folded(p, MatchFrom(p, 1, text, e)) ELSE Match(p.x, text, e)
  BY <1>1, MatchFacts
<1>6. Top.results = << >> => x = Match(p.x, text, e)
  BY <1>2, <1>4
<1>7. Top.results # << >> \/ p.type = "MANY" \/ Succeeds(x) => SameEnd(Match(p, text, e), MatchFrom(p, 1, text, i))
  <2>1. CASE Top.results # << >> \/ p.type = "MANY"
    BY <1>1, <1>2, <2>1 DEF Due, Goes
  <2>2. CASE Top.results = << >> /\ p.type = "MANY1" /\ Succeeds(x)
    <3>1. Match(p, text, e) = Folded(p, MatchFrom(p, 1, text, i))
      BY <1>4, <1>5, <1>6, <2>2
    <3> QED BY <3>1 DEF Folded, SameEnd, Succeeds, Success
  <2> QED BY <2>1, <2>2
<1> QED BY <1>2, <1>3, <1>4, <1>5, <1>6, <1>7

LEMMA ManyAgrees ==
  ASSUME Control, WellPlaced, NEW i, AgreesAt(i), NEW j, Follows(i, j), ManyGoesOn \/ ManyEnds \/ Many1Fails
  PROVE  AgreesAt(j)'
<1>1. PICK p, e, x : p = Top.p /\ e = PlaceOf(Top.entry) /\ x = Match(Part(Top.p, Top.j), text, i)
  OBVIOUS
<1>2. ctl = "return" /\ stack # << >> /\ p.type \in {"MANY", "MANY1"} /\ UNCHANGED <<text, root, state>>
  BY <1>1 DEF ManyGoesOn, ManyEnds, Many1Fails, Returned, Leave, Run, Return, setting, place
<1>3. /\ i \in PlacesIn(text) /\ PlaceOf(state) \in PlacesIn(text) /\ FrameOK(Top, text)
      /\ x.verdict = (IF ok THEN "success" ELSE "failure") /\ Succeeds(x) = ok /\ Fails(x) = ~ ok
      /\ ok => x.at = PlaceOf(state)
      /\ ~ ok => i = PlaceOf(state)
  BY <1>1, <1>2, TopFacts
<1>4. /\ MatchFrom(p, 1, text, i) =
           IF Succeeds(x) THEN Prefixed(x.string, MatchFrom(p, 1, text, x.at))
           ELSE IF Fails(x) THEN Success(i, << >>) ELSE x
      /\ Top.j = 1
      /\ Top.results = << >> => i = e
      /\ Top.results = << >> /\ p.type = "MANY1" =>
           Match(p, text, e) = IF Succeeds(x) THEN Folded(p, MatchFrom(p, 1, text, i)) ELSE x
      /\ Top.results # << >> \/ p.type = "MANY" \/ Succeeds(x) =>
           SameEnd(Match(p, text, e), MatchFrom(p, 1, text, i))
  BY <1>1, <1>2, ManyFacts
<1>5. CASE ManyGoesOn
  <2>1. PICK f, room : /\ f = [Top EXCEPT !.results = Append(Top.results, result), !.room = room]
                       /\ stack' = [stack EXCEPT ![Len(stack)] = f] /\ ctl' = "call" /\ ok
    BY <1>5 DEF ManyGoesOn, Returned, Run
  <2>2. f.p = p /\ f.j = Top.j /\ f.results # << >> /\ f.entry = Top.entry
    <3>1. Append(Top.results, result) # << >>
      BY <1>3, AppendFacts DEF FrameOK
    <3>2. PICK t, results : t = Top /\ results = Append(Top.results, result)
      OBVIOUS
    <3>3. t = [p |-> t.p, j |-> t.j, results |-> t.results, room |-> t.room, entry |-> t.entry]
      BY <1>3, <3>2 DEF FrameOK
    <3>4. f = [t EXCEPT !.results = results, !.room = room]
      BY <2>1, <3>2
    <3> QED BY <1>1, <3>1, <3>2, <3>3, <3>4
  <2>3. SameEnd(Match(p, text, e), MatchFrom(p, 1, text, PlaceOf(state)))
    BY <1>3, <1>4, <2>1 DEF SameEnd, Prefixed, Succeeds, Success
  <2>4. Due(f, text, PlaceOf(state))
    BY <1>1, <1>2, <1>3, <1>4, <2>2, <2>3 DEF Due, Still, Goes
  <2> QED BY <1>2, <2>1, <2>2, <2>4, ResumedAgrees
<1>6. CASE ManyEnds
  <2>1. ok = FALSE /\ ok' = TRUE /\ ctl' = "return" /\ stack' = Front(stack) /\ (p.type = "MANY" \/ Top.results # << >>)
    BY <1>1, <1>6 DEF ManyEnds, Returned, Leave, Return
  <2>2. MatchFrom(p, 1, text, i) = Success(i, << >>)
    BY <1>3, <1>4, <2>1
  <2>3. Match(p, text, e).verdict = "success" /\ Match(p, text, e).at = PlaceOf(state)
    BY <1>3, <1>4, <2>1, <2>2 DEF SameEnd, Success, Succeeds
  <2>4. Judged(p, text, e)'
    BY <1>2, <2>1, <2>3 DEF Judged, PlaceOf
  <2> QED BY <1>1, <1>2, <2>1, <2>4, LeftAgrees
<1>7. CASE Many1Fails
  <2>1. ok = FALSE /\ ok' = FALSE /\ ctl' = "return" /\ stack' = Front(stack) /\ p.type = "MANY1" /\ Top.results = << >>
    BY <1>1, <1>7 DEF Many1Fails, Returned, Leave, Return
  <2>2. Match(p, text, e) = x /\ i = e
    BY <1>3, <1>4, <2>1
  <2>3. Judged(p, text, e)' /\ PlaceOf(state') = e
    BY <1>2, <1>3, <2>1, <2>2 DEF Judged, PlaceOf
  <2> QED BY <1>1, <1>2, <2>1, <2>3, LeftAgrees
<1> QED BY <1>5, <1>6, <1>7

LEMMA ListFacts ==
  ASSUME Control, WellPlaced, NEW i, AgreesAt(i), ctl = "return", stack # << >>,
         NEW p, p = Top.p, p.type \in ListTypes,
         NEW e, e = PlaceOf(Top.entry), NEW x, x = Match(Part(Top.p, Top.j), text, i)
  PROVE  /\ p.type = "OR" =>
              /\ i = e
              /\ MatchFrom(p, Top.j, text, i) = IF Fails(x) /\ Top.j < Len(p.xs) THEN MatchFrom(p, Top.j + 1, text, i) ELSE x
         /\ p.type = "AND" =>
              MatchFrom(p, Top.j, text, i) =
                IF Succeeds(x)
                THEN Prefixed(x.string, IF Top.j < Len(p.xs) THEN MatchFrom(p, Top.j + 1, text, x.at)
                                        ELSE Success(x.at, << >>))
                ELSE x
         /\ SameEnd(Match(p, text, e), MatchFrom(p, Top.j, text, i))
<1>1. /\ Due(Top, text, i) /\ i \in PlacesIn(text) /\ text \in Texts /\ p \in AllParsers /\ Top.j \in Parts(p)
  BY TopFacts
<1>2. p.type = "OR" => i = e
  BY <1>1 DEF Due, Still
<1>3. SameEnd(Match(p, text, e), MatchFrom(p, Top.j, text, i))
  BY <1>1 DEF Due, Goes, ListTypes
<1>4. /\ p.type = "OR" =>
           MatchFrom(p, Top.j, text, i) = IF Fails(x) /\ Top.j < Len(p.xs) THEN MatchFrom(p, Top.j + 1, text, i) ELSE x
      /\ p.type = "AND" =>
           MatchFrom(p, Top.j, text, i) =
             IF Succeeds(x)
             THEN Prefixed(x.string, IF Top.j < Len(p.xs) THEN MatchFrom(p, Top.j + 1, text, x.at)
                                     ELSE Success(x.at, << >>))
             ELSE x
  BY <1>1, FromFacts
<1> QED BY <1>2, <1>3, <1>4

LEMMA OrAgrees ==
  ASSUME Control, WellPlaced, NEW i, AgreesAt(i), NEW j, Follows(i, j), OrTakes \/ OrTriesNext \/ OrFails
  PROVE  AgreesAt(j)'
<1>1. PICK p, e, x : p = Top.p /\ e = PlaceOf(Top.entry) /\ x = Match(Part(Top.p, Top.j), text, i)
  OBVIOUS
<1>2. ctl = "return" /\ stack # << >> /\ p.type = "OR" /\ UNCHANGED <<text, root, state>>
  BY <1>1 DEF OrTakes, OrTriesNext, OrFails, Returned, Leave, Run, Return, setting, place
<1>3. /\ i \in PlacesIn(text) /\ FrameOK(Top, text)
      /\ x.verdict = (IF ok THEN "success" ELSE "failure") /\ Succeeds(x) = ok /\ Fails(x) = ~ ok
      /\ ok => x.at = PlaceOf(state)
      /\ ~ ok => i = PlaceOf(state)
  BY <1>1, <1>2, TopFacts
<1>4. /\ i = e
      /\ MatchFrom(p, Top.j, text, i) = IF Fails(x) /\ Top.j < Len(p.xs) THEN MatchFrom(p, Top.j + 1, text, i) ELSE x
      /\ SameEnd(Match(p, text, e), MatchFrom(p, Top.j, text, i))
  BY <1>1, <1>2, ListFacts DEF ListTypes
<1>5. CASE OrTriesNext
  <2>1. PICK f : f = [Top EXCEPT !.j = @ + 1] /\ stack' = [stack EXCEPT ![Len(stack)] = f]
    BY <1>5 DEF OrTriesNext, Run
  <2>2. ctl' = "call" /\ ok = FALSE /\ Top.j < Len(p.xs)
    BY <1>1, <1>5 DEF OrTriesNext, Returned, Run
  <2>3. f.p = p /\ f.j = Top.j + 1 /\ f.entry = Top.entry
    <3>1. PICK t : t = Top
      OBVIOUS
    <3>2. t = [p |-> t.p, j |-> t.j, results |-> t.results, room |-> t.room, entry |-> t.entry]
      BY <1>3, <3>1 DEF FrameOK
    <3>3. f = [t EXCEPT !.j = @ + 1]
      BY <2>1, <3>1
    <3> QED BY <1>1, <3>1, <3>2, <3>3
  <2>4. MatchFrom(p, Top.j, text, i) = MatchFrom(p, Top.j + 1, text, i) /\ i = PlaceOf(state)
    BY <1>3, <1>4, <2>2
  <2>5. Due(f, text, i)
    BY <1>1, <1>2, <1>3, <1>4, <2>3, <2>4 DEF Due
  <2> QED BY <1>2, <2>1, <2>2, <2>3, <2>4, <2>5, ResumedAgrees
<1>6. CASE OrTakes \/ OrFails
  <2>1. ok' = ok /\ ctl' = "return" /\ stack' = Front(stack) /\ (~ ok => Top.j = Len(p.xs))
    BY <1>1, <1>6 DEF OrTakes, OrFails, Returned, Leave, Return
  <2>2. MatchFrom(p, Top.j, text, i) = x
    <3>1. CASE ok
      BY <1>3, <1>4, <3>1
    <3>2. CASE ~ ok
      <4>1. p.xs \in Seq(AllParsers) /\ Top.j = Len(p.xs)
        BY <1>1, <1>2, <2>1, <3>2, OnTop DEF Closed, ListTypes
      <4> QED BY <1>4, <4>1
    <3> QED BY <3>1, <3>2
  <2>3. Match(p, text, e).verdict = x.verdict /\ (ok => Match(p, text, e).at = x.at)
    BY <1>3, <1>4, <2>2 DEF SameEnd, Succeeds
  <2>4. Judged(p, text, e)' /\ (~ ok' => PlaceOf(state') = e)
    BY <1>2, <1>3, <1>4, <2>1, <2>3 DEF Judged, PlaceOf
  <2> QED BY <1>1, <1>2, <2>1, <2>4, LeftAgrees
<1> QED BY <1>5, <1>6

LEMMA AndAgrees ==
  ASSUME Control, WellPlaced, NEW i, AgreesAt(i), NEW j, Follows(i, j), AndGoesOn \/ AndSucceeds \/ AndFails
  PROVE  AgreesAt(j)'
<1>1. PICK p, e, x : p = Top.p /\ e = PlaceOf(Top.entry) /\ x = Match(Part(Top.p, Top.j), text, i)
  OBVIOUS
<1>2. ctl = "return" /\ stack # << >> /\ p.type = "AND" /\ UNCHANGED <<text, root>>
  BY <1>1 DEF AndGoesOn, AndSucceeds, AndFails, Returned, Leave, Run, Return, setting
<1>3. /\ i \in PlacesIn(text) /\ FrameOK(Top, text) /\ PlaceOf(state) \in PlacesIn(text)
      /\ x.verdict = (IF ok THEN "success" ELSE "failure") /\ Succeeds(x) = ok
      /\ ok => x.at = PlaceOf(state)
  BY <1>1, <1>2, TopFacts
<1>4. /\ MatchFrom(p, Top.j, text, i) =
           IF Succeeds(x)
           THEN Prefixed(x.string, IF Top.j < Len(p.xs) THEN MatchFrom(p, Top.j + 1, text, x.at)
                                   ELSE Success(x.at, << >>))
           ELSE x
      /\ SameEnd(Match(p, text, e), MatchFrom(p, Top.j, text, i))
  BY <1>1, <1>2, ListFacts DEF ListTypes
<1>5. CASE AndGoesOn
  <2>1. PICK f : f = [Top EXCEPT !.j = @ + 1, !.results = Append(@, result)] /\ stack' = [stack EXCEPT ![Len(stack)] = f]
    BY <1>5 DEF AndGoesOn, Run
  <2>2. ctl' = "call" /\ ok = TRUE /\ Top.j < Len(p.xs) /\ state' = state
    BY <1>1, <1>5 DEF AndGoesOn, Returned, Run, place
  <2>3. f.p = p /\ f.j = Top.j + 1 /\ f.entry = Top.entry
    <3>1. PICK t, results : t = Top /\ results = Append(t.results, result)
      OBVIOUS
    <3>2. t = [p |-> t.p, j |-> t.j, results |-> t.results, room |-> t.room, entry |-> t.entry]
      BY <1>3, <3>1 DEF FrameOK
    <3>3. f = [t EXCEPT !.j = @ + 1, !.results = results]
      BY <2>1, <3>1, <3>2
    <3> QED BY <1>1, <3>1, <3>2, <3>3
  <2>4. SameEnd(Match(p, text, e), MatchFrom(p, Top.j + 1, text, PlaceOf(state)))
    BY <1>3, <1>4, <2>2 DEF SameEnd, Prefixed, Succeeds, Success
  <2>5. Due(f, text, PlaceOf(state))
    BY <1>1, <1>2, <1>3, <2>3, <2>4 DEF Due, Still
  <2> QED BY <1>2, <2>1, <2>2, <2>3, <2>5, ResumedAgrees
<1>6. CASE AndSucceeds
  <2>1. ok = TRUE /\ ok' = TRUE /\ ctl' = "return" /\ stack' = Front(stack) /\ state' = state /\ Top.j = Len(p.xs)
    BY <1>1, <1>6 DEF AndSucceeds, Returned, Leave, Return, place
  <2>2. ~ (Top.j < Len(p.xs))
    <3>1. p.xs \in Seq(AllParsers)
      BY <1>1, <1>2, OnTop DEF Closed, ListTypes
    <3> QED BY <2>1, <3>1
  <2>3. Match(p, text, e).verdict = "success" /\ Match(p, text, e).at = PlaceOf(state)
    BY <1>3, <1>4, <2>1, <2>2 DEF SameEnd, Prefixed, Succeeds, Success
  <2>4. Judged(p, text, e)'
    BY <1>2, <2>1, <2>3 DEF Judged, PlaceOf
  <2> QED BY <1>1, <1>2, <2>1, <2>4, LeftAgrees
<1>7. CASE AndFails
  <2>1. ok = FALSE /\ ok' = FALSE /\ ctl' = "return" /\ stack' = Front(stack)
    BY <1>7 DEF AndFails, Returned, Leave, Return
  <2>2. state' = Top.entry
    BY <1>7, AndFailsControl
  <2>3. Match(p, text, e).verdict = "failure"
    BY <1>3, <1>4, <2>1 DEF SameEnd
  <2>4. Judged(p, text, e)' /\ PlaceOf(state') = e
    BY <1>1, <1>2, <2>1, <2>2, <2>3 DEF Judged, PlaceOf
  <2> QED BY <1>1, <1>2, <2>1, <2>4, LeftAgrees
<1> QED BY <1>5, <1>6, <1>7

LEMMA FinishAgrees ==
  ASSUME Control, NEW i, AgreesAt(i), Finish
  PROVE  AgreesAt(i)'
<1>1. ctl = "return" /\ ctl' = "done" /\ stack = << >> /\ UNCHANGED <<text, root, state, ok>>
  BY DEF Finish, setting, place
<1>2. Judged(root, text, i) /\ i = 0
  BY <1>1 DEF AgreesAt, Following, Begins, Asked
<1> QED BY <1>1, <1>2 DEF AgreesAt, Judged, PlaceOf

(***************************************************************************)
(* All steps.                                                              *)
(***************************************************************************)
LEMMA AgreesInit ==
  ASSUME Init
  PROVE  AgreesAt(0)
<1>1. PlaceOf(state) = 0 /\ ctl = "call" /\ stack = << >> /\ text \in Texts
  BY DEF Init, PlaceOf
<1>2. 0 \in PlacesIn(text)
  BY <1>1, TextsAssumption DEF PlacesIn
<1> QED BY <1>1, <1>2 DEF AgreesAt, Following, Begins

LEMMA AgreesStep ==
  ASSUME Control, WellPlaced, NEW i, AgreesAt(i), [Next]_vars, ~ limited', NEW j, Follows(i, j)
  PROVE  AgreesAt(j)'
<1>0. IsSeq(stack) /\ Len(stack) \in Nat
  BY LenFacts DEF Control, Nested, StackOK
<1>1. CASE TakeChar \/ RefuseChar \/ TakeString \/ RefuseString \/ StartOfInput \/ EndOfInput \/ UndefinedFails
  <2>1. ctl' = "return" /\ stack' = stack
    BY <1>1 DEF TakeChar, RefuseChar, TakeString, RefuseString, StartOfInput, EndOfInput, UndefinedFails, Return
  <2>2. j = i
    BY <1>0, <2>1 DEF Follows
  <2>3. AgreesAt(i)'
    BY <1>1, CharAgrees, StringAgrees, InputAgrees, UndefinedAgrees
  <2> QED BY <2>2, <2>3
<1>2. CASE OpenOne \/ OpenExpect \/ OpenOr \/ OpenAnd
  BY <1>2, OpenedAgrees
<1>3. CASE ApplySucceeds \/ ApplyFails \/ ExpectSucceeds \/ ExpectFails \/ MaybeTakes \/ MaybeLifts
  BY <1>3, SingleAgrees
<1>4. CASE ManyGoesOn \/ ManyEnds \/ Many1Fails
  BY <1>4, ManyAgrees
<1>5. CASE OrTakes \/ OrTriesNext \/ OrFails
  BY <1>5, OrAgrees
<1>6. CASE AndGoesOn \/ AndSucceeds \/ AndFails
  BY <1>6, AndAgrees
<1>7. CASE Finish
  <2>1. ctl' = "done" /\ stack' = stack
    BY <1>7 DEF Finish
  <2>2. j = i
    BY <1>0, <2>1 DEF Follows
  <2> QED BY <1>7, <2>2, FinishAgrees
<1>8. CASE UNCHANGED vars
  <2>1. UNCHANGED <<text, root, state, stack, ctl, ok>>
    BY <1>8 DEF vars
  <2>2. j = i
    BY <1>0, <2>1 DEF Follows, AgreesAt, PlaceOf
  <2> QED BY <2>1, <2>2 DEF AgreesAt, Judged, PlaceOf
<1>9. CASE TooDeep
  BY <1>9 DEF TooDeep
<1> QED BY <1>1, <1>2, <1>3, <1>4, <1>5, <1>6, <1>7, <1>8, <1>9 DEF Next, Finished

(* The limit, once met, is not forgotten.                                  *)
LEMMA LimitStays ==
  ASSUME [Next]_vars, ~ limited'
  PROVE  ~ limited
<1>1. CASE TooDeep
  BY <1>1 DEF TooDeep
<1>2. CASE UNCHANGED vars
  BY <1>2 DEF vars
<1>3. CASE Next /\ ~ TooDeep
  BY <1>3 DEF Next, Finished, vars, UndefinedFails, TakeChar, RefuseChar, TakeString, RefuseString, StartOfInput,
              EndOfInput, OpenOne, OpenExpect, OpenOr, OpenAnd, Open, ApplySucceeds, ApplyFails, ExpectSucceeds,
              ExpectFails, Report, MaybeTakes, MaybeLifts, ManyGoesOn, ManyEnds, Many1Fails, Run, OrTakes,
              OrTriesNext, OrFails, AndGoesOn, AndSucceeds, AndFails, Finish, history
<1> QED BY <1>1, <1>2, <1>3

LEMMA InvAgreeing == Spec => []Agreeing
<1>1. Init => Agreeing
  BY WellInit, AgreesInit DEF Agreeing
<1>2. Control /\ Agreeing /\ [Next]_vars => Agreeing'
  <2> SUFFICES ASSUME Control, Agreeing, [Next]_vars PROVE Agreeing'
    OBVIOUS
  <2>1. WellPlaced /\ WellPlaced'
    BY WellStep DEF Agreeing
  <2>2. ASSUME ~ limited' PROVE \E j : AgreesAt(j)'
    <3>1. PICK i : AgreesAt(i)
      BY <2>2, LimitStays DEF Agreeing
    <3>2. PICK j : Follows(i, j)
      BY DEF Follows
    <3> QED BY <2>1, <2>2, <3>1, <3>2, AgreesStep
  <2> QED BY <2>1, <2>2 DEF Agreeing
<1> QED BY <1>1, <1>2, InvControl, PTL DEF Spec

(* What the engine accepts, and where it ends, is what the parser means,   *)
(* whatever the functions do that it applies: the marks that an AND goes   *)
(* back to, the tries of an OR and the repetitions make no difference.     *)
THEOREM InvAcceptsAsMeant == Spec => []AcceptsAsMeant
<1>1. Agreeing => AcceptsAsMeant
  BY DEF Agreeing, AgreesAt, AcceptsAsMeant, Judged
<1> QED BY <1>1, InvAgreeing, PTL

-------------------------------------------------------------------------------
(***************************************************************************)
(* The values.  What a pointer is worth is what is in its block, and NULL  *)
(* is worth nothing.                                                       *)
(***************************************************************************)
Content(h, x) == Data(h, x, << >>)
Contents(h, xs) == [k \in 1 .. Len(xs) |-> Content(h, xs[k])]

LEMMA ContentFacts ==
  ASSUME NEW h, NEW R, Sound(h, R), NEW x
  PROVE  /\ x = Null => Content(h, x) = << >>
         /\ x \in Live(h) => Content(h, x) = h.blocks[x].data
BY SoundFacts DEF Content, Data

LEMMA ContentKept ==
  ASSUME NEW h, NEW g, NEW R, NEW Q, Sound(h, R), Sound(g, Q), NEW x, Target(x) \subseteq R, Keeps(h, g, Target(x))
  PROVE  Content(g, x) = Content(h, x)
<1>1. CASE x = Null
  BY <1>1, ContentFacts
<1>2. CASE x # Null
  <2>1. x \in Live(h) /\ x \in Live(g) /\ g.blocks[x].data = h.blocks[x].data
    BY <1>2, SoundFacts DEF Keeps, Target
  <2> QED BY <2>1, ContentFacts
<1> QED BY <1>1, <1>2

LEMMA ContentsFacts ==
  ASSUME NEW h, NEW xs, IsSeq(xs)
  PROVE  /\ IsSeq(Contents(h, xs)) /\ Len(Contents(h, xs)) = Len(xs)
         /\ \A k \in 1 .. Len(xs) : Contents(h, xs)[k] = Content(h, xs[k])
<1>1. Len(xs) \in Nat
  BY LenFacts
<1>2. PICK c : c = Contents(h, xs) /\ c = [k \in 1 .. Len(xs) |-> c[k]]
  BY DEF Contents
<1>3. IsSeq(c) /\ Len(c) = Len(xs)
  BY <1>1, <1>2, SeqOfFunction
<1> QED BY <1>2, <1>3 DEF Contents

LEMMA ContentsKept ==
  ASSUME NEW h, NEW g, NEW R, NEW Q, Sound(h, R), Sound(g, Q),
         NEW xs, Values(xs) \subseteq R, Keeps(h, g, Values(xs))
  PROVE  Contents(g, xs) = Contents(h, xs)
<1>1. ASSUME NEW k \in 1 .. Len(xs)
      PROVE  Content(g, xs[k]) = Content(h, xs[k])
  <2>1. Target(xs[k]) \subseteq Values(xs)
    BY DEF Target, Values
  <2>2. Keeps(h, g, Target(xs[k])) /\ Target(xs[k]) \subseteq R
    BY <2>1 DEF Keeps
  <2> QED BY <2>2, ContentKept
<1> QED BY <1>1 DEF Contents

LEMMA ContentsAppended ==
  ASSUME NEW h, NEW xs, IsSeq(xs), NEW x
  PROVE  Contents(h, Append(xs, x)) = Append(Contents(h, xs), Content(h, x))
<1>1. PICK ys : ys = Append(xs, x)
  OBVIOUS
<1>2. IsSeq(ys) /\ Len(ys) = Len(xs) + 1 /\ Len(xs) \in Nat /\ (\A k \in 1 .. Len(xs) : ys[k] = xs[k]) /\ ys[Len(xs) + 1] = x
  BY <1>1, AppendFacts, LenFacts
<1>3. PICK c, d : c = Contents(h, ys) /\ d = Append(Contents(h, xs), Content(h, x))
  OBVIOUS
<1>4. IsSeq(c) /\ Len(c) = Len(xs) + 1 /\ \A k \in 1 .. Len(xs) + 1 : c[k] = Content(h, ys[k])
  BY <1>2, <1>3, ContentsFacts
<1>5. /\ IsSeq(d) /\ Len(d) = Len(xs) + 1 /\ d[Len(xs) + 1] = Content(h, x)
      /\ \A k \in 1 .. Len(xs) : d[k] = Content(h, xs[k])
  <2>1. /\ IsSeq(Contents(h, xs)) /\ Len(Contents(h, xs)) = Len(xs)
        /\ \A k \in 1 .. Len(xs) : Contents(h, xs)[k] = Content(h, xs[k])
    BY ContentsFacts
  <2> QED BY <1>3, <2>1, AppendFacts
<1>6. \A k \in 1 .. Len(xs) + 1 : c[k] = d[k]
  <2> SUFFICES ASSUME NEW k \in 1 .. Len(xs) + 1 PROVE c[k] = d[k]
    OBVIOUS
  <2>1. CASE k \in 1 .. Len(xs)
    BY <1>2, <1>4, <1>5, <2>1
  <2>2. CASE k = Len(xs) + 1
    BY <1>2, <1>4, <1>5, <2>2
  <2> QED BY <1>2, <2>1, <2>2
<1>7. c = d
  <2>1. DOMAIN c = 1 .. Len(xs) + 1 /\ DOMAIN d = 1 .. Len(xs) + 1
    BY <1>4, <1>5, LenFacts
  <2>2. c = [k \in DOMAIN c |-> c[k]] /\ d = [k \in DOMAIN d |-> d[k]]
    BY <1>4, <1>5 DEF IsSeq
  <2> QED BY <1>6, <2>1, <2>2
<1> QED BY <1>1, <1>3, <1>7

(* What a fold of mpc's makes of some results.                             *)
LEMMA FoldContent ==
  ASSUME NEW p \in AllParsers, p.type \in {"AND", "MANY", "MANY1"}, p.f \in MpcFolds,
         NEW h, NEW R, NEW xs, Handed(h, R, xs), Served(h, p, xs),
         NEW out, out = ParseFold(h, p.f, xs)
  PROVE  Content(out.heap, out.value) = Combined(p.f, Contents(h, xs))
<1>1. Fits(p) /\ Closed(p)
  BY FitAssumption, ClosedAssumption
<1>2. IsSeq(xs) /\ DOMAIN xs = 1 .. Len(xs) /\ Len(xs) \in Nat
  BY LenFacts DEF Handed
<1>3. p.type = "AND" => AndFits(p) /\ Len(xs) = Len(p.xs)
                        /\ DOMAIN p.xs = 1 .. Len(p.xs)
                        /\ \A k \in 1 .. Len(xs) : Kind(h, xs[k]) \in Yields(p.xs[k])
  <2> SUFFICES ASSUME p.type = "AND"
      PROVE AndFits(p) /\ Len(xs) = Len(p.xs) /\ DOMAIN p.xs = 1 .. Len(p.xs)
            /\ \A k \in 1 .. Len(xs) : Kind(h, xs[k]) \in Yields(p.xs[k])
    OBVIOUS
  <2>1. p.xs \in Seq(AllParsers) /\ AndFits(p)
    BY <1>1 DEF Closed, Fits, ListTypes
  <2>2. \A k \in 1 .. Len(xs) : Kind(h, xs[k]) \in Yields(p.xs[k])
    BY DEF Served, Part, ListTypes
  <2> QED BY <2>1, <2>2 DEF Served
<1>4. p.type # "AND" => ManyFits(p) /\ \A k \in 1 .. Len(xs) : Kind(h, xs[k]) \in Yields(p.x)
  <2>1. p.type # "AND" => ManyFits(p)
    BY <1>1 DEF Fits
  <2>2. p.type # "AND" => \A k \in 1 .. Len(xs) : Kind(h, xs[k]) \in Yields(p.x)
    BY DEF Served, Part, ListTypes
  <2> QED BY <2>1, <2>2
<1>5. PICK kinds : FoldsAll(p, kinds) /\ \A k \in 1 .. Len(xs) : Kind(h, xs[k]) \in kinds
  <2>1. CASE p.type = "AND"
    <3> DEFINE all == UNION {Yields(p.xs[k]) : k \in DOMAIN p.xs}
    <3>1. FoldsAll(p, all)
      BY <1>3, <2>1 DEF AndFits
    <3>2. \A k \in 1 .. Len(xs) : Kind(h, xs[k]) \in all
      BY <1>3, <2>1
    <3> QED BY <3>1, <3>2
  <2>2. CASE p.type # "AND"
    BY <1>4, <2>2 DEF ManyFits
  <2> QED BY <2>1, <2>2
<1>6. ASSUME NEW n \in Nat \ {0}, p.type = "AND", Picks(p, n, Plain)
      PROVE  n \in 1 .. Len(xs) /\ Contents(h, xs)[n] = Content(h, xs[n])
             /\ \A k \in 1 .. Len(xs) : k # n => Kind(h, xs[k]) \in Plain
  <2>1. n \in 1 .. Len(xs)
    BY <1>2, <1>3, <1>6 DEF Picks
  <2> QED BY <1>2, <1>3, <1>6, <2>1, ContentsFacts DEF Picks
<1>7. ASSUME NEW n \in Nat \ {0}, p.type = "AND", Picks(p, n, Plain), out = NthFree(h, xs, n)
      PROVE  Content(out.heap, out.value) = Contents(h, xs)[n]
  <2>1. n \in 1 .. Len(xs) /\ Contents(h, xs)[n] = Content(h, xs[n])
        /\ \A k \in 1 .. Len(xs) : k # n => Kind(h, xs[k]) \in Plain
    BY <1>6, <1>7
  <2>2. out.value = xs[n] /\ Keeps(h, out.heap, Target(xs[n])) /\ Sound(out.heap, R \cup Target(out.value))
    <3>1. Yielded(h, out, R, {Kind(h, xs[n])}) /\ out.value = xs[n] /\ Keeps(h, out.heap, Target(xs[n]))
      BY <1>7, <2>1, NthFreeGives
    <3> QED BY <3>1 DEF Yielded, Gives
  <2>3. Sound(h, R \cup Values(xs)) /\ Target(xs[n]) \subseteq R \cup Values(xs)
    BY <2>1 DEF Handed, Target, Values
  <2> QED BY <2>1, <2>2, <2>3, ContentKept
<1>8. CASE p.f \in {"mpcf_fst", "mpcf_snd", "mpcf_fst_free", "mpcf_snd_free"}
  <2>1. p.type = "AND" /\ AndFits(p)
    BY <1>3, <1>4, <1>8 DEF ManyFits, MpcFolds
  <2>2. CASE p.f \in {"mpcf_fst", "mpcf_snd"}
    <3>1. PICK n \in {1, 2} : out = Result(h, xs[n]) /\ Picks(p, n, {"null"})
                              /\ Combined(p.f, Contents(h, xs)) = Contents(h, xs)[n]
      BY <2>1, <2>2 DEF AndFits, ParseFold, Combined
    <3>2. Picks(p, n, Plain)
      BY <3>1 DEF Picks, Plain
    <3> QED BY <1>6, <2>1, <3>1, <3>2 DEF Result
  <2>3. CASE p.f \in {"mpcf_fst_free", "mpcf_snd_free"}
    <3>1. PICK n \in {1, 2} : out = NthFree(h, xs, n) /\ Picks(p, n, Plain)
                              /\ Combined(p.f, Contents(h, xs)) = Contents(h, xs)[n]
      BY <2>1, <2>3 DEF AndFits, ParseFold, Combined
    <3> QED BY <1>7, <2>1, <3>1
  <2> QED BY <1>8, <2>2, <2>3
<1>9. CASE p.f = "mpcf_strfold"
  <2>1. out = Strfold(h, xs)
    BY <1>9 DEF ParseFold
  <2>2. \A k \in 1 .. Len(xs) : Kind(h, xs[k]) = "chars"
    BY <1>5, <1>9 DEF FoldsAll
  <2>3. Says(out, Joined(h, xs)) /\ Sound(out.heap, R \cup Target(out.value))
    BY <2>1, <2>2, StrfoldGives DEF Yielded, Gives
  <2>4. Content(out.heap, out.value) = Joined(h, xs)
    <3>1. out.value \in Live(out.heap)
      BY <2>3, SoundFacts DEF Says, Target
    <3> QED BY <2>3, <3>1, ContentFacts DEF Says
  <2>5. Joined(h, xs) = Combined(p.f, Contents(h, xs))
    <3>1. Contents(h, xs) = [k \in DOMAIN xs |-> Data(h, xs[k], << >>)]
      BY <1>2 DEF Contents, Content
    <3>2. xs = << >> <=> Contents(h, xs) = << >>
      BY <1>2, ContentsFacts, EmptySeq DEF IsSeq
    <3> QED BY <1>9, <3>1, <3>2 DEF Joined, Combined
  <2> QED BY <2>4, <2>5
<1>10. CASE p.f = "mpcf_all_free"
  <2>1. out.value = Null
    BY <1>10 DEF ParseFold, Result
  <2>2. \A k \in 1 .. Len(xs) : Kind(h, xs[k]) \in Plain
    BY <1>5, <1>10 DEF FoldsAll
  <2>3. Sound(out.heap, R \cup Target(out.value))
    <3>1. PICK moved : moved = ExportAll(h, xs)
      OBVIOUS
    <3>2. out = Result(FreeAll(moved.heap, moved.value), Null)
      BY <1>10, <3>1 DEF ParseFold
    <3>3. Yielded(h, Result(FreeAll(moved.heap, moved.value), Null), R, {"null"})
      BY <2>2, <3>1, AllFreeGives
    <3> QED BY <3>2, <3>3 DEF Yielded, Gives
  <2>4. Content(out.heap, out.value) = << >>
    BY <2>1, <2>3, ContentFacts
  <2> QED BY <1>10, <2>4 DEF Combined
<1> QED BY <1>8, <1>9, <1>10 DEF MpcFolds

-------------------------------------------------------------------------------
(***************************************************************************)
(* The string of a parser that is under way: what its activation has       *)
(* gathered and what is still to come, put together.                       *)
(***************************************************************************)
LEMMA SuccessSays ==
  ASSUME NEW at, NEW s
  PROVE  Succeeds(Success(at, s)) /\ Success(at, s).at = at /\ Success(at, s).string = s
BY DEF Success, Succeeds

LEMMA PrefixedSays ==
  ASSUME NEW x, NEW m, Succeeds(m)
  PROVE  Succeeds(Prefixed(x, m)) /\ Prefixed(x, m).at = m.at /\ Prefixed(x, m).string = <<x>> \o m.string
<1>1. PICK s, y : s = <<x>> \o m.string /\ y = Success(m.at, s)
  OBVIOUS
<1>2. Prefixed(x, m) = y
  BY <1>1 DEF Prefixed
<1>3. Succeeds(y) /\ y.at = m.at /\ y.string = s
  BY <1>1, SuccessSays
<1> QED BY <1>1, <1>2, <1>3

LEMMA Regrouped ==
  ASSUME NEW s, IsSeq(s), NEW r, IsSeq(r), NEW x
  PROVE  Append(s, x) \o r = s \o (<<x>> \o r)
<1> DEFINE S == ToSet(s) \cup ToSet(r) \cup {x}
<1>1. s \in Seq(S) /\ r \in Seq(S) /\ <<x>> \in Seq(S)
  <2>1. s \in Seq(ToSet(s)) /\ r \in Seq(ToSet(r))
    BY DEF IsSeq
  <2>2. s \in Seq(S) /\ r \in Seq(S)
    BY <2>1, SeqMonotonic
  <2>3. x \in S
    OBVIOUS
  <2> HIDE DEF S
  <2> QED BY <2>2, <2>3
<1> HIDE DEF S
<1>2. Append(s, x) = s \o <<x>>
  <2>1. x \in S
    BY DEF S
  <2> QED BY <1>1, <2>1, AppendIsConcat
<1>3. (s \o <<x>>) \o r = s \o (<<x>> \o r)
  BY <1>1, ConcatAssociative
<1> QED BY <1>2, <1>3

Spells(f, h, t, i) ==
  LET m == MatchFrom(f.p, f.j, t, i)
  IN  Goes(f) /\ Succeeds(m) =>
        Match(f.p, t, PlaceOf(f.entry)).string =
          IF f.p.type = "OR" THEN m.string ELSE Combined(f.p.f, Contents(h, f.results) \o m.string)

Spelling(s, h, t, i) == \A d \in 1 .. Len(s) : Spells(s[d], h, t, Begins(s, i, d))

Said(p, t, i) == ok => Content(heap, result) = Match(p, t, i).string

SpelledAt(i) ==
  /\ ctl # "done" => Spelling(stack, heap, text, i)
  /\ ctl = "return" => Said(Asked(stack, root), text, i)
  /\ ctl = "done" => Said(root, text, 0)

LEMMA SpellingPush ==
  ASSUME NEW s, IsSeq(s), NEW h, NEW t, NEW f, NEW i, Spelling(s, h, t, PlaceOf(f.entry)), Spells(f, h, t, i)
  PROVE  Spelling(Append(s, f), h, t, i)
<1> DEFINE u == Append(s, f)
           n == Len(s)
<1>1. n \in Nat /\ Len(u) = n + 1 /\ (\A k \in 1 .. n : u[k] = s[k]) /\ u[n + 1] = f
  BY LenFacts, AppendFacts
<1> HIDE DEF u
<1>2. ASSUME NEW d \in 1 .. n + 1 PROVE Spells(u[d], h, t, Begins(u, i, d))
  <2>1. CASE d = n + 1
    BY <1>1, <2>1 DEF Begins
  <2>2. CASE d # n + 1
    <3>1. d \in 1 .. n /\ Spells(s[d], h, t, Begins(s, PlaceOf(f.entry), d))
      BY <1>1, <2>2 DEF Spelling
    <3>2. Begins(u, i, d) = Begins(s, PlaceOf(f.entry), d)
      <4>1. CASE d = n
        BY <1>1, <4>1 DEF Begins
      <4>2. CASE d # n
        <5>1. d + 1 \in 1 .. n /\ d # n + 1
          BY <1>1, <2>2, <4>2
        <5> QED BY <1>1, <4>2, <5>1 DEF Begins
      <4> QED BY <4>1, <4>2
    <3> QED BY <1>1, <3>1, <3>2
  <2> QED BY <2>1, <2>2
<1> QED BY <1>1, <1>2 DEF Spelling, u

LEMMA SpellingPop ==
  ASSUME NEW s, IsSeq(s), s # << >>, NEW h, NEW t, NEW i, Spelling(s, h, t, i)
  PROVE  Spells(Last(s), h, t, i) /\ Spelling(Front(s), h, t, PlaceOf(Last(s).entry))
<1> DEFINE u == Front(s)
           n == Len(s)
<1>1. n \in Nat \ {0} /\ Len(u) = n - 1 /\ \A k \in 1 .. n - 1 : u[k] = s[k]
  BY FrontFacts
<1>2. PICK f : f = Last(s) /\ f = s[n]
  BY DEF Last
<1>3. Spells(f, h, t, i)
  <2>1. Begins(s, i, n) = i /\ n \in 1 .. n
    BY <1>1 DEF Begins
  <2> QED BY <1>2, <2>1 DEF Spelling
<1> HIDE DEF u
<1>4. ASSUME NEW d \in 1 .. n - 1 PROVE Spells(u[d], h, t, Begins(u, PlaceOf(f.entry), d))
  <2>1. d \in 1 .. n /\ Spells(s[d], h, t, Begins(s, i, d))
    BY <1>1 DEF Spelling
  <2>2. Begins(u, PlaceOf(f.entry), d) = Begins(s, i, d)
    <3>1. CASE d = n - 1
      <4>1. d + 1 = n /\ d # n
        BY <1>1, <3>1
      <4> QED BY <1>1, <1>2, <3>1, <4>1 DEF Begins
    <3>2. CASE d # n - 1
      <4>1. d + 1 \in 1 .. n - 1 /\ d # n
        BY <1>1, <3>2
      <4> QED BY <1>1, <3>2, <4>1 DEF Begins
    <3> QED BY <3>1, <3>2
  <2> QED BY <1>1, <2>1, <2>2
<1>5. Spelling(u, h, t, PlaceOf(f.entry))
  BY <1>1, <1>4 DEF Spelling
<1> QED BY <1>2, <1>3, <1>5 DEF u

(* What the activations hold stays what it is while a step leaves it.      *)
LEMMA SpellsKept ==
  ASSUME NEW h, NEW g, NEW R, NEW Q, Sound(h, R), Sound(g, Q),
         NEW f, Values(f.results) \subseteq R, Keeps(h, g, Values(f.results)), NEW t, NEW i, Spells(f, h, t, i)
  PROVE  Spells(f, g, t, i)
<1>1. Contents(g, f.results) = Contents(h, f.results)
  BY ContentsKept
<1> QED BY <1>1 DEF Spells

LEMMA SpellingKept ==
  ASSUME NEW h, NEW g, NEW R, NEW Q, Sound(h, R), Sound(g, Q),
         NEW s, StackHeld(s) \subseteq R, Keeps(h, g, StackHeld(s)), NEW t, NEW i, Spelling(s, h, t, i)
  PROVE  Spelling(s, g, t, i)
<1> SUFFICES ASSUME NEW d \in 1 .. Len(s) PROVE Spells(s[d], g, t, Begins(s, i, d))
  BY DEF Spelling
<1>1. PICK f : f = s[d]
  OBVIOUS
<1>2. Values(f.results) \subseteq StackHeld(s)
  BY <1>1 DEF StackHeld, FrameHeld
<1>3. Keeps(h, g, Values(f.results)) /\ Values(f.results) \subseteq R
  BY <1>2 DEF Keeps
<1>4. Spells(f, h, t, Begins(s, i, d))
  BY <1>1 DEF Spelling
<1>5. Spells(f, g, t, Begins(s, i, d))
  BY <1>3, <1>4, SpellsKept
<1> QED BY <1>1, <1>5

(***************************************************************************)
(* A parser has answered at once, has begun to run a child, runs its next  *)
(* child, or returns: what the other activations spell is left as it is.   *)
(***************************************************************************)
LEMMA HeapedSound ==
  ASSUME Heaped
  PROVE  \E R : Sound(heap, R) /\ StackHeld(stack) \subseteq R /\ Target(Returning) \subseteq R
<1>1. PICK G : Holding(heap, stack, Target(error) \cup Target(Returning) \cup G)
  BY DEF Heaped
<1> QED BY <1>1 DEF Holding

LEMMA RestSpelled ==
  ASSUME Control, Heaped, Heaped', Undisturbed, ctl # "call" => stack # << >>,
         NEW s, s = IF ctl = "call" THEN stack ELSE Front(stack),
         NEW t, NEW i, Spelling(s, heap, t, i)
  PROVE  Spelling(s, heap', t, i)
<1>1. PICK R : Sound(heap, R) /\ StackHeld(stack) \subseteq R
  BY HeapedSound
<1>2. \E Q : Sound(heap', Q)
  BY DEF Heaped, Holding
<1>3. StackHeld(s) \subseteq StackHeld(stack)
  <2>1. CASE ctl # "call"
    <3>1. /\ Len(s) = Len(stack) - 1 /\ Len(stack) \in Nat \ {0}
          /\ \A k \in 1 .. Len(stack) - 1 : s[k] = stack[k]
      BY <2>1, FrontFacts DEF Control, Nested, StackOK
    <3> QED BY <3>1 DEF StackHeld
  <2> QED BY <2>1
<1>4. Keeps(heap, heap', StackHeld(s))
  BY DEF Undisturbed
<1> QED BY <1>1, <1>2, <1>3, <1>4, SpellingKept

LEMMA AnsweredSpelled ==
  ASSUME Control, Heaped, Heaped', Undisturbed, ctl = "call", ctl' = "return", UNCHANGED <<text, root, stack>>,
         NEW i, AgreesAt(i), SpelledAt(i), NEW p, p = Definition(arg),
         ok' => Content(heap', result') = Match(p, text, i).string
  PROVE  SpelledAt(i)'
<1>1. arg = Asked(stack, root) /\ arg \in AllParsers /\ text \in Texts /\ i \in PlacesIn(text)
  BY Asking DEF Control, Turn, Given, AgreesAt, Following
<1>2. Match(p, text, i) = Match(arg, text, i)
  BY <1>1, MatchDefinition
<1>3. Spelling(stack, heap', text, i)
  BY RestSpelled DEF SpelledAt
<1> QED BY <1>1, <1>2, <1>3 DEF SpelledAt, Said

LEMMA OpenedSpelled ==
  ASSUME Control, WellPlaced, Heaped, Heaped', Undisturbed, NEW i, AgreesAt(i), SpelledAt(i),
         OpenOne \/ OpenExpect \/ OpenOr \/ OpenAnd, NEW j, Follows(i, j)
  PROVE  SpelledAt(j)'
<1> DEFINE p == Definition(arg)
<1>1. ctl = "call" /\ ctl' = "call" /\ p.type \in SingleTypes \cup ListTypes /\ UNCHANGED <<text, state>>
  BY DEF OpenOne, OpenExpect, OpenOr, OpenAnd, Called, Open, SingleTypes, ListTypes, setting, place
<1>2. PICK room, f : /\ stack' = Append(stack, f)
                     /\ f = [p |-> p, j |-> 1, results |-> << >>, room |-> room, entry |-> state]
  BY DEF OpenOne, OpenExpect, OpenOr, OpenAnd, Called, Open
<1>3. i = PlaceOf(state) /\ j = i /\ Following(stack, text, i) /\ Spelling(stack, heap, text, i)
  BY <1>1 DEF AgreesAt, SpelledAt, Follows
<1>4. /\ IsSeq(stack) /\ p \in AllParsers /\ text \in Texts /\ i \in PlacesIn(text)
  BY <1>1, <1>3, Asking DEF Control, Nested, StackOK, Given, Following
<1> HIDE DEF p
<1>5. f.p = p /\ f.j = 1 /\ f.results = << >> /\ f.entry = state
  BY <1>2
<1>6. ASSUME Goes(f)
      PROVE  Spells(f, heap', text, i)
  <2>1. p.type \in {"OR", "AND", "MANY"}
    BY <1>5, <1>6 DEF Goes
  <2>2. PICK m : m = MatchFrom(p, 1, text, i)
    OBVIOUS
  <2>3. /\ p.type = "OR" => Match(p, text, i) = m
        /\ p.type # "OR" => Match(p, text, i) = Folded(p, m)
    BY <1>4, <2>1, <2>2, MatchFacts
  <2>4. p.type # "OR" => IsSeq(m.string)
    <3>1. 1 \in Parts(p)
      <4>1. p.type \in ListTypes => p.xs \in Seq(AllParsers) /\ p.xs # << >>
        BY <1>4, ClosedAssumption DEF Closed
      <4>2. p.type \in ListTypes => 1 \in DOMAIN p.xs
        BY <4>1, EmptySeq
      <4> QED BY <4>2 DEF Parts
    <3> QED BY <1>4, <2>1, <2>2, <3>1, FromFacts DEF ListTypes
  <2>5. p.type # "OR" => Contents(heap', << >>) \o m.string = m.string
    <3>1. IsSeq(<< >>) /\ Len(<< >>) = 0
      BY EmptySeq DEF IsSeq
    <3>2. PICK c : c = Contents(heap', << >>) /\ IsSeq(c) /\ Len(c) = 0
      BY <3>1, ContentsFacts
    <3>3. c = << >>
      BY <3>2, LenFacts
    <3> QED BY <2>4, <3>2, <3>3, ConcatEmptySeq DEF IsSeq
  <2>6. Succeeds(m) => Match(p, text, i).string = IF p.type = "OR" THEN m.string ELSE Combined(p.f, m.string)
    BY <2>3 DEF Folded, Success
  <2> QED BY <1>3, <1>5, <2>2, <2>5, <2>6 DEF Spells
<1>7. Spells(f, heap', text, i)
  BY <1>6 DEF Spells
<1>8. Spelling(stack, heap', text, i)
  BY <1>1, <1>3, RestSpelled
<1>9. Spelling(Append(stack, f), heap', text, i)
  BY <1>3, <1>4, <1>5, <1>7, <1>8, SpellingPush
<1> QED BY <1>1, <1>2, <1>3, <1>9 DEF SpelledAt

LEMMA TopSpells ==
  ASSUME Control, NEW i, SpelledAt(i), ctl = "return", stack # << >>
  PROVE  /\ Spells(Top, heap, text, i) /\ Spelling(Front(stack), heap, text, PlaceOf(Top.entry))
         /\ ok => Content(heap, result) = Match(Part(Top.p, Top.j), text, i).string
<1>1. Top = Last(stack) /\ IsSeq(stack)
  BY OnTop DEF Control, Nested, StackOK
<1>2. Spells(Top, heap, text, i) /\ Spelling(Front(stack), heap, text, PlaceOf(Top.entry))
  BY <1>1, SpellingPop DEF SpelledAt
<1>3. Asked(stack, root) = Part(Top.p, Top.j)
  BY <1>1 DEF Asked, Child, Part
<1> QED BY <1>2, <1>3 DEF SpelledAt, Said

LEMMA ResumedSpelled ==
  ASSUME Control, Heaped, Heaped', Undisturbed, NEW i, SpelledAt(i), ctl = "return", ctl' = "call", stack # << >>,
         UNCHANGED <<text, root, state>>, NEW f, stack' = [stack EXCEPT ![Len(stack)] = f],
         f.entry = Top.entry, Spells(f, heap', text, PlaceOf(state)), NEW j, Follows(i, j)
  PROVE  SpelledAt(j)'
<1>1. j = PlaceOf(state)
  BY DEF Follows, PlaceOf
<1>2. Spelling(Front(stack), heap, text, PlaceOf(f.entry)) /\ IsSeq(stack)
  BY TopSpells DEF Control, Nested, StackOK
<1>3. stack' = Append(Front(stack), f) /\ IsSeq(Front(stack))
  BY <1>2, ReplaceLast, FrontFacts
<1>4. Spelling(Front(stack), heap', text, PlaceOf(f.entry))
  BY <1>2, RestSpelled
<1>5. PICK s : s = Front(stack) /\ IsSeq(s) /\ Spelling(s, heap', text, PlaceOf(f.entry)) /\ stack' = Append(s, f)
  BY <1>3, <1>4
<1>6. Spelling(Append(s, f), heap', text, j)
  BY <1>1, <1>5, SpellingPush
<1> QED BY <1>1, <1>5, <1>6 DEF SpelledAt

LEMMA LeftSpelled ==
  ASSUME Control, WellPlaced, Heaped, Heaped', Undisturbed, NEW i, AgreesAt(i), SpelledAt(i),
         ctl = "return", ctl' = "return", stack # << >>, UNCHANGED <<text, root>>, stack' = Front(stack),
         NEW e, e = PlaceOf(Top.entry), NEW p, p = Top.p,
         ok' => Content(heap', result') = Match(p, text, e).string,
         NEW j, Follows(i, j)
  PROVE  SpelledAt(j)'
<1>1. IsSeq(stack) /\ text \in Texts /\ e \in PlacesIn(text)
  BY TopFacts
<1>2. j = e
  <2>1. Len(stack') = Len(stack) - 1 /\ Len(stack) \in Nat
    BY <1>1, FrontFacts
  <2> QED BY <2>1 DEF Follows
<1>3. StackOK(Front(stack), text, root) /\ Top.p = Definition(Asked(Front(stack), root))
  BY Pop DEF Control, Nested, Top
<1>4. Asked(Front(stack), root) \in AllParsers
  BY <1>3, AskedFacts DEF Control, Given
<1>5. Match(p, text, e) = Match(Asked(stack', root'), text, e)
  BY <1>1, <1>3, <1>4, MatchDefinition
<1>6. Spelling(Front(stack), heap', text, e)
  BY RestSpelled, TopSpells
<1> QED BY <1>1, <1>2, <1>5, <1>6 DEF SpelledAt, Said

(***************************************************************************)
(* The values of the parsers that take characters.                         *)
(***************************************************************************)
LEMMA AnswerWorth ==
  ASSUME Heaped', ctl' # "call", NEW said, Answers(said)
  PROVE  Content(heap', result') = said
<1>1. PICK G : Holding(heap', stack', Target(error') \cup Target(Returning') \cup G)
  BY DEF Heaped
<1>2. \E R : Sound(heap', R) /\ Target(result') \subseteq R
  BY <1>1 DEF Holding, Returning
<1>3. result' \in Live(heap')
  BY <1>2, SoundFacts DEF Answers, Target
<1> QED BY <1>2, <1>3, ContentFacts DEF Answers

LEMMA NullWorth ==
  ASSUME Heaped
  PROVE  Content(heap, Null) = << >>
BY HeapedSound, ContentFacts

LEMMA LeafSpelled ==
  ASSUME Control, WellPlaced, Heaped, NEW i, AgreesAt(i), SpelledAt(i),
         TakeChar \/ RefuseChar \/ TakeString \/ RefuseString \/ StartOfInput \/ EndOfInput \/ UndefinedFails
  PROVE  SpelledAt(i)'
<1>1. PICK p : p = Definition(arg)
  OBVIOUS
<1>2. ctl = "call" /\ ctl' = "return" /\ UNCHANGED <<text, root, stack>>
  BY DEF TakeChar, RefuseChar, TakeString, RefuseString, StartOfInput, EndOfInput, UndefinedFails,
         Called, Return, setting
<1>3. i = PlaceOf(state) /\ i \in PlacesIn(text) /\ text \in Texts /\ p \in AllParsers /\ Well(state, text)
  BY <1>1, <1>2, AskedFacts2
<1>4. Heaped' /\ Undisturbed
  BY TakesHeaped, RefusesHeaped, FailsHeaped
<1>5. ok' => Succeeds(Match(p, text, i))
  <2>1. AgreesAt(i)'
    BY CharAgrees, StringAgrees, InputAgrees, UndefinedAgrees
  <2>2. ok' => Succeeds(Match(Asked(stack, root), text, i))
    BY <1>2, <2>1 DEF AgreesAt, Judged, Succeeds
  <2>3. arg = Asked(stack, root) /\ arg \in AllParsers
    BY <1>2, Asking DEF Control, Turn
  <2>4. Match(p, text, i) = Match(arg, text, i)
    BY <1>1, <1>3, <2>3, MatchDefinition
  <2> QED BY <2>2, <2>3, <2>4
<1>6. \E R : Sound(heap, R)
  BY HeapedSound
<1>7. CASE TakeChar
  <2>1. PICK c : c = MpcMalloc(heap, Block("chars", <<CharAt(1)>>, << >>)) /\ result' = c.value /\ heap' = c.heap /\ ok' = TRUE
    BY <1>7 DEF TakeChar, Return
  <2>2. Answers(<<CharAt(1)>>)
    BY <1>6, <2>1, MallocGives DEF Answers, EngineKinds
  <2>3. Content(heap', result') = <<CharAt(1)>>
    BY <1>2, <1>4, <2>2, AnswerWorth
  <2>4. Match(p, text, i) =
          IF i < Len(text) /\ Accepts(p, text[i + 1]) THEN Success(i + 1, <<text[i + 1]>>) ELSE Failure
    BY <1>1, <1>3, <1>7, MatchFacts DEF TakeChar, Called
  <2>5. Match(p, text, i).string = <<text[i + 1]>> /\ i < Len(text)
    BY <1>5, <2>1, <2>4 DEF Succeeds, Success, Failure
  <2>6. CharAt(1) = text[i + 1]
    BY <1>3, <2>5, HereFacts
  <2> QED BY <1>1, <1>2, <1>4, <2>3, <2>5, <2>6, AnsweredSpelled
<1>8. CASE TakeString
  <2>1. PICK c, s : /\ s = p.string /\ c = MpcMalloc(heap, Block("chars", s, << >>))
                    /\ result' = c.value /\ heap' = c.heap /\ ok' = TRUE
    BY <1>1, <1>8 DEF TakeString, Return
  <2>2. Answers(s)
    BY <1>6, <2>1, MallocGives DEF Answers, EngineKinds
  <2>3. Content(heap', result') = s
    BY <1>2, <1>4, <2>2, AnswerWorth
  <2>4. Match(p, text, i) = IF Reads(p, text, i) THEN Success(i + Len(p.string), p.string) ELSE Failure
    BY <1>1, <1>3, <1>8, MatchFacts DEF TakeString, Called
  <2>5. Match(p, text, i).string = s
    BY <1>5, <2>1, <2>4 DEF Succeeds, Success, Failure
  <2> QED BY <1>1, <1>2, <1>4, <2>3, <2>5, AnsweredSpelled
<1>9. CASE StartOfInput \/ EndOfInput
  <2>1. p.type \in {"SOI", "EOI"} /\ result' = Null
    BY <1>1, <1>9 DEF StartOfInput, EndOfInput, Called, Return
  <2>2. Match(p, text, i) \in {Success(i, << >>), Success(i + 1, << >>), Failure}
    BY <1>3, <2>1, MatchFacts
  <2>3. Match(p, text, i).string = << >>
    BY <2>2 DEF Success, Failure
  <2>4. Content(heap', result') = << >>
    <3>1. heap' = heap
      BY <1>9 DEF StartOfInput, EndOfInput, Return
    <3> QED BY <2>1, <3>1, NullWorth
  <2> QED BY <1>1, <1>2, <1>4, <2>3, <2>4, AnsweredSpelled
<1>10. CASE RefuseChar \/ RefuseString \/ UndefinedFails
  <2>1. ok' = FALSE
    BY <1>10 DEF RefuseChar, RefuseString, UndefinedFails, Return
  <2> QED BY <1>1, <1>2, <1>4, <2>1, AnsweredSpelled
<1> QED BY <1>7, <1>8, <1>9, <1>10

(***************************************************************************)
(* And of those that are made of parsers.                                  *)
(***************************************************************************)
LEMMA SingleSpelled ==
  ASSUME OnlyMpcFunctions, FunctionsKeep, Control, WellPlaced, Heaped, NEW i, AgreesAt(i), SpelledAt(i),
         NEW j, Follows(i, j),
         ApplySucceeds \/ ApplyFails \/ ExpectSucceeds \/ ExpectFails \/ MaybeTakes \/ MaybeLifts
  PROVE  SpelledAt(j)'
<1>1. PICK p, e, x : p = Top.p /\ e = PlaceOf(Top.entry) /\ x = Match(Part(Top.p, Top.j), text, i)
  OBVIOUS
<1>2. /\ ctl = "return" /\ ctl' = "return" /\ stack # << >> /\ stack' = Front(stack)
      /\ UNCHANGED <<text, root>> /\ p.type \in {"APPLY", "EXPECT", "MAYBE"}
  BY <1>1 DEF ApplySucceeds, ApplyFails, ExpectSucceeds, ExpectFails, MaybeTakes, MaybeLifts,
              Returned, Leave, Return, setting
<1>3. /\ Due(Top, text, i) /\ e \in PlacesIn(text) /\ text \in Texts /\ p \in AllParsers
      /\ Succeeds(x) = ok /\ Fails(x) = ~ ok
  BY <1>1, <1>2, TopFacts
<1>4. i = e
  BY <1>1, <1>2, <1>3 DEF Due, Still
<1>5. x = Match(p.x, text, e)
  BY <1>1, <1>2, <1>4 DEF Part, ListTypes
<1>6. /\ p.type = "EXPECT" => Match(p, text, e) = x
      /\ p.type = "APPLY" => Match(p, text, e) = IF Succeeds(x) THEN Success(x.at, Combined(p.f, <<x.string>>)) ELSE x
      /\ p.type = "MAYBE" => Match(p, text, e) = IF Fails(x) THEN Success(e, << >>) ELSE x
  BY <1>3, <1>5, MatchFacts
<1>7. ok => Content(heap, result) = x.string
  BY <1>1, <1>2, TopSpells
<1>8. FoldsKeep /\ AppliesKeep /\ CtorsKeep
  BY DEF FunctionsKeep
<1>9. Heaped' /\ Undisturbed
  BY <1>8, PassedHeaped, ApplySucceedsHeaped, ExpectFailsHeaped, MaybeLiftsHeaped
<1>10. ok' => Content(heap', result') = Match(p, text, e).string
  <2>1. CASE ApplySucceeds
    <3>1. ok = TRUE /\ p.type = "APPLY" /\ p.f \in MpcApplys
      BY <1>1, <1>3, <2>1 DEF ApplySucceeds, Returned, OnlyMpcFunctions
    <3>2. Match(p, text, e).string = Combined(p.f, <<Content(heap, result)>>)
      BY <1>3, <1>6, <1>7, <3>1 DEF Success
    <3>3. CASE p.f = "mpcf_free"
      <4>1. result' = Null
        BY <1>1, <1>8, <2>1, <3>3, ApplySucceedsHeaped
      <4>2. \E R : Sound(heap', R)
        BY <1>9 DEF Heaped, Holding
      <4>3. Content(heap', result') = << >>
        BY <4>1, <4>2, ContentFacts
      <4> QED BY <3>2, <3>3, <4>3 DEF Combined
    <3>4. CASE p.f = "mpcf_int"
      <4>1. Answers(Number(Content(heap, result)))
        BY <1>1, <1>8, <2>1, <3>4, ApplySucceedsHeaped DEF Content
      <4>2. Content(heap', result') = Number(Content(heap, result))
        BY <1>2, <1>9, <4>1, AnswerWorth
      <4> QED BY <3>2, <3>4, <4>2 DEF Combined
    <3> QED BY <3>1, <3>3, <3>4 DEF MpcApplys
  <2>2. CASE ExpectSucceeds \/ MaybeTakes
    <3>1. heap' = heap /\ result' = result /\ ok = TRUE /\ p.type \in {"EXPECT", "MAYBE"}
      BY <1>1, <2>2 DEF ExpectSucceeds, MaybeTakes, Returned, Leave, Return
    <3>2. Match(p, text, e) = x
      BY <1>3, <1>6, <3>1
    <3> QED BY <1>7, <3>1, <3>2
  <2>3. CASE MaybeLifts
    <3>1. ok = FALSE /\ p.type = "MAYBE" /\ p.lf \in MpcCtors
      BY <1>1, <1>3, <2>3 DEF MaybeLifts, Returned, OnlyMpcFunctions
    <3>2. Answers(<< >>)
      BY <1>1, <1>8, <2>3, <3>1, MaybeLiftsHeaped DEF MpcCtors
    <3>3. Content(heap', result') = << >>
      BY <1>2, <1>9, <3>2, AnswerWorth
    <3>4. Match(p, text, e).string = << >>
      <4>1. Fails(x)
        BY <1>3, <3>1
      <4>2. Match(p, text, e) = Success(e, << >>)
        BY <1>6, <3>1, <4>1
      <4> QED BY <4>2, SuccessSays
    <3> QED BY <3>3, <3>4
  <2>4. CASE ApplyFails \/ ExpectFails
    BY <2>4 DEF ApplyFails, ExpectFails, Leave, Return
  <2> QED BY <2>1, <2>2, <2>3, <2>4
<1> QED BY <1>1, <1>2, <1>9, <1>10, LeftSpelled

(* What a fold makes of the results reaches the caller.                    *)
LEMMA FoldedContent ==
  ASSUME OnlyMpcFunctions, FoldsKeep, Heaped', stack # << >>, Top.p \in AllParsers,
         Top.p.type \in {"AND", "MANY", "MANY1"}, NEW h, NEW xs, Folds(h, xs)
  PROVE  Content(heap', result') = Combined(Top.p.f, Contents(h, xs)) /\ IsSeq(xs) /\ \E R : Sound(h, R \cup Values(xs))
<1>1. PICK p, f : p = Top.p /\ f = ParseFold(h, Top.p.f, xs)
  OBVIOUS
<1>2. /\ Served(h, p, xs) /\ result' = f.value /\ Keeps(f.heap, heap', Target(f.value))
      /\ \E R : Handed(h, R, xs)
  BY <1>1 DEF Folds
<1>3. PICK R : Handed(h, R, xs)
  BY <1>2
<1>4. p.f \in MpcFolds
  BY <1>1 DEF OnlyMpcFunctions
<1>5. Content(f.heap, f.value) = Combined(p.f, Contents(h, xs))
  BY <1>1, <1>2, <1>3, <1>4, FoldContent
<1>6. Sound(f.heap, R \cup Target(f.value))
  BY <1>1, <1>2, <1>3, ParseFoldGives DEF Yielded, Gives
<1>7. \E Q : Sound(heap', Q)
  BY DEF Heaped, Holding
<1>8. Content(heap', f.value) = Content(f.heap, f.value)
  BY <1>2, <1>6, <1>7, ContentKept
<1> QED BY <1>1, <1>2, <1>3, <1>5, <1>8 DEF Handed

(* What a repetition spells, be it the first time or not.                  *)
LEMMA ManySpells ==
  ASSUME Control, WellPlaced, Heaped, NEW i, AgreesAt(i), SpelledAt(i), ctl = "return", stack # << >>,
         NEW p, p = Top.p, p.type \in {"MANY", "MANY1"}, Goes(Top) \/ ok,
         NEW e, e = PlaceOf(Top.entry), NEW m, m = MatchFrom(p, 1, text, i), Succeeds(m)
  PROVE  Match(p, text, e).string = Combined(p.f, Contents(heap, Top.results) \o m.string) /\ IsSeq(m.string)
<1>1. PICK x : x = Match(Part(Top.p, Top.j), text, i)
  OBVIOUS
<1>2. /\ i \in PlacesIn(text) /\ text \in Texts /\ p \in AllParsers /\ Succeeds(x) = ok /\ FrameOK(Top, text)
  BY <1>1, TopFacts
<1>3. /\ Top.j = 1 /\ (Top.results = << >> => i = e)
      /\ Top.results = << >> /\ p.type = "MANY1" =>
           Match(p, text, e) = IF Succeeds(x) THEN Folded(p, m) ELSE x
  BY <1>1, ManyFacts
<1>4. IsSeq(m.string)
  <2>1. 1 \in Parts(p)
    BY DEF Parts, ListTypes
  <2> QED BY <1>2, <2>1, FromFacts
<1>5. CASE Goes(Top)
  <2>1. Spells(Top, heap, text, i)
    BY TopSpells
  <2> QED BY <1>3, <1>4, <1>5, <2>1 DEF Spells
<1>6. CASE ~ Goes(Top)
  <2>1. Top.results = << >> /\ p.type = "MANY1" /\ ok
    BY <1>6 DEF Goes
  <2>2. Match(p, text, e).string = Combined(p.f, m.string)
    BY <1>2, <1>3, <2>1 DEF Folded, Success
  <2>3. Contents(heap, << >>) \o m.string = m.string
    <3>1. IsSeq(<< >>) /\ Len(<< >>) = 0
      BY EmptySeq DEF IsSeq
    <3>2. PICK c : c = Contents(heap, << >>) /\ IsSeq(c) /\ Len(c) = 0
      BY <3>1, ContentsFacts
    <3>3. c = << >>
      BY <3>2, LenFacts
    <3> QED BY <1>4, <3>2, <3>3, ConcatEmptySeq DEF IsSeq
  <2> QED BY <1>4, <2>1, <2>2, <2>3
<1> QED BY <1>5, <1>6

(* One result more.                                                        *)
LEMMA GrownContents ==
  ASSUME Heaped, Heaped', ctl = "return", stack # << >>, IsSeq(stack), IsSeq(Top.results),
         Keeps(heap, heap', Values(Top.results) \cup Target(result))
  PROVE  Contents(heap', Append(Top.results, result)) = Append(Contents(heap, Top.results), Content(heap, result))
<1>1. PICK R : Sound(heap, R) /\ StackHeld(stack) \subseteq R /\ Target(Returning) \subseteq R
  BY HeapedSound
<1>2. \E Q : Sound(heap', Q)
  BY DEF Heaped, Holding
<1>3. Values(Top.results) \subseteq R /\ Target(result) \subseteq R
  <2>1. Len(stack) \in 1 .. Len(stack)
    BY LenFacts
  <2>2. Top = stack[Len(stack)]
    BY DEF Top, Last
  <2>3. FrameHeld(Top) \subseteq StackHeld(stack)
    BY <2>1, <2>2 DEF StackHeld
  <2> QED BY <1>1, <2>3 DEF Returning, FrameHeld
<1>4. Keeps(heap, heap', Values(Top.results)) /\ Keeps(heap, heap', Target(result))
  BY DEF Keeps
<1>5. Contents(heap', Top.results) = Contents(heap, Top.results)
  BY <1>1, <1>2, <1>3, <1>4, ContentsKept
<1>6. Content(heap', result) = Content(heap, result)
  BY <1>1, <1>2, <1>3, <1>4, ContentKept
<1> QED BY <1>5, <1>6, ContentsAppended

LEMMA ManySpelled ==
  ASSUME OnlyMpcFunctions, FunctionsKeep, Control, WellPlaced, Heaped, NEW i, AgreesAt(i), SpelledAt(i),
         NEW j, Follows(i, j), ManyGoesOn \/ ManyEnds \/ Many1Fails
  PROVE  SpelledAt(j)'
<1>1. PICK p, e, x, xs : /\ p = Top.p /\ e = PlaceOf(Top.entry) /\ x = Match(Part(Top.p, Top.j), text, i)
                         /\ xs = Top.results
  OBVIOUS
<1>2. ctl = "return" /\ stack # << >> /\ p.type \in {"MANY", "MANY1"} /\ UNCHANGED <<text, root, state>>
  BY <1>1 DEF ManyGoesOn, ManyEnds, Many1Fails, Returned, Leave, Run, Return, setting, place
<1>3. /\ FrameOK(Top, text) /\ IsSeq(stack) /\ IsSeq(xs) /\ p \in AllParsers
      /\ Succeeds(x) = ok /\ Fails(x) = ~ ok /\ (ok => x.at = PlaceOf(state))
      /\ i \in PlacesIn(text) /\ PlaceOf(state) \in PlacesIn(text) /\ text \in Texts
  BY <1>1, <1>2, TopFacts DEF FrameOK
<1>4. /\ MatchFrom(p, 1, text, i) =
           IF Succeeds(x) THEN Prefixed(x.string, MatchFrom(p, 1, text, x.at))
           ELSE IF Fails(x) THEN Success(i, << >>) ELSE x
      /\ Top.j = 1
  BY <1>1, <1>2, ManyFacts
<1>5. FoldsKeep
  BY DEF FunctionsKeep
<1>6. PICK c : c = Contents(heap, xs) /\ IsSeq(c)
  BY <1>3, ContentsFacts
<1>7. CASE ManyGoesOn
  <2>1. PICK f, room : /\ f = [Top EXCEPT !.results = Append(Top.results, result), !.room = room]
                       /\ stack' = [stack EXCEPT ![Len(stack)] = f] /\ ctl' = "call" /\ ok
    BY <1>7 DEF ManyGoesOn, Returned, Run
  <2>2. f.p = p /\ f.j = 1 /\ f.results = Append(xs, result) /\ f.entry = Top.entry
    <3>1. PICK t, results : t = Top /\ results = Append(Top.results, result)
      OBVIOUS
    <3>2. t = [p |-> t.p, j |-> t.j, results |-> t.results, room |-> t.room, entry |-> t.entry]
      BY <1>3, <3>1 DEF FrameOK
    <3>3. f = [t EXCEPT !.results = results, !.room = room]
      BY <2>1, <3>1
    <3> QED BY <1>1, <1>4, <3>1, <3>2, <3>3
  <2>3. Heaped' /\ Undisturbed /\ Keeps(heap, heap', FrameHeld(Top) \cup Target(result))
    BY <1>7, ManyGoesOnHeaped
  <2>4. Keeps(heap, heap', Values(xs) \cup Target(result))
    BY <1>1, <2>3 DEF Keeps, FrameHeld
  <2>5. Contents(heap', f.results) = Append(c, x.string)
    <3>1. Contents(heap', Append(xs, result)) = Append(c, Content(heap, result))
      BY <1>1, <1>2, <1>3, <1>6, <2>3, <2>4, GrownContents
    <3>2. Content(heap, result) = x.string
      BY <1>1, <1>2, <2>1, TopSpells
    <3> QED BY <2>2, <3>1, <3>2
  <2>6. ASSUME NEW m, m = MatchFrom(p, 1, text, PlaceOf(state)), Succeeds(m)
        PROVE  Match(p, text, e).string = Combined(p.f, Append(c, x.string) \o m.string)
    <3>1. PICK n : n = MatchFrom(p, 1, text, i)
      OBVIOUS
    <3>2. n.string = <<x.string>> \o m.string /\ Succeeds(n)
      <4>1. n = Prefixed(x.string, m)
        BY <1>3, <1>4, <2>1, <2>6, <3>1
      <4> QED BY <2>6, <4>1, PrefixedSays
    <3>3. Match(p, text, e).string = Combined(p.f, c \o n.string)
      BY <1>1, <1>2, <1>6, <2>1, <3>1, <3>2, ManySpells
    <3>4. IsSeq(m.string)
      <4>1. 1 \in Parts(p)
        BY <1>2 DEF Parts, ListTypes
      <4> QED BY <1>2, <1>3, <2>6, <4>1, FromFacts
    <3>5. Append(c, x.string) \o m.string = c \o n.string
      <4>1. Append(c, x.string) \o m.string = c \o (<<x.string>> \o m.string)
        BY <1>6, <3>4, Regrouped
      <4> QED BY <3>2, <4>1
    <3> QED BY <3>3, <3>5
  <2>7. Spells(f, heap', text, PlaceOf(state))
    BY <1>1, <1>2, <2>2, <2>5, <2>6 DEF Spells
  <2> QED BY <1>1, <1>2, <2>1, <2>2, <2>3, <2>7, ResumedSpelled
<1>8. CASE ManyEnds
  <2>1. ok = FALSE /\ ctl' = "return" /\ stack' = Front(stack) /\ Goes(Top)
    BY <1>1, <1>2, <1>8 DEF ManyEnds, Returned, Leave, Return, Goes
  <2>2. Heaped' /\ Undisturbed /\ \E h : Keeps(heap, h, FrameHeld(Top)) /\ Folds(h, xs)
    BY <1>1, <1>5, <1>8, ManyEndsHeaped
  <2>3. PICK h : Keeps(heap, h, FrameHeld(Top)) /\ Folds(h, xs)
    BY <2>2
  <2>4. /\ Content(heap', result') = Combined(p.f, Contents(h, xs)) /\ \E R : Sound(h, R)
    BY <1>1, <1>2, <1>3, <1>5, <2>2, <2>3, FoldedContent
  <2>5. Contents(h, xs) = c
    <3>1. PICK R : Sound(heap, R) /\ StackHeld(stack) \subseteq R
      BY HeapedSound
    <3>2. Values(xs) \subseteq R /\ Keeps(heap, h, Values(xs))
      <4>1. Len(stack) \in 1 .. Len(stack) /\ Top = stack[Len(stack)]
        BY <1>2, <1>3, LenFacts DEF Top, Last
      <4>2. FrameHeld(Top) \subseteq StackHeld(stack)
        BY <4>1 DEF StackHeld
      <4> QED BY <1>1, <2>3, <3>1, <4>2 DEF FrameHeld, Keeps
    <3> QED BY <1>6, <2>4, <3>1, <3>2, ContentsKept
  <2>6. MatchFrom(p, 1, text, i) = Success(i, << >>)
    BY <1>3, <1>4, <2>1
  <2>7. Match(p, text, e).string = Combined(p.f, c)
    <3>1. PICK n : n = MatchFrom(p, 1, text, i) /\ Succeeds(n) /\ n.string = << >>
      BY <2>6 DEF Success, Succeeds
    <3>2. Match(p, text, e).string = Combined(p.f, c \o n.string)
      BY <1>1, <1>2, <1>6, <2>1, <3>1, ManySpells
    <3>3. c \o n.string = c
      BY <1>6, <3>1, ConcatEmptySeq DEF IsSeq
    <3> QED BY <3>2, <3>3
  <2> QED BY <1>1, <1>2, <2>1, <2>2, <2>4, <2>5, <2>7, LeftSpelled
<1>9. CASE Many1Fails
  <2>1. ok' = FALSE /\ ctl' = "return" /\ stack' = Front(stack)
    BY <1>9 DEF Many1Fails, Leave, Return
  <2>2. Heaped' /\ Undisturbed
    BY <1>9, Many1FailsHeaped
  <2> QED BY <1>1, <1>2, <2>1, <2>2, LeftSpelled
<1> QED BY <1>7, <1>8, <1>9

LEMMA OrSpelled ==
  ASSUME Control, WellPlaced, Heaped, NEW i, AgreesAt(i), SpelledAt(i),
         NEW j, Follows(i, j), OrTakes \/ OrTriesNext \/ OrFails
  PROVE  SpelledAt(j)'
<1>1. PICK p, e, x : p = Top.p /\ e = PlaceOf(Top.entry) /\ x = Match(Part(Top.p, Top.j), text, i)
  OBVIOUS
<1>2. ctl = "return" /\ stack # << >> /\ p.type = "OR" /\ UNCHANGED <<text, root, state>>
  BY <1>1 DEF OrTakes, OrTriesNext, OrFails, Returned, Leave, Run, Return, setting, place
<1>3. /\ FrameOK(Top, text) /\ IsSeq(stack)
      /\ Succeeds(x) = ok /\ Fails(x) = ~ ok
      /\ ~ ok => i = PlaceOf(state)
  BY <1>1, <1>2, TopFacts
<1>4. MatchFrom(p, Top.j, text, i) = IF Fails(x) /\ Top.j < Len(p.xs) THEN MatchFrom(p, Top.j + 1, text, i) ELSE x
  BY <1>1, <1>2, ListFacts DEF ListTypes
<1>5. Succeeds(MatchFrom(p, Top.j, text, i)) => Match(p, text, e).string = MatchFrom(p, Top.j, text, i).string
  <2>1. Spells(Top, heap, text, i)
    BY <1>2, TopSpells
  <2>2. Goes(Top)
    BY <1>1, <1>2 DEF Goes
  <2> QED BY <1>1, <1>2, <2>1, <2>2 DEF Spells
<1>6. Heaped' /\ Undisturbed
  BY OrTakesHeaped, OrTriesNextHeaped, OrFailsHeaped
<1>7. CASE OrTriesNext
  <2>1. PICK f : f = [Top EXCEPT !.j = @ + 1] /\ stack' = [stack EXCEPT ![Len(stack)] = f]
    BY <1>7 DEF OrTriesNext, Run
  <2>2. ctl' = "call" /\ ok = FALSE /\ Top.j < Len(p.xs)
    BY <1>1, <1>7 DEF OrTriesNext, Returned, Run
  <2>3. f.p = p /\ f.j = Top.j + 1 /\ f.entry = Top.entry
    <3>1. PICK t : t = Top
      OBVIOUS
    <3>2. t = [p |-> t.p, j |-> t.j, results |-> t.results, room |-> t.room, entry |-> t.entry]
      BY <1>3, <3>1 DEF FrameOK
    <3>3. f = [t EXCEPT !.j = @ + 1]
      BY <2>1, <3>1
    <3> QED BY <1>1, <3>1, <3>2, <3>3
  <2>4. MatchFrom(p, Top.j, text, i) = MatchFrom(p, Top.j + 1, text, i) /\ i = PlaceOf(state)
    BY <1>3, <1>4, <2>2
  <2>5. Spells(f, heap', text, PlaceOf(state))
    BY <1>1, <1>2, <1>5, <2>3, <2>4 DEF Spells
  <2> QED BY <1>2, <1>6, <2>1, <2>2, <2>3, <2>5, ResumedSpelled
<1>8. CASE OrTakes
  <2>1. ok = TRUE /\ ctl' = "return" /\ stack' = Front(stack) /\ result' = result
    BY <1>8 DEF OrTakes, Returned, Leave, Return
  <2>2. Match(p, text, e).string = x.string
    BY <1>3, <1>4, <1>5, <2>1
  <2>3. Content(heap, result) = x.string
    BY <1>1, <1>2, <2>1, TopSpells
  <2>4. Content(heap', result') = Content(heap, result)
    <3>1. PICK R : Sound(heap, R) /\ Target(Returning) \subseteq R
      BY HeapedSound
    <3>2. \E Q : Sound(heap', Q)
      BY <1>6 DEF Heaped, Holding
    <3>3. Keeps(heap, heap', Target(result))
      BY <1>8, OrTakesHeaped
    <3>4. Returning = result
      BY <1>2 DEF Returning
    <3> QED BY <2>1, <3>1, <3>2, <3>3, <3>4, ContentKept
  <2> QED BY <1>1, <1>2, <1>6, <2>1, <2>2, <2>3, <2>4, LeftSpelled
<1>9. CASE OrFails
  <2>1. ok' = FALSE /\ ctl' = "return" /\ stack' = Front(stack)
    BY <1>9 DEF OrFails, Leave, Return
  <2> QED BY <1>1, <1>2, <1>6, <2>1, LeftSpelled
<1> QED BY <1>7, <1>8, <1>9

LEMMA AndSpelled ==
  ASSUME OnlyMpcFunctions, FunctionsKeep, Control, WellPlaced, Heaped, NEW i, AgreesAt(i), SpelledAt(i),
         NEW j, Follows(i, j), AndGoesOn \/ AndSucceeds \/ AndFails
  PROVE  SpelledAt(j)'
<1>1. PICK p, e, x, xs : /\ p = Top.p /\ e = PlaceOf(Top.entry) /\ x = Match(Part(Top.p, Top.j), text, i)
                         /\ xs = Top.results
  OBVIOUS
<1>2. ctl = "return" /\ stack # << >> /\ p.type = "AND" /\ UNCHANGED <<text, root>>
  BY <1>1 DEF AndGoesOn, AndSucceeds, AndFails, Returned, Leave, Run, Return, setting
<1>3. /\ FrameOK(Top, text) /\ IsSeq(stack) /\ IsSeq(xs) /\ p \in AllParsers /\ Top.j \in Parts(p)
      /\ Succeeds(x) = ok /\ (ok => x.at = PlaceOf(state))
      /\ PlaceOf(state) \in PlacesIn(text) /\ i \in PlacesIn(text) /\ text \in Texts
  BY <1>1, <1>2, TopFacts DEF FrameOK, ListTypes
<1>4. PICK m, r : /\ m = MatchFrom(p, Top.j, text, i)
                  /\ r = IF Top.j < Len(p.xs) THEN MatchFrom(p, Top.j + 1, text, x.at) ELSE Success(x.at, << >>)
                  /\ m = IF Succeeds(x) THEN Prefixed(x.string, r) ELSE x
  BY <1>1, <1>2, ListFacts DEF ListTypes
<1>5. PICK c : c = Contents(heap, xs) /\ IsSeq(c)
  BY <1>3, ContentsFacts
<1>6. Succeeds(m) => Match(p, text, e).string = Combined(p.f, c \o m.string)
  <2>1. Spells(Top, heap, text, i)
    BY <1>2, TopSpells
  <2>2. Goes(Top)
    BY <1>1, <1>2 DEF Goes
  <2> QED BY <1>1, <1>2, <1>4, <1>5, <2>1, <2>2 DEF Spells
<1>7. FoldsKeep /\ DtorsKeep
  BY DEF FunctionsKeep
<1>8. Heaped' /\ Undisturbed
  BY <1>7, AndGoesOnHeaped, AndSucceedsHeaped, AndFailsHeaped
<1>9. ok => Content(heap, result) = x.string
  BY <1>1, <1>2, TopSpells
<1>10. p.xs \in Seq(AllParsers) /\ Len(p.xs) \in Nat
  <2>1. p.xs \in Seq(AllParsers)
    BY <1>2, <1>3, ClosedAssumption DEF Closed, ListTypes
  <2> QED BY <2>1
<1>11. ok /\ IsSeq(r.string) /\ Succeeds(r) => Match(p, text, e).string = Combined(p.f, Append(c, x.string) \o r.string)
  <2> SUFFICES ASSUME ok, IsSeq(r.string), Succeeds(r)
               PROVE  Match(p, text, e).string = Combined(p.f, Append(c, x.string) \o r.string)
    OBVIOUS
  <2>1. Succeeds(m) /\ m.string = <<x.string>> \o r.string
    <3>1. m = Prefixed(x.string, r)
      BY <1>3, <1>4
    <3> QED BY <3>1, PrefixedSays
  <2>2. Append(c, x.string) \o r.string = c \o m.string
    <3>1. Append(c, x.string) \o r.string = c \o (<<x.string>> \o r.string)
      BY <1>5, Regrouped
    <3> QED BY <2>1, <3>1
  <2> QED BY <1>6, <2>1, <2>2
<1>12. CASE AndGoesOn
  <2>1. PICK f : f = [Top EXCEPT !.j = @ + 1, !.results = Append(@, result)] /\ stack' = [stack EXCEPT ![Len(stack)] = f]
    BY <1>12 DEF AndGoesOn, Run
  <2>2. ctl' = "call" /\ ok = TRUE /\ Top.j < Len(p.xs) /\ state' = state /\ heap' = heap
    BY <1>1, <1>12 DEF AndGoesOn, Returned, Run, place
  <2>3. f.p = p /\ f.j = Top.j + 1 /\ f.results = Append(xs, result) /\ f.entry = Top.entry
    <3>1. PICK t, results : t = Top /\ results = Append(t.results, result)
      OBVIOUS
    <3>2. t = [p |-> t.p, j |-> t.j, results |-> t.results, room |-> t.room, entry |-> t.entry]
      BY <1>3, <3>1 DEF FrameOK
    <3>3. f = [t EXCEPT !.j = @ + 1, !.results = results]
      BY <2>1, <3>1, <3>2
    <3> QED BY <1>1, <3>1, <3>2, <3>3
  <2>4. Contents(heap', f.results) = Append(c, x.string)
    BY <1>3, <1>5, <1>9, <2>2, <2>3, ContentsAppended
  <2>5. r = MatchFrom(p, Top.j + 1, text, PlaceOf(state)) /\ IsSeq(r.string)
    <3>1. r = MatchFrom(p, Top.j + 1, text, PlaceOf(state))
      BY <1>3, <1>4, <2>2
    <3>2. Top.j + 1 \in Parts(p)
      BY <1>2, <1>3, <1>10, <2>2 DEF Parts, ListTypes
    <3> QED BY <1>2, <1>3, <3>1, <3>2, FromFacts DEF ListTypes
  <2>6. Spells(f, heap', text, PlaceOf(state))
    BY <1>1, <1>2, <1>11, <2>2, <2>3, <2>4, <2>5 DEF Spells
  <2> QED BY <1>2, <1>8, <2>1, <2>2, <2>3, <2>6, ResumedSpelled
<1>13. CASE AndSucceeds
  <2>1. ok = TRUE /\ ctl' = "return" /\ stack' = Front(stack) /\ Top.j = Len(p.xs)
    BY <1>1, <1>13 DEF AndSucceeds, Returned, Leave, Return
  <2>2. Folds(heap, Append(xs, result))
    BY <1>1, <1>7, <1>13, AndSucceedsHeaped
  <2>3. Content(heap', result') = Combined(p.f, Append(c, x.string))
    <3>1. Content(heap', result') = Combined(p.f, Contents(heap, Append(xs, result)))
      BY <1>1, <1>2, <1>3, <1>7, <1>8, <2>2, FoldedContent
    <3>2. Contents(heap, Append(xs, result)) = Append(c, x.string)
      BY <1>3, <1>5, <1>9, <2>1, ContentsAppended
    <3> QED BY <3>1, <3>2
  <2>4. Match(p, text, e).string = Combined(p.f, Append(c, x.string))
    <3>1. r = Success(x.at, << >>)
      BY <1>4, <1>10, <2>1
    <3>2. r.string = << >> /\ Succeeds(r) /\ IsSeq(r.string)
      BY <3>1, EmptySeq DEF Success, Succeeds, IsSeq
    <3>3. Append(c, x.string) \o << >> = Append(c, x.string)
      <4>1. IsSeq(Append(c, x.string))
        BY <1>5, AppendFacts
      <4> QED BY <4>1, ConcatEmptySeq DEF IsSeq
    <3> QED BY <1>11, <2>1, <3>2, <3>3
  <2> QED BY <1>1, <1>2, <1>8, <2>1, <2>3, <2>4, LeftSpelled
<1>14. CASE AndFails
  <2>1. ok' = FALSE /\ ctl' = "return" /\ stack' = Front(stack)
    BY <1>14 DEF AndFails, Leave, Return
  <2> QED BY <1>1, <1>2, <1>8, <2>1, LeftSpelled
<1> QED BY <1>12, <1>13, <1>14

LEMMA FinishSpelled ==
  ASSUME Control, Heaped, NEW i, AgreesAt(i), SpelledAt(i), Finish
  PROVE  SpelledAt(i)'
<1>1. ctl = "return" /\ ctl' = "done" /\ stack = << >> /\ UNCHANGED <<text, root, ok>>
  BY DEF Finish, setting
<1>2. Said(root, text, 0)
  <2>1. i = 0
    BY <1>1 DEF AgreesAt, Following, Begins
  <2> QED BY <1>1, <2>1 DEF SpelledAt, Asked
<1>3. Heaped' /\ (ok => (result' = Null <=> result = Null) /\ Same(heap, result, heap', result'))
  BY FinishHeaped
<1>4. ok => Content(heap', result') = Content(heap, result)
  <2> SUFFICES ASSUME ok PROVE Content(heap', result') = Content(heap, result)
    OBVIOUS
  <2>1. PICK R : Sound(heap, R) /\ Target(result) \subseteq R
    BY <1>1, HeapedSound DEF Returning
  <2>2. CASE result = Null
    <3>1. \E Q : Sound(heap', Q)
      BY <1>3 DEF Heaped, Holding
    <3> QED BY <1>3, <2>1, <2>2, <3>1, ContentFacts
  <2>3. CASE result # Null
    <3>1. Answers(heap.blocks[result].data)
      BY <1>3, <2>3 DEF Answers, Same
    <3>2. result \in Live(heap)
      BY <2>1, <2>3, SoundFacts DEF Target
    <3>3. Content(heap', result') = heap.blocks[result].data
      BY <1>1, <1>3, <3>1, AnswerWorth
    <3> QED BY <2>1, <3>2, <3>3, ContentFacts
  <2> QED BY <2>2, <2>3
<1> QED BY <1>1, <1>2, <1>4 DEF SpelledAt, Said

(***************************************************************************)
(* All steps.                                                              *)
(***************************************************************************)
LEMMA SpelledInit ==
  ASSUME Init
  PROVE  SpelledAt(0)
<1>1. stack = << >> /\ ctl = "call"
  BY DEF Init
<1>2. Len(stack) = 0
  BY <1>1, EmptySeq
<1> QED BY <1>1, <1>2 DEF SpelledAt, Spelling

LEMMA SpelledStep ==
  ASSUME OnlyMpcFunctions, FunctionsKeep, Control, WellPlaced, Heaped, NEW i, AgreesAt(i), SpelledAt(i),
         [Next]_vars, ~ limited', NEW j, Follows(i, j)
  PROVE  SpelledAt(j)'
<1>0. IsSeq(stack) /\ Len(stack) \in Nat
  BY LenFacts DEF Control, Nested, StackOK
<1>1. CASE TakeChar \/ RefuseChar \/ TakeString \/ RefuseString \/ StartOfInput \/ EndOfInput \/ UndefinedFails
  <2>1. ctl' = "return" /\ stack' = stack
    BY <1>1 DEF TakeChar, RefuseChar, TakeString, RefuseString, StartOfInput, EndOfInput, UndefinedFails, Return
  <2>2. j = i
    BY <1>0, <2>1 DEF Follows
  <2>3. SpelledAt(i)'
    BY <1>1, LeafSpelled
  <2> QED BY <2>2, <2>3
<1>2. CASE OpenOne \/ OpenExpect \/ OpenOr \/ OpenAnd
  <2>1. Heaped' /\ Undisturbed
    BY <1>2, OpenHeaped
  <2> QED BY <1>2, <2>1, OpenedSpelled
<1>3. CASE ApplySucceeds \/ ApplyFails \/ ExpectSucceeds \/ ExpectFails \/ MaybeTakes \/ MaybeLifts
  BY <1>3, SingleSpelled
<1>4. CASE ManyGoesOn \/ ManyEnds \/ Many1Fails
  BY <1>4, ManySpelled
<1>5. CASE OrTakes \/ OrTriesNext \/ OrFails
  BY <1>5, OrSpelled
<1>6. CASE AndGoesOn \/ AndSucceeds \/ AndFails
  BY <1>6, AndSpelled
<1>7. CASE Finish
  <2>1. ctl' = "done" /\ stack' = stack
    BY <1>7 DEF Finish
  <2>2. j = i
    BY <1>0, <2>1 DEF Follows
  <2>3. SpelledAt(i)'
    BY <1>7, FinishSpelled
  <2> QED BY <2>2, <2>3
<1>8. CASE UNCHANGED vars
  <2>1. UNCHANGED <<text, root, state, heap, stack, ctl, ok, result>>
    BY <1>8 DEF vars
  <2>2. j = i
    BY <1>0, <2>1 DEF Follows, AgreesAt, PlaceOf
  <2> QED BY <2>1, <2>2 DEF SpelledAt, Said
<1>9. CASE TooDeep
  BY <1>9 DEF TooDeep
<1> QED BY <1>1, <1>2, <1>3, <1>4, <1>5, <1>6, <1>7, <1>8, <1>9 DEF Next, Finished

(* The place and what the results are worth there, together: an activation *)
(* is at one place, where it agrees and where it spells.                   *)
Spelt == WellPlaced /\ (~ limited => \E i : AgreesAt(i) /\ SpelledAt(i))

LEMMA InvSpelt ==
  ASSUME OnlyMpcFunctions
  PROVE  Spec => []Spelt
<1>1. FunctionsKeep
  BY MpcFunctionsKeep
<1>2. Init => Spelt
  BY WellInit, AgreesInit, SpelledInit DEF Spelt
<1>3. Control /\ Heaped /\ Spelt /\ [Next]_vars => Spelt'
  <2> SUFFICES ASSUME Control, Heaped, Spelt, [Next]_vars PROVE Spelt'
    OBVIOUS
  <2>1. WellPlaced /\ WellPlaced'
    BY WellStep DEF Spelt
  <2>2. ASSUME ~ limited' PROVE \E j : AgreesAt(j)' /\ SpelledAt(j)'
    <3>1. PICK i : AgreesAt(i) /\ SpelledAt(i)
      BY <2>2, LimitStays DEF Spelt
    <3>2. PICK j : Follows(i, j)
      BY DEF Follows
    <3>3. AgreesAt(j)'
      BY <2>1, <2>2, <3>1, <3>2, AgreesStep
    <3>4. SpelledAt(j)'
      BY <1>1, <2>1, <2>2, <3>1, <3>2, SpelledStep
    <3> QED BY <3>3, <3>4
  <2> QED BY <2>1, <2>2 DEF Spelt
<1> QED BY <1>1, <1>2, <1>3, InvControl, InvHeaped, PTL DEF Spec

(* With mpc's own functions, the engine gives back the string that the     *)
(* parser means: whatever the results went through, on the C stack, in the *)
(* blocks that hold them and out of the pool, none is lost, taken for      *)
(* another or written over.                                                *)
THEOREM InvAgreesWithMeaning ==
  ASSUME OnlyMpcFunctions
  PROVE  Spec => []AgreesWithMeaning
<1>1. Spelt => (ctl = "done" /\ ~ limited /\ ok => Data(heap, result, << >>) = Match(root, text, 0).string)
  BY DEF Spelt, SpelledAt, Said, Content
<1>2. Spec => []Spelt
  BY InvSpelt
<1>3. AcceptsAsMeant /\ Spelt => AgreesWithMeaning
  BY <1>1 DEF AgreesWithMeaning
<1> QED BY <1>2, <1>3, InvAcceptsAsMeant, PTL
===============================================================================
