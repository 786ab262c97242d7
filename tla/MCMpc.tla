-------------------------------- MODULE MCMpc --------------------------------
(* An instance of Mpc: small grammars over two characters, of every shape. *)
EXTENDS Peg

TheTexts == UNION {[1 .. n -> {"a", "b"}] : n \in 0 .. 3}

Strings(ps) == And("mpcf_strfold", ps, [k \in 1 .. Len(ps) - 1 |-> "free"])

Leaves == {Char("a"), String("ab")}

Pairs(S, T) == {Strings(<<s, t>>) : s \in S, t \in T} \cup {Or(<<s, t>>) : s \in S, t \in T}
Optional(S) == {MaybeLift(s, "mpcf_ctor_str") : s \in S} \cup {Many("mpcf_strfold", s) : s \in S}
Repeated(S) == {Many1("mpcf_strfold", s) : s \in S}

(* What takes no character must not be repeated: mpc_many would not end.   *)
Taking == Pairs(Leaves, Leaves) \cup Repeated(Leaves)
Simple == Taking \cup Optional(Leaves)

(* Left recursion is brought to an end by the limit on the depth only.     *)
Others ==
  {Named("nest"), Named("left"), Named("deep"), Or(<<Char("b"), Named("left")>>), Or(<<Named("missing"), Char("a")>>),
   Whole(Strip(Named("nest")), "free"),
   Whole(Many("mpcf_strfold", Tok(OneOf("ab"))), "free"),
   And("mpcf_fst_free", <<NoneOf("b"), Apply(Char("b"), "mpcf_free"), Soi>>, <<"free", "mpcf_dtor_null">>),
   TokBetween(Many("mpcf_strfold", Strings(<<Char("b"), Char("a")>>)), "free", "a", "b"),
   Expect(Or(<<Strings(<<Char("a"), Char("a")>>), Many1("mpcf_all_free", Char("b")), Char("a")>>), "x")}

TheRoots == Pairs(Simple, Leaves) \cup Pairs(Leaves, Simple)
            \cup Optional(Taking) \cup Repeated(Taking) \cup Others

TheGrammar ==
  [nest    |-> Strings(<<Char("a"), MaybeLift(Named("nest"), "mpcf_ctor_str"), Char("b")>>),
   left    |-> Strings(<<Named("left"), Char("a")>>),
   deep    |-> Strings(<<Tok(Many("mpcf_strfold", Char("b"))), Named("deep")>>),
   missing |-> UndefinedParser]

NoFold(h, f, xs) == Result(h, Null)
NoApply(h, f, x) == Result(h, Null)
NoDtor(h, d, x)  == h
NoCtor(h, lf)    == Result(h, Null)

NoneMade(f) == {}

Typing == INSTANCE Signatures
            WITH NamedKinds <- [nest |-> {"chars"}, left |-> {"chars"}, deep |-> {"chars"}, missing |-> {}],
                 Makes <- NoneMade

TheParsers == Typing!PartsOfAll(TheRoots, TheGrammar)
TheUnfailing == {p \in TheParsers : Typing!CannotFail(p)}
TheKinds(p) == Typing!KindsOf(p)
NoPointers(kind) == {<< >>}

ASSUME MpcFunctionsAssumption == OnlyMpcFunctions

(* The equations unfolded: what does not end before is taken for endless.  *)
Unfoldings == 60

RECURSIVE MatchIn(_, _, _, _), MatchFromIn(_, _, _, _, _)

MatchIn(n, p, t, i) ==
  IF n = 0 THEN Endless
  ELSE Meant(LAMBDA q, u, j : MatchIn(n - 1, q, u, j), LAMBDA q, k, u, j : MatchFromIn(n - 1, q, k, u, j), p, t, i)

MatchFromIn(n, p, k, t, i) ==
  IF n = 0 THEN Endless
  ELSE MeantFrom(LAMBDA q, u, j : MatchIn(n - 1, q, u, j), LAMBDA q, l, u, j : MatchFromIn(n - 1, q, l, u, j),
                 p, k, t, i)

TheMatch(p, t, i)        == MatchIn(Unfoldings, p, t, i)
TheMatchFrom(p, k, t, i) == MatchFromIn(Unfoldings, p, k, t, i)
=============================================================================
