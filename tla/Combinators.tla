----------------------------- MODULE Combinators -----------------------------
(***************************************************************************)
(* The parsers that lib/mpc builds parsers from, as far as korlessa uses   *)
(* them.  A parser is a record with the type that mpc_parse_run switches   *)
(* on; fold, apply, constructor and destructor functions go by name.  A    *)
(* retained parser (mpc_new) is only named where it is used, so that a     *)
(* grammar may be recursive: Grammar, of the module that has one, says     *)
(* what mpc_define has made of the name.                                   *)
(*                                                                         *)
(* A string is the sequence of its characters.                             *)
(***************************************************************************)
EXTENDS Naturals, Sequences

Characters(s) == {SubSeq(s, i, i) : i \in 1 .. Len(s)}
Text(s) == [i \in 1 .. Len(s) |-> SubSeq(s, i, i)]

Named(name) == [type |-> "NAMED", name |-> name]
UndefinedParser == [type |-> "UNDEFINED"]

(* The message is what an error says is expected here.                     *)
Expect(p, message) == [type |-> "EXPECT", x |-> p, message |-> message]

Char(c)   == Expect([type |-> "SINGLE", char |-> c], c)
OneOf(s)  == Expect([type |-> "ONEOF", chars |-> Characters(s)], s)
NoneOf(s) == Expect([type |-> "NONEOF", chars |-> Characters(s)], s)
String(s) == Expect([type |-> "STRING", string |-> Text(s)], s)
Soi       == Expect([type |-> "SOI"], "start of input")
Eoi       == Expect([type |-> "EOI"], "end of input")

Apply(p, f)           == [type |-> "APPLY", x |-> p, f |-> f]
MaybeLift(p, lf)      == [type |-> "MAYBE", x |-> p, lf |-> lf]
Many(f, p)            == [type |-> "MANY", f |-> f, x |-> p]
Many1(f, p)           == [type |-> "MANY1", f |-> f, x |-> p]
Or(ps)                == [type |-> "OR", xs |-> ps]
And(f, ps, dtors)     == [type |-> "AND", f |-> f, xs |-> ps, dxs |-> dtors]

(* Vertical tabs are left out.                                             *)
Whitespace  == Expect(OneOf(" \f\n\r\t"), "whitespace")
Whitespaces == Expect(Many("mpcf_strfold", Whitespace), "spaces")
Blank       == Expect(Apply(Whitespaces, "mpcf_free"), "whitespace")

Digit      == Expect(OneOf("0123456789"), "digit")
Digits     == Expect(Many1("mpcf_strfold", Digit), "digits")
MpcInt     == Expect(Apply(Digits, "mpcf_int"), "integer")
Alpha      == Expect(OneOf("abcdefghijklmnopqrstuvwxyzABCDEFGHIJKLMNOPQRSTUVWXYZ"), "letter")
Underscore == Expect(Char("_"), "underscore")
Alphanum   == Expect(Or(<<Alpha, Digit, Underscore>>), "alphanumeric")
Ident      == And("mpcf_strfold",
                  <<Or(<<Alpha, Underscore>>), Many("mpcf_strfold", Alphanum)>>, <<"free">>)

(* Blanks are skipped after a token, and around the whole.                 *)
Tok(p)          == And("mpcf_fst", <<p, Blank>>, <<"mpcf_dtor_null">>)
Strip(p)        == And("mpcf_snd", <<Blank, p, Blank>>, <<"mpcf_dtor_null", "mpcf_dtor_null">>)
Whole(p, dtor)  == And("mpcf_snd", <<Soi, p, Eoi>>, <<"mpcf_dtor_null", dtor>>)
Total(p, dtor)  == Whole(Strip(p), dtor)

TokBetween(p, dtor, open, close) ==
  And("mpcf_snd_free", <<Tok(String(open)), Tok(p), Tok(String(close))>>, <<"free", dtor>>)

TokParens(p, dtor)   == TokBetween(p, dtor, "(", ")")
TokBrackets(p, dtor) == TokBetween(p, dtor, "{", "}")
=============================================================================
