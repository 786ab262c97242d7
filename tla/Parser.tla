-------------------------------- MODULE Parser --------------------------------
(***************************************************************************)
(* parser.c: the grammar of korlessa as a parser of lib/mpc, with the      *)
(* functions of Nodes.                                                     *)
(***************************************************************************)
EXTENDS Nodes

Free2 == <<"free", "free">>
Free3 == <<"free", "free", "free">>

Channel    == And("mpcf_snd_free", <<String("ch"), MpcInt, Char(":")>>, Free2)
Letter     == OneOf("cdefgabCDEFGAB")
Accidental == Many1("mpcf_strfold", OneOf("#b"))
Velocity   == Apply(And("mpcf_snd_free", <<Char("!"), Digit>>, <<"free">>), "mpcf_int")

Note == And("note_fold",
            <<MaybeLift(Channel, "ctor_int_default"), Letter, MaybeLift(Accidental, "mpcf_ctor_str"),
              MaybeLift(MpcInt, "ctor_int_default"), MaybeLift(Velocity, "ctor_int_default")>>,
            <<"free", "free", "free", "free">>)

Bpm == And("bpm_fold", <<Digits, String("bpm")>>, <<"free">>)

Controller ==
  And("controller_fold", <<Or(<<String("cc"), String("CC")>>), Digits, Char(":"), MpcInt>>, Free3)

Program == And("program_fold", <<Or(<<String("pgm"), String("PGM")>>), Digits>>, <<"free">>)

Comment == And("mpcf_all_free", <<String("//"), Many1("mpcf_strfold", NoneOf("\n"))>>, <<"free">>)

Path ==
  And("mpcf_strfold",
      <<Ident, Many("mpcf_strfold", And("mpcf_strfold", <<Char("."), Ident>>, <<"free">>))>>, <<"free">>)

Reference == And("reference_fold", <<TokBrackets(Path, "free"), Named("repeater")>>, <<"free">>)

Interval == And("interval_fold", <<OneOf("-+"), Digits>>, <<"free">>)

Toks(names) == Or([k \in DOMAIN names |-> Tok(Named(names[k]))])

Legato ==
  Apply(TokParens(Many1("node_fold", Toks(<<"note", "interval", "tie", "divider">>)), "free_node"),
        "apply_legato")

Label == And("mpcf_fst_free", <<Ident, Char(":")>>, <<"free">>)

Ratio(word) == And("duration_fold", <<Digits, String(word), Digits>>, Free2)
Duration == Or(<<Ratio("is"), Ratio("as"), Ratio("to"), Apply(Digits, "apply_as_duration")>>)

Repeater ==
  MaybeLift(Or(<<And("repeater_fold", <<Char("x"), Digits>>, <<"free">>),
                 Apply(String("loop"), "apply_loop"),
                 Apply(String("off"), "apply_off")>>),
            "ctor_one")

(* Mutant: a note is tried before what begins with a letter, too.          *)
ElementsNoteFirst == <<"rest", "interval", "tie", "divider", "comment", "legato", "note", "sheet",
                       "controller", "program">>

Elements == <<"rest", "interval", "tie", "divider", "comment", "legato", "sheet",
              "controller", "program", "note">>

Sheet ==
  And("sheet_fold",
      <<MaybeLift(Named("label"), "mpcf_ctor_str"), Duration,
        TokBrackets(Many("node_fold", Toks(Elements)), "free_node"), Named("repeater")>>,
      <<"free", "free", "free_node">>)

Crate ==
  Total(Many("node_fold", Or(<<Tok(Named("sheet")), Tok(Named("reference")), Tok(Bpm),
                               Tok(Named("controller")), Tok(Named("program")), Tok(Named("comment"))>>)),
        "free_node")

(* What new_parser() has defined the retained parsers to be.               *)
KorlessaGrammar ==
  [note |-> Note, rest |-> Apply(Char("."), "apply_rest"), tie |-> Apply(Char("-"), "apply_tie"),
   divider |-> Apply(Char("|"), "apply_divider"), controller |-> Controller, program |-> Program,
   repeater |-> Repeater, comment |-> Comment, reference |-> Reference, interval |-> Interval,
   label |-> Label, sheet |-> Sheet, legato |-> Legato, parser |-> Apply(Crate, "apply_eof")]

(* free_parser: the parsers that are handed to mpc_cleanup.                *)
FreeParser == <<"note", "interval", "rest", "tie", "divider", "controller", "program", "repeater",
                "comment", "reference", "label", "sheet", "legato", "parser">>

KorlessaDefinition(name) == KorlessaGrammar[name]

Parsers == INSTANCE Lifecycle
             WITH RetainedNames <- FreeParser, Definition <- KorlessaDefinition
===============================================================================
