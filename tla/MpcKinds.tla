------------------------------- MODULE MpcKinds -------------------------------
(***************************************************************************)
(* What a grammar must be for the engine to handle its results: C has only *)
(* void pointers for them, and nothing but the order of the arguments says *)
(* what a fold, a constructor or a destructor is given.  A parser returns  *)
(* values of certain kinds, and the functions around it must be made for   *)
(* these.  The instances show that the grammars there are fit.             *)
(***************************************************************************)
EXTENDS Mpc

CONSTANTS
  AllParsers,      \* the parsers in use: the roots and all that they are made of
  Unfailing,       \* those that succeed, unless they are nested too deeply
  Yields(_),       \* the kinds of value a parser may return
  Layouts(_)       \* the kinds of what a block of some kind may point to

CharTypes   == {"SINGLE", "ONEOF", "NONEOF", "STRING"}
InputTypes  == {"SOI", "EOI"}
SingleTypes == {"EXPECT", "APPLY", "MAYBE", "MANY", "MANY1"}
ListTypes   == {"OR", "AND"}

(* The part of a parser that its k-th result is from.                      *)
Part(p, k) == IF p.type \in ListTypes THEN p.xs[k] ELSE p.x

ASSUME TextsAssumption == \A t \in Texts : t \in Seq(ToSet(t)) /\ EndChar \notin ToSet(t)

(* The grammar is closed.  A list of parsers is not empty, nor is a string *)
(* to be read.                                                             *)
Closed(p) ==
  /\ p.type \in {"NAMED", "UNDEFINED"} \cup CharTypes \cup InputTypes \cup SingleTypes \cup ListTypes
  /\ p.type = "NAMED" => Grammar[p.name] \in AllParsers /\ Grammar[p.name].type # "NAMED"
  /\ p.type \in SingleTypes => p.x \in AllParsers
  /\ p.type \in ListTypes => p.xs \in Seq(AllParsers) /\ p.xs # << >>
  /\ p.type = "STRING" => p.string \in Seq(ToSet(p.string)) /\ p.string # << >> /\ EndChar \notin ToSet(p.string)

ASSUME ClosedAssumption == Roots \subseteq AllParsers /\ \A p \in AllParsers : Closed(p)

ASSUME UnfailingAssumption ==
  \A p \in Unfailing \cap AllParsers :
    \/ p.type \in {"MAYBE", "MANY"}
    \/ p.type \in {"EXPECT", "APPLY"} /\ p.x \in Unfailing

-------------------------------------------------------------------------------
(***************************************************************************)
(* Kinds.  NULL is of the kind "null".                                     *)
(***************************************************************************)
EngineKinds == {"chars", "int", "err", "results"}

(* Kinds without pointers: what is of one is freed by free().              *)
Plain == {"null", "chars", "int"}

MpcFolds  == {"mpcf_fst", "mpcf_snd", "mpcf_fst_free", "mpcf_snd_free", "mpcf_strfold", "mpcf_all_free"}
MpcApplys == {"mpcf_free", "mpcf_int"}
MpcDtors  == {"free", "mpcf_dtor_null"}
MpcCtors  == {"mpcf_ctor_str"}

ASSUME LayoutAssumption == \A kind \in EngineKinds : Layouts(kind) = {<< >>}

(* All but the n-th part are of some kinds, and the n-th is the result.    *)
Picks(p, n, kinds) ==
  /\ n <= Len(p.xs)
  /\ \A k \in DOMAIN p.xs : k # n => Yields(p.xs[k]) \subseteq kinds
  /\ Yields(p.xs[n]) \subseteq Yields(p)

(* A fold that takes any number of results of some kinds.                  *)
FoldsAll(p, kinds) ==
  /\ p.f = "mpcf_strfold"  => kinds \subseteq {"chars"} /\ "chars" \in Yields(p)
  /\ p.f = "mpcf_all_free" => kinds \subseteq Plain /\ "null" \in Yields(p)

AndFits(p) ==
  /\ p.f = "mpcf_fst"      => Picks(p, 1, {"null"})
  /\ p.f = "mpcf_snd"      => Picks(p, 2, {"null"})
  /\ p.f = "mpcf_fst_free" => Picks(p, 1, Plain)
  /\ p.f = "mpcf_snd_free" => Picks(p, 2, Plain)
  /\ FoldsAll(p, UNION {Yields(p.xs[k]) : k \in DOMAIN p.xs})
  /\ \A k \in 1 .. Len(p.xs) - 1 :
       /\ p.dxs[k] = "free" => Yields(p.xs[k]) \subseteq Plain
       /\ p.dxs[k] = "mpcf_dtor_null" =>
            Yields(p.xs[k]) \subseteq {"null"} \/ \A j \in k + 1 .. Len(p.xs) : p.xs[j] \in Unfailing

ManyFits(p) == p.f \notin MpcFolds \ {"mpcf_strfold", "mpcf_all_free"} /\ FoldsAll(p, Yields(p.x))

ApplyFits(p) ==
  /\ p.f = "mpcf_free" => Yields(p.x) \subseteq Plain /\ "null" \in Yields(p)
  /\ p.f = "mpcf_int"  => Yields(p.x) \subseteq {"chars"} /\ "int" \in Yields(p)

Fits(p) ==
  /\ p.type = "NAMED" => Yields(Grammar[p.name]) \subseteq Yields(p)
  /\ p.type \in CharTypes => "chars" \in Yields(p)
  /\ p.type \in InputTypes => "null" \in Yields(p)
  /\ p.type \in {"EXPECT", "MAYBE"} => Yields(p.x) \subseteq Yields(p)
  /\ p.type = "MAYBE" /\ p.lf = "mpcf_ctor_str" => "chars" \in Yields(p)
  /\ p.type = "APPLY" => ApplyFits(p)
  /\ p.type \in {"MANY", "MANY1"} => ManyFits(p)
  /\ p.type = "OR" => \A k \in DOMAIN p.xs : Yields(p.xs[k]) \subseteq Yields(p)
  /\ p.type = "AND" => AndFits(p)

ASSUME FitAssumption == \A p \in AllParsers : Fits(p)

(* A grammar without functions of its own.                                 *)
OnlyMpcFunctions ==
  \A p \in AllParsers :
    /\ p.type \in {"AND", "MANY", "MANY1"} => p.f \in MpcFolds
    /\ p.type = "APPLY" => p.f \in MpcApplys
    /\ p.type = "MAYBE" => p.lf \in MpcCtors
    /\ p.type = "AND" => \A k \in 1 .. Len(p.xs) - 1 : p.dxs[k] \in MpcDtors
===============================================================================
