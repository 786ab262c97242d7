------------------------------ MODULE Signatures ------------------------------
(***************************************************************************)
(* The parsers that a grammar consists of and the kinds of value that they *)
(* return, from what its named parsers and its functions return.           *)
(***************************************************************************)
EXTENDS Combinators, SequencesExt

CONSTANTS
  NamedKinds,      \* a function from the names of the retained parsers
  Makes(_)         \* the kinds of value that a function of the grammar returns

MpcMakes(f) ==
  CASE f \in {"mpcf_strfold", "mpcf_ctor_str"} -> {"chars"}
    [] f \in {"mpcf_all_free", "mpcf_free"}    -> {"null"}
    [] f = "mpcf_int"                          -> {"int"}
    [] OTHER                                   -> Makes(f)

RECURSIVE KindsOf(_)
KindsOf(p) ==
  CASE p.type = "NAMED"                                   -> NamedKinds[p.name]
    [] p.type = "UNDEFINED"                               -> {}
    [] p.type \in {"SINGLE", "ONEOF", "NONEOF", "STRING"} -> {"chars"}
    [] p.type \in {"SOI", "EOI"}                          -> {"null"}
    [] p.type = "EXPECT"                                  -> KindsOf(p.x)
    [] p.type = "MAYBE"                                   -> KindsOf(p.x) \cup MpcMakes(p.lf)
    [] p.type = "OR"                                      -> UNION {KindsOf(p.xs[k]) : k \in DOMAIN p.xs}
    [] p.type \in {"APPLY", "MANY", "MANY1"}              -> MpcMakes(p.f)
    [] p.type = "AND"                                     ->
         CASE p.f \in {"mpcf_fst", "mpcf_fst_free"} -> KindsOf(p.xs[1])
           [] p.f \in {"mpcf_snd", "mpcf_snd_free"} -> KindsOf(p.xs[2])
           [] OTHER                                 -> MpcMakes(p.f)

RECURSIVE PartsOf(_)
PartsOf(p) ==
  {p} \cup CASE p.type \in {"EXPECT", "APPLY", "MAYBE", "MANY", "MANY1"} -> PartsOf(p.x)
             [] p.type \in {"OR", "AND"} -> UNION {PartsOf(p.xs[k]) : k \in DOMAIN p.xs}
             [] OTHER                    -> {}

RECURSIVE CannotFail(_)
CannotFail(p) ==
  \/ p.type \in {"MAYBE", "MANY"}
  \/ p.type \in {"EXPECT", "APPLY"} /\ CannotFail(p.x)

PartsOfAll(roots, grammar) == UNION {PartsOf(p) : p \in roots \cup ToSet(grammar)}
===============================================================================
