----------------------------- MODULE KorlessaKinds -----------------------------
(***************************************************************************)
(* What a grammar must be for the functions of parser.c: the kinds of      *)
(* value that they cast their arguments to are the kinds of what the       *)
(* parsers around them return.  And what is left when all that such a      *)
(* parse returns has been freed.                                           *)
(***************************************************************************)
EXTENDS MpcKinds, Nodes

(* What the functions return, and what the blocks that they make point to. *)
Returns(f) ==
  CASE f = "bpm_fold"                               -> {"BPM"}
    [] f = "note_fold"                              -> {"NOTE"}
    [] f = "interval_fold"                          -> {"INTERVAL"}
    [] f = "sheet_fold"                             -> {"SHEET"}
    [] f \in {"node_fold", "apply_eof"}             -> {"CRATE"}
    [] f = "reference_fold"                         -> {"REFERENCE"}
    [] f = "controller_fold"                        -> {"CONTROLLER"}
    [] f = "program_fold"                           -> {"PROGRAM"}
    [] f = "apply_rest"                             -> {"REST"}
    [] f = "apply_tie"                              -> {"TIE"}
    [] f = "apply_divider"                          -> {"DIVIDER"}
    [] f = "apply_legato"                           -> {"LEGATO"}
    [] f \in {"duration_fold", "apply_as_duration"} -> {"chars"}
    [] OTHER                                        -> {"int"}

KorlessaLayouts(kind) ==
  CASE kind = "nodes"                              -> Seq(NodeKinds)
    [] kind = "SHEET"                              -> {<<"sheet", "nodes">>}
    [] kind \in {"CRATE", "LEGATO"}                -> {<<"null", "nodes">>}
    [] kind = "BPM"                                -> {<<"bpm", "null">>}
    [] kind = "NOTE"                               -> {<<"note", "null">>}
    [] kind = "INTERVAL"                           -> {<<"interval", "null">>}
    [] kind = "REFERENCE"                          -> {<<"reference", "null">>}
    [] kind = "CONTROLLER"                         -> {<<"controller", "null">>}
    [] kind = "PROGRAM"                            -> {<<"program", "null">>}
    [] kind \in {"REST", "TIE", "DIVIDER", "EOF"}  -> {<<"null", "null">>}
    [] kind \in {"sheet", "note", "reference"}     -> {<<"chars">>}
    [] OTHER                                       -> {<< >>}

(* What the folds take, and the functions that are applied.                *)
PairFolds == {"bpm_fold", "interval_fold", "repeater_fold", "program_fold"}
PartFolds == PairFolds \cup {"note_fold", "sheet_fold", "reference_fold", "duration_fold", "controller_fold"}

Takes(f) ==
  CASE f \in PairFolds        -> <<"chars", "chars">>
    [] f = "note_fold"        -> <<"int", "chars", "chars", "int", "int">>
    [] f = "sheet_fold"       -> <<"chars", "chars", "CRATE", "int">>
    [] f = "reference_fold"   -> <<"chars", "int">>
    [] f = "duration_fold"    -> <<"chars", "chars", "chars">>
    [] f = "controller_fold"  -> <<"chars", "chars", "chars", "int">>

StringApplys == {"apply_rest", "apply_tie", "apply_divider", "apply_as_duration", "apply_loop", "apply_off"}
CrateApplys  == {"apply_eof", "apply_legato"}
IntCtors     == {"ctor_one", "ctor_int_default"}

(* What is parsed any number of times is an element, or a comment.         *)
NodeFits(p) ==
  /\ p.type = "AND" /\ p.f \notin MpcFolds =>
       /\ p.f \in PartFolds /\ Len(p.xs) = Len(Takes(p.f))
       /\ \A k \in DOMAIN p.xs : Yields(p.xs[k]) \subseteq {Takes(p.f)[k]}
  /\ p.type \in {"MANY", "MANY1"} /\ p.f \notin MpcFolds =>
       p.f = "node_fold" /\ Yields(p.x) \subseteq NodeKinds \cup {"null"}
  /\ p.type = "APPLY" /\ p.f \notin MpcApplys =>
       /\ p.f \in StringApplys \cup CrateApplys
       /\ Yields(p.x) \subseteq IF p.f \in StringApplys THEN {"chars"} ELSE {"CRATE"}
  /\ p.type \in {"AND", "MANY", "MANY1", "APPLY"} /\ p.f \notin MpcFolds \cup MpcApplys =>
       Returns(p.f) \subseteq Yields(p)
  /\ p.type = "MAYBE" /\ p.lf \notin MpcCtors =>
       p.lf \in IntCtors /\ Returns(p.lf) \subseteq Yields(p)
  /\ p.type = "AND" =>
       \A k \in 1 .. Len(p.xs) - 1 : p.dxs[k] \notin MpcDtors =>
         p.dxs[k] = "free_node" /\ Yields(p.xs[k]) \subseteq NodeKinds \cup {"CRATE", "null"}

ASSUME NodeFitAssumption == \A p \in AllParsers : NodeFits(p)

-------------------------------------------------------------------------------
(* free_parse_result gives everything back, and only once, whatever was    *)
(* read and wherever the text ends, while the limit on the depth is not    *)
(* met.                                                                    *)
AllFreed ==
  ctl = "done" =>
    LET left == FreeParseResult(heap, ok, result)
    IN  left.misused = {} /\ (limited \/ Live(left) = {})
================================================================================
