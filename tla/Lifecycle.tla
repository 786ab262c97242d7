------------------------------- MODULE Lifecycle -------------------------------
(***************************************************************************)
(* The parsers themselves as memory: the blocks the constructors of        *)
(* lib/mpc have allocated, and the order in which mpc_cleanup reads and    *)
(* frees them.  Retained parsers refer to each other in circles;           *)
(* everything else is a tree, so that a parser is known by the number of   *)
(* the retained parser and the path that lead to it.                       *)
(***************************************************************************)
EXTENDS Combinators, SequencesExt

CONSTANTS
  RetainedNames,     \* the names given to mpc_new, in the order of mpc_cleanup
  Definition(_)      \* what mpc_define has made of each

Retained(n) == <<n>>
NumberOf(name) == SelectInSeq(RetainedNames, LAMBDA m : m = name)

(* The parsers a parser is made of.                                        *)
Parts(p) ==
  CASE p.type \in {"EXPECT", "APPLY", "MAYBE", "MANY", "MANY1"} -> <<p.x>>
    [] p.type \in {"OR", "AND"}                                 -> p.xs
    [] OTHER                                                    -> << >>

(* Its strings and arrays.                                                 *)
OwnBlocks(p) ==
  CASE p.type = "EXPECT"                        -> <<"m">>
    [] p.type \in {"ONEOF", "NONEOF", "STRING"} -> <<"x">>
    [] p.type = "OR"                            -> <<"xs">>
    [] p.type = "AND"                           -> <<"xs", "dxs">>
    [] OTHER                                    -> << >>

(* The path of a part; a retained one is only pointed to.                  *)
PathOf(path, p, k) ==
  IF Parts(p)[k].type = "NAMED" THEN Retained(NumberOf(Parts(p)[k].name)) ELSE Append(path, k)

(* What the constructors have allocated for a parser and all it is made    *)
(* of.                                                                     *)
RECURSIVE Blocks(_, _)
Blocks(path, p) ==
  IF p.type = "NAMED" THEN {}
  ELSE {<<path, own>> : own \in ToSet(OwnBlocks(p)) \cup {"parser"}}
       \cup UNION {Blocks(Append(path, k), Parts(p)[k]) : k \in DOMAIN Parts(p)}

(* mpc_define frees the parser it has copied; mpc_new's block and the name *)
(* stay.                                                                   *)
Allocated ==
  UNION {Blocks(Retained(n), Definition(RetainedNames[n])) \cup {<<Retained(n), "name">>} :
         n \in DOMAIN RetainedNames}

-------------------------------------------------------------------------------
Read(path) == [does |-> "read", block |-> <<path, "parser">>]
Frees(path, kinds) == [k \in DOMAIN kinds |-> [does |-> "free", block |-> <<path, kinds[k]>>]]

(* mpc_undefine_unretained: what a parser is made of, then its strings and *)
(* arrays, then itself; retained ones are left alone unless it is by force.*)
RECURSIVE UndefineUnretained(_, _, _)
UndefineUnretained(path, p, force) ==
  IF p.type = "NAMED" THEN <<Read(path)>>
  ELSE <<Read(path)>>
       \o FlattenSeq([k \in DOMAIN Parts(p) |-> UndefineUnretained(PathOf(path, p, k), Parts(p)[k], FALSE)])
       \o Frees(path, OwnBlocks(p))
       \o (IF force THEN << >> ELSE Frees(path, <<"parser">>))

Undefine(n) == UndefineUnretained(Retained(n), Definition(RetainedNames[n]), TRUE)

(* mpc_delete of a parser that has been undefined.                         *)
Delete(n) == <<Read(Retained(n))>> \o Frees(Retained(n), <<"name", "parser">>)

(* Mutant: each is deleted before the next is undefined.                   *)
CleanupOneByOne == FlattenSeq([n \in DOMAIN RetainedNames |-> Undefine(n) \o Delete(n)])

(* mpc_cleanup: all are undefined before any is deleted, since they refer  *)
(* to each other.                                                          *)
Cleanup ==
  FlattenSeq([n \in DOMAIN RetainedNames |-> Undefine(n)])
  \o FlattenSeq([n \in DOMAIN RetainedNames |-> Delete(n)])

-------------------------------------------------------------------------------
(* mpc_cleanup frees every block once and touches none it has freed.       *)
CleanedUp ==
  LET events == Cleanup
      frees == {k \in DOMAIN events : events[k].does = "free"}
      blocks == Allocated
  IN  /\ {events[k].block : k \in frees} = blocks
      /\ Cardinality(frees) = Cardinality(blocks)
      /\ \A k \in DOMAIN events \ frees :
           events[k].block \notin {events[j].block : j \in {j \in frees : j < k}}
===============================================================================
