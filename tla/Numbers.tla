------------------------------- MODULE Numbers -------------------------------
(* Numbers in a text: strtol, strtoul and atoi of the C library as far as  *)
(* the digits go, assigned to an int.  What a long cannot hold becomes the *)
(* largest long; what an int cannot hold loses its upper bits.             *)
EXTENDS Combinators, Integers, SequencesExt

CONSTANTS
  IntSize,     \* how many values an int has
  LongSize     \* how many values a long has

ASSUME IntAssumption ==
  IntSize \in Nat \ {0} /\ LongSize \in Nat \ {0} /\ LongSize % IntSize = 0

DigitValue(c) == (CHOOSE i \in 1 .. 10 : Text("0123456789")[i] = c) - 1

UpTo(limit, s) ==
  LET other == SelectInSeq(s, LAMBDA c : c \notin Characters("0123456789"))
      digits == IF other = 0 THEN s ELSE SubSeq(s, 1, other - 1)
      Longer(n, c) == IF 10 * n + DigitValue(c) < limit THEN 10 * n + DigitValue(c) ELSE limit
  IN  FoldLeft(Longer, 0, digits)

AsInt(n) == ((n + IntSize \div 2) % IntSize) - IntSize \div 2

(* strtol or atoi, and strtoul.                                            *)
Number(s)   == AsInt(UpTo(LongSize \div 2 - 1, s))
Unsigned(s) == UpTo(LongSize - 1, s) % IntSize
=============================================================================
