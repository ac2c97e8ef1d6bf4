------------------------------ MODULE UnitSums ------------------------------
(***************************************************************************)
(* Sums of natural-valued functions, written as the cardinality of a set   *)
(* of units: every element x of the domain contributes the f[x] pairs      *)
(* <<x, 1>> ... <<x, f[x]>>.  The definition has no recursion, so that     *)
(* AccountingProofs establishes what one changed, added or removed entry   *)
(* does to the sum of every function, whatever its domain; TLC evaluates   *)
(* it directly because the amounts of an instance are small.               *)
(***************************************************************************)
EXTENDS Integers, FiniteSets

\* The units of the entries of f.
Units(f) == UNION {{x} \X (1 .. f[x]) : x \in DOMAIN f}

\* The sum of the entries of f.
Total(f) == Cardinality(Units(f))
=============================================================================
