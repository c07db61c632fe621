-------------------------- MODULE MCFreshAnalysis --------------------------
(* Three order lines of two suppliers over four days.                      *)
EXTENDS FreshAnalysis, TLC

HistoryNeeded == [v \in Variants |-> 1]

SupportNeeded == [lines |-> 2, arm |-> 1, suppliers |-> 1, armSuppliers |-> 1,
                  mixedSuppliers |-> 1]

AllResults == {"passed", "unsupported", "failed", Broken}

\* What the adapter of the shipped finalization returns.
ShippedResults == {"unsupported"}

SupplierSymmetry == Permutations(Suppliers)
=============================================================================
