-------------------------- MODULE MCModelChecker --------------------------
(***************************************************************************)
(* Instances of ModelChecker for TLC.                                      *)
(***************************************************************************)
EXTENDS ModelChecker, TLC

CONSTANTS small, large

MCModels == {small, large}

\* Unrestricted, and restricted to one model.
MCAllowlists == {{}, {{small}}}

CallerSymmetry == Permutations(Callers)
=============================================================================
