----------------------------- MODULE MCCloudTCP -----------------------------
(***************************************************************************)
(* Small instances of CloudTCP for TLC.                                    *)
(***************************************************************************)
EXTENDS CloudTCP, TLC

\* Things are interchangeable, and so are valid expiries: no definition names one.
Symmetry == Permutations(Things) \cup Permutations(ValidExpiries)
=============================================================================
