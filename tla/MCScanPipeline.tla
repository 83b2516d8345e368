--------------------------- MODULE MCScanPipeline ---------------------------
(* Instances of ScanPipeline for TLC: each .cfg gives the bounds. *)
EXTENDS ScanPipeline, TLC

\* Scanners are interchangeable: no action or property tells them apart.
ScannerSymmetry == Permutations(Scanner)

\* The links an instance's operator may make, child first.
NoLink      == {}
SecondUnderFirst == {<<2, 1>>}
=============================================================================
