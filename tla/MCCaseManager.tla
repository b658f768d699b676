--------------------------- MODULE MCCaseManager ---------------------------
(* Two images of the same name on different disks, and one with the name   *)
(* of a temporary file.                                                    *)
EXTENDS CaseManager, TLC

CONSTANTS disk1, disk2, disk3, image, imageTmp, imageTmpTmp

AllNames == {image, imageTmp, imageTmpTmp}
TmpNames == [n \in {image, imageTmp} |-> IF n = image THEN imageTmp ELSE imageTmpTmp]
Symmetry == Permutations(Cases) \cup Permutations(Contents)
ThreeSources == [s \in Sources |-> IF s = disk3 THEN imageTmp ELSE image]
=============================================================================
