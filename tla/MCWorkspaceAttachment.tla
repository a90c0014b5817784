----------------------- MODULE MCWorkspaceAttachment -----------------------
(* The model of WorkspaceAttachment that TLC checks.                       *)
EXTENDS WorkspaceAttachment, TLC

CONSTANTS b1, b2

(* The servers are interchangeable: none is named in the specification.    *)
Symmetry == Permutations({b1, b2})
=============================================================================
