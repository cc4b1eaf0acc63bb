---------------------------- MODULE MCArtifactLock ----------------------------
(* Three callers, one of which may be killed; holders may be slow.         *)
EXTENDS ArtifactLock

CONSTANTS p1, p2, p3

MCProc == {p1, p2, p3}
MCMortal == {p1}
=============================================================================
