------------------------- MODULE MCArtifactPublish -------------------------
(***************************************************************************)
(* A small instance of ArtifactPublish for TLC.                            *)
(***************************************************************************)
EXTENDS ArtifactPublish
=============================================================================
