---------------------------- MODULE MCArchiveWalk ----------------------------
(* Two lexica and a file that is not pinned. *)
EXTENDS ArchiveWalk, TLC

KindOf == "a" :> "kwg" @@ "b" :> "kwg" @@ "u" :> "none"
=============================================================================
