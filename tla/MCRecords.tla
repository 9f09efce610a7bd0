------------------------------ MODULE MCRecords ------------------------------
(***************************************************************************)
(* A small instance of Records for TLC.                                    *)
(***************************************************************************)
EXTENDS Records, TLC

PlayersOf == "ab" :> {"a", "b"} @@ "bc" :> {"b", "c"} @@ "bb" :> {"b"}
PathOf    == "a1" :> "a" @@ "a2" :> "a" @@ "b" :> "b"
KindOf    == "a" :> "kwg" @@ "b" :> "kwg" @@ "c" :> "klv" @@ "u" :> "none"
=============================================================================
