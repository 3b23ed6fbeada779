------------------------------ MODULE MCBackup ------------------------------
(* Two spaces; a month is two weeks. *)
EXTENDS Backup, TLC

CONSTANTS ann, bob

TwoNames == (ann :> "ann") @@ (bob :> "bob")
OneName == (ann :> "joji") @@ (bob :> "joji")
MCKeep == ("weekly" :> 1) @@ ("monthly" :> 2)
=============================================================================
