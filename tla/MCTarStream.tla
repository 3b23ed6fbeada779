---------------------------- MODULE MCTarStream ----------------------------
(* A folder, a file of two chunks, an empty one, a folder, three files. *)
EXTENDS TarStream

F(n) == [file |-> TRUE, size |-> n]
D == [file |-> FALSE, size |-> 0]
MCPlan == <<D, F(2), F(0), D, F(1), F(1), F(3)>>
=============================================================================
