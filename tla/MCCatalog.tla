----------------------------- MODULE MCCatalog -----------------------------
(***************************************************************************)
(* A small instance of Publisher and its catalog for TLC: bundles to send. *)
(***************************************************************************)
EXTENDS Publisher, TLC

Scene == ENTRY_SCENE
Mesh == [dir |-> "models", name |-> "cow", ext |-> "obj", nested |-> FALSE]
Script == [dir |-> "scripts", name |-> "walk", ext |-> "cow", nested |-> FALSE]
Note == [dir |-> "other", name |-> "note", ext |-> "txt", nested |-> FALSE]

Small == [files |-> {Scene, Script}, refs |-> {Script}]
Plain == [files |-> {Scene}, refs |-> {}]
Dangling == [files |-> {Scene}, refs |-> {Mesh}]
Stray == [files |-> {Scene, Note}, refs |-> {}]

MCUploads == {Small, Plain, Dangling, Stray}
Symmetric == Permutations(Requests) \union Permutations(GameIds)
=============================================================================
