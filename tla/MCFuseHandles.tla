--------------------------- MODULE MCFuseHandles ---------------------------
(* One file: two cells, empty, or none yet. *)
EXTENDS FuseHandles

NoFileYet == {NoFile}
AnyFile == {<<101, 102>>, <<>>, NoFile}
============================================================================
