---------------------------- MODULE MCNamespace ----------------------------
(* Two directories, and one name in each of them. *)
EXTENDS Namespace, TLC

FewPaths == {<<>>, <<"d">>, <<"e">>, <<"d", "x">>, <<"e", "x">>}
Folders == {<<>>, <<"d">>, <<"e">>}
AtFirst == {<<"d">>, <<"d", "x">>}
Symmetric == Permutations(Threads)
============================================================================
