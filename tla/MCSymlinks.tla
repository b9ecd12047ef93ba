----------------------------- MODULE MCSymlinks -----------------------------
(* Symbolic links with a small instance for TLC: see README.md for the bounds. *)
EXTENDS Symlinks, TLC

Symmetry == Permutations(Proc)
MCPath == {<<"a">>, <<"b">>, <<"c">>, <<"a", "b">>}
MCJunk == {<<>>, <<"b">>}
MCTarget == {<<"a", "b">>, <<"b">>, <<"c">>}
=============================================================================
