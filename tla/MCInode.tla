------------------------------- MODULE MCInode -------------------------------
EXTENDS Inode, TLC

Symmetry == Permutations(Proc)
MCPath == {<<"a">>, <<"a", "b">>}
=============================================================================
