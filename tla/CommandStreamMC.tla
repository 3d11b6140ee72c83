---------------------------- MODULE CommandStreamMC ----------------------------
(* Two displacements of the mouse, one of them negative: a .cfg has no tuples. *)
EXTENDS CommandStream

TwoMoves == {<<3, 4>>, <<-5, 2>>}
=============================================================================
