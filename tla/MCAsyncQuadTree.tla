--------------------------- MODULE MCAsyncQuadTree ---------------------------
(* Small instances of AsyncQuadTree.                                          *)
EXTENDS AsyncQuadTree
=============================================================================
