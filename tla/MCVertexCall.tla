---------------------------- MODULE MCVertexCall ----------------------------
(* VertexCall on a small instance: two distinct chunks, streams of up to    *)
(* three chunks and five calls of __next__ (a full stream and two pulls    *)
(* after its end), both branches of wrapper().                             *)
EXTENDS VertexCall

CONSTANTS c1, c2

MCChunks == {c1, c2}
=============================================================================
