--------------------------- MODULE MCTracedStream ---------------------------
(* TracedStream on a small instance: two distinct chunks, wrapped streams   *)
(* of up to three chunks, and up to five pulls by the caller, enough for a *)
(* full stream followed by two more pulls after its end.                   *)
EXTENDS TracedStream

CONSTANTS c1, c2

MCChunks == {c1, c2}

(* The abstract pass-through contract, with the caller's history as the    *)
(* abstract output.                                                        *)
Abstract == INSTANCE PassThroughStream WITH out <- returned

(* The proxy implements the pass-through contract of spec section 4.5.    *)
AbstractSpec == Abstract!Spec
=============================================================================
