------------------------ MODULE MCResponseAccumulator ------------------------
(* ResponseAccumulator on a small instance: two tool-call indices, one id, *)
(* two names, two argument pieces, one text and two finish reasons, each   *)
(* field present or absent, and histories of up to four deltas: enough for *)
(* a fragment before its call opens, a late fragment naming another        *)
(* function, and two calls interleaved.                                    *)
EXTENDS ResponseAccumulator, TLC

CONSTANTS t1, r1, r2, i0, i1, a, f, g, p1, p2

MCTexts == {t1}
MCReasons == {r1, r2}
MCIndices == {i0, i1}
MCIds == {a}
MCNames == {f, g}
MCPieces == {p1, p2}

(* Reasons, indices, names and argument pieces are only compared for       *)
(* equality, so renaming them maps behaviours to behaviours.               *)
MCSymmetry ==
  Permutations(MCReasons) \cup Permutations(MCIndices)
    \cup Permutations(MCNames) \cup Permutations(MCPieces)
=============================================================================
