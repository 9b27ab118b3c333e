-------------------------- MODULE MCMistralStream --------------------------
(* MistralStream on a small instance: one text fragment, two distinct      *)
(* usage blocks (so that "last" and "first" usage differ), chunks with and *)
(* without content and usage, streams of up to three chunks and up to     *)
(* five pulls.                                                             *)
EXTENDS MistralStream

CONSTANTS t1, u1, u2

MCTexts == {t1}
MCUsages == {u1, u2}
=============================================================================
