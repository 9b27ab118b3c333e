----------------------------- MODULE MCChatCall -----------------------------
(* Model-checking instance of ChatCall: two finish reasons, responses of   *)
(* up to two choices, and requests for up to two choices, so that the loop *)
(* over the choices both completes and runs past the last choice.          *)
EXTENDS ChatCall

CONSTANTS stop, length

MCReasons == {stop, length}
=============================================================================
