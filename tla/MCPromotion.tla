---------------------------- MODULE MCPromotion ----------------------------
(* One GKE Service and one generic Service, a deploy and the commands after *)
(* it.  The preparation window is longer than the grace period, as with the *)
(* default configuration.                                                   *)
EXTENDS Promotion

CONSTANTS b1, b2

MCBuilds == {b1, b2}
MCNegServices == {1}
MCLostAnswers == {"label", "stage", "final", "hpa"}
=============================================================================
