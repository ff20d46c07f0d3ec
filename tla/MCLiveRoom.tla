----------------------------- MODULE MCLiveRoom -----------------------------
(* One request and two cascades of the project.                            *)
EXTENDS LiveRoom

CONSTANTS c1, k1, k2, other
=============================================================================
