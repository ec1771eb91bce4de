---------------------------- MODULE MCHttpClient ----------------------------
(* Two requests, a batch and a notification, over a counter that can go    *)
(* round once.                                                             *)
EXTENDS HttpClient, TLC

CONSTANTS array, scalar, broken

MCSymmetry == Permutations(Requests)
=============================================================================
