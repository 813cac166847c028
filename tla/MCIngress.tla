----------------------------- MODULE MCIngress -----------------------------
(***************************************************************************)
(* Two domains.                                                            *)
(***************************************************************************)
EXTENDS Ingress

CONSTANTS a, b
============================================================================
