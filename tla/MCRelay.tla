------------------------------ MODULE MCRelay ------------------------------
(* Instances of Relay for TLC: one signal that ends a Go program by        *)
(* default and one that it ignores.                                        *)
EXTENDS Relay

MCSignal == {"TERM", "WINCH"}
OneSignal == {"TERM"}
=============================================================================
