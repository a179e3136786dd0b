---------------------------- MODULE MCServerUring ----------------------------
(* Model checking of ServerUring: see the MCServerUring_*.cfg files.        *)
EXTENDS ServerUring
=============================================================================
