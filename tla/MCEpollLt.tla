----------------------------- MODULE MCEpollLt -----------------------------
(* Model checking of EpollLt: see the MCEpollLt_*.cfg files for instances.  *)
(* Without symmetry: liveness does not allow it, and descriptors differ     *)
(* anyway (the kernel hands out the lowest free number).                   *)
EXTENDS EpollLt
=============================================================================
