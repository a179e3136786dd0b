---------------------------- MODULE MCEpollLean ----------------------------
(* Model checking of EpollLean: see MCEpollLean_pipelined.cfg.             *)
EXTENDS EpollLean
=============================================================================
