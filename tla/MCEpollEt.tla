----------------------------- MODULE MCEpollEt -----------------------------
(* Model checking of EpollEt: see MCEpollEt_served.cfg for the instance.    *)
EXTENDS EpollEt
=============================================================================
