---------------------------- MODULE MCBaselines ----------------------------
(* Model checking of Baselines: see MCBaselines_served.cfg.                *)
EXTENDS Baselines
=============================================================================
