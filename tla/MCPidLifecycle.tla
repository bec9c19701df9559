---------------------------- MODULE MCPidLifecycle ----------------------------
(* Instances of PidLifecycle for TLC.                                      *)
EXTENDS PidLifecycle, TLC

CONSTANTS d1, d2

(* No control, a plain capture, and each two of deadline, cancellation and *)
(* output limit together.                                                  *)
MCOffered ==
  { {}, {"capture"}, {"deadline", "cancel"}, {"deadline", "limit", "capture"},
    {"cancel", "limit", "capture"} }
=============================================================================
