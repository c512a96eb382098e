---------------------------- MODULE MCRtosBackends -----------------------------
(* The telemetry queue: CommandTask and MotionTask send, TelemetryTask       *)
(* receives.  MotionTask alone sets and clears event bits.                   *)
EXTENDS RtosBackends

MCProducers == {"Command", "Motion"}
===============================================================================
