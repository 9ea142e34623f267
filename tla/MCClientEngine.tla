--------------------------- MODULE MCClientEngine ---------------------------
(* Metadata that is eligible with and without a measured latency, and       *)
(* metadata that is not, for each of the reasons the code tells apart.      *)
EXTENDS ClientEngine

MCReport(health, status, latency, usable) ==
  [health |-> health, status |-> status, latency |-> latency, usable |-> usable]

MCMetadata ==
  {MCReport("Healthy", "Online", 1, TRUE), MCReport("Healthy", "Online", NoLatency, TRUE),
   MCReport("Degraded", "Degraded", 1, TRUE),
   MCReport("Healthy", "Offline", 1, TRUE),
   MCReport("Healthy", "Online", 1, FALSE)}
=============================================================================
