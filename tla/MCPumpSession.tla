--------------------------- MODULE MCPumpSession ---------------------------
(* One pump, three speeds, two purposes. *)
EXTENDS PumpSessionRuntime

PumpBaseline == [p \in Purposes |-> IF p = "ordinary" THEN 1 ELSE 2]

PumpEnvironments ==
  {{"second", "refused"},
   {"panel", "thermal", "lease"},
   {"panel", "unusable"},
   {"panel", "purpose", "idle"},
   {"panel", "maintenance"},
   {"panel", "time"},
   {"time", "unknown"},
   {"purpose", "refused", "reconnect"},
   {"thermal", "mode"},
   {"thermal", "unusable"}}
=============================================================================
