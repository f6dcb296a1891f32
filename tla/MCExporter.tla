----------------------------- MODULE MCExporter -----------------------------
(* Values for the constants of Exporter. *)
EXTENDS Exporter

Config(limits, compression) ==
  [limits |-> limits, complete |-> TRUE, compression |-> compression]

\* Configurations that are used, and three that Validate refuses.
MCConfigs ==
  {Config([k \in Forwarded |-> 2], "none"), [createDefaultConfig EXCEPT !.complete = TRUE],
   createDefaultConfig, Config([k \in Forwarded |-> 2], "gzip"),
   Config([k \in Forwarded |-> IF k = "EncodeConcurrency" THEN 0 ELSE 1], "none")}
=============================================================================
