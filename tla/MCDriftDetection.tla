-------------------------- MODULE MCDriftDetection --------------------------
(* Values of DriftDetection for TLC. *)
EXTENDS DriftDetection

\* Drifts of 0, of 0.04996, which rounds to the default warning threshold, and
\* of 0.05004, for targets of 0.3.
MCTarget == [a \in Symbols |-> 30000]
MCWeights == {30000, 34996, 24996}

\* Two assets of which one drifted by 0.15 have drifted by less than 0.1 on average.
TrendWeights == {30000, 45000}

T(warning, critical) == [s \in Severities |-> IF s = "warning" THEN warning ELSE critical]
\* A critical threshold of 0.05002 is between a drift and its rounded value.
MCConfigs == {T(4000, 5002)}
MCEventSets == {{"critical", "resolved"}, {"warning", "critical"}}
=============================================================================
