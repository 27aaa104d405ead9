--------------------------- MODULE MCMetricSeries ---------------------------
(* Small instances of MetricSeries. *)
EXTENDS MetricSeries
=============================================================================
