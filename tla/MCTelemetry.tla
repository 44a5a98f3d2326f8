---------------------------- MODULE MCTelemetry ----------------------------
(* Instances of Telemetry small enough for TLC. *)
EXTENDS Telemetry

CONSTANTS r1, r2, p1

\* Two threads record at the same time.
MCRecorders == {r1, r2}

\* In the runs about OnDirtyDataDetected, r1 may call it.
MCReporters == {r1}

\* One page: events at the same address.
MCPages == {p1}

Symmetry == Permutations(MCRecorders)

=============================================================================
