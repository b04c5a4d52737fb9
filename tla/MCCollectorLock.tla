---------------------------- MODULE MCCollectorLock ----------------------------
(* Instances of CollectorLock for TLC: the launchd job, the hermes cron job,   *)
(* and a collector someone starts by hand on the host.                         *)
EXTENDS CollectorLock

MCCollectors == {"launchd", "cron", "manual"}
MCOwner == [c \in MCCollectors |-> IF c = "cron" THEN "container" ELSE "host"]
MCCanonical == {"launchd"}
MCSessions == {1, 2}

\* Bounds: crashes, failed distills, runs beyond the TTL.
Setup(k, f, o) == [crashes |-> k, failures |-> f, overruns |-> o]
DrainScenarios == {Setup(2, 0, 0), Setup(1, 1, 1)}
==============================================================================
