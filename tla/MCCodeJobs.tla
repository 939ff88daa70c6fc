----------------------------- MODULE MCCodeJobs -----------------------------
EXTENDS CodeJobs, TLC

CONSTANTS r1, r2

MCEffortOf == (r1 :> "quick") @@ (r2 :> "standard")
MCLimits == ("quick" :> 0) @@ ("standard" :> 1) @@ ("deep" :> 2)
MCWithSession == {r2}
=============================================================================
