------------------------ MODULE ConcurrencyGovernor ------------------------
(***************************************************************************)
(* The run slots of one user (auth/concurrency-governor.js): a set of run  *)
(* ids bounded by MAX_CONCURRENT_RUNS, each with a timer that takes the    *)
(* slot back five minutes after it was acquired, whatever the run does.    *)
(* Users have sets of their own and never meet here.                       *)
(***************************************************************************)
EXTENDS Integers, FiniteSets

CONSTANTS
  Runs,               \* run ids of the user
  MaxConcurrentRuns   \* MAX_CONCURRENT_RUNS

ASSUME GovernorAssumption == MaxConcurrentRuns \in Nat \ {0}

VARIABLE active       \* activeUserRuns.get(userId), and the keys of leaseTimeouts

GovernorInit == active = {}

\* Mutant: the limit is compared the wrong way round at the boundary
MayAcquire_OffByOne(r) == Cardinality(active) <= MaxConcurrentRuns \/ r \in active

MayAcquire(r) == Cardinality(active) < MaxConcurrentRuns \/ r \in active

AcquireRun(r) == MayAcquire(r) /\ active' = active \cup {r}

RefuseRun(r) == ~MayAcquire(r) /\ UNCHANGED active

ReleaseRun(r) == active' = active \ {r}

\* Mutant: the timer of a lease only warns
LeaseExpires_Warns(r) == r \in active /\ UNCHANGED active

\* The lease timer of a slot fires.
LeaseExpires(r) == r \in active /\ ReleaseRun(r)
=============================================================================
