------------------------- MODULE RegistryRefinement -------------------------
(***************************************************************************)
(* The resource registry implements the lease pool: every critical section *)
(* and every worker step of ResourceRegistry is one step of LeasePool, or  *)
(* none its callers can see.                                               *)
(***************************************************************************)
EXTENDS ResourceRegistry

\* What a generation is to the callers: the entry decides as long as it starts
\* or serves this generation, the process decides afterwards.
AbstractPhase(g) ==
  LET state == entries[generationKey[g]].state
  IN  IF process[g] = "none" THEN "none"
      ELSE IF IsCurrent(g) /\ state = "starting" /\ ~closing THEN "starting"
      ELSE IF IsCurrent(g) /\ state \in {"ready", "idle"} THEN "ready"
      ELSE IF Occupies(g) THEN "retiring" ELSE "ended"

AbstractLease(l) ==
  [state |-> lease[l].state, key |-> lease[l].key,
   gen |-> IF lease[l].state = "active" THEN lease[l].gen ELSE 0]

Pool ==
  INSTANCE LeasePool WITH
      closed <- closing,
      phase <- [g \in Generations |-> AbstractPhase(g)],
      owner <- generationKey,
      alive <- {g \in Generations : Occupies(g)},
      holder <- [l \in Leases |-> AbstractLease(l)],
      user <- connector

\* The registry keeps the promises of the lease pool: a key has one generation
\* that starts, serves or goes away (startLocked); a lease or connector loses
\* its generation only to its own release, to the exit of the process or to
\* shutdown; a ready generation is stopped only when nobody uses it
\* (maybeIdleLocked, expireIdle); a start is abandoned exactly when its last
\* waiter leaves (cancelUnusedStartLocked).
ImplementsLeasePool == Pool!PoolSpec

----------------------------------------
(***************************************************************************)
(* What the step simulation needs to know beyond IInv.                     *)
(***************************************************************************)

\* Every generation handed out was started, and an entry's is its own.
GenerationsOwned ==
  /\ \A g \in Generations : g <= nextGeneration => process[g] # "none"
  /\ \A k \in Keys : entries[k].gen # 0 => generationKey[entries[k].gen] = k

\* The leases that wait in a starting entry wait for its generation, and none
\* waits in a ready one.
OpeningsAttached ==
  \A k \in Keys : \A l \in entries[k].leases :
      /\ entries[k].state = "starting" => lease[l].gen = entries[k].gen
      /\ entries[k].state = "ready" => lease[l].state = "active"

\* An entry without a start or an instance to use has no user, and shutdown
\* leaves no entry one.
RestingUnused ==
  \A k \in Keys : closing \/ entries[k].state \in {"absent", "cold", "failed"} =>
      Unused(entries[k])

SimInv == IInv /\ GenerationsOwned /\ OpeningsAttached /\ RestingUnused
=============================================================================
