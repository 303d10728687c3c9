------------------------------ MODULE LeasePool ------------------------------
(***************************************************************************)
(* What the resource registry promises the callers of AcquireWithPolicy,   *)
(* Lease and Connector (internal/agent/resource): the abstract             *)
(* specification ResourceRegistry implements and McpTargets is built on.   *)
(*                                                                         *)
(* A key has at most one generation that starts, serves or goes away.  A   *)
(* lease waits for a generation, uses the ready one or is closed; it loses *)
(* its generation only to its own release, to the exit of the process or   *)
(* to the end of the pool.  A ready generation is given up only when       *)
(* nobody uses it, and a start nobody waits for is abandoned at once.      *)
(* Timers, workers, backoff and failures are the registry's own business.  *)
(***************************************************************************)
EXTENDS Naturals, FiniteSets

CONSTANTS Keys, Leases, Connectors, MaxGeneration, NoKey

VARIABLES
    closed,     \* the pool shuts down
    phase,      \* what a generation is to its callers
    owner,      \* the key a generation serves
    alive,      \* generations that are being started or not yet reaped
    holder,     \* every lease object
    user        \* every connector object

poolVars == <<closed, phase, owner, alive, holder, user>>

Generation == 1 .. MaxGeneration

NoHolder == [state |-> "none", key |-> NoKey, gen |-> 0]
NoUser == [state |-> "none", key |-> NoKey, gen |-> 0]

LeasesOf(k, s) == {l \in Leases : holder[l].key = k /\ holder[l].state = s}

\* Nobody can tell a generation that is going away from one that is gone but
\* for its process.
Rest(g) == IF g \in alive THEN "retiring" ELSE "ended"

Vacant(k) ==
  \A g \in Generation : owner[g] = k => phase[g] \in {"none", "ended"}

Closed(S) ==
  [l \in Leases |-> IF l \in S THEN [holder[l] EXCEPT !.state = "closed", !.gen = 0]
                               ELSE holder[l]]

Disconnect(S) ==
  [c \in Connectors |-> IF c \in S THEN [user[c] EXCEPT !.state = "closed"]
                                   ELSE user[c]]

PoolInit ==
  /\ closed = FALSE
  /\ phase = [g \in Generation |-> "none"]
  /\ owner = [g \in Generation |-> NoKey]
  /\ alive = {}
  /\ holder = [l \in Leases |-> NoHolder]
  /\ user = [c \in Connectors |-> NoUser]

----------------------------------------
(***************************************************************************)
(* Leases.                                                                 *)
(***************************************************************************)

Waits(k) == [state |-> "opening", key |-> k, gen |-> 0]

\* Generations are numbered in the order they begin.
Begins(g, k) ==
  /\ phase[g] = "none"
  /\ \A h \in Generation : h < g => phase[h] # "none"
  /\ ~closed
  /\ Vacant(k)
  /\ phase' = [phase EXCEPT ![g] = "starting"]
  /\ owner' = [owner EXCEPT ![g] = k]
  /\ alive' = alive \cup {g}

\* A lease waits for the generation that starts, or for the next one.
Join(l, k) ==
  /\ holder[l].state = "none"
  /\ ~closed
  /\ \A g \in Generation : owner[g] = k => phase[g] # "ready"
  /\ holder' = [holder EXCEPT ![l] = Waits(k)]
  /\ UNCHANGED <<closed, phase, owner, alive, user>>

\* A lease of an unused key starts a generation.
JoinAndBegin(l, k, g) ==
  /\ holder[l].state = "none"
  /\ Begins(g, k)
  /\ holder' = [holder EXCEPT ![l] = Waits(k)]
  /\ UNCHANGED <<closed, user>>

\* Leases that waited for the end of a generation get the next one.
Begin(g, k) ==
  /\ LeasesOf(k, "opening") # {}
  /\ Begins(g, k)
  /\ UNCHANGED <<closed, holder, user>>

\* A lease of a ready key is active at once.
JoinReady(l, g) ==
  /\ holder[l].state = "none"
  /\ ~closed
  /\ phase[g] = "ready"
  /\ holder' = [holder EXCEPT ![l] =
                   [state |-> "active", key |-> owner[g], gen |-> g]]
  /\ UNCHANGED <<closed, phase, owner, alive, user>>

\* A lease is given back, or its acquire is cancelled: the last one to leave a
\* start abandons it.
Leave(l) ==
  LET k == holder[l].key
  IN  /\ holder[l].state \in {"opening", "active"}
      /\ holder' = Closed({l})
      /\ phase' = [g \in Generation |->
                      IF /\ phase[g] = "starting" /\ owner[g] = k
                         /\ LeasesOf(k, "opening") \subseteq {l}
                      THEN Rest(g) ELSE phase[g]]
      /\ UNCHANGED <<closed, owner, alive, user>>

\* A waiting lease is refused although no generation starts for it.
Refuse(k) ==
  /\ LeasesOf(k, "opening") # {}
  /\ \A g \in Generation : owner[g] = k => phase[g] \notin {"starting", "ready"}
  /\ holder' = Closed(LeasesOf(k, "opening"))
  /\ UNCHANGED <<closed, phase, owner, alive, user>>

----------------------------------------
(***************************************************************************)
(* Connectors.                                                             *)
(***************************************************************************)

Attach(c, l) ==
  /\ user[c].state = "none"
  /\ holder[l].state = "active"
  /\ user' = [user EXCEPT ![c] =
                 [state |-> "open", key |-> holder[l].key, gen |-> holder[l].gen]]
  /\ UNCHANGED <<closed, phase, owner, alive, holder>>

Detach(c) ==
  /\ user[c].state = "open"
  /\ user' = Disconnect({c})
  /\ UNCHANGED <<closed, phase, owner, alive, holder>>

----------------------------------------
(***************************************************************************)
(* Generations.                                                            *)
(***************************************************************************)

\* The generation is ready and so is every lease that waited for it.
Publish(g) ==
  /\ phase[g] = "starting"
  /\ phase' = [phase EXCEPT ![g] = "ready"]
  /\ holder' = [l \in Leases |->
                   IF l \in LeasesOf(owner[g], "opening")
                   THEN [holder[l] EXCEPT !.state = "active", !.gen = g]
                   ELSE holder[l]]
  /\ UNCHANGED <<closed, owner, alive, user>>

\* The start fails or runs out of time: whoever waited for it is told.
StartFails(g) ==
  /\ phase[g] = "starting"
  /\ phase' = [phase EXCEPT ![g] = Rest(g)]
  /\ holder' = Closed(LeasesOf(owner[g], "opening"))
  /\ UNCHANGED <<closed, owner, alive, user>>

\* Nobody uses the generation.
Idle(g) ==
  /\ \A l \in Leases : holder[l].state = "active" => holder[l].gen # g
  /\ \A c \in Connectors : user[c].state = "open" => user[c].gen # g

\* An unused generation is given up.
Retire(g) ==
  /\ phase[g] = "ready"
  /\ Idle(g)
  /\ phase' = [phase EXCEPT ![g] = Rest(g)]
  /\ UNCHANGED <<closed, owner, alive, holder, user>>

\* The process is reaped.  Until the pool notices, a ready generation stays.
Exit(g) ==
  /\ g \in alive
  /\ alive' = alive \ {g}
  /\ phase' = [phase EXCEPT ![g] = IF @ = "retiring" THEN "ended" ELSE @]
  /\ UNCHANGED <<closed, owner, holder, user>>

\* The pool notices the exit: every user of the generation is told.
Notice(g) ==
  /\ phase[g] = "ready"
  /\ g \notin alive
  /\ phase' = [phase EXCEPT ![g] = "ended"]
  /\ holder' = Closed({l \in Leases : holder[l].gen = g /\ holder[l].state = "active"})
  /\ user' = Disconnect({c \in Connectors : user[c].gen = g /\ user[c].state = "open"})
  /\ UNCHANGED <<closed, owner, alive>>

----------------------------------------
\* The pool shuts down: every user is told, no generation starts or serves.
Close ==
  /\ ~closed
  /\ closed' = TRUE
  /\ phase' = [g \in Generation |->
                  IF phase[g] \in {"starting", "ready"} THEN Rest(g) ELSE phase[g]]
  /\ holder' = Closed({l \in Leases : holder[l].state \in {"opening", "active"}})
  /\ user' = Disconnect({c \in Connectors : user[c].state = "open"})
  /\ UNCHANGED <<owner, alive>>

LeaseStep(l) ==
  \/ \E k \in Keys : Join(l, k)
  \/ \E k \in Keys, g \in Generation : JoinAndBegin(l, k, g)
  \/ \E g \in Generation : JoinReady(l, g)
  \/ Leave(l)

GenerationStep(g) ==
  \/ \E k \in Keys : Begin(g, k)
  \/ Publish(g)
  \/ StartFails(g)
  \/ Retire(g)
  \/ Exit(g)
  \/ Notice(g)

PoolNext ==
  \/ \E l \in Leases : LeaseStep(l)
  \/ \E k \in Keys : Refuse(k)
  \/ \E c \in Connectors : Detach(c) \/ \E l \in Leases : Attach(c, l)
  \/ \E g \in Generation : GenerationStep(g)
  \/ Close

PoolSpec == PoolInit /\ [][PoolNext]_poolVars
=============================================================================
