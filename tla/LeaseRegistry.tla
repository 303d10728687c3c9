---------------------------- MODULE LeaseRegistry ----------------------------
(***************************************************************************)
(* The agent's registry of resource configurations and their leases        *)
(* (internal/agent/resourcelease).  A resolved configuration has a full    *)
(* digest and a shorter public identity, so two digests may share an       *)
(* identity.  An action is one critical section of s.mu, or one call of a  *)
(* resource handler that the registry makes after unlocking it.            *)
(***************************************************************************)
EXTENDS Integers, FiniteSets

CONSTANTS
    Leases,     \* protocol.LeaseID: every acquisition draws a fresh one
    Ids,        \* protocol.ResourceID
    Digests,    \* resourcehash.Digest
    Confs,      \* normalized configurations
    Resolved,   \* what the resolvers return
    None

ASSUME LeaseAssumption ==
  /\ Resolved \subseteq [id : Ids, digest : Digests, conf : Confs]
  /\ None \notin Resolved
  /\ None \notin Digests
  /\ IsFiniteSet(Leases)

VARIABLES
    lease,      \* every Lease object
    entries,    \* entriesByDigest: the entry of a digest
    byId,       \* entriesByID: the digest of the entry an identity names
    digestOf,   \* digestsByID: the digest an identity was first issued for
    closing,    \* s.closing
    demand      \* leases a resource handler counts for a configuration

leaseVars == <<lease, entries, byId, digestOf, closing, demand>>

\* step says where the calls that concern a lease are: "registered" until the
\* handler learns of it, "held" by its owner, "removed" until the handler
\* learns that it is gone.  closed is Lease.closed and a cancelled lifetime.
Lease ==
  [step : {"unused", "registered", "held", "removed", "released"},
   of : Resolved \cup {None}, closed : BOOLEAN]

\* The entry of a digest: the configuration it was created for, and its leases.
Entry == [of : Resolved \cup {None}, leases : SUBSET Leases]

NoEntry == [of |-> None, leases |-> {}]

LeaseInit ==
  /\ lease = [l \in Leases |-> [step |-> "unused", of |-> None, closed |-> FALSE]]
  /\ entries = [d \in Digests |-> NoEntry]
  /\ byId = [i \in Ids |-> None]
  /\ digestOf = [i \in Ids |-> None]
  /\ closing = FALSE
  /\ demand = [r \in Resolved |-> 0]

----------------------------------------

Issued(l) == lease[l].step # "unused"

\* In s.leases.
Live(l) == Issued(l) /\ ~lease[l].closed

\* The identity of a new entry was issued for another digest.
Collides(r) == digestOf[r.id] # None /\ digestOf[r.id] # r.digest

\* Mutant: an entry found by its digest is taken for the one resolved.
JoinsAnything(r) == TRUE

\* sameConfiguration: the entry found by digest is the one resolved.
Joins(r) == entries[r.digest].of = r

MayAcquire(r) ==
  /\ ~closing
  /\ IF entries[r.digest].of = None THEN ~Collides(r) ELSE Joins(r)

\* AcquireResource, from s.mu.Lock to s.mu.Unlock.
AcquireResource(l, r) ==
  /\ ~Issued(l)
  /\ MayAcquire(r)
  /\ entries' = [entries EXCEPT ![r.digest] =
                   [of |-> IF @.of = None THEN r ELSE @.of,
                    leases |-> @.leases \cup {l}]]
  /\ byId' = [byId EXCEPT ![r.id] = r.digest]
  /\ digestOf' = [digestOf EXCEPT ![r.id] = r.digest]
  /\ lease' = [lease EXCEPT ![l] = [step |-> "registered", of |-> r, closed |-> FALSE]]
  /\ UNCHANGED <<closing, demand>>

\* notifyLeaseAcquired: the handler counts the lease, and AcquireResource
\* returns it to its caller.
NotifyAcquired(l) ==
  /\ lease[l].step = "registered"
  /\ lease' = [lease EXCEPT ![l].step = "held"]
  /\ demand' = [demand EXCEPT ![lease[l].of] = @ + 1]
  /\ UNCHANGED <<entries, byId, digestOf, closing>>

Remaining(d, l) == entries[d].leases \ {l}

\* What release leaves of digestsByID: the identities issued stay known.
DigestsKept(d, l) == digestOf

IdsLeft(d, l) ==
  IF Remaining(d, l) = {} THEN [byId EXCEPT ![lease[l].of.id] = None] ELSE byId

Releases(l) == ~lease[l].closed

\* release, from s.mu.Lock to s.mu.Unlock.  Shutdown has closed its leases,
\* and a closed lease returns at once.  The entry is found by identity; when
\* there is none the handler is not told.
Release(l) ==
  LET d == byId[lease[l].of.id] IN
  /\ lease[l].step \in {"held", "released"}
  /\ IF Releases(l) /\ d # None
     THEN /\ lease' = [lease EXCEPT ![l].step = "removed", ![l].closed = TRUE]
          /\ entries' = [entries EXCEPT ![d] =
                           IF Remaining(d, l) = {}
                           THEN NoEntry
                           ELSE [@ EXCEPT !.leases = Remaining(d, l)]]
          /\ byId' = IdsLeft(d, l)
          /\ digestOf' = DigestsKept(d, l)
     ELSE /\ lease' = [lease EXCEPT ![l].step = "released", ![l].closed = TRUE]
          /\ UNCHANGED <<entries, byId, digestOf>>
  /\ UNCHANGED <<closing, demand>>

\* notifyLeaseReleased.
NotifyReleased(l) ==
  /\ lease[l].step = "removed"
  /\ lease' = [lease EXCEPT ![l].step = "released"]
  /\ demand' = [demand EXCEPT ![lease[l].of] = @ - 1]
  /\ UNCHANGED <<entries, byId, digestOf, closing>>

\* lookupStream and lookupLease: the lease authorises an operation on the
\* configuration its identity names.
Lookup(l) ==
  IF Live(l) /\ byId[lease[l].of.id] # None
  THEN entries[byId[lease[l].of.id]].of
  ELSE None

\* Shutdown, from s.mu.Lock to s.mu.Unlock; the handlers' own shutdown follows
\* in their modules.
Shutdown ==
  /\ ~closing
  /\ closing' = TRUE
  /\ lease' = [l \in Leases |->
                 [lease[l] EXCEPT !.closed = @ \/ lease[l].step # "unused"]]
  /\ entries' = [d \in Digests |-> NoEntry]
  /\ byId' = [i \in Ids |-> None]
  /\ digestOf' = [i \in Ids |-> None]
  /\ UNCHANGED demand

LeaseNext ==
  \/ \E l \in Leases, r \in Resolved : AcquireResource(l, r)
  \/ \E l \in Leases : NotifyAcquired(l) \/ Release(l) \/ NotifyReleased(l)
  \/ Shutdown

LeaseSpec == LeaseInit /\ [][LeaseNext]_leaseVars

----------------------------------------

LeaseTypeOK ==
  /\ lease \in [Leases -> Lease]
  /\ entries \in [Digests -> Entry]
  /\ byId \in [Ids -> Digests \cup {None}]
  /\ digestOf \in [Ids -> Digests \cup {None}]
  /\ closing \in BOOLEAN
  /\ demand \in [Resolved -> Int]

\* The two indexes and the leases agree: an entry exists exactly while it has
\* leases, it is reachable by its digest and by its identity, and the leases it
\* holds are exactly the live leases of its configuration.
EntriesMatchLeases ==
  /\ \A d \in Digests :
       /\ (entries[d].of = None) <=> (entries[d].leases = {})
       /\ entries[d].leases = {l \in Leases : Live(l) /\ lease[l].of.digest = d}
       /\ entries[d].of # None =>
            /\ entries[d].of.digest = d
            /\ byId[entries[d].of.id] = d
  /\ \A i \in Ids : byId[i] # None =>
       /\ entries[byId[i]].of # None
       /\ entries[byId[i]].of.id = i

\* A live lease opens the configuration it was acquired for, and no other one,
\* whatever collisions of digests or identities there are.
LeasesOpenTheirConfiguration ==
  \A l \in Leases : Live(l) => Lookup(l) = lease[l].of

\* For as long as the agent serves, an identity it gave to a client never names
\* a second digest, even after every lease of the first one is gone.
IdentitiesAreNotReused ==
  closing \/ \A l, m \in Leases :
    Issued(l) /\ Issued(m) /\ lease[l].of.id = lease[m].of.id
      => lease[l].of.digest = lease[m].of.digest

\* After Shutdown no lease is live and no entry is left, and this stays so.
ShutdownIsFinal ==
  closing => /\ \A l \in Leases : ~Live(l)
             /\ \A d \in Digests : entries[d] = NoEntry
             /\ \A i \in Ids : byId[i] = None

\* Leases whose acquisition a handler knows of and whose release it does not.
Counted(r) ==
  {l \in Leases : lease[l].of = r /\ lease[l].step \in {"held", "removed"}}

\* While the agent serves, a handler's count is the number of leases between
\* their two notifications, however the notifications of different leases
\* overtake each other: it never goes below zero and ends at zero.
HandlersCountLeases ==
  closing \/ \A r \in Resolved : demand[r] = Cardinality(Counted(r))

\* What the agent tells its clients and its handlers of leases stays true,
\* whatever identities and digests collide: an identity names one digest for
\* good, a live lease opens the configuration it was acquired for and no other,
\* and each handler counts every lease once (AcquireResource, sameConfiguration,
\* release).
LeasesAreAccounted ==
  IdentitiesAreNotReused /\ LeasesOpenTheirConfiguration /\ HandlersCountLeases
=============================================================================
